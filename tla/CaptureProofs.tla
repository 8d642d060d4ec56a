----------------------------- MODULE CaptureProofs -----------------------------
(***************************************************************************)
(* Proofs about Capture, for any number of threads, passes, rows and       *)
(* frames: the state stays well typed; the rows a recorder leaves behind   *)
(* are, at every statement, a tree of numbered siblings; its entries are   *)
(* those of the passes in execution; no error is lost; and the file a      *)
(* crash leaves is readable.                                               *)
(***************************************************************************)
EXTENDS Capture, SequenceTheorems, TLAPS

(***************************************************************************)
(* The recorder's part of the invariant, handler by handler: its state     *)
(* stays well typed, every id it keeps is the id of a row, and a callback  *)
(* finds at each of its statements what its guards established.            *)
(***************************************************************************)

-----------------------------------------------------------------------------
(* The statements of TraceStorage: what each does to the tables, and that it *)
(* keeps them well typed.                                                    *)

LEMMA RowIdsAreNat ==
  ASSUME StorageTypeOK
  PROVE  Len(passExecution) \in Nat /\ RowIds = DOMAIN passExecution
BY LenProperties DEF StorageTypeOK, RowIds

LEMMA EmptyTables ==
  /\ <<>> \in Seq(Row) /\ <<>> \in Seq(Event)
  /\ NoOpIndex \in [Ids -> [{0, 1} -> Nat]]
<1>1. <<>> \in Seq(Row) /\ <<>> \in Seq(Event)
  BY EmptySeq
<1>2. NoOpIndex \in [Ids -> [{0, 1} -> Nat]]
  BY DEF NoOpIndex
<1> QED
  BY <1>1, <1>2

\* BeginPass appends one row, whose id is NextRowId.
LEMMA BeginPassRows ==
  ASSUME StorageTypeOK,
         NEW parent \in Ids \union {NoId}, NEW seq \in Nat, NEW name \in Names,
         NEW before \in OptTexts, BeginPass(parent, seq, name, before)
  PROVE  /\ StorageTypeOK'
         /\ Len(passExecution') = Len(passExecution) + 1
         /\ \A r \in RowIds : passExecution'[r] = passExecution[r]
         /\ passExecution'[NextRowId].parent = parent
         /\ passExecution'[NextRowId].seq = seq
         /\ passExecution'[NextRowId].open = TRUE
<1> DEFINE row == [parent |-> parent, seq |-> seq, name |-> name, before |-> before,
                   after |-> NoText, open |-> TRUE, changed |-> FALSE]
<1>1. passExecution' = Append(passExecution, row)
  BY DEF BeginPass
<1>2. row \in Row
  BY DEF Row, OptTexts
<1>3. passExecution \in Seq(Row)
  BY DEF StorageTypeOK
<1>4. row.parent = parent /\ row.seq = seq /\ row.open = TRUE
  OBVIOUS
<1> HIDE DEF row
<1>5. /\ passExecution' \in Seq(Row)
      /\ Len(passExecution') = Len(passExecution) + 1
      /\ \A r \in RowIds : passExecution'[r] = passExecution[r]
      /\ passExecution'[NextRowId] = row
  BY <1>1, <1>2, <1>3, AppendProperties DEF RowIds, NextRowId
<1>6. StorageTypeOK'
  BY <1>5 DEF StorageTypeOK, BeginPass
<1> QED
  BY <1>4, <1>5, <1>6

\* EndPass completes one row and leaves its place in the tree alone.
LEMMA EndPassRows ==
  ASSUME StorageTypeOK,
         NEW id, NEW after \in OptTexts, NEW changed \in BOOLEAN,
         EndPass(id, after, changed)
  PROVE  /\ StorageTypeOK'
         /\ id \in RowIds
         /\ Len(passExecution') = Len(passExecution)
         /\ \A r \in RowIds : /\ passExecution'[r].parent = passExecution[r].parent
                              /\ passExecution'[r].seq = passExecution[r].seq
<1> DEFINE row == [passExecution[id] EXCEPT !.after = after, !.open = FALSE,
                                            !.changed = changed]
<1>1. id \in RowIds /\ passExecution' = [passExecution EXCEPT ![id] = row]
  BY DEF EndPass
<1>2. passExecution \in Seq(Row) /\ passExecution[id] \in Row
  BY <1>1, ElementOfSeq DEF StorageTypeOK, RowIds
<1>3. row \in Row /\ row.parent = passExecution[id].parent
                  /\ row.seq = passExecution[id].seq
  BY <1>2 DEF Row
<1> HIDE DEF row
<1>4. /\ passExecution' \in Seq(Row)
      /\ Len(passExecution') = Len(passExecution)
      /\ \A r \in RowIds : passExecution'[r] = IF r = id THEN row ELSE passExecution[r]
  BY <1>1, <1>2, <1>3, ExceptSeq DEF RowIds
<1>5. StorageTypeOK'
  BY <1>4 DEF StorageTypeOK, EndPass
<1> QED
  BY <1>1, <1>3, <1>4, <1>5

\* The other statements do not touch the rows of pass_execution, except that
\* creating the file empties the table.
LEMMA OtherStatements ==
  ASSUME StorageTypeOK
  PROVE  /\ StatementFails => StorageTypeOK' /\ UNCHANGED passExecution
         /\ CreateFile => StorageTypeOK' /\ passExecution' = <<>>
         /\ \A key \in MetaKeys : SetMeta(key) => StorageTypeOK' /\ UNCHANGED passExecution
         /\ \A text \in Texts : WriteBlob(text) => StorageTypeOK' /\ UNCHANGED passExecution
         /\ \A id \in Ids, side \in {0, 1} :
              WriteOpIndex(id, side) => StorageTypeOK' /\ UNCHANGED passExecution
         /\ \A id \in Ids, seq \in Nat, pattern \in Names,
               source \in {"listener", "action"} :
              WriteIdentityEvent(id, seq, pattern, source)
                => StorageTypeOK' /\ UNCHANGED passExecution
         /\ SealFile \/ SealFails => StorageTypeOK' /\ UNCHANGED passExecution
<1> USE DEF StorageTypeOK
<1>1. StatementFails => StorageTypeOK' /\ UNCHANGED passExecution
  BY DEF StatementFails
<1>2. CreateFile => StorageTypeOK' /\ passExecution' = <<>>
  BY EmptyTables DEF CreateFile
<1>3. ASSUME NEW key \in MetaKeys, SetMeta(key)
      PROVE  StorageTypeOK' /\ UNCHANGED passExecution
  BY <1>3 DEF SetMeta
<1>4. ASSUME NEW text \in Texts, WriteBlob(text)
      PROVE  StorageTypeOK' /\ UNCHANGED passExecution
  BY <1>4 DEF WriteBlob
<1>5. ASSUME NEW id \in Ids, NEW side \in {0, 1}, WriteOpIndex(id, side)
      PROVE  StorageTypeOK' /\ UNCHANGED passExecution
  BY <1>5 DEF WriteOpIndex
<1>6. ASSUME NEW id \in Ids, NEW seq \in Nat, NEW pattern \in Names,
             NEW source \in {"listener", "action"},
             WriteIdentityEvent(id, seq, pattern, source)
      PROVE  StorageTypeOK' /\ UNCHANGED passExecution
  <2> DEFINE event == [pass |-> id, seq |-> seq, pattern |-> pattern, source |-> source]
  <2>1. event \in Event
    BY DEF Event
  <2> HIDE DEF event
  <2>2. Append(opIdentity, event) \in Seq(Event)
    BY <2>1, AppendProperties
  <2> QED
    BY <1>6, <2>2 DEF WriteIdentityEvent, event
<1>7. SealFile \/ SealFails => StorageTypeOK' /\ UNCHANGED passExecution
  BY DEF SealFile, SealFails
<1> QED
  BY <1>1, <1>2, <1>3, <1>4, <1>5, <1>6, <1>7

LEMMA StorageInitType == StorageInit => StorageTypeOK
BY EmptyTables DEF StorageInit, StorageTypeOK

-----------------------------------------------------------------------------
(* The invariant.                                                            *)

\* What the callback that holds the mutex may rely on at its next statement.
CallOK ==
  /\ call.fn = "attach" => ~attached
  /\ call.fn = "beforePass" =>
       /\ attached /\ call.pass \in Passes
       /\ call.step \in {"snapshot", "root", "row", "index"}
       /\ call.step = "snapshot" => call.text \in Texts
       /\ call.step \in {"snapshot", "root"} => Len(passExecution) + 2 <= MaxRows
       /\ call.step = "row" => Len(passExecution) + 1 <= MaxRows /\ rootPass # NoId
       /\ call.step = "root" => rootPass = NoId
       /\ call.step # "index" => Recording
  /\ call.fn = "afterPass" =>
       /\ attached /\ call.pass \in Passes
       /\ call.step = "snapshot" => call.text \in Texts
  /\ call.step = "index" \/ call.fn = "afterPass" =>
       activePasses[call.thread][call.pass].id # NoId

\* Every id the recorder keeps is the id of a row, and the root's row is the first.
IdsOK ==
  /\ rootPass = IF passExecution = <<>> THEN NoId ELSE 1
  /\ \A t \in Threads, p \in Passes : activePasses[t][p].id \in RowIds \union {NoId}
  /\ \A t \in Threads : \A i \in 1 .. Len(pipelineParents[t]) :
       pipelineParents[t][i] \in RowIds \union {NoId}

RecorderInv ==
  /\ StorageTypeOK
  /\ RecorderTypeOK
  /\ CallOK
  /\ IdsOK
  /\ ~attached => passExecution = <<>>

-----------------------------------------------------------------------------
(* Stacks.                                                                  *)

LEMMA PushFacts ==
  ASSUME NEW S, NEW s \in Seq(S), NEW e \in S
  PROVE  /\ Push(s, e) \in Seq(S)
         /\ Len(Push(s, e)) = Len(s) + 1
         /\ \A i \in 1 .. Len(s) : Push(s, e)[i] = s[i]
         /\ Push(s, e)[Len(s) + 1] = e
BY AppendProperties DEF Push

LEMMA PopFacts ==
  ASSUME NEW S, NEW s \in Seq(S)
  PROVE  /\ Pop(s) \in Seq(S)
         /\ Len(Pop(s)) \in 0 .. Len(s)
         /\ \A i \in 1 .. Len(Pop(s)) : Pop(s)[i] = s[i]
<1>1. CASE s = <<>>
  BY <1>1, EmptySeq DEF Pop
<1>2. CASE s # <<>>
  <2>1. Len(s) \in Nat \ {0}
    BY <1>2, EmptySeq
  <2>2. Pop(s) = SubSeq(s, 1, Len(s) - 1)
    BY <1>2 DEF Pop
  <2> DEFINE n == Len(s) - 1
  <2>3. n \in Nat /\ Len(s) = n + 1 /\ \A i \in 1 .. n : s[i] \in S
    BY <2>1, ElementOfSeq
  <2> HIDE DEF n
  <2>4. /\ SubSeq(s, 1, n) \in Seq(S)
        /\ Len(SubSeq(s, 1, n)) = IF 1 <= n THEN n - 1 + 1 ELSE 0
        /\ \A i \in 1 .. (n - 1 + 1) : SubSeq(s, 1, n)[i] = s[1 + i - 1]
    BY <2>3, SubSeqProperties
  <2>5. Len(SubSeq(s, 1, n)) = n /\ \A i \in 1 .. n : SubSeq(s, 1, n)[i] = s[i]
    BY <2>3, <2>4
  <2>6. Pop(s) = SubSeq(s, 1, n)
    BY <2>2 DEF n
  <2> QED
    BY <2>3, <2>4, <2>5, <2>6
<1> QED
  BY <1>1, <1>2

LEMMA LastFacts ==
  ASSUME NEW S, NEW s \in Seq(S), s # <<>>
  PROVE  /\ Len(s) \in Nat \ {0}
         /\ LastOf(s) \in S
<1>1. Len(s) \in Nat \ {0}
  BY EmptySeq
<1>2. s[Len(s)] \in S
  BY <1>1, ElementOfSeq
<1> QED
  BY <1>1, <1>2 DEF LastOf

LEMMA NoCallFacts ==
  NoCall \in Call /\ NoCall.fn = "none" /\ NoCall.step = "idle"
BY RecorderAssumption DEF RecorderAssumption, NoCall, Call, Steps, OptTexts, Names

LEMMA RecorderInitInv == StorageInit /\ RecorderInit => RecorderInv
<1> SUFFICES ASSUME StorageInit, RecorderInit PROVE RecorderInv
  OBVIOUS
<1>1. StorageTypeOK /\ passExecution = <<>>
  BY StorageInitType DEF StorageInit
<1>2. \A S : <<>> \in Seq(S) /\ Len(<<>>) = 0
  BY EmptySeq
<1>3. RecorderTypeOK
  BY <1>2, NoCallFacts
     DEF RecorderInit, RecorderTypeOK, OptTexts, NotActive, ActivePass
<1>4. CallOK
  BY NoCallFacts DEF RecorderInit, CallOK
<1>5. IdsOK
  BY <1>1, <1>2 DEF RecorderInit, IdsOK, NotActive
<1> QED
  BY <1>1, <1>3, <1>4, <1>5 DEF RecorderInv

-----------------------------------------------------------------------------
(* The conjuncts that are easy to keep.                                     *)

\* What most of a callback's statements do: the rows, the ids and the stacks are
\* left alone, and only firstError and call may move.
LEMMA QuietStatement ==
  ASSUME RecorderInv, StorageTypeOK', UNCHANGED <<passExecution, life, root, maps>>,
         firstError' \in BOOLEAN, call' \in Call, CallOK'
  PROVE  RecorderInv'
<1> USE DEF RecorderInv, life, root, maps
<1>1. RecorderTypeOK'
  BY DEF RecorderTypeOK
<1>2. IdsOK'
  BY DEF IdsOK, RowIds
<1> QED
  BY <1>1, <1>2

LEMMA UnlockOK == RecorderInv /\ Unlock => call' \in Call /\ CallOK'
BY NoCallFacts DEF Unlock, CallOK

LEMMA GoToFacts ==
  ASSUME RecorderInv, NEW step \in Steps, GoTo(step)
  PROVE  /\ call' \in Call
         /\ call'.step = step /\ call'.fn = call.fn /\ call'.thread = call.thread
         /\ call'.pass = call.pass /\ call'.text = call.text
         /\ call'.failed = call.failed
BY DEF GoTo, Call, RecorderInv, RecorderTypeOK

-----------------------------------------------------------------------------
(* attach() and finish().                                                   *)

LEMMA AttachInv == RecorderInv /\ Attach => RecorderInv'
<1> SUFFICES ASSUME RecorderInv, Attach PROVE RecorderInv'
  OBVIOUS
<1>1. /\ UNCHANGED <<storageVars, life, firstError, root, maps>>
      /\ ~attached
      /\ call' = [NoCall EXCEPT !.fn = "attach", !.step = "create"]
  BY DEF Attach
<1>2. call' \in Call /\ call'.fn = "attach" /\ call'.step = "create"
  BY <1>1, NoCallFacts DEF Call, Steps
<1>3. CallOK'
  BY <1>1, <1>2 DEF CallOK, life
<1>4. StorageTypeOK' /\ firstError' \in BOOLEAN
  BY <1>1 DEF RecorderInv, RecorderTypeOK, StorageTypeOK, storageVars
<1> QED
  BY <1>1, <1>2, <1>3, <1>4, QuietStatement DEF storageVars

\* A failing statement, or one that only writes metadata, within attach().
LEMMA AttachStatementInv ==
  ASSUME RecorderInv,
         NEW step \in Steps \ {"index"}, At("attach", step),
         StorageTypeOK', UNCHANGED passExecution, UNCHANGED <<life, firstError, root, maps>>,
         Unlock \/ \E next \in Steps \ {"index"} : GoTo(next)
  PROVE  RecorderInv'
<1>1. call' \in Call /\ CallOK'
  <2>1. CASE Unlock
    BY <2>1, UnlockOK
  <2>2. ASSUME NEW next \in Steps \ {"index"}, GoTo(next) PROVE call' \in Call /\ CallOK'
    <3>1. call' \in Call /\ call'.fn = "attach" /\ call'.step # "index"
      BY <2>2, GoToFacts DEF At
    <3>2. ~attached'
      BY DEF RecorderInv, CallOK, At, life
    <3> QED
      BY <3>1, <3>2 DEF CallOK
  <2> QED
    BY <2>1, <2>2
<1> QED
  BY <1>1, QuietStatement DEF RecorderInv, RecorderTypeOK

LEMMA AttachCreateInv == RecorderInv /\ AttachCreate => RecorderInv'
<1> SUFFICES ASSUME RecorderInv, AttachCreate PROVE RecorderInv'
  OBVIOUS
<1>1. At("attach", "create") /\ UNCHANGED <<life, firstError, root, maps>>
  BY DEF AttachCreate, AttachStatement
<1>2. passExecution = <<>>
  BY <1>1 DEF RecorderInv, CallOK, At
<1>3. StorageTypeOK' /\ UNCHANGED passExecution
  BY <1>2, OtherStatements DEF AttachCreate, AttachStatement, RecorderInv
<1>4. Unlock \/ GoTo("version")
  BY DEF AttachCreate, AttachStatement
<1>5. "create" \in Steps \ {"index"} /\ "version" \in Steps \ {"index"}
  BY DEF Steps
<1>6. Unlock \/ \E next \in Steps \ {"index"} : GoTo(next)
  BY <1>4, <1>5
<1> QED
  BY <1>1, <1>3, <1>5, <1>6, AttachStatementInv

LEMMA AttachProducerInv == RecorderInv /\ AttachProducer => RecorderInv'
<1> SUFFICES ASSUME RecorderInv, AttachProducer PROVE RecorderInv'
  OBVIOUS
<1>1. At("attach", "producer") /\ UNCHANGED <<life, firstError, root, maps>>
  BY DEF AttachProducer, AttachStatement
<1>2. StorageTypeOK' /\ UNCHANGED passExecution
  BY OtherStatements DEF AttachProducer, AttachStatement, RecorderInv, MetaKeys
<1>3. Unlock \/ GoTo("fidelity")
  BY DEF AttachProducer, AttachStatement
<1>4. "producer" \in Steps \ {"index"} /\ "fidelity" \in Steps \ {"index"}
  BY DEF Steps
<1>5. Unlock \/ \E next \in Steps \ {"index"} : GoTo(next)
  BY <1>3, <1>4
<1> QED
  BY <1>1, <1>2, <1>4, <1>5, AttachStatementInv

LEMMA AttachVersionInv == RecorderInv /\ AttachVersion => RecorderInv'
<1> SUFFICES ASSUME RecorderInv, AttachVersion PROVE RecorderInv'
  OBVIOUS
<1>1. StorageTypeOK' /\ UNCHANGED passExecution
  BY OtherStatements DEF AttachVersion, RecorderInv, MetaKeys
<1>2. call' \in Call /\ CallOK'
  <2>1. CASE Unlock
    BY <2>1, UnlockOK
  <2>2. CASE GoTo("producer")
    <3>1. call' \in Call /\ call'.fn = "attach" /\ call'.step = "producer"
      BY <2>2, GoToFacts DEF At, AttachVersion, Steps
    <3>2. ~attached'
      BY DEF RecorderInv, CallOK, At, AttachVersion
    <3> QED
      BY <3>1, <3>2 DEF CallOK
  <2> QED
    BY <2>1, <2>2 DEF AttachVersion
<1>3. RecorderTypeOK'
  BY <1>2 DEF RecorderInv, RecorderTypeOK, AttachVersion, root, maps
<1>4. IdsOK'
  BY <1>1 DEF RecorderInv, IdsOK, RowIds, AttachVersion, root, maps
<1> QED
  BY <1>1, <1>2, <1>3, <1>4 DEF RecorderInv, AttachVersion

LEMMA AttachFidelityInv == RecorderInv /\ AttachFidelity => RecorderInv'
<1> SUFFICES ASSUME RecorderInv, AttachFidelity PROVE RecorderInv'
  OBVIOUS
<1>1. StorageTypeOK' /\ UNCHANGED passExecution
  BY OtherStatements DEF AttachFidelity, RecorderInv, MetaKeys
<1>2. call' \in Call /\ CallOK'
  BY UnlockOK DEF AttachFidelity
<1>3. attached' \in BOOLEAN /\ actionHandler' \in BOOLEAN
  BY DEF AttachFidelity, RecorderInv, RecorderTypeOK
<1>4. RecorderTypeOK'
  BY <1>2, <1>3 DEF RecorderInv, RecorderTypeOK, AttachFidelity, root, maps
<1>5. IdsOK'
  BY <1>1 DEF RecorderInv, IdsOK, RowIds, AttachFidelity, root, maps
<1>6. ~attached' => passExecution' = <<>>
  BY <1>1 DEF RecorderInv, CallOK, At, AttachFidelity
<1> QED
  BY <1>1, <1>2, <1>4, <1>5, <1>6 DEF RecorderInv

LEMMA FinishInv == RecorderInv /\ Finish => RecorderInv'
<1> SUFFICES ASSUME RecorderInv, Finish PROVE RecorderInv'
  OBVIOUS
<1>1. StorageTypeOK' /\ UNCHANGED passExecution
  BY OtherStatements DEF Finish, RecorderInv
<1>2. /\ finished' \in BOOLEAN /\ actionHandler' \in BOOLEAN /\ firstError' \in BOOLEAN
      /\ reported' \in {"none", "ok", "error"}
  BY DEF Finish
<1>3. RecorderTypeOK'
  BY <1>2 DEF Finish, RecorderInv, RecorderTypeOK, root, maps
<1>4. IdsOK'
  BY <1>1 DEF Finish, RecorderInv, IdsOK, RowIds, root, maps
<1>5. CallOK'
  <2>1. call'.fn = "none" /\ call' = call
    BY DEF Finish, LockFree
  <2>2. UNCHANGED activePasses
    BY DEF Finish, maps
  <2> QED
    BY <2>1, <2>2 DEF CallOK, RecorderInv
<1> QED
  BY <1>1, <1>3, <1>4, <1>5 DEF RecorderInv, Finish

-----------------------------------------------------------------------------
(* beforePipeline, afterPipeline.                                           *)

LEMMA BeforePipelineInv ==
  ASSUME RecorderInv, NEW t \in Threads, NEW o \in Threads, NEW p \in Passes,
         BeforePipeline(t, o, p)
  PROVE  RecorderInv'
<1> DEFINE id == activePasses[o][p].id
<1>1. id \in RowIds \union {NoId} /\ id \in Ids \union {NoId}
  BY DEF RecorderInv, RecorderTypeOK, IdsOK, ActivePass
<1>2. pipelineParents[t] \in Seq(Ids \union {NoId})
  BY DEF RecorderInv, RecorderTypeOK
<1>3. \/ UNCHANGED pipelineParents
      \/ pipelineParents' = [pipelineParents EXCEPT ![t] = Push(pipelineParents[t], id)]
  BY DEF BeforePipeline
<1> HIDE DEF id
<1> DEFINE S      == Ids \union {NoId}
           pushed == Push(pipelineParents[t], id)
           n      == Len(pipelineParents[t])
<1> HIDE DEF S
<1>0. /\ pushed \in Seq(S) /\ Len(pushed) = n + 1 /\ n \in Nat
      /\ pushed[n + 1] = id /\ \A i \in 1 .. n : pushed[i] = pipelineParents[t][i]
  <2> DEFINE s == pipelineParents[t]
  <2>1. s \in Seq(S) /\ id \in S
    BY <1>1, <1>2 DEF S
  <2> HIDE DEF s
  <2>2. /\ Push(s, id) \in Seq(S) /\ Len(Push(s, id)) = Len(s) + 1
        /\ Push(s, id)[Len(s) + 1] = id
        /\ \A i \in 1 .. Len(s) : Push(s, id)[i] = s[i]
    BY <2>1, PushFacts
  <2>3. Len(s) \in Nat
    BY <2>1, LenProperties
  <2> QED
    BY <2>2, <2>3 DEF s
<1> HIDE DEF pushed
<1>4. pipelineParents' \in [Threads -> Seq(S)]
  BY <1>0, <1>3 DEF RecorderInv, RecorderTypeOK, S, pushed
<1>5. \A u \in Threads : \A i \in 1 .. Len(pipelineParents'[u]) :
         pipelineParents'[u][i] \in RowIds \union {NoId}
  <2>1. CASE UNCHANGED pipelineParents
    BY <2>1 DEF RecorderInv, IdsOK
  <2>2. CASE pipelineParents' = [pipelineParents EXCEPT ![t] = Push(pipelineParents[t], id)]
    <3>1. \A u \in Threads : pipelineParents'[u] =
             IF u = t THEN pushed ELSE pipelineParents[u]
      BY <2>2 DEF RecorderInv, RecorderTypeOK, pushed
    <3>2. \A i \in 1 .. Len(pushed) : pushed[i] \in RowIds \union {NoId}
      BY <1>0, <1>1 DEF RecorderInv, IdsOK
    <3> QED
      BY <3>1, <3>2 DEF RecorderInv, IdsOK
  <2> QED
    BY <1>3, <2>1, <2>2
<1>6. StorageTypeOK' /\ UNCHANGED passExecution
  BY DEF BeforePipeline, storageVars, RecorderInv, StorageTypeOK
<1>7. RecorderTypeOK'
  BY <1>4 DEF BeforePipeline, RecorderInv, RecorderTypeOK, life, root, S
<1>8. IdsOK'
  BY <1>5, <1>6 DEF BeforePipeline, RecorderInv, IdsOK, RowIds, root
<1>9. CallOK'
  BY <1>6 DEF BeforePipeline, LockFree, RecorderInv, CallOK
<1> QED
  BY <1>6, <1>7, <1>8, <1>9 DEF RecorderInv, BeforePipeline, life

LEMMA AfterPipelineInv ==
  ASSUME RecorderInv, NEW t \in Threads, AfterPipeline(t)
  PROVE  RecorderInv'
<1>1. /\ pipelineParents[t] \in Seq(Ids \union {NoId})
      /\ pipelineParents' = [pipelineParents EXCEPT ![t] = Pop(pipelineParents[t])]
  BY DEF RecorderInv, RecorderTypeOK, AfterPipeline
<1>2. pipelineParents' \in [Threads -> Seq(Ids \union {NoId})]
  BY <1>1, PopFacts DEF RecorderInv, RecorderTypeOK
<1>3. \A u \in Threads : \A i \in 1 .. Len(pipelineParents'[u]) :
         pipelineParents'[u][i] \in RowIds \union {NoId}
  <2>1. \A u \in Threads : pipelineParents'[u] =
           IF u = t THEN Pop(pipelineParents[t]) ELSE pipelineParents[u]
    BY <1>1 DEF RecorderInv, RecorderTypeOK
  <2>2. \A i \in 1 .. Len(Pop(pipelineParents[t])) :
           Pop(pipelineParents[t])[i] \in RowIds \union {NoId}
    BY <1>1, PopFacts, LenProperties DEF RecorderInv, IdsOK
  <2> QED
    BY <2>1, <2>2 DEF RecorderInv, IdsOK
<1>4. StorageTypeOK' /\ UNCHANGED passExecution
  BY DEF AfterPipeline, storageVars, RecorderInv, StorageTypeOK
<1>5. RecorderTypeOK'
  BY <1>2 DEF AfterPipeline, RecorderInv, RecorderTypeOK, life, root
<1>6. IdsOK'
  BY <1>3, <1>4 DEF AfterPipeline, RecorderInv, IdsOK, RowIds, root
<1>7. CallOK'
  BY <1>4 DEF AfterPipeline, LockFree, RecorderInv, CallOK
<1> QED
  BY <1>4, <1>5, <1>6, <1>7 DEF RecorderInv, AfterPipeline, life

-----------------------------------------------------------------------------
(* beforePass.                                                              *)

\* The callers of beforePass leave room for the root's row and the pass's own.
LEMMA BeforePassInv ==
  ASSUME RecorderInv, attached, Len(passExecution) + 2 <= MaxRows,
         NEW t \in Threads, NEW p \in Passes, NEW text \in Texts,
         BeforePass(t, p, text)
  PROVE  RecorderInv'
<1>1. UNCHANGED <<storageVars, life, firstError, root, maps>>
  BY DEF BeforePass
<1>2. call' \in Call /\ CallOK'
  <2>1. CASE ~Recording
    BY <1>1, <2>1
       DEF BeforePass, LockFree, RecorderInv, RecorderTypeOK, CallOK, life, maps
  <2>2. CASE Recording
    <3> DEFINE step == IF Fidelity = "timeline" THEN AfterSnapshotStep ELSE "snapshot"
               seen == IF Fidelity = "timeline" THEN NoText ELSE text
    <3>1. call' = [fn |-> "beforePass", thread |-> t, pass |-> p, failed |-> FALSE,
                   step |-> step, text |-> seen, ordinal |-> 0]
      BY <2>2 DEF BeforePass
    <3>2. /\ step \in {"snapshot", "root", "row"} /\ seen \in OptTexts
          /\ step = "snapshot" => seen \in Texts
          /\ step = "root" => rootPass = NoId
          /\ step = "row" => rootPass # NoId
      BY DEF AfterSnapshotStep, OptTexts
    <3> HIDE DEF step, seen
    <3>3. call' \in Call
      BY <3>1, <3>2 DEF Call, Steps, Names
    <3>4. Len(passExecution) \in Nat
      BY RowIdsAreNat DEF RecorderInv
    <3>5. Recording' /\ attached' /\ UNCHANGED <<passExecution, rootPass>>
      BY <1>1, <2>2 DEF Recording, life, root, storageVars
    <3>6. /\ call'.fn = "beforePass" /\ call'.pass = p /\ call'.step = step
          /\ call'.text = seen
      BY <3>1
    <3>7. MaxRows \in Nat
      BY StorageAssumption DEF StorageAssumption
    <3> QED
      BY <3>2, <3>3, <3>4, <3>5, <3>6, <3>7 DEF CallOK
  <2> QED
    BY <2>1, <2>2
<1>3. StorageTypeOK' /\ firstError' \in BOOLEAN
  BY <1>1 DEF RecorderInv, RecorderTypeOK, StorageTypeOK, storageVars
<1> QED
  BY <1>1, <1>2, <1>3, QuietStatement DEF storageVars

LEMMA BeforeSnapshotInv == RecorderInv /\ BeforeSnapshot => RecorderInv'
<1> SUFFICES ASSUME RecorderInv, BeforeSnapshot PROVE RecorderInv'
  OBVIOUS
<1>1. At("beforePass", "snapshot") /\ UNCHANGED <<life, root, maps>>
  BY DEF BeforeSnapshot
<1>2. call.text \in Texts /\ Len(passExecution) + 2 <= MaxRows /\ call.pass \in Passes
      /\ attached /\ Recording
  BY <1>1 DEF At, RecorderInv, CallOK
<1>3. StorageTypeOK' /\ UNCHANGED passExecution
  BY <1>2, OtherStatements DEF BeforeSnapshot, RecorderInv
<1>4. firstError' \in BOOLEAN
  BY DEF BeforeSnapshot, RememberError, RecorderInv, RecorderTypeOK
<1>5. call' \in Call /\ CallOK'
  <2>1. CASE Unlock
    BY <2>1, UnlockOK
  <2>2. CASE GoTo(AfterSnapshotStep) /\ UNCHANGED firstError
          /\ WriteBlob(call.text)
    <3>1. AfterSnapshotStep \in Steps /\ AfterSnapshotStep \in {"root", "row"}
          /\ (AfterSnapshotStep = "root" => rootPass = NoId)
          /\ (AfterSnapshotStep = "row" => rootPass # NoId)
      BY DEF AfterSnapshotStep, Steps
    <3>2. /\ call' \in Call
          /\ call'.step = AfterSnapshotStep /\ call'.fn = "beforePass"
          /\ call'.pass = call.pass
      BY <1>1, <2>2, <3>1, GoToFacts DEF At
    <3>3. Recording' /\ attached' /\ UNCHANGED rootPass
      BY <1>1, <1>2, <2>2 DEF Recording, life, root
    <3>4. Len(passExecution) \in Nat
      BY RowIdsAreNat DEF RecorderInv
    <3>5. MaxRows \in Nat
      BY StorageAssumption DEF StorageAssumption
    <3> QED
      BY <1>2, <1>3, <3>1, <3>2, <3>3, <3>4, <3>5 DEF CallOK
  <2> QED
    BY <2>1, <2>2 DEF BeforeSnapshot
<1> QED
  BY <1>1, <1>3, <1>4, <1>5, QuietStatement

\* A new row keeps every id valid.
LEMMA MoreRowIds ==
  ASSUME StorageTypeOK, Len(passExecution') = Len(passExecution) + 1
  PROVE  /\ RowIds \subseteq RowIds' /\ NextRowId \in RowIds'
         /\ passExecution' # <<>>
<1>1. Len(passExecution) \in Nat
  BY RowIdsAreNat
<1>2. Len(<<>>) = 0
  BY EmptySeq
<1> QED
  BY <1>1, <1>2 DEF RowIds, NextRowId

LEMMA CreateRootInv == RecorderInv /\ CreateRoot => RecorderInv'
<1> SUFFICES ASSUME RecorderInv, CreateRoot PROVE RecorderInv'
  OBVIOUS
<1>1. At("beforePass", "root") /\ UNCHANGED <<life, maps>>
  BY DEF CreateRoot
<1>2. rootPass = NoId /\ Len(passExecution) + 2 <= MaxRows /\ call.pass \in Passes
      /\ attached /\ Recording
  BY <1>1 DEF At, RecorderInv, CallOK
<1>3. CASE StatementFails /\ RememberError /\ Unlock /\ UNCHANGED root
  <2>1. StorageTypeOK' /\ UNCHANGED passExecution
    BY <1>3, OtherStatements DEF RecorderInv
  <2>2. call' \in Call /\ CallOK' /\ firstError' \in BOOLEAN
    BY <1>3, UnlockOK DEF RememberError
  <2> QED
    BY <1>1, <1>3, <2>1, <2>2, QuietStatement
<1>4. CASE /\ BeginPass(NoId, 0, NoPass, call.text)
           /\ rootPass' = NextRowId /\ rootBefore' = call.text
           /\ GoTo("row") /\ UNCHANGED firstError
  <2>1. NoId \in Ids \union {NoId} /\ 0 \in Nat /\ NoPass \in Names
        /\ call.text \in OptTexts
    BY DEF Names, RecorderInv, RecorderTypeOK, Call
  <2>2. StorageTypeOK' /\ Len(passExecution') = Len(passExecution) + 1
    BY <1>4, <2>1, BeginPassRows DEF RecorderInv
  <2>3. Len(passExecution) = 0 /\ MaxRows \in Nat /\ passExecution = <<>>
    <3>1. passExecution = <<>>
      BY <1>2 DEF RecorderInv, IdsOK, NoId
    <3> QED
      BY <3>1, EmptySeq, StorageAssumption DEF StorageAssumption
  <2>4. rootPass' = 1 /\ rootPass' \in Ids
    BY <1>2, <1>4, <2>3 DEF NextRowId, Ids
  <2>5. /\ call' \in Call /\ call'.step = "row" /\ call'.fn = "beforePass"
        /\ call'.pass = call.pass
    <3>1. "row" \in Steps
      BY DEF Steps
    <3> QED
      BY <1>1, <1>4, <3>1, GoToFacts DEF At
  <2>6. RowIds \subseteq RowIds' /\ passExecution' # <<>>
    BY <2>2, MoreRowIds DEF RecorderInv
  <2>7. CallOK'
    <3>1. Recording' /\ attached'
      BY <1>1, <1>2, <1>4 DEF Recording, life
    <3> QED
      BY <1>2, <2>2, <2>3, <2>4, <2>5, <3>1 DEF CallOK, NoId
  <2>8. RecorderTypeOK'
    BY <1>1, <1>4, <2>1, <2>4, <2>5 DEF RecorderInv, RecorderTypeOK, life, maps
  <2>9. IdsOK'
    BY <1>1, <2>4, <2>6 DEF RecorderInv, IdsOK, maps
  <2> QED
    BY <1>1, <1>2, <2>2, <2>7, <2>8, <2>9 DEF RecorderInv, life
<1> QED
  BY <1>3, <1>4 DEF CreateRoot

LEMMA ParentForFacts ==
  ASSUME RecorderInv, NEW t \in Threads, rootPass # NoId
  PROVE  ParentFor(t) \in RowIds /\ ParentFor(t) \in Ids
<1>1. rootPass = 1 /\ passExecution # <<>>
  BY DEF RecorderInv, IdsOK, NoId
<1>2. Len(passExecution) \in Nat \ {0}
  BY <1>1, EmptySeq DEF RecorderInv, StorageTypeOK
<1>3. CASE pipelineParents[t] # <<>> /\ LastOf(pipelineParents[t]) # NoId
  <2> DEFINE S == Ids \union {NoId}
             s == pipelineParents[t]
  <2>1. s \in Seq(S) /\ s # <<>>
    BY <1>3 DEF RecorderInv, RecorderTypeOK
  <2>2. \A i \in 1 .. Len(s) : s[i] \in RowIds \union {NoId}
    BY DEF RecorderInv, IdsOK
  <2> HIDE DEF S, s
  <2>3. Len(s) \in Nat \ {0} /\ LastOf(s) \in S
    BY <2>1, LastFacts
  <2>4. LastOf(s) \in RowIds \union {NoId}
    BY <2>2, <2>3 DEF LastOf
  <2>5. ParentFor(t) = LastOf(s) /\ LastOf(s) # NoId
    BY <1>3 DEF ParentFor, s
  <2> QED
    BY <2>3, <2>4, <2>5 DEF S
<1>4. CASE ~(pipelineParents[t] # <<>> /\ LastOf(pipelineParents[t]) # NoId)
  <2>1. ParentFor(t) = rootPass
    BY <1>4 DEF ParentFor
  <2>2. rootPass \in Ids
    BY <1>1 DEF RecorderInv, RecorderTypeOK, NoId
  <2> QED
    BY <1>1, <1>2, <2>1, <2>2 DEF RowIds
<1> QED
  BY <1>3, <1>4

\* Registering an execution under the id of the row just written.
LEMMA RegisterPassFacts ==
  ASSUME RecorderInv, NEW t \in Threads, NEW p \in Passes, NEW parent \in Ids,
         NextRowId \in Ids, call.text \in OptTexts,
         RegisterPass(t, p, parent)
  PROVE  /\ activePasses' \in [Threads -> [Passes -> ActivePass]]
         /\ activePassIds' \in [Threads -> Seq(Ids)]
         /\ firstError' \in BOOLEAN
         /\ Unlock \/ (GoTo("index") /\ activePasses'[t][p].id = NextRowId)
         /\ \A u \in Threads, q \in Passes :
              activePasses'[u][q].id \in {activePasses[u][q].id, NextRowId}
<1>1. CASE activePasses[t][p].id # NoId
  BY <1>1 DEF RegisterPass, RememberError, RecorderInv, RecorderTypeOK
<1>2. CASE activePasses[t][p].id = NoId
  <2> DEFINE entry == [id |-> NextRowId, parent |-> parent, before |-> call.text]
             s == activePassIds[t]
  <2>1. entry \in ActivePass /\ entry.id = NextRowId
    BY DEF ActivePass
  <2>2. /\ activePasses' = [activePasses EXCEPT ![t][p] = entry]
        /\ activePassIds' = [activePassIds EXCEPT ![t] = Push(s, NextRowId)]
        /\ Unlock \/ GoTo("index")
        /\ UNCHANGED firstError
    BY <1>2 DEF RegisterPass
  <2>3. s \in Seq(Ids)
    BY DEF RecorderInv, RecorderTypeOK
  <2> HIDE DEF entry, s
  <2>4. Push(s, NextRowId) \in Seq(Ids)
    BY <2>3, PushFacts
  <2> QED
    BY <2>1, <2>2, <2>4 DEF RecorderInv, RecorderTypeOK
<1> QED
  BY <1>1, <1>2

LEMMA CreateRowInv == RecorderInv /\ CreateRow => RecorderInv'
<1> SUFFICES ASSUME RecorderInv, CreateRow PROVE RecorderInv'
  OBVIOUS
<1> DEFINE t == call.thread
           p == call.pass
           parent == ParentFor(t)
<1>1. At("beforePass", "row") /\ UNCHANGED <<life, root, stacks, nextIdentitySequence>>
  BY DEF CreateRow
<1>2. /\ t \in Threads /\ p \in Passes /\ call.text \in OptTexts
      /\ rootPass # NoId /\ Len(passExecution) + 1 <= MaxRows /\ attached
  BY <1>1 DEF At, RecorderInv, RecorderTypeOK, CallOK, Call
<1>3. parent \in RowIds /\ parent \in Ids
  BY <1>2, ParentForFacts
<1>4. nextSequence' = [nextSequence EXCEPT ![parent] = nextSequence[parent] + 1]
  BY DEF CreateRow
<1>5. nextSequence' \in [Ids -> Nat] /\ nextSequence[parent] \in Nat
  BY <1>3, <1>4 DEF RecorderInv, RecorderTypeOK
<1>6. Len(passExecution) \in Nat /\ MaxRows \in Nat
  BY RowIdsAreNat, StorageAssumption DEF RecorderInv, StorageAssumption
<1>7. CASE StatementFails /\ RememberError /\ Unlock
             /\ UNCHANGED <<activePasses, activePassIds>>
  <2>1. StorageTypeOK' /\ UNCHANGED passExecution
    BY <1>7, OtherStatements DEF RecorderInv
  <2>2. call' \in Call /\ CallOK' /\ firstError' \in BOOLEAN
    BY <1>7, UnlockOK DEF RememberError
  <2>3. RecorderTypeOK'
    BY <1>1, <1>5, <1>7, <2>2 DEF RecorderInv, RecorderTypeOK, life, root, stacks
  <2>4. IdsOK'
    BY <1>1, <1>7, <2>1 DEF RecorderInv, IdsOK, RowIds, root, stacks
  <2> QED
    BY <1>1, <2>1, <2>2, <2>3, <2>4 DEF RecorderInv, life
<1>8. CASE /\ BeginPass(parent, SequenceOf(parent), p, call.text)
           /\ RegisterPass(t, p, parent)
  <2>1. StorageTypeOK' /\ Len(passExecution') = Len(passExecution) + 1
    <3>1. SequenceOf(parent) \in Nat /\ p \in Names /\ parent \in Ids \union {NoId}
      BY <1>2, <1>3, <1>5 DEF SequenceOf, Names
    <3> QED
      BY <1>2, <1>8, <3>1, BeginPassRows DEF RecorderInv
  <2>2. RowIds \subseteq RowIds' /\ NextRowId \in RowIds' /\ passExecution' # <<>>
    BY <2>1, MoreRowIds DEF RecorderInv
  <2>3. NextRowId \in Ids /\ NextRowId # NoId
    BY <1>2, <1>6 DEF NextRowId, Ids, NoId
  <2>4. /\ activePasses' \in [Threads -> [Passes -> ActivePass]]
        /\ activePassIds' \in [Threads -> Seq(Ids)]
        /\ firstError' \in BOOLEAN
        /\ Unlock \/ (GoTo("index") /\ activePasses'[t][p].id = NextRowId)
        /\ \A u \in Threads, q \in Passes :
             activePasses'[u][q].id \in {activePasses[u][q].id, NextRowId}
    BY <1>2, <1>3, <1>8, <2>3, RegisterPassFacts
  <2>5. call' \in Call /\ CallOK'
    <3>1. CASE Unlock
      BY <3>1, UnlockOK
    <3>2. CASE GoTo("index") /\ activePasses'[t][p].id = NextRowId
      <4>1. "index" \in Steps
        BY DEF Steps
      <4>2. /\ call' \in Call /\ call'.fn = "beforePass" /\ call'.step = "index"
            /\ call'.thread = t /\ call'.pass = p
        BY <1>1, <3>2, <4>1, GoToFacts DEF At
      <4>3. attached'
        BY <1>1, <1>2 DEF life
      <4> QED
        BY <1>2, <2>3, <3>2, <4>2, <4>3 DEF CallOK
    <3> QED
      BY <2>4, <3>1, <3>2
  <2>6. RecorderTypeOK'
    BY <1>1, <1>5, <2>4, <2>5 DEF RecorderInv, RecorderTypeOK, life, root, stacks
  <2>7. IdsOK'
    <3>1. rootPass' = 1
      BY <1>1, <1>2 DEF RecorderInv, IdsOK, root, NoId
    <3>2. \A u \in Threads, q \in Passes : activePasses'[u][q].id \in RowIds' \union {NoId}
      BY <2>2, <2>4 DEF RecorderInv, IdsOK
    <3> QED
      BY <1>1, <2>2, <3>1, <3>2 DEF RecorderInv, IdsOK, stacks
  <2> QED
    BY <1>1, <1>2, <2>1, <2>5, <2>6, <2>7 DEF RecorderInv, life
<1> QED
  BY <1>7, <1>8 DEF CreateRow

\* One row of a snapshot's index, in either callback.
LEMMA IndexRowFacts ==
  ASSUME RecorderInv, call.step = "index", call.fn \in {"beforePass", "afterPass"},
         NEW side \in {0, 1}, NEW next \in {"idle", "end"}, IndexRow(side, next)
  PROVE  /\ StorageTypeOK' /\ UNCHANGED passExecution
         /\ firstError' \in BOOLEAN
         /\ \/ Unlock
            \/ /\ call' \in Call /\ call'.fn = call.fn /\ call'.pass = call.pass
               /\ call'.thread = call.thread /\ call'.step \in {"index", "end"}
               /\ next = "idle" => call'.step = "index"
<1>1. call.thread \in Threads /\ call.pass \in Passes
  BY DEF RecorderInv, RecorderTypeOK, CallOK, Call
<1>2. ASSUME WriteOpIndex(activePasses[call.thread][call.pass].id, side),
             UNCHANGED firstError
      PROVE  StorageTypeOK' /\ UNCHANGED passExecution /\ firstError' \in BOOLEAN
  <2>1. activePasses[call.thread][call.pass].id \in Ids
    BY <1>1 DEF RecorderInv, RecorderTypeOK, CallOK, ActivePass
  <2> QED
    BY <1>2, <2>1, OtherStatements DEF RecorderInv, RecorderTypeOK
<1>3. ASSUME StatementFails, RememberError
      PROVE  StorageTypeOK' /\ UNCHANGED passExecution /\ firstError' \in BOOLEAN
  BY <1>3, OtherStatements DEF RecorderInv, RememberError
<1>4. ASSUME call' = [call EXCEPT !.ordinal = call.ordinal + 1]
      PROVE  /\ call' \in Call /\ call'.fn = call.fn /\ call'.pass = call.pass
             /\ call'.thread = call.thread /\ call'.step = "index"
  <2> DEFINE n == call.ordinal + 1
  <2>1. n \in Nat
    BY DEF RecorderInv, RecorderTypeOK, Call
  <2>2. call' = [call EXCEPT !.ordinal = n]
    BY <1>4
  <2> HIDE DEF n
  <2> QED
    BY <2>1, <2>2 DEF RecorderInv, RecorderTypeOK, Call
<1>5. ASSUME next # "idle", GoTo(next)
      PROVE  /\ call' \in Call /\ call'.fn = call.fn /\ call'.pass = call.pass
             /\ call'.thread = call.thread /\ call'.step = "end"
  <2>1. next \in Steps
    BY DEF Steps
  <2> QED
    BY <1>5, <2>1, GoToFacts
<1>6. \/ Unlock \/ (next # "idle" /\ GoTo(next))
      \/ call' = [call EXCEPT !.ordinal = call.ordinal + 1]
  BY DEF IndexRow
<1>7. \/ Unlock
      \/ /\ call' \in Call /\ call'.fn = call.fn /\ call'.pass = call.pass
         /\ call'.thread = call.thread /\ call'.step \in {"index", "end"}
         /\ next = "idle" => call'.step = "index"
  BY <1>4, <1>5, <1>6
<1>8. \/ WriteOpIndex(activePasses[call.thread][call.pass].id, side)
         /\ UNCHANGED firstError
      \/ StatementFails /\ RememberError
  BY DEF IndexRow
<1> QED
  BY <1>2, <1>3, <1>7, <1>8

LEMMA BeforeIndexInv == RecorderInv /\ BeforeIndex => RecorderInv'
<1> SUFFICES ASSUME RecorderInv, BeforeIndex PROVE RecorderInv'
  OBVIOUS
<1>1. At("beforePass", "index") /\ UNCHANGED <<life, root, maps>> /\ IndexRow(0, "idle")
  BY DEF BeforeIndex
<1>2. /\ StorageTypeOK' /\ UNCHANGED passExecution /\ firstError' \in BOOLEAN
      /\ \/ Unlock
         \/ /\ call' \in Call /\ call'.fn = call.fn /\ call'.pass = call.pass
            /\ call'.thread = call.thread /\ call'.step = "index"
  BY <1>1, IndexRowFacts DEF At
<1>3. call' \in Call /\ CallOK'
  <2>1. CASE Unlock
    BY <2>1, UnlockOK
  <2>2. CASE ~Unlock
    BY <1>1, <1>2, <2>2 DEF At, RecorderInv, CallOK, life, maps
  <2> QED
    BY <2>1, <2>2
<1> QED
  BY <1>1, <1>2, <1>3, QuietStatement

-----------------------------------------------------------------------------
(* afterPass.                                                               *)

\* A statement of afterPass other than the last one.
LEMMA AfterStatementInv ==
  ASSUME RecorderInv, call.fn = "afterPass",
         StorageTypeOK',
         Len(passExecution') = Len(passExecution),
         firstError' \in BOOLEAN, UNCHANGED <<life, root, maps>>,
         \/ Unlock
         \/ \E step \in Steps \ {"snapshot"} : GoTo(step)
         \/ /\ call' \in Call /\ call'.fn = call.fn /\ call'.pass = call.pass
            /\ call'.thread = call.thread /\ call'.step # "snapshot"
  PROVE  RecorderInv'
<1>1. call' \in Call /\ CallOK'
  <2>1. CASE Unlock
    BY <2>1, UnlockOK
  <2>2. CASE ~Unlock
    <3>1. /\ call' \in Call /\ call'.fn = "afterPass" /\ call'.pass = call.pass
          /\ call'.thread = call.thread /\ call'.step # "snapshot"
      BY <2>2, GoToFacts
    <3> QED
      BY <3>1 DEF RecorderInv, CallOK, life, maps
  <2> QED
    BY <2>1, <2>2
<1>2. passExecution' = <<>> <=> passExecution = <<>>
  BY EmptySeq DEF RecorderInv, StorageTypeOK
<1>3. IdsOK'
  BY <1>2 DEF RecorderInv, IdsOK, RowIds, root, maps
<1>4. RecorderTypeOK'
  BY <1>1 DEF RecorderInv, RecorderTypeOK, life, root, maps
<1> QED
  BY <1>1, <1>2, <1>3, <1>4 DEF RecorderInv, life

LEMMA AfterPassInv ==
  ASSUME RecorderInv, attached, NEW t \in Threads, NEW p \in Passes,
         NEW failed \in BOOLEAN, NEW text \in Texts,
         AfterPass(t, p, failed, text)
  PROVE  RecorderInv'
<1>1. UNCHANGED <<storageVars, life, root, maps>>
  BY DEF AfterPass
<1>2. CASE ~Recording \/ activePasses[t][p].id = NoId
  <2>1. UNCHANGED call /\ call.fn = "none" /\ firstError' \in BOOLEAN
    BY <1>2 DEF AfterPass, LockFree, RememberError, RecorderInv, RecorderTypeOK
  <2>2. call' \in Call /\ CallOK'
    BY <1>1, <2>1 DEF RecorderInv, RecorderTypeOK, CallOK, maps
  <2>3. StorageTypeOK'
    BY <1>1 DEF RecorderInv, StorageTypeOK, storageVars
  <2> QED
    BY <1>1, <2>1, <2>2, <2>3, QuietStatement DEF storageVars
<1>3. CASE Recording /\ activePasses[t][p].id # NoId
  <2> DEFINE step == AfterEntryStep(failed)
             seen == IF failed \/ Fidelity = "timeline" THEN NoText ELSE text
  <2>1. /\ call' = [fn |-> "afterPass", thread |-> t, pass |-> p, failed |-> failed,
                    step |-> step, text |-> seen, ordinal |-> 0]
        /\ UNCHANGED firstError
    BY <1>3 DEF AfterPass
  <2>2. /\ step \in {"end", "snapshot"} /\ seen \in OptTexts
        /\ step = "snapshot" => seen \in Texts
    BY DEF AfterEntryStep, OptTexts
  <2> HIDE DEF step, seen
  <2>3. /\ call' \in Call
        /\ call'.fn = "afterPass" /\ call'.pass = p /\ call'.thread = t
        /\ call'.step = step /\ call'.text = seen
    BY <2>1, <2>2 DEF Call, Steps, Names
  <2>4. attached' /\ UNCHANGED activePasses
    BY <1>1 DEF life, maps
  <2>5. CallOK'
    BY <1>3, <2>2, <2>3, <2>4 DEF CallOK
  <2>6. StorageTypeOK' /\ firstError' \in BOOLEAN
    BY <1>1, <2>1 DEF RecorderInv, RecorderTypeOK, StorageTypeOK, storageVars
  <2> QED
    BY <1>1, <2>3, <2>5, <2>6, QuietStatement DEF storageVars
<1> QED
  BY <1>2, <1>3

LEMMA AfterSnapshotInv == RecorderInv /\ AfterSnapshot => RecorderInv'
<1> SUFFICES ASSUME RecorderInv, AfterSnapshot PROVE RecorderInv'
  OBVIOUS
<1>1. call.fn = "afterPass" /\ call.text \in Texts /\ UNCHANGED <<life, root, maps>>
  BY DEF AfterSnapshot, At, RecorderInv, CallOK
<1>2. StorageTypeOK' /\ UNCHANGED passExecution
  BY <1>1, OtherStatements DEF AfterSnapshot, RecorderInv
<1>3. firstError' \in BOOLEAN
  BY DEF AfterSnapshot, RememberError, RecorderInv, RecorderTypeOK
<1>4. Unlock \/ \E step \in Steps \ {"snapshot"} : GoTo(step)
  <2>1. (IF Fidelity = "full" THEN "index" ELSE "end") \in Steps \ {"snapshot"}
    BY DEF Steps
  <2> QED
    BY <2>1 DEF AfterSnapshot
<1> QED
  BY <1>1, <1>2, <1>3, <1>4, AfterStatementInv

LEMMA AfterIndexInv == RecorderInv /\ AfterIndex => RecorderInv'
<1> SUFFICES ASSUME RecorderInv, AfterIndex PROVE RecorderInv'
  OBVIOUS
<1>1. /\ call.fn = "afterPass" /\ call.step = "index" /\ UNCHANGED <<life, root, maps>>
      /\ IndexRow(1, "end")
  BY DEF AfterIndex, At
<1>2. /\ StorageTypeOK' /\ UNCHANGED passExecution /\ firstError' \in BOOLEAN
      /\ \/ Unlock
         \/ /\ call' \in Call /\ call'.fn = call.fn /\ call'.pass = call.pass
            /\ call'.thread = call.thread /\ call'.step \in {"index", "end"}
  BY <1>1, IndexRowFacts
<1> QED
  BY <1>1, <1>2, AfterStatementInv

\* Completing a row, of the pass or of the root, on the way to another statement.
LEMMA CompletionInv ==
  ASSUME RecorderInv, call.fn = "afterPass", UNCHANGED <<life, root, maps>>,
         NEW id, NEW changed \in BOOLEAN,
         \/ EndPass(id, call.text, changed) /\ UNCHANGED firstError
         \/ StatementFails /\ RememberError,
         \E step \in Steps \ {"snapshot"} : GoTo(step)
  PROVE  RecorderInv'
<1>1. call.text \in OptTexts
  BY DEF RecorderInv, RecorderTypeOK, Call
<1>2. StorageTypeOK' /\ Len(passExecution') = Len(passExecution)
  BY <1>1, EndPassRows, OtherStatements DEF RecorderInv
<1>3. firstError' \in BOOLEAN
  BY DEF RememberError, RecorderInv, RecorderTypeOK
<1> QED
  BY <1>2, <1>3, AfterStatementInv

LEMMA CompleteRowInv == RecorderInv /\ CompleteRow => RecorderInv'
<1> SUFFICES ASSUME RecorderInv, CompleteRow PROVE RecorderInv'
  OBVIOUS
<1> DEFINE changed == call.failed \/ Differs(Current.before, call.text)
<1>1. call.fn = "afterPass" /\ UNCHANGED <<life, root, maps>>
  BY DEF CompleteRow, At
<1>2. changed \in BOOLEAN
  BY DEF RecorderInv, RecorderTypeOK, Call, Differs
<1>3. \/ EndPass(Current.id, call.text, changed) /\ UNCHANGED firstError
      \/ StatementFails /\ RememberError
  BY DEF CompleteRow
<1>4. \E step \in Steps \ {"snapshot"} : GoTo(step)
  <2>1. \A e \in BOOLEAN : AfterEndStep(e) \in Steps \ {"snapshot"}
    BY DEF AfterEndStep, Steps
  <2>2. firstError \in BOOLEAN
    BY DEF RecorderInv, RecorderTypeOK
  <2> QED
    BY <2>1, <2>2 DEF CompleteRow
<1> HIDE DEF changed
<1> QED
  BY <1>1, <1>2, <1>3, <1>4, CompletionInv

LEMMA CompleteRootInv == RecorderInv /\ CompleteRoot => RecorderInv'
<1> SUFFICES ASSUME RecorderInv, CompleteRoot PROVE RecorderInv'
  OBVIOUS
<1>1. call.fn = "afterPass" /\ UNCHANGED <<life, root, maps>>
  BY DEF CompleteRoot, At
<1>2. RootChanged \in BOOLEAN
  BY DEF RecorderInv, RecorderTypeOK, Call, Differs, RootChanged
<1>3. \/ EndPass(rootPass, call.text, RootChanged) /\ UNCHANGED firstError
      \/ StatementFails /\ RememberError
  BY DEF CompleteRoot
<1>4. \E step \in Steps \ {"snapshot"} : GoTo(step)
  BY DEF CompleteRoot, Steps
<1> QED
  BY <1>1, <1>2, <1>3, <1>4, CompletionInv

LEMMA MarkFailedInv == RecorderInv /\ MarkFailed => RecorderInv'
<1> SUFFICES ASSUME RecorderInv, MarkFailed PROVE RecorderInv'
  OBVIOUS
<1>1. call.fn = "afterPass" /\ UNCHANGED <<life, root, maps>>
  BY DEF MarkFailed, At
<1>2. StorageTypeOK' /\ UNCHANGED passExecution
  BY OtherStatements DEF MarkFailed, RecorderInv, MetaKeys
<1>3. firstError' \in BOOLEAN
  BY DEF MarkFailed, RememberError, RecorderInv, RecorderTypeOK
<1>4. \E step \in Steps \ {"snapshot"} : GoTo(step)
  BY DEF MarkFailed, Steps
<1> QED
  BY <1>1, <1>2, <1>3, <1>4, AfterStatementInv

LEMMA ForgetPassInv == RecorderInv /\ ForgetPass => RecorderInv'
<1> SUFFICES ASSUME RecorderInv, ForgetPass PROVE RecorderInv'
  OBVIOUS
<1> DEFINE t == call.thread
           p == call.pass
<1>1. t \in Threads /\ p \in Passes
  BY DEF ForgetPass, At, RecorderInv, RecorderTypeOK, CallOK, Call
<1>2. /\ activePasses' = [activePasses EXCEPT ![t][p] = NotActive]
      /\ activePassIds' = [activePassIds EXCEPT ![t] = Pop(activePassIds[t])]
      /\ Unlock
      /\ UNCHANGED <<storageVars, life, firstError, root, stacks, nextSequence,
                     nextIdentitySequence>>
  BY DEF ForgetPass
<1>3. NotActive \in ActivePass /\ NotActive.id = NoId
  BY DEF NotActive, ActivePass, OptTexts
<1>4. activePasses' \in [Threads -> [Passes -> ActivePass]]
  BY <1>1, <1>2, <1>3 DEF RecorderInv, RecorderTypeOK
<1>5. activePassIds' \in [Threads -> Seq(Ids)]
  <2>1. activePassIds[t] \in Seq(Ids)
    BY <1>1 DEF RecorderInv, RecorderTypeOK
  <2>2. Pop(activePassIds[t]) \in Seq(Ids)
    BY <2>1, PopFacts
  <2> QED
    BY <1>2, <2>2 DEF RecorderInv, RecorderTypeOK
<1>6. call' \in Call /\ CallOK'
  BY <1>2, UnlockOK
<1>7. StorageTypeOK' /\ UNCHANGED passExecution
  BY <1>2 DEF storageVars, RecorderInv, StorageTypeOK
<1>8. RecorderTypeOK'
  BY <1>2, <1>4, <1>5, <1>6 DEF RecorderInv, RecorderTypeOK, life, root, stacks
<1>9. IdsOK'
  <2>1. \A u \in Threads, q \in Passes :
          activePasses'[u][q] = IF u = t /\ q = p THEN NotActive ELSE activePasses[u][q]
    BY <1>1, <1>2 DEF RecorderInv, RecorderTypeOK
  <2> QED
    BY <1>2, <1>3, <1>7, <2>1 DEF RecorderInv, IdsOK, RowIds, root, stacks
<1> QED
  BY <1>2, <1>6, <1>7, <1>8, <1>9 DEF RecorderInv, life

-----------------------------------------------------------------------------
(* The listener and the action handler.                                     *)

\* A callback that only moves the stacks of patterns and actions.
LEMMA NamesInv ==
  ASSUME RecorderInv, LockFree, UnchangedExceptNames,
         currentPatterns' \in [Threads -> Seq(Passes)],
         currentActions' \in [Threads -> Seq(Passes)]
  PROVE  RecorderInv'
<1>1. StorageTypeOK' /\ UNCHANGED passExecution
  BY DEF UnchangedExceptNames, storageVars, RecorderInv, StorageTypeOK
<1>2. RecorderTypeOK'
  BY DEF UnchangedExceptNames, RecorderInv, RecorderTypeOK, life, root
<1>3. IdsOK'
  BY <1>1 DEF UnchangedExceptNames, RecorderInv, IdsOK, RowIds, root
<1>4. CallOK'
  BY DEF UnchangedExceptNames, LockFree, RecorderInv, CallOK
<1> QED
  BY <1>1, <1>2, <1>3, <1>4 DEF RecorderInv, UnchangedExceptNames, life

LEMMA BeginNameInv ==
  ASSUME RecorderInv, NEW t \in Threads, NEW name \in Passes,
         BeginPattern(t, name) \/ BeginAction(t, name)
  PROVE  RecorderInv'
<1>1. /\ currentPatterns \in [Threads -> Seq(Passes)]
      /\ currentActions \in [Threads -> Seq(Passes)]
  BY DEF RecorderInv, RecorderTypeOK
<1>2. Push(currentPatterns[t], name) \in Seq(Passes)
      /\ Push(currentActions[t], name) \in Seq(Passes)
  BY <1>1, PushFacts
<1>3. /\ currentPatterns' \in [Threads -> Seq(Passes)]
      /\ currentActions' \in [Threads -> Seq(Passes)]
  BY <1>1, <1>2 DEF BeginPattern, BeginAction
<1> QED
  BY <1>3, NamesInv DEF BeginPattern, BeginAction

LEMMA EndNameInv ==
  ASSUME RecorderInv, NEW t \in Threads, EndPattern(t) \/ EndAction(t)
  PROVE  RecorderInv'
<1>1. /\ currentPatterns \in [Threads -> Seq(Passes)]
      /\ currentActions \in [Threads -> Seq(Passes)]
  BY DEF RecorderInv, RecorderTypeOK
<1>2. Pop(currentPatterns[t]) \in Seq(Passes) /\ Pop(currentActions[t]) \in Seq(Passes)
  BY <1>1, PopFacts
<1>3. /\ currentPatterns' \in [Threads -> Seq(Passes)]
      /\ currentActions' \in [Threads -> Seq(Passes)]
  BY <1>1, <1>2 DEF EndPattern, EndAction
<1> QED
  BY <1>3, NamesInv DEF EndPattern, EndAction

LEMMA AttributionFacts ==
  ASSUME RecorderInv, NEW t \in Threads
  PROVE  Attribution(t) \in Names
<1>1. currentPatterns[t] \in Seq(Passes) /\ currentActions[t] \in Seq(Passes)
  BY DEF RecorderInv, RecorderTypeOK
<1>2. currentPatterns[t] # <<>> => LastOf(currentPatterns[t]) \in Passes
  BY <1>1, LastFacts
<1>3. currentActions[t] # <<>> => LastOf(currentActions[t]) \in Passes
  BY <1>1, LastFacts
<1> QED
  BY <1>2, <1>3 DEF Attribution, Names

LEMMA RecordIdentityInv ==
  ASSUME RecorderInv, NEW t \in Threads, RecordIdentity(t)
  PROVE  RecorderInv'
<1> DEFINE id     == LastOf(activePassIds[t])
           source == IF currentActions[t] # <<>> THEN "action" ELSE "listener"
<1>1. activePassIds[t] \in Seq(Ids) /\ activePassIds[t] # <<>>
  BY DEF RecordIdentity, Listens, RecorderInv, RecorderTypeOK
<1>2. id \in Ids /\ source \in {"listener", "action"} /\ Attribution(t) \in Names
  BY <1>1, LastFacts, AttributionFacts
<1>3. /\ nextIdentitySequence' =
           [nextIdentitySequence EXCEPT ![id] = nextIdentitySequence[id] + 1]
      /\ \/ WriteIdentityEvent(id, nextIdentitySequence[id], Attribution(t), source)
            /\ UNCHANGED firstError
         \/ StatementFails /\ RememberError
      /\ UNCHANGED <<life, root, activePasses, activePassIds, stacks, nextSequence, call>>
      /\ LockFree
  BY DEF RecordIdentity
<1> HIDE DEF id, source
<1>4. nextIdentitySequence[id] \in Nat
      /\ nextIdentitySequence' \in [Ids -> Nat]
  BY <1>2, <1>3 DEF RecorderInv, RecorderTypeOK
<1>5. StorageTypeOK' /\ UNCHANGED passExecution
  BY <1>2, <1>3, <1>4, OtherStatements DEF RecorderInv
<1>6. firstError' \in BOOLEAN
  BY <1>3 DEF RememberError, RecorderInv, RecorderTypeOK
<1>7. RecorderTypeOK'
  BY <1>3, <1>4, <1>6 DEF RecorderInv, RecorderTypeOK, life, root, stacks
<1>8. IdsOK'
  BY <1>3, <1>5 DEF RecorderInv, IdsOK, RowIds, root, stacks
<1>9. CallOK'
  BY <1>3 DEF LockFree, RecorderInv, CallOK
<1> QED
  BY <1>3, <1>5, <1>7, <1>8, <1>9 DEF RecorderInv, life

-----------------------------------------------------------------------------
\* Every statement of every multi-statement callback.
LEMMA RecorderStepInv == RecorderInv /\ RecorderStep => RecorderInv'
BY AttachCreateInv, AttachVersionInv, AttachProducerInv, AttachFidelityInv,
   BeforeSnapshotInv, CreateRootInv, CreateRowInv, BeforeIndexInv,
   AfterSnapshotInv, AfterIndexInv, CompleteRowInv, CompleteRootInv, MarkFailedInv,
   ForgetPassInv
   DEF RecorderStep

LEMMA RecorderStutterInv ==
  RecorderInv /\ UNCHANGED <<storageVars, recorderVars>> => RecorderInv'
<1> SUFFICES ASSUME RecorderInv, UNCHANGED <<storageVars, recorderVars>>
             PROVE  RecorderInv'
  OBVIOUS
<1>1. StorageTypeOK' /\ UNCHANGED passExecution
  BY DEF storageVars, RecorderInv, StorageTypeOK
<1>2. UNCHANGED <<life, root, maps>> /\ UNCHANGED firstError /\ UNCHANGED call
  BY DEF recorderVars, life, root, maps
<1>3. firstError' \in BOOLEAN /\ call' \in Call
  BY <1>2 DEF RecorderInv, RecorderTypeOK
<1>4. CallOK'
  BY <1>1, <1>2 DEF RecorderInv, CallOK, Recording, life, root, maps
<1> QED
  BY <1>1, <1>2, <1>3, <1>4, QuietStatement

-----------------------------------------------------------------------------
(***************************************************************************)
(* The threads, the pass managers and the recorder together.               *)
(***************************************************************************)

\* Nothing runs before the recorder is attached.
IdleUntilAttached == ~attached => \A t \in Threads : stack[t] = <<>>

CaptureInv ==
  /\ RecorderInv
  /\ CaptureTypeOK
  /\ IdleUntilAttached

-----------------------------------------------------------------------------
(* The stacks of the pass manager.                                          *)

LEMMA RunningMeansAttached ==
  ASSUME CaptureInv, NEW t \in Threads, stack[t] # <<>>
  PROVE  attached
BY DEF CaptureInv, IdleUntilAttached

LEMMA TopFacts ==
  ASSUME CaptureInv, NEW t \in Threads, stack[t] # <<>>
  PROVE  /\ Len(stack[t]) \in Nat \ {0} /\ Len(stack[t]) \in Depths(t)
         /\ stack[t] \in Seq(Frame)
         /\ Top(t) \in Frame /\ Top(t).pass \in Passes
<1>1. stack[t] \in Seq(Frame)
  BY DEF CaptureInv, CaptureTypeOK
<1>2. Len(stack[t]) \in Nat \ {0} /\ LastOf(stack[t]) \in Frame
  BY <1>1, LastFacts
<1> QED
  BY <1>1, <1>2 DEF Top, Depths, Frame

LEMMA FrameFacts ==
  ASSUME CaptureInv, NEW o \in Threads, NEW i \in Depths(o)
  PROVE  stack[o][i] \in Frame /\ stack[o][i].pass \in Passes /\ stack[o] # <<>>
<1>1. stack[o] \in Seq(Frame)
  BY DEF CaptureInv, CaptureTypeOK
<1>2. stack[o][i] \in Frame
  BY <1>1, ElementOfSeq DEF Depths
<1>3. stack[o] # <<>>
  BY <1>1, EmptySeq DEF Depths
<1> QED
  BY <1>2, <1>3 DEF Frame

LEMMA PushFrameType ==
  ASSUME CaptureInv, NEW t \in Threads, NEW o \in Threads, NEW p \in Passes,
         NEW kind \in {"pass", "pipeline", "pattern"},
         NEW phase \in {"entered", "running", "done"},
         PushFrame(t, NewFrame(kind, o, p, phase))
  PROVE  stack' \in [Threads -> Seq(Frame)]
<1> DEFINE frame == NewFrame(kind, o, p, phase)
           s     == stack[t]
<1>1. frame \in Frame
  BY DEF NewFrame, Frame
<1>2. s \in Seq(Frame)
  BY DEF CaptureInv, CaptureTypeOK
<1>3. stack' = [stack EXCEPT ![t] = Push(s, frame)]
  BY DEF PushFrame
<1> HIDE DEF frame, s
<1>4. Push(s, frame) \in Seq(Frame)
  BY <1>1, <1>2, PushFacts
<1> QED
  BY <1>3, <1>4 DEF CaptureInv, CaptureTypeOK

LEMMA PopFrameType ==
  ASSUME CaptureInv, NEW t \in Threads, stack' = [stack EXCEPT ![t] = Pop(@)]
  PROVE  stack' \in [Threads -> Seq(Frame)]
<1>1. Pop(stack[t]) \in Seq(Frame)
  BY PopFacts DEF CaptureInv, CaptureTypeOK
<1> QED
  BY <1>1 DEF CaptureInv, CaptureTypeOK

LEMMA SetTopPhaseType ==
  ASSUME CaptureInv, NEW t \in Threads, stack[t] # <<>>,
         NEW phase \in {"entered", "running", "done"}, SetTopPhase(t, phase)
  PROVE  stack' \in [Threads -> Seq(Frame)]
<1> DEFINE n     == Len(stack[t])
           frame == [stack[t][n] EXCEPT !.phase = phase]
           s     == [stack[t] EXCEPT ![n] = frame]
<1>1. n \in 1 .. Len(stack[t]) /\ stack[t] \in Seq(Frame) /\ stack[t][n] \in Frame
  BY TopFacts DEF Top, LastOf
<1>2. frame \in Frame
  BY <1>1 DEF Frame
<1>3. stack' = [stack EXCEPT ![t] = s]
  BY DEF SetTopPhase
<1> HIDE DEF n, frame
<1>4. s \in Seq(Frame)
  BY <1>1, <1>2, ExceptSeq
<1> HIDE DEF s
<1> QED
  BY <1>3, <1>4 DEF CaptureInv, CaptureTypeOK

\* What remains to be shown of a step of the pass manager.
LEMMA ManagerStep ==
  ASSUME CaptureInv, attached, RecorderInv', UNCHANGED life,
         stack' \in [Threads -> Seq(Frame)], moduleText' \in Texts, runFailed' \in BOOLEAN
  PROVE  CaptureInv'
BY DEF CaptureInv, CaptureTypeOK, IdleUntilAttached, life

-----------------------------------------------------------------------------
(* Passes and pipelines.                                                    *)

LEMMA StartTopLevelPassInv ==
  ASSUME CaptureInv, NEW p \in Passes, StartTopLevelPass(p)
  PROVE  CaptureInv'
<1>1. Main \in Threads
  BY CaptureAssumption DEF CaptureAssumption
<1>2. EntryPhase \in {"entered", "running", "done"}
  BY DEF EntryPhase
<1>3. stack' \in [Threads -> Seq(Frame)]
  BY <1>1, <1>2, PushFrameType DEF StartTopLevelPass
<1>4. attached /\ Len(passExecution) + 2 <= MaxRows /\ moduleText \in Texts
      /\ BeforePass(Main, p, moduleText)
  BY DEF StartTopLevelPass, RoomForPass, CaptureInv, CaptureTypeOK
<1>5. RecorderInv'
  BY <1>1, <1>4, BeforePassInv DEF CaptureInv
<1>6. UNCHANGED life /\ UNCHANGED <<moduleText, runFailed>>
  BY DEF StartTopLevelPass, BeforePass
<1> QED
  BY <1>3, <1>4, <1>5, <1>6, ManagerStep DEF CaptureInv, CaptureTypeOK

LEMMA StartNestedPassInv ==
  ASSUME CaptureInv, NEW t \in Threads, NEW p \in Passes, StartNestedPass(t, p)
  PROVE  CaptureInv'
<1>1. EntryPhase \in {"entered", "running", "done"}
  BY DEF EntryPhase
<1>2. stack' \in [Threads -> Seq(Frame)]
  BY <1>1, PushFrameType DEF StartNestedPass
<1>3. stack[t] # <<>> /\ Len(passExecution) + 2 <= MaxRows
  BY DEF StartNestedPass, TopIs, RoomForPass
<1>4. attached
  BY <1>3, RunningMeansAttached
<1>5. PICK text \in Texts : BeforePass(t, p, text)
  BY DEF StartNestedPass
<1>6. RecorderInv'
  BY <1>3, <1>4, <1>5, BeforePassInv DEF CaptureInv
<1>7. UNCHANGED life /\ UNCHANGED <<moduleText, runFailed>>
  BY <1>5 DEF StartNestedPass, BeforePass
<1> QED
  BY <1>2, <1>4, <1>6, <1>7, ManagerStep DEF CaptureInv, CaptureTypeOK

LEMMA StartPipelineInv ==
  ASSUME CaptureInv, NEW t \in Threads, NEW o \in Threads, NEW i \in Depths(o),
         StartPipeline(o, i, t)
  PROVE  CaptureInv'
<1> DEFINE p == stack[o][i].pass
<1>1. p \in Passes /\ attached
  BY FrameFacts, RunningMeansAttached
<1>2. PushFrame(t, NewFrame("pipeline", o, p, "running")) /\ BeforePipeline(t, o, p)
      /\ UNCHANGED <<moduleText, runFailed>>
  BY DEF StartPipeline
<1> HIDE DEF p
<1>3. stack' \in [Threads -> Seq(Frame)]
  BY <1>1, <1>2, PushFrameType
<1>4. RecorderInv'
  BY <1>1, <1>2, BeforePipelineInv DEF CaptureInv
<1>5. UNCHANGED life
  BY <1>2 DEF BeforePipeline
<1> QED
  BY <1>1, <1>2, <1>3, <1>4, <1>5, ManagerStep DEF CaptureInv, CaptureTypeOK

LEMMA ReturnFromPassInv ==
  ASSUME CaptureInv, NEW t \in Threads, NEW failed \in BOOLEAN, ReturnFromPass(t, failed)
  PROVE  CaptureInv'
<1> DEFINE p == Top(t).pass
           n == Len(stack[t])
           marked == [stack[t] EXCEPT ![n - 1].bad = TRUE]
<1>1. stack[t] # <<>>
  BY DEF ReturnFromPass, TopIs
<1>2. attached /\ p \in Passes /\ n \in Nat \ {0} /\ stack[t] \in Seq(Frame)
  BY <1>1, RunningMeansAttached, TopFacts
<1>3. stack' \in [Threads -> Seq(Frame)]
  <2>1. stack' = [stack EXCEPT ![t] = IF failed /\ n > 1 THEN Pop(marked) ELSE Pop(stack[t])]
    BY DEF ReturnFromPass
  <2>2. Pop(stack[t]) \in Seq(Frame)
    BY <1>2, PopFacts
  <2>3. n > 1 => Pop(marked) \in Seq(Frame)
    <3> SUFFICES ASSUME n > 1 PROVE marked \in Seq(Frame)
      BY PopFacts
    <3> DEFINE m == n - 1
               frame == [stack[t][m] EXCEPT !.bad = TRUE]
    <3>1. m \in 1 .. Len(stack[t]) /\ stack[t][m] \in Frame
      BY <1>2, ElementOfSeq
    <3>2. frame \in Frame
      BY <3>1 DEF Frame
    <3>3. marked = [stack[t] EXCEPT ![m] = frame]
      OBVIOUS
    <3> HIDE DEF m, frame, marked
    <3> QED
      BY <1>2, <3>1, <3>2, <3>3, ExceptSeq
  <2> HIDE DEF marked, n
  <2> QED
    BY <2>1, <2>2, <2>3 DEF CaptureInv, CaptureTypeOK
<1>4. runFailed' \in BOOLEAN /\ UNCHANGED moduleText
  BY DEF ReturnFromPass, CaptureInv, CaptureTypeOK
<1>5. PICK text \in Printed(n) : AfterPass(t, p, failed, text)
  BY DEF ReturnFromPass
<1>6. text \in Texts
  BY <1>5 DEF Printed, CaptureInv, CaptureTypeOK
<1>7. RecorderInv'
  BY <1>2, <1>5, <1>6, AfterPassInv DEF CaptureInv
<1>8. UNCHANGED life
  BY <1>5 DEF AfterPass
<1> QED
  BY <1>2, <1>3, <1>4, <1>7, <1>8, ManagerStep DEF CaptureInv, CaptureTypeOK

LEMMA EndPipelineInv ==
  ASSUME CaptureInv, NEW t \in Threads, EndPipeline(t)
  PROVE  CaptureInv'
<1>1. attached
  BY RunningMeansAttached DEF EndPipeline, TopIs
<1>2. stack' \in [Threads -> Seq(Frame)]
  BY PopFrameType DEF EndPipeline
<1>3. RecorderInv'
  BY AfterPipelineInv DEF EndPipeline, CaptureInv
<1>4. UNCHANGED life /\ UNCHANGED <<moduleText, runFailed>>
  BY DEF EndPipeline, AfterPipeline
<1> QED
  BY <1>1, <1>2, <1>3, <1>4, ManagerStep DEF CaptureInv, CaptureTypeOK

LEMMA AbandonPipelineInv ==
  ASSUME CaptureInv, NEW t \in Threads, AbandonPipeline(t)
  PROVE  CaptureInv'
<1> DEFINE o == Top(t).owner
           mark(i) == IF IsOwner(stack[o][i], t)
                      THEN [stack[o][i] EXCEPT !.bad = TRUE] ELSE stack[o][i]
           marked == [i \in Depths(o) |-> mark(i)]
<1>1. stack[t] # <<>>
  BY DEF AbandonPipeline, TopIs
<1>2. attached /\ o \in Threads
  BY <1>1, RunningMeansAttached, TopFacts DEF Frame
<1>3. marked \in Seq(Frame)
  <2>1. Len(stack[o]) \in Nat
    BY <1>2, LenProperties DEF CaptureInv, CaptureTypeOK
  <2>2. \A i \in 1 .. Len(stack[o]) : mark(i) \in Frame
    <3> SUFFICES ASSUME NEW i \in Depths(o) PROVE mark(i) \in Frame
      BY DEF Depths
    <3>1. stack[o][i] \in Frame
      BY <1>2, FrameFacts
    <3> QED
      BY <3>1 DEF Frame
  <2> HIDE DEF mark, o
  <2>3. marked \in [1 .. Len(stack[o]) -> Frame]
    BY <2>2 DEF Depths
  <2> HIDE DEF marked
  <2> QED
    BY <2>1, <2>3, SeqDef, Zenon
<1>4. stack' = [[stack EXCEPT ![o] = marked] EXCEPT ![t] = Pop(@)]
  BY DEF AbandonPipeline
<1> HIDE DEF marked, o
<1>5. [stack EXCEPT ![o] = marked] \in [Threads -> Seq(Frame)]
  BY <1>3 DEF CaptureInv, CaptureTypeOK
<1>6. stack' \in [Threads -> Seq(Frame)]
  <2> DEFINE S == [stack EXCEPT ![o] = marked]
  <2>1. S[t] \in Seq(Frame)
    BY <1>5
  <2>2. stack' = [S EXCEPT ![t] = Pop(S[t])]
    BY <1>4
  <2>3. S \in [Threads -> Seq(Frame)]
    BY <1>5
  <2> HIDE DEF S
  <2>4. Pop(S[t]) \in Seq(Frame)
    BY <2>1, PopFacts
  <2> QED
    BY <2>2, <2>3, <2>4
<1>7. UNCHANGED <<storageVars, recorderVars>> /\ UNCHANGED <<moduleText, runFailed>>
  BY DEF AbandonPipeline
<1>8. RecorderInv'
  BY <1>7, RecorderStutterInv DEF CaptureInv
<1>9. UNCHANGED life
  BY <1>7 DEF recorderVars, life
<1> QED
  BY <1>2, <1>6, <1>7, <1>8, <1>9, ManagerStep DEF CaptureInv, CaptureTypeOK

-----------------------------------------------------------------------------
(* Actions, patterns and notifications.                                     *)

LEMMA EnterActionInv ==
  ASSUME CaptureInv, NEW t \in Threads, EnterAction(t)
  PROVE  CaptureInv'
<1>1. stack[t] # <<>> /\ UNCHANGED <<moduleText, runFailed>>
  BY DEF EnterAction, TopIs
<1>2. attached /\ Top(t).pass \in Passes
  BY <1>1, RunningMeansAttached, TopFacts
<1>3. stack' \in [Threads -> Seq(Frame)]
  BY <1>1, SetTopPhaseType DEF EnterAction
<1>4. RecorderInv'
  BY <1>2, BeginNameInv DEF EnterAction, CaptureInv
<1>5. UNCHANGED life
  BY DEF EnterAction, BeginAction, UnchangedExceptNames
<1> QED
  BY <1>1, <1>2, <1>3, <1>4, <1>5, ManagerStep DEF CaptureInv, CaptureTypeOK

LEMMA LeaveActionInv ==
  ASSUME CaptureInv, NEW t \in Threads, LeaveAction(t)
  PROVE  CaptureInv'
<1>1. stack[t] # <<>> /\ UNCHANGED <<moduleText, runFailed>>
  BY DEF LeaveAction, TopIs
<1>2. attached
  BY <1>1, RunningMeansAttached
<1>3. stack' \in [Threads -> Seq(Frame)]
  BY <1>1, SetTopPhaseType DEF LeaveAction
<1>4. RecorderInv'
  BY EndNameInv DEF LeaveAction, CaptureInv
<1>5. UNCHANGED life
  BY DEF LeaveAction, EndAction, UnchangedExceptNames
<1> QED
  BY <1>1, <1>2, <1>3, <1>4, <1>5, ManagerStep DEF CaptureInv, CaptureTypeOK

LEMMA EnterPatternInv ==
  ASSUME CaptureInv, NEW t \in Threads, EnterPattern(t)
  PROVE  CaptureInv'
<1> DEFINE p == Top(t).pass
<1>1. stack[t] # <<>> /\ UNCHANGED <<moduleText, runFailed>>
      /\ PushFrame(t, NewFrame("pattern", t, p, "running")) /\ BeginPattern(t, p)
  BY DEF EnterPattern, Rewriting
<1>2. attached /\ p \in Passes
  BY <1>1, RunningMeansAttached, TopFacts
<1> HIDE DEF p
<1>3. stack' \in [Threads -> Seq(Frame)]
  BY <1>1, <1>2, PushFrameType
<1>4. RecorderInv'
  BY <1>1, <1>2, BeginNameInv DEF CaptureInv
<1>5. UNCHANGED life
  BY <1>1 DEF BeginPattern, UnchangedExceptNames
<1> QED
  BY <1>1, <1>2, <1>3, <1>4, <1>5, ManagerStep DEF CaptureInv, CaptureTypeOK

LEMMA LeavePatternInv ==
  ASSUME CaptureInv, NEW t \in Threads, LeavePattern(t)
  PROVE  CaptureInv'
<1>1. attached /\ UNCHANGED <<moduleText, runFailed>>
  BY RunningMeansAttached DEF LeavePattern, TopIs
<1>2. stack' \in [Threads -> Seq(Frame)]
  BY PopFrameType DEF LeavePattern
<1>3. RecorderInv'
  BY EndNameInv DEF LeavePattern, CaptureInv
<1>4. UNCHANGED life
  BY DEF LeavePattern, EndPattern, UnchangedExceptNames
<1> QED
  BY <1>1, <1>2, <1>3, <1>4, ManagerStep DEF CaptureInv, CaptureTypeOK

LEMMA NotifyOperationInv ==
  ASSUME CaptureInv, NEW t \in Threads, NotifyOperation(t)
  PROVE  CaptureInv'
<1>1. attached /\ UNCHANGED managerVars
  BY RunningMeansAttached DEF NotifyOperation, Rewriting
<1>2. RecorderInv'
  BY RecordIdentityInv DEF NotifyOperation, CaptureInv
<1>3. UNCHANGED life
  BY DEF NotifyOperation, RecordIdentity
<1> QED
  BY <1>1, <1>2, <1>3, ManagerStep DEF CaptureInv, CaptureTypeOK, managerVars

-----------------------------------------------------------------------------
(* The invariant.                                                           *)

LEMMA CaptureInit == Init => CaptureInv
<1> SUFFICES ASSUME Init PROVE CaptureInv
  OBVIOUS
<1>1. RecorderInv
  BY RecorderInitInv DEF Init
<1>2. <<>> \in Seq(Frame)
  BY EmptySeq
<1> QED
  BY <1>1, <1>2 DEF Init, CaptureInv, CaptureTypeOK, IdleUntilAttached

\* A step of the recorder alone: attached never becomes false.
LEMMA RecorderAloneInv ==
  ASSUME CaptureInv, RecorderInv', UNCHANGED managerVars, attached => attached'
  PROVE  CaptureInv'
BY DEF CaptureInv, CaptureTypeOK, IdleUntilAttached, managerVars

LEMMA CallbackInv == CaptureInv /\ Callback => CaptureInv'
<1> SUFFICES ASSUME CaptureInv, Callback PROVE CaptureInv'
  OBVIOUS
<1>1. RecorderInv'
  BY RecorderStepInv DEF Callback, CaptureInv
<1>2. attached => attached'
  BY DEF Callback, RecorderStep, AttachCreate, AttachProducer, AttachStatement,
         AttachVersion, AttachFidelity, BeforeSnapshot, CreateRoot, CreateRow,
         BeforeIndex, AfterSnapshot, AfterIndex, CompleteRow, CompleteRoot,
         MarkFailed, ForgetPass, life
<1> QED
  BY <1>1, <1>2, RecorderAloneInv DEF Callback

LEMMA PassManagerInv ==
  ASSUME CaptureInv, NEW t \in Threads, PassManager(t)
  PROVE  CaptureInv'
BY StartNestedPassInv, StartPipelineInv, ReturnFromPassInv, EndPipelineInv,
   AbandonPipelineInv, EnterActionInv, LeaveActionInv, EnterPatternInv,
   LeavePatternInv, NotifyOperationInv
   DEF PassManager

LEMMA CaptureNext == CaptureInv /\ [Next]_vars => CaptureInv'
<1> SUFFICES ASSUME CaptureInv, [Next]_vars PROVE CaptureInv'
  OBVIOUS
<1>1. CASE CallAttach
  <2>1. RecorderInv' /\ UNCHANGED managerVars /\ UNCHANGED life
    BY <1>1, AttachInv DEF CallAttach, CaptureInv, Attach
  <2> QED
    BY <2>1, RecorderAloneInv DEF life
<1>2. CASE CallFinish
  <2>1. RecorderInv' /\ UNCHANGED managerVars /\ UNCHANGED attached
    BY <1>2, FinishInv DEF CallFinish, CaptureInv, Finish
  <2> QED
    BY <2>1, RecorderAloneInv
<1>3. CASE Callback
  BY <1>3, CallbackInv
<1>4. CASE \E p \in Passes : StartTopLevelPass(p)
  BY <1>4, StartTopLevelPassInv
<1>5. CASE Rewrite
  <2>1. UNCHANGED <<storageVars, recorderVars, stack, runFailed>> /\ moduleText' \in Texts
    BY <1>5 DEF Rewrite
  <2>2. RecorderInv'
    BY <2>1, RecorderStutterInv DEF CaptureInv
  <2> QED
    BY <2>1, <2>2 DEF CaptureInv, CaptureTypeOK, IdleUntilAttached, recorderVars
<1>6. CASE \E t \in Threads : PassManager(t)
  BY <1>6, PassManagerInv
<1>7. CASE UNCHANGED vars
  <2>1. UNCHANGED <<storageVars, recorderVars>> /\ UNCHANGED managerVars
    BY <1>7 DEF vars
  <2>2. RecorderInv'
    BY <2>1, RecorderStutterInv DEF CaptureInv
  <2> QED
    BY <2>1, <2>2, RecorderAloneInv DEF recorderVars
<1> QED
  BY <1>1, <1>2, <1>3, <1>4, <1>5, <1>6, <1>7 DEF Next

THEOREM CaptureInvariant == Spec => []CaptureInv
BY CaptureInit, CaptureNext, PTL DEF Spec

\* The recorder's state and its tables are well typed whatever the threads,
\* failures and crashes: every value bound to a column is of the column's type,
\* and pass_execution never outgrows what beforePass left room for.
THEOREM TypeCorrect == Spec => []TypeOK
<1>1. CaptureInv => TypeOK
  BY DEF CaptureInv, RecorderInv, TypeOK
<1> QED
  BY <1>1, CaptureInvariant, PTL

-----------------------------------------------------------------------------
(* The rows.                                                                *)

\* The rows keep their places in the tree, no child is numbered, and recording
\* begins only with an empty table.
SameRows ==
  /\ Len(passExecution') = Len(passExecution)
  /\ \A r \in RowIds : /\ passExecution'[r].parent = passExecution[r].parent
                       /\ passExecution'[r].seq = passExecution[r].seq
  /\ UNCHANGED nextSequence
  /\ Recording' => Recording \/ passExecution = <<>>

\* A handler that touches neither the table nor the counters and clears no error.
LEMMA SameRowsByFrame ==
  ASSUME UNCHANGED <<passExecution, nextSequence, finished, hasStorage>>,
         firstError' = firstError \/ firstError' = TRUE
  PROVE  SameRows
BY DEF SameRows, RowIds, Recording

LEMMA AttachSameRows ==
  ASSUME RecorderInv,
         Attach \/ AttachCreate \/ AttachVersion \/ AttachProducer \/ AttachFidelity
  PROVE  SameRows
<1>1. CASE Attach
  BY <1>1, SameRowsByFrame DEF Attach, storageVars, life, maps
<1>2. CASE AttachCreate
  <2>1. UNCHANGED passExecution
    BY <1>2 DEF AttachCreate, AttachStatement, CreateFile, StatementFails, RecorderInv,
                CallOK, At
  <2> QED
    BY <1>2, <2>1, SameRowsByFrame DEF AttachCreate, AttachStatement, life, maps
<1>3. CASE AttachVersion
  <2>1. UNCHANGED passExecution /\ passExecution = <<>> /\ UNCHANGED nextSequence
    BY <1>3 DEF AttachVersion, SetMeta, StatementFails, RecorderInv, CallOK, At, maps
  <2> QED
    BY <2>1 DEF SameRows, RowIds
<1>4. CASE AttachProducer
  BY <1>4, SameRowsByFrame
     DEF AttachProducer, AttachStatement, SetMeta, StatementFails, life, maps
<1>5. CASE AttachFidelity
  BY <1>5, SameRowsByFrame DEF AttachFidelity, SetMeta, StatementFails, maps
<1> QED
  BY <1>1, <1>2, <1>3, <1>4, <1>5

LEMMA PassSameRows ==
  ASSUME RecorderInv,
         \/ BeforeSnapshot \/ BeforeIndex \/ AfterSnapshot \/ AfterIndex
         \/ CompleteRow \/ CompleteRoot \/ MarkFailed \/ ForgetPass
  PROVE  SameRows
<1>1. CASE BeforeSnapshot \/ AfterSnapshot
  BY <1>1, SameRowsByFrame
     DEF BeforeSnapshot, AfterSnapshot, WriteBlob, StatementFails, RememberError, life, maps
<1>2. CASE BeforeIndex \/ AfterIndex
  BY <1>2, SameRowsByFrame
     DEF BeforeIndex, AfterIndex, IndexRow, WriteOpIndex, StatementFails, RememberError,
         life, maps
<1>3. CASE MarkFailed
  BY <1>3, SameRowsByFrame DEF MarkFailed, SetMeta, StatementFails, RememberError, life, maps
<1>4. CASE ForgetPass
  BY <1>4, SameRowsByFrame DEF ForgetPass, storageVars, life
<1>5. CASE CompleteRow \/ CompleteRoot
  <2>0. UNCHANGED <<life, root, maps>>
    BY <1>5 DEF CompleteRow, CompleteRoot
  <2>1. CASE StatementFails /\ RememberError
    BY <2>0, <2>1, SameRowsByFrame DEF StatementFails, RememberError, life, maps
  <2>2. ASSUME NEW id, NEW changed \in BOOLEAN, EndPass(id, call.text, changed),
               UNCHANGED firstError
        PROVE  SameRows
    <3>1. call.text \in OptTexts
      BY DEF RecorderInv, RecorderTypeOK, Call
    <3>2. /\ Len(passExecution') = Len(passExecution)
          /\ \A r \in RowIds : /\ passExecution'[r].parent = passExecution[r].parent
                               /\ passExecution'[r].seq = passExecution[r].seq
      BY <2>2, <3>1, EndPassRows DEF RecorderInv
    <3> QED
      BY <2>0, <2>2, <3>2 DEF SameRows, Recording, life, maps
  <2>3. (call.failed \/ Differs(Current.before, call.text)) \in BOOLEAN
        /\ RootChanged \in BOOLEAN
    BY DEF RecorderInv, RecorderTypeOK, Call, Differs, RootChanged
  <2>4. CASE CompleteRow
    BY <2>1, <2>2, <2>3, <2>4 DEF CompleteRow
  <2>5. CASE CompleteRoot
    BY <2>1, <2>2, <2>3, <2>5 DEF CompleteRoot
  <2> QED
    BY <1>5, <2>4, <2>5
<1> QED
  BY <1>1, <1>2, <1>3, <1>4, <1>5

LEMMA ManagerSameRows ==
  ASSUME CaptureInv, NEW t \in Threads, PassManager(t)
  PROVE  SameRows
<1>1. ASSUME NEW p \in Passes, StartNestedPass(t, p) PROVE SameRows
  BY <1>1, SameRowsByFrame DEF StartNestedPass, BeforePass, storageVars, life, maps
<1>2. ASSUME NEW o \in Threads, NEW i \in Depths(o), StartPipeline(o, i, t) PROVE SameRows
  BY <1>2, SameRowsByFrame DEF StartPipeline, BeforePipeline, storageVars, life
<1>3. ASSUME NEW failed \in BOOLEAN, ReturnFromPass(t, failed) PROVE SameRows
  <2>1. PICK text : AfterPass(t, Top(t).pass, failed, text)
    BY <1>3 DEF ReturnFromPass
  <2> QED
    BY <2>1, SameRowsByFrame DEF AfterPass, RememberError, storageVars, life, maps
<1>4. CASE EndPipeline(t)
  BY <1>4, SameRowsByFrame DEF EndPipeline, AfterPipeline, storageVars, life
<1>5. CASE AbandonPipeline(t)
  BY <1>5, SameRowsByFrame DEF AbandonPipeline, storageVars, recorderVars
<1>6. CASE EnterAction(t) \/ LeaveAction(t) \/ EnterPattern(t) \/ LeavePattern(t)
  BY <1>6, SameRowsByFrame
     DEF EnterAction, LeaveAction, EnterPattern, LeavePattern, BeginAction, EndAction,
         BeginPattern, EndPattern, UnchangedExceptNames, storageVars, life
<1>7. CASE NotifyOperation(t)
  BY <1>7, SameRowsByFrame
     DEF NotifyOperation, RecordIdentity, WriteIdentityEvent, StatementFails,
         RememberError, life
<1> QED
  BY <1>1, <1>2, <1>3, <1>4, <1>5, <1>6, <1>7 DEF PassManager

\* Only two statements of beforePass add rows.
LEMMA RowsStep ==
  CaptureInv /\ [Next]_vars => CreateRoot \/ CreateRow \/ SameRows
<1> SUFFICES ASSUME CaptureInv, [Next]_vars PROVE CreateRoot \/ CreateRow \/ SameRows
  OBVIOUS
<1>0. RecorderInv
  BY DEF CaptureInv
<1>1. CASE CallAttach
  BY <1>0, <1>1, AttachSameRows DEF CallAttach
<1>2. CASE CallFinish
  BY <1>2 DEF CallFinish, Finish, SealFile, SealFails, SameRows, RowIds, Recording, maps
<1>3. CASE Callback
  BY <1>0, <1>3, AttachSameRows, PassSameRows DEF Callback, RecorderStep
<1>4. ASSUME NEW p \in Passes, StartTopLevelPass(p) PROVE SameRows
  BY <1>4, SameRowsByFrame DEF StartTopLevelPass, BeforePass, storageVars, life, maps
<1>5. CASE Rewrite
  BY <1>5, SameRowsByFrame DEF Rewrite, storageVars, recorderVars
<1>6. CASE \E t \in Threads : PassManager(t)
  BY <1>6, ManagerSameRows
<1>7. CASE UNCHANGED vars
  BY <1>7, SameRowsByFrame DEF vars, storageVars, recorderVars
<1> QED
  BY <1>1, <1>2, <1>3, <1>4, <1>5, <1>6, <1>7 DEF Next

\* nextSequence counts the children of each row: every child's seq is below the
\* counter of its parent and, as long as the recorder records, every number below
\* the counter is the seq of a child.
Numbered ==
  /\ \A r \in RowIds : passExecution[r].parent # NoId
       => passExecution[r].seq < nextSequence[passExecution[r].parent]
  /\ Recording => \A id \in Ids : \A n \in 0 .. (nextSequence[id] - 1) :
       \E q \in RowIds : passExecution[q].parent = id /\ passExecution[q].seq = n
  /\ \A id \in Ids \ RowIds : nextSequence[id] = 0

RowsInv == Forest /\ SiblingOrder /\ Numbered

LEMMA RowFacts ==
  ASSUME StorageTypeOK, NEW r \in RowIds
  PROVE  /\ passExecution[r].seq \in Nat /\ passExecution[r].parent \in Ids \union {NoId}
         /\ r \in Nat
<1>1. passExecution[r] \in Row
  BY ElementOfSeq DEF StorageTypeOK, RowIds
<1> QED
  BY <1>1 DEF Row, RowIds

LEMMA SameRowsInv ==
  ASSUME CaptureInv, RowsInv, SameRows
  PROVE  RowsInv'
<1>0. StorageTypeOK
  BY DEF CaptureInv, RecorderInv
<1>1. RowIds' = RowIds
  BY DEF SameRows, RowIds
<1>2. /\ \A r \in RowIds : /\ passExecution'[r].parent = passExecution[r].parent
                           /\ passExecution'[r].seq = passExecution[r].seq
      /\ UNCHANGED nextSequence
  BY DEF SameRows
<1>3. Forest'
  BY <1>1, <1>2 DEF RowsInv, Forest
<1>4. SiblingOrder'
  BY <1>1, <1>2 DEF RowsInv, SiblingOrder, Siblings
<1>5. Numbered'
  <2>1. CASE passExecution = <<>>
    <3>1. RowIds = {}
      BY <2>1, EmptySeq DEF RowIds
    <3>2. \A id \in Ids : nextSequence[id] = 0
      BY <3>1 DEF RowsInv, Numbered
    <3> QED
      BY <1>1, <1>2, <3>1, <3>2 DEF Numbered
  <2>2. CASE passExecution # <<>>
    BY <1>1, <1>2, <2>2 DEF RowsInv, Numbered, SameRows
  <2> QED
    BY <2>1, <2>2
<1> QED
  BY <1>3, <1>4, <1>5 DEF RowsInv

\* The root's row is the first one, and its own tree.
LEMMA CreateRootRows ==
  ASSUME CaptureInv, RowsInv, CreateRoot, ~SameRows
  PROVE  RowsInv'
<1>0. StorageTypeOK /\ RecorderInv
  BY DEF CaptureInv, RecorderInv
<1>1. BeginPass(NoId, 0, NoPass, call.text) /\ UNCHANGED nextSequence
  BY SameRowsByFrame DEF CreateRoot, StatementFails, RememberError, life, maps
<1>2. passExecution = <<>>
  BY <1>0 DEF CreateRoot, At, RecorderInv, CallOK, IdsOK, NoId
<1>3. Len(passExecution) = 0
  BY <1>2, EmptySeq
<1>4. NoId \in Ids \union {NoId} /\ 0 \in Nat /\ NoPass \in Names /\ call.text \in OptTexts
  BY <1>0 DEF Names, RecorderInv, RecorderTypeOK, Call
<1>5. /\ Len(passExecution') = Len(passExecution) + 1
      /\ passExecution'[NextRowId].parent = NoId /\ passExecution'[NextRowId].seq = 0
  BY <1>0, <1>1, <1>4, BeginPassRows
<1>6. RowIds = {} /\ RowIds' = {1} /\ NextRowId = 1
  BY <1>3, <1>5 DEF RowIds, NextRowId
<1>7. Forest' /\ SiblingOrder'
  BY <1>5, <1>6 DEF Forest, SiblingOrder, Siblings
<1>8. \A id \in Ids : nextSequence'[id] = 0
  BY <1>1, <1>6 DEF RowsInv, Numbered
<1>9. Numbered'
  BY <1>5, <1>6, <1>8 DEF Numbered
<1> QED
  BY <1>7, <1>9 DEF RowsInv

\* A pass's row joins the children of its parent as the last one.
LEMMA CreateRowRows ==
  ASSUME CaptureInv, RowsInv, CreateRow, CaptureInv', ~SameRows
  PROVE  RowsInv'
<1> DEFINE parent == ParentFor(call.thread)
           new    == NextRowId
<1>0. StorageTypeOK /\ RecorderInv
  BY DEF CaptureInv, RecorderInv
<1>1. /\ call.thread \in Threads /\ call.pass \in Passes /\ call.text \in OptTexts
      /\ rootPass # NoId /\ Recording
  BY <1>0 DEF CreateRow, At, RecorderInv, RecorderTypeOK, CallOK, Call
<1>2. parent \in RowIds /\ parent \in Ids
  BY <1>0, <1>1, ParentForFacts
<1>3. nextSequence \in [Ids -> Nat]
      /\ nextSequence' = [nextSequence EXCEPT ![parent] = nextSequence[parent] + 1]
  BY <1>0 DEF CreateRow, RecorderInv, RecorderTypeOK
<1>4. CASE StatementFails /\ RememberError
  \* Recording has stopped, whatever the counter says.
  <2>1. ~Recording' /\ UNCHANGED passExecution
    BY <1>4 DEF StatementFails, RememberError, Recording
  <2>2. RowIds' = RowIds
    BY <2>1 DEF RowIds
  <2>3. \A id \in Ids : nextSequence'[id] >= nextSequence[id]
        /\ (id # parent => nextSequence'[id] = nextSequence[id])
    BY <1>2, <1>3
  <2>4. Forest' /\ SiblingOrder'
    BY <2>1, <2>2 DEF RowsInv, Forest, SiblingOrder, Siblings
  <2>5. \A r \in RowIds : passExecution[r].parent # NoId
          => passExecution[r].seq < nextSequence'[passExecution[r].parent]
    <3> SUFFICES ASSUME NEW r \in RowIds, passExecution[r].parent # NoId
                 PROVE  passExecution[r].seq < nextSequence'[passExecution[r].parent]
      OBVIOUS
    <3>1. passExecution[r].parent \in Ids /\ passExecution[r].seq \in Nat
      BY <1>0, RowFacts
    <3>2. nextSequence'[passExecution[r].parent] \in Nat
          /\ nextSequence[passExecution[r].parent] \in Nat
      BY <1>2, <1>3, <3>1
    <3> QED
      BY <2>3, <3>1, <3>2 DEF RowsInv, Numbered
  <2>6. Numbered'
    BY <1>2, <2>1, <2>2, <2>3, <2>5 DEF RowsInv, Numbered
  <2> QED
    BY <2>4, <2>6 DEF RowsInv
<1>5. CASE BeginPass(parent, SequenceOf(parent), call.pass, call.text)
  <2> DEFINE seq == nextSequence[parent]
  <2>1. seq \in Nat /\ call.pass \in Names /\ parent \in Ids \union {NoId}
        /\ parent # NoId
    BY <1>1, <1>2, <1>3 DEF Names, Ids, NoId
  <2>2. /\ Len(passExecution') = Len(passExecution) + 1
        /\ \A r \in RowIds : passExecution'[r] = passExecution[r]
        /\ passExecution'[new].parent = parent /\ passExecution'[new].seq = seq
    BY <1>0, <1>1, <1>5, <2>1, BeginPassRows DEF SequenceOf
  <2>3. /\ RowIds' = RowIds \union {new} /\ new \notin RowIds /\ new \in Nat
        /\ RowIds = 1 .. (new - 1)
    BY <1>0, <2>2, RowIdsAreNat DEF RowIds, NextRowId
  <2> HIDE DEF new, parent, seq
  <2>4. Forest'
    <3>1. new # 1
      BY <1>2, <2>3
    <3> QED
      BY <1>2, <2>2, <2>3, <3>1 DEF RowsInv, Forest
  <2>5. \A q \in RowIds : passExecution[q].parent = parent => passExecution[q].seq < seq
    BY <2>1 DEF RowsInv, Numbered, seq
  <2>6. \A n \in 0 .. (seq - 1) :
          \E q \in RowIds : passExecution[q].parent = parent /\ passExecution[q].seq = n
    BY <1>1, <1>2 DEF RowsInv, Numbered, seq
  <2>7. SiblingOrder'
    <3> SUFFICES ASSUME NEW r \in RowIds'
                 PROVE  /\ \A q \in RowIds' : q < r /\ Siblings(q, r)'
                             => passExecution'[q].seq < passExecution'[r].seq
                        /\ \A n \in 0 .. (passExecution'[r].seq - 1) :
                             \E q \in RowIds' : q < r /\ Siblings(q, r)'
                                                /\ passExecution'[q].seq = n
      BY DEF SiblingOrder, Siblings
    <3>1. CASE r = new
      BY <2>2, <2>3, <2>5, <2>6, <3>1 DEF Siblings
    <3>2. CASE r \in RowIds
      <4>1. \A q \in RowIds' : q < r => q \in RowIds
        BY <2>3, <3>2
      <4> QED
        BY <2>2, <2>3, <3>2, <4>1 DEF RowsInv, SiblingOrder, Siblings
    <3> QED
      BY <2>3, <3>1, <3>2
  <2>8. \A id \in Ids : nextSequence'[id] = IF id = parent THEN seq + 1 ELSE nextSequence[id]
    BY <1>2, <1>3 DEF seq
  <2>9. \A r \in RowIds' : passExecution'[r].parent # NoId
          => passExecution'[r].seq < nextSequence'[passExecution'[r].parent]
    <3> SUFFICES ASSUME NEW r \in RowIds', passExecution'[r].parent # NoId
                 PROVE  passExecution'[r].seq < nextSequence'[passExecution'[r].parent]
      OBVIOUS
    <3>1. CASE r = new
      BY <1>2, <2>1, <2>2, <2>8, <3>1
    <3>2. CASE r \in RowIds
      <4>1. passExecution[r].parent \in Ids /\ passExecution[r].seq \in Nat
            /\ passExecution[r].seq < nextSequence[passExecution[r].parent]
        BY <1>0, <2>2, <3>2, RowFacts DEF RowsInv, Numbered
      <4> QED
        BY <2>1, <2>2, <2>5, <2>8, <3>2, <4>1
    <3> QED
      BY <2>3, <3>1, <3>2
  <2>10. \A id \in Ids : \A n \in 0 .. (nextSequence'[id] - 1) :
           \E q \in RowIds' : passExecution'[q].parent = id /\ passExecution'[q].seq = n
    <3> SUFFICES ASSUME NEW id \in Ids, NEW n \in 0 .. (nextSequence'[id] - 1)
                 PROVE  \E q \in RowIds' : passExecution'[q].parent = id
                                           /\ passExecution'[q].seq = n
      OBVIOUS
    <3>1. CASE id # parent
      BY <1>1, <2>2, <2>3, <2>8, <3>1 DEF RowsInv, Numbered
    <3>2. CASE id = parent
      <4>1. n = seq \/ n \in 0 .. (seq - 1)
        BY <2>1, <2>8, <3>2
      <4> QED
        BY <2>2, <2>3, <2>6, <3>2, <4>1
    <3> QED
      BY <3>1, <3>2
  <2>11. \A id \in Ids \ RowIds' : nextSequence'[id] = 0
    BY <1>2, <2>3, <2>8 DEF RowsInv, Numbered
  <2>12. Numbered'
    BY <2>9, <2>10, <2>11 DEF Numbered
  <2> QED
    BY <2>4, <2>7, <2>12 DEF RowsInv
<1> QED
  BY <1>4, <1>5 DEF CreateRow

LEMMA RowsInitInv == Init => RowsInv
<1> SUFFICES ASSUME Init PROVE RowsInv
  OBVIOUS
<1>1. RowIds = {}
  BY EmptySeq DEF Init, StorageInit, RowIds
<1>2. \A id \in Ids : nextSequence[id] = 0
  BY DEF Init, RecorderInit
<1> QED
  BY <1>1, <1>2 DEF RowsInv, Forest, SiblingOrder, Numbered

THEOREM RowsInvariant == Spec => []RowsInv
<1>1. CaptureInv /\ CaptureInv' /\ RowsInv /\ [Next]_vars => RowsInv'
  BY RowsStep, SameRowsInv, CreateRootRows, CreateRowRows
<1> QED
  BY RowsInitInv, CaptureInvariant, <1>1, PTL DEF Spec

\* At every statement of every callback, and so in whatever a crash leaves in the
\* file, the rows of pass_execution are a tree rooted at row 1: a parent's row is
\* written before its children's, on whichever threads they run.
THEOREM RowsFormATree == Spec => []Forest
<1>1. RowsInv => Forest
  BY DEF RowsInv
<1> QED
  BY <1>1, RowsInvariant, PTL

\* The children of a pass are numbered 0, 1, 2, ... without gaps or repetitions in
\* the order of their rows, although nextSequence is bumped before the statement
\* that may fail: the failure is latched before the number could be skipped.
THEOREM SiblingsAreNumbered == Spec => []SiblingOrder
<1>1. RowsInv => SiblingOrder
  BY DEF RowsInv
<1> QED
  BY <1>1, RowsInvariant, PTL

-----------------------------------------------------------------------------
(* The stacks of the pass manager.                                          *)

\* A frame of pass p.
IsPass(frame, p) == frame.kind = "pass" /\ frame.pass = p

\* A pass is on a stack once at most.
RunOnce ==
  \A t, u \in Threads : \A i \in Depths(t), j \in Depths(u) :
    stack[t][i].kind = "pass" /\ IsPass(stack[u][j], stack[t][i].pass) => t = u /\ i = j

\* Passes run in pipelines, or on Main; while others run above one it is running.
PassFrameOK(t, i) ==
  stack[t][i].kind = "pass" =>
    /\ IF i = 1 THEN t = Main ELSE stack[t][i - 1].kind = "pipeline"
    /\ i < Len(stack[t]) => stack[t][i].phase = "running"
    /\ stack[t][i].phase # "running" => actionHandler

\* The pass that nests a pipeline waits, on the stack of the owner, until it ends.
PipelineFrameOK(t, i) ==
  stack[t][i].kind = "pipeline" =>
    /\ IF i = 1 THEN t # Main ELSE stack[t][i - 1].kind = "pass"
    /\ stack[t][i].phase = "running" /\ stack[t][i].pass \in Nesting
    /\ \E j \in Depths(stack[t][i].owner) :
         /\ IsPass(stack[stack[t][i].owner][j], stack[t][i].pass)
         /\ stack[stack[t][i].owner][j].phase = "running"

\* Patterns are applied by a pass that nests no pipelines.
PatternFrameOK(t, i) ==
  stack[t][i].kind = "pattern" =>
    /\ stack[t][i].phase = "running" /\ stack[t][i].pass \notin Nesting
    /\ \E m \in 1 .. (i - 1) :
         /\ IsPass(stack[t][m], stack[t][i].pass)
         /\ \A j \in (m + 1) .. i : stack[t][j].kind = "pattern"

FramesOK ==
  \A t \in Threads : \A i \in Depths(t) :
    PassFrameOK(t, i) /\ PipelineFrameOK(t, i) /\ PatternFrameOK(t, i)

\* The recorder's own action handler is installed from attach() to finish(), and
\* only at Full fidelity when the compiler has none.
HandlerInstalled ==
  /\ attached /\ ~finished => actionHandler = (Fidelity = "full" /\ ~ForeignHandler)
  /\ ~attached \/ finished => ~actionHandler
  /\ finished => attached
  /\ attached \/ (call.fn = "attach" /\ call.step \in {"producer", "fidelity"}) => hasStorage

\* The callback that holds the mutex is that of the pass its thread has just
\* entered, or has just left.
CallFollows ==
  /\ call.fn = "beforePass" =>
       /\ stack[call.thread] # <<>> /\ IsPass(Top(call.thread), call.pass)
       /\ ~HasPipelines(call.thread, call.pass)
  /\ call.fn = "afterPass" =>
       /\ ~Running(call.pass)
       /\ IF stack[call.thread] = <<>> THEN call.thread = Main
          ELSE Top(call.thread).kind = "pipeline"

\* What the recorder may expect of MLIR: that callbacks nest as the stacks do.
ManagerInv == RunOnce /\ FramesOK /\ HandlerInstalled /\ CallFollows

-----------------------------------------------------------------------------
(* How the actions change the stacks.                                       *)

LEMMA PopLength ==
  ASSUME NEW S, NEW s \in Seq(S), s # <<>>
  PROVE  /\ Len(Pop(s)) = Len(s) - 1
         /\ Len(s) \in Nat \ {0}
         /\ \A i \in 1 .. (Len(s) - 1) : Pop(s)[i] = s[i]
<1>1. Len(s) \in Nat \ {0}
  BY LastFacts
<1> DEFINE n == Len(s) - 1
<1>2. n \in Nat /\ \A i \in 1 .. n : s[i] \in S
  BY <1>1, ElementOfSeq
<1>3. Pop(s) = SubSeq(s, 1, n)
  BY DEF Pop
<1> HIDE DEF n
<1>4. Len(SubSeq(s, 1, n)) = n /\ \A i \in 1 .. n : SubSeq(s, 1, n)[i] = s[i]
  BY <1>2, SubSeqProperties
<1> QED
  BY <1>1, <1>3, <1>4 DEF n

\* Frames that differ at most in bad.
SameFrame(f, g) ==
  f.kind = g.kind /\ f.owner = g.owner /\ f.pass = g.pass /\ f.phase = g.phase

\* A frame is pushed on, or popped off, the stack of t, or its top changes phase; a
\* pop may also mark a frame below, of any thread, as bad.
Pushed(t, frame) ==
  /\ \A u \in Threads : Len(stack'[u]) = IF u = t THEN Len(stack[u]) + 1 ELSE Len(stack[u])
  /\ \A u \in Threads : \A i \in Depths(u) : stack'[u][i] = stack[u][i]
  /\ stack'[t][Len(stack[t]) + 1] = frame

Popped(t) ==
  /\ \A u \in Threads : Len(stack'[u]) = IF u = t THEN Len(stack[u]) - 1 ELSE Len(stack[u])
  /\ \A u \in Threads : \A i \in 1 .. Len(stack'[u]) : SameFrame(stack'[u][i], stack[u][i])

Rephased(t, phase) ==
  /\ \A u \in Threads : Len(stack'[u]) = Len(stack[u])
  /\ \A u \in Threads : \A i \in Depths(u) :
       IF u = t /\ i = Len(stack[t])
       THEN stack'[u][i] = [stack[u][i] EXCEPT !.phase = phase]
       ELSE stack'[u][i] = stack[u][i]

LEMMA StackFacts ==
  ASSUME CaptureInv, NEW t \in Threads
  PROVE  /\ stack[t] \in Seq(Frame) /\ Len(stack[t]) \in Nat
         /\ Depths(t) = 1 .. Len(stack[t])
         /\ stack[t] = <<>> <=> Len(stack[t]) = 0
         /\ stack[t] # <<>> => Len(stack[t]) \in Depths(t) /\ Top(t) = stack[t][Len(stack[t])]
         /\ \A i \in Depths(t) : stack[t][i] \in Frame
<1>1. stack[t] \in Seq(Frame)
  BY DEF CaptureInv, CaptureTypeOK
<1>2. Len(stack[t]) \in Nat /\ (stack[t] = <<>> <=> Len(stack[t]) = 0)
  BY <1>1, EmptySeq, LenProperties
<1>3. \A i \in Depths(t) : stack[t][i] \in Frame
  BY FrameFacts
<1>4. stack[t] # <<>> => Len(stack[t]) \in Depths(t) /\ Top(t) = stack[t][Len(stack[t])]
  BY <1>2 DEF Depths, Top, LastOf
<1> QED
  BY <1>1, <1>2, <1>3, <1>4 DEF Depths

LEMMA PushedFacts ==
  ASSUME CaptureInv, NEW t \in Threads, NEW frame \in Frame, PushFrame(t, frame)
  PROVE  Pushed(t, frame)
<1> DEFINE s == Push(stack[t], frame)
<1>1. stack \in [Threads -> Seq(Frame)] /\ stack' = [stack EXCEPT ![t] = s]
  BY DEF CaptureInv, CaptureTypeOK, PushFrame
<1>2. /\ Len(s) = Len(stack[t]) + 1 /\ s[Len(stack[t]) + 1] = frame
      /\ \A i \in 1 .. Len(stack[t]) : s[i] = stack[t][i]
  <2> DEFINE w == stack[t]
  <2>1. w \in Seq(Frame)
    BY StackFacts
  <2> HIDE DEF w
  <2>2. /\ Len(Push(w, frame)) = Len(w) + 1 /\ Push(w, frame)[Len(w) + 1] = frame
        /\ \A i \in 1 .. Len(w) : Push(w, frame)[i] = w[i]
    BY <2>1, PushFacts
  <2> QED
    BY <2>2 DEF w
<1> HIDE DEF s
<1>3. stack'[t] = s /\ \A u \in Threads \ {t} : stack'[u] = stack[u]
  BY <1>1
<1>4. stack'[t][Len(stack[t]) + 1] = frame /\ Len(stack'[t]) = Len(stack[t]) + 1
  BY <1>2, <1>3
<1>5. \A u \in Threads : \A i \in Depths(u) : stack'[u][i] = stack[u][i]
  BY <1>2, <1>3 DEF Depths
<1> QED
  BY <1>3, <1>4, <1>5 DEF Pushed

LEMMA PoppedFacts ==
  ASSUME CaptureInv, NEW t \in Threads, stack[t] # <<>>,
         stack' = [stack EXCEPT ![t] = Pop(@)]
  PROVE  Popped(t) /\ \A u \in Threads : \A i \in 1 .. Len(stack'[u]) :
                        stack'[u][i] = stack[u][i]
<1> DEFINE s == Pop(stack[t])
<1>1. stack \in [Threads -> Seq(Frame)] /\ stack' = [stack EXCEPT ![t] = s]
  BY DEF CaptureInv, CaptureTypeOK
<1>2. /\ Len(s) = Len(stack[t]) - 1
      /\ \A i \in 1 .. (Len(stack[t]) - 1) : s[i] = stack[t][i]
  BY StackFacts, PopLength
<1> HIDE DEF s
<1>3. \A u \in Threads : stack'[u] = IF u = t THEN s ELSE stack[u]
  BY <1>1
<1> QED
  BY <1>2, <1>3 DEF Popped, SameFrame

LEMMA ReturnFacts ==
  ASSUME CaptureInv, NEW t \in Threads, NEW failed \in BOOLEAN, ReturnFromPass(t, failed)
  PROVE  /\ Popped(t)
         /\ \A u \in Threads : \A i \in 1 .. Len(stack'[u]) :
              stack'[u][i].bad => stack[u][i].bad \/ (failed /\ u = t /\ i = Len(stack'[t]))
<1> DEFINE n == Len(stack[t])
           m == n - 1
           frame == [stack[t][m] EXCEPT !.bad = TRUE]
           marked == [stack[t] EXCEPT ![m] = frame]
           s == IF failed /\ n > 1 THEN marked ELSE stack[t]
<1>1. stack[t] # <<>> /\ stack \in [Threads -> Seq(Frame)]
  BY DEF ReturnFromPass, TopIs, CaptureInv, CaptureTypeOK
<1>2. n \in Nat \ {0} /\ m \in Nat /\ n = m + 1
  BY <1>1, StackFacts
<1>3. stack' = [stack EXCEPT ![t] = Pop(s)]
  <2>1. marked = [stack[t] EXCEPT ![n - 1].bad = TRUE]
    OBVIOUS
  <2>2. stack' = [stack EXCEPT ![t] = IF failed /\ n > 1 THEN Pop(marked) ELSE Pop(stack[t])]
    BY <2>1 DEF ReturnFromPass
  <2>3. (IF failed /\ n > 1 THEN Pop(marked) ELSE Pop(stack[t])) = Pop(s)
    OBVIOUS
  <2> HIDE DEF marked, s, n
  <2> QED
    BY <2>2, <2>3
<1>4. /\ s \in Seq(Frame) /\ Len(s) = n
      /\ \A i \in 1 .. n : /\ SameFrame(s[i], stack[t][i])
                           /\ s[i].bad => stack[t][i].bad \/ (failed /\ i = m)
  <2>1. CASE ~(failed /\ n > 1)
    BY <2>1, StackFacts DEF SameFrame
  <2>2. CASE failed /\ n > 1
    <3>1. m \in 1 .. n /\ stack[t] \in Seq(Frame) /\ stack[t][m] \in Frame
      BY <1>2, <2>2, StackFacts DEF Depths
    <3>2. frame \in Frame /\ SameFrame(frame, stack[t][m])
      BY <3>1 DEF Frame, SameFrame
    <3>3. s = marked
      BY <2>2
    <3> HIDE DEF frame, s
    <3>4. /\ marked \in Seq(Frame) /\ Len(marked) = n
          /\ \A i \in 1 .. n : marked[i] = IF i = m THEN frame ELSE stack[t][i]
      BY <3>1, <3>2, ExceptSeq
    <3> HIDE DEF marked
    <3> QED
      BY <2>2, <3>2, <3>3, <3>4 DEF SameFrame
  <2> QED
    BY <2>1, <2>2
<1> HIDE DEF s
<1>5. s # <<>>
  BY <1>2, <1>4, EmptySeq
<1>6. Len(Pop(s)) = m /\ \A i \in 1 .. m : Pop(s)[i] = s[i]
  BY <1>2, <1>4, <1>5, PopLength
<1>7. \A u \in Threads : stack'[u] = IF u = t THEN Pop(s) ELSE stack[u]
  BY <1>1, <1>3
<1>8. /\ stack'[t] = Pop(s) /\ Len(stack'[t]) = m
      /\ \A u \in Threads \ {t} : stack'[u] = stack[u]
  BY <1>6, <1>7
<1>9. \A i \in 1 .. m : /\ SameFrame(stack'[t][i], stack[t][i])
                        /\ stack'[t][i].bad => stack[t][i].bad \/ (failed /\ i = m)
  BY <1>2, <1>4, <1>6, <1>8
<1> HIDE DEF n, m
<1>10. Len(stack'[t]) = Len(stack[t]) - 1
  BY <1>2, <1>8 DEF n
<1> QED
  BY <1>8, <1>9, <1>10 DEF Popped, SameFrame

LEMMA AbandonFacts ==
  ASSUME CaptureInv, NEW t \in Threads, AbandonPipeline(t)
  PROVE  Popped(t)
<1> DEFINE o == Top(t).owner
           mark(i) == IF IsOwner(stack[o][i], t)
                      THEN [stack[o][i] EXCEPT !.bad = TRUE] ELSE stack[o][i]
           marked == [i \in Depths(o) |-> mark(i)]
           S == [stack EXCEPT ![o] = marked]
<1>1. stack[t] # <<>> /\ stack \in [Threads -> Seq(Frame)]
  BY DEF AbandonPipeline, TopIs, CaptureInv, CaptureTypeOK
<1>2. o \in Threads
  BY <1>1, TopFacts DEF Frame
<1>3. stack' = [S EXCEPT ![t] = Pop(S[t])]
  BY DEF AbandonPipeline
<1>4. \A i \in Depths(o) : mark(i) \in Frame /\ SameFrame(mark(i), stack[o][i])
  <2> SUFFICES ASSUME NEW i \in Depths(o)
               PROVE  mark(i) \in Frame /\ SameFrame(mark(i), stack[o][i])
    OBVIOUS
  <2>1. stack[o][i] \in Frame
    BY <1>2, FrameFacts
  <2> QED
    BY <2>1 DEF Frame, SameFrame
<1>5. Len(stack[o]) \in Nat /\ Depths(o) = 1 .. Len(stack[o])
  BY <1>2, StackFacts
<1>6. /\ marked \in Seq(Frame) /\ Len(marked) = Len(stack[o])
      /\ \A i \in Depths(o) : SameFrame(marked[i], stack[o][i])
  <2> HIDE DEF mark, o, S
  <2>1. marked \in [1 .. Len(stack[o]) -> Frame]
    BY <1>4, <1>5
  <2>2. \A i \in Depths(o) : marked[i] = mark(i)
    OBVIOUS
  <2>3. DOMAIN marked = 1 .. Len(stack[o])
    BY <1>5
  <2> HIDE DEF marked
  <2>0. Len(stack[o]) \in Nat
    BY <1>5
  <2>4. marked \in Seq(Frame)
    BY <2>0, <2>1, SeqDef, Zenon
  <2>5. Len(marked) = Len(stack[o])
    BY <1>5, <2>3, <2>4, LenProperties
  <2> QED
    BY <1>4, <2>2, <2>4, <2>5
<1> HIDE DEF marked, o
<1>7. \A u \in Threads : S[u] = IF u = o THEN marked ELSE stack[u]
  BY <1>1, <1>2
<1>8. S \in [Threads -> Seq(Frame)]
  BY <1>1, <1>2, <1>6
<1> HIDE DEF S
<1>9. \A u \in Threads : /\ S[u] \in Seq(Frame) /\ Len(S[u]) = Len(stack[u])
                         /\ \A i \in Depths(u) : SameFrame(S[u][i], stack[u][i])
  <2> SUFFICES ASSUME NEW u \in Threads
               PROVE  /\ S[u] \in Seq(Frame) /\ Len(S[u]) = Len(stack[u])
                      /\ \A i \in Depths(u) : SameFrame(S[u][i], stack[u][i])
    OBVIOUS
  <2>1. stack[u] \in Seq(Frame)
    BY StackFacts
  <2>2. CASE u = o
    <3>1. S[u] = marked
      BY <1>7, <2>2
    <3> QED
      BY <1>6, <2>2, <3>1
  <2>3. CASE u # o
    <3>1. S[u] = stack[u]
      BY <1>7, <2>3
    <3> QED
      BY <2>1, <3>1 DEF SameFrame
  <2> QED
    BY <2>2, <2>3
<1>10. \A u \in Threads : stack'[u] = IF u = t THEN Pop(S[t]) ELSE S[u]
  BY <1>3, <1>8
<1>11. S[t] \in Seq(Frame) /\ Len(S[t]) = Len(stack[t]) /\ S[t] # <<>>
  BY <1>1, <1>9, StackFacts, EmptySeq
<1>12. /\ Len(Pop(S[t])) = Len(stack[t]) - 1
       /\ \A i \in 1 .. (Len(stack[t]) - 1) : Pop(S[t])[i] = S[t][i]
  BY <1>11, PopLength
<1>13. \A i \in 1 .. (Len(stack[t]) - 1) : i \in Depths(t)
  BY <1>1, StackFacts
<1> QED
  BY <1>9, <1>10, <1>12, <1>13 DEF Popped, Depths

LEMMA RephasedFacts ==
  ASSUME CaptureInv, NEW t \in Threads, stack[t] # <<>>, NEW phase, SetTopPhase(t, phase)
  PROVE  Rephased(t, phase)
<1> DEFINE n     == Len(stack[t])
           frame == [stack[t][n] EXCEPT !.phase = phase]
           s     == [stack[t] EXCEPT ![n] = frame]
<1>1. stack \in [Threads -> Seq(Frame)] /\ stack' = [stack EXCEPT ![t] = s]
  BY DEF CaptureInv, CaptureTypeOK, SetTopPhase
<1>2. n \in Depths(t) /\ stack[t] \in Seq(Frame)
  BY StackFacts
<1> HIDE DEF frame
<1>3. /\ Len(s) = Len(stack[t])
      /\ \A i \in Depths(t) : s[i] = IF i = n THEN frame ELSE stack[t][i]
  BY <1>2, LenProperties DEF Depths
<1> HIDE DEF s
<1>4. \A u \in Threads : stack'[u] = IF u = t THEN s ELSE stack[u]
  BY <1>1
<1> QED
  BY <1>3, <1>4 DEF Rephased, Depths, frame

-----------------------------------------------------------------------------
(* The stacks stay those of a pass manager.                                 *)

LEMMA PushManager ==
  ASSUME CaptureInv, RunOnce, FramesOK, NEW t \in Threads, NEW frame \in Frame,
         Pushed(t, frame), UNCHANGED actionHandler,
         stack[t] # <<>> => Top(t).phase = "running",
         frame.phase # "running" => actionHandler,
         frame.kind = "pass" =>
           /\ ~Running(frame.pass)
           /\ IF stack[t] = <<>> THEN t = Main ELSE Top(t).kind = "pipeline",
         frame.kind = "pipeline" =>
           /\ IF stack[t] = <<>> THEN t # Main ELSE Top(t).kind = "pass"
           /\ frame.phase = "running" /\ frame.pass \in Nesting
           /\ \E j \in Depths(frame.owner) :
                /\ IsPass(stack[frame.owner][j], frame.pass)
                /\ stack[frame.owner][j].phase = "running",
         frame.kind = "pattern" =>
           /\ frame.phase = "running" /\ frame.pass \notin Nesting
           /\ \E m \in Depths(t) :
                /\ IsPass(stack[t][m], frame.pass)
                /\ \A j \in (m + 1) .. Len(stack[t]) : stack[t][j].kind = "pattern"
  PROVE  RunOnce' /\ FramesOK'
<1>0. PICK n : n = Len(stack[t])
  OBVIOUS
<1> USE <1>0
<1>1. /\ n \in Nat /\ (stack[t] = <<>> <=> n = 0)
      /\ n # 0 => Top(t) = stack[t][n]
      /\ \A u \in Threads : Len(stack[u]) \in Nat /\ Depths(u) = 1 .. Len(stack[u])
  BY StackFacts
<1>2. /\ \A u \in Threads \ {t} : Len(stack'[u]) = Len(stack[u])
      /\ Len(stack'[t]) = n + 1
      /\ \A u \in Threads : \A i \in Depths(u) : stack'[u][i] = stack[u][i]
      /\ stack'[t][n + 1] = frame
  BY DEF Pushed
<1>3. /\ \A u \in Threads : Depths(u)' = 1 .. Len(stack'[u])
      /\ \A u \in Threads \ {t} : Depths(u)' = Depths(u)
      /\ Depths(t)' = Depths(t) \union {n + 1}
      /\ n + 1 \notin Depths(t)
  BY <1>1, <1>2 DEF Depths
<1>4. frame.owner \in Threads
  BY DEF Frame
<1>5. \A u \in Threads : Depths(u) \subseteq Depths(u)'
  BY <1>3
<1>6. RunOnce'
  <2> SUFFICES ASSUME NEW u \in Threads, NEW v \in Threads, NEW i \in Depths(u)',
                      NEW j \in Depths(v)', stack'[u][i].kind = "pass",
                      IsPass(stack'[v][j], stack'[u][i].pass)
               PROVE  u = v /\ i = j
    BY DEF RunOnce
  <2>1. CASE i \in Depths(u) /\ j \in Depths(v)
    BY <1>2, <2>1 DEF RunOnce
  <2>2. CASE i \in Depths(u) /\ j \notin Depths(v)
    <3>1. v = t /\ j = n + 1
      BY <1>3, <2>2
    <3>2. frame.kind = "pass" /\ frame.pass = stack[u][i].pass /\ stack[u][i].kind = "pass"
      BY <1>2, <2>2, <3>1 DEF IsPass
    <3> QED
      BY <2>2, <3>2 DEF Running
  <2>3. CASE i \notin Depths(u) /\ j \in Depths(v)
    <3>1. u = t /\ i = n + 1
      BY <1>3, <2>3
    <3>2. frame.kind = "pass" /\ IsPass(stack[v][j], frame.pass)
      BY <1>2, <2>3, <3>1
    <3> QED
      BY <2>3, <3>2 DEF Running, IsPass
  <2>4. CASE i \notin Depths(u) /\ j \notin Depths(v)
    BY <1>3, <2>4
  <2> QED
    BY <2>1, <2>2, <2>3, <2>4
<1>7. ASSUME NEW u \in Threads, NEW i \in Depths(u)
      PROVE  PassFrameOK(u, i)' /\ PipelineFrameOK(u, i)' /\ PatternFrameOK(u, i)'
  <2>1. PassFrameOK(u, i) /\ PipelineFrameOK(u, i) /\ PatternFrameOK(u, i)
    BY DEF FramesOK
  <2>2. stack'[u][i] = stack[u][i] /\ i \in Nat /\ i >= 1
    BY <1>1, <1>2
  <2>3. i # 1 => i - 1 \in Depths(u) /\ stack'[u][i - 1] = stack[u][i - 1]
    BY <1>1, <1>2
  <2>4. PassFrameOK(u, i)'
    <3>1. i < Len(stack'[u]) => i < Len(stack[u]) \/ (u = t /\ i = n)
      BY <1>1, <1>2
    <3>2. CASE u = t /\ i = n
      BY <1>1, <2>1, <2>2, <2>3, <3>2 DEF PassFrameOK
    <3> QED
      BY <2>1, <2>2, <2>3, <3>1, <3>2 DEF PassFrameOK
  <2>5. PipelineFrameOK(u, i)'
    <3> SUFFICES ASSUME stack[u][i].kind = "pipeline" PROVE PipelineFrameOK(u, i)'
      BY <2>2 DEF PipelineFrameOK
    <3>9. PICK o : o = stack[u][i].owner
      OBVIOUS
    <3>1. o \in Threads
      BY <3>9, FrameFacts DEF Frame
    <3>2. PICK j \in Depths(o) : IsPass(stack[o][j], stack[u][i].pass)
                                 /\ stack[o][j].phase = "running"
      BY <2>1, <3>9 DEF PipelineFrameOK
    <3>3. j \in Depths(o)' /\ stack'[o][j] = stack[o][j]
      BY <1>2, <1>5, <3>1
    <3>4. \E k \in Depths(o)' : IsPass(stack'[o][k], stack'[u][i].pass)
                                /\ stack'[o][k].phase = "running"
      BY <2>2, <3>2, <3>3
    <3> QED
      BY <2>1, <2>2, <2>3, <3>4, <3>9 DEF PipelineFrameOK
  <2>6. PatternFrameOK(u, i)'
    <3> SUFFICES ASSUME stack[u][i].kind = "pattern" PROVE PatternFrameOK(u, i)'
      BY <2>2 DEF PatternFrameOK
    <3>1. PICK m \in 1 .. (i - 1) : /\ IsPass(stack[u][m], stack[u][i].pass)
                                    /\ \A j \in (m + 1) .. i : stack[u][j].kind = "pattern"
      BY <2>1 DEF PatternFrameOK
    <3>2. m \in Depths(u) /\ \A j \in (m + 1) .. i : j \in Depths(u)
      BY <1>1, <2>2
    <3>3. IsPass(stack'[u][m], stack'[u][i].pass)
          /\ \A j \in (m + 1) .. i : stack'[u][j].kind = "pattern"
      BY <1>2, <3>1, <3>2
    <3> QED
      BY <2>1, <2>2, <3>3 DEF PatternFrameOK
  <2> QED
    BY <2>4, <2>5, <2>6
<1>8. PassFrameOK(t, n + 1)' /\ PipelineFrameOK(t, n + 1)' /\ PatternFrameOK(t, n + 1)'
  <2>1. stack'[t][n + 1] = frame
    BY <1>2
  <2>2. n # 0 => n \in Depths(t) /\ stack'[t][n] = stack[t][n]
    BY <1>1, <1>2
  <2>3. n + 1 = 1 <=> stack[t] = <<>>
    BY <1>1
  <2>4. (n + 1) - 1 = n
    BY <1>1
  <2>5. PassFrameOK(t, n + 1)'
    BY <1>1, <1>2, <2>1, <2>2, <2>3, <2>4 DEF PassFrameOK
  <2>6. PipelineFrameOK(t, n + 1)'
    <3> SUFFICES ASSUME frame.kind = "pipeline" PROVE PipelineFrameOK(t, n + 1)'
      BY <2>1 DEF PipelineFrameOK
    <3>1. PICK j \in Depths(frame.owner) : IsPass(stack[frame.owner][j], frame.pass)
                                           /\ stack[frame.owner][j].phase = "running"
      OBVIOUS
    <3>2. j \in Depths(frame.owner)' /\ stack'[frame.owner][j] = stack[frame.owner][j]
      BY <1>2, <1>4, <1>5
    <3>3. \E k \in Depths(frame.owner)' : IsPass(stack'[frame.owner][k], frame.pass)
                                          /\ stack'[frame.owner][k].phase = "running"
      BY <3>1, <3>2
    <3> QED
      BY <1>1, <2>1, <2>2, <2>3, <2>4, <3>3 DEF PipelineFrameOK
  <2>7. PatternFrameOK(t, n + 1)'
    <3> SUFFICES ASSUME frame.kind = "pattern" PROVE PatternFrameOK(t, n + 1)'
      BY <2>1 DEF PatternFrameOK
    <3>1. PICK m \in Depths(t) :
            /\ IsPass(stack[t][m], frame.pass)
            /\ \A j \in (m + 1) .. n : stack[t][j].kind = "pattern"
      OBVIOUS
    <3>2. m \in 1 .. ((n + 1) - 1) /\ \A j \in (m + 1) .. n : j \in Depths(t)
      BY <1>1
    <3>3. IsPass(stack'[t][m], frame.pass)
      BY <1>2, <3>1
    <3>4. \A j \in (m + 1) .. (n + 1) : stack'[t][j].kind = "pattern"
      <4>1. \A j \in (m + 1) .. (n + 1) : j = n + 1 \/ j \in (m + 1) .. n
        BY <1>1, <3>2
      <4>2. \A j \in (m + 1) .. n : stack'[t][j].kind = "pattern"
        BY <1>2, <3>1, <3>2
      <4> QED
        BY <2>1, <4>1, <4>2
    <3> QED
      BY <2>1, <3>2, <3>3, <3>4 DEF PatternFrameOK
  <2> QED
    BY <2>5, <2>6, <2>7
<1>9. FramesOK'
  <2> SUFFICES ASSUME NEW u \in Threads, NEW i \in Depths(u)'
               PROVE  PassFrameOK(u, i)' /\ PipelineFrameOK(u, i)' /\ PatternFrameOK(u, i)'
    BY DEF FramesOK
  <2>1. i \in Depths(u) \/ (u = t /\ i = n + 1)
    BY <1>3
  <2> QED
    BY <1>7, <1>8, <2>1
<1> QED
  BY <1>6, <1>9

LEMMA PopManager ==
  ASSUME CaptureInv, RunOnce, FramesOK, NEW t \in Threads, stack[t] # <<>>,
         Popped(t), UNCHANGED actionHandler,
         Top(t).kind = "pass" => ~HasPipelines(t, Top(t).pass)
  PROVE  RunOnce' /\ FramesOK'
<1>0. PICK n : n = Len(stack[t])
  OBVIOUS
<1> USE <1>0
<1>1. /\ n \in Nat \ {0} /\ Top(t) = stack[t][n]
      /\ \A u \in Threads : Len(stack[u]) \in Nat /\ Depths(u) = 1 .. Len(stack[u])
  BY StackFacts
<1>2. /\ \A u \in Threads \ {t} : Len(stack'[u]) = Len(stack[u])
      /\ Len(stack'[t]) = n - 1
  BY DEF Popped
<1>3. /\ \A u \in Threads : Depths(u)' = 1 .. Len(stack'[u])
      /\ \A u \in Threads \ {t} : Depths(u)' = Depths(u)
      /\ Depths(t)' = Depths(t) \ {n}
  BY <1>1, <1>2 DEF Depths
<1>4. \A u \in Threads : Depths(u)' \subseteq Depths(u)
  BY <1>3
<1>5. \A u \in Threads : \A i \in Depths(u)' :
        /\ stack'[u][i].kind = stack[u][i].kind /\ stack'[u][i].owner = stack[u][i].owner
        /\ stack'[u][i].pass = stack[u][i].pass /\ stack'[u][i].phase = stack[u][i].phase
  BY <1>3 DEF Popped, SameFrame
<1>6. RunOnce'
  BY <1>4, <1>5 DEF RunOnce, IsPass
<1>7. FramesOK'
  <2> SUFFICES ASSUME NEW u \in Threads, NEW i \in Depths(u)'
               PROVE  PassFrameOK(u, i)' /\ PipelineFrameOK(u, i)' /\ PatternFrameOK(u, i)'
    BY DEF FramesOK
  <2>1. /\ i \in Depths(u)
        /\ PassFrameOK(u, i) /\ PipelineFrameOK(u, i) /\ PatternFrameOK(u, i)
    BY <1>4 DEF FramesOK
  <2>2. i \in Nat /\ i >= 1 /\ Len(stack'[u]) <= Len(stack[u]) /\ i <= Len(stack'[u])
        /\ Len(stack'[u]) \in Nat
    BY <1>1, <1>2, <1>3
  <2>3. i # 1 => i - 1 \in Depths(u)'
    BY <1>3, <2>2
  <2>4. PassFrameOK(u, i)'
    BY <1>5, <2>1, <2>2, <2>3 DEF PassFrameOK
  <2>5. PipelineFrameOK(u, i)'
    <3> SUFFICES ASSUME stack[u][i].kind = "pipeline" PROVE PipelineFrameOK(u, i)'
      BY <1>5 DEF PipelineFrameOK
    <3>9. PICK o : o = stack[u][i].owner
      OBVIOUS
    <3>1. o \in Threads
      BY <2>1, <3>9, FrameFacts DEF Frame
    <3>2. PICK j \in Depths(o) : IsPass(stack[o][j], stack[u][i].pass)
                                 /\ stack[o][j].phase = "running"
      BY <2>1, <3>9 DEF PipelineFrameOK
    <3>3. j \in Depths(o)'
      <4>1. CASE o = t /\ j = n
        <5>1. HasPipelines(t, Top(t).pass) /\ Top(t).kind = "pass"
          BY <1>1, <2>1, <3>2, <3>9, <4>1 DEF HasPipelines, IsPass
        <5> QED
          BY <5>1
      <4> QED
        BY <1>3, <3>1, <4>1
    <3>4. \E k \in Depths(o)' : IsPass(stack'[o][k], stack'[u][i].pass)
                                /\ stack'[o][k].phase = "running"
      BY <1>5, <3>1, <3>2, <3>3 DEF IsPass
    <3> QED
      BY <1>5, <2>1, <2>3, <3>4, <3>9 DEF PipelineFrameOK
  <2>6. PatternFrameOK(u, i)'
    <3> SUFFICES ASSUME stack[u][i].kind = "pattern" PROVE PatternFrameOK(u, i)'
      BY <1>5 DEF PatternFrameOK
    <3>1. PICK m \in 1 .. (i - 1) : /\ IsPass(stack[u][m], stack[u][i].pass)
                                    /\ \A j \in (m + 1) .. i : stack[u][j].kind = "pattern"
      BY <2>1 DEF PatternFrameOK
    <3>2. m \in Depths(u)' /\ \A j \in (m + 1) .. i : j \in Depths(u)'
      BY <1>3, <2>2
    <3>3. IsPass(stack'[u][m], stack'[u][i].pass)
          /\ \A j \in (m + 1) .. i : stack'[u][j].kind = "pattern"
      BY <1>5, <3>1, <3>2 DEF IsPass
    <3> QED
      BY <1>5, <2>1, <3>3 DEF PatternFrameOK
  <2> QED
    BY <2>4, <2>5, <2>6
<1> QED
  BY <1>6, <1>7

LEMMA RephaseManager ==
  ASSUME CaptureInv, RunOnce, FramesOK, NEW t \in Threads, stack[t] # <<>>,
         NEW phase, Rephased(t, phase), UNCHANGED actionHandler,
         Top(t).kind = "pass",
         phase # "running" => actionHandler /\ ~HasPipelines(t, Top(t).pass)
  PROVE  RunOnce' /\ FramesOK'
<1>0. PICK n : n = Len(stack[t])
  OBVIOUS
<1> USE <1>0
<1>1. /\ n \in Depths(t) /\ Top(t) = stack[t][n] /\ stack[t][n] \in Frame
      /\ \A u \in Threads : Len(stack[u]) \in Nat /\ Depths(u) = 1 .. Len(stack[u])
  BY StackFacts
<1>2. \A u \in Threads : Len(stack'[u]) = Len(stack[u]) /\ Depths(u)' = Depths(u)
  BY DEF Rephased, Depths
<1>3. \A u \in Threads : \A i \in Depths(u) :
        /\ stack'[u][i].kind = stack[u][i].kind /\ stack'[u][i].owner = stack[u][i].owner
        /\ stack'[u][i].pass = stack[u][i].pass
        /\ stack'[u][i].phase = IF u = t /\ i = n THEN phase ELSE stack[u][i].phase
  <2> SUFFICES ASSUME NEW u \in Threads, NEW i \in Depths(u)
      PROVE /\ stack'[u][i].kind = stack[u][i].kind /\ stack'[u][i].owner = stack[u][i].owner
            /\ stack'[u][i].pass = stack[u][i].pass
            /\ stack'[u][i].phase = IF u = t /\ i = n THEN phase ELSE stack[u][i].phase
    OBVIOUS
  <2>1. stack[u][i] \in Frame
    BY FrameFacts
  <2>2. CASE u = t /\ i = n
    <3>1. stack'[u][i] = [stack[u][i] EXCEPT !.phase = phase]
      BY <2>2 DEF Rephased
    <3> QED
      BY <2>1, <2>2, <3>1 DEF Frame
  <2>3. CASE ~(u = t /\ i = n)
    <3>1. stack'[u][i] = stack[u][i]
      BY <2>3 DEF Rephased
    <3> QED
      BY <2>3, <3>1
  <2> QED
    BY <2>2, <2>3
<1>4. RunOnce'
  BY <1>2, <1>3 DEF RunOnce, IsPass
<1>5. FramesOK'
  <2> SUFFICES ASSUME NEW u \in Threads, NEW i \in Depths(u)
               PROVE  PassFrameOK(u, i)' /\ PipelineFrameOK(u, i)' /\ PatternFrameOK(u, i)'
    BY <1>2 DEF FramesOK
  <2>1. PassFrameOK(u, i) /\ PipelineFrameOK(u, i) /\ PatternFrameOK(u, i)
    BY DEF FramesOK
  <2>2. i \in Nat /\ i >= 1 /\ i <= Len(stack[u]) /\ Len(stack[u]) \in Nat
    BY <1>1
  <2>3. i # 1 => i - 1 \in Depths(u)
    BY <1>1, <2>2
  <2>4. PassFrameOK(u, i)'
    <3>1. CASE u = t /\ i = n
      BY <1>1, <1>2, <1>3, <2>1, <2>2, <2>3, <3>1 DEF PassFrameOK
    <3>2. CASE ~(u = t /\ i = n)
      BY <1>2, <1>3, <2>1, <2>2, <2>3, <3>2 DEF PassFrameOK
    <3> QED
      BY <3>1, <3>2
  <2>5. PipelineFrameOK(u, i)'
    <3> SUFFICES ASSUME stack[u][i].kind = "pipeline" PROVE PipelineFrameOK(u, i)'
      BY <1>3 DEF PipelineFrameOK
    <3>9. PICK o : o = stack[u][i].owner
      OBVIOUS
    <3>0. ~(u = t /\ i = n)
      BY <1>1
    <3>1. o \in Threads
      BY <3>9, FrameFacts DEF Frame
    <3>2. PICK j \in Depths(o) : IsPass(stack[o][j], stack[u][i].pass)
                                 /\ stack[o][j].phase = "running"
      BY <2>1, <3>9 DEF PipelineFrameOK
    <3>3. stack'[o][j].phase = "running"
      <4>1. CASE o = t /\ j = n /\ phase # "running"
        <5>1. HasPipelines(t, Top(t).pass)
          BY <1>1, <3>2, <3>9, <4>1 DEF HasPipelines, IsPass
        <5> QED
          BY <4>1, <5>1
      <4> QED
        BY <1>3, <3>1, <3>2, <4>1
    <3>4. \E k \in Depths(o)' : IsPass(stack'[o][k], stack'[u][i].pass)
                                /\ stack'[o][k].phase = "running"
      BY <1>2, <1>3, <3>1, <3>2, <3>3 DEF IsPass
    <3> QED
      BY <1>3, <2>1, <2>3, <3>0, <3>4, <3>9 DEF PipelineFrameOK
  <2>6. PatternFrameOK(u, i)'
    <3> SUFFICES ASSUME stack[u][i].kind = "pattern" PROVE PatternFrameOK(u, i)'
      BY <1>3 DEF PatternFrameOK
    <3>0. ~(u = t /\ i = n)
      BY <1>1
    <3>1. PICK m \in 1 .. (i - 1) : /\ IsPass(stack[u][m], stack[u][i].pass)
                                    /\ \A j \in (m + 1) .. i : stack[u][j].kind = "pattern"
      BY <2>1 DEF PatternFrameOK
    <3>2. m \in Depths(u) /\ \A j \in (m + 1) .. i : j \in Depths(u)
      BY <1>1, <2>2
    <3>3. IsPass(stack'[u][m], stack'[u][i].pass)
          /\ \A j \in (m + 1) .. i : stack'[u][j].kind = "pattern"
      BY <1>3, <3>1, <3>2 DEF IsPass
    <3> QED
      BY <1>3, <2>1, <3>0, <3>3 DEF PatternFrameOK
  <2> QED
    BY <2>4, <2>5, <2>6
<1> QED
  BY <1>4, <1>5

LEMMA StillManager ==
  ASSUME RunOnce, FramesOK, UNCHANGED stack,
         UNCHANGED actionHandler \/ \A t \in Threads : stack[t] = <<>>
  PROVE  RunOnce' /\ FramesOK'
<1>1. RunOnce'
  BY DEF RunOnce, Depths, IsPass
<1>2. CASE UNCHANGED actionHandler
  <2> SUFFICES ASSUME NEW t \in Threads, NEW i \in Depths(t)
               PROVE  PassFrameOK(t, i)' /\ PipelineFrameOK(t, i)' /\ PatternFrameOK(t, i)'
    BY <1>1 DEF FramesOK, Depths
  <2>1. PassFrameOK(t, i) /\ PipelineFrameOK(t, i) /\ PatternFrameOK(t, i)
    BY DEF FramesOK
  <2> QED
    BY <1>2, <2>1 DEF Depths, PassFrameOK, PipelineFrameOK, PatternFrameOK
<1>3. CASE \A t \in Threads : stack[t] = <<>>
  <2>1. Len(<<>>) = 0
    BY EmptySeq
  <2>2. \A t \in Threads : Depths(t)' = {}
    BY <1>3, <2>1 DEF Depths
  <2> QED
    BY <1>1, <2>2 DEF FramesOK
<1> QED
  BY <1>1, <1>2, <1>3

\* The callback goes on: the same call, at another of its statements.
SameCall ==
  /\ call.fn # "none" /\ call' \in Call
  /\ call'.fn = call.fn /\ call'.thread = call.thread /\ call'.pass = call.pass
  /\ call'.failed = call.failed /\ call'.text = call.text

LEMMA GoToCall ==
  ASSUME RecorderInv, NEW step \in Steps, GoTo(step), call.fn # "none"
  PROVE  SameCall /\ call'.step = step /\ call'.ordinal = 0
<1>1. call \in Call /\ 0 \in Nat
  BY DEF RecorderInv, RecorderTypeOK
<1>2. call' \in Call /\ call'.ordinal = 0
  BY <1>1 DEF GoTo, Call
<1> QED
  BY <1>2, GoToFacts DEF SameCall

LEMMA IndexCall ==
  ASSUME RecorderInv, NEW side, NEW next \in {"idle", "end"}, IndexRow(side, next),
         call.fn # "none"
  PROVE  \/ /\ SameCall /\ call'.step = call.step /\ call'.ordinal = call.ordinal + 1
            /\ MoreOps /\ UNCHANGED firstError
            /\ WriteOpIndex(activePasses[call.thread][call.pass].id, side)
         \/ /\ IF next = "idle" THEN Unlock ELSE SameCall /\ call'.step = next
            /\ \/ /\ WriteOpIndex(activePasses[call.thread][call.pass].id, side)
                  /\ ~MoreOps /\ UNCHANGED firstError
               \/ StatementFails /\ RememberError
<1>1. call \in Call /\ call.ordinal \in Nat
  BY DEF RecorderInv, RecorderTypeOK, Call
<1>2. CASE WriteOpIndex(activePasses[call.thread][call.pass].id, side) /\ MoreOps
           /\ call' = [call EXCEPT !.ordinal = @ + 1] /\ UNCHANGED firstError
  <2>1. call' \in Call /\ call'.ordinal = call.ordinal + 1
    BY <1>1, <1>2 DEF Call
  <2>2. /\ call'.fn = call.fn /\ call'.thread = call.thread /\ call'.pass = call.pass
        /\ call'.failed = call.failed /\ call'.text = call.text /\ call'.step = call.step
    BY <1>1, <1>2 DEF Call
  <2> QED
    BY <1>2, <2>1, <2>2 DEF SameCall
<1>3. CASE IF next = "idle" THEN Unlock ELSE GoTo(next)
  <2>1. next # "idle" => SameCall /\ call'.step = next
    <3>1. next \in Steps
      BY DEF Steps
    <3> QED
      BY <1>3, <3>1, GoToCall
  <2>2. IF next = "idle" THEN Unlock ELSE SameCall /\ call'.step = next
    BY <1>3, <2>1
  <2>3. \/ WriteOpIndex(activePasses[call.thread][call.pass].id, side) /\ ~MoreOps
           /\ UNCHANGED firstError
        \/ StatementFails /\ RememberError
        \/ WriteOpIndex(activePasses[call.thread][call.pass].id, side) /\ MoreOps
           /\ call' = [call EXCEPT !.ordinal = @ + 1] /\ UNCHANGED firstError
    BY DEF IndexRow
  <2> QED
    BY <1>2, <2>2, <2>3
<1> QED
  BY <1>2, <1>3 DEF IndexRow

LEMMA CallbackCall ==
  ASSUME RecorderInv, RecorderStep
  PROVE  (Unlock \/ SameCall) /\ call.fn # "none"
<1>1. \A step : At("attach", step) \/ At("beforePass", step) \/ At("afterPass", step)
        => call.fn # "none"
  BY DEF At
<1>2. ASSUME NEW step \in Steps, GoTo(step), call.fn # "none" PROVE SameCall
  BY <1>2, GoToCall
<1>3. CASE AttachCreate \/ AttachVersion \/ AttachProducer \/ AttachFidelity
  <2>1. call.fn # "none"
    BY <1>3 DEF AttachCreate, AttachVersion, AttachProducer, AttachFidelity,
                AttachStatement, At
  <2>2. Unlock \/ GoTo("version") \/ GoTo("producer") \/ GoTo("fidelity")
    BY <1>3 DEF AttachCreate, AttachVersion, AttachProducer, AttachFidelity, AttachStatement
  <2> QED
    BY <1>2, <2>1, <2>2 DEF Steps
<1>4. CASE BeforeSnapshot \/ CreateRoot
  <2>1. call.fn # "none" /\ (Unlock \/ GoTo("root") \/ GoTo("row"))
    BY <1>4 DEF BeforeSnapshot, CreateRoot, At, AfterSnapshotStep
  <2> QED
    BY <1>2, <2>1 DEF Steps
<1>5. CASE CreateRow
  <2>1. call.fn # "none" /\ (Unlock \/ GoTo("index"))
    BY <1>5 DEF CreateRow, RegisterPass, At
  <2> QED
    BY <1>2, <2>1 DEF Steps
<1>6. CASE BeforeIndex
  <2>1. call.fn # "none" /\ IndexRow(0, "idle")
    BY <1>6 DEF BeforeIndex, At
  <2> QED
    BY <2>1, IndexCall
<1>7. CASE AfterIndex
  <2>1. call.fn # "none" /\ IndexRow(1, "end")
    BY <1>7 DEF AfterIndex, At
  <2> QED
    BY <2>1, IndexCall
<1>8. CASE AfterSnapshot
  <2>1. call.fn # "none" /\ (Unlock \/ GoTo("index") \/ GoTo("end"))
    BY <1>8 DEF AfterSnapshot, At
  <2> QED
    BY <1>2, <2>1 DEF Steps
<1>9. CASE CompleteRow \/ CompleteRoot \/ MarkFailed
  <2>1. call.fn # "none" /\ (GoTo("rootEnd") \/ GoTo("status") \/ GoTo("cleanup"))
    BY <1>9 DEF CompleteRow, CompleteRoot, MarkFailed, AfterEndStep, At
  <2> QED
    BY <1>2, <2>1 DEF Steps
<1>10. CASE ForgetPass
  BY <1>10 DEF ForgetPass, At
<1> QED
  BY <1>3, <1>4, <1>5, <1>6, <1>7, <1>8, <1>9, <1>10 DEF RecorderStep

\* What the recorder shares with the pass manager changes in few places.
LEMMA ManagerLife ==
  ASSUME NEW t \in Threads, PassManager(t)
  PROVE  UNCHANGED life
<1>1. ASSUME NEW failed \in BOOLEAN, ReturnFromPass(t, failed) PROVE UNCHANGED life
  BY <1>1 DEF ReturnFromPass, AfterPass
<1>2. ASSUME NEW p \in Passes, StartNestedPass(t, p) PROVE UNCHANGED life
  BY <1>2 DEF StartNestedPass, BeforePass
<1>3. ASSUME NEW o \in Threads, NEW i \in Depths(o), StartPipeline(o, i, t)
      PROVE UNCHANGED life
  BY <1>3 DEF StartPipeline, BeforePipeline
<1> QED
  BY <1>1, <1>2, <1>3
     DEF PassManager, EndPipeline, AfterPipeline, AbandonPipeline, EnterAction, BeginAction,
         LeaveAction, EndAction, EnterPattern, BeginPattern, LeavePattern, EndPattern,
         NotifyOperation, RecordIdentity, UnchangedExceptNames, recorderVars, life

LEMMA CallbackLife ==
  ASSUME RecorderStep, ~AttachVersion, ~AttachFidelity
  PROVE  UNCHANGED life
BY DEF RecorderStep, AttachCreate, AttachProducer, AttachStatement, BeforeSnapshot,
       CreateRoot, CreateRow, BeforeIndex, AfterSnapshot, AfterIndex, CompleteRow,
       CompleteRoot, MarkFailed, ForgetPass

LEMMA HandlerStep == CaptureInv /\ HandlerInstalled /\ [Next]_vars => HandlerInstalled'
<1> SUFFICES ASSUME CaptureInv, HandlerInstalled, [Next]_vars PROVE HandlerInstalled'
  OBVIOUS
<1>0. RecorderInv /\ hasStorage \in BOOLEAN /\ attached \in BOOLEAN /\ finished \in BOOLEAN
  BY DEF CaptureInv, RecorderInv, RecorderTypeOK
<1>1. ASSUME UNCHANGED life, call'.fn = "attach" => call'.step \notin {"producer", "fidelity"}
      PROVE  HandlerInstalled'
  BY <1>1 DEF HandlerInstalled, life
<1>2. ASSUME UNCHANGED life, UNCHANGED call PROVE HandlerInstalled'
  BY <1>2 DEF HandlerInstalled, life
<1>3. NoCall.fn = "none"
  BY DEF NoCall
<1>4. CASE CallAttach
  <2>1. UNCHANGED life /\ call' = [NoCall EXCEPT !.fn = "attach", !.step = "create"]
    BY <1>4 DEF CallAttach, Attach
  <2>2. call'.step = "create"
    BY <2>1, NoCallFacts DEF NoCall
  <2> QED
    BY <1>1, <2>1, <2>2
<1>5. CASE CallFinish
  BY <1>5 DEF CallFinish, Finish, HandlerInstalled, LockFree
<1>6. CASE Callback
  <2>0. RecorderStep /\ (Unlock \/ SameCall)
    BY <1>0, <1>6, CallbackCall DEF Callback
  <2>1. CASE AttachVersion
    <3>1. ~attached /\ ~finished /\ UNCHANGED <<attached, finished, actionHandler>>
      BY <1>0, <2>1 DEF AttachVersion, HandlerInstalled, RecorderInv, CallOK, At
    <3>2. CASE hasStorage' = TRUE
      BY <3>1, <3>2 DEF HandlerInstalled
    <3>3. CASE Unlock
      BY <1>3, <3>1, <3>3 DEF HandlerInstalled, Unlock
    <3> QED
      BY <2>1, <3>2, <3>3 DEF AttachVersion
  <2>2. CASE AttachFidelity
    <3>1. ~attached /\ hasStorage /\ ~finished /\ Unlock /\ UNCHANGED <<finished, hasStorage>>
      BY <1>0, <2>2 DEF AttachFidelity, HandlerInstalled, RecorderInv, CallOK, At
    <3>2. \/ attached' = TRUE /\ actionHandler' = (Fidelity = "full" /\ ~ForeignHandler)
          \/ UNCHANGED <<attached, actionHandler>>
      BY <2>2 DEF AttachFidelity
    <3> QED
      BY <1>3, <3>1, <3>2 DEF HandlerInstalled, Unlock
  <2>3. CASE AttachCreate
    <3>1. UNCHANGED life /\ (Unlock \/ GoTo("version")) /\ call.fn # "none"
      BY <2>3 DEF AttachCreate, AttachStatement, life, At
    <3>2. "version" \in Steps
      BY DEF Steps
    <3>3. call'.fn = "none" \/ call'.step = "version"
      BY <1>0, <1>3, <3>1, <3>2, GoToCall DEF Unlock
    <3> QED
      BY <1>1, <3>1, <3>3
  <2>4. CASE AttachProducer
    <3>1. UNCHANGED life /\ hasStorage
      BY <2>4 DEF AttachProducer, AttachStatement, At, HandlerInstalled
    <3> QED
      BY <3>1 DEF HandlerInstalled, life
  <2>5. CASE call.fn # "attach"
    <3>1. UNCHANGED life
      BY <2>0, <2>5, CallbackLife DEF AttachVersion, AttachFidelity, At
    <3>2. call'.fn # "attach"
      BY <1>3, <2>0, <2>5 DEF Unlock, SameCall
    <3> QED
      BY <1>1, <3>1, <3>2
  <2> QED
    BY <2>0, <2>1, <2>2, <2>3, <2>4, <2>5
       DEF RecorderStep, BeforeSnapshot, CreateRoot, CreateRow, BeforeIndex, AfterSnapshot,
           AfterIndex, CompleteRow, CompleteRoot, MarkFailed, ForgetPass, At
<1>7. ASSUME NEW p \in Passes, StartTopLevelPass(p) PROVE HandlerInstalled'
  <2>1. UNCHANGED life /\ call'.fn # "attach"
    BY <1>7 DEF StartTopLevelPass, BeforePass, LockFree
  <2> QED
    BY <1>1, <2>1
<1>8. CASE Rewrite
  BY <1>2, <1>8 DEF Rewrite, recorderVars, life
<1>9. ASSUME NEW t \in Threads, PassManager(t) PROVE HandlerInstalled'
  <2>1. UNCHANGED life
    BY <1>9, ManagerLife
  <2>2. UNCHANGED call \/ call'.fn \in {"beforePass", "afterPass"}
    <3>1. ASSUME NEW failed \in BOOLEAN, ReturnFromPass(t, failed)
          PROVE  UNCHANGED call \/ call'.fn \in {"beforePass", "afterPass"}
      BY <3>1 DEF ReturnFromPass, AfterPass
    <3>2. ASSUME NEW p \in Passes, StartNestedPass(t, p)
          PROVE  UNCHANGED call \/ call'.fn \in {"beforePass", "afterPass"}
      BY <3>2 DEF StartNestedPass, BeforePass
    <3>3. ASSUME NEW o \in Threads, NEW i \in Depths(o), StartPipeline(o, i, t)
          PROVE UNCHANGED call
      BY <3>3 DEF StartPipeline, BeforePipeline
    <3> QED
      BY <1>9, <3>1, <3>2, <3>3
         DEF PassManager, EndPipeline, AfterPipeline, AbandonPipeline, EnterAction,
             BeginAction, LeaveAction, EndAction, EnterPattern, BeginPattern, LeavePattern,
             EndPattern, NotifyOperation, RecordIdentity, UnchangedExceptNames, recorderVars
  <2> QED
    BY <1>1, <1>2, <2>1, <2>2
<1>10. CASE UNCHANGED vars
  BY <1>2, <1>10 DEF vars, recorderVars, life
<1> QED
  BY <1>4, <1>5, <1>6, <1>7, <1>8, <1>9, <1>10 DEF Next

LEMMA PipelineMeansRunning ==
  ASSUME CaptureInv, FramesOK, NEW t \in Threads, NEW i \in Depths(t),
         stack[t][i].kind = "pipeline"
  PROVE  Running(stack[t][i].pass)
<1>1. stack[t][i].owner \in Threads
  BY FrameFacts DEF Frame
<1> QED
  BY <1>1 DEF FramesOK, PipelineFrameOK, Running, IsPass

LEMMA NoPipelinesOfNewPass ==
  ASSUME CaptureInv, FramesOK, NEW t \in Threads, NEW p, ~Running(p)
  PROVE  ~HasPipelines(t, p)
BY PipelineMeansRunning DEF HasPipelines

LEMMA PoppedShrinks ==
  ASSUME CaptureInv, NEW t \in Threads, Popped(t), NEW p
  PROVE  /\ Running(p)' => Running(p)
         /\ \A o \in Threads : HasPipelines(o, p)' => HasPipelines(o, p)
         /\ \A u \in Threads : Depths(u)' \subseteq Depths(u)
         /\ \A u \in Threads \ {t} : Depths(u)' = Depths(u)
<1>1. \A u \in Threads : Len(stack[u]) \in Nat /\ Depths(u) = 1 .. Len(stack[u])
  BY StackFacts
<1>2. /\ \A u \in Threads : Depths(u)' = 1 .. Len(stack'[u])
      /\ \A u \in Threads : Depths(u)' \subseteq Depths(u)
      /\ \A u \in Threads \ {t} : Depths(u)' = Depths(u)
  BY <1>1 DEF Popped, Depths
<1>3. \A u \in Threads : \A i \in Depths(u)' :
        /\ stack'[u][i].kind = stack[u][i].kind /\ stack'[u][i].owner = stack[u][i].owner
        /\ stack'[u][i].pass = stack[u][i].pass
  BY <1>2 DEF Popped, SameFrame
<1>4. Running(p)' => Running(p)
  BY <1>2, <1>3 DEF Running
<1>5. \A o \in Threads : HasPipelines(o, p)' => HasPipelines(o, p)
  BY <1>2, <1>3 DEF HasPipelines
<1> QED
  BY <1>2, <1>4, <1>5

\* beforePass holds the mutex for the pass its thread has just entered.
LEMMA StartPassManager ==
  ASSUME CaptureInv, ManagerInv, NEW t \in Threads, NEW p \in Passes, NEW text,
         ~Running(p), BeforePass(t, p, text),
         PushFrame(t, NewFrame("pass", t, p, EntryPhase)),
         IF stack[t] = <<>> THEN t = Main ELSE TopIs(t, "pipeline", "running")
  PROVE  RunOnce' /\ FramesOK' /\ CallFollows'
<1> DEFINE frame == NewFrame("pass", t, p, EntryPhase)
<1>1. frame \in Frame /\ frame.kind = "pass" /\ frame.pass = p
      /\ (frame.phase # "running" => actionHandler)
  BY DEF NewFrame, Frame, EntryPhase
<1> HIDE DEF frame
<1>2. Pushed(t, frame)
  BY <1>1, PushedFacts DEF frame
<1>3. UNCHANGED actionHandler /\ LockFree
      /\ (call'.fn = "none" \/ (call'.fn = "beforePass" /\ call'.thread = t /\ call'.pass = p))
  BY DEF BeforePass, life, LockFree
<1>4. RunOnce' /\ FramesOK'
  BY <1>1, <1>2, <1>3, PushManager DEF ManagerInv, TopIs
<1>5. CallFollows'
  <2>1. PICK n \in Nat : n = Len(stack[t]) /\ Len(stack'[t]) = n + 1 /\ stack'[t][n + 1] = frame
    BY <1>2, StackFacts DEF Pushed
  <2>2. stack'[t] # <<>> /\ Top(t)' = frame
    <3>1. stack'[t] # <<>>
      BY <2>1, EmptySeq
    <3> QED
      BY <2>1, <3>1 DEF Top, LastOf
  <2>3. ~HasPipelines(t, p)'
    <3> SUFFICES ASSUME NEW u \in Threads, NEW i \in Depths(u)',
                        stack'[u][i].kind = "pipeline", stack'[u][i].owner = t,
                        stack'[u][i].pass = p
                 PROVE  FALSE
      BY DEF HasPipelines
    <3>1. CASE i \in Depths(u)
      <4>1. stack'[u][i] = stack[u][i]
        BY <1>2, <3>1 DEF Pushed
      <4> QED
        BY <3>1, <4>1, PipelineMeansRunning DEF ManagerInv
    <3>2. CASE i \notin Depths(u)
      <4>1. u = t /\ i = n + 1
        BY <1>2, <2>1, <3>2, StackFacts DEF Pushed, Depths
      <4> QED
        BY <1>1, <2>1, <4>1
    <3> QED
      BY <3>1, <3>2
  <2> QED
    BY <1>1, <1>3, <2>2, <2>3 DEF CallFollows, IsPass
<1> QED
  BY <1>4, <1>5

LEMMA StartTopLevelManager ==
  ASSUME CaptureInv, ManagerInv, NEW p \in Passes, StartTopLevelPass(p)
  PROVE  RunOnce' /\ FramesOK' /\ CallFollows'
<1>1. Main \in Threads
  BY CaptureAssumption DEF CaptureAssumption
<1> QED
  BY <1>1, StartPassManager DEF StartTopLevelPass

LEMMA StartNestedManager ==
  ASSUME CaptureInv, ManagerInv, NEW t \in Threads, NEW p \in Passes, StartNestedPass(t, p)
  PROVE  RunOnce' /\ FramesOK' /\ CallFollows'
<1>1. stack[t] # <<>> /\ TopIs(t, "pipeline", "running") /\ ~Running(p)
      /\ PushFrame(t, NewFrame("pass", t, p, EntryPhase))
  BY DEF StartNestedPass, TopIs
<1>2. PICK text \in Texts : BeforePass(t, p, text)
  BY DEF StartNestedPass
<1> QED
  BY <1>1, <1>2, StartPassManager

LEMMA StartPipelineManager ==
  ASSUME CaptureInv, ManagerInv, NEW t \in Threads, NEW o \in Threads, NEW i \in Depths(o),
         StartPipeline(o, i, t)
  PROVE  RunOnce' /\ FramesOK' /\ CallFollows'
<1>1. PICK p : p = stack[o][i].pass
  OBVIOUS
<1> DEFINE frame == NewFrame("pipeline", o, p, "running")
<1>2. /\ p \in Passes /\ p \in Nesting
      /\ stack[o][i].kind = "pass" /\ stack[o][i].phase = "running"
      /\ PushFrame(t, frame)
      /\ BeforePipeline(t, o, p)
      /\ \/ t # Main /\ stack[t] = <<>>
         \/ TopIs(t, "pass", "running")
  BY <1>1, FrameFacts DEF StartPipeline
<1>3. frame \in Frame /\ frame.kind = "pipeline" /\ frame.pass = p /\ frame.owner = o
      /\ frame.phase = "running"
  BY <1>2 DEF NewFrame, Frame
<1> HIDE DEF frame
<1>4. Pushed(t, frame)
  BY <1>2, <1>3, PushedFacts
<1>5. UNCHANGED actionHandler /\ LockFree /\ UNCHANGED call
  BY <1>2 DEF BeforePipeline, life
<1>6. RunOnce' /\ FramesOK'
  <2>1. \E j \in Depths(frame.owner) : /\ IsPass(stack[frame.owner][j], frame.pass)
                                       /\ stack[frame.owner][j].phase = "running"
    BY <1>1, <1>2, <1>3 DEF IsPass
  <2>2. IF stack[t] = <<>> THEN t # Main ELSE Top(t).kind = "pass" /\ Top(t).phase = "running"
    BY <1>2 DEF TopIs
  <2>3. /\ IF stack[t] = <<>> THEN t # Main ELSE Top(t).kind = "pass"
        /\ stack[t] # <<>> => Top(t).phase = "running"
    BY <2>2
  <2> QED
    BY <1>2, <1>3, <1>4, <1>5, <2>1, <2>3, PushManager DEF ManagerInv
<1> QED
  BY <1>5, <1>6 DEF CallFollows, LockFree

\* afterPass holds the mutex for the pass its thread has just left.
LEMMA ReturnManager ==
  ASSUME CaptureInv, ManagerInv, NEW t \in Threads, NEW failed \in BOOLEAN,
         ReturnFromPass(t, failed)
  PROVE  RunOnce' /\ FramesOK' /\ CallFollows'
<1>1. PICK p : p = Top(t).pass
  OBVIOUS
<1>2. PICK n : n = Len(stack[t])
  OBVIOUS
<1>3. /\ stack[t] # <<>> /\ Top(t).kind = "pass" /\ ~HasPipelines(t, p)
      /\ Popped(t) /\ \E text : AfterPass(t, p, failed, text)
  BY <1>1, ReturnFacts DEF ReturnFromPass, TopIs
<1>4. UNCHANGED actionHandler /\ LockFree
      /\ (call'.fn = "none" \/ (call'.fn = "afterPass" /\ call'.thread = t /\ call'.pass = p))
  BY <1>3 DEF AfterPass, life, LockFree
<1>5. RunOnce' /\ FramesOK'
  BY <1>1, <1>3, <1>4, PopManager DEF ManagerInv
<1>6. n \in Nat \ {0} /\ n \in Depths(t) /\ Top(t) = stack[t][n] /\ Depths(t) = 1 .. n
  BY <1>2, <1>3, StackFacts
<1>7. ~Running(p)'
  <2> SUFFICES ASSUME NEW u \in Threads, NEW i \in Depths(u)',
                      stack'[u][i].kind = "pass", stack'[u][i].pass = p
               PROVE  FALSE
    BY DEF Running
  <2>1. i \in Depths(u) /\ stack[u][i].kind = "pass" /\ stack[u][i].pass = p
    BY <1>3, PoppedShrinks DEF Popped, SameFrame, Depths
  <2>2. u = t /\ i = n
    BY <1>1, <1>3, <1>6, <2>1 DEF ManagerInv, RunOnce, IsPass
  <2> QED
    BY <1>2, <1>3, <1>6, <2>2 DEF Popped, Depths
<1>8. IF stack'[t] = <<>> THEN t = Main ELSE Top(t)'.kind = "pipeline"
  <2>1. Len(stack'[t]) = n - 1
    BY <1>2, <1>3 DEF Popped
  <2>2. IF n = 1 THEN t = Main ELSE stack[t][n - 1].kind = "pipeline"
    BY <1>3, <1>6 DEF ManagerInv, FramesOK, PassFrameOK
  <2>3. CASE n = 1
    <3>1. stack'[t] \in Seq(Frame)
      BY CaptureNext, ReturnFromPassInv DEF CaptureInv, CaptureTypeOK
    <3>2. stack'[t] = <<>>
      BY <2>1, <2>3, <3>1, EmptySeq
    <3> QED
      BY <2>2, <2>3, <3>2
  <2>4. CASE n # 1
    <3>1. n - 1 \in 1 .. Len(stack'[t])
      BY <1>6, <2>1, <2>4
    <3>2. stack'[t][n - 1].kind = stack[t][n - 1].kind
      BY <1>3, <3>1 DEF Popped, SameFrame
    <3>3. stack'[t] # <<>>
      BY <1>6, <2>1, <2>4, EmptySeq
    <3> QED
      BY <2>1, <2>2, <2>4, <3>2, <3>3 DEF Top, LastOf
  <2> QED
    BY <2>3, <2>4
<1> QED
  BY <1>4, <1>5, <1>7, <1>8 DEF CallFollows

LEMMA LeaveManager ==
  ASSUME CaptureInv, ManagerInv, NEW t \in Threads, EndPipeline(t) \/ LeavePattern(t)
  PROVE  RunOnce' /\ FramesOK' /\ CallFollows'
<1>1. /\ stack[t] # <<>> /\ Top(t).kind # "pass"
      /\ stack' = [stack EXCEPT ![t] = Pop(@)]
      /\ UNCHANGED actionHandler /\ UNCHANGED call /\ LockFree
  BY DEF EndPipeline, AfterPipeline, LeavePattern, EndPattern, UnchangedExceptNames, TopIs, life
<1>2. Popped(t)
  BY <1>1, PoppedFacts
<1> QED
  BY <1>1, <1>2, PopManager DEF ManagerInv, CallFollows, LockFree

\* The only step of the pass manager beside a callback of another thread.
LEMMA AbandonManager ==
  ASSUME CaptureInv, ManagerInv, NEW t \in Threads, AbandonPipeline(t)
  PROVE  RunOnce' /\ FramesOK' /\ CallFollows'
<1>1. /\ stack[t] # <<>> /\ Top(t).kind = "pipeline" /\ Popped(t)
      /\ UNCHANGED actionHandler /\ UNCHANGED call
      /\ LockFree \/ call.thread # t
  BY AbandonFacts DEF AbandonPipeline, TopIs, recorderVars, Free
<1>2. RunOnce' /\ FramesOK'
  BY <1>1, PopManager DEF ManagerInv
<1>3. CallFollows'
  <2>1. CASE LockFree
    BY <1>1, <2>1 DEF CallFollows, LockFree
  <2>2. CASE call.thread # t
    <3>1. PICK c \in Threads : c = call.thread /\ c # t
      BY <2>2 DEF CaptureInv, RecorderInv, RecorderTypeOK, Call
    <3>2. Len(stack'[c]) = Len(stack[c])
      BY <1>1, <3>1 DEF Popped
    <3>3. stack'[c] \in Seq(Frame)
      BY AbandonPipelineInv DEF CaptureInv, CaptureTypeOK
    <3>4. stack'[c] = <<>> <=> stack[c] = <<>>
      BY <3>2, <3>3, StackFacts, EmptySeq
    <3>5. stack[c] # <<>> => Top(c)'.kind = Top(c).kind /\ Top(c)'.pass = Top(c).pass
      <4> SUFFICES ASSUME stack[c] # <<>>
                   PROVE  Top(c)'.kind = Top(c).kind /\ Top(c)'.pass = Top(c).pass
        OBVIOUS
      <4>1. Len(stack[c]) \in 1 .. Len(stack'[c])
        BY <3>2, StackFacts
      <4>2. Top(c)' = stack'[c][Len(stack[c])] /\ Top(c) = stack[c][Len(stack[c])]
        BY <3>2 DEF Top, LastOf
      <4> QED
        BY <1>1, <4>1, <4>2 DEF Popped, SameFrame
    <3>6. /\ Running(call.pass)' => Running(call.pass)
          /\ HasPipelines(c, call.pass)' => HasPipelines(c, call.pass)
      <4>1. PICK q : q = call.pass
        OBVIOUS
      <4>2. (Running(q)' => Running(q)) /\ (HasPipelines(c, q)' => HasPipelines(c, q))
        BY <1>1, PoppedShrinks
      <4> QED
        BY <1>1, <4>1, <4>2 DEF Running, HasPipelines
    <3>7. call.fn = "beforePass" => /\ stack[c] # <<>> /\ IsPass(Top(c), call.pass)
                                    /\ ~HasPipelines(c, call.pass)
      BY <3>1 DEF ManagerInv, CallFollows
    <3>8. call.fn = "afterPass" =>
            ~Running(call.pass) /\ IF stack[c] = <<>> THEN c = Main ELSE Top(c).kind = "pipeline"
      BY <3>1 DEF ManagerInv, CallFollows
    <3>9. call'.thread = c /\ call'.fn = call.fn /\ call'.pass = call.pass
      BY <1>1, <3>1
    <3>10. ASSUME call.fn = "beforePass"
           PROVE  /\ stack'[call'.thread] # <<>> /\ IsPass(Top(call.thread)', call'.pass)
                  /\ ~HasPipelines(call.thread, call.pass)'
      <4>1. call.thread' = c /\ Top(call.thread)' = Top(c)' 
            /\ HasPipelines(call.thread, call.pass)' = HasPipelines(c, call.pass)'
        BY <3>9 DEF Top, HasPipelines
      <4> QED
        BY <3>4, <3>5, <3>6, <3>7, <3>9, <3>10, <4>1 DEF IsPass
    <3>11. ASSUME call.fn = "afterPass"
           PROVE  /\ ~Running(call.pass)'
                  /\ IF stack'[call'.thread] = <<>> THEN call'.thread = Main
                     ELSE Top(call.thread)'.kind = "pipeline"
      <4>1. call.thread' = c /\ Top(call.thread)' = Top(c)'
        BY <3>9 DEF Top
      <4> QED
        BY <3>4, <3>5, <3>6, <3>8, <3>9, <3>11, <4>1
    <3> QED
      BY <3>9, <3>10, <3>11 DEF CallFollows
  <2> QED
    BY <1>1, <2>1, <2>2
<1> QED
  BY <1>2, <1>3

LEMMA ActionManager ==
  ASSUME CaptureInv, ManagerInv, NEW t \in Threads, EnterAction(t) \/ LeaveAction(t)
  PROVE  RunOnce' /\ FramesOK' /\ CallFollows'
<1>1. /\ stack[t] # <<>> /\ Top(t).kind = "pass"
      /\ UNCHANGED actionHandler /\ UNCHANGED call /\ LockFree
      /\ \/ SetTopPhase(t, "running")
         \/ SetTopPhase(t, "done") /\ actionHandler /\ ~HasPipelines(t, Top(t).pass)
  BY DEF EnterAction, LeaveAction, BeginAction, EndAction, UnchangedExceptNames, TopIs, life
<1>2. Rephased(t, "running")
      \/ (Rephased(t, "done") /\ actionHandler /\ ~HasPipelines(t, Top(t).pass))
  BY <1>1, RephasedFacts
<1> QED
  BY <1>1, <1>2, RephaseManager DEF ManagerInv, CallFollows, LockFree

LEMMA EnterPatternManager ==
  ASSUME CaptureInv, ManagerInv, NEW t \in Threads, EnterPattern(t)
  PROVE  RunOnce' /\ FramesOK' /\ CallFollows'
<1> DEFINE frame == NewFrame("pattern", t, Top(t).pass, "running")
<1>1. /\ stack[t] # <<>> /\ Top(t).kind # "pipeline" /\ Top(t).phase = "running"
      /\ Top(t).pass \notin Nesting /\ PushFrame(t, frame)
      /\ UNCHANGED actionHandler /\ UNCHANGED call /\ LockFree
  BY DEF EnterPattern, Rewriting, BeginPattern, UnchangedExceptNames, life
<1>2. frame \in Frame /\ frame.kind = "pattern" /\ frame.pass = Top(t).pass
      /\ frame.phase = "running"
  BY <1>1, TopFacts DEF NewFrame, Frame
<1> HIDE DEF frame
<1>3. Pushed(t, frame)
  BY <1>1, <1>2, PushedFacts
<1>4. \E m \in Depths(t) : /\ IsPass(stack[t][m], frame.pass)
                           /\ \A j \in (m + 1) .. Len(stack[t]) : stack[t][j].kind = "pattern"
  <2>1. PICK n : n = Len(stack[t])
    OBVIOUS
  <2>2. n \in Nat \ {0} /\ n \in Depths(t) /\ Top(t) = stack[t][n] /\ Depths(t) = 1 .. n
    BY <1>1, <2>1, StackFacts
  <2>3. CASE Top(t).kind = "pass"
    BY <1>2, <2>1, <2>2, <2>3 DEF IsPass
  <2>4. CASE Top(t).kind = "pattern"
    BY <1>2, <2>1, <2>2, <2>4 DEF ManagerInv, FramesOK, PatternFrameOK
  <2>5. Top(t) \in Frame
    BY <1>1, TopFacts
  <2> QED
    BY <1>1, <2>3, <2>4, <2>5 DEF Frame
<1>5. RunOnce' /\ FramesOK'
  BY <1>1, <1>2, <1>3, <1>4, PushManager DEF ManagerInv
<1> QED
  BY <1>1, <1>5 DEF CallFollows, LockFree

LEMMA ManagerInit == Init => ManagerInv
<1> SUFFICES ASSUME Init PROVE ManagerInv
  OBVIOUS
<1>1. \A t \in Threads : Depths(t) = {}
  BY EmptySeq DEF Init, Depths
<1>2. RunOnce /\ FramesOK
  BY <1>1 DEF RunOnce, FramesOK
<1>3. call.fn = "none"
  BY NoCallFacts DEF Init, RecorderInit
<1>4. HandlerInstalled
  BY <1>3 DEF Init, RecorderInit, HandlerInstalled
<1> QED
  BY <1>2, <1>3, <1>4 DEF ManagerInv, CallFollows

LEMMA ManagerNext == CaptureInv /\ ManagerInv /\ [Next]_vars => ManagerInv'
<1> SUFFICES ASSUME CaptureInv, ManagerInv, [Next]_vars PROVE ManagerInv'
  OBVIOUS
<1>0. HandlerInstalled'
  BY HandlerStep DEF ManagerInv
<1> SUFFICES RunOnce' /\ FramesOK' /\ CallFollows'
  BY <1>0 DEF ManagerInv
<1>1. ASSUME UNCHANGED stack, UNCHANGED actionHandler \/ \A t \in Threads : stack[t] = <<>>,
             call'.fn \notin {"beforePass", "afterPass"} \/ SameCall \/ UNCHANGED call
      PROVE  RunOnce' /\ FramesOK' /\ CallFollows'
  <2>1. RunOnce' /\ FramesOK'
    BY <1>1, StillManager DEF ManagerInv
  <2>2. CallFollows'
    <3>1. CASE call'.fn \notin {"beforePass", "afterPass"}
      BY <3>1 DEF CallFollows
    <3>2. CASE call'.fn = call.fn /\ call'.thread = call.thread /\ call'.pass = call.pass
      BY <1>1, <3>2 DEF ManagerInv, CallFollows, IsPass, Top, HasPipelines, Running, Depths
    <3> QED
      BY <1>1, <3>1, <3>2 DEF SameCall
  <2> QED
    BY <2>1, <2>2
<1>2. NoCall.fn = "none"
  BY NoCallFacts
<1>3. CASE CallAttach
  <2>1. call'.fn = "attach" /\ UNCHANGED stack /\ UNCHANGED actionHandler
    BY <1>3 DEF CallAttach, Attach, NoCall, life, managerVars
  <2> QED
    BY <1>1, <2>1
<1>4. CASE CallFinish
  BY <1>1, <1>4 DEF CallFinish, Finish, managerVars
<1>5. CASE Callback
  <2>1. UNCHANGED stack /\ RecorderStep
    BY <1>5 DEF Callback, managerVars
  <2>2. call'.fn \notin {"beforePass", "afterPass"} \/ SameCall
    BY <1>2, <2>1, CallbackCall DEF Unlock, CaptureInv
  <2>3. CASE AttachVersion \/ AttachFidelity
    <3>1. \A t \in Threads : stack[t] = <<>>
      BY <2>3 DEF AttachVersion, AttachFidelity, At, CaptureInv, RecorderInv, CallOK,
                  IdleUntilAttached
    <3> QED
      BY <1>1, <2>1, <2>2, <3>1
  <2>4. CASE ~AttachVersion /\ ~AttachFidelity
    <3>1. UNCHANGED actionHandler
      BY <2>1, <2>4, CallbackLife DEF life
    <3> QED
      BY <1>1, <2>1, <2>2, <3>1
  <2> QED
    BY <2>3, <2>4
<1>6. ASSUME NEW p \in Passes, StartTopLevelPass(p)
      PROVE  RunOnce' /\ FramesOK' /\ CallFollows'
  BY <1>6, StartTopLevelManager
<1>7. CASE Rewrite
  BY <1>1, <1>7 DEF Rewrite, recorderVars
<1>8. ASSUME NEW t \in Threads, PassManager(t)
      PROVE  RunOnce' /\ FramesOK' /\ CallFollows'
  <2>1. CASE NotifyOperation(t)
    BY <1>1, <2>1 DEF NotifyOperation, RecordIdentity, managerVars, life
  <2> QED
    BY <1>8, <2>1, StartNestedManager, StartPipelineManager, ReturnManager, LeaveManager,
       AbandonManager, ActionManager, EnterPatternManager
       DEF PassManager
<1>9. CASE UNCHANGED vars
  BY <1>1, <1>9 DEF vars, recorderVars, managerVars
<1> QED
  BY <1>3, <1>4, <1>5, <1>6, <1>7, <1>8, <1>9 DEF Next

\* The stacks are those of a pass manager, and a callback that holds the mutex is
\* that of the pass its thread has just entered or left.
THEOREM ManagerInvariant == Spec => []ManagerInv
BY ManagerInit, ManagerNext, CaptureInvariant, PTL DEF Spec

-----------------------------------------------------------------------------
(* The entries of activePasses.                                             *)

\* The recorder records, or began to complete a pass while it did.
Following == Recording \/ call.fn = "afterPass"

\* Pass p is on the stack of t.
Inside(t, p) == \E i \in Depths(t) : IsPass(stack[t][i], p)

\* The callback in progress has not recorded the pass yet, or not yet forgotten it.
Starting(t, p) ==
  /\ call.fn = "beforePass" /\ call.step \in {"snapshot", "root", "row"}
  /\ call.thread = t /\ call.pass = p
Returning(t, p) == call.fn = "afterPass" /\ call.thread = t /\ call.pass = p

\* The statement that completes its row has been executed.
Closing(t, p) == Returning(t, p) /\ call.step \in {"rootEnd", "status", "cleanup"}

\* The recorder keeps an entry for p: from the row that beforePass creates to the end
\* of afterPass.
IsRecorded(t, p) == Returning(t, p) \/ (Inside(t, p) /\ ~Starting(t, p))

\* An entry for every such pass and for no other: afterPass finds its own, and emplace
\* never finds one.
EntriesFollow ==
  Following => \A t \in Threads, p \in Passes :
                 activePasses[t][p].id # NoId <=> IsRecorded(t, p)

\* An entry describes its row.
EntriesDescribe ==
  /\ \A t, u \in Threads : \A p, q \in Passes :
       activePasses[t][p].id # NoId /\ activePasses[t][p].id = activePasses[u][q].id
         => t = u /\ p = q
  /\ \A t \in Threads, p \in Passes : activePasses[t][p].id # NoId =>
       LET entry == activePasses[t][p] IN
       /\ entry.id # rootPass
       /\ passExecution[entry.id].name = p
       /\ passExecution[entry.id].parent = entry.parent
       /\ passExecution[entry.id].before = entry.before

\* The open rows are those of the passes in execution.
OpenFollows ==
  Following =>
    /\ \A t \in Threads, p \in Passes :
         activePasses[t][p].id # NoId /\ ~Closing(t, p)
           => passExecution[activePasses[t][p].id].open
    /\ \A r \in RowIds : passExecution[r].open /\ r # rootPass =>
         \E t \in Threads, p \in Passes :
           activePasses[t][p].id = r /\ (Closing(t, p) => firstError)

\* The statements of afterPass, and what has led to each.
CallSteps ==
  call.fn = "afterPass" =>
    /\ call.step \in {"snapshot", "index", "end", "rootEnd", "status", "cleanup"}
    /\ call.step \in {"snapshot", "index", "rootEnd", "status"} => ~firstError
    /\ call.step \in {"snapshot", "index"} => ~call.failed
    /\ call.step = "index" => Fidelity = "full"
    /\ call.step = "status" => call.failed
    /\ ~finished /\ hasStorage

EntriesInv == EntriesFollow /\ EntriesDescribe /\ OpenFollows /\ CallSteps

-----------------------------------------------------------------------------
(* The rows.                                                                *)

\* No row is lost, and what beginPass wrote into it stays.
RowsKeep ==
  \A r \in RowIds :
    /\ r \in RowIds'
    /\ passExecution'[r].parent = passExecution[r].parent
    /\ passExecution'[r].name = passExecution[r].name
    /\ passExecution'[r].before = passExecution[r].before

LEMMA EndPassRow ==
  ASSUME StorageTypeOK, NEW id, NEW after \in OptTexts, NEW changed \in BOOLEAN,
         EndPass(id, after, changed)
  PROVE  /\ id \in RowIds /\ RowIds' = RowIds /\ RowsKeep
         /\ \A r \in RowIds \ {id} : passExecution'[r] = passExecution[r]
         /\ passExecution'[id].after = after /\ ~passExecution'[id].open
         /\ passExecution'[id].changed = changed
<1> DEFINE row == [passExecution[id] EXCEPT !.after = after, !.open = FALSE,
                                            !.changed = changed]
<1>1. id \in RowIds /\ passExecution' = [passExecution EXCEPT ![id] = row]
  BY DEF EndPass
<1>2. passExecution \in Seq(Row) /\ passExecution[id] \in Row
  BY <1>1, ElementOfSeq DEF StorageTypeOK, RowIds
<1>3. /\ row \in Row /\ row.parent = passExecution[id].parent
      /\ row.name = passExecution[id].name /\ row.before = passExecution[id].before
      /\ row.after = after /\ row.open = FALSE /\ row.changed = changed
  BY <1>2 DEF Row
<1> HIDE DEF row
<1>4. /\ Len(passExecution') = Len(passExecution)
      /\ \A r \in RowIds : passExecution'[r] = IF r = id THEN row ELSE passExecution[r]
  BY <1>1, <1>2, <1>3, ExceptSeq DEF RowIds
<1>5. RowIds' = RowIds
  BY <1>4 DEF RowIds
<1> QED
  BY <1>1, <1>3, <1>4, <1>5 DEF RowsKeep

LEMMA BeginPassRow ==
  ASSUME StorageTypeOK, NEW parent \in Ids \union {NoId}, NEW seq \in Nat,
         NEW name \in Names, NEW before \in OptTexts,
         BeginPass(parent, seq, name, before)
  PROVE  /\ RowIds' = RowIds \union {NextRowId} /\ NextRowId \notin RowIds /\ RowsKeep
         /\ \A r \in RowIds : passExecution'[r] = passExecution[r]
         /\ passExecution'[NextRowId].parent = parent
         /\ passExecution'[NextRowId].name = name
         /\ passExecution'[NextRowId].before = before
         /\ passExecution'[NextRowId].after = NoText
         /\ passExecution'[NextRowId].open
<1> DEFINE row == [parent |-> parent, seq |-> seq, name |-> name, before |-> before,
                   after |-> NoText, open |-> TRUE, changed |-> FALSE]
<1>1. passExecution \in Seq(Row) /\ Len(passExecution) \in Nat
  BY LenProperties DEF StorageTypeOK
<1>2. /\ row \in Row /\ row.parent = parent /\ row.name = name /\ row.before = before
      /\ row.after = NoText /\ row.open = TRUE
  BY DEF Row, OptTexts
<1>3. passExecution' = Append(passExecution, row)
  BY DEF BeginPass
<1> HIDE DEF row
<1>4. /\ Len(passExecution') = Len(passExecution) + 1
      /\ \A r \in RowIds : passExecution'[r] = passExecution[r]
      /\ passExecution'[NextRowId] = row
  BY <1>1, <1>2, <1>3, AppendProperties DEF RowIds, NextRowId
<1>5. RowIds' = RowIds \union {NextRowId} /\ NextRowId \notin RowIds
  BY <1>1, <1>4 DEF RowIds, NextRowId
<1> QED
  BY <1>2, <1>4, <1>5 DEF RowsKeep

\* The statements that leave the rows alone.
LEMMA SameTable ==
  ASSUME UNCHANGED passExecution
  PROVE  RowsKeep /\ RowIds' = RowIds
BY DEF RowsKeep, RowIds

\* The steps of the pass manager execute no statement on the rows.
LEMMA ManagerTable ==
  ASSUME NEW t \in Threads, PassManager(t)
  PROVE  UNCHANGED <<passExecution, rootPass, rootBefore, activePasses, activePassIds,
                     meta, irBlob, opIndex, journal, nextSequence>>
         \/ NotifyOperation(t)
<1>1. ASSUME NEW failed \in BOOLEAN, ReturnFromPass(t, failed)
      PROVE  UNCHANGED <<passExecution, rootPass, rootBefore, activePasses, activePassIds,
                         meta, irBlob, opIndex, journal, nextSequence>>
  BY <1>1 DEF ReturnFromPass, AfterPass, storageVars, root, maps
<1>2. ASSUME NEW p \in Passes, StartNestedPass(t, p)
      PROVE  UNCHANGED <<passExecution, rootPass, rootBefore, activePasses, activePassIds,
                         meta, irBlob, opIndex, journal, nextSequence>>
  BY <1>2 DEF StartNestedPass, BeforePass, storageVars, root, maps
<1>3. ASSUME NEW o \in Threads, NEW i \in Depths(o), StartPipeline(o, i, t)
      PROVE  UNCHANGED <<passExecution, rootPass, rootBefore, activePasses, activePassIds,
                         meta, irBlob, opIndex, journal, nextSequence>>
  BY <1>3 DEF StartPipeline, BeforePipeline, storageVars, root
<1> QED
  BY <1>1, <1>2, <1>3
     DEF PassManager, EndPipeline, AfterPipeline, AbandonPipeline, EnterAction, BeginAction,
         LeaveAction, EndAction, EnterPattern, BeginPattern, LeavePattern, EndPattern,
         UnchangedExceptNames, recorderVars, storageVars, root

LEMMA NotifyTable ==
  ASSUME NEW t \in Threads, NotifyOperation(t)
  PROVE  /\ UNCHANGED <<passExecution, rootPass, rootBefore, activePasses, activePassIds,
                        meta, irBlob, opIndex, journal, nextSequence, call, stack,
                        pipelineParents, currentPatterns, currentActions, life>>
         /\ firstError' = firstError \/ firstError' = TRUE
BY DEF NotifyOperation, RecordIdentity, WriteIdentityEvent, StatementFails, root, stacks,
       managerVars, RememberError

\* The arguments of the three statements that write rows.
LEMMA RowArguments ==
  ASSUME CaptureInv
  PROVE  /\ call.text \in OptTexts /\ call.failed \in BOOLEAN /\ RootChanged \in BOOLEAN
         /\ call.fn \in {"beforePass", "afterPass"} =>
              /\ call.pass \in Passes /\ call.pass \in Names /\ call.thread \in Threads
              /\ (call.failed \/ Differs(Current.before, call.text)) \in BOOLEAN
         /\ At("beforePass", "row") =>
              /\ ParentFor(call.thread) \in Ids /\ ParentFor(call.thread) \in RowIds
              /\ SequenceOf(ParentFor(call.thread)) \in Nat
              /\ Recording /\ rootPass = 1 /\ NextRowId \in Ids
<1>0. RecorderInv
  BY DEF CaptureInv
<1>1. /\ call.text \in OptTexts /\ call.failed \in BOOLEAN /\ RootChanged \in BOOLEAN
      /\ call.thread \in Threads
  BY <1>0 DEF RecorderInv, RecorderTypeOK, Call, RootChanged, Differs
<1>2. call.fn \in {"beforePass", "afterPass"} => call.pass \in Passes /\ call.pass \in Names
  BY <1>0 DEF RecorderInv, CallOK, Names
<1>3. (call.failed \/ Differs(Current.before, call.text)) \in BOOLEAN
  BY <1>1 DEF Differs
<1>4. ASSUME At("beforePass", "row")
      PROVE  /\ ParentFor(call.thread) \in Ids /\ ParentFor(call.thread) \in RowIds
             /\ SequenceOf(ParentFor(call.thread)) \in Nat
             /\ Recording /\ rootPass = 1 /\ NextRowId \in Ids
  <2>1. rootPass # NoId /\ Recording /\ Len(passExecution) + 1 <= MaxRows
    BY <1>0, <1>4 DEF RecorderInv, CallOK, At
  <2>2. ParentFor(call.thread) \in Ids /\ ParentFor(call.thread) \in RowIds
    BY <1>0, <1>1, <2>1, ParentForFacts
  <2>3. SequenceOf(ParentFor(call.thread)) \in Nat
    BY <1>0, <2>2 DEF SequenceOf, RecorderInv, RecorderTypeOK
  <2>4. rootPass = 1
    BY <1>0, <2>1 DEF RecorderInv, IdsOK
  <2>5. NextRowId \in Ids
    BY <1>0, <2>1, LenProperties, StorageAssumption
       DEF NextRowId, Ids, RecorderInv, StorageTypeOK, StorageAssumption
  <2> QED
    BY <2>1, <2>2, <2>3, <2>4, <2>5
<1> QED
  BY <1>1, <1>2, <1>3, <1>4

LEMMA RowsKept == CaptureInv /\ [Next]_vars => RowsKeep
<1> SUFFICES ASSUME CaptureInv, [Next]_vars PROVE RowsKeep
  OBVIOUS
<1>0. StorageTypeOK
  BY DEF CaptureInv, RecorderInv
<1>1. CASE CallAttach
  BY <1>1, SameTable DEF CallAttach, Attach, storageVars
<1>2. CASE CallFinish
  BY <1>2, SameTable DEF CallFinish, Finish, SealFile, SealFails
<1>3. CASE Callback
  <2>1. CASE AttachCreate
    <3>1. RowIds = {}
      BY <2>1, EmptySeq DEF AttachCreate, AttachStatement, At, CaptureInv, RecorderInv, CallOK,
                            RowIds
    <3> QED
      BY <3>1 DEF RowsKeep
  <2>2. CASE AttachVersion \/ AttachProducer \/ AttachFidelity
    BY <2>2, SameTable
       DEF AttachVersion, AttachProducer, AttachFidelity, AttachStatement, SetMeta,
           StatementFails
  <2>3. CASE BeforeSnapshot \/ AfterSnapshot \/ BeforeIndex \/ AfterIndex \/ MarkFailed
             \/ ForgetPass
    BY <2>3, SameTable
       DEF BeforeSnapshot, AfterSnapshot, BeforeIndex, AfterIndex, MarkFailed, ForgetPass,
           IndexRow, WriteBlob, WriteOpIndex, SetMeta, StatementFails, storageVars
  <2>4. CASE CreateRoot
    <3>1. NoId \in Ids \union {NoId} /\ 0 \in Nat /\ NoPass \in Names
      BY DEF Names
    <3> QED
      BY <1>0, <2>4, <3>1, SameTable, BeginPassRow, RowArguments
         DEF CreateRoot, StatementFails
  <2>5. CASE CreateRow
    <3>1. /\ At("beforePass", "row")
          /\ \/ BeginPass(ParentFor(call.thread), SequenceOf(ParentFor(call.thread)),
                          call.pass, call.text)
             \/ StatementFails
      BY <2>5 DEF CreateRow
    <3> QED
      BY <1>0, <3>1, SameTable, BeginPassRow, RowArguments DEF StatementFails, At
  <2>6. CASE CompleteRow
    BY <1>0, <2>6, SameTable, EndPassRow, RowArguments DEF CompleteRow, StatementFails, At
  <2>7. CASE CompleteRoot
    BY <1>0, <2>7, SameTable, EndPassRow, RowArguments DEF CompleteRoot, StatementFails
  <2> QED
    BY <1>3, <2>1, <2>2, <2>3, <2>4, <2>5, <2>6, <2>7 DEF Callback, RecorderStep
<1>4. ASSUME NEW p \in Passes, StartTopLevelPass(p) PROVE RowsKeep
  BY <1>4, SameTable DEF StartTopLevelPass, BeforePass, storageVars
<1>5. CASE Rewrite
  BY <1>5, SameTable DEF Rewrite, storageVars
<1>6. ASSUME NEW t \in Threads, PassManager(t) PROVE RowsKeep
  BY <1>6, SameTable, ManagerTable, NotifyTable
<1>7. CASE UNCHANGED vars
  BY <1>7, SameTable DEF vars, storageVars
<1> QED
  BY <1>1, <1>2, <1>3, <1>4, <1>5, <1>6, <1>7 DEF Next

-----------------------------------------------------------------------------
(* The entries of activePasses.                                             *)

LEMMA EntryFacts ==
  ASSUME CaptureInv, NEW t \in Threads, NEW p \in Passes
  PROVE  /\ activePasses[t][p].id \in RowIds \union {NoId}
         /\ NoId \notin RowIds
         /\ passExecution = <<>> => activePasses[t][p].id = NoId
<1>1. activePasses[t][p].id \in RowIds \union {NoId}
  BY DEF CaptureInv, RecorderInv, IdsOK
<1>2. passExecution = <<>> => RowIds = {}
  BY EmptySeq DEF RowIds
<1> QED
  BY <1>1, <1>2 DEF RowIds, NoId

LEMMA EntriesKept ==
  ASSUME CaptureInv, EntriesFollow, EntriesDescribe, RowsKeep, UNCHANGED activePasses,
         rootPass' = rootPass \/ passExecution = <<>>,
         Following' => Following /\ \A t \in Threads, p \in Passes :
                                      IsRecorded(t, p)' <=> IsRecorded(t, p)
  PROVE  EntriesFollow' /\ EntriesDescribe'
<1>1. EntriesFollow'
  BY DEF EntriesFollow
<1>2. ASSUME NEW t \in Threads, NEW p \in Passes, activePasses[t][p].id # NoId
      PROVE  LET entry == activePasses[t][p] IN
             /\ entry.id # rootPass'
             /\ passExecution'[entry.id].name = p
             /\ passExecution'[entry.id].parent = entry.parent
             /\ passExecution'[entry.id].before = entry.before
  <2>1. activePasses[t][p].id \in RowIds /\ passExecution # <<>>
    BY <1>2, EntryFacts
  <2> QED
    BY <1>2, <2>1 DEF EntriesDescribe, RowsKeep
<1> QED
  BY <1>1, <1>2 DEF EntriesDescribe

\* Before the first pass there are no entries.
LEMMA EntriesEmpty ==
  ASSUME CaptureInv, UNCHANGED activePasses, passExecution = <<>>, passExecution' = <<>>,
         \A t \in Threads : stack'[t] = <<>>, call'.fn # "afterPass"
  PROVE  EntriesFollow' /\ EntriesDescribe' /\ OpenFollows' /\ CallSteps'
<1>1. \A t \in Threads, p \in Passes : activePasses'[t][p].id = NoId
  BY EntryFacts
<1>2. \A t \in Threads, p \in Passes : ~IsRecorded(t, p)'
  BY EmptySeq DEF IsRecorded, Returning, Inside, Depths
<1>3. RowIds' = {}
  BY EmptySeq DEF RowIds
<1> QED
  BY <1>1, <1>2, <1>3 DEF EntriesFollow, EntriesDescribe, OpenFollows, CallSteps

LEMMA OpenKept ==
  ASSUME OpenFollows, UNCHANGED <<activePasses, rootPass>>, RowIds' = RowIds,
         \A r \in RowIds : passExecution'[r].open = passExecution[r].open,
         firstError => firstError',
         Following' => /\ Following
                       /\ \A t \in Threads, p \in Passes :
                            /\ Closing(t, p) => Closing(t, p)'
                            /\ Closing(t, p)' => firstError' \/ Closing(t, p),
         CaptureInv
  PROVE  OpenFollows'
<1> SUFFICES ASSUME Following' PROVE OpenFollows'
  BY DEF OpenFollows
<1>1. ASSUME NEW t \in Threads, NEW p \in Passes, activePasses[t][p].id # NoId,
             ~Closing(t, p)'
      PROVE  passExecution'[activePasses[t][p].id].open
  <2>1. activePasses[t][p].id \in RowIds /\ ~Closing(t, p)
    BY <1>1, EntryFacts
  <2> QED
    BY <1>1, <2>1 DEF OpenFollows
<1>2. ASSUME NEW r \in RowIds, passExecution[r].open, r # rootPass
      PROVE  \E t \in Threads, p \in Passes :
               activePasses[t][p].id = r /\ (Closing(t, p)' => firstError')
  BY <1>2 DEF OpenFollows
<1> QED
  BY <1>1, <1>2 DEF OpenFollows

\* The recorder's own steps leave the stacks alone.
LEMMA SameInside ==
  ASSUME UNCHANGED stack
  PROVE  \A t \in Threads, p \in Passes : Inside(t, p)' <=> Inside(t, p)
BY DEF Inside, Depths

LEMMA FollowingFacts ==
  ASSUME CaptureInv
  PROVE  /\ LockFree /\ ~Recording => ~Following
         /\ \A t \in Threads, p \in Passes :
              LockFree => (IsRecorded(t, p) <=> Inside(t, p)) /\ ~Closing(t, p)
BY DEF Following, LockFree, IsRecorded, Starting, Closing, Returning

\* Steps of the pass manager that start and end no pass.
LEMMA EntriesStill ==
  ASSUME CaptureInv, EntriesInv, UNCHANGED <<activePasses, rootPass, passExecution, life, call>>,
         firstError => firstError',
         firstError \in BOOLEAN,
         \A t \in Threads, p \in Passes : Inside(t, p)' <=> Inside(t, p),
         firstError' = firstError \/ LockFree
  PROVE  EntriesInv'
<1>1. Following' => Following
  BY DEF Following, Recording, life
<1>2. \A t \in Threads, p \in Passes : /\ IsRecorded(t, p)' <=> IsRecorded(t, p)
                                       /\ Closing(t, p)' <=> Closing(t, p)
  BY DEF IsRecorded, Returning, Starting, Closing
<1>3. RowsKeep /\ RowIds' = RowIds
  BY SameTable
<1>4. EntriesFollow' /\ EntriesDescribe'
  BY <1>1, <1>2, <1>3, EntriesKept DEF EntriesInv
<1>5. OpenFollows'
  BY <1>1, <1>2, <1>3, OpenKept DEF EntriesInv
<1>6. CallSteps'
  BY DEF EntriesInv, CallSteps, life, LockFree
<1> QED
  BY <1>4, <1>5, <1>6 DEF EntriesInv

-----------------------------------------------------------------------------
(* What the stacks tell of the passes a thread is inside.                   *)

LEMMA PushedInside ==
  ASSUME CaptureInv, NEW t \in Threads, NEW frame, Pushed(t, frame)
  PROVE  \A u \in Threads, p \in Passes :
           Inside(u, p)' <=> Inside(u, p) \/ (u = t /\ IsPass(frame, p))
<1> SUFFICES ASSUME NEW u \in Threads, NEW p \in Passes
             PROVE  Inside(u, p)' <=> Inside(u, p) \/ (u = t /\ IsPass(frame, p))
  OBVIOUS
<1>1. PICK n \in Nat : n = Len(stack[u]) /\ Depths(u) = 1 .. n
  BY StackFacts
<1>2. Depths(u)' = IF u = t THEN 1 .. (n + 1) ELSE 1 .. n
  BY <1>1 DEF Pushed, Depths
<1>3. \A i \in 1 .. n : stack'[u][i] = stack[u][i]
  BY <1>1 DEF Pushed
<1>4. u = t => stack'[u][n + 1] = frame
  BY <1>1 DEF Pushed
<1>5. CASE u = t
  <2>1. \A i \in 1 .. (n + 1) : i = n + 1 \/ i \in 1 .. n
    BY <1>1
  <2>2. n + 1 \in 1 .. (n + 1) /\ \A i \in 1 .. n : i \in 1 .. (n + 1)
    BY <1>1
  <2> QED
    BY <1>1, <1>2, <1>3, <1>4, <1>5, <2>1, <2>2 DEF Inside
<1>6. CASE u # t
  BY <1>1, <1>2, <1>3, <1>6 DEF Inside
<1> QED
  BY <1>5, <1>6

\* A popped frame takes one pass away at most.
LEMMA PoppedInside ==
  ASSUME CaptureInv, RunOnce, NEW t \in Threads, stack[t] # <<>>, Popped(t)
  PROVE  \A u \in Threads, p \in Passes :
           Inside(u, p)' <=> Inside(u, p) /\ ~(u = t /\ IsPass(Top(t), p))
<1> SUFFICES ASSUME NEW u \in Threads, NEW p \in Passes
             PROVE  Inside(u, p)' <=> Inside(u, p) /\ ~(u = t /\ IsPass(Top(t), p))
  OBVIOUS
<1>1. PICK n \in Nat : n = Len(stack[u]) /\ Depths(u) = 1 .. n
  BY StackFacts
<1>2. Depths(u)' = IF u = t THEN 1 .. (n - 1) ELSE 1 .. n
  BY <1>1 DEF Popped, Depths
<1>3. \A i \in Depths(u)' : IsPass(stack'[u][i], p) <=> IsPass(stack[u][i], p)
  BY DEF Popped, SameFrame, Depths, IsPass
<1>4. u = t => n \in 1 .. n /\ Top(t) = stack[u][n]
  BY <1>1, StackFacts
<1>5. CASE u = t
  <2>1. \A i \in 1 .. n : i = n \/ i \in 1 .. (n - 1)
    BY <1>1
  <2>2. \A i \in 1 .. (n - 1) : i \in 1 .. n /\ i # n
    BY <1>1
  <2>3. \A i \in 1 .. (n - 1) : ~(IsPass(stack[u][n], p) /\ IsPass(stack[u][i], p))
    <3> SUFFICES ASSUME NEW i \in 1 .. (n - 1), IsPass(stack[u][n], p), IsPass(stack[u][i], p)
                 PROVE  FALSE
      OBVIOUS
    <3>1. n \in Depths(u) /\ i \in Depths(u) /\ i # n
      BY <1>1, <1>4, <1>5, <2>2
    <3> QED
      BY <3>1 DEF RunOnce, IsPass
  <2> QED
    BY <1>1, <1>2, <1>3, <1>4, <1>5, <2>1, <2>2, <2>3 DEF Inside
<1>6. CASE u # t
  BY <1>1, <1>2, <1>3, <1>6 DEF Inside
<1> QED
  BY <1>5, <1>6

LEMMA RephasedInside ==
  ASSUME CaptureInv, NEW t \in Threads, NEW phase, Rephased(t, phase)
  PROVE  \A u \in Threads, p \in Passes : Inside(u, p)' <=> Inside(u, p)
<1>1. \A u \in Threads : Depths(u)' = Depths(u)
  BY DEF Rephased, Depths
<1>2. \A u \in Threads : \A i \in Depths(u) : stack[u][i] \in Frame
  BY StackFacts
<1>3. \A u \in Threads : \A i \in Depths(u) :
        stack'[u][i].kind = stack[u][i].kind /\ stack'[u][i].pass = stack[u][i].pass
  <2> SUFFICES ASSUME NEW u \in Threads, NEW i \in Depths(u)
               PROVE  stack'[u][i].kind = stack[u][i].kind /\ stack'[u][i].pass = stack[u][i].pass
    OBVIOUS
  <2>1. stack[u][i] \in Frame
    BY <1>2
  <2>2. CASE u = t /\ i = Len(stack[t])
    <3>1. stack'[u][i] = [stack[u][i] EXCEPT !.phase = phase]
      BY <2>2 DEF Rephased
    <3> QED
      BY <2>1, <3>1 DEF Frame
  <2>3. CASE ~(u = t /\ i = Len(stack[t]))
    BY <2>3 DEF Rephased
  <2> QED
    BY <2>2, <2>3
<1> QED
  BY <1>1, <1>3 DEF Inside, IsPass

\* A step after which the recorder no longer records leaves the entries alone.
LEMMA EntriesStop ==
  ASSUME CaptureInv, EntriesInv, UNCHANGED <<activePasses, rootPass>>, RowsKeep, ~Following'
  PROVE  EntriesInv'
<1>1. EntriesFollow' /\ EntriesDescribe'
  BY EntriesKept DEF EntriesInv
<1>2. OpenFollows' /\ CallSteps'
  BY DEF OpenFollows, CallSteps, Following
<1> QED
  BY <1>1, <1>2 DEF EntriesInv

\* A pass that starts has no entry yet.
LEMMA StartPassEntries ==
  ASSUME CaptureInv, EntriesInv, NEW t \in Threads, NEW p \in Passes, NEW text,
         ~Running(p), BeforePass(t, p, text),
         PushFrame(t, NewFrame("pass", t, p, EntryPhase))
  PROVE  EntriesInv'
<1> DEFINE frame == NewFrame("pass", t, p, EntryPhase)
<1>1. frame \in Frame /\ IsPass(frame, p) /\ \A q : IsPass(frame, q) => q = p
  BY DEF NewFrame, Frame, EntryPhase, IsPass
<1> HIDE DEF frame
<1>2. Pushed(t, frame)
  BY <1>1, PushedFacts DEF frame
<1>3. LockFree /\ UNCHANGED <<passExecution, activePasses, rootPass, life, firstError>>
  BY DEF BeforePass, storageVars, maps, root
<1>4. RowsKeep /\ RowIds' = RowIds
  BY <1>3, SameTable
<1>5. CASE ~Recording
  <2>1. ~Following'
    BY <1>3, <1>5 DEF BeforePass, Following, Recording, life, LockFree
  <2> QED
    BY <1>3, <1>4, <2>1, EntriesStop
<1>6. CASE Recording
  <2>1. /\ call'.fn = "beforePass" /\ call'.thread = t /\ call'.pass = p
        /\ call'.step \in {"snapshot", "root", "row"}
    BY <1>6 DEF BeforePass, AfterSnapshotStep
  <2>2. \A u \in Threads, q \in Passes : IsRecorded(u, q)' <=> IsRecorded(u, q)
    <3> SUFFICES ASSUME NEW u \in Threads, NEW q \in Passes
                 PROVE  IsRecorded(u, q)' <=> IsRecorded(u, q)
      OBVIOUS
    <3>1. IsRecorded(u, q) <=> Inside(u, q)
      BY <1>3, FollowingFacts
    <3>2. IsRecorded(u, q)' <=> Inside(u, q)' /\ ~(u = t /\ q = p)
      BY <2>1 DEF IsRecorded, Returning, Starting
    <3>3. Inside(u, q)' <=> Inside(u, q) \/ (u = t /\ q = p)
      BY <1>1, <1>2, PushedInside
    <3>4. ~Inside(t, p)
      BY DEF Inside, Running, IsPass
    <3> QED
      BY <3>1, <3>2, <3>3, <3>4
  <2>3. \A u \in Threads, q \in Passes : ~Closing(u, q) /\ ~Closing(u, q)'
    BY <1>3, <2>1 DEF Closing, Returning, LockFree
  <2>4. Following
    BY <1>6 DEF Following
  <2>5. EntriesFollow' /\ EntriesDescribe'
    BY <1>3, <1>4, <2>2, <2>4, EntriesKept DEF EntriesInv
  <2>6. OpenFollows'
    BY <1>3, <1>4, <2>3, <2>4, OpenKept DEF EntriesInv
  <2>7. CallSteps'
    BY <2>1 DEF CallSteps
  <2> QED
    BY <2>5, <2>6, <2>7 DEF EntriesInv
<1> QED
  BY <1>5, <1>6

\* A pass that returns has its entry until the callback forgets it.
LEMMA ReturnEntries ==
  ASSUME CaptureInv, ManagerInv, EntriesInv, NEW t \in Threads, NEW failed \in BOOLEAN,
         ReturnFromPass(t, failed)
  PROVE  EntriesInv' /\ (Recording => call'.fn = "afterPass") /\ UNCHANGED firstError
<1>1. PICK p : p = Top(t).pass
  OBVIOUS
<1>2. /\ stack[t] # <<>> /\ IsPass(Top(t), p) /\ p \in Passes /\ Popped(t)
      /\ \A q : IsPass(Top(t), q) => q = p
  BY <1>1, ReturnFacts, TopFacts DEF ReturnFromPass, TopIs, IsPass
<1>3. PICK text : AfterPass(t, p, failed, text)
  BY <1>1 DEF ReturnFromPass
<1>4. LockFree /\ UNCHANGED <<passExecution, activePasses, rootPass, life>>
  BY <1>3 DEF AfterPass, storageVars, maps, root
<1>5. RowsKeep /\ RowIds' = RowIds
  BY <1>4, SameTable
<1>6. CASE ~Recording
  <2>1. ~Following' /\ UNCHANGED firstError
    BY <1>3, <1>4, <1>6 DEF AfterPass, Following, Recording, life, LockFree
  <2> QED
    BY <1>4, <1>5, <1>6, <2>1, EntriesStop
<1>7. CASE Recording
  <2>1. Inside(t, p)
    BY <1>2, StackFacts DEF Inside
  <2>2. activePasses[t][p].id # NoId
    BY <1>2, <1>4, <1>7, <2>1, FollowingFacts DEF EntriesInv, EntriesFollow, Following
  <2>3. /\ call'.fn = "afterPass" /\ call'.thread = t /\ call'.pass = p
        /\ call'.failed = failed /\ call'.step = AfterEntryStep(failed)
        /\ UNCHANGED firstError
    BY <1>3, <1>7, <2>2 DEF AfterPass
  <2>4. \A u \in Threads, q \in Passes : IsRecorded(u, q)' <=> IsRecorded(u, q)
    <3> SUFFICES ASSUME NEW u \in Threads, NEW q \in Passes
                 PROVE  IsRecorded(u, q)' <=> IsRecorded(u, q)
      OBVIOUS
    <3>1. IsRecorded(u, q) <=> Inside(u, q)
      BY <1>4, FollowingFacts
    <3>2. IsRecorded(u, q)' <=> Inside(u, q)' \/ (u = t /\ q = p)
      BY <2>3 DEF IsRecorded, Returning, Starting
    <3>3. Inside(u, q)' <=> Inside(u, q) /\ ~(u = t /\ q = p)
      BY <1>2, PoppedInside DEF ManagerInv
    <3> QED
      BY <2>1, <3>1, <3>2, <3>3
  <2>5. \A u \in Threads, q \in Passes : ~Closing(u, q) /\ ~Closing(u, q)'
    BY <1>4, <2>3 DEF Closing, Returning, LockFree, AfterEntryStep
  <2>6. Following
    BY <1>7 DEF Following
  <2>7. EntriesFollow' /\ EntriesDescribe'
    BY <1>4, <1>5, <2>4, <2>6, EntriesKept DEF EntriesInv
  <2>8. OpenFollows'
    BY <1>4, <1>5, <2>3, <2>5, <2>6, OpenKept DEF EntriesInv
  <2>9. CallSteps'
    BY <1>4, <1>7, <2>3 DEF CallSteps, AfterEntryStep, Recording, life
  <2> QED
    BY <2>3, <2>7, <2>8, <2>9 DEF EntriesInv
<1> QED
  BY <1>6, <1>7

LEMMA PassManagerEntries ==
  ASSUME CaptureInv, ManagerInv, EntriesInv, NEW t \in Threads, PassManager(t)
  PROVE  EntriesInv'
<1>0. firstError \in BOOLEAN /\ RunOnce
  BY DEF CaptureInv, RecorderInv, RecorderTypeOK, ManagerInv
<1>1. ASSUME NEW p \in Passes, StartNestedPass(t, p) PROVE EntriesInv'
  BY <1>1, StartPassEntries DEF StartNestedPass
<1>2. ASSUME NEW o \in Threads, NEW i \in Depths(o), StartPipeline(o, i, t)
      PROVE  EntriesInv'
  <2>1. PICK p \in Passes : p = stack[o][i].pass
    BY FrameFacts
  <2> DEFINE frame == NewFrame("pipeline", o, p, "running")
  <2>2. PushFrame(t, frame) /\ BeforePipeline(t, o, p)
    BY <1>2, <2>1 DEF StartPipeline
  <2>3. frame \in Frame /\ \A q : ~IsPass(frame, q)
    BY DEF NewFrame, Frame, IsPass
  <2> HIDE DEF frame
  <2>4. \A u \in Threads, q \in Passes : Inside(u, q)' <=> Inside(u, q)
    BY <2>2, <2>3, PushedFacts, PushedInside
  <2>5. UNCHANGED <<activePasses, rootPass, passExecution, life, call, firstError>>
    BY <2>2 DEF BeforePipeline, storageVars, root
  <2> QED
    BY <1>0, <2>4, <2>5, EntriesStill
<1>3. ASSUME NEW failed \in BOOLEAN, ReturnFromPass(t, failed) PROVE EntriesInv'
  BY <1>3, ReturnEntries
<1>4. CASE EndPipeline(t) \/ LeavePattern(t) \/ AbandonPipeline(t)
  <2>1. /\ stack[t] # <<>> /\ Top(t).kind # "pass"
        /\ UNCHANGED <<activePasses, rootPass, passExecution, life, call, firstError>>
    BY <1>4 DEF EndPipeline, AfterPipeline, LeavePattern, EndPattern, UnchangedExceptNames,
                AbandonPipeline, TopIs, storageVars, recorderVars, root, life
  <2>2. Popped(t)
    BY <1>4, <2>1, PoppedFacts, AbandonFacts DEF EndPipeline, LeavePattern
  <2>3. \A u \in Threads, q \in Passes : Inside(u, q)' <=> Inside(u, q)
    BY <1>0, <2>1, <2>2, PoppedInside DEF IsPass
  <2> QED
    BY <1>0, <2>1, <2>3, EntriesStill
<1>5. CASE EnterAction(t) \/ LeaveAction(t)
  <2>1. /\ stack[t] # <<>> /\ (SetTopPhase(t, "running") \/ SetTopPhase(t, "done"))
        /\ UNCHANGED <<activePasses, rootPass, passExecution, life, call, firstError>>
    BY <1>5 DEF EnterAction, BeginAction, LeaveAction, EndAction, UnchangedExceptNames, TopIs,
                storageVars, root, life
  <2>2. \A u \in Threads, q \in Passes : Inside(u, q)' <=> Inside(u, q)
    BY <2>1, RephasedFacts, RephasedInside
  <2> QED
    BY <1>0, <2>1, <2>2, EntriesStill
<1>6. CASE EnterPattern(t)
  <2> DEFINE frame == NewFrame("pattern", t, Top(t).pass, "running")
  <2>1. /\ stack[t] # <<>> /\ PushFrame(t, frame)
        /\ UNCHANGED <<activePasses, rootPass, passExecution, life, call, firstError>>
    BY <1>6 DEF EnterPattern, Rewriting, BeginPattern, UnchangedExceptNames, storageVars, root,
                life
  <2>2. frame \in Frame /\ \A q : ~IsPass(frame, q)
    BY <2>1, TopFacts DEF NewFrame, Frame, IsPass
  <2> HIDE DEF frame
  <2>3. \A u \in Threads, q \in Passes : Inside(u, q)' <=> Inside(u, q)
    BY <2>1, <2>2, PushedFacts, PushedInside
  <2> QED
    BY <1>0, <2>1, <2>3, EntriesStill
<1>7. CASE NotifyOperation(t)
  <2>1. /\ UNCHANGED <<activePasses, rootPass, passExecution, life, call, stack>>
        /\ firstError' = firstError \/ firstError' = TRUE
        /\ LockFree
    BY <1>7, NotifyTable DEF NotifyOperation, RecordIdentity
  <2> QED
    BY <1>0, <2>1, SameInside, EntriesStill
<1> QED
  BY <1>1, <1>2, <1>3, <1>4, <1>5, <1>6, <1>7 DEF PassManager

\* A callback that goes on to its next statement.
LEMMA SameRecorded ==
  ASSUME SameCall, UNCHANGED <<stack, life>>, firstError => firstError',
         call.fn = "beforePass" => (call.step \in {"snapshot", "root", "row"}
                                      <=> call'.step \in {"snapshot", "root", "row"})
  PROVE  /\ \A t \in Threads, p \in Passes : IsRecorded(t, p)' <=> IsRecorded(t, p)
         /\ Following' => Following
<1>1. Following' => Following
  BY DEF Following, Recording, SameCall, life
<1>2. \A t \in Threads, p \in Passes : IsRecorded(t, p)' <=> IsRecorded(t, p)
  BY SameInside DEF SameCall, IsRecorded, Returning, Starting
<1> QED
  BY <1>1, <1>2

LEMMA EntriesGoOn ==
  ASSUME CaptureInv, EntriesInv, UNCHANGED <<activePasses, stack, rootPass, passExecution, life>>,
         SameCall, firstError => firstError',
         call.fn = "beforePass" => (call.step \in {"snapshot", "root", "row"}
                                      <=> call'.step \in {"snapshot", "root", "row"}),
         call.fn = "afterPass" =>
           (call.step \in {"rootEnd", "status", "cleanup"}
              <=> call'.step \in {"rootEnd", "status", "cleanup"}),
         CallSteps'
  PROVE  EntriesInv'
<1>1. RowsKeep /\ RowIds' = RowIds
  BY SameTable
<1>2. /\ \A t \in Threads, p \in Passes : IsRecorded(t, p)' <=> IsRecorded(t, p)
      /\ Following' => Following
  BY SameRecorded
<1>3. EntriesFollow' /\ EntriesDescribe'
  BY <1>1, <1>2, EntriesKept DEF EntriesInv
<1>4. \A t \in Threads, p \in Passes : Closing(t, p)' <=> Closing(t, p)
  BY DEF Closing, Returning, SameCall
<1>5. OpenFollows'
  BY <1>1, <1>2, <1>4, OpenKept DEF EntriesInv
<1> QED
  BY <1>3, <1>5 DEF EntriesInv

\* A callback of beforePass, or one that gave up, has ended.
LEMMA UnlockFacts ==
  ASSUME Unlock
  PROVE  call'.fn = "none" /\ CallSteps' /\ (Following' => Recording')
BY NoCallFacts DEF Unlock, CallSteps, Following

LEMMA AttachEntries ==
  ASSUME CaptureInv, EntriesInv, UNCHANGED stack,
         Attach \/ AttachCreate \/ AttachVersion \/ AttachProducer \/ AttachFidelity
  PROVE  EntriesInv'
<1>1. ~attached /\ UNCHANGED activePasses /\ passExecution = <<>>
  BY DEF Attach, AttachCreate, AttachVersion, AttachProducer, AttachFidelity, AttachStatement,
         At, CaptureInv, RecorderInv, CallOK, maps
<1>2. \A t \in Threads : stack'[t] = <<>>
  BY <1>1 DEF CaptureInv, IdleUntilAttached
<1>3. passExecution' = <<>>
  BY <1>1 DEF Attach, AttachCreate, AttachVersion, AttachProducer, AttachFidelity,
              AttachStatement, CreateFile, SetMeta, StatementFails, storageVars
<1>4. call'.fn # "afterPass"
  <2>1. CASE Attach
    BY <2>1 DEF Attach, NoCall
  <2>2. CASE AttachCreate \/ AttachVersion \/ AttachProducer \/ AttachFidelity
    <3>1. call.fn = "attach" /\ RecorderStep
      BY <2>2 DEF AttachCreate, AttachVersion, AttachProducer, AttachFidelity, AttachStatement,
                  At, RecorderStep
    <3>2. Unlock \/ SameCall
      BY <3>1, CallbackCall DEF CaptureInv
    <3> QED
      BY <3>1, <3>2, UnlockFacts DEF SameCall
  <2> QED
    BY <2>1, <2>2
<1> QED
  BY <1>1, <1>2, <1>3, <1>4, EntriesEmpty DEF EntriesInv

LEMMA FinishEntries ==
  ASSUME CaptureInv, EntriesInv, Finish
  PROVE  EntriesInv'
<1>1. /\ UNCHANGED <<activePasses, rootPass, passExecution>> /\ ~Following'
  BY DEF Finish, SealFile, SealFails, maps, root, Following, Recording, LockFree
<1> QED
  BY <1>1, SameTable, EntriesStop

\* The statement failed, and the callback has ended.
LEMMA FailedStops ==
  ASSUME Unlock, RememberError
  PROVE  ~Following'
BY UnlockFacts DEF RememberError, Recording

LEMMA SnapshotEntries ==
  ASSUME CaptureInv, EntriesInv, UNCHANGED stack, BeforeSnapshot \/ AfterSnapshot
  PROVE  EntriesInv'
<1>1. UNCHANGED <<activePasses, rootPass, passExecution, life>>
  BY DEF BeforeSnapshot, AfterSnapshot, WriteBlob, StatementFails, maps, root
<1>2. CASE StatementFails /\ RememberError /\ Unlock
  BY <1>1, <1>2, FailedStops, SameTable, EntriesStop
<1>3. CASE BeforeSnapshot /\ GoTo(AfterSnapshotStep) /\ UNCHANGED firstError
  <2>1. AfterSnapshotStep \in Steps /\ AfterSnapshotStep \in {"root", "row"}
        /\ call.fn = "beforePass" /\ call.step = "snapshot"
    BY <1>3 DEF AfterSnapshotStep, Steps, BeforeSnapshot, At
  <2>2. SameCall /\ call'.step \in {"root", "row"}
    BY <1>3, <2>1, GoToCall DEF CaptureInv
  <2>3. CallSteps'
    BY <2>1, <2>2 DEF CallSteps, SameCall
  <2> QED
    BY <1>1, <1>3, <2>1, <2>2, <2>3, EntriesGoOn
<1>4. CASE AfterSnapshot /\ GoTo(IF Fidelity = "full" THEN "index" ELSE "end")
           /\ UNCHANGED firstError
  <2> DEFINE step == IF Fidelity = "full" THEN "index" ELSE "end"
  <2>1. step \in Steps /\ step \in {"index", "end"} /\ (step = "index" => Fidelity = "full")
        /\ call.fn = "afterPass" /\ call.step = "snapshot" /\ GoTo(step)
    BY <1>4 DEF Steps, AfterSnapshot, At
  <2> HIDE DEF step
  <2>2. SameCall /\ call'.step = step
    BY <2>1, GoToCall DEF CaptureInv
  <2>3. CallSteps'
    BY <1>1, <1>4, <2>1, <2>2 DEF CallSteps, SameCall, EntriesInv, life
  <2> QED
    BY <1>1, <1>4, <2>1, <2>2, <2>3, EntriesGoOn
<1> QED
  BY <1>2, <1>3, <1>4 DEF BeforeSnapshot, AfterSnapshot

LEMMA IndexEntries ==
  ASSUME CaptureInv, EntriesInv, UNCHANGED stack, BeforeIndex \/ AfterIndex
  PROVE  EntriesInv'
<1>1. UNCHANGED <<activePasses, rootPass, passExecution, life>>
  BY DEF BeforeIndex, AfterIndex, IndexRow, WriteOpIndex, StatementFails, maps, root
<1>2. CASE BeforeIndex
  <2>0. IndexRow(0, "idle") /\ call.fn = "beforePass" /\ call.step = "index"
    BY <1>2 DEF BeforeIndex, At
  <2>1. \/ SameCall /\ call'.step = "index" /\ UNCHANGED firstError
        \/ Unlock /\ UNCHANGED firstError
        \/ Unlock /\ RememberError
    BY <2>0, IndexCall DEF CaptureInv
  <2>2. CASE SameCall /\ call'.step = "index" /\ UNCHANGED firstError
    <3>1. CallSteps'
      BY <2>0, <2>2 DEF CallSteps, SameCall
    <3> QED
      BY <1>1, <2>0, <2>2, <3>1, EntriesGoOn
  <2>3. CASE Unlock /\ UNCHANGED firstError
    <3>1. Following' => Following
      BY <1>1, <2>3, UnlockFacts DEF Following, Recording, life
    <3>2. \A t \in Threads, p \in Passes : /\ IsRecorded(t, p)' <=> IsRecorded(t, p)
                                           /\ Closing(t, p)' <=> Closing(t, p)
      BY <2>0, <2>3, UnlockFacts, SameInside DEF IsRecorded, Returning, Starting, Closing
    <3>3. RowsKeep /\ RowIds' = RowIds
      BY <1>1, SameTable
    <3>4. EntriesFollow' /\ EntriesDescribe'
      BY <1>1, <3>1, <3>2, <3>3, EntriesKept DEF EntriesInv
    <3>5. OpenFollows'
      BY <1>1, <2>3, <3>1, <3>2, <3>3, OpenKept DEF EntriesInv
    <3> QED
      BY <2>3, <3>4, <3>5, UnlockFacts DEF EntriesInv
  <2>4. CASE Unlock /\ RememberError
    BY <1>1, <2>4, FailedStops, SameTable, EntriesStop
  <2> QED
    BY <2>1, <2>2, <2>3, <2>4
<1>3. CASE AfterIndex
  <2>0. IndexRow(1, "end") /\ call.fn = "afterPass" /\ call.step = "index"
    BY <1>3 DEF AfterIndex, At
  <2>1. /\ SameCall
        /\ \/ call'.step = "index" /\ UNCHANGED firstError
           \/ call'.step = "end" /\ (UNCHANGED firstError \/ firstError' = TRUE)
    BY <2>0, IndexCall DEF CaptureInv, RememberError
  <2>2. CallSteps'
    BY <1>1, <2>0, <2>1 DEF CallSteps, SameCall, EntriesInv, life
  <2> QED
    BY <1>1, <2>0, <2>1, <2>2, EntriesGoOn
<1> QED
  BY <1>2, <1>3

LEMMA MarkEntries ==
  ASSUME CaptureInv, EntriesInv, UNCHANGED stack, MarkFailed
  PROVE  EntriesInv'
<1>1. /\ UNCHANGED <<activePasses, rootPass, passExecution, life>>
      /\ call.fn = "afterPass" /\ call.step = "status" /\ GoTo("cleanup")
      /\ UNCHANGED firstError \/ firstError' = TRUE
  BY DEF MarkFailed, SetMeta, StatementFails, RememberError, maps, root, At
<1>2. SameCall /\ call'.step = "cleanup"
  BY <1>1, GoToCall DEF CaptureInv, Steps
<1>3. CallSteps'
  BY <1>1, <1>2 DEF CallSteps, SameCall, EntriesInv, life
<1> QED
  BY <1>1, <1>2, <1>3, EntriesGoOn

LEMMA CreateRootEntries ==
  ASSUME CaptureInv, EntriesInv, UNCHANGED stack, CreateRoot
  PROVE  EntriesInv'
<1>0. StorageTypeOK /\ RecorderInv /\ call.text \in OptTexts
  BY RowArguments DEF CaptureInv, RecorderInv
<1>1. /\ UNCHANGED <<activePasses, life>> /\ call.fn = "beforePass" /\ call.step = "root"
      /\ passExecution = <<>>
  BY <1>0 DEF CreateRoot, maps, At, RecorderInv, CallOK, IdsOK, NoId
<1>2. CASE StatementFails /\ RememberError /\ Unlock /\ UNCHANGED root
  BY <1>1, <1>2, FailedStops, SameTable, EntriesStop DEF StatementFails, root
<1>3. CASE /\ BeginPass(NoId, 0, NoPass, call.text)
           /\ rootPass' = NextRowId /\ GoTo("row") /\ UNCHANGED firstError
  <2>1. RowIds' = RowIds \union {NextRowId} /\ RowsKeep
    BY <1>0, <1>3, BeginPassRow DEF Names
  <2>2. RowIds = {} /\ RowIds' = {rootPass'}
    BY <1>1, <1>3, <2>1, EmptySeq DEF RowIds
  <2>3. SameCall /\ call'.step = "row"
    BY <1>0, <1>1, <1>3, GoToCall DEF Steps
  <2>4. EntriesFollow' /\ EntriesDescribe'
    BY <1>1, <1>3, <2>1, <2>3, SameRecorded, EntriesKept DEF EntriesInv
  <2>5. \A t \in Threads, p \in Passes : activePasses'[t][p].id = NoId
    BY <1>1, EntryFacts
  <2>6. OpenFollows' /\ CallSteps'
    BY <1>1, <2>2, <2>3, <2>5 DEF OpenFollows, CallSteps, SameCall
  <2> QED
    BY <2>4, <2>6 DEF EntriesInv
<1> QED
  BY <1>2, <1>3 DEF CreateRoot

\* What CreateRow does when its statement succeeds: emplace finds no entry.
LEMMA CreateRowFacts ==
  ASSUME CaptureInv, EntriesInv, CreateRow, NEW t, NEW p, t = call.thread, p = call.pass
  PROVE  /\ t \in Threads /\ p \in Passes /\ Starting(t, p) /\ ~Closing(t, p) /\ Following
         /\ activePasses[t][p].id = NoId
         /\ UNCHANGED <<life, root, pipelineParents>>
         /\ \/ /\ BeginPass(ParentFor(t), SequenceOf(ParentFor(t)), p, call.text)
               /\ \A u \in Threads, q \in Passes :
                    activePasses'[u][q] =
                      IF u = t /\ q = p
                      THEN [id |-> NextRowId, parent |-> ParentFor(t), before |-> call.text]
                      ELSE activePasses[u][q]
               /\ activePassIds' = [activePassIds EXCEPT ![t] = Push(@, NextRowId)]
               /\ IF Fidelity = "full" THEN GoTo("index") ELSE Unlock
               /\ UNCHANGED firstError
            \/ /\ StatementFails /\ RememberError /\ Unlock
               /\ UNCHANGED <<activePasses, activePassIds>>
<1>1. t \in Threads /\ p \in Passes /\ call.fn = "beforePass" /\ call.step = "row"
  BY RowArguments DEF CreateRow, At
<1>2. Starting(t, p) /\ ~Closing(t, p) /\ ~IsRecorded(t, p)
  BY <1>1 DEF Starting, Closing, IsRecorded, Returning
<1>3. Recording
  BY <1>1, RowArguments DEF At
<1>4. activePasses[t][p].id = NoId
  BY <1>1, <1>2, <1>3 DEF EntriesInv, EntriesFollow, Following
<1>5. activePasses \in [Threads -> [Passes -> ActivePass]]
  BY DEF CaptureInv, RecorderInv, RecorderTypeOK
<1>6. ASSUME RegisterPass(t, p, ParentFor(t))
      PROVE  /\ \A u \in Threads, q \in Passes :
                  activePasses'[u][q] =
                    IF u = t /\ q = p
                    THEN [id |-> NextRowId, parent |-> ParentFor(t), before |-> call.text]
                    ELSE activePasses[u][q]
             /\ activePassIds' = [activePassIds EXCEPT ![t] = Push(@, NextRowId)]
             /\ IF Fidelity = "full" THEN GoTo("index") ELSE Unlock
             /\ UNCHANGED firstError
  <2> DEFINE entry == [id |-> NextRowId, parent |-> ParentFor(t), before |-> call.text]
  <2>1. /\ activePasses' = [activePasses EXCEPT ![t][p] = entry]
        /\ activePassIds' = [activePassIds EXCEPT ![t] = Push(@, NextRowId)]
        /\ IF Fidelity = "full" THEN GoTo("index") ELSE Unlock
        /\ UNCHANGED firstError
    BY <1>4, <1>6 DEF RegisterPass
  <2> HIDE DEF entry
  <2>2. \A u \in Threads, q \in Passes :
           activePasses'[u][q] = IF u = t /\ q = p THEN entry ELSE activePasses[u][q]
    BY <1>1, <1>5, <2>1
  <2> QED
    BY <2>1, <2>2 DEF entry
<1>7. UNCHANGED <<life, root, pipelineParents>>
  BY DEF CreateRow, stacks
<1> QED
  BY <1>1, <1>2, <1>3, <1>4, <1>6, <1>7 DEF CreateRow, Following

LEMMA CreateRowEntries ==
  ASSUME CaptureInv, ManagerInv, EntriesInv, UNCHANGED stack, CreateRow
  PROVE  EntriesInv'
<1>0. PICK t, p, new : t = call.thread /\ p = call.pass /\ new = NextRowId
  OBVIOUS
<1>1. /\ t \in Threads /\ p \in Passes /\ Starting(t, p) /\ Following
      /\ activePasses[t][p].id = NoId
      /\ UNCHANGED <<life, root>>
  BY <1>0, CreateRowFacts
<1>2. /\ ParentFor(t) \in Ids \union {NoId} /\ SequenceOf(ParentFor(t)) \in Nat
      /\ p \in Names /\ call.text \in OptTexts /\ StorageTypeOK
      /\ rootPass \in RowIds /\ UNCHANGED rootPass
  <2>1. rootPass = 1 /\ passExecution # <<>>
    BY <1>0, RowArguments DEF CreateRow, CaptureInv, RecorderInv, IdsOK, NoId
  <2>2. passExecution # <<>> => Len(passExecution) \in Nat \ {0}
    BY EmptySeq DEF CaptureInv, RecorderInv, StorageTypeOK
  <2>3. rootPass \in RowIds
    BY <2>1, <2>2 DEF RowIds
  <2> QED
    BY <1>0, <1>1, <2>3, RowArguments DEF CreateRow, At, CaptureInv, RecorderInv, root
<1>3. CASE StatementFails /\ RememberError /\ Unlock /\ UNCHANGED activePasses
  BY <1>2, <1>3, FailedStops, SameTable, EntriesStop DEF StatementFails
<1>4. CASE /\ BeginPass(ParentFor(t), SequenceOf(ParentFor(t)), p, call.text)
           /\ \A u \in Threads, q \in Passes :
                activePasses'[u][q] =
                  IF u = t /\ q = p
                  THEN [id |-> NextRowId, parent |-> ParentFor(t), before |-> call.text]
                  ELSE activePasses[u][q]
           /\ IF Fidelity = "full" THEN GoTo("index") ELSE Unlock
           /\ UNCHANGED firstError
  <2>1. /\ RowIds' = RowIds \union {new} /\ new \notin RowIds /\ RowsKeep
        /\ \A r \in RowIds : passExecution'[r] = passExecution[r]
        /\ passExecution'[new].parent = ParentFor(t)
        /\ passExecution'[new].name = p
        /\ passExecution'[new].before = call.text
        /\ passExecution'[new].open
    BY <1>0, <1>2, <1>4, BeginPassRow
  <2>2. /\ activePasses'[t][p].id = new /\ activePasses'[t][p].parent = ParentFor(t)
        /\ activePasses'[t][p].before = call.text
        /\ \A u \in Threads, q \in Passes :
             ~(u = t /\ q = p) => activePasses'[u][q] = activePasses[u][q]
    BY <1>0, <1>1, <1>4
  <2>3. new # NoId /\ new # rootPass
    BY <1>0, <1>2, <2>1, RowIdsAreNat DEF NextRowId, NoId
  <2>4. \/ call'.fn = "none"
        \/ call'.fn = "beforePass" /\ call'.step = "index"
    BY <1>0, <1>1, <1>4, GoToCall, UnlockFacts
       DEF Starting, SameCall, Steps, CaptureInv
  <2>5. \A u \in Threads, q \in Passes :
          /\ IsRecorded(u, q)' <=> Inside(u, q)
          /\ IsRecorded(u, q) <=> Inside(u, q) /\ ~(u = t /\ q = p)
          /\ ~Closing(u, q) /\ ~Closing(u, q)'
    BY <1>1, <2>4, SameInside DEF IsRecorded, Returning, Starting, Closing
  <2>6. Inside(t, p)
    <3>1. stack[t] # <<>> /\ IsPass(Top(t), p)
      BY <1>0, <1>1 DEF Starting, ManagerInv, CallFollows
    <3> QED
      BY <1>1, <3>1, StackFacts DEF Inside
  <2>7. EntriesFollow'
    BY <1>1, <2>2, <2>3, <2>5, <2>6 DEF EntriesInv, EntriesFollow
  <2>8. EntriesDescribe'
    <3>1. ASSUME NEW u \in Threads, NEW q \in Passes, NEW v \in Threads, NEW w \in Passes,
                 activePasses'[u][q].id # NoId, activePasses'[u][q].id = activePasses'[v][w].id
          PROVE  u = v /\ q = w
      <4>1. /\ ~(u = t /\ q = p) => activePasses'[u][q].id \in RowIds
            /\ ~(v = t /\ w = p) => activePasses'[v][w].id \in RowIds
        BY <2>2, <3>1, EntryFacts
      <4> QED
        BY <2>1, <2>2, <3>1, <4>1 DEF EntriesInv, EntriesDescribe
    <3>2. ASSUME NEW u \in Threads, NEW q \in Passes, activePasses'[u][q].id # NoId
          PROVE  LET entry == activePasses'[u][q] IN
                 /\ entry.id # rootPass'
                 /\ passExecution'[entry.id].name = q
                 /\ passExecution'[entry.id].parent = entry.parent
                 /\ passExecution'[entry.id].before = entry.before
      <4>1. CASE u = t /\ q = p
        BY <1>2, <2>1, <2>2, <2>3, <4>1
      <4>2. CASE ~(u = t /\ q = p)
        <5>1. activePasses'[u][q] = activePasses[u][q] /\ activePasses[u][q].id \in RowIds
          BY <2>2, <3>2, <4>2, EntryFacts
        <5> QED
          BY <1>2, <2>1, <3>2, <5>1 DEF EntriesInv, EntriesDescribe
      <4> QED
        BY <4>1, <4>2
    <3> QED
      BY <3>1, <3>2 DEF EntriesDescribe
  <2>9. OpenFollows'
    <3>1. ASSUME NEW u \in Threads, NEW q \in Passes, activePasses'[u][q].id # NoId
          PROVE  passExecution'[activePasses'[u][q].id].open
      <4>1. CASE u = t /\ q = p
        BY <2>1, <2>2, <4>1
      <4>2. CASE ~(u = t /\ q = p)
        <5>1. activePasses'[u][q] = activePasses[u][q] /\ activePasses[u][q].id \in RowIds
          BY <2>2, <3>1, <4>2, EntryFacts
        <5> QED
          BY <1>1, <2>1, <2>5, <3>1, <5>1 DEF EntriesInv, OpenFollows
      <4> QED
        BY <4>1, <4>2
    <3>2. ASSUME NEW r \in RowIds', passExecution'[r].open, r # rootPass'
          PROVE  \E u \in Threads, q \in Passes : activePasses'[u][q].id = r
      <4>1. CASE r = new
        BY <1>1, <2>2, <4>1
      <4>2. CASE r \in RowIds
        <5>1. PICK u \in Threads, q \in Passes : activePasses[u][q].id = r
          BY <1>1, <1>2, <2>1, <3>2, <4>2 DEF EntriesInv, OpenFollows
        <5>2. r # NoId
          BY <4>2, EntryFacts, <1>1
        <5>3. ~(u = t /\ q = p)
          BY <1>1, <5>1, <5>2
        <5> QED
          BY <2>2, <5>1, <5>3
      <4> QED
        BY <2>1, <4>1, <4>2
    <3> QED
      BY <2>5, <3>1, <3>2 DEF OpenFollows
  <2>10. CallSteps'
    BY <2>4 DEF CallSteps
  <2> QED
    BY <2>7, <2>8, <2>9, <2>10 DEF EntriesInv
<1> QED
  BY <1>0, <1>3, <1>4, CreateRowFacts

LEMMA CompleteRowFacts ==
  ASSUME CaptureInv, EntriesInv, CompleteRow, NEW t, NEW p, t = call.thread, p = call.pass
  PROVE  /\ t \in Threads /\ p \in Passes /\ Returning(t, p) /\ ~Closing(t, p) /\ Following
         /\ call.step = "end" /\ SameCall /\ Closing(t, p)'
         /\ activePasses[t][p].id \in RowIds /\ activePasses[t][p].id # rootPass
         /\ UNCHANGED <<life, root, maps, activePasses>>
         /\ call'.step = AfterEndStep(firstError')
         /\ \/ /\ EndPass(activePasses[t][p].id, call.text,
                          call.failed \/ Differs(Current.before, call.text))
               /\ UNCHANGED firstError
            \/ StatementFails /\ firstError' = TRUE
<1>1. t \in Threads /\ p \in Passes /\ call.fn = "afterPass" /\ call.step = "end"
  BY RowArguments DEF CompleteRow, At
<1>2. activePasses[t][p].id # NoId
  BY <1>1 DEF CaptureInv, RecorderInv, CallOK
<1>3. activePasses[t][p].id \in RowIds /\ activePasses[t][p].id # rootPass
  BY <1>1, <1>2, EntryFacts DEF EntriesInv, EntriesDescribe
<1>4. /\ UNCHANGED <<life, root, maps, activePasses>>
      /\ \/ /\ EndPass(activePasses[t][p].id, call.text,
                       call.failed \/ Differs(Current.before, call.text))
            /\ UNCHANGED firstError /\ GoTo(AfterEndStep(firstError))
         \/ StatementFails /\ firstError' = TRUE /\ GoTo(AfterEndStep(TRUE))
  BY DEF CompleteRow, Current, RememberError, maps
<1>5. GoTo(AfterEndStep(firstError'))
  BY <1>4
<1>6. \A e : AfterEndStep(e) \in Steps /\ AfterEndStep(e) \in {"rootEnd", "status", "cleanup"}
  BY DEF AfterEndStep, Steps
<1>7. SameCall /\ call'.step = AfterEndStep(firstError')
  BY <1>1, <1>5, <1>6, GoToCall DEF CaptureInv
<1>8. Returning(t, p) /\ ~Closing(t, p) /\ Following /\ Closing(t, p)'
  BY <1>1, <1>6, <1>7 DEF Returning, Closing, Following, SameCall
<1> QED
  BY <1>1, <1>3, <1>4, <1>7, <1>8

LEMMA CompleteRowEntries ==
  ASSUME CaptureInv, EntriesInv, UNCHANGED stack, CompleteRow
  PROVE  EntriesInv'
<1>0. PICK t, p, id : t = call.thread /\ p = call.pass /\ id = activePasses[t][p].id
  OBVIOUS
<1>1. /\ t \in Threads /\ p \in Passes /\ Returning(t, p) /\ ~Closing(t, p) /\ Following
      /\ call.step = "end" /\ SameCall /\ Closing(t, p)'
      /\ id \in RowIds /\ id # rootPass
      /\ UNCHANGED <<life, root, activePasses>>
      /\ call'.step = AfterEndStep(firstError')
      /\ \/ /\ EndPass(id, call.text, call.failed \/ Differs(Current.before, call.text))
            /\ UNCHANGED firstError
         \/ StatementFails /\ firstError' = TRUE
  BY <1>0, CompleteRowFacts
<1>2. /\ call.text \in OptTexts /\ StorageTypeOK /\ call.fn = "afterPass"
      /\ (call.failed \/ Differs(Current.before, call.text)) \in BOOLEAN
      /\ firstError \in BOOLEAN /\ UNCHANGED rootPass
  BY <1>1, RowArguments DEF CaptureInv, RecorderInv, RecorderTypeOK, Returning, root
<1>3. CallSteps'
  BY <1>1, <1>2 DEF CallSteps, SameCall, AfterEndStep, EntriesInv, life
<1>4. RowsKeep /\ RowIds' = RowIds
  BY <1>1, <1>2, EndPassRow, SameTable DEF StatementFails
<1>5. /\ Following' => Following
      /\ \A u \in Threads, q \in Passes : IsRecorded(u, q)' <=> IsRecorded(u, q)
  BY <1>1, <1>2, SameRecorded
<1>6. EntriesFollow' /\ EntriesDescribe'
  BY <1>1, <1>2, <1>4, <1>5, EntriesKept DEF EntriesInv
<1>7. \A u \in Threads, q \in Passes : /\ Closing(u, q) => Closing(u, q)'
                                       /\ Closing(u, q)' => u = t /\ q = p
  BY <1>0, <1>1 DEF Closing, Returning, SameCall
<1>8. OpenFollows'
  <2>1. CASE StatementFails /\ firstError' = TRUE
    BY <1>1, <1>2, <1>4, <1>5, <1>7, <2>1, OpenKept DEF EntriesInv, StatementFails
  <2>2. CASE /\ EndPass(id, call.text, call.failed \/ Differs(Current.before, call.text))
             /\ UNCHANGED firstError
    <3>1. /\ \A r \in RowIds \ {id} : passExecution'[r] = passExecution[r]
          /\ ~passExecution'[id].open
      BY <1>2, <2>2, EndPassRow
    <3>2. ASSUME NEW u \in Threads, NEW q \in Passes, activePasses'[u][q].id # NoId,
                 ~Closing(u, q)'
          PROVE  passExecution'[activePasses'[u][q].id].open
      <4>1. ~(u = t /\ q = p) /\ ~Closing(u, q)
        BY <1>1, <1>7, <3>2
      <4>2. activePasses[u][q].id \in RowIds /\ activePasses[u][q].id # NoId
        BY <1>1, <3>2, EntryFacts
      <4>3. activePasses[u][q].id # id
        BY <1>0, <1>1, <4>1, <4>2 DEF EntriesInv, EntriesDescribe
      <4> QED
        BY <1>1, <3>1, <4>1, <4>2, <4>3 DEF EntriesInv, OpenFollows
    <3>3. ASSUME NEW r \in RowIds', passExecution'[r].open, r # rootPass'
          PROVE  \E u \in Threads, q \in Passes :
                   activePasses'[u][q].id = r /\ (Closing(u, q)' => firstError')
      <4>1. r \in RowIds /\ r # id /\ passExecution[r].open /\ r # rootPass
        BY <1>2, <1>4, <3>1, <3>3
      <4>2. PICK u \in Threads, q \in Passes : activePasses[u][q].id = r
        BY <1>1, <4>1 DEF EntriesInv, OpenFollows
      <4>3. ~(u = t /\ q = p)
        BY <1>0, <4>1, <4>2
      <4> QED
        BY <1>1, <1>7, <4>2, <4>3
    <3> QED
      BY <3>2, <3>3 DEF OpenFollows
  <2> QED
    BY <1>1, <2>1, <2>2
<1> QED
  BY <1>3, <1>6, <1>8 DEF EntriesInv

LEMMA CompleteRootEntries ==
  ASSUME CaptureInv, EntriesInv, UNCHANGED stack, CompleteRoot
  PROVE  EntriesInv'
<1>1. /\ call.fn = "afterPass" /\ call.step = "rootEnd"
      /\ UNCHANGED <<life, rootPass, activePasses>>
      /\ \/ /\ EndPass(rootPass, call.text, RootChanged)
            /\ GoTo(IF call.failed THEN "status" ELSE "cleanup")
            /\ UNCHANGED firstError
         \/ StatementFails /\ firstError' = TRUE /\ GoTo("cleanup")
  BY DEF CompleteRoot, At, root, maps, RememberError
<1>2. SameCall /\ call'.step \in {"status", "cleanup"}
      /\ (call'.step = "status" => call.failed /\ UNCHANGED firstError)
  BY <1>1, GoToCall DEF Steps, CaptureInv
<1>3. call.text \in OptTexts /\ StorageTypeOK /\ RootChanged \in BOOLEAN
      /\ firstError \in BOOLEAN
  BY RowArguments DEF CaptureInv, RecorderInv, RecorderTypeOK
<1>4. RowsKeep /\ RowIds' = RowIds
  BY <1>1, <1>3, EndPassRow, SameTable DEF StatementFails
<1>5. /\ Following' => Following
      /\ \A u \in Threads, q \in Passes : IsRecorded(u, q)' <=> IsRecorded(u, q)
  BY <1>1, <1>2, <1>3, SameRecorded
<1>6. EntriesFollow' /\ EntriesDescribe'
  BY <1>1, <1>4, <1>5, EntriesKept DEF EntriesInv
<1>7. CallSteps'
  BY <1>1, <1>2 DEF CallSteps, SameCall, EntriesInv, life
<1>8. \A u \in Threads, q \in Passes : Closing(u, q)' <=> Closing(u, q)
  BY <1>1, <1>2 DEF Closing, Returning, SameCall
<1>9. \A r \in RowIds \ {rootPass} : passExecution'[r] = passExecution[r]
  BY <1>1, <1>3, EndPassRow DEF StatementFails
<1>10. OpenFollows'
  <2> SUFFICES ASSUME Following' PROVE OpenFollows'
    BY DEF OpenFollows
  <2>1. ASSUME NEW u \in Threads, NEW q \in Passes, activePasses'[u][q].id # NoId,
               ~Closing(u, q)'
        PROVE  passExecution'[activePasses'[u][q].id].open
    <3>1. activePasses[u][q].id \in RowIds \ {rootPass} /\ activePasses[u][q].id # NoId
      BY <1>1, <2>1, EntryFacts DEF EntriesInv, EntriesDescribe
    <3> QED
      BY <1>1, <1>5, <1>8, <1>9, <2>1, <3>1 DEF EntriesInv, OpenFollows
  <2>2. ASSUME NEW r \in RowIds', passExecution'[r].open, r # rootPass'
        PROVE  \E u \in Threads, q \in Passes :
                 activePasses'[u][q].id = r /\ (Closing(u, q)' => firstError')
    <3>1. r \in RowIds /\ passExecution[r].open /\ r # rootPass
      BY <1>1, <1>4, <1>9, <2>2
    <3>2. firstError => firstError'
      BY <1>1
    <3> QED
      BY <1>1, <1>5, <1>8, <3>1, <3>2 DEF EntriesInv, OpenFollows
  <2> QED
    BY <2>1, <2>2 DEF OpenFollows
<1> QED
  BY <1>6, <1>7, <1>10 DEF EntriesInv

LEMMA ForgetFacts ==
  ASSUME CaptureInv, EntriesInv, ForgetPass, NEW t, NEW p, t = call.thread, p = call.pass
  PROVE  /\ t \in Threads /\ p \in Passes /\ Returning(t, p) /\ Closing(t, p) /\ Following
         /\ call.step = "cleanup" /\ Unlock /\ call'.fn = "none"
         /\ UNCHANGED <<storageVars, life, firstError, root, pipelineParents, currentPatterns,
                        currentActions, nextIdentitySequence>>
         /\ \A u \in Threads, q \in Passes :
              activePasses'[u][q] = IF u = t /\ q = p THEN NotActive ELSE activePasses[u][q]
         /\ activePassIds' = [activePassIds EXCEPT ![t] = Pop(@)]
<1>1. t \in Threads /\ p \in Passes /\ call.fn = "afterPass" /\ call.step = "cleanup"
  BY RowArguments DEF ForgetPass, At
<1>2. /\ activePasses' = [activePasses EXCEPT ![t][p] = NotActive]
      /\ activePassIds' = [activePassIds EXCEPT ![t] = Pop(@)]
      /\ Unlock
      /\ UNCHANGED <<storageVars, life, firstError, root, stacks, nextIdentitySequence>>
  BY DEF ForgetPass
<1>3. activePasses \in [Threads -> [Passes -> ActivePass]]
  BY DEF CaptureInv, RecorderInv, RecorderTypeOK
<1>4. \A u \in Threads, q \in Passes :
        activePasses'[u][q] = IF u = t /\ q = p THEN NotActive ELSE activePasses[u][q]
  BY <1>1, <1>2, <1>3
<1> QED
  BY <1>1, <1>2, <1>4, UnlockFacts DEF Returning, Closing, Following, stacks

LEMMA ForgetEntries ==
  ASSUME CaptureInv, ManagerInv, EntriesInv, UNCHANGED stack, ForgetPass
  PROVE  EntriesInv'
<1>0. PICK t, p : t = call.thread /\ p = call.pass
  OBVIOUS
<1>1. /\ t \in Threads /\ p \in Passes /\ Returning(t, p) /\ Closing(t, p) /\ Following
      /\ Unlock /\ call'.fn = "none" /\ UNCHANGED <<storageVars, life, firstError, root>>
      /\ \A u \in Threads, q \in Passes :
           activePasses'[u][q] = IF u = t /\ q = p THEN NotActive ELSE activePasses[u][q]
  BY <1>0, ForgetFacts
<1>2. UNCHANGED <<passExecution, rootPass>> /\ RowIds' = RowIds
  BY <1>1, SameTable DEF storageVars, root
<1>3. NotActive.id = NoId
  BY DEF NotActive
<1>4. ~Inside(t, p)
  BY <1>0, <1>1 DEF ManagerInv, CallFollows, Running, Inside, IsPass, Returning
<1>5. \A u \in Threads, q \in Passes :
        /\ IsRecorded(u, q)' <=> Inside(u, q)
        /\ IsRecorded(u, q) <=> Inside(u, q) \/ (u = t /\ q = p)
        /\ Closing(u, q) <=> (u = t /\ q = p)
        /\ ~Closing(u, q)'
  BY <1>0, <1>1, SameInside DEF IsRecorded, Returning, Starting, Closing
<1>6. EntriesFollow'
  BY <1>1, <1>3, <1>4, <1>5 DEF EntriesInv, EntriesFollow
<1>7. \A u \in Threads, q \in Passes : activePasses'[u][q].id # NoId =>
        activePasses'[u][q] = activePasses[u][q] /\ ~(u = t /\ q = p)
  BY <1>1, <1>3
<1>8. EntriesDescribe'
  BY <1>2, <1>7 DEF EntriesInv, EntriesDescribe
<1>9. OpenFollows'
  <2> SUFFICES ASSUME Following' PROVE OpenFollows'
    BY DEF OpenFollows
  <2>1. ~firstError
    BY <1>1 DEF Following, Recording
  <2>2. ASSUME NEW r \in RowIds, passExecution[r].open, r # rootPass
        PROVE  \E u \in Threads, q \in Passes : activePasses'[u][q].id = r
    <3>1. PICK u \in Threads, q \in Passes :
            activePasses[u][q].id = r /\ (Closing(u, q) => firstError)
      BY <1>1, <2>2 DEF EntriesInv, OpenFollows
    <3>2. ~(u = t /\ q = p)
      BY <1>5, <2>1, <3>1
    <3> QED
      BY <1>1, <3>1, <3>2
  <2> QED
    BY <1>1, <1>2, <1>5, <1>7, <2>2 DEF EntriesInv, OpenFollows
<1> QED
  BY <1>1, <1>6, <1>8, <1>9, UnlockFacts DEF EntriesInv

LEMMA CallbackEntries ==
  ASSUME CaptureInv, ManagerInv, EntriesInv, UNCHANGED stack, RecorderStep
  PROVE  EntriesInv'
BY AttachEntries, SnapshotEntries, CreateRootEntries, CreateRowEntries, IndexEntries,
   CompleteRowEntries, CompleteRootEntries, MarkEntries, ForgetEntries
   DEF RecorderStep

LEMMA EntriesInit == Init => EntriesInv
<1> SUFFICES ASSUME Init PROVE EntriesInv
  OBVIOUS
<1>1. call.fn = "none" /\ RowIds = {}
  BY NoCallFacts, EmptySeq DEF Init, RecorderInit, StorageInit, RowIds
<1>2. \A t \in Threads, p \in Passes : activePasses[t][p].id = NoId /\ ~Inside(t, p)
  BY EmptySeq DEF Init, RecorderInit, NotActive, Inside, Depths
<1> QED
  BY <1>1, <1>2 DEF EntriesInv, EntriesFollow, EntriesDescribe, OpenFollows, CallSteps,
                    IsRecorded, Returning

LEMMA EntriesNext == CaptureInv /\ ManagerInv /\ EntriesInv /\ [Next]_vars => EntriesInv'
<1> SUFFICES ASSUME CaptureInv, ManagerInv, EntriesInv, [Next]_vars PROVE EntriesInv'
  OBVIOUS
<1>1. ASSUME UNCHANGED <<storageVars, recorderVars, stack>> PROVE EntriesInv'
  BY <1>1, SameInside, EntriesStill
     DEF storageVars, recorderVars, life, CaptureInv, RecorderInv, RecorderTypeOK
<1>2. CASE CallAttach
  BY <1>2, AttachEntries DEF CallAttach, managerVars
<1>3. CASE CallFinish
  BY <1>3, FinishEntries DEF CallFinish
<1>4. CASE Callback
  BY <1>4, CallbackEntries DEF Callback, managerVars
<1>5. ASSUME NEW p \in Passes, StartTopLevelPass(p) PROVE EntriesInv'
  <2>1. Main \in Threads
    BY CaptureAssumption DEF CaptureAssumption
  <2> QED
    BY <1>5, <2>1, StartPassEntries DEF StartTopLevelPass
<1>6. CASE Rewrite
  BY <1>1, <1>6 DEF Rewrite
<1>7. ASSUME NEW t \in Threads, PassManager(t) PROVE EntriesInv'
  BY <1>7, PassManagerEntries
<1>8. CASE UNCHANGED vars
  BY <1>1, <1>8 DEF vars, managerVars
<1> QED
  BY <1>2, <1>3, <1>4, <1>5, <1>6, <1>7, <1>8 DEF Next

\* While the recorder records, its entries are those of the passes in execution, each
\* describes a row of its own, and the open rows below the root are theirs.
THEOREM EntriesInvariant == Spec => []EntriesInv
BY EntriesInit, EntriesNext, CaptureInvariant, ManagerInvariant, PTL DEF Spec

-----------------------------------------------------------------------------
(* Errors.                                                                  *)

\* ErrorsSurface also speaks of states between two callbacks only; within one the
\* latched error is that of the disk all the same.
ErrorsInv ==
  /\ ErrorsSurface
  /\ attached /\ ~finished => firstError = faulted
  /\ ~attached => ~firstError /\ reported = "none"
  /\ call.fn = "attach" /\ call.step # "create" => ~faulted
  /\ ~finished => reported = "none"
  /\ finished => LockFree

\* A failed statement and the latched error go together.
ErrorsAgree ==
  \/ UNCHANGED <<faulted, firstError>>
  \/ faulted' = TRUE /\ firstError' = TRUE /\ ~finished

LEMMA ErrorsStep ==
  ASSUME CaptureInv, CaptureInv', ErrorsInv, UNCHANGED <<life, journal>>, attached, ErrorsAgree,
         finished => UNCHANGED call
  PROVE  ErrorsInv'
<1>1. call'.fn # "attach"
  BY DEF CaptureInv, RecorderInv, CallOK, life
<1>2. attached' /\ finished' = finished /\ reported' = reported /\ journal' = journal
  BY DEF life
<1>3. attached /\ ~finished => firstError = faulted
  BY DEF ErrorsInv
<1>4. ASSUME ~finished' PROVE firstError' = faulted'
  <2>1. firstError = faulted
    BY <1>2, <1>3, <1>4
  <2>2. CASE UNCHANGED <<faulted, firstError>>
    BY <2>1, <2>2
  <2>3. CASE faulted' = TRUE /\ firstError' = TRUE
    BY <2>3
  <2> QED
    BY <2>2, <2>3 DEF ErrorsAgree
<1>5. finished' => UNCHANGED faulted
  BY <1>2 DEF ErrorsAgree
<1>6. ErrorsSurface'
  BY <1>2, <1>4, <1>5 DEF ErrorsInv, ErrorsSurface
<1>7. finished' => LockFree'
  BY <1>2 DEF ErrorsInv, LockFree
<1> QED
  BY <1>1, <1>2, <1>4, <1>6, <1>7 DEF ErrorsInv

LEMMA ManagerErrors ==
  ASSUME CaptureInv, ManagerInv, EntriesInv, NEW t \in Threads, PassManager(t)
  PROVE  UNCHANGED <<life, journal>> /\ ErrorsAgree /\ (finished => UNCHANGED call) /\ attached
<1>0. attached
  <2> SUFFICES ~attached => FALSE
    BY DEF CaptureInv, RecorderInv, RecorderTypeOK
  <2>1. ~attached => \A u \in Threads : stack[u] = <<>> /\ Depths(u) = {}
    BY EmptySeq DEF CaptureInv, IdleUntilAttached, Depths
  <2> QED
    BY <2>1 DEF PassManager, StartNestedPass, StartPipeline, ReturnFromPass, EndPipeline,
                AbandonPipeline, EnterAction, LeaveAction, EnterPattern, LeavePattern,
                NotifyOperation, Rewriting, TopIs
<1>1. UNCHANGED life
  BY ManagerLife
<1>2. UNCHANGED journal
  BY ManagerTable DEF NotifyOperation, RecordIdentity, WriteIdentityEvent, StatementFails
<1>3. ASSUME NEW failed \in BOOLEAN, ReturnFromPass(t, failed)
      PROVE  ErrorsAgree /\ (finished => UNCHANGED call)
  <2>1. UNCHANGED <<faulted, firstError>>
    BY <1>3, ReturnEntries DEF ReturnFromPass, AfterPass, storageVars
  <2> QED
    BY <1>3, <2>1 DEF ErrorsAgree, ReturnFromPass, AfterPass, Recording
<1>4. ASSUME NEW p \in Passes, StartNestedPass(t, p)
      PROVE  ErrorsAgree /\ (finished => UNCHANGED call)
  BY <1>4 DEF ErrorsAgree, StartNestedPass, BeforePass, storageVars, Recording
<1>5. ASSUME NEW o \in Threads, NEW i \in Depths(o), StartPipeline(o, i, t)
      PROVE  ErrorsAgree /\ (finished => UNCHANGED call)
  BY <1>5 DEF ErrorsAgree, StartPipeline, BeforePipeline, storageVars
<1>6. CASE NotifyOperation(t)
  <2>1. /\ UNCHANGED call /\ ~finished
        /\ \/ UNCHANGED faulted /\ UNCHANGED firstError
           \/ faulted' = TRUE /\ firstError' = TRUE
    BY <1>6 DEF NotifyOperation, RecordIdentity, WriteIdentityEvent, StatementFails,
                RememberError, Listens, Recording
  <2> QED
    BY <1>0, <1>1, <1>2, <2>1 DEF ErrorsAgree
<1> QED
  BY <1>0, <1>1, <1>2, <1>3, <1>4, <1>5, <1>6
     DEF PassManager, ErrorsAgree, EndPipeline, AfterPipeline, AbandonPipeline, EnterAction,
         BeginAction, LeaveAction, EndAction, EnterPattern, BeginPattern, LeavePattern,
         EndPattern, UnchangedExceptNames, storageVars, recorderVars

LEMMA CallbackErrors ==
  ASSUME CaptureInv, EntriesInv, RecorderStep, call.fn # "attach", ~finished
  PROVE  UNCHANGED <<life, journal>> /\ ErrorsAgree
<1>1. CASE CreateRow
  BY <1>1, CreateRowFacts DEF ErrorsAgree, StatementFails, BeginPass, RememberError
<1>2. CASE BeforeSnapshot \/ AfterSnapshot
  BY <1>2 DEF ErrorsAgree, BeforeSnapshot, AfterSnapshot, WriteBlob, StatementFails, RememberError
<1>3. CASE BeforeIndex \/ AfterIndex
  BY <1>3 DEF ErrorsAgree, BeforeIndex, AfterIndex, IndexRow, WriteOpIndex, StatementFails,
              RememberError
<1>4. CASE CreateRoot
  BY <1>4 DEF ErrorsAgree, CreateRoot, BeginPass, StatementFails, RememberError
<1>5. CASE CompleteRow \/ CompleteRoot
  BY <1>5 DEF ErrorsAgree, CompleteRow, CompleteRoot, EndPass, StatementFails, RememberError
<1>6. CASE MarkFailed
  BY <1>6 DEF ErrorsAgree, MarkFailed, SetMeta, StatementFails, RememberError
<1>7. CASE ForgetPass
  BY <1>7 DEF ErrorsAgree, ForgetPass, storageVars
<1> QED
  BY <1>1, <1>2, <1>3, <1>4, <1>5, <1>6, <1>7
     DEF RecorderStep, AttachCreate, AttachVersion, AttachProducer, AttachFidelity,
         AttachStatement, At

LEMMA AttachErrors ==
  ASSUME CaptureInv, ErrorsInv,
         Attach \/ AttachCreate \/ AttachVersion \/ AttachProducer \/ AttachFidelity
  PROVE  ErrorsInv'
<1>0. /\ ~attached /\ ~firstError /\ reported = "none"
      /\ UNCHANGED <<firstError, finished, reported>> /\ ~finished
  BY DEF Attach, AttachCreate, AttachVersion, AttachProducer, AttachFidelity, AttachStatement,
         At, CaptureInv, RecorderInv, CallOK, life, ErrorsInv, LockFree, ErrorsSurface
<1>1. NoCall.fn = "none"
  BY NoCallFacts
<1>2. CASE Attach
  <2>1. UNCHANGED attached /\ call'.step = "create"
    BY <1>2 DEF Attach, NoCall, life
  <2> QED
    BY <1>0, <2>1 DEF ErrorsInv, ErrorsSurface
<1>3. CASE AttachFidelity
  <2>1. call.fn = "attach" /\ call.step = "fidelity" /\ ~faulted /\ Unlock
    BY <1>3 DEF AttachFidelity, At, ErrorsInv
  <2>2. UNCHANGED faulted \/ UNCHANGED attached
    BY <1>3 DEF AttachFidelity, SetMeta
  <2>3. faulted \in BOOLEAN /\ firstError \in BOOLEAN
    BY DEF CaptureInv, RecorderInv, RecorderTypeOK, StorageTypeOK
  <2>4. attached' => firstError' = faulted'
    BY <1>0, <2>1, <2>2, <2>3
  <2>5. call'.fn = "none"
    BY <1>1, <2>1 DEF Unlock
  <2>6. ErrorsSurface'
    BY <1>0, <2>4 DEF ErrorsSurface
  <2> QED
    BY <1>0, <2>4, <2>5, <2>6 DEF ErrorsInv
<1>4. CASE AttachCreate \/ AttachVersion \/ AttachProducer
  <2>1. UNCHANGED attached
    BY <1>4 DEF AttachCreate, AttachVersion, AttachProducer, AttachStatement, life
  <2>2. Unlock \/ faulted' = FALSE
    BY <1>4 DEF AttachCreate, AttachVersion, AttachProducer, AttachStatement, CreateFile, SetMeta,
                At, ErrorsInv, CaptureInv, RecorderInv, StorageTypeOK
  <2> QED
    BY <1>0, <1>1, <2>1, <2>2 DEF ErrorsInv, ErrorsSurface, Unlock
<1> QED
  BY <1>2, <1>3, <1>4

LEMMA FinishErrors ==
  ASSUME CaptureInv, ErrorsInv, Finish
  PROVE  ErrorsInv'
<1>1. /\ LockFree /\ attached /\ ~finished /\ firstError = faulted
      /\ finished' /\ ~firstError' /\ UNCHANGED <<attached, call>>
      /\ \/ journal' = "delete" /\ UNCHANGED faulted
            /\ reported' = IF firstError THEN "error" ELSE "ok"
         \/ faulted' = TRUE /\ reported' = "error"
  BY DEF Finish, ErrorsInv, SealFile, SealFails
<1> QED
  BY <1>1 DEF ErrorsInv, ErrorsSurface, LockFree

LEMMA ErrorsNext ==
  CaptureInv /\ CaptureInv' /\ ManagerInv /\ EntriesInv /\ ErrorsInv /\ [Next]_vars => ErrorsInv'
<1> SUFFICES ASSUME CaptureInv, CaptureInv', ManagerInv, EntriesInv, ErrorsInv, [Next]_vars
             PROVE  ErrorsInv'
  OBVIOUS
<1>1. ASSUME UNCHANGED <<storageVars, recorderVars>> PROVE ErrorsInv'
  BY <1>1 DEF storageVars, recorderVars, ErrorsInv, ErrorsSurface, LockFree
<1>2. CASE CallAttach
  BY <1>2, AttachErrors DEF CallAttach
<1>3. CASE CallFinish
  BY <1>3, FinishErrors DEF CallFinish
<1>4. CASE Callback
  <2>1. RecorderStep /\ call.fn # "none"
    BY <1>4, CallbackCall DEF Callback, CaptureInv
  <2>2. ~finished
    BY <2>1 DEF ErrorsInv, LockFree, CaptureInv, RecorderInv, RecorderTypeOK
  <2>3. CASE call.fn = "attach"
    BY <2>1, <2>3, AttachErrors
       DEF RecorderStep, BeforeSnapshot, CreateRoot, CreateRow, BeforeIndex, AfterSnapshot,
           AfterIndex, CompleteRow, CompleteRoot, MarkFailed, ForgetPass, At
  <2>4. CASE call.fn # "attach"
    <3>1. attached
      BY <2>1, <2>4 DEF CaptureInv, RecorderInv, CallOK, RecorderTypeOK, Call
    <3> QED
      BY <2>1, <2>2, <2>4, <3>1, CallbackErrors, ErrorsStep
  <2> QED
    BY <2>3, <2>4
<1>5. ASSUME NEW p \in Passes, StartTopLevelPass(p) PROVE ErrorsInv'
  <2>1. /\ attached /\ UNCHANGED <<life, journal, faulted, firstError>>
        /\ finished => UNCHANGED call
    BY <1>5 DEF StartTopLevelPass, BeforePass, storageVars, Recording
  <2> QED
    BY <2>1, ErrorsStep DEF ErrorsAgree
<1>6. CASE Rewrite
  BY <1>1, <1>6 DEF Rewrite
<1>7. ASSUME NEW t \in Threads, PassManager(t) PROVE ErrorsInv'
  BY <1>7, ManagerErrors, ErrorsStep
<1>8. CASE UNCHANGED vars
  BY <1>1, <1>8 DEF vars
<1> QED
  BY <1>2, <1>3, <1>4, <1>5, <1>6, <1>7, <1>8 DEF Next

LEMMA ErrorsInit == Init => ErrorsInv
BY NoCallFacts DEF Init, StorageInit, RecorderInit, ErrorsInv, ErrorsSurface

\* While the recorder is attached and not finished, its latched error is that of the disk.
THEOREM ErrorsInvariant == Spec => []ErrorsInv
BY ErrorsInit, ErrorsNext, CaptureInvariant, ManagerInvariant, EntriesInvariant, PTL DEF Spec

\* No failed statement is lost: it is latched by the end of its callback, finish()
\* returns it, and success means a sealed file.  MLIR's callbacks give the recorder
\* no other error: emplace never finds a key, and afterPass always finds its entry.
THEOREM ErrorsAreReported == Spec => []ErrorsSurface
<1>1. ErrorsInv => ErrorsSurface
  BY DEF ErrorsInv
<1> QED
  BY <1>1, ErrorsInvariant, PTL

-----------------------------------------------------------------------------
(* The end of the recording.                                                *)

LEMMA ManagerFrozen ==
  ASSUME LockFree, ~Recording, NEW t \in Threads, PassManager(t)
  PROVE  UNCHANGED <<meta, irBlob, passExecution, opIndex, opIdentity, call>>
<1>1. ASSUME NEW failed \in BOOLEAN, ReturnFromPass(t, failed)
      PROVE  UNCHANGED <<meta, irBlob, passExecution, opIndex, opIdentity, call>>
  BY <1>1 DEF ReturnFromPass, AfterPass, storageVars
<1>2. ASSUME NEW p \in Passes, StartNestedPass(t, p)
      PROVE  UNCHANGED <<meta, irBlob, passExecution, opIndex, opIdentity, call>>
  BY <1>2 DEF StartNestedPass, BeforePass, storageVars
<1>3. ASSUME NEW o \in Threads, NEW i \in Depths(o), StartPipeline(o, i, t)
      PROVE  UNCHANGED <<meta, irBlob, passExecution, opIndex, opIdentity, call>>
  BY <1>3 DEF StartPipeline, BeforePipeline, storageVars
<1> QED
  BY <1>1, <1>2, <1>3
     DEF PassManager, EndPipeline, AfterPipeline, AbandonPipeline, EnterAction, BeginAction,
         LeaveAction, EndAction, EnterPattern, BeginPattern, LeavePattern, EndPattern,
         NotifyOperation, RecordIdentity, Listens, UnchangedExceptNames, storageVars,
         recorderVars

\* Once an error is latched, or finish() has returned, no step of any thread adds to
\* the trace, and none even takes the mutex.
THEOREM StoppedIsFrozen == Spec => FrozenAfterStop
<1>1. ASSUME CaptureInv, [Next]_vars, LockFree, attached, firstError \/ finished
      PROVE  UNCHANGED <<meta, irBlob, passExecution, opIndex, opIdentity, call>>
  <2>0. ~Recording
    BY <1>1 DEF Recording
  <2>1. CASE CallAttach
    BY <1>1, <2>1 DEF CallAttach, Attach
  <2>2. CASE CallFinish
    BY <2>2 DEF CallFinish, Finish, SealFile, SealFails
  <2>3. CASE Callback
    BY <1>1, <2>3, CallbackCall DEF Callback, LockFree, CaptureInv
  <2>4. ASSUME NEW p \in Passes, StartTopLevelPass(p)
        PROVE  UNCHANGED <<meta, irBlob, passExecution, opIndex, opIdentity, call>>
    BY <2>0, <2>4 DEF StartTopLevelPass, BeforePass, storageVars
  <2>5. CASE Rewrite
    BY <2>5 DEF Rewrite, storageVars, recorderVars
  <2>6. ASSUME NEW t \in Threads, PassManager(t)
        PROVE  UNCHANGED <<meta, irBlob, passExecution, opIndex, opIdentity, call>>
    BY <1>1, <2>0, <2>6, ManagerFrozen
  <2>7. CASE UNCHANGED vars
    BY <2>7 DEF vars, storageVars, recorderVars
  <2> QED
    BY <1>1, <2>1, <2>2, <2>3, <2>4, <2>5, <2>6, <2>7 DEF Next
<1>2. CaptureInv /\ [Next]_vars =>
        [LockFree /\ attached /\ (firstError \/ finished)
           => UNCHANGED <<meta, irBlob, passExecution, opIndex, opIdentity, call>>]_vars
  BY <1>1
<1> QED
  BY <1>2, CaptureInvariant, PTL DEF Spec, FrozenAfterStop

-----------------------------------------------------------------------------
(* The references in the file.                                              *)

\* attach() writes the keys of meta one by one, and attached is set with the last.
MetaInv ==
  /\ attached => {"format_version", "producer", "fidelity"} \subseteq meta
  /\ call.fn = "attach" /\ call.step \notin {"create", "version"} => "format_version" \in meta
  /\ call.fn = "attach" /\ call.step = "fidelity" => "producer" \in meta

\* The text that a callback binds to a row has been stored, and so has that of each row.
TextStored ==
  /\ call.text \in Texts /\ call.step # "snapshot" => call.text \in irBlob
  /\ call.fn = "attach" => call.text = NoText
RowsStored ==
  \A r \in RowIds : {passExecution[r].before, passExecution[r].after}
                      \subseteq irBlob \union {NoText}
BlobsInv == TextStored /\ RowsStored

\* Events, index rows and the stacks of ids refer to rows that are there.
ReferencesInv ==
  /\ \A e \in 1 .. Len(opIdentity) : opIdentity[e].pass \in RowIds
  /\ \A id \in Ids : opIndex[id] # NoOpIndex[id] => id \in RowIds
  /\ \A t \in Threads : \A i \in 1 .. Len(activePassIds[t]) : activePassIds[t][i] \in RowIds

FileInv == MetaInv /\ BlobsInv /\ ReferencesInv

\* Only attach() removes anything.
LEMMA TablesGrow ==
  ASSUME CaptureInv, [Next]_vars, call.fn # "attach"
  PROVE  meta \subseteq meta' /\ irBlob \subseteq irBlob'
<1>1. CASE UNCHANGED storageVars
  BY <1>1 DEF storageVars
<1>2. CASE CallFinish
  BY <1>2 DEF CallFinish, Finish, SealFile, SealFails
<1>3. CASE RecorderStep
  BY <1>3 DEF RecorderStep, AttachCreate, AttachVersion, AttachProducer, AttachFidelity,
              AttachStatement, At, BeforeSnapshot, CreateRoot, CreateRow, BeforeIndex,
              AfterSnapshot, AfterIndex, CompleteRow, CompleteRoot, MarkFailed, ForgetPass,
              WriteBlob, BeginPass, EndPass, IndexRow, WriteOpIndex, SetMeta, StatementFails,
              storageVars
<1>4. ASSUME NEW t \in Threads, PassManager(t)
      PROVE  meta \subseteq meta' /\ irBlob \subseteq irBlob'
  BY <1>4, ManagerTable, NotifyTable
<1> QED
  BY <1>1, <1>2, <1>3, <1>4
     DEF Next, CallAttach, Attach, Callback, StartTopLevelPass, BeforePass, Rewrite, vars

LEMMA MetaNext == CaptureInv /\ CaptureInv' /\ MetaInv /\ [Next]_vars => MetaInv'
<1> SUFFICES ASSUME CaptureInv, CaptureInv', MetaInv, [Next]_vars PROVE MetaInv'
  OBVIOUS
<1>0. NoCall.fn = "none"
  BY NoCallFacts
<1>1. CASE call.fn = "attach"
  <2>0. ~attached /\ ~LockFree
    BY <1>1 DEF CaptureInv, RecorderInv, CallOK, LockFree
  <2>1. CASE RecorderStep
    <3>1. AttachCreate \/ AttachVersion \/ AttachProducer \/ AttachFidelity
      BY <1>1, <2>1 DEF RecorderStep, BeforeSnapshot, CreateRoot, CreateRow, BeforeIndex,
           AfterSnapshot, AfterIndex, CompleteRow, CompleteRoot, MarkFailed, ForgetPass, At
    <3>2. CASE Unlock
      <4>1. UNCHANGED attached \/ (AttachFidelity /\ SetMeta("fidelity"))
        BY <3>1 DEF AttachCreate, AttachVersion, AttachProducer, AttachFidelity,
                    AttachStatement, life
      <4> QED
        BY <1>0, <2>0, <3>2, <4>1 DEF MetaInv, Unlock, AttachFidelity, At, SetMeta
    <3>3. CASE ~Unlock
      <4>1. \/ AttachCreate /\ GoTo("version") /\ UNCHANGED attached
            \/ AttachVersion /\ SetMeta("format_version") /\ GoTo("producer")
               /\ UNCHANGED attached
            \/ AttachProducer /\ SetMeta("producer") /\ GoTo("fidelity") /\ UNCHANGED attached
               /\ At("attach", "producer")
        BY <3>1, <3>3 DEF AttachCreate, AttachVersion, AttachProducer, AttachFidelity,
                          AttachStatement, life
      <4>2. \A step \in {"version", "producer", "fidelity"} : GoTo(step) => call'.step = step
        BY <1>1, GoToCall DEF Steps, CaptureInv
      <4> QED
        BY <2>0, <4>1, <4>2 DEF MetaInv, SetMeta, At
    <3> QED
      BY <3>2, <3>3
  <2>2. CASE UNCHANGED <<meta, call, attached>>
    BY <2>2 DEF MetaInv
  <2>3. ASSUME NEW t \in Threads, PassManager(t) PROVE UNCHANGED <<meta, call, attached>>
    <3>1. \A u \in Threads : stack[u] = <<>> /\ Depths(u) = {}
      BY <2>0, EmptySeq DEF CaptureInv, IdleUntilAttached, Depths
    <3> QED
      BY <2>3, <3>1 DEF PassManager, StartNestedPass, StartPipeline, ReturnFromPass, EndPipeline,
                AbandonPipeline, EnterAction, LeaveAction, EnterPattern, LeavePattern,
                NotifyOperation, Rewriting, TopIs
  <2> QED
    BY <2>0, <2>1, <2>2, <2>3
       DEF Next, CallAttach, Attach, CallFinish, Finish, Callback, StartTopLevelPass, Rewrite,
           vars, storageVars, recorderVars
<1>2. CASE call.fn # "attach"
  <2>1. meta \subseteq meta'
    BY <1>2, TablesGrow
  <2>2. CASE Attach
    BY <2>1, <2>2 DEF MetaInv, Attach, NoCall, life
  <2>3. CASE attached
    <3>1. attached' => call'.fn # "attach"
      BY DEF CaptureInv, RecorderInv, CallOK
    <3>2. CASE attached'
      BY <2>1, <2>3, <3>1, <3>2 DEF MetaInv
    <3>3. CASE UNCHANGED attached
      BY <2>3, <3>2, <3>3
    <3>4. CASE RecorderStep
      <4>1. UNCHANGED attached
        BY <1>2, <3>4, CallbackLife DEF life, AttachVersion, AttachFidelity, At
      <4> QED
        BY <3>3, <4>1
    <3>5. ASSUME NEW t \in Threads, PassManager(t) PROVE UNCHANGED attached
      BY <3>5, ManagerLife DEF life
    <3> QED
      BY <2>3, <3>3, <3>4, <3>5
         DEF Next, CallAttach, Attach, CallFinish, Finish, Callback, StartTopLevelPass,
             BeforePass, Rewrite, vars, recorderVars, life
  <2>4. CASE ~attached /\ ~Attach
    <3>1. call.fn = "none"
      BY <1>2, <2>4 DEF CaptureInv, RecorderInv, CallOK, RecorderTypeOK, Call
    <3>2. \A u \in Threads : stack[u] = <<>> /\ Depths(u) = {}
      BY <2>4, EmptySeq DEF CaptureInv, IdleUntilAttached, Depths
    <3>3. \A t \in Threads : ~PassManager(t)
      BY <3>2 DEF PassManager, StartNestedPass, StartPipeline, ReturnFromPass, EndPipeline,
                AbandonPipeline, EnterAction, LeaveAction, EnterPattern, LeavePattern,
                NotifyOperation, Rewriting, TopIs
    <3>4. ~RecorderStep
      BY <3>1, CallbackCall DEF CaptureInv
    <3>5. UNCHANGED <<call, attached>>
      BY <2>4, <3>3, <3>4
         DEF Next, CallAttach, CallFinish, Finish, Callback, StartTopLevelPass, Rewrite, vars,
             recorderVars
    <3> QED
      BY <2>1, <2>4, <3>1, <3>5 DEF MetaInv
  <2> QED
    BY <2>2, <2>3, <2>4
<1> QED
  BY <1>1, <1>2

\* The pass manager's callbacks take the mutex only to begin or to end a pass.
LEMMA ManagerCall ==
  ASSUME NEW t \in Threads, PassManager(t)
  PROVE  \/ UNCHANGED call
         \/ \E p, text : text \in Texts /\ BeforePass(t, p, text)
         \/ \E p, failed, text : AfterPass(t, p, failed, text)
<1>1. ASSUME NEW failed \in BOOLEAN, ReturnFromPass(t, failed)
      PROVE  \E p, f, text : AfterPass(t, p, f, text)
  BY <1>1 DEF ReturnFromPass
<1>2. ASSUME NEW p \in Passes, StartNestedPass(t, p)
      PROVE  \E q, text : text \in Texts /\ BeforePass(t, q, text)
  BY <1>2 DEF StartNestedPass
<1>3. ASSUME NEW o \in Threads, NEW i \in Depths(o), StartPipeline(o, i, t)
      PROVE  UNCHANGED call
  BY <1>3 DEF StartPipeline, BeforePipeline
<1>4. EndPipeline(t) \/ AbandonPipeline(t) \/ EnterAction(t) \/ LeaveAction(t)
        \/ EnterPattern(t) \/ LeavePattern(t) \/ NotifyOperation(t) => UNCHANGED call
  BY DEF EndPipeline, AfterPipeline, AbandonPipeline, EnterAction, BeginAction,
         LeaveAction, EndAction, EnterPattern, BeginPattern, LeavePattern, EndPattern,
         NotifyOperation, RecordIdentity, UnchangedExceptNames, recorderVars
<1> QED
  BY <1>1, <1>2, <1>3, <1>4 DEF PassManager

LEMMA BeforePassText ==
  ASSUME TextStored, UNCHANGED irBlob, NEW t, NEW p, NEW text \in Texts, BeforePass(t, p, text)
  PROVE  TextStored'
<1>1. CASE ~Recording
  BY <1>1 DEF BeforePass, TextStored
<1>2. CASE Recording
  <2>1. call'.fn = "beforePass"
        /\ call'.step = (IF Fidelity = "timeline" THEN AfterSnapshotStep ELSE "snapshot")
        /\ call'.text = (IF Fidelity = "timeline" THEN NoText ELSE text)
    BY <1>2 DEF BeforePass
  <2> QED
    BY <2>1, StorageAssumption DEF StorageAssumption, TextStored
<1> QED
  BY <1>1, <1>2

LEMMA AfterPassText ==
  ASSUME TextStored, UNCHANGED irBlob, NEW t, NEW p, NEW failed, NEW text,
         AfterPass(t, p, failed, text)
  PROVE  TextStored'
<1>1. CASE UNCHANGED call
  BY <1>1 DEF TextStored
<1>2. CASE ~UNCHANGED call
  <2>1. call'.fn = "afterPass" /\ call'.step = AfterEntryStep(failed)
        /\ call'.text = (IF failed \/ Fidelity = "timeline" THEN NoText ELSE text)
    BY <1>2 DEF AfterPass
  <2> QED
    BY <2>1, StorageAssumption DEF StorageAssumption, TextStored, AfterEntryStep
<1> QED
  BY <1>1, <1>2

LEMMA TextNext == CaptureInv /\ TextStored /\ [Next]_vars => TextStored'
<1> SUFFICES ASSUME CaptureInv, TextStored, [Next]_vars PROVE TextStored'
  OBVIOUS
<1>0. NoCall.text = NoText /\ NoText \notin Texts
  BY StorageAssumption DEF NoCall, StorageAssumption
<1>1. CASE Callback
  <2>1. Unlock \/ SameCall
    BY <1>1, CallbackCall DEF Callback, CaptureInv
  <2>2. CASE Unlock
    BY <1>0, <2>2 DEF Unlock, TextStored
  <2>3. CASE SameCall /\ call.fn = "attach"
    BY <1>0, <2>3 DEF SameCall, TextStored
  <2>4. CASE SameCall /\ call.fn # "attach" /\ ~Unlock
    <3>1. irBlob \subseteq irBlob'
      BY <2>4, TablesGrow
    <3>2. CASE call.step = "snapshot"
      <4>1. BeforeSnapshot \/ AfterSnapshot
        BY <1>1, <2>4, <3>2
           DEF Callback, RecorderStep, At, AttachCreate, AttachVersion, AttachProducer,
               AttachFidelity, AttachStatement, CreateRoot, CreateRow, BeforeIndex, AfterIndex,
               CompleteRow, CompleteRoot, MarkFailed, ForgetPass
      <4>2. WriteBlob(call.text)
        BY <2>4, <4>1 DEF BeforeSnapshot, AfterSnapshot
      <4> QED
        BY <2>4, <4>2 DEF WriteBlob, SameCall, TextStored
    <3>3. CASE call.step # "snapshot"
      BY <2>4, <3>1, <3>3 DEF SameCall, TextStored
    <3> QED
      BY <3>2, <3>3
  <2> QED
    BY <2>1, <2>2, <2>3, <2>4
<1>2. CASE CallAttach
  <2>1. call'.text = NoText
    BY <1>2 DEF CallAttach, Attach, NoCall
  <2> QED
    BY <1>0, <2>1 DEF TextStored
<1>3. CASE UNCHANGED <<call, irBlob>>
  BY <1>3 DEF TextStored
<1>4. ASSUME NEW t \in Threads, PassManager(t) PROVE TextStored'
  <2>1. UNCHANGED irBlob
    BY <1>4, ManagerTable, NotifyTable
  <2> QED
    BY <1>3, <1>4, <2>1, ManagerCall, BeforePassText, AfterPassText
<1>5. ASSUME NEW p \in Passes, StartTopLevelPass(p) PROVE TextStored'
  <2>1. moduleText \in Texts
    BY DEF CaptureInv, CaptureTypeOK
  <2>2. UNCHANGED irBlob /\ BeforePass(Main, p, moduleText)
    BY <1>5 DEF StartTopLevelPass, BeforePass, storageVars
  <2> QED
    BY <2>1, <2>2, BeforePassText
<1> QED
  BY <1>1, <1>2, <1>3, <1>4, <1>5
     DEF Next, CallFinish, Finish, SealFile, SealFails, Rewrite, vars, storageVars, recorderVars

LEMMA RowsNext == CaptureInv /\ TextStored /\ RowsStored /\ [Next]_vars => RowsStored'
<1> SUFFICES ASSUME CaptureInv, TextStored, RowsStored, [Next]_vars PROVE RowsStored'
  OBVIOUS
<1>0. StorageTypeOK /\ call.text \in Texts \union {NoText}
  BY RowArguments DEF CaptureInv, RecorderInv, OptTexts
<1>1. CASE UNCHANGED passExecution /\ irBlob \subseteq irBlob'
  BY <1>1 DEF RowsStored, RowIds
<1>2. CASE AttachCreate \/ AttachVersion \/ AttachProducer \/ AttachFidelity
  <2>1. passExecution' = passExecution \/ passExecution' = <<>>
    BY <1>2 DEF AttachCreate, AttachVersion, AttachProducer, AttachFidelity, AttachStatement,
                CreateFile, SetMeta, StatementFails
  <2>2. passExecution = <<>>
    BY <1>2 DEF AttachCreate, AttachVersion, AttachProducer, AttachFidelity, AttachStatement,
                At, CaptureInv, RecorderInv, CallOK
  <2>3. RowIds' = {}
    BY <2>1, <2>2, EmptySeq DEF RowIds
  <2> QED
    BY <2>3 DEF RowsStored
<1>3. CASE CreateRoot \/ CreateRow
  <2>1. CASE StatementFails
    BY <1>1, <2>1 DEF StatementFails
  <2>2. CASE ~StatementFails
    <3>0. NoId \in Ids \union {NoId} /\ 0 \in Nat /\ NoPass \in Names
      BY DEF Names
    <3>1. /\ RowIds' = RowIds \union {NextRowId}
          /\ \A r \in RowIds : passExecution'[r] = passExecution[r]
          /\ passExecution'[NextRowId].before = call.text
          /\ passExecution'[NextRowId].after = NoText
          /\ UNCHANGED irBlob
      <4>1. CASE CreateRoot
        <5>1. BeginPass(NoId, 0, NoPass, call.text)
          BY <2>2, <4>1 DEF CreateRoot
        <5>2. UNCHANGED irBlob /\ call.text \in OptTexts
          BY <5>1, RowArguments DEF BeginPass
        <5> QED
          BY <1>0, <3>0, <5>1, <5>2, BeginPassRow
      <4>2. CASE CreateRow
        <5>1. BeginPass(ParentFor(call.thread), SequenceOf(ParentFor(call.thread)), call.pass,
                        call.text) /\ At("beforePass", "row")
          BY <2>2, <4>2 DEF CreateRow
        <5>2. /\ ParentFor(call.thread) \in Ids \union {NoId}
              /\ SequenceOf(ParentFor(call.thread)) \in Nat
              /\ call.pass \in Names /\ call.text \in OptTexts
          BY <5>1, RowArguments DEF At
        <5>3. UNCHANGED irBlob
          BY <5>1 DEF BeginPass
        <5> QED
          BY <1>0, <5>1, <5>2, <5>3, BeginPassRow
      <4> QED
        BY <1>3, <4>1, <4>2
    <3>2. call.text \in irBlob \union {NoText}
      BY <1>0, <1>3 DEF CreateRoot, CreateRow, At, TextStored
    <3> QED
      BY <3>1, <3>2 DEF RowsStored
  <2> QED
    BY <2>1, <2>2
<1>4. CASE CompleteRow \/ CompleteRoot
  <2>1. CASE StatementFails
    BY <1>1, <2>1 DEF StatementFails
  <2>2. CASE ~StatementFails
    <3>1. PICK id, changed : changed \in BOOLEAN /\ EndPass(id, call.text, changed)
      <4>1. CASE CompleteRow
        <5>1. (call.failed \/ Differs(Current.before, call.text)) \in BOOLEAN
          BY <4>1, RowArguments DEF CompleteRow, At
        <5>2. EndPass(Current.id, call.text,
                      call.failed \/ Differs(Current.before, call.text))
          BY <2>2, <4>1 DEF CompleteRow
        <5> QED
          BY <5>1, <5>2
      <4>2. CASE CompleteRoot
        <5>1. RootChanged \in BOOLEAN
          BY RowArguments
        <5>2. EndPass(rootPass, call.text, RootChanged)
          BY <2>2, <4>2 DEF CompleteRoot
        <5> QED
          BY <5>1, <5>2
      <4> QED
        BY <1>4, <4>1, <4>2
    <3>2. /\ RowIds' = RowIds /\ RowsKeep /\ UNCHANGED irBlob
          /\ \A r \in RowIds \ {id} : passExecution'[r] = passExecution[r]
          /\ passExecution'[id].after = call.text
      BY <1>0, <3>1, RowArguments, EndPassRow DEF EndPass
    <3>3. call.text \in irBlob \union {NoText}
      BY <1>0, <1>4 DEF CompleteRow, CompleteRoot, At, TextStored
    <3>4. ASSUME NEW r \in RowIds
          PROVE  {passExecution'[r].before, passExecution'[r].after}
                   \subseteq irBlob \union {NoText}
      BY <3>2, <3>3 DEF RowsStored, RowsKeep
    <3> QED
      BY <3>2, <3>4 DEF RowsStored
  <2> QED
    BY <2>1, <2>2
<1>5. CASE Callback
  <2>1. CASE BeforeSnapshot \/ AfterSnapshot \/ BeforeIndex \/ AfterIndex \/ MarkFailed
             \/ ForgetPass
    <3>1. UNCHANGED passExecution
      BY <2>1 DEF BeforeSnapshot, AfterSnapshot, BeforeIndex, AfterIndex, MarkFailed, ForgetPass,
                  IndexRow, WriteBlob, WriteOpIndex, SetMeta, StatementFails, storageVars
    <3>2. irBlob \subseteq irBlob'
      BY <2>1 DEF BeforeSnapshot, AfterSnapshot, BeforeIndex, AfterIndex, MarkFailed, ForgetPass,
                  IndexRow, WriteBlob, WriteOpIndex, SetMeta, StatementFails, storageVars
    <3> QED
      BY <1>1, <3>1, <3>2
  <2> QED
    BY <1>2, <1>3, <1>4, <1>5, <2>1 DEF Callback, RecorderStep
<1>6. ASSUME NEW t \in Threads, PassManager(t) PROVE RowsStored'
  BY <1>1, <1>6, ManagerTable, NotifyTable
<1> QED
  BY <1>1, <1>5, <1>6
     DEF Next, CallAttach, Attach, CallFinish, Finish, SealFile, SealFails, Rewrite,
         StartTopLevelPass, BeforePass, vars, storageVars

\* Events are written by the listener alone, index rows by the two walks, and the
\* stack of ids changes where a row is created or an execution is forgotten.
LEMMA WhoWrites ==
  ASSUME [Next]_vars
  PROVE  /\ \/ UNCHANGED <<opIdentity, nextIdentitySequence>>
            \/ At("attach", "create") /\ opIdentity' = <<>> /\ UNCHANGED nextIdentitySequence
            \/ \E t \in Threads : NotifyOperation(t)
         /\ \/ UNCHANGED opIndex
            \/ At("attach", "create") /\ opIndex' = NoOpIndex
            \/ (BeforeIndex \/ AfterIndex) /\ UNCHANGED managerVars
         /\ \/ UNCHANGED activePassIds
            \/ (CreateRow \/ ForgetPass) /\ UNCHANGED managerVars
<1>1. CASE Callback
  <2>1. CASE AttachCreate
    BY <2>1 DEF AttachCreate, AttachStatement, CreateFile, StatementFails, maps
  <2>2. CASE AttachVersion \/ AttachProducer \/ AttachFidelity
    BY <2>2 DEF AttachVersion, AttachProducer, AttachFidelity, AttachStatement, SetMeta,
                StatementFails, maps
  <2>3. CASE BeforeSnapshot \/ AfterSnapshot \/ BeforeIndex \/ AfterIndex \/ MarkFailed
    BY <1>1, <2>3 DEF Callback, BeforeSnapshot, AfterSnapshot, BeforeIndex, AfterIndex,
                IndexRow, WriteOpIndex, MarkFailed, WriteBlob, SetMeta, StatementFails, maps
  <2>4. CASE CreateRoot \/ CompleteRow \/ CompleteRoot
    BY <2>4 DEF CreateRoot, CompleteRow, CompleteRoot, BeginPass, EndPass, StatementFails, maps
  <2>5. CASE CreateRow \/ ForgetPass
    BY <1>1, <2>5 DEF Callback, CreateRow, ForgetPass, BeginPass, StatementFails, storageVars
  <2> QED
    BY <1>1, <2>1, <2>2, <2>3, <2>4, <2>5 DEF Callback, RecorderStep
<1>2. ASSUME NEW t \in Threads, PassManager(t)
      PROVE  UNCHANGED <<opIdentity, nextIdentitySequence, opIndex, activePassIds>>
             \/ (NotifyOperation(t) /\ UNCHANGED <<opIndex, activePassIds>>)
  <2>1. ASSUME NEW failed \in BOOLEAN, ReturnFromPass(t, failed)
        PROVE  UNCHANGED <<opIdentity, nextIdentitySequence, opIndex, activePassIds>>
    BY <2>1 DEF ReturnFromPass, AfterPass, storageVars, maps
  <2>2. ASSUME NEW p \in Passes, StartNestedPass(t, p)
        PROVE  UNCHANGED <<opIdentity, nextIdentitySequence, opIndex, activePassIds>>
    BY <2>2 DEF StartNestedPass, BeforePass, storageVars, maps
  <2>3. ASSUME NEW o \in Threads, NEW i \in Depths(o), StartPipeline(o, i, t)
        PROVE  UNCHANGED <<opIdentity, nextIdentitySequence, opIndex, activePassIds>>
    BY <2>3 DEF StartPipeline, BeforePipeline, storageVars
  <2>4. NotifyOperation(t) => UNCHANGED <<opIndex, activePassIds>>
    BY NotifyTable
  <2>5. EndPipeline(t) \/ AbandonPipeline(t) \/ EnterAction(t) \/ LeaveAction(t)
          \/ EnterPattern(t) \/ LeavePattern(t)
          => UNCHANGED <<opIdentity, nextIdentitySequence, opIndex, activePassIds>>
    BY DEF EndPipeline, AfterPipeline, AbandonPipeline, EnterAction, BeginAction,
           LeaveAction, EndAction, EnterPattern, BeginPattern, LeavePattern, EndPattern,
           UnchangedExceptNames, recorderVars, storageVars
  <2> QED
    BY <1>2, <2>1, <2>2, <2>3, <2>4, <2>5 DEF PassManager
<1> QED
  BY <1>1, <1>2
     DEF Next, CallAttach, Attach, CallFinish, Finish, SealFile, SealFails, Rewrite,
         StartTopLevelPass, BeforePass, vars, storageVars, recorderVars, maps

\* What the listener writes.
LEMMA NotifyFacts ==
  ASSUME CaptureInv, ReferencesInv, NEW t \in Threads, NotifyOperation(t), NEW id,
         id = LastOf(activePassIds[t])
  PROVE  /\ id \in Ids /\ id \in RowIds /\ Listens(t) /\ LockFree
         /\ activePassIds[t] # <<>> /\ activePassIds[t] \in Seq(Ids)
         /\ nextIdentitySequence' =
              [nextIdentitySequence EXCEPT ![id] = nextIdentitySequence[id] + 1]
         /\ \/ /\ WriteIdentityEvent(id, nextIdentitySequence[id], Attribution(t),
                                     IF currentActions[t] # <<>> THEN "action" ELSE "listener")
               /\ UNCHANGED firstError
            \/ UNCHANGED opIdentity /\ firstError' = TRUE
<1>1. /\ LockFree /\ Listens(t) /\ activePassIds[t] # <<>> /\ activePassIds[t] \in Seq(Ids)
  BY DEF NotifyOperation, RecordIdentity, Listens, CaptureInv, RecorderInv, RecorderTypeOK
<1>2. id \in Ids /\ Len(activePassIds[t]) \in 1 .. Len(activePassIds[t])
  BY <1>1, LastFacts
<1>3. id \in RowIds
  BY <1>2 DEF ReferencesInv, LastOf
<1> QED
  BY <1>1, <1>2, <1>3 DEF NotifyOperation, RecordIdentity, StatementFails, RememberError

LEMMA ReferencesNext ==
  CaptureInv /\ EntriesInv /\ ReferencesInv /\ [Next]_vars => ReferencesInv'
<1> SUFFICES ASSUME CaptureInv, EntriesInv, ReferencesInv, [Next]_vars PROVE ReferencesInv'
  OBVIOUS
<1>0. \A r \in RowIds : r \in RowIds'
  BY RowsKept DEF RowsKeep
<1>1. \A e \in 1 .. Len(opIdentity') : opIdentity'[e].pass \in RowIds'
  <2>1. CASE UNCHANGED opIdentity
    BY <1>0, <2>1 DEF ReferencesInv
  <2>2. CASE opIdentity' = <<>>
    BY <2>2, EmptySeq
  <2>3. ASSUME NEW t \in Threads, NotifyOperation(t)
        PROVE  \A e \in 1 .. Len(opIdentity') : opIdentity'[e].pass \in RowIds'
    <3>0. PICK id, seq, pattern, source :
            /\ id = LastOf(activePassIds[t]) /\ seq = nextIdentitySequence[id]
            /\ pattern = Attribution(t)
            /\ source = IF currentActions[t] # <<>> THEN "action" ELSE "listener"
      OBVIOUS
    <3>1. /\ id \in RowIds
          /\ WriteIdentityEvent(id, seq, pattern, source) \/ UNCHANGED opIdentity
      BY <2>3, <3>0, NotifyFacts
    <3>2. CASE WriteIdentityEvent(id, seq, pattern, source)
      <4> DEFINE event == [pass |-> id, seq |-> seq, pattern |-> pattern, source |-> source]
      <4>1. opIdentity' = Append(opIdentity, event) /\ event.pass = id
        BY <3>2 DEF WriteIdentityEvent
      <4> HIDE DEF event
      <4>2. opIdentity \in Seq(Event) /\ Len(opIdentity) \in Nat
        BY LenProperties DEF CaptureInv, RecorderInv, StorageTypeOK
      <4>3. /\ Len(opIdentity') = Len(opIdentity) + 1
            /\ \A e \in 1 .. Len(opIdentity) : opIdentity'[e] = opIdentity[e]
            /\ opIdentity'[Len(opIdentity) + 1] = event
        BY <4>1, <4>2, AppendProperties
      <4>4. ASSUME NEW e \in 1 .. Len(opIdentity') PROVE opIdentity'[e].pass \in RowIds
        <5>1. e \in 1 .. Len(opIdentity) \/ e = Len(opIdentity) + 1
          BY <4>2, <4>3
        <5> QED
          BY <3>1, <4>1, <4>3, <5>1 DEF ReferencesInv
      <4> QED
        BY <1>0, <4>4
    <3> QED
      BY <2>1, <3>1, <3>2
  <2> QED
    BY <2>1, <2>2, <2>3, WhoWrites
<1>2. \A id \in Ids : opIndex'[id] # NoOpIndex[id] => id \in RowIds'
  <2>1. CASE UNCHANGED opIndex
    BY <1>0, <2>1 DEF ReferencesInv
  <2>2. CASE opIndex' = NoOpIndex
    BY <2>2
  <2>3. CASE BeforeIndex \/ AfterIndex
    <3>0. PICK id, n : id = activePasses[call.thread][call.pass].id /\ n = Len(passExecution)
      OBVIOUS
    <3>1. /\ call.step = "index" /\ call.fn \in {"beforePass", "afterPass"}
          /\ (\E side \in {0, 1} : WriteOpIndex(id, side)) \/ UNCHANGED opIndex
      BY <2>3, <3>0 DEF BeforeIndex, AfterIndex, IndexRow, At, StatementFails
    <3>2. id \in RowIds
      <4>1. call.thread \in Threads /\ call.pass \in Passes /\ id # NoId
        BY <3>0, <3>1, RowArguments DEF CaptureInv, RecorderInv, CallOK
      <4> QED
        BY <3>0, <4>1, EntryFacts
    <3>3. \A i \in Ids \ {id} : opIndex'[i] = opIndex[i]
      BY <3>1 DEF WriteOpIndex, CaptureInv, RecorderInv, StorageTypeOK
    <3> QED
      BY <1>0, <3>2, <3>3 DEF ReferencesInv
  <2> QED
    BY <2>1, <2>2, <2>3, WhoWrites
<1>3. \A t \in Threads : \A i \in 1 .. Len(activePassIds'[t]) : activePassIds'[t][i] \in RowIds'
  <2>0. activePassIds \in [Threads -> Seq(Ids)]
    BY DEF CaptureInv, RecorderInv, RecorderTypeOK
  <2>1. CASE UNCHANGED activePassIds
    BY <1>0, <2>1 DEF ReferencesInv
  <2>2. CASE CreateRow
    <3>0. PICK t, p, id : t = call.thread /\ p = call.pass /\ id = NextRowId
      OBVIOUS
    <3>1. CASE BeginPass(ParentFor(t), SequenceOf(ParentFor(t)), p, call.text)
               /\ activePassIds' = [activePassIds EXCEPT ![t] = Push(@, id)]
      <4>1. /\ id \in RowIds' /\ t \in Threads /\ id \in Ids
        <5>1. At("beforePass", "row") /\ StorageTypeOK
          BY <2>2 DEF CreateRow, CaptureInv, RecorderInv
        <5>2. /\ ParentFor(t) \in Ids \union {NoId} /\ SequenceOf(ParentFor(t)) \in Nat
              /\ p \in Names /\ call.text \in OptTexts /\ t \in Threads /\ id \in Ids
          BY <3>0, <5>1, RowArguments DEF At
        <5> QED
          BY <3>0, <3>1, <5>1, <5>2, BeginPassRow
      <4> DEFINE w == activePassIds[t]
      <4>2. w \in Seq(Ids)
        BY <2>0, <4>1
      <4>3. \A u \in Threads : activePassIds'[u] = IF u = t THEN Push(w, id) ELSE activePassIds[u]
        BY <2>0, <3>1, <4>1
      <4>4. \A i \in 1 .. Len(w) : w[i] \in RowIds
        BY <4>1 DEF ReferencesInv
      <4> HIDE DEF w
      <4>5. \A i \in 1 .. Len(Push(w, id)) : Push(w, id)[i] \in RowIds'
        <5>1. Len(w) \in Nat /\ Len(Push(w, id)) = Len(w) + 1 /\ Push(w, id)[Len(w) + 1] = id
              /\ \A i \in 1 .. Len(w) : Push(w, id)[i] = w[i]
          BY <4>1, <4>2, PushFacts, LenProperties
        <5>2. \A i \in 1 .. (Len(w) + 1) : i \in 1 .. Len(w) \/ i = Len(w) + 1
          BY <5>1
        <5> QED
          BY <1>0, <4>1, <4>4, <5>1, <5>2
      <4> QED
        BY <1>0, <4>3, <4>5 DEF ReferencesInv
    <3> QED
      BY <2>1, <2>2, <3>0, <3>1, CreateRowFacts
  <2>3. CASE ForgetPass
    <3>0. PICK t, p : t = call.thread /\ p = call.pass
      OBVIOUS
    <3>1. t \in Threads /\ activePassIds' = [activePassIds EXCEPT ![t] = Pop(@)]
      BY <2>3, <3>0, ForgetFacts
    <3> DEFINE w == activePassIds[t]
    <3>2. w \in Seq(Ids) /\ \A i \in 1 .. Len(w) : w[i] \in RowIds
      BY <2>0, <3>1 DEF ReferencesInv
    <3>3. \A u \in Threads : activePassIds'[u] = IF u = t THEN Pop(w) ELSE activePassIds[u]
      BY <2>0, <3>1
    <3> HIDE DEF w
    <3>4. \A i \in 1 .. Len(Pop(w)) : Pop(w)[i] \in RowIds
      <4>1. Len(Pop(w)) \in 0 .. Len(w) /\ \A i \in 1 .. Len(Pop(w)) : Pop(w)[i] = w[i]
        BY <3>2, PopFacts
      <4>2. \A i \in 1 .. Len(Pop(w)) : i \in 1 .. Len(w)
        BY <3>2, <4>1, LenProperties
      <4> QED
        BY <3>2, <4>1, <4>2
    <3> QED
      BY <1>0, <3>3, <3>4 DEF ReferencesInv
  <2> QED
    BY <2>1, <2>2, <2>3, WhoWrites
<1> QED
  BY <1>1, <1>2, <1>3 DEF ReferencesInv, NoOpIndex, Ids

LEMMA FileInit == Init => FileInv
<1> SUFFICES ASSUME Init PROVE FileInv
  OBVIOUS
<1>1. /\ ~attached /\ call.fn = "none" /\ call.text = NoText /\ passExecution = <<>>
      /\ opIdentity = <<>> /\ opIndex = NoOpIndex /\ \A t \in Threads : activePassIds[t] = <<>>
  BY DEF Init, StorageInit, RecorderInit, NoCall
<1>2. RowIds = {} /\ Len(opIdentity) = 0 /\ \A t \in Threads : Len(activePassIds[t]) = 0
  BY <1>1, EmptySeq DEF RowIds
<1>3. MetaInv
  BY <1>1 DEF MetaInv
<1>4. BlobsInv
  BY <1>1, <1>2, StorageAssumption DEF BlobsInv, TextStored, RowsStored
<1>5. ReferencesInv
  BY <1>1, <1>2 DEF ReferencesInv
<1> QED
  BY <1>3, <1>4, <1>5 DEF FileInv

\* What the file holds at every moment.
THEOREM FileInvariant == Spec => []FileInv
<1>1. FileInv /\ CaptureInv /\ CaptureInv' /\ EntriesInv /\ [Next]_vars => FileInv'
  BY MetaNext, TextNext, RowsNext, ReferencesNext DEF FileInv, BlobsInv
<1> QED
  BY <1>1, FileInit, CaptureInvariant, EntriesInvariant, PTL DEF Spec

\* A crash at any statement leaves a file that has its metadata, and whose references are
\* all to blobs and rows that are in it.
THEOREM CrashLeavesReadable == Spec => []Readable
<1>1. FileInv => Readable
  BY DEF FileInv, MetaInv, BlobsInv, RowsStored, ReferencesInv, Readable
<1> QED
  BY <1>1, FileInvariant, PTL
=============================================================================
