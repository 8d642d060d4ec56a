---------------------------- MODULE TraceStorage ----------------------------
(***************************************************************************)
(* The SQLite container of a capture (capture/lib/TraceStorage.cpp): its   *)
(* tables as variables, one action per statement it executes.  Every       *)
(* statement is a transaction of its own (the connection is in autocommit  *)
(* mode), so each state reached between two statements is also a state in  *)
(* which a crashed compiler can leave the file.                            *)
(*                                                                         *)
(* A blob is identified with the text it holds (writeBlob is content       *)
(* addressed; distinct texts are assumed to have distinct XXH3 hashes), a  *)
(* pass name with the Pass object that carries it, and op_index with the   *)
(* number of rows written for each side of each pass.                      *)
(***************************************************************************)
EXTENDS Integers, Sequences, FiniteSets

CONSTANTS
  Texts,      \* the texts an operation can print as
  NoText,     \* NULL in ir_before and ir_after
  Passes,     \* the Pass objects of the pipeline
  NoPass,     \* the name of the synthetic "Pipeline" row; also: no pattern
  MaxRows,    \* bound: rows of pass_execution
  FaultyDisk  \* whether a statement may fail

ASSUME StorageAssumption ==
  /\ NoText \notin Texts
  /\ NoPass \notin Passes
  /\ MaxRows \in Nat
  /\ FaultyDisk \in BOOLEAN

VARIABLES
  journal,        \* "none" before the file exists, "wal", "delete" when sealed
  meta,           \* the keys of table meta; each has a single possible value
  irBlob,         \* the texts stored in ir_blob
  passExecution,  \* the rows of pass_execution, by id
  opIndex,        \* opIndex[id][side]: op_index rows of that snapshot
  opIdentity,     \* the rows of op_identity, by id
  faulted         \* history: a statement has failed since the file was created

storageVars ==
  <<journal, meta, irBlob, passExecution, opIndex, opIdentity, faulted>>

Ids      == 1 .. MaxRows
NoId     == 0                      \* std::nullopt, NULL in parent_id
OptTexts == Texts \union {NoText}
Names    == Passes \union {NoPass}
MetaKeys == {"format_version", "producer", "fidelity", "capture_status"}

Row == [parent  : Ids \union {NoId}, seq : Nat, name : Names,
        before  : OptTexts, after : OptTexts,
        open    : BOOLEAN,         \* end_ns still equals start_ns
        changed : BOOLEAN]

Event == [pass : Ids, seq : Nat, pattern : Names, source : {"listener", "action"}]

StorageTypeOK ==
  /\ journal \in {"none", "wal", "delete"}
  /\ meta \in SUBSET MetaKeys
  /\ irBlob \in SUBSET Texts
  /\ passExecution \in Seq(Row)
  /\ opIndex \in [Ids -> [{0, 1} -> Nat]]
  /\ opIdentity \in Seq(Event)
  /\ faulted \in BOOLEAN

NoOpIndex == [id \in Ids |-> [side \in {0, 1} |-> 0]]

StorageInit ==
  /\ journal = "none"
  /\ meta = {}
  /\ irBlob = {}
  /\ passExecution = <<>>
  /\ opIndex = NoOpIndex
  /\ opIdentity = <<>>
  /\ faulted = FALSE

RowIds    == 1 .. Len(passExecution)
NextRowId == Len(passExecution) + 1

-----------------------------------------------------------------------------
(* Statements.  Each either has its effect or fails and has none.           *)

StatementFails ==
  /\ FaultyDisk
  /\ faulted' = TRUE
  /\ UNCHANGED <<journal, meta, irBlob, passExecution, opIndex, opIdentity>>

\* TraceStorage::create up to the schema: an existing file is removed first.  What
\* a failing create leaves of the new file, which has no metadata, is not modelled.
CreateFile ==
  /\ journal' = "wal"
  /\ meta' = {}
  /\ irBlob' = {}
  /\ passExecution' = <<>>
  /\ opIndex' = NoOpIndex
  /\ opIdentity' = <<>>
  /\ faulted' = FALSE

SetMeta(key) ==
  /\ meta' = meta \union {key}
  /\ UNCHANGED <<journal, irBlob, passExecution, opIndex, opIdentity, faulted>>

\* An existing blob with the same hash is reused.
WriteBlob(text) ==
  /\ irBlob' = irBlob \union {text}
  /\ UNCHANGED <<journal, meta, passExecution, opIndex, opIdentity, faulted>>

\* The new row has id NextRowId, no after snapshot and end_ns = start_ns.
BeginPass(parent, seq, name, before) ==
  /\ passExecution' =
       Append(passExecution,
              [parent |-> parent, seq |-> seq, name |-> name, before |-> before,
               after |-> NoText, open |-> TRUE, changed |-> FALSE])
  /\ UNCHANGED <<journal, meta, irBlob, opIndex, opIdentity, faulted>>

\* Mutant of EndPass: ir_after and ir_changed bound in the wrong order.
EndPassSwapped(id, after, changed) ==
  /\ id \in RowIds
  /\ passExecution' =
       [passExecution EXCEPT ![id].after = changed, ![id].open = FALSE,
                             ![id].changed = after]
  /\ UNCHANGED <<journal, meta, irBlob, opIndex, opIdentity, faulted>>

\* An UPDATE that changes no row is an error of its own; rows are never deleted.
EndPass(id, after, changed) ==
  /\ id \in RowIds
  /\ passExecution' =
       [passExecution EXCEPT ![id].after = after, ![id].open = FALSE,
                             ![id].changed = changed]
  /\ UNCHANGED <<journal, meta, irBlob, opIndex, opIdentity, faulted>>

WriteOpIndex(id, side) ==
  /\ opIndex' = [opIndex EXCEPT ![id][side] = @ + 1]
  /\ UNCHANGED <<journal, meta, irBlob, passExecution, opIdentity, faulted>>

WriteIdentityEvent(id, seq, pattern, source) ==
  /\ opIdentity' = Append(opIdentity, [pass |-> id, seq |-> seq,
                                       pattern |-> pattern, source |-> source])
  /\ UNCHANGED <<journal, meta, irBlob, passExecution, opIndex, faulted>>

\* Leave WAL mode, close, remove the sidecars.
SealFile ==
  /\ journal' = "delete"
  /\ UNCHANGED <<meta, irBlob, passExecution, opIndex, opIdentity, faulted>>

\* One of the steps of finish() fails, before or after the checkpoint.
SealFails ==
  /\ FaultyDisk
  /\ journal' \in {"wal", "delete"}
  /\ faulted' = TRUE
  /\ UNCHANGED <<meta, irBlob, passExecution, opIndex, opIdentity>>
=============================================================================
