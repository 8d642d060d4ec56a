------------------------------ MODULE TraceReader ------------------------------
(***************************************************************************)
(* TraceReader::passes (crates/trace-format/src/reader.rs): the pass       *)
(* forest built from the rows of pass_execution.  The query's rows are put *)
(* in a map of nodes, and walked backwards; each node leaves the map for   *)
(* the front of its parent's children.  A node is moved with the children  *)
(* it has by then, and its parent must still be in the map.                *)
(*                                                                         *)
(* The rows are any table, not only one that a recorder wrote.             *)
(***************************************************************************)
EXTENDS Integers, Sequences, FiniteSets

CONSTANTS
  MaxRows,  \* bound: rows of the table
  MaxSeq,   \* bound: the largest seq
  MaxParent \* bound: the largest parent_id

ASSUME ReaderAssumption == MaxRows \in Nat /\ MaxSeq \in Nat /\ MaxParent \in Nat

VARIABLES
  rows,      \* the table: rows[id] = [parent, seq], parent 0 for NULL
  order,     \* the ids in the order of the query
  remaining, \* order[1 .. remaining] is still to be visited
  nodes,     \* the keys of the map
  children,  \* the children of each node, in their vector
  roots,
  result     \* "assembling", "forest" or "corrupt"

readerVars == <<rows, order, remaining, nodes, children, roots, result>>

RowIds == 1 .. Len(rows)

Tables == UNION {[1 .. n -> [parent : 0 .. MaxParent, seq : 0 .. MaxSeq]] :
                   n \in 0 .. MaxRows}

\* Mutant of NotAfter: ORDER BY seq, parent_id.
SeqFirst(table, r, q) ==
  \/ table[r].seq < table[q].seq
  \/ table[r].seq = table[q].seq /\ table[r].parent <= table[q].parent

\* ORDER BY parent_id NULLS FIRST, seq: NULL is 0, below every id.
NotAfter(table, r, q) ==
  \/ table[r].parent < table[q].parent
  \/ table[r].parent = table[q].parent /\ table[r].seq <= table[q].seq

\* The orders the query may return the rows in: ties are unspecified.
IsQueryOrder(table, ids) ==
  /\ \A r \in 1 .. Len(table) : \E i \in 1 .. Len(table) : ids[i] = r
  /\ \A i, j \in 1 .. Len(table) : i < j => /\ ids[i] # ids[j]
                                            /\ NotAfter(table, ids[i], ids[j])

Init ==
  /\ rows \in Tables
  /\ order \in {ids \in [RowIds -> RowIds] : IsQueryOrder(rows, ids)}
  /\ remaining = Len(rows)
  /\ nodes = RowIds
  /\ children = [id \in RowIds |-> <<>>]
  /\ roots = <<>>
  /\ result = "assembling"

Current == order[remaining]
Parent  == rows[Current].parent

\* Mutant of Insert: children are appended.
InsertLast(list, id) == Append(list, id)
Insert(list, id)     == <<id>> \o list

Attach ==
  /\ result = "assembling" /\ remaining > 0
  /\ remaining' = remaining - 1
  /\ nodes' = nodes \ {Current}
  /\ \/ /\ Parent = 0
        /\ roots' = Insert(roots, Current)
        /\ UNCHANGED <<children, result>>
     \/ /\ Parent \in nodes \ {Current}
        /\ children' = [children EXCEPT ![Parent] = Insert(@, Current)]
        /\ UNCHANGED <<roots, result>>
     \/ /\ Parent # 0 /\ Parent \notin nodes \ {Current}
        /\ result' = "corrupt"                  \* "pass has unknown parent"
        /\ UNCHANGED <<children, roots>>
  /\ UNCHANGED <<rows, order>>

Return ==
  /\ result = "assembling" /\ remaining = 0
  /\ result' = "forest"
  /\ UNCHANGED <<rows, order, remaining, nodes, children, roots>>

Next == Attach \/ Return

Spec == Init /\ [][Next]_readerVars

-----------------------------------------------------------------------------
\* What the recorder guarantees of its rows at every moment (Capture!Forest).
Recorded ==
  \A r \in RowIds : rows[r].parent \in 0 .. (r - 1)

\* Whatever a recorder leaves behind, complete or cut short by a crash, is
\* readable: visiting the rows backwards never meets a node whose parent has
\* left the map, even if the query interleaves rows with equal keys.
RecordedIsReadable == Recorded => result # "corrupt"

ChildIds(p) == {r \in RowIds : rows[r].parent = p}

\* The list holds the set, each element once, by ascending seq.
Lists(list, set) ==
  /\ Len(list) = Cardinality(set)
  /\ {list[i] : i \in 1 .. Len(list)} = set
  /\ \A i, j \in 1 .. Len(list) : i < j => rows[list[i]].seq <= rows[list[j]].seq

\* No table, however malformed, makes the reader drop or duplicate a row: a
\* forest that is returned has each row once, in seq order below its own parent,
\* and every row below a root (no set of rows is closed under parents).
NothingLost ==
  result = "forest" =>
    /\ nodes = {} /\ Lists(roots, ChildIds(0))
    /\ \A p \in RowIds : Lists(children[p], ChildIds(p))
    /\ \A cycle \in (SUBSET RowIds) \ {{}} : \E r \in cycle : rows[r].parent \notin cycle
=============================================================================
