--------------------------- MODULE TraceReaderProofs ---------------------------
(***************************************************************************)
(* Proofs about TraceReader, for tables of any size, and about what it     *)
(* relies on.                                                              *)
(***************************************************************************)
EXTENDS TraceReader, SequenceTheorems, FiniteSetTheorems, WellFoundedInduction, TLAPS

\* The part of the state that the walk never changes, and what is left of it:
\* the map holds exactly the rows that are still to be visited.
Walk ==
  /\ Len(rows) \in Nat
  /\ rows \in [RowIds -> [parent : Nat, seq : Nat]]
  /\ order \in [RowIds -> RowIds]
  /\ IsQueryOrder(rows, order)
  /\ remaining \in 0 .. Len(rows)
  /\ nodes = {order[i] : i \in 1 .. remaining}

Inv == Walk /\ RecordedIsReadable

\* A table is a sequence, whose indexes are the ids of its rows.
LEMMA TableIsSequence ==
  ASSUME NEW table \in Tables
  PROVE  /\ Len(table) \in Nat
         /\ table \in [1 .. Len(table) -> [parent : Nat, seq : Nat]]
<1> DEFINE R == [parent : Nat, seq : Nat]
<1>1. PICK n \in 0 .. MaxRows :
             table \in [1 .. n -> [parent : 0 .. MaxParent, seq : 0 .. MaxSeq]]
  BY DEF Tables
<1>2. n \in Nat
  BY ReaderAssumption DEF ReaderAssumption
<1>3. [parent : 0 .. MaxParent, seq : 0 .. MaxSeq] \subseteq R
  BY ReaderAssumption DEF ReaderAssumption
<1> HIDE DEF R
<1>4. table \in [1 .. n -> R]
  BY <1>1, <1>3
<1>5. table \in Seq(R)
  BY <1>2, <1>4, SeqDef, Zenon
<1> QED
  BY <1>5, LenProperties DEF R

\* A recorded row's parent comes strictly earlier in the order of the query,
\* since the group of the row is keyed by an id that exceeds its parent's parent.
LEMMA ParentComesEarlier ==
  ASSUME Walk, Recorded, NEW k \in RowIds, rows[order[k]].parent # 0
  PROVE  \E j \in 1 .. (k - 1) : order[j] = rows[order[k]].parent
<1> DEFINE p == rows[order[k]].parent
<1>1. p \in RowIds /\ p < order[k] /\ order[k] \in RowIds
  BY DEF Walk, Recorded, RowIds
<1>2. PICK j \in RowIds : order[j] = p
  BY <1>1 DEF Walk, IsQueryOrder, RowIds
<1>3. rows[p].parent < p
  BY <1>1 DEF Walk, Recorded, RowIds
<1>4. j # k
  BY <1>1, <1>2 DEF RowIds
<1>5. ~(k < j)
  <2>1. SUFFICES ASSUME k < j PROVE FALSE
    OBVIOUS
  <2>2. NotAfter(rows, order[k], order[j])
    BY <2>1 DEF Walk, IsQueryOrder, RowIds
  <2>3. rows[order[k]].parent <= rows[order[j]].parent
    BY <2>2, <1>1, <1>2 DEF NotAfter, Walk
  <2> QED
    BY <2>3, <1>1, <1>2, <1>3 DEF Walk
<1> QED
  BY <1>2, <1>4, <1>5 DEF RowIds, Walk

LEMMA InitInv == Init => Inv
<1> SUFFICES ASSUME Init PROVE Inv
  OBVIOUS
<1>1. Len(rows) \in Nat /\ rows \in [RowIds -> [parent : Nat, seq : Nat]]
  BY TableIsSequence DEF Init, RowIds
<1>2. order \in [RowIds -> RowIds] /\ IsQueryOrder(rows, order)
  BY DEF Init
<1>3. remaining \in 0 .. Len(rows) /\ 1 .. remaining = RowIds
  BY <1>1 DEF Init, RowIds
<1>4. \A r \in RowIds : \E i \in RowIds : order[i] = r
  BY <1>2 DEF IsQueryOrder, RowIds
<1>5. nodes = {order[i] : i \in RowIds}
  BY <1>2, <1>4 DEF Init
<1>6. Walk
  BY <1>1, <1>2, <1>3, <1>5 DEF Walk
<1> QED
  BY <1>6 DEF Init, Inv, RecordedIsReadable

LEMMA NextInv == Inv /\ [Next]_readerVars => Inv'
<1> SUFFICES ASSUME Inv, [Next]_readerVars PROVE Inv'
  OBVIOUS
<1> USE DEF Inv
<1>1. CASE Attach
  <2>1. /\ remaining \in RowIds
        /\ remaining' = remaining - 1
        /\ nodes' = nodes \ {Current}
        /\ UNCHANGED <<rows, order>>
    BY <1>1 DEF Attach, Walk, RowIds
  <2>2. nodes' = {order[i] : i \in 1 .. (remaining - 1)}
    <3>1. \A i \in 1 .. (remaining - 1) : order[i] # order[remaining]
      BY <2>1 DEF Walk, IsQueryOrder, RowIds
    <3> QED
      BY <2>1, <3>1 DEF Walk, Current, RowIds
  <2>3. Walk'
    <3>1. RowIds' = RowIds /\ IsQueryOrder(rows, order)' = IsQueryOrder(rows, order)
      BY <2>1 DEF RowIds, IsQueryOrder, NotAfter
    <3>2. remaining' \in 0 .. Len(rows')
      BY <2>1 DEF Walk, RowIds
    <3> QED
      BY <2>1, <2>2, <3>1, <3>2 DEF Walk
  <2>4. Recorded /\ Parent # 0 => Parent \in nodes \ {Current}
    <3> SUFFICES ASSUME Recorded, Parent # 0 PROVE Parent \in nodes \ {Current}
      OBVIOUS
    <3>1. \E j \in 1 .. (remaining - 1) : order[j] = Parent
      BY <2>1, ParentComesEarlier DEF Current, Parent
    <3> QED
      BY <3>1, <2>1, <2>2
  <2>5. RecordedIsReadable'
    BY <1>1, <2>1, <2>4 DEF Attach, RecordedIsReadable, Recorded, RowIds
  <2> QED
    BY <2>3, <2>5
<1>2. CASE Return
  BY <1>2 DEF Return, Walk, RecordedIsReadable, Recorded, RowIds, IsQueryOrder, NotAfter
<1>3. CASE UNCHANGED readerVars
  BY <1>3 DEF readerVars, Walk, RecordedIsReadable, Recorded, RowIds, IsQueryOrder,
              NotAfter
<1> QED
  BY <1>1, <1>2, <1>3 DEF Next

\* TraceReader::passes never rejects a table whose rows have lower ids as their
\* parents, in whichever order the query returns rows with equal keys.
THEOREM ReadableTheorem == Spec => []RecordedIsReadable
<1>1. Inv => RecordedIsReadable
  BY DEF Inv
<1> QED
  BY InitInv, NextInv, <1>1, PTL DEF Spec
-----------------------------------------------------------------------------
(* No row is lost, whatever the table. *)

Visited == {order[i] : i \in remaining + 1 .. Len(rows)}

\* What has been put in place, until a row without a parent is met: each list has the
\* children that were visited, and the parent of each of them comes before it.
Placed ==
  /\ children \in [RowIds -> Seq(RowIds)] /\ roots \in Seq(RowIds)
  /\ result # "corrupt" =>
       /\ Lists(roots, ChildIds(0) \intersect Visited)
       /\ \A p \in RowIds : Lists(children[p], ChildIds(p) \intersect Visited)
       /\ \A i \in remaining + 1 .. Len(rows) :
            rows[order[i]].parent # 0 =>
              \E j \in 1 .. (i - 1) : order[j] = rows[order[i]].parent
  /\ result = "forest" => remaining = 0

\* A list stays one of a set when a row is put before rows of no lower seq.
LEMMA InsertLists ==
  ASSUME Len(rows) \in Nat, NEW list \in Seq(RowIds), NEW set \in SUBSET RowIds,
         Lists(list, set), NEW id \in RowIds, id \notin set,
         \A r \in set : rows[id].seq <= rows[r].seq
  PROVE  /\ Insert(list, id) \in Seq(RowIds)
         /\ Lists(Insert(list, id), set \union {id})
<1>. DEFINE new == Insert(list, id)
<1>1. IsFiniteSet(set)
  <2>1. IsFiniteSet(1 .. Len(rows))
    BY FS_Interval
  <2>. QED  BY <2>1, FS_Subset DEF RowIds
<1>2. /\ new \in Seq(RowIds) /\ Len(list) \in Nat /\ Len(new) = Len(list) + 1
      /\ new[1] = id /\ \A i \in 1 .. Len(list) : new[i + 1] = list[i]
  BY DEF Insert
<1>. HIDE DEF new
<1>3. Cardinality(set \cup {id}) = Cardinality(set) + 1
  BY <1>1, FS_AddElement
<1>4. Len(new) = Cardinality(set \union {id})
  BY <1>2, <1>3 DEF Lists
<1>5. \A i \in 2 .. Len(new) : i - 1 \in 1 .. Len(list) /\ new[i] = list[i - 1]
  <2>. SUFFICES ASSUME NEW i \in 2 .. Len(new)
                PROVE  i - 1 \in 1 .. Len(list) /\ new[i] = list[i - 1]
    OBVIOUS
  <2>1. i - 1 \in 1 .. Len(list) /\ (i - 1) + 1 = i
    BY <1>2
  <2>. QED  BY <1>2, <2>1
<1>6. {new[i] : i \in 1 .. Len(new)} = set \union {id}
  <2>1. ASSUME NEW i \in 1 .. Len(new)
        PROVE  new[i] \in set \union {id}
    <3>1. CASE i = 1
      BY <1>2, <3>1
    <3>2. CASE i # 1
      <4>1. i \in 2 .. Len(new)
        BY <1>2, <3>2
      <4>. QED  BY <1>5, <4>1 DEF Lists
    <3>. QED  BY <3>1, <3>2
  <2>2. ASSUME NEW r \in set
        PROVE  \E i \in 1 .. Len(new) : new[i] = r
    <3>1. PICK i \in 1 .. Len(list) : list[i] = r
      BY DEF Lists
    <3>2. i + 1 \in 1 .. Len(new) /\ new[i + 1] = r
      BY <1>2, <3>1
    <3>. QED  BY <3>2
  <2>3. 1 \in 1 .. Len(new) /\ new[1] = id
    BY <1>2
  <2>. QED  BY <2>1, <2>2, <2>3
<1>7. ASSUME NEW i \in 1 .. Len(new), NEW j \in 1 .. Len(new), i < j
      PROVE  rows[new[i]].seq <= rows[new[j]].seq
  <2>1. j \in 2 .. Len(new) /\ j - 1 \in 1 .. Len(list) /\ new[j] = list[j - 1]
    <3>1. j \in 2 .. Len(new)
      BY <1>2, <1>7
    <3>. QED  BY <1>5, <3>1
  <2>2. CASE i = 1
    <3>1. new[j] \in set
      BY <2>1 DEF Lists
    <3>. QED  BY <1>2, <2>2, <3>1
  <2>3. CASE i # 1
    <3>1. i \in 2 .. Len(new)
      BY <1>2, <2>3
    <3>2. i - 1 \in 1 .. Len(list) /\ new[i] = list[i - 1] /\ i - 1 < j - 1
      BY <1>2, <1>5, <1>7, <3>1
    <3>. QED  BY <2>1, <3>2 DEF Lists
  <2>. QED  BY <2>2, <2>3
<1>8. Lists(new, set \union {id})
  BY <1>4, <1>6, <1>7 DEF Lists
<1>. QED  BY <1>2, <1>8 DEF new

\* Siblings are visited backwards: the row that is visited now precedes those that were.
LEMMA VisitedFollow ==
  ASSUME Walk, remaining > 0
  PROVE  /\ Current \in RowIds /\ Current \notin Visited /\ Visited \subseteq RowIds
         /\ {order[i] : i \in (remaining - 1) + 1 .. Len(rows)} = Visited \union {Current}
         /\ \A r \in Visited : rows[r].parent = Parent => rows[Current].seq <= rows[r].seq
<1>1. remaining \in RowIds /\ remaining \in Nat /\ Len(rows) \in Nat
  BY DEF Walk, RowIds
<1>2. ASSUME NEW i \in remaining + 1 .. Len(rows)
      PROVE  /\ i \in RowIds /\ order[i] \in RowIds /\ order[i] # order[remaining]
             /\ NotAfter(rows, order[remaining], order[i])
  <2>1. i \in RowIds /\ remaining < i
    BY <1>1 DEF RowIds
  <2>. QED  BY <1>1, <2>1 DEF Walk, IsQueryOrder, RowIds
<1>3. Current \in RowIds
  BY <1>1 DEF Walk, Current
<1>4. ASSUME NEW r \in Visited, rows[r].parent = Parent
      PROVE  rows[Current].seq <= rows[r].seq
  <2>1. NotAfter(rows, Current, r) /\ r \in RowIds
    BY <1>2 DEF Visited, Current
  <2>2. rows[Current].parent \in Nat /\ rows[r].parent \in Nat
    BY <1>3, <2>1 DEF Walk
  <2>. QED  BY <1>4, <2>1, <2>2 DEF NotAfter, Parent
<1>5. {order[i] : i \in (remaining - 1) + 1 .. Len(rows)} = Visited \union {Current}
  <2>1. (remaining - 1) + 1 .. Len(rows) = (remaining + 1 .. Len(rows)) \union {remaining}
    BY <1>1 DEF RowIds
  <2>. QED  BY <2>1 DEF Visited, Current
<1>. QED  BY <1>2, <1>3, <1>4, <1>5 DEF Visited, Current

\* The row that is visited is put before the siblings that were.
LEMMA PlaceSibling ==
  ASSUME Walk, remaining > 0, NEW p, p = Parent, NEW list \in Seq(RowIds),
         Lists(list, ChildIds(p) \intersect Visited)
  PROVE  /\ Insert(list, Current) \in Seq(RowIds)
         /\ Lists(Insert(list, Current), ChildIds(p) \intersect (Visited \union {Current}))
<1>. DEFINE set == ChildIds(p) \intersect Visited
<1>1. /\ set \in SUBSET RowIds /\ Current \notin set /\ Current \in ChildIds(p)
      /\ \A r \in set : rows[Current].seq <= rows[r].seq
  BY VisitedFollow DEF ChildIds, Parent
<1>2. set \union {Current} = ChildIds(p) \intersect (Visited \union {Current})
  BY <1>1
<1>3. Len(rows) \in Nat /\ Current \in RowIds
  BY VisitedFollow DEF Walk
<1>. HIDE DEF set
<1>4. /\ Insert(list, Current) \in Seq(RowIds)
      /\ Lists(Insert(list, Current), set \union {Current})
  BY <1>1, <1>3, InsertLists DEF set
<1>. QED  BY <1>2, <1>4

\* The lists of the other parents are as they were.
LEMMA OthersKept ==
  ASSUME Walk, remaining > 0, NEW p, p # Parent
  PROVE  ChildIds(p) \intersect (Visited \union {Current}) = ChildIds(p) \intersect Visited
BY DEF ChildIds, Parent

LEMMA AttachPlaces ==
  ASSUME Walk, Placed, Attach
  PROVE  Placed'
<1>1. /\ remaining > 0 /\ result = "assembling" /\ remaining' = remaining - 1
      /\ rows' = rows /\ order' = order /\ RowIds' = RowIds
      /\ Current \in RowIds /\ remaining \in RowIds
  BY VisitedFollow DEF Attach, RowIds, Walk
<1>2. Visited' = Visited \union {Current}
  BY <1>1, VisitedFollow DEF Visited
<1>3. /\ \A p : ChildIds(p)' = ChildIds(p)
      /\ \A list, set : Lists(list, set)' = Lists(list, set)
  BY <1>1 DEF ChildIds, Lists
<1>4. CASE Parent = 0 /\ roots' = Insert(roots, Current) /\ UNCHANGED <<children, result>>
  <2>1. Lists(roots, ChildIds(0) \intersect Visited)
    BY <1>1 DEF Placed
  <2>2. roots' \in Seq(RowIds) /\ Lists(roots', ChildIds(0) \intersect (Visited \union {Current}))
    BY <1>1, <1>4, <2>1, PlaceSibling DEF Placed
  <2>3. ASSUME NEW p \in RowIds
        PROVE  Lists(children[p], ChildIds(p) \intersect (Visited \union {Current}))
    <3>1. p # Parent
      BY <1>4 DEF RowIds
    <3>. QED  BY <1>1, <3>1, OthersKept DEF Placed
  <2>4. ASSUME NEW i \in remaining .. Len(rows), rows[order[i]].parent # 0
        PROVE  \E j \in 1 .. (i - 1) : order[j] = rows[order[i]].parent
    <3>1. i \in remaining + 1 .. Len(rows)
      BY <1>1, <1>4, <2>4 DEF Parent, Current, RowIds
    <3>. QED  BY <1>1, <2>4, <3>1 DEF Placed
  <2>5. remaining' + 1 .. Len(rows) = remaining .. Len(rows)
    BY <1>1 DEF RowIds
  <2>. QED  BY <1>1, <1>2, <1>3, <1>4, <2>2, <2>3, <2>4, <2>5 DEF Placed
<1>5. CASE /\ Parent \in nodes \ {Current}
           /\ children' = [children EXCEPT ![Parent] = Insert(@, Current)]
           /\ UNCHANGED <<roots, result>>
  <2>1. PICK k \in 1 .. remaining - 1 : order[k] = Parent
    <3>1. PICK k \in 1 .. remaining : order[k] = Parent
      BY <1>5 DEF Walk
    <3>2. k # remaining
      BY <1>5, <3>1 DEF Current
    <3>. QED  BY <1>1, <3>1, <3>2 DEF RowIds
  <2>2. Parent \in RowIds /\ Parent # 0
    <3>1. k \in RowIds
      BY <1>1, <2>1 DEF RowIds, Walk
    <3>2. Parent \in RowIds
      BY <2>1, <3>1 DEF Walk
    <3>. QED  BY <3>2 DEF RowIds
  <2>3. /\ children'[Parent] \in Seq(RowIds)
        /\ Lists(children'[Parent], ChildIds(Parent) \intersect (Visited \union {Current}))
    BY <1>1, <1>5, <2>2, PlaceSibling DEF Placed
  <2>4. ASSUME NEW p \in RowIds
        PROVE  Lists(children'[p], ChildIds(p) \intersect (Visited \union {Current}))
    <3>1. CASE p = Parent
      BY <2>3, <3>1
    <3>2. CASE p # Parent
      <4>1. children'[p] = children[p]
        BY <1>5, <3>2 DEF Placed
      <4>. QED  BY <1>1, <3>2, <4>1, OthersKept DEF Placed
    <3>. QED  BY <3>1, <3>2
  <2>5. Lists(roots, ChildIds(0) \intersect (Visited \union {Current}))
    BY <1>1, <2>2, OthersKept DEF Placed
  <2>6. children' \in [RowIds -> Seq(RowIds)]
    BY <1>5, <2>2, <2>3 DEF Placed
  <2>7. ASSUME NEW i \in remaining .. Len(rows), rows[order[i]].parent # 0
        PROVE  \E j \in 1 .. (i - 1) : order[j] = rows[order[i]].parent
    <3>1. CASE i = remaining
      BY <2>1, <3>1 DEF Parent, Current
    <3>2. CASE i # remaining
      <4>1. i \in remaining + 1 .. Len(rows)
        BY <1>1, <3>2 DEF RowIds
      <4>. QED  BY <1>1, <2>7, <4>1 DEF Placed
    <3>. QED  BY <3>1, <3>2
  <2>8. remaining' + 1 .. Len(rows) = remaining .. Len(rows)
    BY <1>1 DEF RowIds
  <2>. QED  BY <1>1, <1>2, <1>3, <1>5, <2>4, <2>5, <2>6, <2>7, <2>8 DEF Placed
<1>6. CASE result' = "corrupt" /\ UNCHANGED <<children, roots>>
  BY <1>1, <1>6 DEF Placed
<1>. QED  BY <1>4, <1>5, <1>6 DEF Attach

\* Of rows that are closed under parents, the one that comes first has none.
LEMMA NoCycle ==
  ASSUME Walk, Placed, result = "forest", NEW cycle \in SUBSET RowIds, cycle # {}
  PROVE  \E r \in cycle : rows[r].parent \notin cycle
<1>. DEFINE places == {i \in RowIds : order[i] \in cycle}
<1>1. places \subseteq Nat /\ places # {}
  <2>1. PICK r \in RowIds : r \in cycle
    OBVIOUS
  <2>2. \E i \in RowIds : order[i] = r
    BY DEF Walk, IsQueryOrder, RowIds
  <2>3. RowIds \subseteq Nat
    BY DEF RowIds
  <2>. QED  BY <2>1, <2>2, <2>3
<1>2. PICK i \in places : \A j \in places : ~(<<j, i>> \in OpToRel(<, Nat))
  BY <1>1, NatLessThanWellFounded, WFMin
<1>3. ASSUME NEW j \in places
      PROVE  ~(j < i)
  <2>1. i \in Nat /\ j \in Nat
    BY <1>1
  <2>2. j < i => <<j, i>> \in OpToRel(<, Nat)
    BY <2>1 DEF OpToRel
  <2>. QED  BY <1>2, <2>2
<1>4. i \in 1 .. Len(rows) /\ order[i] \in cycle /\ Len(rows) \in Nat
  BY DEF RowIds, Walk
<1>5. rows[order[i]].parent \notin cycle
  <2>1. SUFFICES ASSUME rows[order[i]].parent \in cycle
                 PROVE  FALSE
    OBVIOUS
  <2>2. rows[order[i]].parent # 0
    BY <2>1 DEF RowIds
  <2>3. i \in remaining + 1 .. Len(rows) /\ result # "corrupt"
    BY <1>4 DEF Placed
  <2>4. PICK j \in 1 .. (i - 1) : order[j] = rows[order[i]].parent
    BY <2>2, <2>3 DEF Placed
  <2>5. j \in places /\ j < i
    BY <1>4, <2>1, <2>4 DEF RowIds
  <2>. QED  BY <1>3, <2>5
<1>. QED  BY <1>4, <1>5

LEMMA InitPlaced == Init => Placed
<1>. SUFFICES ASSUME Init
              PROVE  Placed
  OBVIOUS
<1>1. Len(rows) \in Nat
  BY InitInv DEF Inv, Walk
<1>2. remaining + 1 .. Len(rows) = {}
  BY <1>1 DEF Init
<1>3. Visited = {}
  BY <1>2 DEF Visited
<1>4. <<>> \in Seq(RowIds) /\ Lists(<<>>, {})
  BY FS_EmptySet DEF Lists
<1>. QED  BY <1>2, <1>3, <1>4 DEF Init, Placed

\* For a table of any size and shape, a forest that TraceReader::passes returns has every
\* row once, in the order of seq below its own parent, and no cycle is left out of it.
THEOREM NothingIsLost == Spec => []NothingLost
<1>. DEFINE Both == Inv /\ Placed
<1>1. Init => Both
  BY InitInv, InitPlaced
<1>2. Both /\ [Next]_readerVars => Both'
  <2>. SUFFICES ASSUME Inv, Placed, [Next]_readerVars
                PROVE  Placed'
    BY NextInv
  <2>1. CASE Attach
    BY <2>1, AttachPlaces DEF Inv
  <2>2. CASE Return \/ UNCHANGED readerVars
    <3>1. UNCHANGED <<rows, order, remaining, nodes, children, roots>>
      BY <2>2 DEF Return, readerVars
    <3>2. (result' # "corrupt" => result # "corrupt") /\ (result' = "forest" => remaining = 0)
      BY <2>2 DEF Return, readerVars, Placed
    <3>3. /\ RowIds' = RowIds /\ Visited' = Visited /\ \A p : ChildIds(p)' = ChildIds(p)
          /\ \A list, set : Lists(list, set)' = Lists(list, set)
      BY <3>1 DEF Lists, ChildIds, Visited, RowIds
    <3>. QED  BY <3>1, <3>2, <3>3 DEF Placed
  <2>. QED  BY <2>1, <2>2 DEF Next
<1>3. Both => NothingLost
  <2>. SUFFICES ASSUME Inv, Placed, result = "forest"
                PROVE  /\ nodes = {} /\ Lists(roots, ChildIds(0))
                       /\ \A p \in RowIds : Lists(children[p], ChildIds(p))
                       /\ \A cycle \in (SUBSET RowIds) \ {{}} :
                            \E r \in cycle : rows[r].parent \notin cycle
    BY DEF NothingLost
  <2>1. Walk /\ remaining = 0
    BY DEF Inv, Placed
  <2>2. nodes = {} /\ Visited = RowIds
    <3>1. 1 .. remaining = {} /\ remaining + 1 .. Len(rows) = RowIds
      BY <2>1 DEF RowIds
    <3>2. nodes = {}
      BY <2>1, <3>1 DEF Walk
    <3>3. \A r \in RowIds : \E i \in RowIds : order[i] = r
      BY <2>1 DEF Walk, IsQueryOrder, RowIds
    <3>4. Visited = {order[i] : i \in RowIds}
      BY <3>1 DEF Visited
    <3>. QED  BY <2>1, <3>2, <3>3, <3>4 DEF Walk
  <2>3. \A p : ChildIds(p) \intersect Visited = ChildIds(p)
    BY <2>2 DEF ChildIds
  <2>4. \A cycle \in (SUBSET RowIds) \ {{}} : \E r \in cycle : rows[r].parent \notin cycle
    <3>1. ASSUME NEW cycle \in SUBSET RowIds, cycle # {}
          PROVE  \E r \in cycle : rows[r].parent \notin cycle
      BY <2>1, <3>1, NoCycle
    <3>. QED  BY <3>1
  <2>5. /\ Lists(roots, ChildIds(0) \intersect Visited)
        /\ \A p \in RowIds : Lists(children[p], ChildIds(p) \intersect Visited)
    BY DEF Placed
  <2>6. Lists(roots, ChildIds(0)) /\ \A p \in RowIds : Lists(children[p], ChildIds(p))
    BY <2>3, <2>5
  <2>. QED  BY <2>2, <2>4, <2>6
<1>. QED  BY <1>1, <1>2, <1>3, PTL DEF Spec

-----------------------------------------------------------------------------
(* What the reader relies on: PassTree, which the recorder implements, for *)
(* trees of any size.                                                      *)

VARIABLES tree, failed

Tree == INSTANCE PassTree

TreeInv == Tree!TreeTypeOK /\ Tree!IsTree /\ Tree!ClosedBelow

LEMMA TreeFacts ==
  ASSUME Tree!TreeTypeOK
  PROVE  /\ Len(tree) \in Nat
         /\ \A n \in Tree!NodeIds : tree[n] \in Tree!Node
BY LenProperties, ElementOfSeq DEF Tree!TreeTypeOK, Tree!NodeIds

LEMMA AppendNode ==
  ASSUME TreeInv, NEW p \in Nat,
         tree' = Append(tree, [parent |-> p, open |-> TRUE]),
         UNCHANGED failed,
         \/ tree = <<>> /\ p = 0
         \/ p \in Tree!NodeIds /\ (p = 1 \/ tree[p].open \/ failed)
  PROVE  TreeInv'
<1> DEFINE node == [parent |-> p, open |-> TRUE]
           new  == Len(tree) + 1
<1>1. tree \in Seq(Tree!Node) /\ Len(tree) \in Nat
  BY TreeFacts DEF TreeInv, Tree!TreeTypeOK
<1>2. node \in Tree!Node /\ node.parent = p /\ node.open = TRUE
  BY DEF Tree!Node
<1> HIDE DEF node
<1>3. /\ tree' \in Seq(Tree!Node)
      /\ Len(tree') = Len(tree) + 1
      /\ \A n \in Tree!NodeIds : tree'[n] = tree[n]
      /\ tree'[new] = node
  BY <1>1, <1>2, AppendProperties DEF Tree!NodeIds, node
<1>4. Tree!NodeIds' = Tree!NodeIds \union {new} /\ Tree!NodeIds = 1 .. (new - 1) /\ new \in Nat
  BY <1>1, <1>3 DEF Tree!NodeIds
<1> HIDE DEF new
<1>5. tree = <<>> => Tree!NodeIds = {} /\ new = 1
  BY EmptySeq DEF Tree!NodeIds, new
<1>6. Tree!TreeTypeOK'
  BY <1>3 DEF TreeInv, Tree!TreeTypeOK
<1>7. Tree!IsTree'
  <2>1. p \in IF new = 1 THEN {0} ELSE 1 .. (new - 1)
    <3>1. CASE p \in Tree!NodeIds
      BY <1>4, <3>1
    <3>2. CASE tree = <<>> /\ p = 0
      BY <1>5, <3>2
    <3> QED
      BY <3>1, <3>2
  <2>2. tree'[new].parent \in IF new = 1 THEN {0} ELSE 1 .. (new - 1)
    BY <1>2, <1>3, <2>1
  <2> QED
    BY <1>3, <1>4, <2>2 DEF TreeInv, Tree!IsTree
<1>8. Tree!ClosedBelow'
  <2> SUFFICES ASSUME ~failed, NEW n \in Tree!NodeIds', tree'[n].open
               PROVE  tree'[n].parent \in {0, 1} \/ tree'[tree'[n].parent].open
    BY DEF Tree!ClosedBelow
  <2>1. CASE n = new
    BY <1>2, <1>3, <1>4, <2>1
  <2>2. CASE n \in Tree!NodeIds
    <3>1. tree'[n].parent \in {0, 1} \/ tree[tree[n].parent].open
      BY <1>3, <2>2 DEF TreeInv, Tree!ClosedBelow
    <3>2. tree[n].parent \notin {0, 1} => tree[n].parent \in Tree!NodeIds
      <4>1. tree[n].parent \in IF n = 1 THEN {0} ELSE 1 .. (n - 1)
        BY <2>2 DEF TreeInv, Tree!IsTree
      <4>2. n \in 1 .. (new - 1) /\ Tree!NodeIds = 1 .. (new - 1) /\ new \in Nat
        BY <1>4, <2>2
      <4> QED
        BY <4>1, <4>2
    <3> QED
      BY <1>3, <2>2, <3>1, <3>2
  <2> QED
    BY <1>4, <2>1, <2>2
<1> QED
  BY <1>6, <1>7, <1>8 DEF TreeInv

LEMMA EndInv ==
  ASSUME TreeInv, NEW n \in Tree!NodeIds, Tree!End(n)
  PROVE  TreeInv'
<1> DEFINE node == [tree[n] EXCEPT !.open = FALSE]
<1>1. tree \in Seq(Tree!Node) /\ tree[n] \in Tree!Node
  BY TreeFacts DEF TreeInv, Tree!TreeTypeOK
<1>2. node \in Tree!Node /\ node.parent = tree[n].parent /\ node.open = FALSE
  BY <1>1 DEF Tree!Node
<1>3. tree' = [tree EXCEPT ![n] = node]
  BY DEF Tree!End
<1> HIDE DEF node
<1>4. /\ tree' \in Seq(Tree!Node) /\ Tree!NodeIds' = Tree!NodeIds
      /\ \A m \in Tree!NodeIds : tree'[m] = IF m = n THEN node ELSE tree[m]
  BY <1>1, <1>2, <1>3, ExceptSeq DEF Tree!NodeIds
<1>5. Tree!TreeTypeOK'
  BY <1>4 DEF TreeInv, Tree!TreeTypeOK, Tree!End
<1>6. \A m \in Tree!NodeIds : tree'[m].parent = tree[m].parent /\ (tree'[m].open => tree[m].open)
  BY <1>2, <1>4
<1>7. Tree!IsTree'
  BY <1>4, <1>6 DEF TreeInv, Tree!IsTree
<1>8. Tree!ClosedBelow'
  <2> SUFFICES ASSUME ~failed', NEW m \in Tree!NodeIds, tree'[m].open,
                      tree[m].parent \notin {0, 1}
               PROVE  tree'[tree[m].parent].open
    BY <1>4, <1>6 DEF Tree!ClosedBelow
  <2>1. tree[m].open /\ ~failed
    BY <1>6 DEF Tree!End
  <2>2. tree[tree[m].parent].open
    BY <2>1 DEF TreeInv, Tree!ClosedBelow
  <2>3. tree[m].parent # n
    BY <2>1 DEF Tree!End
  <2>4. tree[m].parent \in Tree!NodeIds
    BY TreeFacts DEF TreeInv, Tree!IsTree, Tree!NodeIds
  <2> QED
    BY <1>4, <2>2, <2>3, <2>4
<1> QED
  BY <1>5, <1>7, <1>8 DEF TreeInv

LEMMA TreeNext == TreeInv /\ [Tree!Next]_(Tree!treeVars) => TreeInv'
<1> SUFFICES ASSUME TreeInv, [Tree!Next]_(Tree!treeVars) PROVE TreeInv'
  OBVIOUS
<1>1. CASE Tree!BeginRoot
  BY <1>1, AppendNode DEF Tree!BeginRoot
<1>2. ASSUME NEW n \in Tree!NodeIds, Tree!Begin(n) PROVE TreeInv'
  <2>1. n \in Nat
    BY DEF Tree!NodeIds
  <2> QED
    BY <1>2, <2>1, AppendNode DEF Tree!Begin
<1>3. ASSUME NEW n \in Tree!NodeIds, Tree!End(n) PROVE TreeInv'
  BY <1>3, EndInv
<1>4. CASE Tree!Fail
  BY <1>4 DEF Tree!Fail, TreeInv, Tree!TreeTypeOK, Tree!IsTree, Tree!ClosedBelow, Tree!NodeIds
<1>5. CASE UNCHANGED Tree!treeVars
  BY <1>5 DEF Tree!treeVars, TreeInv, Tree!TreeTypeOK, Tree!IsTree, Tree!ClosedBelow, Tree!NodeIds
<1> QED
  BY <1>1, <1>2, <1>3, <1>4, <1>5 DEF Tree!Next

\* What an implementation of PassTree owes its readers: parents precede their
\* children and, until a pass fails, no execution outlives the one it is part of.
THEOREM TreeTheorem == Tree!Spec => [](Tree!IsTree /\ Tree!ClosedBelow)
<1>1. Tree!Init => TreeInv
  <2> SUFFICES ASSUME Tree!Init PROVE TreeInv
    OBVIOUS
  <2>0. <<>> \in Seq(Tree!Node) /\ Len(<<>>) = 0
    BY EmptySeq
  <2>1. tree = <<>> /\ failed = FALSE
    BY DEF Tree!Init
  <2>2. Tree!TreeTypeOK
    BY <2>0, <2>1 DEF Tree!TreeTypeOK
  <2>3. Tree!NodeIds = {}
    BY <2>0, <2>1 DEF Tree!NodeIds
  <2> QED
    BY <2>2, <2>3 DEF TreeInv, Tree!IsTree, Tree!ClosedBelow
<1>2. TreeInv => Tree!IsTree /\ Tree!ClosedBelow
  BY DEF TreeInv
<1> QED
  BY <1>1, <1>2, TreeNext, PTL DEF Tree!Spec
=============================================================================
