-------------------------------- MODULE OpDiff --------------------------------
(***************************************************************************)
(* The matching of the operations of two snapshots of a function, and the  *)
(* diff it yields (crates/engine/src/diff.rs).  A snapshot is the sequence *)
(* of its operations, in the order in which they are printed; an operation *)
(* has at least the fields name, types, operands, location and attrs.      *)
(***************************************************************************)
EXTENDS SequencesExt

NoLocation == "none"

Fingerprint(op) ==
  [name |-> op.name, types |-> op.types, count |-> Cardinality(op.operands),
   location |-> op.location]

\* Operations of different names do not match.
NoScore == 0
FingerprintScore(b, a) ==
  LET points(condition, n) == IF condition THEN n ELSE 0 IN
  IF b.name # a.name THEN NoScore
  ELSE 50 + points(b.types = a.types, 25) + points(b.count = a.count, 15)
          + points(b.location # NoLocation /\ b.location = a.location, 10)

\* Mutant of MatchThreshold: a score has to exceed it.
MoreThanThreshold == 51
MatchThreshold    == 50

\* The operation after that each operation before is matched with, 0 if none.
Unmatched == 0
Free(after, match) == {j \in 1 .. Len(after) : \A i \in DOMAIN match : match[i] # j}

MatchWith(match, i, candidates) ==
  [match EXCEPT ![i] = IF candidates = {} THEN Unmatched ELSE Min(candidates)]

\* The first pass: equal fingerprints, in order.
MatchEqual(before, after, match, i) ==
  MatchWith(match, i, {j \in Free(after, match) : Fingerprint(after[j]) = Fingerprint(before[i])})

\* The scores of some operations after, and those of the best, if they are good enough.
Scores(op, after, some) ==
  [j \in some |-> FingerprintScore(Fingerprint(op), Fingerprint(after[j]))]
Best(scores) ==
  {j \in DOMAIN scores :
     scores[j] >= MatchThreshold /\ \A k \in DOMAIN scores : scores[j] >= scores[k]}

\* Mutant of MatchBest: an operation after is taken twice.
MatchBestTaken(before, after, match, i) ==
  IF match[i] # Unmatched THEN match
  ELSE MatchWith(match, i, Best(Scores(before[i], after, 1 .. Len(after))))

\* The second pass: the first of the best scores for what the first pass left.
MatchBest(before, after, match, i) ==
  IF match[i] # Unmatched THEN match
  ELSE MatchWith(match, i, Best(Scores(before[i], after, Free(after, match))))

UpTo(n) == [i \in 1 .. n |-> i]

\* The numbers of a set up to n, in ascending order.
Enlist(set, seq, i) == IF i \in set THEN Append(seq, i) ELSE seq
Ascending(set, n)   == FoldLeft(LAMBDA seq, i : Enlist(set, seq, i), <<>>, UpTo(n))

FirstPass(before, after) ==
  FoldLeft(LAMBDA match, i : MatchEqual(before, after, match, i),
           [i \in 1 .. Len(before) |-> Unmatched], UpTo(Len(before)))

MatchOps(before, after) ==
  FoldLeft(LAMBDA match, i : MatchBest(before, after, match, i),
           FirstPass(before, after), UpTo(Len(before)))

-----------------------------------------------------------------------------
Change(class, b, a) == [class |-> class, before |-> b, after |-> a]
Nothing == 0   \* None, on the side of an operation that was added or removed

\* What detail compares; a location or a name of a value is no change.
SameDetail(b, a) ==
  b.types = a.types /\ Cardinality(b.operands) = Cardinality(a.operands) /\ b.attrs = a.attrs

MatchedChange(before, after, i, j) ==
  Change(IF SameDetail(before[i], after[j]) THEN "unchanged" ELSE "modified", i, j)

\* The changes of the operations between two that are matched with none.
Removed(match, from, to) ==
  LET gone == {i \in DOMAIN match : match[i] = Unmatched /\ from < i /\ i < to}
      some == Ascending(gone, Len(match))
  IN [k \in DOMAIN some |-> Change("removed", some[k], Nothing)]

Sources(match, j) == {i \in DOMAIN match : match[i] = j}

\* Adds the change of an operation after; done is the last operation before it that
\* was reached.
PushChange(before, after, match, state, j) ==
  IF Sources(match, j) = {}
  THEN [state EXCEPT !.out = Append(@, Change("added", Nothing, j))]
  ELSE LET i == Max(Sources(match, j)) IN
       [out  |-> Append(state.out \o Removed(match, state.done, i),
                        MatchedChange(before, after, i, j)),
        done |-> Max({state.done, i})]

EndOfChanges(before, after, match) ==
  FoldLeft(LAMBDA state, j : PushChange(before, after, match, state, j),
           [out |-> <<>>, done |-> 0], UpTo(Len(after)))

\* The changes in the order of the operations after them; removed operations come
\* before the first matched operation that followed them.
ChangesOf(before, after, match) ==
  LET end == EndOfChanges(before, after, match)
  IN end.out \o Removed(match, end.done, Len(match) + 1)

DiffFunction(before, after) == ChangesOf(before, after, MatchOps(before, after))

\* What the handler of a diff answers without the engine for two equal blobs.
SharedBlobDiff(ops) == [i \in 1 .. Len(ops) |-> Change("unchanged", i, i)]

-----------------------------------------------------------------------------
(* Properties of the diff of two snapshots. *)

Mentions(changes, side, n) == {k \in DOMAIN changes : changes[k][side] = n}

\* Every operation of either snapshot is in exactly one change, and the operations
\* after keep their order.
AccountsForAll(before, after, changes) ==
  /\ \A i \in 1 .. Len(before) : Cardinality(Mentions(changes, "before", i)) = 1
  /\ \A j \in 1 .. Len(after)  : Cardinality(Mentions(changes, "after", j)) = 1
  /\ \A k, l \in DOMAIN changes :
       (k < l /\ Nothing \notin {changes[k].after, changes[l].after}) =>
         changes[k].after < changes[l].after

\* An operation is reported as removed and another as added only if no pairing of
\* them is left: their names differ.
NoMissedPair(before, after, changes) ==
  \A k, l \in DOMAIN changes :
    (changes[k].class = "removed" /\ changes[l].class = "added") =>
      before[changes[k].before].name # after[changes[l].after].name

\* The diff of a snapshot with itself is what is answered for a shared blob.
ReflexiveDiff(ops) == DiffFunction(ops, ops) = SharedBlobDiff(ops)
=============================================================================
