------------------------------ MODULE Provenance ------------------------------
(***************************************************************************)
(* How the histories of the operations of a function are put together from *)
(* the stages of its timeline (crates/engine/src/provenance.rs).           *)
(*                                                                         *)
(* A stage has a snapshot before and after it, or Missing, and the events  *)
(* recorded in it.  A snapshot has the operations of the function, the     *)
(* blob it is stored in, and the addresses (tokens) of the operations that *)
(* were indexed.  An occurrence is an operation of a snapshot.             *)
(***************************************************************************)
EXTENDS OpDiff

CONSTANTS Missing, NoAddress

\* Snapshots are numbered in the order of the timeline: 2i - 1 is before stage i.
Before(i) == 2 * i - 1
After(i)  == 2 * i
SnapshotAt(stages, n) == IF n % 2 = 1 THEN stages[(n + 1) \div 2].before
                         ELSE stages[n \div 2].after

Occurrence(n, k) == [snapshot |-> n, ordinal |-> k]
NoOccurrence     == Occurrence(0, 0)

Occurrences(stages) ==
  UNION {IF SnapshotAt(stages, n) = Missing THEN {}
         ELSE {Occurrence(n, k) : k \in DOMAIN SnapshotAt(stages, n).ops} :
           n \in 1 .. 2 * Len(stages)}

OperationOf(stages, o) == SnapshotAt(stages, o.snapshot).ops[o.ordinal]

\* The occurrence at an address, if the snapshot has indexed one there.
NodeForToken(stages, n, address) ==
  LET snapshot == SnapshotAt(stages, n)
  IN IF snapshot = Missing THEN NoOccurrence
     ELSE IF address \in DOMAIN snapshot.tokens THEN Occurrence(n, snapshot.tokens[address])
     ELSE NoOccurrence

\* A relation of an occurrence to its successor in a stage, or between two stages;
\* evidence is the events it rests on, exact is its confidence.
Relation(i, from, to, change, evidence, exact, step) ==
  [stage |-> i, from |-> from, to |-> to, change |-> change, evidence |-> evidence,
   exact |-> exact, step |-> step]

SameStep(r, s) == r.step /\ s.step /\ r.stage = s.stage /\ r.from = s.from
                  /\ r.to = s.to /\ r.change = s.change

\* The events of a stage come in order, so that evidence that is appended is sorted.
PushRelation(relations, r) ==
  LET same == SelectInSeq(relations, LAMBDA s : SameStep(r, s))
  IN IF same = 0 THEN Append(relations, r)
     ELSE [relations EXCEPT ![same].evidence = @ \o r.evidence]

Changed(b, a) == IF b.name # a.name THEN "replaced"
                 ELSE IF SameDetail(b, a) THEN "unchanged" ELSE "modified"

-----------------------------------------------------------------------------
(* One stage.  s has the relations so far and which occurrences are spoken *)
(* for: used (before and after), replaced (before) and inserted (after).   *)

Use(s, some) == [s EXCEPT !.used = @ \union (some \ {NoOccurrence})]

Link(s, i, from, to, change, k) ==
  [Use(s, {from, to}) EXCEPT !.relations =
     PushRelation(@, Relation(i, from, to, change, <<k>>, TRUE, TRUE))]

\* The first event that replaces an operation decides; a replacement that is gone by
\* the end of the stage counts as an erasure.
ReplacedEvent(stages, i, s, k, e) ==
  LET from == NodeForToken(stages, Before(i), e.address)
      to   == NodeForToken(stages, After(i), e.new)
  IN IF from = NoOccurrence \/ from \in s.replaced THEN s
     ELSE [Link(s, i, from, to, IF to = NoOccurrence THEN "erased" ELSE "replaced", k)
             EXCEPT !.replaced = @ \union {from}]

ModifiedEvent(stages, i, s, k, e) ==
  LET from == NodeForToken(stages, Before(i), e.address)
      to   == NodeForToken(stages, After(i), e.address)
  IN IF NoOccurrence \in {from, to} THEN s ELSE Link(s, i, from, to, "modified", k)

\* Mutant of ErasedEvent: what is erased may still be matched.
ErasedUnused(stages, i, s, k, e) ==
  LET from == NodeForToken(stages, Before(i), e.address)
  IN IF from = NoOccurrence THEN s
     ELSE [s EXCEPT !.relations = PushRelation(@,
             Relation(i, from, NoOccurrence, "erased", <<k>>, TRUE, TRUE))]

ErasedEvent(stages, i, s, k, e) ==
  LET from == NodeForToken(stages, Before(i), e.address)
  IN IF from = NoOccurrence THEN s ELSE Link(s, i, from, NoOccurrence, "erased", k)

InsertedEvent(stages, i, s, k, e) ==
  LET to == NodeForToken(stages, After(i), e.address)
  IN IF to = NoOccurrence THEN s
     ELSE [Link(s, i, NoOccurrence, to, "inserted", k) EXCEPT !.inserted = @ \union {to}]

ApplyEvent(stages, i, s, k) ==
  LET e == stages[i].events[k] IN
  CASE e.kind = "replaced" -> ReplacedEvent(stages, i, s, k, e)
    [] e.kind = "modified" -> ModifiedEvent(stages, i, s, k, e)
    [] e.kind = "erased"   -> ErasedEvent(stages, i, s, k, e)
    [] e.kind = "inserted" -> InsertedEvent(stages, i, s, k, e)

ApplyEvents(stages, i, start) ==
  FoldLeft(LAMBDA s, k : ApplyEvent(stages, i, s, k), start, UpTo(Len(stages[i].events)))

\* A link for which no event speaks.
LinkPair(stages, i, s, from, to, exact) ==
  [Use(s, {from, to}) EXCEPT !.relations =
     PushRelation(@, Relation(i, from, to,
                              Changed(OperationOf(stages, from), OperationOf(stages, to)),
                              <<>>, exact, TRUE))]

LinkPairs(stages, i, start, pairs, exact) ==
  FoldLeft(LAMBDA s, k : LinkPair(stages, i, s, pairs[k][1], pairs[k][2], exact), start,
           UpTo(Len(pairs)))

\* Mutant of SameAddress: what is used after the stage is not linked either.
SameAddressUnused(stages, i, s) ==
  {address \in DOMAIN stages[i].before.tokens \intersect DOMAIN stages[i].after.tokens :
     LET from == NodeForToken(stages, Before(i), address)
         to   == NodeForToken(stages, After(i), address)
     IN /\ OperationOf(stages, from).name = OperationOf(stages, to).name
        /\ {from, to} \intersect s.used = {}}

\* The addresses whose operation is the same before and after, for all that is known:
\* it kept its name, and no event speaks of it.
SameAddress(stages, i, s) ==
  {address \in DOMAIN stages[i].before.tokens \intersect DOMAIN stages[i].after.tokens :
     LET from == NodeForToken(stages, Before(i), address)
         to   == NodeForToken(stages, After(i), address)
     IN /\ OperationOf(stages, from).name = OperationOf(stages, to).name
        /\ from \notin s.used /\ to \notin s.inserted}

\* The map of the tokens has no order; each of them is of other occurrences.
AddressPairs(stages, i, addresses) ==
  LET some == SetToSeq(addresses)
  IN [k \in DOMAIN some |-> <<NodeForToken(stages, Before(i), some[k]),
                              NodeForToken(stages, After(i), some[k])>>]

LinkSameAddress(stages, i, s) ==
  LinkPairs(stages, i, s, AddressPairs(stages, i, SameAddress(stages, i, s)), TRUE)

\* Mutant of Unused: what events name after the stage is matched as well.
UnusedBefore(stages, n, used) ==
  LET ops == SnapshotAt(stages, n).ops
  IN Ascending({k \in DOMAIN ops : n % 2 = 0 \/ Occurrence(n, k) \notin used}, Len(ops))

Unused(stages, n, used) ==
  LET ops == SnapshotAt(stages, n).ops
  IN Ascending({k \in DOMAIN ops : Occurrence(n, k) \notin used}, Len(ops))

\* Matches some of the operations of two snapshots; the pairs in order.
Chosen(ops, some) == [k \in DOMAIN some |-> ops[some[k]]]
Pairs(m, some, n, others, match) ==
  LET found == Ascending({k \in DOMAIN some : match[k] # Unmatched}, Len(some))
  IN [k \in DOMAIN found |-> <<Occurrence(m, some[found[k]]),
                               Occurrence(n, others[match[found[k]]])>>]
MatchedPairs(stages, m, some, n, others) ==
  Pairs(m, some, n, others, MatchOps(Chosen(SnapshotAt(stages, m).ops, some),
                                     Chosen(SnapshotAt(stages, n).ops, others)))

LinkMatches(stages, i, s) ==
  LET pairs == MatchedPairs(stages, Before(i), Unused(stages, Before(i), s.used),
                            After(i), Unused(stages, After(i), s.used))
  IN LinkPairs(stages, i, s, pairs, FALSE)

RelateStage(stages, relations, i) ==
  LET start  == [relations |-> relations, used |-> {}, replaced |-> {}, inserted |-> {}]
      events == ApplyEvents(stages, i, start)
  IN IF Missing \in {stages[i].before, stages[i].after} THEN events.relations
     ELSE LinkMatches(stages, i, LinkSameAddress(stages, i, events)).relations

\* From the stage before i to i: the same blob has the same operations, others are
\* matched.
BridgePairs(stages, m, n) ==
  LET left  == SnapshotAt(stages, m)
      right == SnapshotAt(stages, n)
  IN IF left.blob = right.blob
     THEN [k \in DOMAIN left.ops |-> <<Occurrence(m, k), Occurrence(n, k)>>]
     ELSE MatchedPairs(stages, m, UpTo(Len(left.ops)), n, UpTo(Len(right.ops)))

Bridge(stages, relations, i) ==
  LET left  == stages[i - 1].after
      right == stages[i].before
      pairs == BridgePairs(stages, After(i - 1), Before(i))
  IN IF i = 1 THEN relations
     ELSE IF Missing \in {left, right} THEN relations
     ELSE relations \o [k \in DOMAIN pairs |->
            Relation(i, pairs[k][1], pairs[k][2], "unchanged", <<>>,
                     left.blob = right.blob, FALSE)]

RelateStages(stages) ==
  FoldLeft(LAMBDA r, i : RelateStage(stages, r, i), <<>>, UpTo(Len(stages)))
Relations(stages) ==
  FoldLeft(LAMBDA r, i : Bridge(stages, r, i), RelateStages(stages), UpTo(Len(stages)))

-----------------------------------------------------------------------------
(* Chains: the sets of occurrences that are connected.                     *)

Joins(r) == NoOccurrence \notin {r.from, r.to}

ChainOf(chains, o) == CHOOSE chain \in chains : o \in chain

\* Mutant of Union: the occurrences joined to r.to before stay behind.
UnionOne(chains, r) ==
  IF ~Joins(r) THEN chains
  ELSE ({chain \ {r.to} : chain \in chains \ {ChainOf(chains, r.from)}}
          \union {ChainOf(chains, r.from) \union {r.to}}) \ {{}}

Union(chains, r) ==
  IF ~Joins(r) THEN chains
  ELSE LET left  == ChainOf(chains, r.from)
           right == ChainOf(chains, r.to)
       IN (chains \ {left, right}) \union {left \union right}

Earlier(o, p) ==
  \/ o.snapshot < p.snapshot
  \/ o.snapshot = p.snapshot /\ o.ordinal < p.ordinal

\* The first occurrence of a chain; its place makes the UID of all of them.
Anchor(chain) == CHOOSE o \in chain : \A p \in chain \ {o} : Earlier(o, p)

Chains(occurrences, relations) ==
  FoldLeft(LAMBDA chains, k : Union(chains, relations[k]), {{o} : o \in occurrences},
           UpTo(Len(relations)))

\* What is resolved of a timeline: its relations and the UID of every occurrence.
Resolved(occurrences, relations) ==
  LET chains == Chains(occurrences, relations)
  IN [relations |-> relations,
      uids |-> [o \in occurrences |-> Anchor(ChainOf(chains, o))]]

Resolve(stages) == Resolved(Occurrences(stages), Relations(stages))

\* The steps of the history of a UID, in the order of the stages and, in a stage, of
\* the operations.
History(resolved, uid) ==
  LET relations  == resolved.relations
      end(k)     == IF relations[k].from = NoOccurrence THEN relations[k].to
                    ELSE relations[k].from
      steps      == {k \in DOMAIN relations :
                       relations[k].step /\ resolved.uids[end(k)] = uid}
      key(k)     == <<relations[k].stage, end(k).ordinal, k>>
      less(k, l) == \E n \in 1 .. 3 : /\ key(k)[n] < key(l)[n]
                                      /\ \A m \in 1 .. n - 1 : key(k)[m] = key(l)[m]
      before(k)  == {l \in steps : less(l, k)}
  IN [n \in 1 .. Cardinality(steps) |->
        relations[CHOOSE k \in steps : Cardinality(before(k)) = n - 1]]
=============================================================================
