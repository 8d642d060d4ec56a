-------------------------------- MODULE Lineage --------------------------------
(***************************************************************************)
(* The timelines that Provenance resolves: passes that rewrite a function, *)
(* the events a rewriter notifies the recorder of, and an allocator that   *)
(* reuses the addresses of erased operations.  All of this is MLIR, and    *)
(* modelled as the recorder sees it; that the operations have identities,  *)
(* and what replaced what, is known here and not to Provenance.            *)
(*                                                                         *)
(* A rewriter need not be used: any change may go unnotified.              *)
(***************************************************************************)
EXTENDS Provenance

CONSTANTS
  Addresses, Names,
  Start,        \* the names of the operations at first
  MaxStages, MaxChanges, MaxOps   \* bounds: passes, changes made by them, operations

ASSUME LineageAssumption ==
  /\ NoAddress \notin Addresses
  /\ Start \in Seq(Names) /\ Len(Start) <= Cardinality(Addresses)
  /\ {MaxStages, MaxChanges, MaxOps} \subseteq Nat

VARIABLES
  live,       \* the operations of the function, in order
  stages,     \* the timeline: the passes that have run
  pass,       \* the pass that runs, NoPass if none does
  elsewhere,  \* a number for the text around the function
  fidelity,   \* "full" or "text": whether operations are indexed and events recorded
  origin,     \* the identities of operations and of what replaced them
  changes     \* how many there were; the last identity that was given

vars == <<live, stages, pass, elsewhere, fidelity, origin, changes>>

NoPass == [before |-> Missing, events |-> <<>>, spoken |-> {}, moved |-> {}]

Operation(name, attrs) ==
  [name |-> name, attrs |-> attrs, types |-> "t", operands |-> {}, location |-> NoLocation]

AddressesOf(ops) == {op.address : op \in Range(ops)}

Snapshot ==
  [ops  |-> [k \in DOMAIN live |-> live[k].op],
   blob |-> [text |-> [k \in DOMAIN live |-> live[k].op], around |-> elsewhere],
   ids  |-> [k \in DOMAIN live |-> live[k].id],
   tokens |-> IF fidelity = "text" THEN <<>>
              ELSE [a \in AddressesOf(live) |->
                      CHOOSE k \in DOMAIN live : live[k].address = a]]

Init ==
  /\ \E place \in [DOMAIN Start -> Addresses] :
       /\ IsInjective(place)
       /\ live = [k \in DOMAIN Start |->
                    [id |-> -k, address |-> place[k], op |-> Operation(Start[k], "0")]]
  /\ stages = <<>> /\ pass = NoPass /\ elsewhere = 0 /\ origin = {} /\ changes = 0
  /\ fidelity \in {"full", "text"}

-----------------------------------------------------------------------------
Running == pass.before # Missing

StartPass ==
  /\ ~Running /\ Len(stages) < MaxStages
  /\ pass' = [NoPass EXCEPT !.before = Snapshot]
  /\ UNCHANGED <<live, stages, elsewhere, fidelity, origin, changes>>

Stage(after) == [before |-> pass.before, after |-> after, events |-> pass.events,
                 moved |-> pass.moved]

\* A pass that failed has no snapshot after it.
EndPass ==
  /\ Running
  /\ \E after \in {Snapshot, Missing} : stages' = Append(stages, Stage(after))
  /\ pass' = NoPass
  /\ UNCHANGED <<live, elsewhere, fidelity, origin, changes>>

\* A pass on another function that is not in this timeline.
ChangeElsewhere ==
  /\ ~Running /\ changes < MaxChanges /\ Len(stages) < MaxStages
  /\ elsewhere' = elsewhere + 1 /\ changes' = changes + 1
  /\ UNCHANGED <<live, stages, pass, fidelity, origin>>

\* A change of the function, the events it notifies of, and the names that are not
\* given to another operation at an address in this pass (see Reusable).
Rewrite(ops, events, spoken, moved) ==
  /\ changes < MaxChanges /\ changes' = changes + 1
  /\ live' = ops
  /\ pass' = [pass EXCEPT !.events = @ \o (IF fidelity = "full" THEN events ELSE <<>>),
                          !.spoken = @ \union spoken, !.moved = @ \union moved]
  /\ UNCHANGED <<stages, elsewhere, fidelity>>

Event(kind, address, new) == [kind |-> kind, address |-> address, new |-> new]
Notified(n, events) == IF n THEN events ELSE <<>>

\* An address of which an event speaks that would name another operation as well is
\* not reused before the pass is over, nor one of an operation that vanished without
\* an event, for one of the same name.
Reusable(address, name) == address \notin AddressesOf(live) /\ <<address, name>> \notin pass.spoken

Speaks(address) == {address} \X Names

\* The operation has an address at which there was another when the pass began.
IsReuse(k) ==
  \E i \in DOMAIN pass.before.ids :
    /\ live[k].address \in DOMAIN pass.before.tokens
    /\ pass.before.tokens[live[k].address] = i /\ pass.before.ids[i] # live[k].id

Create == Running /\ \E k \in 1 .. Len(live) + 1, a \in Addresses, name \in Names, n \in BOOLEAN :
  /\ Len(live) < MaxOps /\ Reusable(a, name)
  /\ Rewrite(InsertAt(live, k, [id |-> changes + 1, address |-> a, op |-> Operation(name, "0")]),
             Notified(n, <<Event("inserted", a, NoAddress)>>), {}, {})
  /\ UNCHANGED origin

Erase == Running /\ \E k \in DOMAIN live, n \in BOOLEAN :
  /\ Rewrite(RemoveAt(live, k), Notified(n, <<Event("erased", live[k].address, NoAddress)>>),
             IF n THEN {} ELSE {<<live[k].address, live[k].op.name>>}, {})
  /\ UNCHANGED origin

\* replaceOp: the uses are replaced, and the operation is erased.
Replace == Running /\ \E k, m \in DOMAIN live :
  /\ k # m
  /\ IsReuse(k) => \E i \in DOMAIN pass.events :
                     pass.events[i].kind = "replaced" /\ pass.events[i].address = live[k].address
  /\ Rewrite(RemoveAt(live, k),
             <<Event("replaced", live[k].address, live[m].address),
               Event("erased", live[k].address, NoAddress)>>, Speaks(live[m].address), {})
  /\ origin' = origin \union {<<live[k].id, live[m].id>>}

\* The values that replace its results are arguments of a block.
ReplaceByValues == Running /\ \E k \in DOMAIN live :
  /\ Rewrite(RemoveAt(live, k),
             <<Event("replaced", live[k].address, NoAddress),
               Event("erased", live[k].address, NoAddress)>>, {}, {})
  /\ UNCHANGED origin

Modify == Running /\ \E k \in DOMAIN live, n \in BOOLEAN :
  /\ ~IsReuse(k)
  /\ Rewrite([live EXCEPT ![k].op.attrs = IF @ = "0" THEN "1" ELSE "0"],
             Notified(n, <<Event("modified", live[k].address, NoAddress)>>),
             IF n THEN Speaks(live[k].address) ELSE {}, {})
  /\ UNCHANGED origin

\* A rewriter notifies of a move as of an insertion.
Move == Running /\ \E k \in 1 .. Len(live) - 1, n \in BOOLEAN :
  /\ Rewrite([live EXCEPT ![k] = live[k + 1], ![k + 1] = live[k]],
             Notified(n, <<Event("inserted", live[k].address, NoAddress)>>), {},
             IF n THEN {live[k].id} ELSE {})
  /\ UNCHANGED origin

Next ==
  \/ StartPass \/ EndPass \/ ChangeElsewhere
  \/ Create \/ Erase \/ Replace \/ ReplaceByValues \/ Modify \/ Move

Spec == Init /\ [][Next]_vars

-----------------------------------------------------------------------------
(* Properties of what Provenance makes of the timeline. *)

IdOf(o) == SnapshotAt(stages, o.snapshot).ids[o.ordinal]

\* What is shown as exact is true: the two ends are the same operation, or the one was
\* replaced by the other, wherever an address was used before.
ExactLinksAreLineage ==
  ~Running => \A r \in Range(Relations(stages)) :
    (r.exact /\ Joins(r)) =>
      IdOf(r.from) = IdOf(r.to) \/ <<IdOf(r.from), IdOf(r.to)>> \in origin

\* In a stage an operation has one successor; and it is matched only if no event and no
\* address says what became of it or where it came from, with one of the same name.
LinksAreFunctional ==
  ~Running => LET relations == Range(Relations(stages)) IN
    \A i \in DOMAIN stages :
      LET inStage == {r \in relations : r.stage = i /\ r.step}
          joined  == {r \in inStage : Joins(r)}
      IN /\ \A r, q \in joined : r.from = q.from => r.to = q.to
         /\ \A r \in {q \in inStage : ~q.exact} :
              /\ OperationOf(stages, r.from).name = OperationOf(stages, r.to).name
              /\ \A q \in inStage \ {r} : q.from # r.from /\ q.to # r.to

Follow(links, uids) ==
  LET linked == {r.from : r \in links} \union {r.to : r \in links}
  IN /\ \A r \in links : uids[r.from] = uids[r.to]
     /\ \A o \in DOMAIN uids \ linked : uids[o] = o
FollowLinks(resolved) ==
  Follow({r \in Range(resolved.relations) : Joins(r)}, resolved.uids)

\* The ends of every link have the same UID, and an occurrence without links its own.
UidsFollowLinks == ~Running => FollowLinks(Resolve(stages))

\* What is traced from o to p has one UID and one step for it.
Traced(o, p, resolved, steps) ==
  /\ resolved.uids[o] = resolved.uids[p]
  /\ Cardinality({n \in DOMAIN steps : steps[n].from = o /\ steps[n].to = p}) = 1

Survivors(resolved) ==
  \A i \in {j \in DOMAIN stages : stages[j].after # Missing} :
    \A k \in DOMAIN stages[i].before.ids, l \in DOMAIN stages[i].after.ids :
      (/\ stages[i].before.ids[k] = stages[i].after.ids[l]
       /\ stages[i].before.ids[k] \notin stages[i].moved) =>
        LET o == Occurrence(Before(i), k) IN
        Traced(o, Occurrence(After(i), l), resolved, History(resolved, resolved.uids[o]))

\* An operation that a pass leaves where it is keeps its UID, and its history has one
\* step for that pass, whatever became of other operations.
SurvivorsAreTraced == (~Running /\ fidelity = "full") => Survivors(Resolve(stages))
=============================================================================
