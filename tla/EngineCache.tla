------------------------------ MODULE EngineCache -----------------------------
(***************************************************************************)
(* EngineCache (crates/server/src/cache.rs): the four maps all handlers    *)
(* share, each behind a mutex of its own, and their operations.  Two are   *)
(* unbounded; the timelines and the resolved functions are evicted in      *)
(* order of use, one entry per action, the mutex being held by the handler *)
(* that inserted.                                                          *)
(*                                                                         *)
(* A parsed module is identified with the text it is parsed from.  A stage *)
(* of a timeline, and what resolve_function makes of it, is the pass and   *)
(* the text of each of its snapshots that has the function in it.          *)
(***************************************************************************)
EXTENDS Integers, Sequences, FiniteSets

CONSTANTS
  Functions,        \* names of functions
  NumPasses,        \* the passes of a trace are 1 .. NumPasses, by their start
  Blobs,            \* ids of snapshots
  Texts, NoText,    \* what a blob may hold; no module, no snapshot
  Chains,           \* Chains[f]: histories in the resolved function f
  TimelineCapacity, \* in functions
  ChainCapacity     \* in histories

ASSUME CacheAssumption ==
  /\ IsFiniteSet(Functions)
  /\ NumPasses \in Nat
  /\ NoText \notin Texts
  /\ Chains \in [Functions -> Nat]
  /\ TimelineCapacity \in Nat /\ ChainCapacity \in Nat

VARIABLES
  parsed,         \* parsed[blob], NoText when absent
  diffs,          \* diffs[<<before, after, function>>], <<>> when absent
  timelines,      \* timelines[function], <<>> when absent: none is ever empty
  timelineOrder,  \* least recently used first
  resolved,       \* resolved[function], <<>> when absent
  resolvedOrder,
  chainCount

parsedVars   == <<parsed, diffs>>
timelineVars == <<timelines, timelineOrder>>
resolvedVars == <<resolved, resolvedOrder, chainCount>>
cacheVars    == <<parsedVars, timelineVars, resolvedVars>>

Passes   == 1 .. NumPasses
Sides    == {"before", "after"}
OptTexts == Texts \union {NoText}
Stage    == [pass : Passes, text : [Sides -> OptTexts]]
DiffKeys == Blobs \X Blobs \X Functions

CacheTypeOK ==
  /\ parsed \in [Blobs -> OptTexts]
  /\ diffs \in [DiffKeys -> {<<>>} \union (OptTexts \X OptTexts)]
  /\ timelines \in [Functions -> Seq(Stage)]
  /\ timelineOrder \in Seq(Functions)
  /\ resolved \in [Functions -> Seq(Stage)]
  /\ resolvedOrder \in Seq(Functions)
  /\ chainCount \in Nat

CacheInit ==
  /\ parsed = [b \in Blobs |-> NoText]
  /\ diffs = [k \in DiffKeys |-> <<>>]
  /\ timelines = [f \in Functions |-> <<>>]
  /\ timelineOrder = <<>>
  /\ resolved = [f \in Functions |-> <<>>]
  /\ resolvedOrder = <<>>
  /\ chainCount = 0

Entries(cache) == {f \in Functions : cache[f] # <<>>}

\* Mutant of Touch: the previous position is kept as well.
TouchTwice(order, f) == Append(order, f)

\* The i-th smallest member of a set of numbers.
Nth(set, i) == CHOOSE p \in set : Cardinality({q \in set : q < p}) = i - 1

\* VecDeque::retain: the entries other than f, in their order.
Retain(order, f) ==
  LET kept == {i \in 1 .. Len(order) : order[i] # f}
  IN [n \in 1 .. Cardinality(kept) |-> order[Nth(kept, n)]]

Touch(order, f) == Append(Retain(order, f), f)

InsertParsed(b, text) == parsed' = [parsed EXCEPT ![b] = text] /\ UNCHANGED diffs
InsertDiff(key, texts) == diffs' = [diffs EXCEPT ![key] = texts] /\ UNCHANGED parsed

\* A lookup moves an entry that is there to the back of the order.
UseTimeline(f) ==
  /\ timelineOrder' = IF timelines[f] # <<>> THEN Touch(timelineOrder, f)
                      ELSE timelineOrder
  /\ UNCHANGED timelines

\* Mutant of InsertTimeline: a function that is inserted is not queued, and the
\* loop that evicts never finds it.
InsertUnqueued(f, stages) ==
  timelines' = [timelines EXCEPT ![f] = stages] /\ UNCHANGED timelineOrder

InsertTimeline(f, stages) ==
  /\ timelines' = [timelines EXCEPT ![f] = stages]
  /\ timelineOrder' = Touch(timelineOrder, f)

TimelinesOverflow == Cardinality(Entries(timelines)) > TimelineCapacity

\* The loop keeps looking for an entry when the order is empty.
EvictTimeline ==
  IF timelineOrder = <<>> THEN UNCHANGED timelineVars
  ELSE /\ timelines' = [timelines EXCEPT ![Head(timelineOrder)] = <<>>]
       /\ timelineOrder' = Tail(timelineOrder)

UseResolved(f) ==
  /\ resolvedOrder' = IF resolved[f] # <<>> THEN Touch(resolvedOrder, f)
                      ELSE resolvedOrder
  /\ UNCHANGED <<resolved, chainCount>>

SaturatingSub(a, b) == IF a > b THEN a - b ELSE 0

\* Mutant of WithoutPrevious: the chains of a replaced entry stay counted.
WithPrevious(f)    == chainCount
WithoutPrevious(f) ==
  IF resolved[f] # <<>> THEN SaturatingSub(chainCount, Chains[f]) ELSE chainCount

\* Mutant of InsertResolved: the entry it replaces is discounted twice, once as
\* replaced and once as evicted, by a subtraction that does not saturate.
InsertSubtracting(f, stages) ==
  /\ resolved' = [resolved EXCEPT ![f] = stages]
  /\ chainCount' = chainCount - (IF resolved[f] # <<>> THEN 2 * Chains[f] ELSE 0) + Chains[f]
  /\ resolvedOrder' = Touch(resolvedOrder, f)

InsertResolved(f, stages) ==
  /\ resolved' = [resolved EXCEPT ![f] = stages]
  /\ chainCount' = WithoutPrevious(f) + Chains[f]
  /\ resolvedOrder' = Touch(resolvedOrder, f)

\* Mutant of ResolvedOverflow: nothing keeps the last entry.
ResolvedOverflowToLast == chainCount > ChainCapacity /\ resolvedOrder # <<>>

ResolvedOverflow ==
  /\ chainCount > ChainCapacity
  /\ Cardinality(Entries(resolved)) > 1
  /\ resolvedOrder # <<>>

EvictResolved ==
  LET f == Head(resolvedOrder) IN
  /\ resolved' = [resolved EXCEPT ![f] = <<>>]
  /\ chainCount' = WithoutPrevious(f)
  /\ resolvedOrder' = Tail(resolvedOrder)
=============================================================================
