----------------------------- MODULE ServerProofs -----------------------------
(***************************************************************************)
(* Proofs about Server, for any number of clients, functions, passes and   *)
(* blobs, any requests and any capacities: types, the bookkeeping of the   *)
(* two caches that evict, what evictions spare, and what is answered.      *)
(***************************************************************************)
EXTENDS Server, FiniteSetTheorems, FunctionTheorems, SequenceTheorems, TLAPS

\* The members of a set of numbers below p.
Rank(set, p) == Cardinality({q \in set : q < p})

\* The members of a finite set are numbered by how many are smaller.
LEMMA RankGrows ==
  ASSUME NEW K, K \in SUBSET Nat, IsFiniteSet(K)
  PROVE  /\ Cardinality(K) \in Nat
         /\ \A p \in K : Rank(K, p) \in 0 .. Cardinality(K) - 1
         /\ \A p, r \in K : p < r => Rank(K, p) < Rank(K, r)
<1> DEFINE Below(r) == {q \in K : q < r}
<1>1. \A r \in K : IsFiniteSet(Below(r)) /\ Cardinality(Below(r)) \in Nat
  BY FS_Subset, FS_CardinalityType
<1>2. ASSUME NEW p \in K, NEW S, IsFiniteSet(S), Below(p) \subseteq S, p \in S
      PROVE  Cardinality(Below(p)) < Cardinality(S)
  <2>1. Below(p) # S
    BY <1>2
  <2>2. Cardinality(Below(p)) <= Cardinality(S) /\ Cardinality(Below(p)) # Cardinality(S)
    BY <1>2, <2>1, FS_Subset
  <2> QED BY <1>1, <1>2, <2>2, FS_CardinalityType
<1>3. Cardinality(K) \in Nat
  BY FS_CardinalityType
<1>4. ASSUME NEW p \in K PROVE Cardinality(Below(p)) \in 0 .. Cardinality(K) - 1
  BY <1>1, <1>2, <1>3
<1>5. ASSUME NEW p \in K, NEW r \in K, p < r
      PROVE  Cardinality(Below(p)) < Cardinality(Below(r))
  <2>1. ASSUME NEW q \in K, q < p PROVE q < r
    <3>1. p \in Int /\ q \in Int /\ r \in Int
      OBVIOUS
    <3> QED BY <3>1, <2>1, <1>5
  <2> QED BY <1>1, <1>2, <1>5, <2>1
<1> QED BY <1>3, <1>4, <1>5 DEF Rank

\* No two members have the same number.
LEMMA RankInjective ==
  ASSUME NEW K, K \in SUBSET Nat, IsFiniteSet(K), NEW p \in K, NEW r \in K,
         Rank(K, p) = Rank(K, r)
  PROVE  p = r
<1>1. p \in Int /\ r \in Int
  OBVIOUS
<1>2. Rank(K, p) \in 0 .. Cardinality(K) - 1 /\ Rank(K, r) \in 0 .. Cardinality(K) - 1
  BY RankGrows
<1>3. p < r => Rank(K, p) < Rank(K, r)
  BY RankGrows
<1>4. r < p => Rank(K, r) < Rank(K, p)
  BY RankGrows
<1>5. ~(p < r) /\ ~(r < p)
  BY <1>2, <1>3, <1>4
<1> QED BY <1>1, <1>5

\* Nth finds what it looks for: numbering is injective, hence onto (no induction needed).
LEMMA NthFacts ==
  ASSUME NEW K, K \in SUBSET Nat, IsFiniteSet(K), NEW i \in 1 .. Cardinality(K)
  PROVE  Nth(K, i) \in K /\ Rank(K, Nth(K, i)) = i - 1
<1> DEFINE n == Cardinality(K)
           rank == [p \in K |-> Rank(K, p) + 1]
<1>1. n \in Nat /\ \A p \in K : Rank(K, p) \in 0 .. n - 1
  BY RankGrows
<1>2. rank \in [K -> 1 .. n]
  BY <1>1
<1>3. rank \in Injection(K, 1 .. n)
  <2>1. ASSUME NEW p \in K, NEW r \in K, rank[p] = rank[r] PROVE p = r
    <3>1. Rank(K, p) = Rank(K, r)
      BY <2>1, <1>1
    <3> QED BY <3>1, RankInjective
  <2> QED BY <1>2, <2>1 DEF Injection, IsInjective
<1>4. IsFiniteSet(1 .. n) /\ Cardinality(1 .. n) = n
  BY <1>1, FS_Interval
<1>5. rank \in Surjection(K, 1 .. n)
  <2> HIDE DEF rank
  <2> QED BY <1>3, <1>4, FS_Injection
<1>6. \E p \in K : Rank(K, p) = i - 1
  <2>1. PICK p \in K : rank[p] = i
    BY <1>5 DEF Surjection
  <2> QED BY <1>1, <2>1
<1> QED BY <1>6 DEF Nth, Rank

\* Nth does not repeat a member ...
LEMMA NthInjective ==
  ASSUME NEW K, K \in SUBSET Nat, IsFiniteSet(K),
         NEW i \in 1 .. Cardinality(K), NEW j \in 1 .. Cardinality(K), Nth(K, i) = Nth(K, j)
  PROVE  i = j
<1>1. Cardinality(K) \in Nat
  BY FS_CardinalityType
<1>2. i - 1 = j - 1
  BY NthFacts
<1> QED BY <1>1, <1>2

\* ... and misses none.
LEMMA NthOnto ==
  ASSUME NEW K, K \in SUBSET Nat, IsFiniteSet(K), NEW p \in K
  PROVE  \E i \in 1 .. Cardinality(K) : Nth(K, i) = p
<1> DEFINE i == Rank(K, p) + 1
<1>1. i \in 1 .. Cardinality(K) /\ i - 1 = Rank(K, p)
  <2>1. Cardinality(K) \in Nat /\ Rank(K, p) \in 0 .. Cardinality(K) - 1
    BY RankGrows
  <2> QED BY <2>1
<1> HIDE DEF i
<1>2. Nth(K, i) \in K /\ Rank(K, Nth(K, i)) = Rank(K, p)
  BY <1>1, NthFacts
<1> QED BY <1>1, <1>2, RankInjective

-----------------------------------------------------------------------------
(* Queues.                                                                  *)

\* The key of a diff, put together from its parts.
LEMMA PairWith ==
  ASSUME NEW a, NEW b, NEW c
  PROVE  <<a, b>> \o <<c>> = <<a, b, c>>
<1> DEFINE S == {a, b, c}
<1>1. <<a, b>> \in Seq(S) /\ <<c>> \in Seq(S) /\ <<a, b, c>> \in Seq(S)
  OBVIOUS
<1>2. Len(<<a, b>>) = 2 /\ Len(<<c>>) = 1 /\ Len(<<a, b, c>>) = 3
  OBVIOUS
<1>2a. \A i \in 1 .. 3 : i = 1 \/ i = 2 \/ i = 3
  OBVIOUS
<1>3. /\ <<a, b>> \o <<c>> \in Seq(S) /\ Len(<<a, b>> \o <<c>>) = 3
      /\ (<<a, b>> \o <<c>>)[1] = a /\ (<<a, b>> \o <<c>>)[2] = b /\ (<<a, b>> \o <<c>>)[3] = c
  BY <1>1, <1>2, ConcatProperties
<1>4. \A i \in 1 .. 3 : (<<a, b>> \o <<c>>)[i] = <<a, b, c>>[i]
  BY <1>3, <1>2a
<1> HIDE DEF S
<1> QED BY <1>1, <1>2, <1>3, <1>4, SeqEqual

\* A diff is a sequence of two texts.
LEMMA PairIsSeq ==
  ASSUME NEW S, NEW x \in S \X S
  PROVE  x \in Seq(S)
<1>1. PICK a \in S, b \in S : x = <<a, b>>
  OBVIOUS
<1> QED BY <1>1
\* A queue that lists the members of E, each once.
Orders(s, E) ==
  /\ s \in Seq(Functions)
  /\ \A i \in 1 .. Len(s) : s[i] \in E
  /\ \A f \in E : \E i \in 1 .. Len(s) : s[i] = f
  /\ \A i, j \in 1 .. Len(s) : s[i] = s[j] => i = j

\* Such a queue of the entries of a cache is as long as they are many.
LEMMA OrderLists ==
  ASSUME NEW order, NEW cache, Orders(order, Entries(cache))
  PROVE  /\ Lists(order, cache)
         /\ order = <<>> => Cardinality(Entries(cache)) = 0
<1> DEFINE E == Entries(cache)
<1>1. order \in [1 .. Len(order) -> E] /\ Len(order) \in Nat
  BY LenProperties DEF Orders
<1>2. order \in Bijection(1 .. Len(order), E)
  BY <1>1, Fun_IsBij DEF Orders
<1>3. Cardinality(E) = Len(order)
  BY <1>1, <1>2, FS_CountingElements DEF ExistsBijection
<1>4. {order[i] : i \in 1 .. Len(order)} = E
  BY DEF Orders
<1> QED BY <1>3, <1>4 DEF Lists

\* Where the entries other than f are.
Places(s, f) == {i \in 1 .. Len(s) : s[i] # f}

\* What VecDeque::retain makes of a queue.
LEMMA RetainFacts ==
  ASSUME NEW s \in Seq(Functions), NEW f
  PROVE  /\ Places(s, f) \in SUBSET Nat /\ IsFiniteSet(Places(s, f))
         /\ \A n \in 1 .. Cardinality(Places(s, f)) : Nth(Places(s, f), n) \in Places(s, f)
         /\ Retain(s, f) \in Seq(Functions)
         /\ Len(Retain(s, f)) = Cardinality(Places(s, f))
         /\ \A n \in 1 .. Len(Retain(s, f)) : Retain(s, f)[n] = s[Nth(Places(s, f), n)]
<1> DEFINE kept == Places(s, f)
<1>1. Len(s) \in Nat /\ \A i \in 1 .. Len(s) : s[i] \in Functions
  BY LenProperties
<1>2. kept \in SUBSET Nat /\ IsFiniteSet(kept) /\ Cardinality(kept) \in Nat
  <2>1. IsFiniteSet(1 .. Len(s)) /\ kept \in SUBSET (1 .. Len(s))
    BY <1>1, FS_Interval DEF Places
  <2>2. IsFiniteSet(kept)
    BY <2>1, FS_Subset
  <2> QED BY <1>1, <2>1, <2>2, FS_CardinalityType
<1>3. Retain(s, f) = [n \in 1 .. Cardinality(kept) |-> s[Nth(kept, n)]]
  BY DEF Retain, Places
<1> HIDE DEF kept
<1>4. \A n \in 1 .. Cardinality(kept) : Nth(kept, n) \in kept
  BY <1>2, NthFacts
<1>5. \A n \in 1 .. Cardinality(kept) : s[Nth(kept, n)] \in Functions
  BY <1>1, <1>4 DEF Places, kept
<1>6. Retain(s, f) \in Seq(Functions) /\ Len(Retain(s, f)) = Cardinality(kept)
  BY <1>2, <1>3, <1>5
<1>7. \A n \in 1 .. Len(Retain(s, f)) : Retain(s, f)[n] = s[Nth(kept, n)]
  BY <1>3, <1>6
<1> QED BY <1>2, <1>4, <1>6, <1>7 DEF kept

\* An entry that is moved to the back stays a function.
LEMMA TouchType ==
  ASSUME NEW s \in Seq(Functions), NEW f \in Functions
  PROVE  Touch(s, f) \in Seq(Functions)
BY RetainFacts, AppendProperties DEF Touch

\* Removing an entry from a queue loses and repeats no other.
LEMMA RetainOrder ==
  ASSUME NEW E, NEW s, Orders(s, E), NEW f
  PROVE  Orders(Retain(s, f), E \ {f})
<1> DEFINE kept == Places(s, f)
           t == Retain(s, f)
<1>1. /\ kept \in SUBSET Nat /\ IsFiniteSet(kept)
      /\ \A n \in 1 .. Cardinality(kept) : Nth(kept, n) \in kept
      /\ t \in Seq(Functions) /\ Len(t) = Cardinality(kept)
      /\ \A n \in 1 .. Len(t) : t[n] = s[Nth(kept, n)]
  BY RetainFacts DEF Orders
<1>2. \A i \in kept : i \in 1 .. Len(s) /\ s[i] # f
  BY DEF Places
<1>3. \A n \in 1 .. Len(t) : t[n] \in E \ {f}
  BY <1>1, <1>2 DEF Orders
<1>4. ASSUME NEW g \in E \ {f} PROVE \E n \in 1 .. Len(t) : t[n] = g
  <2>1. PICK i \in kept : s[i] = g
    BY DEF Orders, Places
  <2>2. PICK n \in 1 .. Cardinality(kept) : Nth(kept, n) = i
    BY <1>1, NthOnto
  <2> QED BY <1>1, <2>1, <2>2
<1>5. ASSUME NEW m \in 1 .. Len(t), NEW n \in 1 .. Len(t), t[m] = t[n] PROVE m = n
  <2>1. Nth(kept, m) = Nth(kept, n)
    BY <1>1, <1>2, <1>5 DEF Orders
  <2> QED BY <1>1, <2>1, NthInjective
<1> QED BY <1>1, <1>3, <1>4, <1>5 DEF Orders

\* Moving or adding an entry makes it the last, and the queue still lists each once.
LEMMA TouchOrder ==
  ASSUME NEW E, NEW s, Orders(s, E), NEW f \in Functions
  PROVE  /\ Orders(Touch(s, f), E \union {f})
         /\ Touch(s, f) # <<>> /\ Touch(s, f)[Len(Touch(s, f))] = f
<1> DEFINE r == Retain(s, f)
           t == Append(r, f)
<1>1. Orders(r, E \ {f})
  BY RetainOrder
<1> HIDE DEF r
<1>2. /\ r \in Seq(Functions) /\ Len(r) \in Nat
      /\ t \in Seq(Functions) /\ t # <<>> /\ Len(t) = Len(r) + 1
      /\ \A i \in 1 .. Len(r) : t[i] = r[i]
      /\ t[Len(r) + 1] = f
  BY <1>1, AppendProperties, LenProperties DEF Orders
<1> HIDE DEF t
<1>3. \A i \in 1 .. Len(t) : i \in 1 .. Len(r) \/ i = Len(r) + 1
  BY <1>2
<1>4. \A i \in 1 .. Len(t) : t[i] \in E \union {f}
  BY <1>1, <1>2, <1>3 DEF Orders
<1>5. ASSUME NEW g \in E \union {f} PROVE \E i \in 1 .. Len(t) : t[i] = g
  <2>1. CASE g = f
    BY <1>2, <2>1
  <2>2. CASE g # f
    <3>1. PICK i \in 1 .. Len(r) : r[i] = g
      BY <1>1, <2>2 DEF Orders
    <3> QED BY <1>2, <3>1
  <2> QED BY <2>1, <2>2
<1>6. ASSUME NEW i \in 1 .. Len(t), NEW j \in 1 .. Len(t), t[i] = t[j] PROVE i = j
  <2>1. \A k \in 1 .. Len(r) : r[k] # f
    BY <1>1 DEF Orders
  <2> QED BY <1>1, <1>2, <1>3, <1>6, <2>1 DEF Orders
<1> QED BY <1>2, <1>4, <1>5, <1>6 DEF Orders, Touch, r, t

\* Taking the first entry off spares the last of several.
LEMMA TailOrder ==
  ASSUME NEW E, NEW s, Orders(s, E), s # <<>>
  PROVE  /\ Head(s) \in Functions /\ Head(s) \in E /\ Len(s) >= 1
         /\ Orders(Tail(s), E \ {Head(s)})
         /\ Len(s) > 1 => /\ Tail(s) # <<>> /\ Tail(s)[Len(Tail(s))] = s[Len(s)]
                          /\ Head(s) # s[Len(s)]
<1> DEFINE t == Tail(s)
<1>1. /\ s \in Seq(Functions) /\ Len(s) \in Nat /\ Len(s) >= 1
      /\ t \in Seq(Functions) /\ Len(t) = Len(s) - 1
      /\ \A i \in 1 .. Len(t) : t[i] = s[i + 1]
      /\ Head(s) = s[1]
  BY HeadTailProperties, EmptySeq, LenProperties DEF Orders
<1> HIDE DEF t
<1>2. \A i \in 1 .. Len(t) : t[i] \in E \ {Head(s)}
  BY <1>1 DEF Orders
<1>3. ASSUME NEW g \in E \ {Head(s)} PROVE \E i \in 1 .. Len(t) : t[i] = g
  <2>1. PICK i \in 1 .. Len(s) : s[i] = g
    BY DEF Orders
  <2>2. i - 1 \in 1 .. Len(t) /\ t[i - 1] = s[i]
    BY <1>1, <2>1
  <2> QED BY <2>1, <2>2
<1>4. ASSUME NEW i \in 1 .. Len(t), NEW j \in 1 .. Len(t), t[i] = t[j] PROVE i = j
  <2>1. i + 1 \in 1 .. Len(s) /\ j + 1 \in 1 .. Len(s) /\ s[i + 1] = s[j + 1]
    BY <1>1, <1>4
  <2>2. i + 1 = j + 1
    BY <2>1 DEF Orders
  <2> QED BY <2>2
<1>5. Orders(t, E \ {Head(s)})
  BY <1>1, <1>2, <1>3, <1>4 DEF Orders
<1>6. Head(s) \in Functions /\ Head(s) \in E
  BY <1>1 DEF Orders
<1>7. ASSUME Len(s) > 1 PROVE t # <<>> /\ t[Len(t)] = s[Len(s)] /\ Head(s) # s[Len(s)]
  <2>1. Len(t) \in 1 .. Len(t) /\ Len(t) + 1 = Len(s) /\ Len(t) # 0
    BY <1>1, <1>7
  <2>2. t # <<>>
    BY <2>1
  <2>3. s[1] # s[Len(s)]
    BY <1>1, <1>7 DEF Orders
  <2> QED BY <1>1, <2>1, <2>2, <2>3
<1> QED BY <1>1, <1>5, <1>6, <1>7 DEF t

-----------------------------------------------------------------------------
(* Types.                                                                   *)

\* The requests that consult provenance, and the steps they take.
ProvenanceKinds == {"graph", "graphDiff", "ops", "history"}
ProvenanceSteps == Steps \ {"idle", "parse", "diff"}

\* What the program counter of a handler says of its local state.
HandlerOK(h) ==
  /\ h.filling => h.step \in {"parse", "build"} /\ h.todo # {}
  /\ h.step \notin {"parse", "build"} => h.todo = {}
  /\ h.step # "idle" => Refusal(h.request, h.reader) = "none"
  /\ h.step = "diff" => h.request.kind = "diff"
  /\ h.step \in ProvenanceSteps => h.request.kind \in ProvenanceKinds
  /\ h.step \in {"putTimeline", "evictTimelines", "resolve"} => h.timeline # <<>>
  /\ h.step \in {"evictResolved", "respond"} => h.resolved # <<>>

HandlersOK == \A c \in Clients : HandlerOK(handler[c])

\* The snapshots of a recorded pass are blobs or absent.
LEMMA TraceFacts ==
  ASSUME NEW tr \in Trace, NEW p \in Passes
  PROVE  /\ \A side \in Sides : tr.snapshot[p][side] \in OptBlobs
         /\ Snapshots(p, tr) \subseteq Blobs
         /\ \A side \in Sides : tr.snapshot[p][side] # NoBlob
                                   => tr.snapshot[p][side] \in Snapshots(p, tr)
BY DEF Trace, Sides, OptBlobs, Snapshots

\* A graph that is not refused has a snapshot to show.
LEMMA GraphSideFacts ==
  ASSUME NEW tr \in Trace, NEW r \in Request
  PROVE  /\ GraphSide(r, tr) \in Sides
         /\ Refusal(r, tr) = "none" /\ r.kind = "graph" => Blob(r, tr, GraphSide(r, tr)) \in Blobs
<1>1. r.pass \in Passes
  BY DEF Request
<1>2. GraphSide(r, tr) \in Sides
  BY DEF GraphSide, Sides
<1>3. ASSUME Refusal(r, tr) = "none", r.kind = "graph"
      PROVE  Blob(r, tr, GraphSide(r, tr)) # NoBlob
  <2>1. Snapshots(r.pass, tr) # {}
    BY <1>3 DEF Refusal
  <2> QED BY <2>1 DEF GraphSide, Blob, Snapshots, Sides
<1> QED BY <1>1, <1>2, <1>3, TraceFacts DEF Blob, OptBlobs

\* Only snapshots that exist are parsed.
LEMMA ToShowFacts ==
  ASSUME NEW tr \in Trace, NEW r \in Request, Refusal(r, tr) = "none"
  PROVE  BlobsToShow(r, tr) \subseteq Blobs
<1>1. r.pass \in Passes /\ r.kind \in Kinds
  BY DEF Request
<1> QED BY <1>1, TraceFacts, GraphSideFacts DEF BlobsToShow, Kinds

Modules == [Blobs -> OptTexts]

\* What a side of a pass shows of a function.
LEMMA ScopeType ==
  ASSUME NEW tr \in Trace, NEW module \in Modules, NEW f \in Functions, NEW p \in Passes,
         NEW side \in Sides
  PROVE  /\ TextOf(module, tr.snapshot[p][side]) \in OptTexts
         /\ ScopeText(f, tr, module, p, side) \in OptTexts
<1>1. TextOf(module, tr.snapshot[p][side]) \in OptTexts
  BY TraceFacts, ServerAssumption DEF TextOf, Modules, OptBlobs, OptTexts
<1> QED BY <1>1 DEF ScopeText, OptTexts

\* What is shown is a text or none for each side.
LEMMA ShownType ==
  ASSUME NEW tr \in Trace, NEW module \in Modules, NEW r \in Request
  PROVE  /\ Shown(r, tr, module) \in Seq(OptTexts)
         /\ r.kind \in {"diff", "graphDiff"} => Shown(r, tr, module) \in OptTexts \X OptTexts
<1> DEFINE scope(side) == ScopeText(r.function, tr, module, r.pass, side)
<1>1. r.pass \in Passes /\ r.function \in Functions /\ r.kind \in Kinds
  BY DEF Request
<1>2. \A side \in Sides : scope(side) \in OptTexts
  BY <1>1, ScopeType
<1>3. GraphSide(r, tr) \in Sides /\ "before" \in Sides /\ "after" \in Sides
  BY GraphSideFacts DEF Sides
<1>4. CASE r.kind = "functions"
  <2>1. \A i \in 1 .. 2 : TextOf(module, Both(r, tr)[i]) \in OptTexts
    <3>1. /\ TextOf(module, tr.snapshot[r.pass]["before"]) \in OptTexts
          /\ TextOf(module, tr.snapshot[r.pass]["after"]) \in OptTexts
      BY <1>1, <1>3, ScopeType
    <3> QED BY <3>1 DEF Both, Blob
  <2>2. [i \in 1 .. 2 |-> TextOf(module, Both(r, tr)[i])] \in Seq(OptTexts)
    BY <2>1
  <2> QED BY <1>4, <2>2 DEF Shown
<1>5. CASE r.kind = "graph"
  <2>1. Shown(r, tr, module) = <<scope(GraphSide(r, tr))>>
    BY <1>5 DEF Shown
  <2> HIDE DEF scope
  <2> QED BY <1>2, <1>3, <1>5, <2>1
<1>6. CASE r.kind \notin {"functions", "graph"}
  <2>1. Shown(r, tr, module) = <<scope("before"), scope("after")>>
    BY <1>6 DEF Shown
  <2> HIDE DEF scope
  <2> QED BY <1>2, <1>3, <1>6, <2>1
<1> QED BY <1>4, <1>5, <1>6

\* The passes of a timeline are finitely many numbers.
LEMMA StagePassesFacts ==
  ASSUME NEW tr \in Trace, NEW module, NEW f
  PROVE  /\ StagePasses(f, tr, module) \in SUBSET Passes
         /\ StagePasses(f, tr, module) \in SUBSET Nat
         /\ IsFiniteSet(StagePasses(f, tr, module))
         /\ Cardinality(StagePasses(f, tr, module)) \in Nat
<1>1. StagePasses(f, tr, module) \in SUBSET Passes
  BY DEF StagePasses, Trace
<1>2. IsFiniteSet(Passes) /\ Passes \in SUBSET Nat
  BY CacheAssumption, FS_Interval DEF Passes
<1> QED BY <1>1, <1>2, FS_Subset, FS_CardinalityType

\* build_timeline makes stages.
LEMMA TimelineType ==
  ASSUME NEW tr \in Trace, NEW module \in Modules, NEW f \in Functions
  PROVE  Timeline(f, tr, module) \in Seq(Stage)
<1> DEFINE passes == StagePasses(f, tr, module)
           stage(i) == [pass |-> Nth(passes, i),
                        text |-> [side \in Sides |->
                                    ScopeText(f, tr, module, Nth(passes, i), side)]]
<1>1. passes \in SUBSET Passes /\ passes \in SUBSET Nat /\ IsFiniteSet(passes)
      /\ Cardinality(passes) \in Nat
  BY StagePassesFacts
<1>2. ASSUME NEW i \in 1 .. Cardinality(passes) PROVE stage(i) \in Stage
  <2>1. Nth(passes, i) \in Passes
    <3> HIDE DEF passes
    <3> QED BY <1>1, NthFacts
  <2>2. \A side \in Sides : ScopeText(f, tr, module, Nth(passes, i), side) \in OptTexts
    BY <2>1, ScopeType
  <2> QED BY <2>1, <2>2 DEF Stage
<1>3. Timeline(f, tr, module) = [i \in 1 .. Cardinality(passes) |-> stage(i)]
  BY DEF Timeline
<1> HIDE DEF passes, stage
<1> QED BY <1>1, <1>2, <1>3

\* An occurrence resolves to a text or to none.
LEMMA ResolvedTextType ==
  ASSUME NEW stages \in Seq(Stage), NEW i, NEW side \in Sides
  PROVE  ResolvedText(stages, i, side) \in OptTexts
<1>1. ASSUME i \in 1 .. Len(stages) PROVE stages[i].text[side] \in OptTexts
  <2>1. stages[i] \in Stage
    BY <1>1, ElementOfSeq
  <2> QED BY <2>1 DEF Stage
<1> QED BY <1>1 DEF ResolvedText, OptTexts

\* The answers that need provenance.
LEMMA ProvenanceAnswerType ==
  ASSUME NEW tr \in Trace, NEW module \in Modules, NEW r \in Request,
         NEW stages \in Seq(Stage), NEW res \in Seq(Stage)
  PROVE  ProvenanceAnswer(r, tr, module, stages, res) \in Answer
<1> DEFINE uid(side) == IF StageIndex(stages, r.pass) = {} THEN NoText
                        ELSE ResolvedText(res, CHOOSE i \in StageIndex(stages, r.pass) : TRUE,
                                          side)
<1>1. \A side \in Sides : uid(side) \in OptTexts
  BY ResolvedTextType DEF OptTexts
<1>2. GraphSide(r, tr) \in Sides /\ "before" \in Sides /\ "after" \in Sides /\ r.side \in Sides
  BY GraphSideFacts DEF Sides, Request
<1>3. Uids(r, tr, stages, res) \in Seq(OptTexts)
  <2>1. Uids(r, tr, stages, res) \in {<<uid(GraphSide(r, tr))>>, <<uid("before"), uid("after")>>}
    BY DEF Uids
  <2> HIDE DEF uid
  <2>2. <<uid(GraphSide(r, tr))>> \in Seq(OptTexts) /\ <<uid("before"), uid("after")>> \in Seq(OptTexts)
    BY <1>1, <1>2
  <2> QED BY <2>1, <2>2
<1>4. Shown(r, tr, module) \o Uids(r, tr, stages, res) \in Seq(OptTexts)
  BY <1>3, ShownType, ConcatProperties
<1>5. NotFound \in Answer
  BY DEF NotFound, Answer
<1>6. \A body \in Seq(OptTexts) \union Seq(Stage) : Ok(body) \in Answer
  BY DEF Ok, Answer
<1>7. OpsAnswer(r, stages, res) \in Answer
  <2> DEFINE t == ResolvedText(res, CHOOSE i \in StageIndex(stages, r.pass) : TRUE, r.side)
  <2>1. t \in OptTexts
    BY <1>2, ResolvedTextType
  <2>2. OpsAnswer(r, stages, res) \in {Ok(<<t>>), NotFound}
    BY DEF OpsAnswer
  <2> HIDE DEF t
  <2>3. <<t>> \in Seq(OptTexts)
    BY <2>1
  <2> QED BY <1>5, <1>6, <2>2, <2>3
<1> QED BY <1>4, <1>5, <1>6, <1>7 DEF ProvenanceAnswer

TypeInv == ServerTypeOK /\ HandlersOK

\* It suffices to look at the handler that moves and at the caches.
LEMMA HandlerStep ==
  ASSUME TypeInv, NEW c \in Clients, NEW h \in Handler, HandlerOK(h),
         handler' = [handler EXCEPT ![c] = h], trace' \in Traces, CacheTypeOK'
  PROVE  TypeInv'
<1>1. handler' \in [Clients -> Handler]
  BY DEF TypeInv, ServerTypeOK
<1>2. \A d \in Clients : HandlerOK(handler'[d])
  BY DEF TypeInv, ServerTypeOK, HandlersOK
<1> QED BY <1>1, <1>2 DEF TypeInv, ServerTypeOK, HandlersOK

\* What a step leaves alone keeps its type.
LEMMA Kept ==
  ASSUME TypeInv
  PROVE  /\ UNCHANGED trace => trace' \in Traces
         /\ UNCHANGED cacheVars => CacheTypeOK'
BY DEF TypeInv, ServerTypeOK, CacheTypeOK, cacheVars, parsedVars, timelineVars, resolvedVars

\* The types that the steps of a handler rely on.
LEMMA ClientFacts ==
  ASSUME TypeInv, NEW c \in Clients
  PROVE  /\ handler[c] \in Handler /\ HandlerOK(handler[c])
         /\ F(c) \in Functions
         /\ handler[c].request \in Request /\ handler[c].request.function = F(c)
         /\ handler[c].reader \in Trace
         /\ handler[c].module \in Modules
         /\ CacheTypeOK
         /\ trace \in Traces /\ trace \in Trace
<1>1. handler[c] \in Handler
  BY DEF TypeInv, ServerTypeOK
<1> QED BY <1>1, ServerAssumption DEF TypeInv, HandlersOK, ServerTypeOK, Handler, F, Request, Modules

\* A handler that has answered is idle.
LEMMA ReplyOK ==
  ASSUME NEW h \in Handler, h.step # "idle", NEW answer \in Answer, h.todo = {}, ~h.filling
  PROVE  LET g == [h EXCEPT !.step = "idle", !.answer = answer, !.module = NoModules,
                            !.timeline = <<>>, !.resolved = <<>>]
         IN  g \in Handler /\ HandlerOK(g)
<1>1. NoModules \in [Blobs -> OptTexts] /\ <<>> \in Seq(Stage) /\ "idle" \in Steps
  BY DEF NoModules, OptTexts, Steps
<1> QED BY <1>1 DEF Handler, HandlerOK, ProvenanceSteps

\* Responding keeps the types.
LEMMA RespondOK ==
  ASSUME TypeInv, NEW c \in Clients, handler[c].step # "idle",
         NEW answer \in Answer, handler[c].todo = {},
         Respond(c, answer), UNCHANGED trace, CacheTypeOK'
  PROVE  TypeInv'
<1> DEFINE g == [handler[c] EXCEPT !.step = "idle", !.answer = answer, !.module = NoModules,
                                   !.timeline = <<>>, !.resolved = <<>>]
<1>1. g \in Handler /\ HandlerOK(g)
  <2>1. ~handler[c].filling
    BY ClientFacts DEF HandlerOK, Handler
  <2> QED BY <2>1, ClientFacts, ReplyOK
<1>2. handler' = [handler EXCEPT ![c] = g]
  BY DEF Respond
<1> HIDE DEF g
<1> QED BY <1>1, <1>2, Kept, HandlerStep

\* Every cache is empty and every client idle at the start.
LEMMA InitType == Init => TypeInv
<1> SUFFICES ASSUME Init PROVE TypeInv
  OBVIOUS
<1>1. CacheTypeOK
  BY DEF Init, CacheInit, CacheTypeOK, OptTexts
<1>2. (CHOOSE r \in Requests : TRUE) \in Request /\ trace \in Trace /\ trace \in Traces
  BY ServerAssumption DEF Init
<1>3. NoModules \in [Blobs -> OptTexts] /\ NoAnswer \in Answer
  BY DEF NoModules, OptTexts, NoAnswer, Answer
<1>4. \A c \in Clients : handler[c] \in Handler /\ HandlerOK(handler[c])
  <2> TAKE c \in Clients
  <2>1. handler[c] \in [step : {"idle"}, request : {CHOOSE r \in Requests : TRUE},
                        reader : {trace}, todo : {{}}, filling : {FALSE},
                        module : {NoModules}, timeline : {<<>>},
                        resolved : {<<>>}, answer : {NoAnswer}]
    BY DEF Init
  <2>2. handler[c] \in Handler
    <3>1. "idle" \in Steps /\ <<>> \in Seq(Stage) /\ {} \in SUBSET Blobs /\ FALSE \in BOOLEAN
      BY DEF Steps
    <3> HIDE DEF NoModules, NoAnswer
    <3> QED BY <1>2, <1>3, <2>1, <3>1 DEF Handler
  <2>3. HandlerOK(handler[c])
    BY <2>1 DEF HandlerOK, ProvenanceSteps
  <2> QED BY <2>2, <2>3
<1>5. handler \in [Clients -> Handler]
  BY <1>4 DEF Init
<1> QED BY <1>1, <1>2, <1>4, <1>5 DEF TypeInv, ServerTypeOK, HandlersOK

\* A request is refused, or starts with the blobs to parse.
LEMMA ReceiveType ==
  ASSUME TypeInv, NEW c \in Clients, NEW r \in Requests, Receive(c, r)
  PROVE  TypeInv'
<1> DEFINE refusal == Refusal(r, trace)
           h == [handler[c] EXCEPT !.request = r, !.reader = trace]
           g == IF refusal # "none" THEN [h EXCEPT !.answer = [status |-> refusal, body |-> <<>>]]
                ELSE [h EXCEPT !.step = "parse", !.todo = BlobsToShow(r, trace),
                               !.answer = NoAnswer]
<1>1. r \in Request /\ handler[c].step = "idle"
  BY ServerAssumption DEF Receive, At
<1>2. refusal \in {"none", "conflict", "not found"}
  BY DEF Refusal
<1>3. refusal = "none" => BlobsToShow(r, trace) \subseteq Blobs
  BY <1>1, ToShowFacts, ClientFacts
<1>4. ~handler[c].filling /\ handler[c].todo = {}
  BY <1>1, ClientFacts DEF HandlerOK, Handler
<1>5. NoAnswer \in Answer /\ (refusal # "none" => [status |-> refusal, body |-> <<>>] \in Answer)
  <2> HIDE DEF refusal
  <2>1. NoAnswer \in Answer
    BY DEF NoAnswer, Answer
  <2>2. <<>> \in Seq(OptTexts)
    OBVIOUS
  <2>3. ASSUME refusal # "none" PROVE [status |-> refusal, body |-> <<>>] \in Answer
    <3>1. refusal \in {"none", "ok", "not found", "conflict"}
      BY <1>2
    <3> QED BY <3>1, <2>2 DEF Answer
  <2> QED BY <2>1, <2>3
<1>6. g \in Handler
  <2> HIDE DEF refusal
  <2> QED BY <1>1, <1>3, <1>5, ClientFacts DEF Handler, Steps
<1>7. HandlerOK(g)
  BY <1>1, <1>3, <1>4, <1>6, ClientFacts DEF HandlerOK, ProvenanceSteps, Handler
<1>8. handler' = [handler EXCEPT ![c] = g] /\ UNCHANGED <<cacheVars, trace>>
  BY DEF Receive
<1> HIDE DEF g
<1> QED BY <1>6, <1>7, <1>8, Kept, HandlerStep

\* Parsing takes blobs off the list, from the cache or from the file.
LEMMA ParseType ==
  ASSUME TypeInv, NEW c \in Clients, LookupParsed(c) \/ FillParsed(c)
  PROVE  TypeInv'
<1> DEFINE h == handler[c]
           b == NextBlob(c)
<1>1. h.step \in {"parse", "build"} /\ h.todo # {}
  BY ClientFacts DEF LookupParsed, FillParsed, HandlerOK
<1>2. b \in h.todo /\ b \in Blobs
  <2>1. b \in h.todo
    BY <1>1 DEF NextBlob
  <2> QED BY <2>1, ClientFacts DEF Handler
<1> HIDE DEF b
<1>3. ASSUME NEW t \in OptTexts PROVE Take(h, b, t) \in Handler /\ HandlerOK(Take(h, b, t))
  <2>1. Take(h, b, t) \in Handler
    BY <1>2, ClientFacts DEF Take, Handler
  <2> QED BY <1>1, <2>1, ClientFacts DEF Take, HandlerOK, Handler, ProvenanceSteps
<1>4. CASE LookupParsed(c)
  <2> DEFINE g == IF parsed[b] # NoText THEN Take(h, b, parsed[b]) ELSE [h EXCEPT !.filling = TRUE]
  <2>1. parsed[b] \in OptTexts
    BY <1>2, ClientFacts DEF CacheTypeOK
  <2>2. [h EXCEPT !.filling = TRUE] \in Handler /\ HandlerOK([h EXCEPT !.filling = TRUE])
    BY <1>1, ClientFacts DEF Handler, HandlerOK, ProvenanceSteps
  <2>3. g \in Handler /\ HandlerOK(g)
    BY <1>3, <2>1, <2>2
  <2>4. handler' = [handler EXCEPT ![c] = g] /\ UNCHANGED <<cacheVars, trace>>
    BY <1>4 DEF LookupParsed, b
  <2> HIDE DEF g
  <2> QED BY <2>3, <2>4, Kept, HandlerStep
<1>5. CASE FillParsed(c)
  <2> DEFINE g == Take(h, b, h.reader.text[b])
  <2>1. h.reader.text[b] \in OptTexts
    BY <1>2, ClientFacts DEF Trace, OptTexts
  <2>2. g \in Handler /\ HandlerOK(g)
    BY <1>3, <2>1
  <2>3. handler' = [handler EXCEPT ![c] = g] /\ UNCHANGED <<timelineVars, resolvedVars, trace>>
        /\ InsertParsed(b, h.reader.text[b])
    BY <1>5 DEF FillParsed, b
  <2>4. CacheTypeOK'
    BY <2>1, <2>3, <1>2, ClientFacts DEF InsertParsed, CacheTypeOK, timelineVars, resolvedVars
  <2> HIDE DEF g
  <2> QED BY <2>2, <2>3, <2>4, Kept, HandlerStep
<1> QED BY <1>4, <1>5

\* A diff is filled under a key of two snapshots that exist.
LEMMA DiffType ==
  ASSUME TypeInv, NEW c \in Clients, LookupDiff(c) \/ FillDiff(c)
  PROVE  TypeInv'
<1> DEFINE h == handler[c]
           texts == Shown(h.request, h.reader, h.module)
<1>1. h.request.kind = "diff" /\ h.step \in {"parse", "diff"} /\ h.todo = {}
  BY ClientFacts DEF LookupDiff, FillDiff, HandlerOK, AllParsed, At
<1>2. texts \in OptTexts \X OptTexts /\ texts \in Seq(OptTexts)
  BY <1>1, ClientFacts, ShownType
<1>3. DiffKey(c) \in DiffKeys
  <2>1. Refusal(h.request, h.reader) = "none"
    BY <1>1, ClientFacts DEF HandlerOK
  <2>2. h.request.pass \in Passes
    BY ClientFacts DEF Request
  <2>3. \A side \in Sides : Blob(h.request, h.reader, side) # NoBlob
    BY <1>1, <2>1 DEF Refusal
  <2>4. \A side \in Sides : Blob(h.request, h.reader, side) \in Blobs
    BY <2>2, <2>3, ClientFacts, TraceFacts DEF Blob, OptBlobs
  <2>5. Blob(h.request, h.reader, "before") \in Blobs /\ Blob(h.request, h.reader, "after") \in Blobs
    BY <2>4 DEF Sides
  <2>6. DiffKey(c) = <<Blob(h.request, h.reader, "before"), Blob(h.request, h.reader, "after"), F(c)>>
    BY PairWith DEF DiffKey, Both
  <2> QED BY <2>5, <2>6, ClientFacts DEF DiffKeys
<1>4. Ok(texts) \in Answer
  BY <1>2 DEF Ok, Answer
<1>5. diffs[DiffKey(c)] # <<>> => Ok(diffs[DiffKey(c)]) \in Answer
  <2>1. diffs[DiffKey(c)] \in {<<>>} \union (OptTexts \X OptTexts)
    BY <1>3, ClientFacts DEF CacheTypeOK
  <2>2. diffs[DiffKey(c)] # <<>> => diffs[DiffKey(c)] \in Seq(OptTexts)
    BY <2>1, PairIsSeq
  <2> QED BY <2>2 DEF Ok, Answer
<1>6. CASE LookupDiff(c)
  <2>1. UNCHANGED <<cacheVars, trace>>
    BY <1>6 DEF LookupDiff
  <2>2. CASE Respond(c, Ok(texts))
    BY <1>1, <1>4, <2>1, <2>2, Kept, RespondOK
  <2>3. CASE diffs[DiffKey(c)] # <<>> /\ Respond(c, Ok(diffs[DiffKey(c)]))
    BY <1>1, <1>5, <2>1, <2>3, Kept, RespondOK
  <2>4. CASE GoTo(c, "diff")
    <3> DEFINE g == [h EXCEPT !.step = "diff"]
    <3>1. g \in Handler
      BY ClientFacts DEF Handler, Steps
    <3>2. HandlerOK(g)
      <4>1. ~h.filling /\ h.step = "parse"
        BY <1>1, <1>6, ClientFacts DEF HandlerOK, Handler, LookupDiff, AllParsed, At
      <4> QED BY <1>1, <4>1, ClientFacts DEF HandlerOK, ProvenanceSteps, Handler
    <3>3. handler' = [handler EXCEPT ![c] = g]
      BY <2>4 DEF GoTo
    <3> HIDE DEF g
    <3> QED BY <2>1, <3>1, <3>2, <3>3, Kept, HandlerStep
  <2> QED BY <1>6, <2>2, <2>3, <2>4 DEF LookupDiff
<1>7. CASE FillDiff(c)
  <2>1. CacheTypeOK'
    BY <1>2, <1>3, <1>7, ClientFacts DEF FillDiff, InsertDiff, CacheTypeOK, timelineVars, resolvedVars
  <2> QED BY <1>1, <1>4, <1>7, <2>1, RespondOK DEF FillDiff
<1> QED BY <1>6, <1>7

\* The last step of a request.
LEMMA RespondType ==
  ASSUME TypeInv, NEW c \in Clients, RespondFunctions(c) \/ RespondHistory(c) \/ RespondStage(c)
  PROVE  TypeInv'
<1> DEFINE h == handler[c]
<1>1. h.step \in {"parse", "respond"} /\ h.todo = {}
  BY ClientFacts DEF RespondFunctions, RespondHistory, RespondStage, HandlerOK, AllParsed, At
<1>2. h.resolved \in Seq(Stage) /\ <<>> \in Seq(Stage) /\ timelines[F(c)] \in Seq(Stage)
  BY ClientFacts DEF Handler, CacheTypeOK
<1>3. CASE RespondFunctions(c)
  <2>1. Ok(Shown(h.request, h.reader, h.module)) \in Answer
    BY ClientFacts, ShownType DEF Ok, Answer
  <2> QED BY <1>1, <1>3, <2>1, Kept, RespondOK DEF RespondFunctions
<1>4. CASE RespondHistory(c)
  <2>1. ProvenanceAnswer(h.request, h.reader, h.module, <<>>, h.resolved) \in Answer
    BY <1>2, ClientFacts, ProvenanceAnswerType
  <2> QED BY <1>1, <1>4, <2>1, Kept, RespondOK DEF RespondHistory
<1>5. CASE RespondStage(c)
  <2>1. ProvenanceAnswer(h.request, h.reader, h.module, timelines[F(c)], h.resolved) \in Answer
    BY <1>2, ClientFacts, ProvenanceAnswerType
  <2>2. CacheTypeOK'
    BY <1>5, ClientFacts, TouchType DEF RespondStage, UseTimeline, CacheTypeOK, parsedVars, resolvedVars
  <2> QED BY <1>1, <1>5, <2>1, <2>2, RespondOK DEF RespondStage
<1> QED BY <1>3, <1>4, <1>5

\* The two lookups of resolved_function.
LEMMA LookupType ==
  ASSUME TypeInv, NEW c \in Clients, LookupResolved(c) \/ LookupTimeline(c)
  PROVE  TypeInv'
<1> DEFINE h == handler[c]
<1>1. h.step \in {"parse", "timeline"} /\ h.todo = {} /\ ~h.filling /\ h.request.kind \in ProvenanceKinds
  BY ClientFacts DEF LookupResolved, LookupTimeline, HandlerOK, AllParsed, At, Handler, ProvenanceSteps,
     ProvenanceKinds, Steps
<1>2. resolved[F(c)] \in Seq(Stage) /\ timelines[F(c)] \in Seq(Stage)
  BY ClientFacts DEF CacheTypeOK
<1>3. CASE LookupResolved(c)
  <2> DEFINE g == [h EXCEPT !.resolved = resolved[F(c)],
                            !.step = IF resolved[F(c)] # <<>> THEN "respond" ELSE "timeline"]
  <2>1. g \in Handler
    BY <1>2, ClientFacts DEF Handler, Steps
  <2>2. HandlerOK(g)
    BY <1>1, ClientFacts DEF HandlerOK, Handler
  <2>3. handler' = [handler EXCEPT ![c] = g] /\ UNCHANGED trace
    BY <1>3 DEF LookupResolved
  <2>4. CacheTypeOK'
    BY <1>3, ClientFacts, TouchType DEF LookupResolved, UseResolved, CacheTypeOK, parsedVars, timelineVars
  <2> HIDE DEF g
  <2> QED BY <2>1, <2>2, <2>3, <2>4, Kept, HandlerStep
<1>4. CASE LookupTimeline(c)
  <2> DEFINE g == IF timelines[F(c)] # <<>>
                  THEN [h EXCEPT !.timeline = timelines[F(c)], !.step = "resolve"]
                  ELSE [h EXCEPT !.todo = LeafBlobs(h.reader), !.step = "build"]
  <2>1. LeafBlobs(h.reader) \subseteq Blobs
    <3>1. h.reader.leaves \subseteq Passes
      BY ClientFacts DEF Trace
    <3>2. \A p \in h.reader.leaves : Snapshots(p, h.reader) \subseteq Blobs
      BY <3>1, ClientFacts, TraceFacts
    <3> QED BY <3>2 DEF LeafBlobs
  <2>2. g \in Handler
    BY <1>2, <2>1, ClientFacts DEF Handler, Steps
  <2>3. HandlerOK(g)
    BY <1>1, ClientFacts DEF HandlerOK, Handler
  <2>4. handler' = [handler EXCEPT ![c] = g] /\ UNCHANGED trace
    BY <1>4 DEF LookupTimeline
  <2>5. CacheTypeOK'
    BY <1>4, ClientFacts, TouchType DEF LookupTimeline, UseTimeline, CacheTypeOK, parsedVars, resolvedVars
  <2> HIDE DEF g
  <2> QED BY <2>2, <2>3, <2>4, <2>5, Kept, HandlerStep
<1> QED BY <1>3, <1>4

\* A timeline that is not empty is to be inserted.
LEMMA BuildType ==
  ASSUME TypeInv, NEW c \in Clients, FinishBuild(c)
  PROVE  TypeInv'
<1> DEFINE h == handler[c]
           stages == Timeline(F(c), h.reader, h.module)
           answer == ProvenanceAnswer(h.request, h.reader, h.module, <<>>, <<>>)
           g == [h EXCEPT !.timeline = stages, !.step = "putTimeline"]
<1>1. h.step = "build" /\ h.todo = {} /\ ~h.filling /\ h.request.kind \in ProvenanceKinds
  BY ClientFacts DEF FinishBuild, HandlerOK, At, Handler, ProvenanceSteps, Steps
<1>2. stages \in Seq(Stage)
  BY ClientFacts, TimelineType
<1>3. CASE Respond(c, answer)
  <2>1. answer \in Answer
    <3>1. <<>> \in Seq(Stage)
      OBVIOUS
    <3> QED BY <3>1, ClientFacts, ProvenanceAnswerType
  <2> QED BY <1>1, <1>3, <2>1, Kept, RespondOK DEF FinishBuild
<1>4. CASE stages # <<>> /\ handler' = [handler EXCEPT ![c] = g]
  <2>1. g \in Handler
    BY <1>2, ClientFacts DEF Handler, Steps
  <2>2. HandlerOK(g)
    BY <1>1, <1>4, ClientFacts DEF HandlerOK, Handler
  <2> HIDE DEF g
  <2> QED BY <1>4, <2>1, <2>2, Kept, HandlerStep DEF FinishBuild
<1> QED BY <1>3, <1>4 DEF FinishBuild

\* The steps of resolved_function after a timeline is known: no blob is to be parsed.
LEMMA GoToOK ==
  ASSUME TypeInv, NEW c \in Clients, NEW step \in {"evictTimelines", "resolve", "respond"},
         handler[c].step \in {"putTimeline", "evictTimelines", "evictResolved"},
         step = "respond" <=> handler[c].step = "evictResolved",
         GoTo(c, step), UNCHANGED trace, CacheTypeOK'
  PROVE  TypeInv'
<1> DEFINE g == [handler[c] EXCEPT !.step = step]
<1>1. g \in Handler
  BY ClientFacts DEF Handler, Steps
<1>2. handler[c].todo = {} /\ ~handler[c].filling /\ handler[c].request.kind \in ProvenanceKinds
  BY ClientFacts DEF HandlerOK, Handler, ProvenanceSteps, Steps
<1>3. HandlerOK(g)
  BY <1>2, ClientFacts DEF HandlerOK, Handler
<1>4. handler' = [handler EXCEPT ![c] = g]
  BY DEF GoTo
<1> HIDE DEF g
<1> QED BY <1>1, <1>3, <1>4, Kept, HandlerStep

\* Inserting a timeline and evicting others.
LEMMA TimelineCacheType ==
  ASSUME TypeInv, NEW c \in Clients, PutTimeline(c) \/ EvictTimelines(c)
  PROVE  TypeInv'
<1> DEFINE h == handler[c]
<1>1. h.step \in {"putTimeline", "evictTimelines"} /\ UNCHANGED trace
      /\ UNCHANGED <<parsedVars, resolvedVars>>
  BY DEF PutTimeline, EvictTimelines, At
<1>2. timelines' \in [Functions -> Seq(Stage)] /\ timelineOrder' \in Seq(Functions) => CacheTypeOK'
  BY <1>1, ClientFacts DEF CacheTypeOK, parsedVars, resolvedVars
<1>3. UNCHANGED timelineVars => CacheTypeOK'
  BY <1>2, ClientFacts DEF CacheTypeOK, timelineVars
<1>4. CASE PutTimeline(c) /\ GoTo(c, "resolve") /\ UNCHANGED timelineVars
  BY <1>1, <1>3, <1>4, GoToOK
<1>5. CASE PutTimeline(c) /\ InsertTimeline(F(c), h.timeline) /\ GoTo(c, "evictTimelines")
  <2>1. h.timeline \in Seq(Stage)
    BY ClientFacts DEF Handler
  <2>2. CacheTypeOK'
    BY <1>2, <1>5, <2>1, ClientFacts, TouchType DEF InsertTimeline, CacheTypeOK
  <2> QED BY <1>1, <1>5, <2>2, GoToOK
<1>6. CASE EvictTimeline /\ UNCHANGED handler
  <2>1. timelineOrder # <<>> => Head(timelineOrder) \in Functions /\ Tail(timelineOrder) \in Seq(Functions)
    BY ClientFacts, HeadTailProperties DEF CacheTypeOK
  <2>2. CacheTypeOK'
    <3>1. CASE timelineOrder = <<>>
      BY <1>3, <1>6, <3>1 DEF EvictTimeline
    <3>2. CASE timelineOrder # <<>>
      <4>1. timelines' = [timelines EXCEPT ![Head(timelineOrder)] = <<>>]
            /\ timelineOrder' = Tail(timelineOrder)
        BY <1>6, <3>2 DEF EvictTimeline
      <4>2. <<>> \in Seq(Stage) /\ timelines \in [Functions -> Seq(Stage)]
        BY ClientFacts DEF CacheTypeOK
      <4>3. timelines' \in [Functions -> Seq(Stage)]
        BY <4>1, <4>2
      <4> QED BY <1>2, <2>1, <3>2, <4>1, <4>3
    <3> QED BY <3>1, <3>2
  <2> QED BY <1>1, <1>6, <2>2, Kept DEF TypeInv, ServerTypeOK, HandlersOK
<1>7. CASE EvictTimelines(c) /\ GoTo(c, "resolve") /\ UNCHANGED timelineVars
  BY <1>1, <1>3, <1>7, GoToOK
<1> QED BY <1>4, <1>5, <1>6, <1>7 DEF PutTimeline, EvictTimelines

\* The count never goes below zero: it is subtracted from with saturation.
LEMMA CountType ==
  ASSUME CacheTypeOK, NEW f \in Functions
  PROVE  WithoutPrevious(f) \in Nat /\ Chains[f] \in Nat
BY CacheAssumption DEF CacheTypeOK, WithoutPrevious, SaturatingSub

\* Inserting a resolved function and evicting others.
LEMMA ResolvedCacheType ==
  ASSUME TypeInv, NEW c \in Clients, PutResolved(c) \/ EvictFromResolved(c)
  PROVE  TypeInv'
<1> DEFINE h == handler[c]
<1>1. UNCHANGED trace /\ UNCHANGED <<parsedVars, timelineVars>>
  BY DEF PutResolved, EvictFromResolved
<1>2. /\ resolved' \in [Functions -> Seq(Stage)] /\ resolvedOrder' \in Seq(Functions)
      /\ chainCount' \in Nat
      => CacheTypeOK'
  BY <1>1, ClientFacts DEF CacheTypeOK, parsedVars, timelineVars
<1>3. UNCHANGED resolvedVars => CacheTypeOK'
  BY <1>2, ClientFacts DEF CacheTypeOK, resolvedVars
<1>4. CASE PutResolved(c)
  <2> DEFINE g == [h EXCEPT !.resolved = h.timeline,
                            !.step = IF ChainCapacity = 0 THEN "respond" ELSE "evictResolved"]
  <2>1. h.step = "resolve" /\ h.timeline \in Seq(Stage) /\ h.timeline # <<>>
    BY <1>4, ClientFacts DEF PutResolved, At, Handler, HandlerOK
  <2>2. g \in Handler
    BY <2>1, ClientFacts DEF Handler, Steps
  <2>3. h.todo = {} /\ ~h.filling /\ h.request.kind \in ProvenanceKinds
    BY <2>1, ClientFacts DEF HandlerOK, Handler, ProvenanceSteps, Steps
  <2>4. HandlerOK(g)
    BY <2>1, <2>3, ClientFacts DEF HandlerOK, Handler
  <2>5. handler' = [handler EXCEPT ![c] = g]
    BY <1>4 DEF PutResolved
  <2>6. CASE UNCHANGED resolvedVars
    <3> HIDE DEF g
    <3> QED BY <1>1, <1>3, <2>2, <2>4, <2>5, <2>6, Kept, HandlerStep
  <2>7. CASE InsertResolved(F(c), h.timeline)
    <3>1. CacheTypeOK'
      <4>1. resolved' \in [Functions -> Seq(Stage)]
        BY <2>1, <2>7, ClientFacts DEF InsertResolved, CacheTypeOK
      <4>2. chainCount' \in Nat
        BY <2>7, ClientFacts, CountType DEF InsertResolved
      <4>3. resolvedOrder' \in Seq(Functions)
        BY <2>7, ClientFacts, TouchType DEF InsertResolved, CacheTypeOK
      <4> QED BY <1>2, <4>1, <4>2, <4>3
    <3> HIDE DEF g
    <3> QED BY <1>1, <2>2, <2>4, <2>5, <3>1, Kept, HandlerStep
  <2> QED BY <1>4, <2>6, <2>7 DEF PutResolved
<1>5. CASE ResolvedOverflow /\ EvictResolved /\ UNCHANGED handler
  <2>1. Head(resolvedOrder) \in Functions /\ Tail(resolvedOrder) \in Seq(Functions)
    BY <1>5, ClientFacts, HeadTailProperties DEF CacheTypeOK, ResolvedOverflow
  <2>2. CacheTypeOK'
    <3>1. resolved' \in [Functions -> Seq(Stage)]
      <4>1. <<>> \in Seq(Stage) /\ resolved \in [Functions -> Seq(Stage)]
        BY ClientFacts DEF CacheTypeOK
      <4>2. resolved' = [resolved EXCEPT ![Head(resolvedOrder)] = <<>>]
        BY <1>5 DEF EvictResolved
      <4> QED BY <4>1, <4>2
    <3>2. chainCount' \in Nat
      BY <1>5, <2>1, ClientFacts, CountType DEF EvictResolved
    <3> QED BY <1>2, <1>5, <2>1, <3>1, <3>2 DEF EvictResolved
  <2> QED BY <1>1, <1>5, <2>2, Kept DEF TypeInv, ServerTypeOK, HandlersOK
<1>6. CASE EvictFromResolved(c) /\ GoTo(c, "respond") /\ UNCHANGED resolvedVars
  <2>1. h.step = "evictResolved"
    BY <1>6 DEF EvictFromResolved, At
  <2> QED BY <1>1, <1>3, <1>6, <2>1, GoToOK
<1> QED BY <1>4, <1>5, <1>6 DEF PutResolved, EvictFromResolved

\* One step.
LEMMA NextType ==
  ASSUME TypeInv, [Next]_vars
  PROVE  TypeInv'
<1>1. ASSUME NEW c \in Clients, Handle(c) PROVE TypeInv'
  BY <1>1, ParseType, DiffType, RespondType, LookupType, BuildType, TimelineCacheType,
     ResolvedCacheType DEF Handle
<1>2. ASSUME NEW c \in Clients, NEW r \in Requests, Receive(c, r) PROVE TypeInv'
  BY <1>2, ReceiveType
<1>3. CASE Recapture
  BY <1>3, Kept DEF Recapture, TypeInv, ServerTypeOK, HandlersOK
<1>4. CASE UNCHANGED vars
  BY <1>4, Kept DEF vars, TypeInv, ServerTypeOK, HandlersOK
<1> QED BY <1>1, <1>2, <1>3, <1>4 DEF Next

\* The inductive form of the type invariant: types, and what each program counter implies.
THEOREM TypeInvariant == Spec => []TypeInv
BY InitType, NextType, PTL DEF Spec

\* Every cache, every handler and every answer is well typed at all times, for any number of
\* clients, functions, blobs and requests, any capacities, and recaptures at any time.
THEOREM TypeCorrect == Spec => []ServerTypeOK
BY TypeInvariant, PTL DEF TypeInv

-----------------------------------------------------------------------------
(* The caches that evict.                                                   *)

\* What was inserted is in the cache, and last in its queue.
Newest(order, cache, f, stages) ==
  /\ cache[f] = stages /\ stages # <<>>
  /\ order # <<>> /\ order[Len(order)] = f

\* The timelines: the queue lists the keys; at most one handler holds the mutex through its
\* evictions, and then its own entry is the last of the queue, so that no eviction reaches it
\* before the cache fits.
TimelineInv ==
  /\ Orders(timelineOrder, Entries(timelines))
  /\ \A c, d \in Clients : At(c, "evictTimelines") /\ At(d, "evictTimelines") => c = d
  /\ TimelinesFree => Cardinality(Entries(timelines)) <= TimelineCapacity
  /\ \A c \in Clients : At(c, "evictTimelines") =>
       /\ TimelineCapacity > 0
       /\ Newest(timelineOrder, timelines, F(c), handler[c].timeline)

\* The resolved functions, whose count is that of the histories of all entries.
ResolvedInv ==
  /\ Orders(resolvedOrder, Entries(resolved))
  /\ \A c, d \in Clients : At(c, "evictResolved") /\ At(d, "evictResolved") => c = d
  /\ ResolvedFree => \/ chainCount <= ChainCapacity
                     \/ Cardinality(Entries(resolved)) = 1
  /\ chainCount = Cardinality(CachedHistories)
  /\ \A c \in Clients : At(c, "evictResolved") =>
       Newest(resolvedOrder, resolved, F(c), handler[c].resolved)

CachesInv == TypeInv /\ TimelineInv /\ ResolvedInv

\* A cache has finitely many entries.
LEMMA EntriesFinite ==
  ASSUME NEW E, E \subseteq Functions
  PROVE  IsFiniteSet(E) /\ Cardinality(E) \in Nat
BY CacheAssumption, FS_Subset, FS_CardinalityType

\* The entries after an insertion or an eviction.
LEMMA EntriesPut ==
  ASSUME NEW cache \in [Functions -> Seq(Stage)], NEW f \in Functions, NEW stages
  PROVE  Entries([cache EXCEPT ![f] = stages])
           = IF stages = <<>> THEN Entries(cache) \ {f} ELSE Entries(cache) \union {f}
BY DEF Entries

\* A function has as many histories as it has chains.
LEMMA HistoriesSize ==
  ASSUME NEW f \in Functions
  PROVE  /\ Chains[f] \in Nat
         /\ IsFiniteSet(Histories(f)) /\ Cardinality(Histories(f)) = Chains[f]
<1> DEFINE n == Chains[f]
<1>1. n \in Nat
  BY CacheAssumption
<1> HIDE DEF n
<1>2. IsFiniteSet(1 .. n) /\ Cardinality(1 .. n) = n
  <2>1. 1 > n => n = 0
    BY <1>1
  <2> QED BY <1>1, <2>1, FS_Interval
<1>3. IsFiniteSet({f}) /\ Cardinality({f}) = 1
  BY FS_Singleton
<1>4. IsFiniteSet({f} \X (1 .. n)) /\ Cardinality({f} \X (1 .. n)) = 1 * n
  BY <1>2, <1>3, FS_Product
<1>5. 1 * n = n
  BY <1>1
<1> QED BY <1>1, <1>4, <1>5 DEF Histories, n

\* The histories of some functions.
HistoriesOf(E) == UNION {Histories(f) : f \in E}

\* Finitely many functions have finitely many histories ...
LEMMA HistoriesFinite ==
  ASSUME NEW E, E \subseteq Functions
  PROVE  IsFiniteSet(HistoriesOf(E)) /\ Cardinality(HistoriesOf(E)) \in Nat
<1> DEFINE H == {Histories(f) : f \in E}
<1>1. \A f \in E : IsFiniteSet(Histories(f))
  BY HistoriesSize
<1>2. IsFiniteSet(H)
  <2> DEFINE m == [f \in E |-> Histories(f)]
  <2>1. m \in Surjection(E, H)
    BY DEF Surjection
  <2>2. IsFiniteSet(E)
    BY EntriesFinite
  <2> HIDE DEF m, H
  <2> QED BY <2>1, <2>2, FS_Surjection
<1>3. \A T \in H : IsFiniteSet(T)
  BY <1>1
<1>4. IsFiniteSet(UNION H)
  <2> HIDE DEF H
  <2> QED BY <1>2, <1>3, FS_UNION
<1> QED BY <1>4, FS_CardinalityType DEF HistoriesOf

\* ... one more function adds its own ...
LEMMA HistoriesAdded ==
  ASSUME NEW E, E \subseteq Functions, NEW f \in Functions, f \notin E
  PROVE  Cardinality(HistoriesOf(E \union {f})) = Cardinality(HistoriesOf(E)) + Chains[f]
<1> DEFINE A == HistoriesOf(E)
           B == Histories(f)
<1>1. IsFiniteSet(A) /\ Cardinality(A) \in Nat /\ IsFiniteSet(B) /\ Cardinality(B) = Chains[f]
      /\ Chains[f] \in Nat
  BY HistoriesFinite, HistoriesSize
<1>2. HistoriesOf(E \union {f}) = A \union B
  BY DEF HistoriesOf
<1>3. A \cap B = {}
  BY DEF HistoriesOf, Histories
<1> HIDE DEF A, B
<1>4. Cardinality(A \union B) = Cardinality(A) + Cardinality(B) - Cardinality(A \cap B)
  BY <1>1, FS_Union
<1>5. Cardinality(A \cap B) = 0
  BY <1>3, FS_EmptySet
<1>6. Cardinality(A \union B) = Cardinality(A) + Chains[f]
  BY <1>1, <1>4, <1>5
<1> QED BY <1>2, <1>6 DEF A

\* ... and one less takes as many away.
LEMMA HistoriesRemoved ==
  ASSUME NEW E, E \subseteq Functions, NEW f \in E
  PROVE  /\ Cardinality(HistoriesOf(E \ {f})) = Cardinality(HistoriesOf(E)) - Chains[f]
         /\ Chains[f] <= Cardinality(HistoriesOf(E))
<1> DEFINE R == E \ {f}
<1>1. R \subseteq Functions /\ f \notin R /\ f \in Functions /\ R \union {f} = E
  OBVIOUS
<1> HIDE DEF R
<1>2. Cardinality(HistoriesOf(E)) = Cardinality(HistoriesOf(R)) + Chains[f]
  BY <1>1, HistoriesAdded
<1>3. Cardinality(HistoriesOf(R)) \in Nat /\ Chains[f] \in Nat
  BY <1>1, HistoriesFinite, HistoriesSize
<1>4. /\ Cardinality(HistoriesOf(R)) = Cardinality(HistoriesOf(E)) - Chains[f]
      /\ Chains[f] <= Cardinality(HistoriesOf(E))
  BY <1>2, <1>3
<1> QED BY <1>4 DEF R

\* What the count is without the histories of f, whether f is an entry or not.
LEMMA CountWithout ==
  ASSUME CacheTypeOK, chainCount = Cardinality(CachedHistories), NEW f \in Functions
  PROVE  WithoutPrevious(f) = Cardinality(HistoriesOf(Entries(resolved) \ {f}))
<1> DEFINE E == Entries(resolved)
<1>1. E \subseteq Functions /\ CachedHistories = HistoriesOf(E)
  BY DEF Entries, CachedHistories, HistoriesOf
<1>2. chainCount = Cardinality(HistoriesOf(E)) /\ chainCount \in Nat /\ Chains[f] \in Nat
  BY <1>1, CacheAssumption DEF CacheTypeOK
<1>3. CASE f \in E
  <2>1. /\ Cardinality(HistoriesOf(E \ {f})) = chainCount - Chains[f]
        /\ Chains[f] <= chainCount
    BY <1>1, <1>2, <1>3, HistoriesRemoved
  <2>2. WithoutPrevious(f) = SaturatingSub(chainCount, Chains[f])
    BY <1>3 DEF WithoutPrevious, Entries
  <2> QED BY <1>2, <2>1, <2>2 DEF SaturatingSub
<1>4. CASE f \notin E
  <2>1. E \ {f} = E
    BY <1>4
  <2>2. WithoutPrevious(f) = chainCount
    BY <1>4 DEF WithoutPrevious, Entries
  <2> QED BY <1>2, <2>1, <2>2
<1> QED BY <1>3, <1>4

\* No step of a handler moves another; those not of resolved_function's insertions
\* are not in the midst of an eviction, before or after.
Evicting == {"evictTimelines", "evictResolved"}

\* No step of a handler moves another.
LEMMA OnlyOne ==
  ASSUME TypeInv, NEW c \in Clients, NEW h, handler' = [handler EXCEPT ![c] = h]
  PROVE  handler'[c] = h /\ \A d \in Clients \ {c} : handler'[d] = handler[d]
BY DEF TypeInv, ServerTypeOK

\* What a change of the program counter leaves alone.
LEMMA StepSet ==
  ASSUME TypeInv, NEW c \in Clients, NEW step, GoTo(c, step)
  PROVE  /\ handler'[c] = [handler[c] EXCEPT !.step = step]
         /\ handler'[c].step = step
         /\ handler'[c].request = handler[c].request
         /\ handler'[c].timeline = handler[c].timeline
         /\ handler'[c].resolved = handler[c].resolved
         /\ \A d \in Clients \ {c} : handler'[d] = handler[d]
<1> DEFINE g == [handler[c] EXCEPT !.step = step]
<1>1. handler' = [handler EXCEPT ![c] = g]
  BY DEF GoTo
<1>2. g.step = step /\ g.request = handler[c].request /\ g.timeline = handler[c].timeline
      /\ g.resolved = handler[c].resolved
  BY ClientFacts DEF Handler
<1> HIDE DEF g
<1>3. handler'[c] = g /\ \A d \in Clients \ {c} : handler'[d] = handler[d]
  BY <1>1, OnlyOne
<1> QED BY <1>2, <1>3 DEF g

\* What an answer leaves alone.
LEMMA Responded ==
  ASSUME TypeInv, NEW c \in Clients, NEW answer, Respond(c, answer)
  PROVE  /\ handler'[c].step = "idle" /\ handler'[c].answer = answer
         /\ handler'[c].request = handler[c].request
         /\ handler'[c].reader = handler[c].reader
         /\ \A d \in Clients \ {c} : handler'[d] = handler[d]
<1> DEFINE g == [handler[c] EXCEPT !.step = "idle", !.answer = answer, !.module = NoModules,
                                   !.timeline = <<>>, !.resolved = <<>>]
<1>1. handler' = [handler EXCEPT ![c] = g]
  BY DEF Respond
<1>2. g.step = "idle" /\ g.answer = answer /\ g.request = handler[c].request
      /\ g.reader = handler[c].reader
  BY ClientFacts DEF Handler
<1> HIDE DEF g
<1>3. handler'[c] = g /\ \A d \in Clients \ {c} : handler'[d] = handler[d]
  BY <1>1, OnlyOne
<1> QED BY <1>2, <1>3

\* Handler c moves, and is not in the midst of an eviction before or after.
Elsewhere(c) ==
  /\ handler[c].step \notin Evicting /\ handler'[c].step \notin Evicting
  /\ \A d \in Clients \ {c} : handler'[d] = handler[d]

\* Most steps are of that kind.
LEMMA OtherSteps ==
  ASSUME TypeInv, NEW c \in Clients,
         \/ LookupParsed(c) \/ FillParsed(c) \/ RespondFunctions(c) \/ LookupDiff(c) \/ FillDiff(c)
         \/ LookupResolved(c) \/ LookupTimeline(c) \/ FinishBuild(c)
         \/ RespondHistory(c) \/ RespondStage(c) \/ \E r \in Requests : Receive(c, r)
  PROVE  Elsewhere(c)
<1> DEFINE h == handler[c]
<1> USE DEF Evicting
<1>1. \A answer : Respond(c, answer) /\ h.step \notin Evicting => Elsewhere(c)
  BY Responded DEF Elsewhere
<1>2. CASE LookupParsed(c) \/ FillParsed(c)
  <2>1. h.step \in {"parse", "build"}
    BY <1>2, ClientFacts DEF LookupParsed, FillParsed, HandlerOK
  <2>2. ASSUME NEW g, handler' = [handler EXCEPT ![c] = g], g.step = h.step PROVE Elsewhere(c)
    BY <2>1, <2>2, OnlyOne DEF Elsewhere
  <2> DEFINE took(t) == Take(h, NextBlob(c), t)
             fill    == [h EXCEPT !.filling = TRUE]
  <2>3. (\A t : took(t).step = h.step) /\ fill.step = h.step
    BY ClientFacts DEF Take, Handler
  <2>4. \/ handler' = [handler EXCEPT ![c] = took(parsed[NextBlob(c)])]
        \/ handler' = [handler EXCEPT ![c] = took(h.reader.text[NextBlob(c)])]
        \/ handler' = [handler EXCEPT ![c] = fill]
    BY <1>2 DEF LookupParsed, FillParsed
  <2> HIDE DEF took, fill
  <2> QED BY <2>2, <2>3, <2>4
<1>3. CASE RespondFunctions(c) \/ RespondHistory(c) \/ RespondStage(c)
  <2>1. h.step \in {"parse", "respond"}
    BY <1>3 DEF RespondFunctions, RespondHistory, RespondStage, AllParsed, At
  <2> QED BY <1>1, <1>3, <2>1 DEF RespondFunctions, RespondHistory, RespondStage
<1>4. CASE LookupDiff(c) \/ FillDiff(c)
  <2>1. h.step \in {"parse", "diff"}
    BY <1>4 DEF LookupDiff, FillDiff, AllParsed, At
  <2>2. ASSUME GoTo(c, "diff") PROVE Elsewhere(c)
    <3>1. handler'[c].step = "diff" /\ \A d \in Clients \ {c} : handler'[d] = handler[d]
      BY <2>2, StepSet
    <3> QED BY <2>1, <3>1 DEF Elsewhere
  <2> QED BY <1>1, <1>4, <2>1, <2>2 DEF LookupDiff, FillDiff
<1>5. CASE LookupResolved(c)
  <2> DEFINE g == [h EXCEPT !.resolved = resolved[F(c)],
                            !.step = IF resolved[F(c)] # <<>> THEN "respond" ELSE "timeline"]
  <2>1. h.step = "parse" /\ handler' = [handler EXCEPT ![c] = g]
    BY <1>5 DEF LookupResolved, AllParsed, At
  <2>2. g.step \in {"respond", "timeline"}
    BY ClientFacts DEF Handler
  <2> HIDE DEF g
  <2> QED BY <2>1, <2>2, OnlyOne DEF Elsewhere
<1>6. CASE LookupTimeline(c)
  <2> DEFINE g == IF timelines[F(c)] # <<>>
                  THEN [h EXCEPT !.timeline = timelines[F(c)], !.step = "resolve"]
                  ELSE [h EXCEPT !.todo = LeafBlobs(h.reader), !.step = "build"]
  <2>1. h.step = "timeline" /\ handler' = [handler EXCEPT ![c] = g]
    BY <1>6 DEF LookupTimeline, At
  <2>2. g.step \in {"resolve", "build"}
    BY ClientFacts DEF Handler
  <2> HIDE DEF g
  <2> QED BY <2>1, <2>2, OnlyOne DEF Elsewhere
<1>7. CASE FinishBuild(c)
  <2>1. h.step = "build"
    BY <1>7 DEF FinishBuild, At
  <2>2. CASE \E answer : Respond(c, answer)
    BY <1>1, <2>1, <2>2
  <2>3. CASE handler' = [handler EXCEPT ![c] = [h EXCEPT !.timeline = Timeline(F(c), h.reader, h.module),
                                                         !.step = "putTimeline"]]
    <3> DEFINE g == [h EXCEPT !.timeline = Timeline(F(c), h.reader, h.module),
                              !.step = "putTimeline"]
    <3>1. g.step = "putTimeline"
      BY ClientFacts DEF Handler
    <3> HIDE DEF g
    <3> QED BY <2>1, <2>3, <3>1, OnlyOne DEF Elsewhere, g
  <2> QED BY <1>7, <2>2, <2>3 DEF FinishBuild
<1>8. CASE \E r \in Requests : Receive(c, r)
  <2>1. PICK r \in Requests : Receive(c, r)
    BY <1>8
  <2> DEFINE k == [h EXCEPT !.request = r, !.reader = trace]
             g == IF Refusal(r, trace) # "none"
                  THEN [k EXCEPT !.answer = [status |-> Refusal(r, trace), body |-> <<>>]]
                  ELSE [k EXCEPT !.step = "parse", !.todo = BlobsToShow(r, trace),
                                 !.answer = NoAnswer]
  <2>2. h.step = "idle" /\ handler' = [handler EXCEPT ![c] = g]
    BY <2>1 DEF Receive, At
  <2>3. g.step \in {"idle", "parse"}
    BY <2>2, ClientFacts DEF Handler
  <2> HIDE DEF g
  <2> QED BY <2>2, <2>3, OnlyOne DEF Elsewhere
<1> QED BY <1>2, <1>3, <1>4, <1>5, <1>6, <1>7, <1>8

\* A step that neither touches the timelines nor moves their holder.
LEMMA TimelineFrame ==
  ASSUME TimelineInv,
         \A d \in Clients : /\ At(d, "evictTimelines")' <=> At(d, "evictTimelines")
                            /\ At(d, "evictTimelines") => /\ F(d)' = F(d)
                                                          /\ handler'[d].timeline = handler[d].timeline
  PROVE  UNCHANGED timelineVars => TimelineInv'
BY DEF TimelineInv, timelineVars, Entries, TimelinesFree, Newest

\* A step that neither touches the resolved functions nor moves their holder.
LEMMA ResolvedFrame ==
  ASSUME ResolvedInv,
         \A d \in Clients : /\ At(d, "evictResolved")' <=> At(d, "evictResolved")
                            /\ At(d, "evictResolved") => /\ F(d)' = F(d)
                                                         /\ handler'[d].resolved = handler[d].resolved
  PROVE  UNCHANGED resolvedVars => ResolvedInv'
BY DEF ResolvedInv, resolvedVars, Entries, ResolvedFree, Newest, CachedHistories

\* A handler that is not inserting leaves those that are alone: who is evicting, and what
\* it has inserted, stays as it is.
LEMMA ElsewhereFrames ==
  ASSUME TypeInv, NEW c \in Clients, Elsewhere(c)
  PROVE  /\ \A d \in Clients : /\ At(d, "evictTimelines")' <=> At(d, "evictTimelines")
                               /\ At(d, "evictTimelines") => /\ F(d)' = F(d)
                                                             /\ handler'[d].timeline = handler[d].timeline
         /\ \A d \in Clients : /\ At(d, "evictResolved")' <=> At(d, "evictResolved")
                               /\ At(d, "evictResolved") => /\ F(d)' = F(d)
                                                            /\ handler'[d].resolved = handler[d].resolved
BY DEF Elsewhere, Evicting, At, F

\* A lookup changes no more than the order.
LEMMA UseTimelineOrder ==
  ASSUME TypeInv, TimelineInv, TimelinesFree, NEW f \in Functions, UseTimeline(f),
         \A d \in Clients : At(d, "evictTimelines")' <=> At(d, "evictTimelines")
  PROVE  TimelineInv'
<1>1. Orders(timelineOrder', Entries(timelines))
  <2>1. CASE timelines[f] # <<>>
    <3>1. Entries(timelines) \union {f} = Entries(timelines)
      BY <2>1 DEF Entries
    <3>2. Orders(Touch(timelineOrder, f), Entries(timelines) \union {f})
      BY TouchOrder DEF TimelineInv
    <3> QED BY <2>1, <3>1, <3>2 DEF UseTimeline
  <2>2. CASE timelines[f] = <<>>
    BY <2>2 DEF UseTimeline, TimelineInv
  <2> QED BY <2>1, <2>2
<1>2. timelines' = timelines /\ Entries(timelines)' = Entries(timelines)
  BY DEF UseTimeline, Entries
<1>3. \A d \in Clients : ~At(d, "evictTimelines") /\ ~At(d, "evictTimelines")'
  BY DEF TimelinesFree
<1>4. Cardinality(Entries(timelines)) <= TimelineCapacity
  BY DEF TimelineInv
<1> QED BY <1>1, <1>2, <1>3, <1>4 DEF TimelineInv

\* The same of the resolved functions.
LEMMA UseResolvedOrder ==
  ASSUME TypeInv, ResolvedInv, ResolvedFree, NEW f \in Functions, UseResolved(f),
         \A d \in Clients : At(d, "evictResolved")' <=> At(d, "evictResolved")
  PROVE  ResolvedInv'
<1>1. Orders(resolvedOrder', Entries(resolved))
  <2>1. CASE resolved[f] # <<>>
    <3>1. Entries(resolved) \union {f} = Entries(resolved)
      BY <2>1 DEF Entries
    <3>2. Orders(Touch(resolvedOrder, f), Entries(resolved) \union {f})
      BY TouchOrder DEF ResolvedInv
    <3> QED BY <2>1, <3>1, <3>2 DEF UseResolved
  <2>2. CASE resolved[f] = <<>>
    BY <2>2 DEF UseResolved, ResolvedInv
  <2> QED BY <2>1, <2>2
<1>2. resolved' = resolved /\ Entries(resolved)' = Entries(resolved)
      /\ chainCount' = chainCount /\ CachedHistories' = CachedHistories
  BY DEF UseResolved, Entries, CachedHistories
<1>3. \A d \in Clients : ~At(d, "evictResolved") /\ ~At(d, "evictResolved")'
  BY DEF ResolvedFree
<1>4. /\ chainCount <= ChainCapacity \/ Cardinality(Entries(resolved)) = 1
      /\ chainCount = Cardinality(CachedHistories)
  BY DEF ResolvedInv
<1> QED BY <1>1, <1>2, <1>3, <1>4 DEF ResolvedInv

\* The steps that do not insert keep the invariants of the caches.
LEMMA OtherCaches ==
  ASSUME CachesInv, NEW c \in Clients,
         \/ LookupParsed(c) \/ FillParsed(c) \/ RespondFunctions(c) \/ LookupDiff(c) \/ FillDiff(c)
         \/ LookupResolved(c) \/ LookupTimeline(c) \/ FinishBuild(c)
         \/ RespondHistory(c) \/ RespondStage(c) \/ \E r \in Requests : Receive(c, r)
  PROVE  TimelineInv' /\ ResolvedInv'
<1>1. TypeInv /\ TimelineInv /\ ResolvedInv /\ Elsewhere(c)
  BY OtherSteps DEF CachesInv
<1>2. UNCHANGED timelineVars => TimelineInv'
  BY <1>1, ElsewhereFrames, TimelineFrame
<1>3. UNCHANGED resolvedVars => ResolvedInv'
  BY <1>1, ElsewhereFrames, ResolvedFrame
<1>4. TimelinesFree /\ UseTimeline(F(c)) => TimelineInv'
  BY <1>1, ElsewhereFrames, ClientFacts, UseTimelineOrder
<1>5. ResolvedFree /\ UseResolved(F(c)) => ResolvedInv'
  BY <1>1, ElsewhereFrames, ClientFacts, UseResolvedOrder
<1>6. CASE LookupTimeline(c) \/ RespondStage(c)
  BY <1>3, <1>4, <1>6 DEF LookupTimeline, RespondStage
<1>7. CASE LookupResolved(c)
  BY <1>2, <1>5, <1>7 DEF LookupResolved
<1>8. CASE \/ LookupParsed(c) \/ FillParsed(c) \/ RespondFunctions(c) \/ LookupDiff(c) \/ FillDiff(c)
           \/ FinishBuild(c) \/ RespondHistory(c) \/ \E r \in Requests : Receive(c, r)
  <2>1. UNCHANGED timelineVars /\ UNCHANGED resolvedVars
    BY <1>8 DEF LookupParsed, FillParsed, RespondFunctions, LookupDiff, FillDiff, FinishBuild,
       RespondHistory, Receive, cacheVars
  <2> QED BY <1>2, <1>3, <2>1
<1> QED BY <1>6, <1>7, <1>8

\* What is inserted is the last of the queue, and its mutex is held from here ...
LEMMA PutTimelineCaches ==
  ASSUME CachesInv, NEW c \in Clients, PutTimeline(c)
  PROVE  TimelineInv' /\ ResolvedInv'
<1> DEFINE h == handler[c]
<1>1. TypeInv /\ TimelineInv /\ ResolvedInv /\ h.step = "putTimeline" /\ h.timeline # <<>>
      /\ TimelinesFree /\ UNCHANGED resolvedVars
  BY ClientFacts DEF CachesInv, PutTimeline, At, HandlerOK
<1>2. CASE GoTo(c, "resolve") /\ UNCHANGED timelineVars
  <2>1. Elsewhere(c)
    <3>1. handler'[c].step = "resolve" /\ \A d \in Clients \ {c} : handler'[d] = handler[d]
      BY <1>1, <1>2, StepSet
    <3> QED BY <1>1, <3>1 DEF Elsewhere, Evicting
  <2> QED BY <1>1, <1>2, <2>1, ElsewhereFrames, TimelineFrame, ResolvedFrame
<1>3. CASE TimelineCapacity > 0 /\ InsertTimeline(F(c), h.timeline) /\ GoTo(c, "evictTimelines")
  <2>1. /\ handler'[c].step = "evictTimelines"
        /\ handler'[c].request = h.request /\ handler'[c].timeline = h.timeline
        /\ \A d \in Clients \ {c} : handler'[d] = handler[d]
    BY <1>1, <1>3, StepSet
  <2>2. \A d \in Clients : At(d, "evictTimelines")' <=> d = c
    BY <1>1, <2>1 DEF At, TimelinesFree
  <2>3. F(c)' = F(c) /\ F(c) \in Functions
    BY <1>1, <2>1, ClientFacts DEF F
  <2>4. Orders(timelineOrder', Entries(timelines') ) /\ Newest(timelineOrder', timelines', F(c), h.timeline)
    <3>1. timelines' = [timelines EXCEPT ![F(c)] = h.timeline]
          /\ timelineOrder' = Touch(timelineOrder, F(c))
      BY <1>3 DEF InsertTimeline
    <3>2. Entries(timelines') = Entries(timelines) \union {F(c)}
      BY <1>1, <2>3, <3>1, ClientFacts, EntriesPut DEF CacheTypeOK
    <3>3. Orders(timelineOrder, Entries(timelines))
      BY <1>1 DEF TimelineInv
    <3>4. timelines'[F(c)] = h.timeline
      BY <1>1, <2>3, <3>1, ClientFacts DEF CacheTypeOK
    <3>5. /\ Orders(timelineOrder', Entries(timelines) \union {F(c)})
          /\ timelineOrder' # <<>> /\ timelineOrder'[Len(timelineOrder')] = F(c)
      BY <2>3, <3>1, <3>3, TouchOrder
    <3> QED BY <1>1, <3>2, <3>4, <3>5 DEF Newest
  <2>5. TimelineInv'
    BY <1>3, <2>1, <2>2, <2>3, <2>4 DEF TimelineInv, TimelinesFree, Entries
  <2>6. ResolvedInv'
    <3>1. \A d \in Clients : /\ At(d, "evictResolved")' <=> At(d, "evictResolved")
                             /\ At(d, "evictResolved") => d # c
      BY <1>1, <2>1 DEF At
    <3> QED BY <1>1, <2>1, <3>1, ResolvedFrame DEF F
  <2> QED BY <2>5, <2>6
<1> QED BY <1>2, <1>3 DEF PutTimeline

\* ... until nothing more is to be evicted: the loop stops before it reaches the last entry.
LEMMA EvictTimelinesCaches ==
  ASSUME CachesInv, NEW c \in Clients, EvictTimelines(c)
  PROVE  TimelineInv' /\ ResolvedInv'
<1> DEFINE h == handler[c]
           E == Entries(timelines)
           g == Head(timelineOrder)
<1>1. TypeInv /\ TimelineInv /\ ResolvedInv /\ h.step = "evictTimelines" /\ UNCHANGED resolvedVars
  BY DEF CachesInv, EvictTimelines, At
<1>2. /\ Orders(timelineOrder, E) /\ TimelineCapacity > 0
      /\ Newest(timelineOrder, timelines, F(c), h.timeline)
      /\ \A d \in Clients : At(d, "evictTimelines") => d = c
  BY <1>1 DEF TimelineInv, At
<1>3. E \subseteq Functions /\ Cardinality(E) \in Nat /\ TimelineCapacity \in Nat
  BY EntriesFinite, CacheAssumption DEF Entries
<1>4. CASE TimelinesOverflow /\ EvictTimeline /\ UNCHANGED handler
  <2>1. Len(timelineOrder) > 1
    BY <1>2, <1>3, <1>4, OrderLists DEF TimelinesOverflow, Lists
  <2>2. /\ g \in Functions /\ Orders(Tail(timelineOrder), E \ {g})
        /\ Tail(timelineOrder) # <<>> /\ Tail(timelineOrder)[Len(Tail(timelineOrder))] = F(c)
        /\ g # F(c)
    BY <1>2, <2>1, TailOrder DEF Newest
  <2>3. timelines' = [timelines EXCEPT ![g] = <<>>] /\ timelineOrder' = Tail(timelineOrder)
    BY <1>2, <1>4 DEF EvictTimeline, Newest
  <2>4. Entries(timelines') = E \ {g}
    BY <1>1, <2>2, <2>3, ClientFacts, EntriesPut DEF CacheTypeOK
  <2>5. timelines'[F(c)] = timelines[F(c)]
    BY <1>1, <2>2, <2>3, ClientFacts DEF CacheTypeOK
  <2>6. Newest(timelineOrder', timelines', F(c), h.timeline)
    BY <1>2, <2>2, <2>3, <2>5 DEF Newest
  <2>7. TimelineInv'
    <3>1. Orders(timelineOrder', Entries(timelines'))
      BY <2>2, <2>3, <2>4
    <3>2. ~TimelinesFree'
      BY <1>1, <1>4 DEF TimelinesFree, At
    <3> QED BY <1>2, <1>4, <2>6, <3>1, <3>2 DEF TimelineInv, At, F, Entries, TimelinesFree
  <2>8. ResolvedInv'
    BY <1>1, <1>4, ResolvedFrame DEF At, F
  <2> QED BY <2>7, <2>8
<1>5. CASE ~TimelinesOverflow /\ GoTo(c, "resolve") /\ UNCHANGED timelineVars
  <2>1. /\ handler'[c].step = "resolve"
        /\ \A d \in Clients \ {c} : handler'[d] = handler[d]
    BY <1>1, <1>5, StepSet
  <2>2. \A d \in Clients : ~At(d, "evictTimelines")'
    BY <1>2, <2>1 DEF At
  <2>3. Cardinality(E) <= TimelineCapacity
    BY <1>3, <1>5 DEF TimelinesOverflow
  <2>4. TimelineInv'
    BY <1>2, <1>5, <2>2, <2>3 DEF TimelineInv, timelineVars, Entries
  <2>5. ResolvedInv'
    <3>1. \A d \in Clients : /\ At(d, "evictResolved")' <=> At(d, "evictResolved")
                             /\ At(d, "evictResolved") => d # c
      BY <1>1, <2>1 DEF At
    <3> QED BY <1>1, <2>1, <3>1, ResolvedFrame DEF F
  <2> QED BY <2>4, <2>5
<1> QED BY <1>4, <1>5 DEF EvictTimelines

\* The same of the resolved functions: what is inserted replaces what was counted ...
LEMMA PutResolvedCaches ==
  ASSUME CachesInv, NEW c \in Clients, PutResolved(c)
  PROVE  TimelineInv' /\ ResolvedInv'
<1> DEFINE h == handler[c]
           E == Entries(resolved)
           g == [h EXCEPT !.resolved = h.timeline,
                          !.step = IF ChainCapacity = 0 THEN "respond" ELSE "evictResolved"]
<1>1. TypeInv /\ TimelineInv /\ ResolvedInv /\ h.step = "resolve" /\ h.timeline # <<>>
      /\ ResolvedFree /\ UNCHANGED timelineVars
  BY ClientFacts DEF CachesInv, PutResolved, At, HandlerOK
<1>2. /\ handler'[c].step = IF ChainCapacity = 0 THEN "respond" ELSE "evictResolved"
      /\ handler'[c].request = h.request /\ handler'[c].resolved = h.timeline
      /\ \A d \in Clients \ {c} : handler'[d] = handler[d]
  <2>1. handler' = [handler EXCEPT ![c] = g]
    BY DEF PutResolved
  <2>2. g.step = (IF ChainCapacity = 0 THEN "respond" ELSE "evictResolved")
        /\ g.request = h.request /\ g.resolved = h.timeline
    BY <1>1, ClientFacts DEF Handler
  <2> HIDE DEF g
  <2>3. handler'[c] = g /\ \A d \in Clients \ {c} : handler'[d] = handler[d]
    BY <1>1, <2>1, OnlyOne
  <2> QED BY <2>2, <2>3
<1>3. TimelineInv'
  <2>1. \A d \in Clients : /\ At(d, "evictTimelines")' <=> At(d, "evictTimelines")
                           /\ At(d, "evictTimelines") => d # c
    BY <1>1, <1>2 DEF At
  <2> QED BY <1>1, <1>2, <2>1, TimelineFrame DEF F
<1>4. CASE ChainCapacity = 0
  <2>1. UNCHANGED resolvedVars
    BY <1>4 DEF PutResolved
  <2>2. \A d \in Clients : At(d, "evictResolved")' <=> At(d, "evictResolved")
    BY <1>1, <1>2, <1>4 DEF At
  <2>3. ResolvedInv'
    BY <1>1, <2>1, <2>2, ResolvedFrame DEF ResolvedFree
  <2> QED BY <1>3, <2>3
<1>5. CASE ChainCapacity # 0
  <2>1. /\ resolved' = [resolved EXCEPT ![F(c)] = h.timeline]
        /\ chainCount' = WithoutPrevious(F(c)) + Chains[F(c)]
        /\ resolvedOrder' = Touch(resolvedOrder, F(c))
    BY <1>5 DEF PutResolved, InsertResolved
  <2>2. F(c)' = F(c) /\ F(c) \in Functions
    BY <1>1, <1>2, ClientFacts DEF F
  <2>3. \A d \in Clients : At(d, "evictResolved")' <=> d = c
    BY <1>1, <1>2, <1>5 DEF At, ResolvedFree
  <2>4. Entries(resolved') = E \union {F(c)}
    BY <1>1, <2>1, <2>2, ClientFacts, EntriesPut DEF CacheTypeOK
  <2>5. resolved'[F(c)] = h.timeline
    BY <1>1, <2>1, <2>2, ClientFacts DEF CacheTypeOK
  <2>6. /\ Orders(resolvedOrder', E \union {F(c)})
        /\ resolvedOrder' # <<>> /\ resolvedOrder'[Len(resolvedOrder')] = F(c)
    <3>1. Orders(resolvedOrder, E)
      BY <1>1 DEF ResolvedInv
    <3> QED BY <2>1, <2>2, <3>1, TouchOrder
  <2>7. chainCount' = Cardinality(CachedHistories')
    <3>1. WithoutPrevious(F(c)) = Cardinality(HistoriesOf(E \ {F(c)}))
      BY <1>1, <2>2, ClientFacts, CountWithout DEF ResolvedInv
    <3>2. Cardinality(HistoriesOf((E \ {F(c)}) \union {F(c)}))
            = Cardinality(HistoriesOf(E \ {F(c)})) + Chains[F(c)]
      BY <2>2, HistoriesAdded DEF Entries
    <3>3. (E \ {F(c)}) \union {F(c)} = E \union {F(c)}
      OBVIOUS
    <3>4. CachedHistories' = HistoriesOf(E \union {F(c)})
      BY <2>4 DEF CachedHistories, HistoriesOf
    <3> QED BY <2>1, <3>1, <3>2, <3>3, <3>4
  <2>8. Orders(resolvedOrder', Entries(resolved'))
        /\ Newest(resolvedOrder', resolved', F(c), h.timeline)
    BY <1>1, <2>4, <2>5, <2>6 DEF Newest
  <2>9. ResolvedInv'
    <3>1. ~ResolvedFree'
      BY <2>3 DEF ResolvedFree
    <3> QED BY <1>2, <2>2, <2>3, <2>7, <2>8, <3>1 DEF ResolvedInv, Entries
  <2> QED BY <1>3, <2>9
<1> QED BY <1>4, <1>5

\* ... and what is evicted is counted no longer.
LEMMA EvictResolvedCaches ==
  ASSUME CachesInv, NEW c \in Clients, EvictFromResolved(c)
  PROVE  TimelineInv' /\ ResolvedInv'
<1> DEFINE h == handler[c]
           E == Entries(resolved)
           g == Head(resolvedOrder)
<1>1. TypeInv /\ TimelineInv /\ ResolvedInv /\ h.step = "evictResolved" /\ UNCHANGED timelineVars
  BY DEF CachesInv, EvictFromResolved, At
<1>2. /\ Orders(resolvedOrder, E)
      /\ Newest(resolvedOrder, resolved, F(c), h.resolved)
      /\ \A d \in Clients : At(d, "evictResolved") => d = c
  BY <1>1 DEF ResolvedInv, At
<1>3. E \subseteq Functions /\ Cardinality(E) \in Nat
  BY EntriesFinite DEF Entries
<1>4. CASE ResolvedOverflow /\ EvictResolved /\ UNCHANGED handler
  <2>1. Len(resolvedOrder) > 1
    BY <1>2, <1>3, <1>4, OrderLists DEF ResolvedOverflow, Lists
  <2>2. /\ g \in Functions /\ g \in E /\ Orders(Tail(resolvedOrder), E \ {g})
        /\ Tail(resolvedOrder) # <<>> /\ Tail(resolvedOrder)[Len(Tail(resolvedOrder))] = F(c)
        /\ g # F(c)
    BY <1>2, <2>1, TailOrder DEF Newest
  <2>3. /\ resolved' = [resolved EXCEPT ![g] = <<>>] /\ resolvedOrder' = Tail(resolvedOrder)
        /\ chainCount' = WithoutPrevious(g)
    BY <1>4 DEF EvictResolved
  <2>4. Entries(resolved') = E \ {g}
    BY <1>1, <2>2, <2>3, ClientFacts, EntriesPut DEF CacheTypeOK
  <2>5. resolved'[F(c)] = resolved[F(c)]
    BY <1>1, <2>2, <2>3, ClientFacts DEF CacheTypeOK
  <2>6. Newest(resolvedOrder', resolved', F(c), h.resolved)
    BY <1>2, <2>2, <2>3, <2>5 DEF Newest
  <2>7. chainCount' = Cardinality(CachedHistories')
    <3>1. WithoutPrevious(g) = Cardinality(HistoriesOf(E \ {g}))
      BY <1>1, <2>2, ClientFacts, CountWithout DEF ResolvedInv
    <3>2. CachedHistories' = HistoriesOf(E \ {g})
      BY <2>4 DEF CachedHistories, HistoriesOf
    <3> QED BY <2>3, <3>1, <3>2
  <2>8. ResolvedInv'
    <3>1. Orders(resolvedOrder', Entries(resolved'))
      BY <2>2, <2>3, <2>4
    <3>2. ~ResolvedFree'
      BY <1>1, <1>4 DEF ResolvedFree, At
    <3> QED BY <1>2, <1>4, <2>6, <2>7, <3>1, <3>2 DEF ResolvedInv, At, F, Entries
  <2>9. TimelineInv'
    BY <1>1, <1>4, TimelineFrame DEF At, F
  <2> QED BY <2>8, <2>9
<1>5. CASE ~ResolvedOverflow /\ GoTo(c, "respond") /\ UNCHANGED resolvedVars
  <2>1. /\ handler'[c].step = "respond"
        /\ \A d \in Clients \ {c} : handler'[d] = handler[d]
    BY <1>1, <1>5, StepSet
  <2>2. \A d \in Clients : ~At(d, "evictResolved")'
    BY <1>2, <2>1 DEF At
  <2>3. chainCount <= ChainCapacity \/ Cardinality(E) = 1
    <3>1. resolvedOrder # <<>> /\ F(c) \in E
      BY <1>1, <1>2, ClientFacts DEF Newest, Entries
    <3>2. Cardinality(E) # 0
      BY <1>3, <3>1, EntriesFinite, FS_EmptySet
    <3>3. chainCount \in Nat /\ ChainCapacity \in Nat
      BY <1>1, ClientFacts, CacheAssumption DEF CacheTypeOK
    <3> QED BY <1>3, <1>5, <3>1, <3>2, <3>3 DEF ResolvedOverflow
  <2>4. ResolvedInv'
    BY <1>1, <1>2, <1>5, <2>2, <2>3 DEF ResolvedInv, resolvedVars, Entries, CachedHistories
  <2>5. TimelineInv'
    <3>1. \A d \in Clients : /\ At(d, "evictTimelines")' <=> At(d, "evictTimelines")
                             /\ At(d, "evictTimelines") => d # c
      BY <1>1, <2>1 DEF At
    <3> QED BY <1>1, <2>1, <3>1, TimelineFrame DEF F
  <2> QED BY <2>4, <2>5
<1> QED BY <1>4, <1>5 DEF EvictFromResolved

\* Empty caches.
LEMMA InitCaches == Init => CachesInv
<1> SUFFICES ASSUME Init PROVE CachesInv
  OBVIOUS
<1>1. TypeInv
  BY InitType
<1>2. \A c \in Clients : ~At(c, "evictTimelines") /\ ~At(c, "evictResolved")
  BY DEF Init, At
<1>3. Entries(timelines) = {} /\ Entries(resolved) = {} /\ CachedHistories = {}
  BY DEF Init, CacheInit, Entries, CachedHistories
<1>4. Orders(<<>>, {})
  BY DEF Orders
<1>5. Cardinality({}) = 0
  BY FS_EmptySet
<1>6. timelineOrder = <<>> /\ resolvedOrder = <<>> /\ chainCount = 0
  BY DEF Init, CacheInit
<1>7. TimelineInv
  BY <1>2, <1>3, <1>4, <1>5, <1>6, CacheAssumption DEF TimelineInv
<1>8. ResolvedInv
  BY <1>2, <1>3, <1>4, <1>5, <1>6, CacheAssumption DEF ResolvedInv
<1> QED BY <1>1, <1>7, <1>8 DEF CachesInv

\* One step.
LEMMA NextCaches ==
  ASSUME CachesInv, [Next]_vars
  PROVE  CachesInv'
<1>1. TypeInv'
  BY NextType DEF CachesInv
<1>2. ASSUME NEW c \in Clients, Handle(c) PROVE TimelineInv' /\ ResolvedInv'
  BY <1>2, OtherCaches, PutTimelineCaches, EvictTimelinesCaches, PutResolvedCaches,
     EvictResolvedCaches DEF Handle
<1>3. ASSUME NEW c \in Clients, NEW r \in Requests, Receive(c, r) PROVE TimelineInv' /\ ResolvedInv'
  BY <1>3, OtherCaches
<1>4. ASSUME Recapture \/ UNCHANGED vars PROVE TimelineInv' /\ ResolvedInv'
  <2>1. UNCHANGED timelineVars /\ UNCHANGED resolvedVars /\ UNCHANGED handler
    BY <1>4 DEF Recapture, vars, cacheVars
  <2> QED BY <2>1, TimelineFrame, ResolvedFrame DEF CachesInv, At, F
<1>5. TimelineInv' /\ ResolvedInv'
  <2>1. Next \/ UNCHANGED vars
    OBVIOUS
  <2> QED BY <1>2, <1>3, <1>4, <2>1 DEF Next
<1> QED BY <1>1, <1>5 DEF CachesInv

\* The inductive invariant of the two caches that evict.
THEOREM CachesInvariant == Spec => []CachesInv
BY InitCaches, NextCaches, PTL DEF Spec

\* The queue of each bounded cache lists the keys of its entries, each once, whatever handlers
\* touch, insert and evict: the eviction loops always find the entry they look for.
THEOREM OrdersAreKeys == Spec => []OrdersListKeys
<1>1. CachesInv => OrdersListKeys
  BY OrderLists DEF CachesInv, TimelineInv, ResolvedInv, OrdersListKeys
<1> QED BY <1>1, CachesInvariant, PTL

\* Whenever its mutex is free a cache is within its capacity, up to one resolved function that
\* exceeds it alone, and chain_count is the number of cached histories, even when two handlers
\* insert the same function.
THEOREM CachesStayBounded == Spec => []CachesBounded
<1>1. CachesInv => CachesBounded
  BY DEF CachesInv, TimelineInv, ResolvedInv, CachesBounded
<1> QED BY <1>1, CachesInvariant, PTL

\* A handler that moves is the only one.
LEMMA MovesOnlyOne ==
  ASSUME TypeInv, NEW c \in Clients, Handle(c) \/ \E r \in Requests : Receive(c, r)
  PROVE  \A d \in Clients \ {c} : handler'[d] = handler[d]
<1>1. CASE PutTimeline(c) \/ EvictTimelines(c) \/ EvictFromResolved(c)
  <2>1. (\E step : GoTo(c, step)) \/ UNCHANGED handler
    BY <1>1 DEF PutTimeline, EvictTimelines, EvictFromResolved
  <2> QED BY <2>1, StepSet
<1>2. CASE PutResolved(c)
  BY <1>2, OnlyOne DEF PutResolved
<1>3. CASE Elsewhere(c)
  BY <1>3 DEF Elsewhere
<1> QED BY <1>1, <1>2, <1>3, OtherSteps DEF Handle

\* What a handler inserted is still there when its evictions are over, whatever its size.
THEOREM EvictionSparesNewest == Spec => NewestSurvives
<1> DEFINE Spared == \A c \in Clients :
       /\ Leaves(c, "evictTimelines") => timelines'[F(c)] = handler[c].timeline
       /\ Leaves(c, "evictResolved") => resolved'[F(c)] = handler[c].resolved
<1>1. CachesInv /\ [Next]_vars => [Spared]_vars
  <2> SUFFICES ASSUME CachesInv, Next, NEW c \in Clients
               PROVE  /\ Leaves(c, "evictTimelines") => timelines'[F(c)] = handler[c].timeline
                      /\ Leaves(c, "evictResolved") => resolved'[F(c)] = handler[c].resolved
    OBVIOUS
  <2>1. TypeInv /\ TimelineInv /\ ResolvedInv
    BY DEF CachesInv
  <2>2. ASSUME Leaves(c, "evictTimelines") \/ Leaves(c, "evictResolved")
        PROVE  EvictTimelines(c) \/ EvictFromResolved(c)
    <3>1. handler'[c] # handler[c] /\ handler[c].step \in Evicting
      BY <2>2 DEF Leaves, At, Evicting
    <3>2. PICK d \in Clients : Handle(d) \/ \E r \in Requests : Receive(d, r)
      BY <3>1 DEF Next, Recapture
    <3>3. d = c
      BY <2>1, <3>1, <3>2, MovesOnlyOne
    <3>4. ~Elsewhere(c) /\ ~PutTimeline(c) /\ ~PutResolved(c)
      BY <3>1 DEF Elsewhere, PutTimeline, PutResolved, At, Evicting
    <3> QED BY <2>1, <3>2, <3>3, <3>4, OtherSteps DEF Handle
  <2>3. ASSUME Leaves(c, "evictTimelines") PROVE timelines'[F(c)] = handler[c].timeline
    <3>1. UNCHANGED timelineVars
      BY <2>2, <2>3 DEF EvictTimelines, EvictFromResolved, Leaves, At
    <3>2. timelines[F(c)] = handler[c].timeline
      BY <2>1, <2>3 DEF TimelineInv, Newest, Leaves
    <3> QED BY <3>1, <3>2 DEF timelineVars
  <2>4. ASSUME Leaves(c, "evictResolved") PROVE resolved'[F(c)] = handler[c].resolved
    <3>1. UNCHANGED resolvedVars
      BY <2>2, <2>4 DEF EvictTimelines, EvictFromResolved, Leaves, At
    <3>2. resolved[F(c)] = handler[c].resolved
      BY <2>1, <2>4 DEF ResolvedInv, Newest, Leaves
    <3> QED BY <3>1, <3>2 DEF resolvedVars
  <2> QED BY <2>3, <2>4
<1> QED BY <1>1, CachesInvariant, PTL DEF Spec, NewestSurvives

-----------------------------------------------------------------------------
(* The answers.                                                             *)

\* The timeline of a function in the served file, and the text of a function in a text.
Whole(f) == Timeline(f, trace, trace.text)
Scope(f, text) == IF f \in Defines[text] THEN text ELSE NoText

\* Every entry of every cache is what the served file says.
CachesRight ==
  /\ \A b \in Blobs : parsed[b] \in {NoText, trace.text[b]}
  /\ \A before, after \in Blobs, f \in Functions :
       diffs[<<before, after, f>>]
         \in {<<>>, <<Scope(f, trace.text[before]), Scope(f, trace.text[after])>>}
  /\ \A f \in Functions : timelines[f] \in {<<>>, Whole(f)} /\ resolved[f] \in {<<>>, Whole(f)}

Parsed(h, blobs) == \A b \in blobs : h.module[b] = trace.text[b]

\* So is what a handler has gathered so far: what it has parsed is the text of the file, of every
\* blob it is through with.
HandlerRight(c) ==
  LET h == handler[c] IN
  /\ h.reader = trace
  /\ h.step # "idle" => h.answer = NoAnswer
  /\ h.step = "parse" => Parsed(h, BlobsToShow(h.request, trace) \ h.todo)
  /\ h.step \notin {"idle", "parse"} => Parsed(h, BlobsToShow(h.request, trace))
  /\ h.step = "build" => Parsed(h, LeafBlobs(trace) \ h.todo)
  /\ h.step \in {"putTimeline", "evictTimelines", "resolve"} => h.timeline = Whole(F(c))
  /\ h.step \in {"evictResolved", "respond"} => h.resolved = Whole(F(c))

\* AnswersUnlessEvicted of one client.
AnswerRight(c) ==
  Answered(c) =>
    LET h == handler[c]
        stages == Timeline(F(c), h.reader, h.reader.text)
        hidden == ProvenanceAnswer(h.request, h.reader, h.reader.text, <<>>, stages)
    IN \/ h.answer = Expected(h.request, h.reader)
       \/ h.request.kind \in {"ops", "graph", "graphDiff"} /\ h.answer = hidden

RightInv ==
  /\ TypeInv
  /\ CachesRight
  /\ \A c \in Clients : HandlerRight(c) /\ AnswerRight(c)

\* The snapshots of a file have texts.
LEMMA TextFacts ==
  ASSUME NEW tr \in Trace
  PROVE  /\ tr.text \in Modules
         /\ \A b \in Blobs : tr.text[b] \in Texts /\ tr.text[b] # NoText
BY CacheAssumption DEF Trace, Modules, OptTexts

\* A side shows the same if its blob holds the same.
LEMMA ScopeAgrees ==
  ASSUME NEW tr \in Trace, NEW module, NEW f, NEW p \in Passes, NEW side \in Sides,
         tr.snapshot[p][side] # NoBlob => module[tr.snapshot[p][side]] = tr.text[tr.snapshot[p][side]]
  PROVE  /\ TextOf(module, tr.snapshot[p][side]) = TextOf(tr.text, tr.snapshot[p][side])
         /\ ScopeText(f, tr, module, p, side) = ScopeText(f, tr, tr.text, p, side)
BY DEF TextOf, ScopeText

\* A timeline depends on the blobs of the leaves only: those that are parsed before it is built.
LEMMA TimelineAgrees ==
  ASSUME NEW tr \in Trace, NEW module, NEW f, \A b \in LeafBlobs(tr) : module[b] = tr.text[b]
  PROVE  Timeline(f, tr, module) = Timeline(f, tr, tr.text)
<1> DEFINE passes == StagePasses(f, tr, module)
<1>1. \A p \in tr.leaves, side \in Sides :
         ScopeText(f, tr, module, p, side) = ScopeText(f, tr, tr.text, p, side)
  <2> TAKE p \in tr.leaves, side \in Sides
  <2>1. p \in Passes
    BY DEF Trace
  <2>2. tr.snapshot[p][side] # NoBlob => tr.snapshot[p][side] \in LeafBlobs(tr)
    BY <2>1, TraceFacts DEF LeafBlobs
  <2> QED BY <2>1, <2>2, ScopeAgrees
<1>2. passes = StagePasses(f, tr, tr.text) /\ passes \subseteq tr.leaves
  BY <1>1 DEF StagePasses
<1>3. /\ passes \in SUBSET Nat /\ IsFiniteSet(passes)
  BY StagePassesFacts
<1>4. Timeline(f, tr, module)
        = [i \in 1 .. Cardinality(passes) |->
             [pass |-> Nth(passes, i),
              text |-> [side \in Sides |-> ScopeText(f, tr, module, Nth(passes, i), side)]]]
  BY DEF Timeline
<1>5. Timeline(f, tr, tr.text)
        = [i \in 1 .. Cardinality(passes) |->
             [pass |-> Nth(passes, i),
              text |-> [side \in Sides |-> ScopeText(f, tr, tr.text, Nth(passes, i), side)]]]
  BY <1>2 DEF Timeline
<1> HIDE DEF passes
<1>6. \A i \in 1 .. Cardinality(passes) :
        [side \in Sides |-> ScopeText(f, tr, module, Nth(passes, i), side)]
          = [side \in Sides |-> ScopeText(f, tr, tr.text, Nth(passes, i), side)]
  BY <1>1, <1>2, <1>3, NthFacts
<1> QED BY <1>4, <1>5, <1>6

\* What is shown depends on the blobs that BlobsToShow names only ...
LEMMA ShownAgrees ==
  ASSUME NEW tr \in Trace, NEW r \in Request, NEW module,
         r.kind \notin {"ops", "history"},
         \A b \in BlobsToShow(r, tr) : module[b] = tr.text[b]
  PROVE  Shown(r, tr, module) = Shown(r, tr, tr.text)
<1>1. r.pass \in Passes /\ r.kind \in Kinds
  BY DEF Request
<1>2. CASE r.kind \in {"functions", "diff", "graphDiff"}
  <2>1. \A side \in Sides :
          /\ TextOf(module, tr.snapshot[r.pass][side]) = TextOf(tr.text, tr.snapshot[r.pass][side])
          /\ ScopeText(r.function, tr, module, r.pass, side)
               = ScopeText(r.function, tr, tr.text, r.pass, side)
    BY <1>1, <1>2, TraceFacts, ScopeAgrees DEF BlobsToShow
  <2>2. "before" \in Sides /\ "after" \in Sides
    BY DEF Sides
  <2>3. \A i \in 1 .. 2 : TextOf(module, Both(r, tr)[i]) = TextOf(tr.text, Both(r, tr)[i])
    BY <2>1, <2>2 DEF Both, Blob
  <2> QED BY <1>2, <2>1, <2>2, <2>3 DEF Shown
<1>3. CASE r.kind = "graph"
  <2>1. GraphSide(r, tr) \in Sides
    BY GraphSideFacts
  <2>2. ScopeText(r.function, tr, module, r.pass, GraphSide(r, tr))
          = ScopeText(r.function, tr, tr.text, r.pass, GraphSide(r, tr))
    BY <1>1, <1>3, <2>1, ScopeAgrees DEF BlobsToShow, Blob
  <2> QED BY <1>3, <2>2 DEF Shown
<1> QED BY <1>1, <1>2, <1>3 DEF Kinds

\* ... and so does the part of an answer with provenance that is not of the timeline.
LEMMA AnswerAgrees ==
  ASSUME NEW tr \in Trace, NEW r \in Request, NEW module, NEW stages, NEW res,
         \A b \in BlobsToShow(r, tr) : module[b] = tr.text[b]
  PROVE  ProvenanceAnswer(r, tr, module, stages, res) = ProvenanceAnswer(r, tr, tr.text, stages, res)
BY ShownAgrees DEF ProvenanceAnswer

\* What is known of a handler.
LEMMA RightFacts ==
  ASSUME RightInv, NEW c \in Clients
  PROVE  /\ TypeInv /\ CachesRight /\ HandlerRight(c) /\ AnswerRight(c)
         /\ handler[c].reader = trace /\ trace \in Trace
         /\ handler[c].request.function = F(c) /\ handler[c].request \in Request
         /\ F(c) \in Functions
BY ClientFacts DEF RightInv, HandlerRight

\* It suffices to look at the caches and the handler that moves.
LEMMA RightStep ==
  ASSUME RightInv, UNCHANGED trace, CachesRight', NEW c \in Clients,
         \A d \in Clients \ {c} : handler'[d] = handler[d],
         HandlerRight(c)', AnswerRight(c)'
  PROVE  CachesRight' /\ \A d \in Clients : HandlerRight(d)' /\ AnswerRight(d)'
<1>1. ASSUME NEW d \in Clients, handler'[d] = handler[d] PROVE HandlerRight(d)' /\ AnswerRight(d)'
  BY <1>1 DEF RightInv, HandlerRight, AnswerRight, Answered, F, Whole, Parsed
<1> QED BY <1>1

\* Caches that do not change stay right.
LEMMA SameCaches ==
  ASSUME CachesRight, UNCHANGED <<cacheVars, trace>>
  PROVE  CachesRight'
BY DEF CachesRight, cacheVars, parsedVars, timelineVars, resolvedVars, Whole

\* What may be answered.
RightAnswer(c, answer) ==
  LET h == handler[c]
      hidden == ProvenanceAnswer(h.request, trace, trace.text, <<>>, Whole(F(c)))
  IN \/ answer = Expected(h.request, trace)
     \/ h.request.kind \in {"ops", "graph", "graphDiff"} /\ answer = hidden

\* Responding with it.
LEMMA RespondRight ==
  ASSUME RightInv, NEW c \in Clients, NEW answer, Respond(c, answer), RightAnswer(c, answer),
         UNCHANGED trace, CachesRight'
  PROVE  CachesRight' /\ \A d \in Clients : HandlerRight(d)' /\ AnswerRight(d)'
<1>1. /\ handler'[c].step = "idle" /\ handler'[c].answer = answer
      /\ handler'[c].request = handler[c].request
      /\ handler'[c].reader = handler[c].reader
      /\ \A d \in Clients \ {c} : handler'[d] = handler[d]
  BY RightFacts, Responded
<1>2. handler[c].reader = trace /\ F(c)' = F(c)
  BY <1>1, RightFacts DEF F
<1>3. HandlerRight(c)'
  BY <1>1, <1>2 DEF HandlerRight
<1>4. AnswerRight(c)'
  BY <1>1, <1>2 DEF AnswerRight, RightAnswer, Whole
<1> QED BY <1>1, <1>3, <1>4, RightStep

\* Nothing is claimed of a handler at work.
LEMMA NotAnswered ==
  ASSUME NEW c, handler'[c].answer = NoAnswer
  PROVE  AnswerRight(c)'
BY DEF AnswerRight, Answered

\* What is expected of a request that was not refused, with provenance ...
LEMMA ExpectedProvenance ==
  ASSUME TypeInv, NEW c \in Clients, handler[c].reader = trace, handler[c].step # "idle",
         handler[c].request.kind \in ProvenanceKinds
  PROVE  Expected(handler[c].request, trace)
           = ProvenanceAnswer(handler[c].request, trace, trace.text, Whole(F(c)), Whole(F(c)))
BY ClientFacts DEF HandlerOK, Expected, ProvenanceKinds, Whole

\* ... and without.
LEMMA ExpectedShown ==
  ASSUME TypeInv, NEW c \in Clients, handler[c].reader = trace, handler[c].step # "idle",
         handler[c].request.kind \in {"functions", "diff"}
  PROVE  Expected(handler[c].request, trace) = Ok(Shown(handler[c].request, trace, trace.text))
BY ClientFacts DEF HandlerOK, Expected

\* Parsing: from the cache or from the file, a blob is what the file says.
LEMMA ParseRight ==
  ASSUME RightInv, NEW c \in Clients, LookupParsed(c) \/ FillParsed(c)
  PROVE  CachesRight' /\ \A d \in Clients : HandlerRight(d)' /\ AnswerRight(d)'
<1> DEFINE h == handler[c]
           b == NextBlob(c)
           t == trace.text[b]
<1>1. TypeInv /\ HandlerRight(c) /\ h \in Handler /\ h.reader = trace
      /\ h.step \in {"parse", "build"} /\ h.todo # {} /\ UNCHANGED trace /\ h.answer = NoAnswer
  <2>1. h.step \in {"parse", "build"} /\ h.todo # {}
    BY RightFacts, ClientFacts DEF LookupParsed, FillParsed, HandlerOK
  <2> QED BY <2>1, RightFacts, ClientFacts DEF LookupParsed, FillParsed, HandlerRight
<1>2. b \in h.todo /\ b \in Blobs
  <2>1. b \in h.todo
    BY <1>1 DEF NextBlob
  <2> QED BY <1>1, <2>1 DEF Handler
<1> HIDE DEF b
<1>3. /\ Take(h, b, t).step = h.step /\ Take(h, b, t).request = h.request
      /\ Take(h, b, t).reader = trace /\ Take(h, b, t).answer = NoAnswer
      /\ Take(h, b, t).todo = h.todo \ {b}
      /\ Take(h, b, t).module[b] = t
      /\ \A a \in Blobs : a # b => Take(h, b, t).module[a] = h.module[a]
  BY <1>1, <1>2 DEF Take, Handler
<1>4. /\ BlobsToShow(h.request, trace) \subseteq Blobs /\ LeafBlobs(trace) \subseteq Blobs
  <2>1. Refusal(h.request, trace) = "none" /\ trace \in Trace /\ h.request \in Request
    BY <1>1, ClientFacts DEF HandlerOK
  <2>2. \A p \in trace.leaves : p \in Passes /\ Snapshots(p, trace) \subseteq Blobs
    BY <2>1, TraceFacts DEF Trace
  <2> QED BY <2>1, <2>2, ToShowFacts DEF LeafBlobs
<1>5. ASSUME handler' = [handler EXCEPT ![c] = Take(h, b, t)], CachesRight'
      PROVE  CachesRight' /\ \A d \in Clients : HandlerRight(d)' /\ AnswerRight(d)'
  <2>1. handler'[c] = Take(h, b, t) /\ \A d \in Clients \ {c} : handler'[d] = handler[d]
    BY <1>1, <1>5, OnlyOne
  <2>2. HandlerRight(c)'
    BY <1>1, <1>3, <1>4, <2>1 DEF HandlerRight, Parsed, F, Whole
  <2> QED BY <1>1, <1>3, <1>5, <2>1, <2>2, NotAnswered, RightStep
<1>6. CASE LookupParsed(c)
  <2>1. UNCHANGED <<cacheVars, trace>> /\ CachesRight'
    BY <1>6, RightFacts, SameCaches DEF LookupParsed
  <2>2. CASE parsed[b] # NoText
    <3>1. parsed[b] = t
      BY <1>2, <2>2, RightFacts DEF CachesRight
    <3>2. handler' = [handler EXCEPT ![c] = Take(h, b, t)]
      BY <1>6, <2>2, <3>1 DEF LookupParsed, b
    <3> QED BY <1>5, <2>1, <3>2
  <2>3. CASE parsed[b] = NoText
    <3> DEFINE g == [h EXCEPT !.filling = TRUE]
    <3>1. handler' = [handler EXCEPT ![c] = g]
      BY <1>6, <2>3 DEF LookupParsed, b
    <3>2. /\ g.step = h.step /\ g.request = h.request /\ g.reader = trace /\ g.answer = NoAnswer
          /\ g.todo = h.todo /\ g.module = h.module
      BY <1>1 DEF Handler
    <3> HIDE DEF g
    <3>3. handler'[c] = g /\ \A d \in Clients \ {c} : handler'[d] = handler[d]
      BY <1>1, <3>1, OnlyOne
    <3>4. HandlerRight(c)'
      BY <1>1, <3>2, <3>3 DEF HandlerRight, Parsed, F, Whole
    <3> QED BY <1>1, <2>1, <3>2, <3>3, <3>4, NotAnswered, RightStep
  <2> QED BY <2>2, <2>3
<1>7. CASE FillParsed(c)
  <2>1. parsed' = [parsed EXCEPT ![b] = t] /\ UNCHANGED <<diffs, timelineVars, resolvedVars, trace>>
    BY <1>1, <1>7 DEF FillParsed, InsertParsed, b
  <2>2. CachesRight'
    <3>1. parsed \in [Blobs -> OptTexts]
      BY <1>1, ClientFacts DEF CacheTypeOK
    <3>2. \A a \in Blobs : parsed'[a] \in {NoText, trace.text[a]}
      BY <2>1, <3>1, RightFacts DEF CachesRight
    <3> QED BY <2>1, <3>2, RightFacts DEF CachesRight, timelineVars, resolvedVars, Whole
  <2>3. handler' = [handler EXCEPT ![c] = Take(h, b, t)]
    BY <1>1, <1>7 DEF FillParsed, b
  <2> QED BY <1>5, <2>2, <2>3
<1> QED BY <1>6, <1>7

\* Past the parsing, all that is to be shown is known.
LEMMA AllShownParsed ==
  ASSUME RightInv, NEW c \in Clients, handler[c].step # "idle",
         handler[c].step = "parse" => handler[c].todo = {}
  PROVE  /\ Parsed(handler[c], BlobsToShow(handler[c].request, trace))
         /\ handler[c].answer = NoAnswer
<1>1. BlobsToShow(handler[c].request, trace) \ {} = BlobsToShow(handler[c].request, trace)
  OBVIOUS
<1> QED BY <1>1, RightFacts DEF HandlerRight

\* A step to work that is still to be done.
LEMMA MoveRight ==
  ASSUME RightInv, NEW c \in Clients, handler[c].step # "idle",
         handler[c].step = "parse" => handler[c].todo = {},
         NEW g, handler' = [handler EXCEPT ![c] = g], UNCHANGED trace, CachesRight',
         g.request = handler[c].request, g.reader = handler[c].reader,
         g.answer = handler[c].answer, g.module = handler[c].module,
         g.step \notin {"idle", "parse"},
         g.step = "build" => Parsed(g, LeafBlobs(trace) \ g.todo),
         g.step \in {"putTimeline", "evictTimelines", "resolve"} => g.timeline = Whole(F(c)),
         g.step \in {"evictResolved", "respond"} => g.resolved = Whole(F(c))
  PROVE  CachesRight' /\ \A d \in Clients : HandlerRight(d)' /\ AnswerRight(d)'
<1>1. handler'[c] = g /\ \A d \in Clients \ {c} : handler'[d] = handler[d]
  BY RightFacts, OnlyOne
<1>2. Parsed(handler[c], BlobsToShow(handler[c].request, trace)) /\ g.answer = NoAnswer
  BY AllShownParsed
<1>3. handler[c].reader = trace
  BY RightFacts
<1>4. HandlerRight(c)'
  BY <1>1, <1>2, <1>3 DEF HandlerRight, Parsed, F, Whole
<1> QED BY <1>1, <1>2, <1>4, NotAnswered, RightStep

\* The answer to a request without provenance.
LEMMA ShownRight ==
  ASSUME RightInv, NEW c \in Clients, handler[c].step # "idle",
         handler[c].step = "parse" => handler[c].todo = {},
         handler[c].request.kind \in {"functions", "diff"}
  PROVE  LET texts == Shown(handler[c].request, handler[c].reader, handler[c].module)
         IN  /\ texts = Shown(handler[c].request, trace, trace.text)
             /\ RightAnswer(c, Ok(texts))
<1>1. Parsed(handler[c], BlobsToShow(handler[c].request, trace))
  BY AllShownParsed
<1>2. Shown(handler[c].request, trace, handler[c].module) = Shown(handler[c].request, trace, trace.text)
  BY <1>1, RightFacts, ShownAgrees DEF Parsed
<1>3. handler[c].reader = trace /\ TypeInv
  BY RightFacts
<1> QED BY <1>2, <1>3, ExpectedShown DEF RightAnswer

\* Requests for a diff: the entry of a pair of blobs and a function is of these.
LEMMA DiffRight ==
  ASSUME RightInv, NEW c \in Clients, RespondFunctions(c) \/ LookupDiff(c) \/ FillDiff(c)
  PROVE  CachesRight' /\ \A d \in Clients : HandlerRight(d)' /\ AnswerRight(d)'
<1> DEFINE h == handler[c]
           texts == Shown(h.request, h.reader, h.module)
           before == Blob(h.request, h.reader, "before")
           after  == Blob(h.request, h.reader, "after")
<1>1. /\ TypeInv /\ h.reader = trace /\ trace \in Trace /\ UNCHANGED trace
      /\ h.step \in {"parse", "diff"} /\ h.todo = {}
      /\ h.request.kind \in {"functions", "diff"}
      /\ LookupDiff(c) \/ FillDiff(c) => h.request.kind = "diff"
  BY RightFacts, ClientFacts DEF RespondFunctions, LookupDiff, FillDiff, AllParsed, At, HandlerOK
<1>2. RightAnswer(c, Ok(texts)) /\ texts = Shown(h.request, trace, trace.text)
  BY <1>1, ShownRight
<1>3. ASSUME UNCHANGED cacheVars, Respond(c, Ok(texts))
      PROVE  CachesRight' /\ \A d \in Clients : HandlerRight(d)' /\ AnswerRight(d)'
  BY <1>1, <1>2, <1>3, RightFacts, SameCaches, RespondRight
<1>4. ASSUME h.request.kind = "diff"
      PROVE  /\ before \in Blobs /\ after \in Blobs /\ DiffKey(c) = <<before, after, F(c)>>
             /\ texts = <<Scope(F(c), trace.text[before]), Scope(F(c), trace.text[after])>>
  <2>1. Refusal(h.request, trace) = "none" /\ h.request.pass \in Passes
    BY <1>1, ClientFacts DEF HandlerOK, Request
  <2>2. \A side \in Sides : trace.snapshot[h.request.pass][side] # NoBlob
    BY <1>4, <2>1 DEF Refusal, Blob
  <2>3. \A side \in Sides : trace.snapshot[h.request.pass][side] \in Blobs
    BY <1>1, <2>1, <2>2, TraceFacts DEF OptBlobs
  <2>4. "before" \in Sides /\ "after" \in Sides
    BY DEF Sides
  <2>5. before \in Blobs /\ after \in Blobs
    BY <1>1, <2>3, <2>4 DEF Blob
  <2>6. DiffKey(c) = <<before, after, F(c)>>
    BY PairWith DEF DiffKey, Both
  <2>7. \A side \in Sides : ScopeText(F(c), trace, trace.text, h.request.pass, side)
                              = Scope(F(c), trace.text[trace.snapshot[h.request.pass][side]])
    BY <1>1, <2>2, <2>3, TextFacts DEF ScopeText, TextOf, Scope
  <2>8. texts = <<ScopeText(F(c), trace, trace.text, h.request.pass, "before"),
                  ScopeText(F(c), trace, trace.text, h.request.pass, "after")>>
    BY <1>1, <1>2, <1>4, RightFacts DEF Shown
  <2> QED BY <1>1, <2>4, <2>5, <2>6, <2>7, <2>8 DEF Blob
<1>5. CASE RespondFunctions(c)
  BY <1>3, <1>5 DEF RespondFunctions
<1>6. CASE LookupDiff(c)
  <2>1. UNCHANGED cacheVars /\ CachesRight'
    BY <1>6, RightFacts, SameCaches DEF LookupDiff
  <2>2. CASE Respond(c, Ok(texts))
    BY <1>3, <2>1, <2>2
  <2>3. CASE diffs[DiffKey(c)] # <<>> /\ Respond(c, Ok(diffs[DiffKey(c)]))
    <3>1. diffs[DiffKey(c)] = texts
      BY <1>1, <1>4, <1>6, <2>3, RightFacts DEF CachesRight
    <3> QED BY <1>3, <2>1, <2>3, <3>1
  <2>4. CASE GoTo(c, "diff")
    <3> DEFINE g == [h EXCEPT !.step = "diff"]
    <3>1. /\ g.step = "diff" /\ g.request = h.request /\ g.reader = h.reader
          /\ g.answer = h.answer /\ g.module = h.module
      BY <1>1, ClientFacts DEF Handler
    <3>2. handler' = [handler EXCEPT ![c] = g]
      BY <2>4 DEF GoTo
    <3> HIDE DEF g
    <3> QED BY <1>1, <2>1, <3>1, <3>2, MoveRight
  <2> QED BY <1>6, <2>2, <2>3, <2>4 DEF LookupDiff
<1>7. CASE FillDiff(c)
  <2>1. diffs' = [diffs EXCEPT ![DiffKey(c)] = texts]
        /\ UNCHANGED <<parsed, timelineVars, resolvedVars>> /\ Respond(c, Ok(texts))
    BY <1>7 DEF FillDiff, InsertDiff
  <2>2. CachesRight'
    <3>1. ASSUME NEW b \in Blobs, NEW a \in Blobs, NEW f \in Functions
          PROVE  diffs'[<<b, a, f>>]
                   \in {<<>>, <<Scope(f, trace.text[b]), Scope(f, trace.text[a])>>}
      <4>1. diffs \in [DiffKeys -> {<<>>} \union (OptTexts \X OptTexts)] /\ <<b, a, f>> \in DiffKeys
        BY <1>1, ClientFacts DEF CacheTypeOK, DiffKeys
      <4>2. CASE <<b, a, f>> = DiffKey(c)
        BY <1>1, <1>4, <1>7, <2>1, <4>1, <4>2
      <4>3. CASE <<b, a, f>> # DiffKey(c)
        BY <2>1, <4>1, <4>3, RightFacts DEF CachesRight
      <4> QED BY <4>2, <4>3
    <3> QED BY <1>1, <2>1, <3>1, RightFacts DEF CachesRight, timelineVars, resolvedVars, Whole
  <2> QED BY <1>1, <1>2, <2>1, <2>2, RespondRight
<1> QED BY <1>5, <1>6, <1>7

\* The orders of use do not matter to what is in the caches.
LEMMA UsedCaches ==
  ASSUME CachesRight, UNCHANGED <<parsed, diffs, timelines, resolved, trace>>
  PROVE  CachesRight'
BY DEF CachesRight, Whole

\* A lookup finds what the file says, or nothing.
LEMMA LookupRight ==
  ASSUME RightInv, NEW c \in Clients, LookupResolved(c) \/ LookupTimeline(c)
  PROVE  CachesRight' /\ \A d \in Clients : HandlerRight(d)' /\ AnswerRight(d)'
<1> DEFINE h == handler[c]
<1>1. /\ TypeInv /\ h \in Handler /\ h.reader = trace /\ F(c) \in Functions /\ UNCHANGED trace
      /\ h.step \in {"parse", "timeline"} /\ (h.step = "parse" => h.todo = {})
  BY RightFacts, ClientFacts DEF LookupResolved, LookupTimeline, AllParsed, At
<1>2. CachesRight'
  BY RightFacts, UsedCaches DEF LookupResolved, LookupTimeline, UseResolved, UseTimeline,
     parsedVars, timelineVars, resolvedVars
<1>3. resolved[F(c)] \in {<<>>, Whole(F(c))} /\ timelines[F(c)] \in {<<>>, Whole(F(c))}
  BY <1>1, RightFacts DEF CachesRight
<1>4. CASE LookupResolved(c)
  <2> DEFINE g == [h EXCEPT !.resolved = resolved[F(c)],
                            !.step = IF resolved[F(c)] # <<>> THEN "respond" ELSE "timeline"]
  <2>1. handler' = [handler EXCEPT ![c] = g]
    BY <1>4 DEF LookupResolved
  <2>2. /\ g.request = h.request /\ g.reader = h.reader /\ g.answer = h.answer
        /\ g.module = h.module /\ g.resolved = resolved[F(c)]
        /\ g.step = IF resolved[F(c)] # <<>> THEN "respond" ELSE "timeline"
    BY <1>1 DEF Handler
  <2> HIDE DEF g
  <2> QED BY <1>1, <1>2, <1>3, <2>1, <2>2, MoveRight
<1>5. CASE LookupTimeline(c)
  <2> DEFINE use   == [h EXCEPT !.timeline = timelines[F(c)], !.step = "resolve"]
             build == [h EXCEPT !.todo = LeafBlobs(h.reader), !.step = "build"]
  <2>1. \/ timelines[F(c)] # <<>> /\ handler' = [handler EXCEPT ![c] = use]
        \/ handler' = [handler EXCEPT ![c] = build]
    BY <1>5 DEF LookupTimeline
  <2>2. /\ use.request = h.request /\ use.reader = h.reader /\ use.answer = h.answer
        /\ use.module = h.module /\ use.timeline = timelines[F(c)] /\ use.step = "resolve"
    BY <1>1 DEF Handler
  <2>3. /\ build.request = h.request /\ build.reader = h.reader /\ build.answer = h.answer
        /\ build.module = h.module /\ build.todo = LeafBlobs(trace) /\ build.step = "build"
    BY <1>1 DEF Handler
  <2> HIDE DEF use, build
  <2>4. Parsed(build, LeafBlobs(trace) \ build.todo)
    BY <2>3 DEF Parsed
  <2>5. CASE timelines[F(c)] # <<>> /\ handler' = [handler EXCEPT ![c] = use]
    BY <1>1, <1>2, <1>3, <2>2, <2>5, MoveRight
  <2>6. CASE handler' = [handler EXCEPT ![c] = build]
    BY <1>1, <1>2, <2>3, <2>4, <2>6, MoveRight
  <2> QED BY <2>1, <2>5, <2>6
<1> QED BY <1>4, <1>5

\* A timeline is built from blobs that are all parsed.
LEMMA BuildRight ==
  ASSUME RightInv, NEW c \in Clients, FinishBuild(c)
  PROVE  CachesRight' /\ \A d \in Clients : HandlerRight(d)' /\ AnswerRight(d)'
<1> DEFINE h == handler[c]
           stages == Timeline(F(c), h.reader, h.module)
           answer == ProvenanceAnswer(h.request, h.reader, h.module, <<>>, <<>>)
           g == [h EXCEPT !.timeline = stages, !.step = "putTimeline"]
<1>1. /\ TypeInv /\ h \in Handler /\ HandlerOK(h) /\ HandlerRight(c) /\ h.reader = trace
      /\ trace \in Trace /\ F(c) \in Functions /\ UNCHANGED <<cacheVars, trace>>
      /\ h.step = "build" /\ h.todo = {}
  BY RightFacts, ClientFacts DEF FinishBuild, At
<1>2. CachesRight'
  BY <1>1, RightFacts, SameCaches
<1>3. stages = Whole(F(c))
  <2>1. \A b \in LeafBlobs(trace) : h.module[b] = trace.text[b]
    BY <1>1 DEF HandlerRight, Parsed
  <2> QED BY <1>1, <2>1, TimelineAgrees DEF Whole
<1>4. CASE stages = <<>> /\ Respond(c, answer)
  <2>1. \A b \in BlobsToShow(h.request, trace) : h.module[b] = trace.text[b]
    BY <1>1, AllShownParsed DEF Parsed
  <2>2. answer = ProvenanceAnswer(h.request, trace, trace.text, <<>>, <<>>)
    BY <1>1, <2>1, RightFacts, AnswerAgrees
  <2>3. h.request.kind \in ProvenanceKinds
    BY <1>1 DEF HandlerOK, ProvenanceSteps, Steps
  <2>4. RightAnswer(c, answer)
    BY <1>1, <1>3, <1>4, <2>2, <2>3, ExpectedProvenance DEF RightAnswer
  <2> QED BY <1>1, <1>2, <1>4, <2>4, RespondRight
<1>5. CASE handler' = [handler EXCEPT ![c] = g]
  <2>1. /\ g.request = h.request /\ g.reader = h.reader /\ g.answer = h.answer
        /\ g.module = h.module /\ g.timeline = stages /\ g.step = "putTimeline"
    BY <1>1 DEF Handler
  <2> HIDE DEF g
  <2> QED BY <1>1, <1>2, <1>3, <1>5, <2>1, MoveRight
<1> QED BY <1>4, <1>5 DEF FinishBuild

\* Along the steps that insert and evict, the handler keeps what it has.
LEMMA GoToRight ==
  ASSUME RightInv, NEW c \in Clients, NEW step, GoTo(c, step), UNCHANGED trace, CachesRight',
         \/ /\ step \in {"evictTimelines", "resolve"}
            /\ handler[c].step \in {"putTimeline", "evictTimelines"}
         \/ step = "respond" /\ handler[c].step = "evictResolved"
  PROVE  CachesRight' /\ \A d \in Clients : HandlerRight(d)' /\ AnswerRight(d)'
<1> DEFINE g == [handler[c] EXCEPT !.step = step]
<1>1. /\ g.step = step /\ g.request = handler[c].request /\ g.reader = handler[c].reader
      /\ g.answer = handler[c].answer /\ g.module = handler[c].module
      /\ g.timeline = handler[c].timeline /\ g.resolved = handler[c].resolved
  BY RightFacts, ClientFacts DEF Handler
<1>2. handler' = [handler EXCEPT ![c] = g]
  BY DEF GoTo
<1> HIDE DEF g
<1>3. /\ step \in {"evictTimelines", "resolve"} => handler[c].timeline = Whole(F(c))
      /\ step = "respond" => handler[c].resolved = Whole(F(c))
  BY RightFacts DEF HandlerRight
<1> QED BY <1>1, <1>2, <1>3, MoveRight

\* What is inserted is right, and evictions leave the others alone.
LEMMA TimelineCacheRight ==
  ASSUME RightInv, NEW c \in Clients, PutTimeline(c) \/ EvictTimelines(c)
  PROVE  CachesRight' /\ \A d \in Clients : HandlerRight(d)' /\ AnswerRight(d)'
<1> DEFINE h == handler[c]
<1>1. /\ TypeInv /\ F(c) \in Functions /\ UNCHANGED <<parsedVars, resolvedVars, trace>>
      /\ h.step \in {"putTimeline", "evictTimelines"} /\ h.timeline = Whole(F(c))
      /\ timelines \in [Functions -> Seq(Stage)]
  BY RightFacts, ClientFacts DEF PutTimeline, EvictTimelines, At, HandlerRight, CacheTypeOK
<1>2. (\A f \in Functions : timelines'[f] \in {<<>>, Whole(f)}) => CachesRight'
  BY <1>1, RightFacts DEF CachesRight, parsedVars, resolvedVars, Whole
<1>3. UNCHANGED timelineVars => CachesRight'
  BY <1>2, RightFacts DEF CachesRight, timelineVars
<1>4. CASE UNCHANGED timelineVars /\ GoTo(c, "resolve")
  BY <1>1, <1>3, <1>4, GoToRight
<1>5. CASE InsertTimeline(F(c), h.timeline) /\ GoTo(c, "evictTimelines")
  <2>1. timelines' = [timelines EXCEPT ![F(c)] = h.timeline]
    BY <1>5 DEF InsertTimeline
  <2>2. CachesRight'
    BY <1>1, <1>2, <2>1, RightFacts DEF CachesRight
  <2> QED BY <1>1, <1>5, <2>2, GoToRight
<1>6. CASE EvictTimeline /\ UNCHANGED handler
  <2>1. timelines' = timelines \/ timelines' = [timelines EXCEPT ![Head(timelineOrder)] = <<>>]
    BY <1>6 DEF EvictTimeline, timelineVars
  <2>2. CachesRight'
    BY <1>1, <1>2, <2>1, RightFacts DEF CachesRight
  <2>3. HandlerRight(c)' /\ AnswerRight(c)'
    BY <1>1, <1>6, RightFacts DEF HandlerRight, AnswerRight, Answered, F, Whole, Parsed
  <2> QED BY <1>1, <1>6, <2>2, <2>3, RightStep
<1> QED BY <1>4, <1>5, <1>6 DEF PutTimeline, EvictTimelines

\* The same of the resolved functions.
LEMMA ResolvedCacheRight ==
  ASSUME RightInv, NEW c \in Clients, PutResolved(c) \/ EvictFromResolved(c)
  PROVE  CachesRight' /\ \A d \in Clients : HandlerRight(d)' /\ AnswerRight(d)'
<1> DEFINE h == handler[c]
<1>1. /\ TypeInv /\ h \in Handler /\ F(c) \in Functions /\ UNCHANGED <<parsedVars, timelineVars, trace>>
      /\ resolved \in [Functions -> Seq(Stage)]
  BY RightFacts, ClientFacts DEF PutResolved, EvictFromResolved, CacheTypeOK
<1>2. (\A f \in Functions : resolved'[f] \in {<<>>, Whole(f)}) => CachesRight'
  BY <1>1, RightFacts DEF CachesRight, parsedVars, timelineVars, Whole
<1>3. UNCHANGED resolvedVars => CachesRight'
  BY <1>2, RightFacts DEF CachesRight, resolvedVars
<1>4. CASE PutResolved(c)
  <2> DEFINE g == [h EXCEPT !.resolved = h.timeline,
                            !.step = IF ChainCapacity = 0 THEN "respond" ELSE "evictResolved"]
  <2>1. h.step = "resolve" /\ h.timeline = Whole(F(c)) /\ handler' = [handler EXCEPT ![c] = g]
    BY <1>4, RightFacts DEF PutResolved, At, HandlerRight
  <2>2. CachesRight'
    <3>1. CASE UNCHANGED resolvedVars
      BY <1>3, <3>1
    <3>2. CASE InsertResolved(F(c), h.timeline)
      <4>1. resolved' = [resolved EXCEPT ![F(c)] = h.timeline]
        BY <3>2 DEF InsertResolved
      <4> QED BY <1>1, <1>2, <2>1, <4>1, RightFacts DEF CachesRight
    <3> QED BY <1>4, <3>1, <3>2 DEF PutResolved
  <2>3. /\ g.request = h.request /\ g.reader = h.reader /\ g.answer = h.answer
        /\ g.module = h.module /\ g.resolved = h.timeline /\ g.step \in {"respond", "evictResolved"}
    BY <1>1 DEF Handler
  <2> HIDE DEF g
  <2> QED BY <1>1, <2>1, <2>2, <2>3, MoveRight
<1>5. CASE EvictResolved /\ EvictFromResolved(c) /\ UNCHANGED handler
  <2>1. resolved' = [resolved EXCEPT ![Head(resolvedOrder)] = <<>>]
    BY <1>5 DEF EvictResolved
  <2>2. CachesRight'
    BY <1>1, <1>2, <2>1, RightFacts DEF CachesRight
  <2>3. HandlerRight(c)' /\ AnswerRight(c)'
    BY <1>1, <1>5, RightFacts DEF HandlerRight, AnswerRight, Answered, F, Whole, Parsed
  <2> QED BY <1>1, <1>5, <2>2, <2>3, RightStep
<1>6. CASE EvictFromResolved(c) /\ GoTo(c, "respond") /\ UNCHANGED resolvedVars
  <2>1. h.step = "evictResolved"
    BY <1>6 DEF EvictFromResolved, At
  <2> QED BY <1>1, <1>3, <1>6, <2>1, GoToRight
<1> QED BY <1>4, <1>5, <1>6 DEF EvictFromResolved

\* The last lookup finds the timeline, or that it is evicted.
LEMMA RespondProvenanceRight ==
  ASSUME RightInv, NEW c \in Clients, RespondHistory(c) \/ RespondStage(c)
  PROVE  CachesRight' /\ \A d \in Clients : HandlerRight(d)' /\ AnswerRight(d)'
<1> DEFINE h == handler[c]
           whole == Whole(F(c))
<1>1. /\ TypeInv /\ h.reader = trace /\ trace \in Trace /\ h.request \in Request
      /\ F(c) \in Functions /\ UNCHANGED trace
      /\ h.step = "respond" /\ h.resolved = whole
  BY RightFacts DEF RespondHistory, RespondStage, At, HandlerRight
<1>2. h.request.kind \in ProvenanceKinds
  BY <1>1, ClientFacts DEF HandlerOK, ProvenanceSteps, Steps
<1>3. \A b \in BlobsToShow(h.request, trace) : h.module[b] = trace.text[b]
  BY <1>1, AllShownParsed DEF Parsed
<1>4. \A stages : ProvenanceAnswer(h.request, trace, h.module, stages, whole)
                    = ProvenanceAnswer(h.request, trace, trace.text, stages, whole)
  BY <1>1, <1>3, AnswerAgrees
<1>5. Expected(h.request, trace) = ProvenanceAnswer(h.request, trace, trace.text, whole, whole)
  BY <1>1, <1>2, ExpectedProvenance
<1>6. CachesRight'
  BY RightFacts, SameCaches, UsedCaches DEF RespondHistory, RespondStage, UseTimeline,
     parsedVars, resolvedVars
<1>7. CASE RespondHistory(c)
  <2>1. h.request.kind = "history"
        /\ Respond(c, ProvenanceAnswer(h.request, trace, h.module, <<>>, whole))
    BY <1>1, <1>7 DEF RespondHistory
  <2>2. ProvenanceAnswer(h.request, trace, trace.text, <<>>, whole)
          = ProvenanceAnswer(h.request, trace, trace.text, whole, whole)
    BY <2>1 DEF ProvenanceAnswer
  <2>3. RightAnswer(c, ProvenanceAnswer(h.request, trace, h.module, <<>>, whole))
    BY <1>4, <1>5, <2>2 DEF RightAnswer
  <2> QED BY <1>1, <1>6, <2>1, <2>3, RespondRight
<1>8. CASE RespondStage(c)
  <2>1. h.request.kind # "history"
        /\ Respond(c, ProvenanceAnswer(h.request, trace, h.module, timelines[F(c)], whole))
    BY <1>1, <1>8 DEF RespondStage
  <2>2. timelines[F(c)] \in {<<>>, whole}
    BY <1>1, RightFacts DEF CachesRight
  <2>3. RightAnswer(c, ProvenanceAnswer(h.request, trace, h.module, timelines[F(c)], whole))
    BY <1>2, <1>4, <1>5, <2>1, <2>2 DEF RightAnswer, ProvenanceKinds
  <2> QED BY <1>1, <1>6, <2>1, <2>3, RespondRight
<1> QED BY <1>7, <1>8

\* A request is answered at once only with a refusal.
LEMMA ReceiveRight ==
  ASSUME RightInv, NEW c \in Clients, NEW r \in Requests, Receive(c, r)
  PROVE  CachesRight' /\ \A d \in Clients : HandlerRight(d)' /\ AnswerRight(d)'
<1> DEFINE refusal == Refusal(r, trace)
           h == [handler[c] EXCEPT !.request = r, !.reader = trace]
           refused == [h EXCEPT !.answer = [status |-> refusal, body |-> <<>>]]
           start == [h EXCEPT !.step = "parse", !.todo = BlobsToShow(r, trace),
                              !.answer = NoAnswer]
<1>1. /\ TypeInv /\ handler[c] \in Handler /\ handler[c].step = "idle"
      /\ UNCHANGED <<cacheVars, trace>> /\ CachesRight'
      /\ \/ refusal # "none" /\ handler' = [handler EXCEPT ![c] = refused]
         \/ refusal = "none" /\ handler' = [handler EXCEPT ![c] = start]
  BY RightFacts, ClientFacts, SameCaches DEF Receive, At
<1>2. /\ refused.step = "idle" /\ refused.request = r /\ refused.reader = trace
      /\ refused.answer = [status |-> refusal, body |-> <<>>]
  <2> HIDE DEF refusal
  <2> QED BY <1>1 DEF Handler
<1>3. /\ start.step = "parse" /\ start.request = r /\ start.reader = trace
      /\ start.answer = NoAnswer /\ start.todo = BlobsToShow(r, trace)
  BY <1>1 DEF Handler
<1> HIDE DEF refused, start
<1>4. CASE refusal # "none" /\ handler' = [handler EXCEPT ![c] = refused]
  <2>1. handler'[c] = refused /\ \A d \in Clients \ {c} : handler'[d] = handler[d]
    BY <1>1, <1>4, OnlyOne
  <2>2. HandlerRight(c)'
    BY <1>1, <1>2, <2>1 DEF HandlerRight
  <2>3. AnswerRight(c)'
    BY <1>2, <1>4, <2>1 DEF AnswerRight, Expected
  <2> QED BY <1>1, <2>1, <2>2, <2>3, RightStep
<1>5. CASE handler' = [handler EXCEPT ![c] = start]
  <2>1. handler'[c] = start /\ \A d \in Clients \ {c} : handler'[d] = handler[d]
    BY <1>1, <1>5, OnlyOne
  <2>2. HandlerRight(c)'
    BY <1>1, <1>3, <2>1 DEF HandlerRight, Parsed
  <2> QED BY <1>1, <1>3, <2>1, <2>2, NotAnswered, RightStep
<1> QED BY <1>1, <1>4, <1>5

\* Empty caches are right.
LEMMA InitRight == Init => RightInv
<1> SUFFICES ASSUME Init PROVE RightInv
  OBVIOUS
<1>1. TypeInv
  BY InitType
<1>2. CachesRight
  BY DEF Init, CacheInit, CachesRight, DiffKeys
<1>3. ASSUME NEW c \in Clients PROVE HandlerRight(c) /\ AnswerRight(c)
  <2>1. handler[c].step = "idle" /\ handler[c].reader = trace /\ handler[c].answer = NoAnswer
    BY DEF Init
  <2> QED BY <2>1 DEF HandlerRight, AnswerRight, Answered
<1> QED BY <1>1, <1>2, <1>3 DEF RightInv

\* One step that does not replace the file.
LEMMA NextRight ==
  ASSUME RightInv, [Next]_vars, UNCHANGED trace
  PROVE  RightInv'
<1> DEFINE Right == CachesRight' /\ \A d \in Clients : HandlerRight(d)' /\ AnswerRight(d)'
<1>1. TypeInv'
  BY NextType DEF RightInv
<1>2. ASSUME NEW c \in Clients, Handle(c) PROVE Right
  BY <1>2, ParseRight, DiffRight, LookupRight, BuildRight, TimelineCacheRight,
     ResolvedCacheRight, RespondProvenanceRight DEF Handle
<1>3. ASSUME NEW c \in Clients, NEW r \in Requests, Receive(c, r) PROVE Right
  BY <1>3, ReceiveRight
<1>4. ASSUME Recapture \/ UNCHANGED vars PROVE Right
  <2>1. UNCHANGED cacheVars /\ UNCHANGED handler
    BY <1>4 DEF Recapture, vars
  <2>2. CachesRight'
    BY <2>1, SameCaches DEF RightInv
  <2>3. \A d \in Clients : HandlerRight(d)' /\ AnswerRight(d)'
    BY <2>1 DEF RightInv, HandlerRight, AnswerRight, Answered, F, Whole, Parsed
  <2> QED BY <2>2, <2>3
<1>5. Right
  <2>1. Next \/ UNCHANGED vars
    OBVIOUS
  <2> HIDE DEF Right
  <2> QED BY <1>2, <1>3, <1>4, <2>1 DEF Next
<1> QED BY <1>1, <1>5 DEF RightInv

\* The file at the served path is not replaced: without this, entries of the old file answer for
\* the new one (the run recapture).
NotReplaced == [][FALSE]_trace

\* As long as the file is not replaced, every answer is the one a server without caches gives, or
\* says that a stage is not there when it has been evicted: whatever entries other handlers insert,
\* reorder and evict between any two steps of the one that answers.
THEOREM AnswersAreRight == Spec /\ NotReplaced => []AnswersUnlessEvicted
<1>1. RightInv /\ [Next]_vars /\ [FALSE]_trace => RightInv'
  BY NextRight
<1>2. RightInv => AnswersUnlessEvicted
  BY DEF RightInv, AnswerRight, AnswersUnlessEvicted
<1> QED BY <1>1, <1>2, InitRight, PTL DEF Spec, NotReplaced
=============================================================================
