-------------------------------- MODULE Server --------------------------------
(***************************************************************************)
(* The HTTP handlers that use the caches (crates/server/src/api.rs,        *)
(* provenance.rs).  They contain no await, and run to completion on the    *)
(* worker threads of a multi-threaded runtime: handlers of different       *)
(* clients interleave at every access to a cache.  Each opens the trace    *)
(* file anew, and keeps reading the file it has opened when a new capture  *)
(* removes it and writes another one to the same path.                     *)
(*                                                                         *)
(* A request names a pass that is recorded, and a side of it; malformed    *)
(* requests are refused without touching anything and are left out.        *)
(***************************************************************************)
EXTENDS EngineCache

CONSTANTS
  Clients,   \* at most one request of each is being handled
  Requests,  \* the requests they make
  Traces,    \* the traces that may be captured to the served path
  NoBlob,    \* NULL in ir_before and ir_after
  Defines    \* Defines[text]: the functions with a scope in the text

OptBlobs == Blobs \union {NoBlob}

\* The leaves of the pass forest, the snapshots of every pass, their contents.
Trace == [leaves : SUBSET Passes, snapshot : [Passes -> [Sides -> OptBlobs]],
          text : [Blobs -> Texts]]

Kinds   == {"functions", "diff", "graph", "graphDiff", "ops", "history"}
Request == [kind : Kinds, pass : Passes, side : Sides, function : Functions]

ASSUME ServerAssumption ==
  /\ NoBlob \notin Blobs
  /\ Traces \subseteq Trace /\ Traces # {}
  /\ Requests \subseteq Request /\ Requests # {}
  /\ Defines \in [Texts -> SUBSET Functions]

VARIABLES
  trace,   \* the file at the served path
  handler  \* the handler of each client

vars == <<cacheVars, trace, handler>>

Steps == {"idle", "parse", "diff", "timeline", "build", "putTimeline",
          "evictTimelines", "resolve", "evictResolved", "respond"}

Answer == [status : {"none", "ok", "not found", "conflict"},
           body : Seq(OptTexts) \union Seq(Stage)]
NoAnswer == [status |-> "none", body |-> <<>>]

Handler == [step : Steps, request : Request,
            reader   : Trace,                \* the file it has opened
            todo     : SUBSET Blobs,         \* the blobs it is still to parse
            filling  : BOOLEAN,              \* the next of them was not cached
            module   : [Blobs -> OptTexts],  \* what it has parsed
            timeline : Seq(Stage), resolved : Seq(Stage),
            answer   : Answer]

ServerTypeOK ==
  /\ CacheTypeOK
  /\ trace \in Traces
  /\ handler \in [Clients -> Handler]

NoModules == [b \in Blobs |-> NoText]

Init ==
  /\ CacheInit
  /\ trace \in Traces
  /\ handler \in [Clients -> [step : {"idle"}, request : {CHOOSE r \in Requests : TRUE},
                              reader : {trace}, todo : {{}}, filling : {FALSE},
                              module : {NoModules}, timeline : {<<>>},
                              resolved : {<<>>}, answer : {NoAnswer}]]

-----------------------------------------------------------------------------
Blob(r, tr, side) == tr.snapshot[r.pass][side]
Both(r, tr)       == <<Blob(r, tr, "before"), Blob(r, tr, "after")>>
Snapshots(p, tr)  == {tr.snapshot[p][side] : side \in Sides} \ {NoBlob}

\* The snapshot a graph without diff shows: the after side if there is one.
GraphSide(r, tr) == IF Blob(r, tr, "after") # NoBlob THEN "after" ELSE "before"

\* The status of a request that is refused once its pass has been read.
Refusal(r, tr) ==
  IF r.kind \in {"diff", "graphDiff"} /\ \E side \in Sides : Blob(r, tr, side) = NoBlob
  THEN "conflict"
  ELSE IF r.kind = "graph" /\ Snapshots(r.pass, tr) = {} THEN "not found" ELSE "none"

\* The blobs a handler parses before it consults provenance.
BlobsToShow(r, tr) ==
  CASE r.kind \in {"functions", "diff", "graphDiff"} -> Snapshots(r.pass, tr)
    [] r.kind = "graph" -> {Blob(r, tr, GraphSide(r, tr))}
    [] OTHER -> {}

TextOf(module, blob) == IF blob = NoBlob THEN NoText ELSE module[blob]

\* A side of a pass, NoText unless it has a scope for the function.
ScopeText(f, tr, module, p, side) ==
  LET text == TextOf(module, tr.snapshot[p][side])
  IN IF text # NoText /\ f \in Defines[text] THEN text ELSE NoText

\* What the blobs parsed for the request contribute to its answer.
Shown(r, tr, module) ==
  LET scope(side) == ScopeText(r.function, tr, module, r.pass, side) IN
  CASE r.kind = "functions" -> [i \in 1 .. 2 |-> TextOf(module, Both(r, tr)[i])]
    [] r.kind = "graph"     -> <<scope(GraphSide(r, tr))>>
    [] OTHER                -> <<scope("before"), scope("after")>>

\* build_timeline: the leaves that have the function on either side, in order.

StagePasses(f, tr, module) ==
  {p \in tr.leaves : \E side \in Sides : ScopeText(f, tr, module, p, side) # NoText}

Timeline(f, tr, module) ==
  LET passes == StagePasses(f, tr, module) IN
  [i \in 1 .. Cardinality(passes) |->
     [pass |-> Nth(passes, i),
      text |-> [side \in Sides |-> ScopeText(f, tr, module, Nth(passes, i), side)]]]

LeafBlobs(tr) == UNION {Snapshots(p, tr) : p \in tr.leaves}

\* What was resolved for an occurrence, by the index its pass has in the timeline.
StageIndex(stages, p) == {i \in 1 .. Len(stages) : stages[i].pass = p}
ResolvedText(stages, i, side) == IF i \in 1 .. Len(stages) THEN stages[i].text[side]
                                 ELSE NoText

Ok(body) == [status |-> "ok", body |-> body]
NotFound == [status |-> "not found", body |-> <<>>]

\* selectable_ops: the operations of a side of a stage that exists.
OpsAnswer(r, stages, res) ==
  IF \E i \in StageIndex(stages, r.pass) : stages[i].text[r.side] # NoText
  THEN Ok(<<ResolvedText(res, CHOOSE i \in StageIndex(stages, r.pass) : TRUE, r.side)>>)
  ELSE NotFound

\* decorate_graph_uids: nodes stay without UIDs if there is no such stage.
Uids(r, tr, stages, res) ==
  LET uid(side) == IF StageIndex(stages, r.pass) = {} THEN NoText
                   ELSE ResolvedText(res, CHOOSE i \in StageIndex(stages, r.pass) : TRUE,
                                     side)
  IN IF r.kind = "graph" THEN <<uid(GraphSide(r, tr))>> ELSE <<uid("before"), uid("after")>>

\* The answer to a request that needs provenance: stages as the cache has them
\* at the end, res the resolved function (<<>> if the function is in no stage).
ProvenanceAnswer(r, tr, module, stages, res) ==
  CASE r.kind = "ops"     -> OpsAnswer(r, stages, res)
    [] r.kind = "history" -> IF res = <<>> THEN NotFound ELSE Ok(res)
    [] OTHER              -> Ok(Shown(r, tr, module) \o Uids(r, tr, stages, res))

-----------------------------------------------------------------------------
(* Actions.  The handler of client c; F(c) is the function it was asked for. *)

F(c) == handler[c].request.function
At(c, step) == handler[c].step = step

TimelinesFree == \A c \in Clients : ~At(c, "evictTimelines")
ResolvedFree  == \A c \in Clients : ~At(c, "evictResolved")

GoTo(c, step) == handler' = [handler EXCEPT ![c].step = step]

Respond(c, answer) ==
  handler' = [handler EXCEPT ![c] =
    [@ EXCEPT !.step = "idle", !.answer = answer, !.module = NoModules,
              !.timeline = <<>>, !.resolved = <<>>]]

Receive(c, r) ==
  /\ At(c, "idle")
  /\ LET refusal == Refusal(r, trace)
         h == [handler[c] EXCEPT !.request = r, !.reader = trace]
     IN handler' = [handler EXCEPT ![c] =
          IF refusal # "none"
          THEN [h EXCEPT !.answer = [status |-> refusal, body |-> <<>>]]
          ELSE [h EXCEPT !.step = "parse", !.todo = BlobsToShow(r, trace),
                         !.answer = NoAnswer]]
  /\ UNCHANGED <<cacheVars, trace>>

\* The blobs are parsed one after the other, in an order of no consequence.
NextBlob(c) == CHOOSE b \in handler[c].todo : TRUE

Take(h, b, text) ==
  [h EXCEPT !.module[b] = text, !.todo = @ \ {b}, !.filling = FALSE]

\* EngineCache::parsed: its lookup ...
LookupParsed(c) ==
  LET h == handler[c]
      b == NextBlob(c)
  IN
  /\ h.step \in {"parse", "build"} /\ h.todo # {} /\ ~h.filling
  /\ handler' = [handler EXCEPT ![c] =
       IF parsed[b] # NoText THEN Take(h, b, parsed[b]) ELSE [h EXCEPT !.filling = TRUE]]
  /\ UNCHANGED <<cacheVars, trace>>

\* ... and, after a miss, the insertion of what was parsed in the meantime.
FillParsed(c) ==
  LET h == handler[c]
      b == NextBlob(c)
  IN
  /\ h.filling
  /\ InsertParsed(b, h.reader.text[b])
  /\ handler' = [handler EXCEPT ![c] = Take(h, b, h.reader.text[b])]
  /\ UNCHANGED <<timelineVars, resolvedVars, trace>>

AllParsed(c, kinds) ==
  At(c, "parse") /\ handler[c].todo = {} /\ handler[c].request.kind \in kinds

RespondFunctions(c) ==
  LET h == handler[c] IN
  /\ AllParsed(c, {"functions"})
  /\ Respond(c, Ok(Shown(h.request, h.reader, h.module)))
  /\ UNCHANGED <<cacheVars, trace>>

\* Mutant of DiffKey: the functions of a pair of snapshots share an entry.
DiffKeyOfPair(c) ==
  Both(handler[c].request, handler[c].reader) \o <<CHOOSE f \in Functions : TRUE>>

DiffKey(c) == Both(handler[c].request, handler[c].reader) \o <<F(c)>>

\* A pass that left its snapshot alone is answered from the parsed module.
LookupDiff(c) ==
  LET h == handler[c]
      same == Blob(h.request, h.reader, "before") = Blob(h.request, h.reader, "after")
  IN
  /\ AllParsed(c, {"diff"})
  /\ \/ same /\ Respond(c, Ok(Shown(h.request, h.reader, h.module)))
     \/ ~same /\ diffs[DiffKey(c)] # <<>> /\ Respond(c, Ok(diffs[DiffKey(c)]))
     \/ ~same /\ diffs[DiffKey(c)] = <<>> /\ GoTo(c, "diff")
  /\ UNCHANGED <<cacheVars, trace>>

FillDiff(c) ==
  LET h == handler[c]
      texts == Shown(h.request, h.reader, h.module)
  IN
  /\ At(c, "diff")
  /\ InsertDiff(DiffKey(c), texts)
  /\ Respond(c, Ok(texts))
  /\ UNCHANGED <<timelineVars, resolvedVars, trace>>

\* resolved_function, from its first lookup to its last insertion.
LookupResolved(c) ==
  /\ AllParsed(c, {"graph", "graphDiff", "ops", "history"}) /\ ResolvedFree
  /\ UseResolved(F(c))
  /\ handler' = [handler EXCEPT ![c] =
       [@ EXCEPT !.resolved = resolved[F(c)],
                 !.step = IF resolved[F(c)] # <<>> THEN "respond" ELSE "timeline"]]
  /\ UNCHANGED <<parsedVars, timelineVars, trace>>

LookupTimeline(c) ==
  /\ At(c, "timeline") /\ TimelinesFree
  /\ UseTimeline(F(c))
  /\ handler' = [handler EXCEPT ![c] =
       IF timelines[F(c)] # <<>>
       THEN [@ EXCEPT !.timeline = timelines[F(c)], !.step = "resolve"]
       ELSE [@ EXCEPT !.todo = LeafBlobs(handler[c].reader), !.step = "build"]]
  /\ UNCHANGED <<parsedVars, resolvedVars, trace>>

FinishBuild(c) ==
  LET h == handler[c]
      stages == Timeline(F(c), h.reader, h.module)
  IN
  /\ At(c, "build") /\ h.todo = {}
  /\ IF stages = <<>>
     THEN Respond(c, ProvenanceAnswer(h.request, h.reader, h.module, <<>>, <<>>))
     ELSE handler' = [handler EXCEPT ![c] = [h EXCEPT !.timeline = stages,
                                                      !.step = "putTimeline"]]
  /\ UNCHANGED <<cacheVars, trace>>

PutTimeline(c) ==
  /\ At(c, "putTimeline") /\ TimelinesFree
  /\ \/ TimelineCapacity = 0 /\ GoTo(c, "resolve") /\ UNCHANGED timelineVars
     \/ /\ TimelineCapacity > 0
        /\ InsertTimeline(F(c), handler[c].timeline)
        /\ GoTo(c, "evictTimelines")
  /\ UNCHANGED <<parsedVars, resolvedVars, trace>>

EvictTimelines(c) ==
  /\ At(c, "evictTimelines")
  /\ IF TimelinesOverflow THEN EvictTimeline /\ UNCHANGED handler
     ELSE GoTo(c, "resolve") /\ UNCHANGED timelineVars
  /\ UNCHANGED <<parsedVars, resolvedVars, trace>>

PutResolved(c) ==
  /\ At(c, "resolve") /\ ResolvedFree
  /\ handler' = [handler EXCEPT ![c] =
       [@ EXCEPT !.resolved = handler[c].timeline,
                 !.step = IF ChainCapacity = 0 THEN "respond" ELSE "evictResolved"]]
  /\ IF ChainCapacity = 0 THEN UNCHANGED resolvedVars
     ELSE InsertResolved(F(c), handler[c].timeline)
  /\ UNCHANGED <<parsedVars, timelineVars, trace>>

EvictFromResolved(c) ==
  /\ At(c, "evictResolved")
  /\ IF ResolvedOverflow THEN EvictResolved /\ UNCHANGED handler
     ELSE GoTo(c, "respond") /\ UNCHANGED resolvedVars
  /\ UNCHANGED <<parsedVars, timelineVars, trace>>

\* op_history answers from the resolved function; the others look up the
\* timeline once more, and the stage of their pass in it.
RespondHistory(c) ==
  LET h == handler[c] IN
  /\ At(c, "respond") /\ h.request.kind = "history"
  /\ Respond(c, ProvenanceAnswer(h.request, h.reader, h.module, <<>>, h.resolved))
  /\ UNCHANGED <<cacheVars, trace>>

RespondStage(c) ==
  LET h == handler[c] IN
  /\ At(c, "respond") /\ h.request.kind # "history" /\ TimelinesFree
  /\ UseTimeline(F(c))
  /\ Respond(c, ProvenanceAnswer(h.request, h.reader, h.module, timelines[F(c)],
                                 h.resolved))
  /\ UNCHANGED <<parsedVars, resolvedVars, trace>>

\* A compiler captures to the served path again.
Recapture ==
  /\ trace' \in Traces
  /\ UNCHANGED <<cacheVars, handler>>

Handle(c) ==
  \/ LookupParsed(c) \/ FillParsed(c)
  \/ RespondFunctions(c) \/ LookupDiff(c) \/ FillDiff(c)
  \/ LookupResolved(c) \/ LookupTimeline(c) \/ FinishBuild(c)
  \/ PutTimeline(c) \/ EvictTimelines(c) \/ PutResolved(c) \/ EvictFromResolved(c)
  \/ RespondHistory(c) \/ RespondStage(c)

Next ==
  \/ \E c \in Clients : Handle(c) \/ \E r \in Requests : Receive(c, r)
  \/ Recapture

Spec == Init /\ [][Next]_vars
-----------------------------------------------------------------------------
(* Safety.                                                                  *)

\* What a server without caches would answer.
Expected(r, tr) ==
  LET refusal == Refusal(r, tr)
      stages  == Timeline(r.function, tr, tr.text)
  IN IF refusal # "none" THEN [status |-> refusal, body |-> <<>>]
     ELSE IF r.kind \in {"functions", "diff"} THEN Ok(Shown(r, tr, tr.text))
     ELSE ProvenanceAnswer(r, tr, tr.text, stages, stages)

Answered(c) == handler[c].answer # NoAnswer

\* Every answer is the one a server without caches gives for the file that the
\* handler had opened, whatever other handlers did to the caches meanwhile.
AnswersFromTrace ==
  \A c \in Clients : Answered(c)
    => handler[c].answer = Expected(handler[c].request, handler[c].reader)

\* An eviction does no more than hide a stage: the answer of a handler that needs
\* one is that of a server without caches, or says that the stage is not there.
AnswersUnlessEvicted ==
  \A c \in Clients : Answered(c) =>
    LET h == handler[c]
        stages == Timeline(F(c), h.reader, h.reader.text)
        hidden == ProvenanceAnswer(h.request, h.reader, h.reader.text, <<>>, stages)
    IN \/ h.answer = Expected(h.request, h.reader)
       \/ h.request.kind \in {"ops", "graph", "graphDiff"} /\ h.answer = hidden

Lists(order, cache) ==
  /\ {order[i] : i \in 1 .. Len(order)} = Entries(cache)
  /\ Len(order) = Cardinality(Entries(cache))

\* The order of each bounded cache lists the keys of its entries, each once: the
\* eviction loops find an entry to remove whenever they look for one.
OrdersListKeys == Lists(timelineOrder, timelines) /\ Lists(resolvedOrder, resolved)

\* The histories of a resolved function, and of all that are cached.
Histories(f)    == {f} \X (1 .. Chains[f])
CachedHistories == UNION {Histories(f) : f \in Entries(resolved)}

\* Whenever its mutex is free a cache is within its capacity, up to one function
\* that exceeds it alone; chains are counted exactly, even if two handlers resolve
\* the same function and both insert it.
CachesBounded ==
  /\ TimelinesFree => Cardinality(Entries(timelines)) <= TimelineCapacity
  /\ ResolvedFree => \/ chainCount <= ChainCapacity
                     \/ Cardinality(Entries(resolved)) = 1
  /\ chainCount = Cardinality(CachedHistories)

\* What a handler has inserted is still there when its evictions are over, even
\* if it alone exceeds the capacity.
Leaves(c, step) == At(c, step) /\ ~At(c, step)'
NewestSurvives ==
  [][\A c \in Clients :
       /\ Leaves(c, "evictTimelines") => timelines'[F(c)] = handler[c].timeline
       /\ Leaves(c, "evictResolved") => resolved'[F(c)] = handler[c].resolved]_vars

-----------------------------------------------------------------------------
(* Liveness.  Handlers have no loops but the evictions, and wait for nothing *)
(* but the mutexes.  Mutexes are not assumed to be fair: a handler may wait  *)
(* as long as new requests keep coming.                                     *)

FairSpec == Spec /\ \A c \in Clients : WF_vars(Handle(c))

ClientsStop == <>[][\A c \in Clients : At(c, "idle") => UNCHANGED handler[c]]_vars

\* Every request is answered: no eviction loop runs forever with its mutex held,
\* and no two handlers wait for each other.
EveryRequestAnswered == ClientsStop => \A c \in Clients : <>[](At(c, "idle"))
=============================================================================
