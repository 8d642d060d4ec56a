------------------------------- MODULE Dataflow -------------------------------
(***************************************************************************)
(* The dataflow graph of a function and of the diff of two snapshots of    *)
(* it, collapsed to a budget of nodes (crates/engine/src/graph.rs).        *)
(*                                                                         *)
(* An operation has, besides the fields OpDiff needs, the sets of values   *)
(* it defines and uses (results, operands) and the path of the regions it  *)
(* is in (path).                                                           *)
(***************************************************************************)
EXTENDS OpDiff

OpNode(i)       == <<"op", i>>
GhostNode(i)    == <<"ghost", i>>   \* an operation before that was removed
ClusterNode(p)  == <<"cluster", p>>

\* hidden is collapsed_count: how many operations a collapsed cluster hides.
Node(id, path, hidden) == [id |-> id, path |-> path, hidden |-> hidden]
Edge(from, to, removed) == [from |-> from, to |-> to, removed |-> removed]

\* The operation that defines a value: the last one in the order of the text.
Definition(ops, value) ==
  LET defs == {i \in 1 .. Len(ops) : value \in ops[i].results}
  IN IF defs = {} THEN 0 ELSE Max(defs)

\* Edges are a set; the code's list may name an edge of a ghost twice.
DefinedFor(ops, u) == {Definition(ops, value) : value \in ops[u].operands} \ {0, u}
DataflowEdges(ops) ==
  UNION {{Edge(OpNode(d), OpNode(u), FALSE) : d \in DefinedFor(ops, u)} : u \in 1 .. Len(ops)}

Graph(nodes, edges) == [nodes |-> nodes, edges |-> edges, truncated |-> FALSE]

-----------------------------------------------------------------------------
(* Collapsing.  The nodes are a sequence: it decides what is truncated. *)

Ids(graph)   == {n.id : n \in Range(graph.nodes)}
Metas(graph) == {i \in DOMAIN graph.nodes : graph.nodes[i].hidden > 0}
Reals(graph) == DOMAIN graph.nodes \ Metas(graph)

\* Some of the nodes, in their order.
Picked(nodes, some) ==
  LET at == Ascending(some, Len(nodes)) IN [k \in DOMAIN at |-> nodes[at[k]]]

\* The clusters come first, so that nodes of operations are cut off.
Kept(graph, budget) ==
  SubSeq(Picked(graph.nodes, Metas(graph)) \o Picked(graph.nodes, Reals(graph)), 1, budget)

\* Mutant of MaybeTruncate: edges of the nodes that were cut off stay.
TruncateNodes(graph, budget) ==
  IF budget = 0 \/ Len(graph.nodes) <= budget THEN graph
  ELSE [graph EXCEPT !.nodes = Kept(graph, budget), !.truncated = TRUE]

MaybeTruncate(graph, budget) ==
  LET ids == {n.id : n \in Range(Kept(graph, budget))}
  IN IF budget = 0 \/ Len(graph.nodes) <= budget THEN graph
     ELSE [nodes |-> Kept(graph, budget), truncated |-> TRUE,
           edges |-> {e \in graph.edges : {e.from, e.to} \subseteq ids}]

\* Mutant of InCluster: what an inner cluster hides is counted again.
InClusterAgain(n, path) == IsPrefix(path, n.path)

\* Nodes that are collapsed already stay beside the cluster around them.
InCluster(n, path) == n.hidden = 0 /\ IsPrefix(path, n.path)

CollapseCluster(graph, path) ==
  LET hidden == {n.id : n \in {m \in Range(graph.nodes) : InCluster(m, path)}}
      meta   == Node(ClusterNode(path), path, Cardinality(hidden))
      remap(id) == IF id \in hidden THEN meta.id ELSE id
      edges  == {Edge(remap(e.from), remap(e.to), e.removed) : e \in graph.edges}
      shown  == {i \in DOMAIN graph.nodes : graph.nodes[i].id \notin hidden}
  IN IF hidden = {} THEN graph
     ELSE [graph EXCEPT !.nodes = Append(Picked(@, shown), meta),
                        !.edges = {e \in edges : e.from # e.to}]

\* The deepest regions first, those of the same depth in order.
Deeper(p, q) ==
  \/ Len(p) > Len(q)
  \/ Len(p) = Len(q) /\ \E i \in DOMAIN p :
       p[i] < q[i] /\ \A k \in 1 .. i - 1 : p[k] = q[k]

\* The regions inside the body of the function, whose path is the shortest.
ClusterPaths(graph) ==
  LET paths == {graph.nodes[i].path : i \in Reals(graph)}
      root  == IF paths = {} THEN 0 ELSE Min({Len(p) : p \in paths})
  IN {p \in paths : Len(p) > root}

\* The one of some regions that is collapsed after the others.
LastOf(paths) == CHOOSE p \in paths : \A q \in paths \ {p} : Deeper(q, p)

\* Clusters are collapsed until the budget is reached.
CollapseNext(graph, path, budget) ==
  IF Len(graph.nodes) <= budget THEN graph ELSE CollapseCluster(graph, path)
CollapsePaths(graph, paths, budget) ==
  MapThenFoldSet(LAMBDA path, g : CollapseNext(g, path, budget), graph,
                 LAMBDA path : path, LastOf, paths)

\* Mutant of CollapseToBudget: it stops one cluster too late.
CollapseAll(graph, budget) ==
  MaybeTruncate(MapThenFoldSet(LAMBDA path, g : CollapseCluster(g, path), graph,
                               LAMBDA path : path, LastOf, ClusterPaths(graph)), budget)

CollapseToBudget(graph, budget) ==
  IF budget = 0 \/ Len(graph.nodes) <= budget THEN MaybeTruncate(graph, budget)
  ELSE MaybeTruncate(CollapsePaths(graph, ClusterPaths(graph), budget), budget)

-----------------------------------------------------------------------------
OpNodes(ops) == [i \in 1 .. Len(ops) |-> Node(OpNode(i), ops[i].path, 0)]

\* The graph of a function before it is collapsed.
FullDataflow(ops) == Graph(OpNodes(ops), DataflowEdges(ops))

\* The graph after, with the operations that were removed as ghosts and the edges
\* between them and what they used and were used by.
DiffGraph(before, after, changes) ==
  LET matched(i) == {c \in Range(changes) : c.before = i /\ c.after # Nothing}
      removed == Ascending({i \in 1 .. Len(before) : matched(i) = {}}, Len(before))
      ghosts  == [k \in 1 .. Len(removed) |->
                    Node(GhostNode(removed[k]), before[removed[k]].path, 0)]
      endpoint(i) == IF matched(i) = {} THEN GhostNode(i)
                     ELSE OpNode((CHOOSE c \in matched(i) : TRUE).after)
      operandEdges(g) == {Edge(endpoint(d), GhostNode(g), TRUE) : d \in DefinedFor(before, g)}
      users(g) == {u \in 1 .. Len(before) \ {g} :
                     before[u].operands \intersect before[g].results # {}}
      userEdges(g) == {Edge(GhostNode(g), endpoint(u), TRUE) : u \in users(g)}
  IN Graph(OpNodes(after) \o ghosts,
           DataflowEdges(after)
             \union UNION {operandEdges(g) \union userEdges(g) : g \in Range(removed)})

FullDataflowDiff(before, after) == DiffGraph(before, after, DiffFunction(before, after))

-----------------------------------------------------------------------------
(* Properties of a graph and of the graph it was collapsed to. *)

\* The budget is kept, and reaching it by truncation is reported.
WithinBudget(full, graph, budget) ==
  /\ budget > 0 => Len(graph.nodes) <= budget
  /\ graph.truncated => Len(graph.nodes) = budget

\* Every edge joins two nodes of the graph, and no node is there twice.
WellFormed(graph) ==
  /\ \A e \in graph.edges : {e.from, e.to} \subseteq Ids(graph)
  /\ Cardinality(Ids(graph)) = Len(graph.nodes)

\* The node that stands for one of the full graph: itself or the innermost cluster.
Representative(graph, n) ==
  LET around == {p \in Prefixes(n.path) : ClusterNode(p) \in Ids(graph)}
  IN IF n.id \in Ids(graph) THEN n.id
     ELSE ClusterNode(CHOOSE p \in around : \A q \in around : Len(q) <= Len(p))

\* Without truncation no operation is lost: each is represented by a node, a cluster
\* counts those it stands for, and the edges are those of the full graph between what
\* stands for their ends.
IsQuotient(full, graph) ==
  LET node(id) == CHOOSE n \in Range(full.nodes) : n.id = id
      rep(id)  == Representative(graph, node(id))
      count(n) == IF n.hidden = 0 THEN 1 ELSE n.hidden
  IN ~graph.truncated =>
       /\ \A id \in Ids(full) : rep(id) \in Ids(graph)
       /\ \A n \in Range(graph.nodes) :
            count(n) = Cardinality({id \in Ids(full) : rep(id) = n.id})
       /\ graph.edges = {e \in {Edge(rep(e.from), rep(e.to), e.removed) : e \in full.edges} :
                           e.from # e.to}

\* No more is collapsed than the budget needs: with the cluster that was collapsed
\* last opened again, the graph exceeds it.
NoNeedlessCollapse(full, graph, budget) ==
  LET metas == {n \in Range(graph.nodes) : n.hidden > 0}
      last  == CHOOSE n \in metas : \A m \in metas \ {n} : Deeper(m.path, n.path)
  IN (metas # {} /\ ~graph.truncated) => Len(graph.nodes) - 1 + last.hidden > budget
=============================================================================
