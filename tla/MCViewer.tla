------------------------------- MODULE MCViewer -------------------------------
EXTENDS ViewerStore, TLC

CONSTANTS u1, u2  \* operations

\* Pass 1 is a pipeline of the leaves 2 and 3; 2 adds a function, and 3 failed, so
\* that it has no snapshot after it.
MCScopes ==
  1 :> ("before" :> {1} @@ "after" :> {1, 2}) @@
  2 :> ("before" :> {1, 2} @@ "after" :> {1, 2}) @@
  3 :> ("before" :> {1, 2} @@ "after" :> NoSide)

MCOperations == 1 :> {u1} @@ 2 :> {u2}
=============================================================================
