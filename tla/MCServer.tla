------------------------------- MODULE MCServer -------------------------------
EXTENDS Server, TLC

CONSTANTS x, y, z,          \* texts
          i, j, k,          \* blobs
          f1, f2, f3        \* functions

MCDefines == x :> {f1, f2} @@ y :> {f1, f2, f3} @@ z :> {f3}
MCChains  == f1 :> 1 @@ f2 :> 1 @@ f3 :> 3

Snap(before, after) == "before" :> before @@ "after" :> after

\* Pass 1 contains pass 2, which changes the module; pass 3 deletes functions and
\* fails, so that it has no after snapshot.
First  == [leaves |-> {2, 3}, text |-> i :> x @@ j :> y @@ k :> z,
           snapshot |-> <<Snap(i, j), Snap(i, j), Snap(j, NoBlob)>>]
\* The same passes, after a change of the compiler.
Second == [leaves |-> {2, 3}, text |-> i :> y @@ j :> z @@ k :> x,
           snapshot |-> <<Snap(i, j), Snap(i, j), Snap(j, k)>>]

OneTrace  == {First}
TwoTraces == {First, Second}

R(kind, pass, side, func) ==
  [kind |-> kind, pass |-> pass, side |-> side, function |-> func]

AllRequests ==
  {R("ops", 2, "after", f1), R("history", 2, "before", f3), R("graph", 3, "before", f2),
   R("diff", 2, "before", f3), R("diff", 2, "before", f1), R("functions", 3, "before", f2)}
OpsRequests == {R("ops", 2, "after", func) : func \in {f1, f2}}
=============================================================================
