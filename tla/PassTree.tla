------------------------------- MODULE PassTree -------------------------------
(***************************************************************************)
(* What a trace promises about the pass executions it records, whatever    *)
(* thread they ran on and whenever the compiler stopped: a tree that grows *)
(* only below passes that are still open, and is closed from the leaves    *)
(* up.  The promise ends when a pass fails; from then on the trace is only *)
(* known to be a tree.  TraceRecorder implements it (Capture), a reader    *)
(* relies on it (TraceReader).                                             *)
(***************************************************************************)
EXTENDS Integers, Sequences

VARIABLES
  tree,   \* the recorded executions by id: their parent, and whether still open
  failed  \* a pass has been reported as failed

treeVars == <<tree, failed>>

Node   == [parent : Nat, open : BOOLEAN]
NodeIds == 1 .. Len(tree)

Init == tree = <<>> /\ failed = FALSE

\* The synthetic root, which stays open to new passes even between two of them.
BeginRoot ==
  /\ tree = <<>>
  /\ tree' = <<[parent |-> 0, open |-> TRUE]>>
  /\ UNCHANGED failed

Begin(p) ==
  /\ p = 1 \/ tree[p].open \/ failed
  /\ tree' = Append(tree, [parent |-> p, open |-> TRUE])
  /\ UNCHANGED failed

\* An execution ends after all those it contains.
End(n) ==
  /\ failed \/ \A m \in NodeIds : tree[m].parent = n => ~tree[m].open
  /\ tree' = [tree EXCEPT ![n].open = FALSE]
  /\ UNCHANGED failed

Fail == failed' = TRUE /\ UNCHANGED tree

Next ==
  \/ BeginRoot
  \/ \E n \in NodeIds : Begin(n) \/ End(n)
  \/ Fail

Spec == Init /\ [][Next]_treeVars

-----------------------------------------------------------------------------
TreeTypeOK == tree \in Seq(Node) /\ failed \in BOOLEAN

\* Parents precede their children, so the rows are a tree rooted at row 1.
IsTree ==
  \A n \in NodeIds : tree[n].parent \in IF n = 1 THEN {0} ELSE 1 .. (n - 1)

\* Below a closed execution everything is closed: the intervals nest.
ClosedBelow ==
  ~failed => \A n \in NodeIds :
    tree[n].open => \/ tree[n].parent \in {0, 1}
                    \/ tree[tree[n].parent].open
=============================================================================
