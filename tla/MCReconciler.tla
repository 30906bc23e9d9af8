---------------------------- MODULE MCReconciler ----------------------------
(* Two resources of which one is optional, two configurations, two replica
   counts, two operators. *)
EXTENDS Reconciler

CONSTANTS p, q, o1, o2

MCPaths == {p, q}
Two == 1..2
TwoOperators == {o1, o2}
OneOperator == {o1}

MCState(a, b) == [r \in {p, q} |-> IF r = p THEN a ELSE b]
MCDeclarations == {MCState(<<1, 1>>, <<>>), MCState(<<2, 1>>, <<1, 2>>)}
=============================================================================
