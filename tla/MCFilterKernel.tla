--------------------------- MODULE MCFilterKernel ---------------------------
(***************************************************************************)
(* FilterKernel on small trees.  A complete tree numbers its nodes from    *)
(* the root, 1; node n has the children 2n and 2n + 1.                     *)
(***************************************************************************)
EXTENDS FilterKernel

\* Two levels below the root.
TreeNodes == 1 .. 7
TreeLeft  == [n \in TreeNodes |-> IF n <= 3 THEN 2 * n ELSE 0]
TreeRight == [n \in TreeNodes |-> IF n <= 3 THEN 2 * n + 1 ELSE 0]

\* The first two levels of which the left half goes down one more.
LopsidedNodes == 1 .. 9
LopsidedLeft  == [n \in LopsidedNodes |-> IF n <= 4 THEN 2 * n ELSE 0]
LopsidedRight == [n \in LopsidedNodes |-> IF n <= 4 THEN 2 * n + 1 ELSE 0]

=============================================================================
