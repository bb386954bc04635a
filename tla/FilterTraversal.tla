-------------------------- MODULE FilterTraversal ---------------------------
(***************************************************************************)
(* What the filter kernels promise: a traversal of the kd-tree in which    *)
(* every node is examined against a set of candidate centres.  The node's  *)
(* closest candidate survives the pruning, the children inherit the        *)
(* survivors (or, when memory is short, all the centres again), and a node *)
(* with no children, or with one survivor, is assigned to its closest      *)
(* candidate as a whole.  Nodes may be examined in any order.  There is no *)
(* stack, no pool, no batch and no channel here.                           *)
(***************************************************************************)
EXTENDS Naturals, FiniteSets

CONSTANTS
  Nodes,     \* the addresses of the tree's nodes
  Root,
  Nil,       \* the null pointer
  left,      \* [Nodes -> Nodes \cup {Nil}]
  right,
  Centres    \* the indices of the centres

VARIABLES
  todo,      \* the nodes to examine, each with its candidates
  assigned   \* the subtrees that have been assigned to a centre

traversal == <<todo, assigned>>

Leaf(u) == left[u] = Nil /\ right[u] = Nil

TraversalInit ==
  /\ todo = {[u |-> Root, cand |-> Centres]}
  /\ assigned = {}

\* The sets of candidates that may be left of cand once closest is known.
Survivors(cand, closest) == {s \in SUBSET cand : closest \in s} \cup {Centres}

Examine(t) ==
  \E closest \in t.cand : \E kept \in Survivors(t.cand, closest) :
    IF Leaf(t.u) \/ Cardinality(kept) = 1
      THEN /\ assigned' = assigned \cup {[u |-> t.u, centre |-> closest]}
           /\ todo' = todo \ {t}
      ELSE /\ todo' = (todo \ {t}) \cup {[u |-> left[t.u], cand |-> kept],
                                         [u |-> right[t.u], cand |-> kept]}
           /\ UNCHANGED assigned

TraversalNext == \E t \in todo : Examine(t)

TraversalSpec == TraversalInit /\ [][TraversalNext]_traversal /\ WF_traversal(TraversalNext)
=============================================================================
