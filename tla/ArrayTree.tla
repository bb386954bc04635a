----------------------------- MODULE ArrayTree -----------------------------
(***************************************************************************)
(* The host without shared virtual memory keeps the tree in an array of    *)
(* vectors, tree_memory, that it copies to the device.  Its buildkdTree    *)
(* makes the same calls in the same order as the one of KdTree, and its    *)
(* copies of the helpers have the same text; here the two programs run     *)
(* side by side on one file.  A node is stored at heap_ptr + 1 (place 0 is *)
(* the null pointer), and a parent reads its children back from the array. *)
(***************************************************************************)
EXTENDS KdTree

VARIABLES
  tree_memory,
  heap_ptr      \* root in main, which is both the argument and the result

arrayVars == <<vars, tree_memory, heap_ptr>>

Pick(p) == [i \in 1 .. D |-> p[i]]
Slice(v, first) == [d \in Dims |-> v[first + d - 1]]

\* A mutant: the two corners of the box change places.
kdTree_t_2_vector_hi_first(t) ==
  <<t.count>> \o Pick(t.wgtCent) \o <<t.sum_sq>> \o Pick(t.bnd_hi) \o Pick(t.bnd_lo)
    \o <<t.left, t.right>>

\* The words of a node, in the order in which the kernel reads them too.
kdTree_t_2_vector(t) ==
  <<t.count>> \o Pick(t.wgtCent) \o <<t.sum_sq>> \o Pick(t.bnd_lo) \o Pick(t.bnd_hi)
    \o <<t.left, t.right>>

vector_2_kdTree_t(v) ==
  [count |-> v[1], wgtCent |-> Slice(v, 2), sum_sq |-> v[D + 2],
   bnd_lo |-> Slice(v, D + 3), bnd_hi |-> Slice(v, 2 * D + 3),
   left |-> v[3 * D + 3], right |-> v[3 * D + 4]]

ArrayInit ==
  /\ Init
  /\ tree_memory = [i \in 0 .. 2 * N - 1 |-> <<>>]
  /\ heap_ptr = 0

Store(node) ==
  /\ heap_ptr' = heap_ptr + 1
  /\ tree_memory' = [tree_memory EXCEPT ![heap_ptr'] = kdTree_t_2_vector(node)]

ArrayUnchanged == UNCHANGED <<tree_memory, heap_ptr>>

ArrayRead == read_data_points /\ ArrayUnchanged
ArrayBox  == compute_bounding_box /\ ArrayUnchanged

\* buildkdTree on the array.
ArrayLeaf  == Leaf /\ Store(LeafNode)
ArrayLeft  == BuildLeft /\ ArrayUnchanged
ArrayRight == BuildRight /\ ArrayUnchanged

ArrayJoin ==
  /\ Join
  /\ Store(InnerNode(vector_2_kdTree_t(tree_memory[Top.left]), vector_2_kdTree_t(tree_memory[ret])))

\* Only the other program deletes nodes one by one.
HeapDelete ==
  /\ \/ StartDelete \/ deletekdTree
     \/ Finished /\ UNCHANGED vars
  /\ ArrayUnchanged

ArrayNext ==
  \/ ArrayRead \/ ArrayBox
  \/ ArrayLeaf \/ ArrayLeft \/ ArrayRight \/ ArrayJoin
  \/ HeapDelete

ArraySpec == ArrayInit /\ [][ArrayNext]_arrayVars

\* The array holds the tree that the other program has on its heap, node by
\* node, under the same addresses; it has room; and heap_ptr, which main hands
\* to the kernel as the root, is the root.
SameTree ==
  /\ heap_ptr = Len(heap) /\ heap_ptr < 2 * N
  /\ \A i \in 1 .. heap_ptr : vector_2_kdTree_t(tree_memory[i]) = heap[i]
  /\ phase = "run" => heap_ptr = ret
=============================================================================
