------------------------------- MODULE KdTree -------------------------------
(***************************************************************************)
(* The host builds the kd-tree that the filter kernels traverse, and       *)
(* deletes it at the end.  buildkdTree is recursive: a call on a range of  *)
(* index_arr either makes a leaf of one point, or splits the range in      *)
(* place, builds the left and the right part, and makes a node of both.    *)
(* All calls share the one bounding box (bnd_lo, bnd_hi), which a call     *)
(* narrows for its parts and restores.  `calls' is the stack of calls.     *)
(***************************************************************************)
EXTENDS Integers, Sequences, FiniteSets, FiniteSetsExt

CONSTANTS
  N,        \* the number of data points
  D,        \* their dimensions
  Coords    \* the coordinates that the data file may hold

ASSUME KdTreeAssumption == N \in Nat \ {0} /\ D \in Nat \ {0} /\ Coords \subseteq Int

VARIABLES
  file,             \* the lines of the data file
  data_points, index_arr,
  bnd_lo, bnd_hi,   \* the bounding box that the calls share
  calls,            \* the calls of buildkdTree; the innermost is the last
  ret,              \* what the call that has just ended returns
  heap,             \* the nodes, at the addresses 1, 2, ... (0 is NULL)
  phase,
  doomed,           \* deletekdTree: the subtrees still to delete
  freed             \* the nodes deleted

build == <<file, data_points, index_arr, bnd_lo, bnd_hi, calls, ret, heap>>
vars  == <<build, phase, doomed, freed>>

Dims  == 1 .. D
Point == [Dims -> Int]
None  == 0

Top    == calls[Len(calls)]
Outer  == SubSeq(calls, 1, Len(calls) - 1)
Active(pc) == calls # <<>> /\ Top.pc = pc

Call(base, n) == [pc |-> "enter", base |-> base, n |-> n, n_lo |-> 0, cdim |-> 1,
                  cval |-> 0, hv |-> 0, lv |-> 0, left |-> None]

Init ==
  /\ file \in [1 .. N * D -> Coords] \cup [1 .. N * D - 1 -> Coords \cap {0}] \cup {<<>>}
  /\ data_points = [i \in 0 .. N - 1 |-> [d \in Dims |-> 0]]
  /\ index_arr = [i \in 0 .. N - 1 |-> 0]
  /\ bnd_lo = [d \in Dims |-> 0] /\ bnd_hi = [d \in Dims |-> 0]
  /\ calls = <<>> /\ ret = None /\ heap = <<>>
  /\ phase = "read" /\ doomed = <<>> /\ freed = {}

-----------------------------------------------------------------------------
\* The file holds one dimension of all the points after the other; a file that
\* is missing or too short ends the program.
read_data_points ==
  /\ phase = "read"
  /\ data_points' = [i \in 0 .. N - 1 |-> [d \in Dims |->
                      LET line == (d - 1) * N + i + 1
                      IN  IF line <= Len(file) THEN file[line] ELSE data_points[i][d]]]
  /\ IF Len(file) < N * D THEN phase' = "failed" /\ UNCHANGED index_arr
     ELSE phase' = "box" /\ index_arr' = [i \in 0 .. N - 1 |-> i]
  /\ UNCHANGED <<file, bnd_lo, bnd_hi, calls, ret, heap, doomed, freed>>

\* The coordinates of a range of n points, whose indices start at base.
Coordinates(base, n, d) == {data_points[index_arr[base + i]][d] : i \in 0 .. n - 1}

find_min_max(base, n, d) == [min |-> Min(Coordinates(base, n, d)), max |-> Max(Coordinates(base, n, d))]

compute_bounding_box ==
  /\ phase = "box"
  /\ bnd_lo' = [d \in Dims |-> find_min_max(0, N, d).min]
  /\ bnd_hi' = [d \in Dims |-> find_min_max(0, N, d).max]
  /\ calls' = <<Call(0, N)>>
  /\ phase' = "build"
  /\ UNCHANGED <<file, data_points, index_arr, ret, heap, doomed, freed>>

-----------------------------------------------------------------------------
(***************************************************************************)
(* split_bounding_box.                                                     *)
(***************************************************************************)

\* Division of ints rounds towards zero.
Half(x) == IF x < 0 THEN -((-x) \div 2) ELSE x \div 2

\* The first dimension in which the box is longest.
LongestEdge ==
  CHOOSE d \in Dims : \A e \in Dims :
    \/ bnd_hi[e] - bnd_lo[e] < bnd_hi[d] - bnd_lo[d]
    \/ bnd_hi[e] - bnd_lo[e] = bnd_hi[d] - bnd_lo[d] /\ e >= d

\* A mutant: the exchange goes without a temporary.
Swap_no_tmp(a, i, j) == [a EXCEPT ![i] = a[j]]

Swap(a, i, j) == [a EXCEPT ![i] = a[j], ![j] = a[i]]

\* Where l stops: at the first position from l on whose element may not stay on
\* the left, or at the end.
StopUp(arr, l, n, onLeft) ==
  CHOOSE i \in l .. n : /\ i < n => arr[i] \notin onLeft
                        /\ \A j \in l .. i - 1 : arr[j] \in onLeft

\* Where r stops: at the last position down to bound whose element may not stay on
\* the right, or below.
StopDown(arr, r, bound, onRight) ==
  CHOOSE i \in -1 .. r : /\ i >= bound /\ i >= 0 => arr[i] \notin onRight
                         /\ \A j \in i + 1 .. r : j >= bound /\ arr[j] \in onRight

\* The state of a pass over n points.
PassState(n) == [arr : [0 .. n - 1 -> 0 .. N - 1], l : 0 .. n, r : -1 .. n - 1]

(***************************************************************************)
(* A pass of Wirth's method over arr[low .. n - 1]: l moves up over the    *)
(* elements that may stay on the left, r down over those that may stay on  *)
(* the right, as far as bound, and the two that stop them are exchanged.   *)
(* In the result r is also the lowest position at which the pass read.     *)
(***************************************************************************)
Pass(arr, low, n, bound, onLeft, onRight) ==
  LET pass[s \in PassState(n)] ==
        LET up   == StopUp(s.arr, s.l, n, onLeft)
            down == StopDown(s.arr, s.r, bound, onRight)
        IN  IF up > down THEN [arr |-> s.arr, l |-> up, r |-> down]
            ELSE pass[[arr |-> Swap(s.arr, up, down), l |-> up + 1, r |-> down - 1]]
  IN pass[[arr |-> arr, l |-> low, r |-> n - 1]]

\* A mutant: the threshold is not moved into the range of the points.
Threshold_middle(ideal, found) == ideal

\* The middle of the box, moved into the range of the points.
Threshold(ideal, found) ==
  IF ideal < found.min THEN found.min
  ELSE IF ideal > found.max THEN found.max
  ELSE ideal

\* A mutant: all the points may go to the left.
LeftCount_all(ideal, found, br1, br2, n) == IF ideal > found.max THEN n ELSE br1

\* How many of n points go to the left: br1 are below the threshold, br2 not
\* above it.
LeftCount(ideal, found, br1, br2, n) ==
  IF ideal < found.min THEN 1
  ELSE IF ideal > found.max THEN n - 1
  ELSE IF br1 > n \div 2 THEN br1
  ELSE IF br2 < n \div 2 THEN br2
  ELSE n \div 2

split_bounding_box(base, n) ==
  LET dim       == LongestEdge
      ideal     == Half(bnd_hi[dim] + bnd_lo[dim])
      found     == find_min_max(base, n, dim)
      threshold == Threshold(ideal, found)
      key(x)    == data_points[x][dim]
      below     == {x \in 0 .. N - 1 : key(x) < threshold}
      above     == {x \in 0 .. N - 1 : key(x) > threshold}
      lower == Pass([i \in 0 .. n - 1 |-> index_arr[base + i]], 0, n, 0,
                    below, 0 .. N - 1 \ below)
      upper == Pass(lower.arr, lower.l, n, lower.l, 0 .. N - 1 \ above, above)
  IN [arr  |-> upper.arr, cdim |-> dim, cval |-> threshold, lowest |-> upper.r,
      n_lo |-> LeftCount(ideal, found, lower.l, upper.l, n)]

-----------------------------------------------------------------------------
(***************************************************************************)
(* buildkdTree.                                                            *)
(***************************************************************************)

SumSq(p) == MapThenSumSet(LAMBDA d : p[d] * p[d], Dims)

\* A call ends: its value goes to the caller, or is the root.
Return(address) ==
  /\ calls' = Outer
  /\ ret' = address
  /\ phase' = IF Outer = <<>> THEN "run" ELSE "build"

\* The node of a call on one point.
LeafNode ==
  LET p == data_points[index_arr[Top.base]]
  IN  [count |-> Top.n, wgtCent |-> p, sum_sq |-> SumSq(p),
       bnd_lo |-> bnd_lo, bnd_hi |-> bnd_hi, left |-> None, right |-> None]

Leaf ==
  /\ phase = "build" /\ Active("enter") /\ Top.n <= 1
  /\ heap' = Append(heap, LeafNode)
  /\ Return(Len(heap'))
  /\ UNCHANGED <<file, data_points, index_arr, bnd_lo, bnd_hi, doomed, freed>>

\* A call on more points arranges them and builds the left part in the lower
\* part of the box.
BuildLeft ==
  /\ phase = "build" /\ Active("enter") /\ Top.n > 1
  /\ LET s == split_bounding_box(Top.base, Top.n)
     IN  /\ index_arr' = [i \in DOMAIN index_arr |->
                            IF i \in Top.base .. Top.base + Top.n - 1
                              THEN s.arr[i - Top.base] ELSE index_arr[i]]
         /\ bnd_hi' = [bnd_hi EXCEPT ![s.cdim] = s.cval]
         /\ calls' = Outer \o
              <<[Top EXCEPT !.pc = "left", !.n_lo = s.n_lo, !.cdim = s.cdim, !.cval = s.cval,
                            !.hv = bnd_hi[s.cdim], !.lv = bnd_lo[s.cdim]],
                Call(Top.base, s.n_lo)>>
  /\ UNCHANGED <<file, data_points, bnd_lo, ret, heap, phase, doomed, freed>>

\* A mutant: the upper end of the box is not restored after the left part.
BuildRight_keep_hi ==
  /\ phase = "build" /\ Active("left")
  /\ bnd_lo' = [bnd_lo EXCEPT ![Top.cdim] = Top.cval]
  /\ calls' = Outer \o <<[Top EXCEPT !.pc = "right", !.left = ret],
                         Call(Top.base + Top.n_lo, Top.n - Top.n_lo)>>
  /\ UNCHANGED <<file, data_points, index_arr, bnd_hi, ret, heap, phase, doomed, freed>>

\* Then the right part in the upper part of the box.
BuildRight ==
  /\ phase = "build" /\ Active("left")
  /\ bnd_hi' = [bnd_hi EXCEPT ![Top.cdim] = Top.hv]
  /\ bnd_lo' = [bnd_lo EXCEPT ![Top.cdim] = Top.cval]
  /\ calls' = Outer \o <<[Top EXCEPT !.pc = "right", !.left = ret],
                         Call(Top.base + Top.n_lo, Top.n - Top.n_lo)>>
  /\ UNCHANGED <<file, data_points, index_arr, ret, heap, phase, doomed, freed>>

\* A mutant: the right child takes the place of the left one.
InnerNode_one_child(l, r) ==
  [count |-> Top.n, sum_sq |-> l.sum_sq + r.sum_sq,
   wgtCent |-> [d \in Dims |-> l.wgtCent[d] + r.wgtCent[d]],
   bnd_lo |-> [bnd_lo EXCEPT ![Top.cdim] = Top.lv], bnd_hi |-> bnd_hi,
   left |-> ret, right |-> ret]

\* The node of both, whose records are l and r, in the restored box.
InnerNode(l, r) ==
  [count |-> Top.n, sum_sq |-> l.sum_sq + r.sum_sq,
   wgtCent |-> [d \in Dims |-> l.wgtCent[d] + r.wgtCent[d]],
   bnd_lo |-> [bnd_lo EXCEPT ![Top.cdim] = Top.lv], bnd_hi |-> bnd_hi,
   left |-> Top.left, right |-> ret]

Join ==
  /\ phase = "build" /\ Active("right")
  /\ bnd_lo' = [bnd_lo EXCEPT ![Top.cdim] = Top.lv]
  /\ heap' = Append(heap, InnerNode(heap[Top.left], heap[ret]))
  /\ Return(Len(heap'))
  /\ UNCHANGED <<file, data_points, index_arr, bnd_hi, doomed, freed>>

-----------------------------------------------------------------------------
\* The kernels have run; cleanup deletes the tree.
StartDelete ==
  /\ phase = "run"
  /\ phase' = "delete"
  /\ doomed' = <<ret>>
  /\ UNCHANGED <<build, freed>>

IsLeaf(u) == heap[u].left = None /\ heap[u].right = None

\* A mutant: the left subtree is deleted twice.
deletekdTree_left_twice ==
  /\ phase = "delete" /\ doomed # <<>>
  /\ LET u == Head(doomed)
     IN  IF IsLeaf(u)
           THEN doomed' = Tail(doomed) /\ UNCHANGED freed
           ELSE /\ freed' = freed \cup {u}
                /\ doomed' = <<heap[u].left, heap[u].left>> \o Tail(doomed)
  /\ UNCHANGED <<build, phase>>

\* An inner node is copied and deleted, then its subtrees; a leaf stays.
deletekdTree ==
  /\ phase = "delete" /\ doomed # <<>>
  /\ LET u == Head(doomed)
     IN  IF IsLeaf(u)
           THEN doomed' = Tail(doomed) /\ UNCHANGED freed
           ELSE /\ freed' = freed \cup {u}
                /\ doomed' = <<heap[u].left, heap[u].right>> \o Tail(doomed)
  /\ UNCHANGED <<build, phase>>

Finished == phase = "failed" \/ (phase = "delete" /\ doomed = <<>>)

Next ==
  \/ read_data_points \/ compute_bounding_box
  \/ Leaf \/ BuildLeft \/ BuildRight \/ Join
  \/ StartDelete \/ deletekdTree
  \/ Finished /\ UNCHANGED vars

Spec == Init /\ [][Next]_vars

-----------------------------------------------------------------------------
(***************************************************************************)
(* Properties.                                                             *)
(***************************************************************************)
Nodes == 1 .. Len(heap)

\* The leaves below each node.  A node is made after its children.
leaves[u \in Nodes] ==
  IF IsLeaf(u) THEN {u} ELSE leaves[heap[u].left] \cup leaves[heap[u].right]

TypeOK ==
  /\ data_points \in [0 .. N - 1 -> Point]
  /\ index_arr \in [0 .. N - 1 -> 0 .. N - 1]
  /\ bnd_lo \in Point /\ bnd_hi \in Point
  /\ \A i \in 1 .. Len(calls) : calls[i].n \in 1 .. N /\ calls[i].base \in 0 .. N - calls[i].n
  /\ ret \in 0 .. Len(heap)
  /\ Len(heap) <= 2 * N - 1
  /\ \A u \in Nodes : heap[u].left < u /\ heap[u].right < u
  /\ freed \subseteq Nodes

\* A split leaves a point on either side, so that the recursion ends; it reads
\* nothing outside the range (the comparison of r with the unsigned br1 is true
\* for r = -1); and the cut separates the points.
SplitSound ==
  phase = "build" /\ Active("enter") /\ Top.n > 1 =>
    LET s   == split_bounding_box(Top.base, Top.n)
        key(i) == data_points[s.arr[i]][s.cdim]
    IN  /\ s.n_lo \in 1 .. Top.n - 1
        /\ s.lowest >= 0
        /\ \A i \in 0 .. Top.n - 1 : IF i < s.n_lo THEN key(i) <= s.cval ELSE key(i) >= s.cval

\* A node's box, which the kernel prunes by, contains every point below the
\* node: the shared box is that of the call when a node is made.
BoxesHold ==
  \A u \in Nodes : \A l \in leaves[u] : \A d \in Dims :
    heap[l].wgtCent[d] \in heap[u].bnd_lo[d] .. heap[u].bnd_hi[d]

\* count, wgtCent and sum_sq of a node are those of the points below it, each
\* counted once; the kernel assigns whole subtrees by them.
SumsExact ==
  \A u \in Nodes :
    /\ heap[u].count = Cardinality(leaves[u])
    /\ heap[u].sum_sq = MapThenSumSet(LAMBDA l : SumSq(heap[l].wgtCent), leaves[u])
    /\ \A d \in Dims :
         heap[u].wgtCent[d] = MapThenSumSet(LAMBDA l : heap[l].wgtCent[d], leaves[u])

\* The positions of index_arr that no leaf has been made of yet.
Unbuilt ==
  UNION {LET c == calls[i]
         IN CASE c.pc = "enter" -> c.base .. c.base + c.n - 1
              [] c.pc = "left"  -> c.base + c.n_lo .. c.base + c.n - 1
              [] OTHER -> {} : i \in 1 .. Len(calls)}

\* The rearranging in place of nested ranges loses and repeats no point: each is
\* in one leaf or in a range still to be built.
PointsKept ==
  phase \in {"build", "run", "delete"} =>
    \A i \in 0 .. N - 1 :
      LET p == [d \in Dims |-> file[(d - 1) * N + i + 1]]
      IN  Cardinality({j \in 0 .. N - 1 : data_points[j] = p})
            = Cardinality({u \in Nodes : IsLeaf(u) /\ heap[u].wgtCent = p})
              + Cardinality({j \in Unbuilt : data_points[index_arr[j]] = p})

\* No node is examined after it was deleted, and none is deleted twice; in the
\* end the inner nodes are gone.
DeletedOnce ==
  /\ \A i, j \in 1 .. Len(doomed) : doomed[i] \notin freed /\ (i # j => doomed[i] # doomed[j])
  /\ phase = "delete" /\ doomed = <<>> => freed = {u \in Nodes : ~IsLeaf(u)}
=============================================================================
