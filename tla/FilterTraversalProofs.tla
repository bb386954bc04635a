------------------------- MODULE FilterTraversalProofs -------------------------
(***************************************************************************)
(* Theorems about what the filter kernels examine, for every tree that     *)
(* buildkdTree can make: every leaf is reached once (LeafOnce), and every  *)
(* step of the kernels is a step of the abstract traversal, or none.       *)
(*                                                                         *)
(* The argument.  The subtrees of a node's two children have no node in    *)
(* common, since a node has one parent and is not below itself.  So when a *)
(* record is replaced by those of the children, or is reported, each leaf  *)
(* below it stays with exactly one record, pending or reported.  Two       *)
(* pending records thus never hold the same node, and taking one away      *)
(* takes away nothing else of the set that the abstract traversal keeps.   *)
(*                                                                         *)
(* filter0 never compares its stack pointer with STACK_SIZE.  The last     *)
(* part says what the stack may need, for every tree and batch size: one   *)
(* entry, and BatchSize more for every level of the tree (StackFits).      *)
(*                                                                         *)
(* The argument.  Give every entry a level that is at least its node's     *)
(* height: all the entries that one batch pushes get the level below the   *)
(* highest of the batch, so that the levels fall from the bottom of the    *)
(* stack to its top.  A batch pushes twice what it has taken away, and it  *)
(* takes BatchSize entries away unless it empties the stack, so of the     *)
(* entries of a level at most BatchSize are left when there are entries of *)
(* a lower one.                                                            *)
(***************************************************************************)
EXTENDS FilterKernelProofs, Integers

-----------------------------------------------------------------------------
(***************************************************************************)
(* The tree.                                                               *)
(***************************************************************************)

Closed(S) == \A u \in Nodes : u \in S => Kids(u) \subseteq S

\* The nodes of the subtree at u: they are in every closed set that holds u.
Below(u) == {v \in Nodes : \A S \in SUBSET Nodes : u \in S /\ Closed(S) => v \in S}

LEMMA KidsAreNodes ==
  ASSUME NEW u \in Nodes
  PROVE  /\ Kids(u) \subseteq Nodes
         /\ Leaf(u) => Kids(u) = {}
         /\ ~Leaf(u) => /\ left[u] \in Nodes /\ right[u] \in Nodes /\ left[u] # right[u]
                        /\ Kids(u) = {left[u], right[u]}
  BY FilterAssumption, TreeAssumption DEF Kids, Leaf

LEMMA BelowLeast ==
  ASSUME NEW u \in Nodes
  PROVE  /\ Below(u) \in SUBSET Nodes /\ u \in Below(u) /\ Closed(Below(u))
         /\ \A S \in SUBSET Nodes : u \in S /\ Closed(S) => Below(u) \subseteq S
<1>1. Below(u) \in SUBSET Nodes /\ u \in Below(u)
  BY DEF Below
<1>2. \A S \in SUBSET Nodes : u \in S /\ Closed(S) => Below(u) \subseteq S
  BY DEF Below
<1>3. Closed(Below(u))
  <2> SUFFICES ASSUME NEW v \in Nodes, v \in Below(u), NEW w \in Kids(v),
                      NEW S \in SUBSET Nodes, u \in S, Closed(S)
               PROVE  w \in S /\ w \in Nodes
    BY KidsAreNodes DEF Closed, Below
  <2>1. v \in S
    BY DEF Below
  <2> QED BY <2>1 DEF Closed
<1> QED BY <1>1, <1>2, <1>3

\* What is below a kid is below the node.
LEMMA BelowKid ==
  ASSUME NEW u \in Nodes, NEW c \in Kids(u)
  PROVE  c \in Nodes /\ Below(c) \subseteq Below(u)
<1>1. c \in Nodes /\ c \in Below(u)
  BY BelowLeast, KidsAreNodes DEF Closed
<1> QED BY <1>1, BelowLeast

\* Everything below a node but itself is below one of its kids.
LEMMA BelowSplit ==
  ASSUME NEW u \in Nodes, NEW v \in Below(u), v # u
  PROVE  \E c \in Kids(u) : v \in Below(c)
<1> DEFINE S == {w \in Nodes : w = u \/ \E c \in Kids(u) : w \in Below(c)}
<1>1. Closed(S)
  <2> SUFFICES ASSUME NEW w \in S, NEW x \in Kids(w) PROVE x \in S
    BY DEF Closed
  <2>1. x \in Nodes
    BY KidsAreNodes
  <2>2. CASE w = u
    BY <2>1, <2>2, BelowLeast
  <2>3. CASE \E c \in Kids(u) : w \in Below(c)
    <3>1. PICK c \in Kids(u) : w \in Below(c)
      BY <2>3
    <3>2. x \in Below(c)
      BY <3>1, KidsAreNodes, BelowLeast DEF Closed
    <3> QED BY <2>1, <3>2
  <2> QED BY <2>2, <2>3
<1>2. Below(u) \subseteq S
  BY <1>1, BelowLeast
<1> QED BY <1>2

\* The parent of a node below a is below a too.
LEMMA ParentBelow ==
  ASSUME NEW a \in Nodes, NEW w \in Nodes, NEW c \in Kids(w), c \in Below(a), c # a
  PROVE  w \in Below(a)
<1> SUFFICES ASSUME w \notin Below(a) PROVE FALSE
  OBVIOUS
<1> DEFINE S == Below(a) \ {c}
<1>1. Closed(S)
  <2> SUFFICES ASSUME NEW u \in Nodes, u \in S, NEW x \in Kids(u) PROVE x \in S
    BY DEF Closed
  <2>1. x \in Below(a)
    BY BelowLeast DEF Closed
  <2>2. x # c
    BY TreeAssumption
  <2> QED BY <2>1, <2>2
<1>2. a \in S /\ S \in SUBSET Nodes
  BY BelowLeast
<1>3. Below(a) \subseteq S
  BY <1>1, <1>2, BelowLeast
<1> QED BY <1>3

\* Two subtrees that meet are one inside the other.
LEMMA BelowNested ==
  ASSUME NEW a \in Nodes, NEW b \in Nodes, NEW v \in Below(a) \cap Below(b)
  PROVE  a \in Below(b) \/ b \in Below(a)
<1> SUFFICES ASSUME a \notin Below(b), b \notin Below(a) PROVE FALSE
  OBVIOUS
<1> DEFINE S == Below(b) \ Below(a)
<1>1. Closed(S)
  <2> SUFFICES ASSUME NEW w \in Nodes, w \in S, NEW c \in Kids(w) PROVE c \in S
    BY DEF Closed
  <2>1. c \in Below(b)
    BY BelowLeast DEF Closed
  <2>2. c \notin Below(a)
    BY <2>1, ParentBelow
  <2> QED BY <2>1, <2>2
<1>2. b \in S /\ S \in SUBSET Nodes
  BY BelowLeast
<1>3. Below(b) \subseteq S
  BY <1>1, <1>2, BelowLeast
<1> QED BY <1>3

\* No node is below one of its kids.
LEMMA NoCycle ==
  ASSUME NEW u \in Nodes, NEW c \in Kids(u)
  PROVE  u \notin Below(c)
<1> DEFINE S == {w \in Nodes : \A x \in Kids(w) : w \notin Below(x)}
<1>1. ASSUME NEW w \in Nodes, Kids(w) \subseteq S PROVE w \in S
  <2> SUFFICES ASSUME NEW x \in Kids(w), w \in Below(x) PROVE FALSE
    OBVIOUS
  <2>1. x \in Nodes /\ x \in S /\ x \in Below(w)
    BY <1>1, BelowLeast, KidsAreNodes DEF Closed
  <2>2. PICK y \in Kids(x) : w \in Below(y)
    <3>1. CASE w = x
      BY <3>1, <2>1
    <3>2. CASE w # x
      BY <2>1, <3>2, BelowSplit
    <3> QED BY <3>1, <3>2
  <2>3. x \in Below(y)
    BY <1>1, <2>1, <2>2, KidsAreNodes, BelowLeast DEF Closed
  <2> QED BY <2>1, <2>2, <2>3
<1>2. S = Nodes
  <2>1. S \in SUBSET Nodes
    OBVIOUS
  <2> HIDE DEF S
  <2> QED BY <1>1, <2>1, TreeAssumption
<1> QED BY <1>2

\* The subtrees of a node's two kids are apart.
LEMMA KidsApart ==
  ASSUME NEW u \in Nodes, ~Leaf(u)
  PROVE  Below(left[u]) \cap Below(right[u]) = {}
<1> DEFINE l == left[u]
           r == right[u]
<1>1. l \in Nodes /\ r \in Nodes /\ l # r /\ l \in Kids(u) /\ r \in Kids(u)
  BY KidsAreNodes
<1>2. u \notin Below(l) /\ u \notin Below(r)
  BY <1>1, NoCycle
<1> HIDE DEF l, r
<1>3. l \notin Below(r) /\ r \notin Below(l)
  BY <1>1, <1>2, ParentBelow
<1>4. Below(l) \cap Below(r) = {}
  BY <1>1, <1>3, BelowNested
<1> QED BY <1>4 DEF l, r

LeavesFix(f) ==
  f = [u \in Nodes |-> IF Leaf(u) THEN {u} ELSE f[left[u]] \cup f[right[u]]]

LEMMA LeavesEquation == LeavesFix(leaves)
<1> DEFINE g == [u \in Nodes |-> {v \in Below(u) : Leaf(v)}]
           e == [u \in Nodes |-> IF Leaf(u) THEN {u} ELSE g[left[u]] \cup g[right[u]]]
<1>1. ASSUME NEW u \in Nodes PROVE g[u] = e[u]
  <2>1. CASE Leaf(u)
    <3>1. Below(u) = {u}
      BY <2>1, BelowLeast, BelowSplit, KidsAreNodes
    <3> QED BY <2>1, <3>1
  <2>2. CASE ~Leaf(u)
    <3>1. /\ left[u] \in Nodes /\ right[u] \in Nodes
          /\ left[u] \in Kids(u) /\ right[u] \in Kids(u) /\ Kids(u) = {left[u], right[u]}
      BY <2>2, KidsAreNodes
    <3>2. Below(left[u]) \subseteq Below(u) /\ Below(right[u]) \subseteq Below(u)
      BY <3>1, BelowKid
    <3>3. ASSUME NEW v, v \in Below(u), Leaf(v) PROVE v \in Below(left[u]) \cup Below(right[u])
      <4>1. v # u
        BY <2>2, <3>3
      <4> QED BY <3>1, <3>3, <4>1, BelowSplit
    <3>4. g[u] = g[left[u]] \cup g[right[u]]
      BY <3>1, <3>2, <3>3
    <3>5. e[u] = g[left[u]] \cup g[right[u]]
      BY <2>2
    <3> QED BY <3>4, <3>5
  <2> QED BY <2>1, <2>2
<1>2. g = e
  BY <1>1
<1>3. LeavesFix(g)
  BY <1>2 DEF LeavesFix
<1> HIDE DEF g
<1>4. leaves = CHOOSE f : LeavesFix(f)
  BY DEF leaves, LeavesFix
<1> QED BY <1>3, <1>4

LEMMA LeavesValue ==
  ASSUME NEW u \in Nodes
  PROVE  /\ Leaf(u) => leaves[u] = {u}
         /\ ~Leaf(u) => leaves[u] = leaves[left[u]] \cup leaves[right[u]]
  BY LeavesEquation DEF LeavesFix

\* Every subtree has a leaf, and its leaves are in it.
LEMMA LeavesBelow ==
  ASSUME NEW u \in Nodes
  PROVE  leaves[u] \subseteq Below(u) /\ leaves[u] # {}
<1> DEFINE S == {w \in Nodes : leaves[w] \subseteq Below(w) /\ leaves[w] # {}}
<1>1. ASSUME NEW w \in Nodes, Kids(w) \subseteq S PROVE w \in S
  <2>1. CASE Leaf(w)
    BY <2>1, LeavesValue, BelowLeast
  <2>2. CASE ~Leaf(w)
    <3>1. /\ left[w] \in S /\ right[w] \in S /\ left[w] \in Kids(w) /\ right[w] \in Kids(w)
      BY <1>1, <2>2, KidsAreNodes
    <3>2. Below(left[w]) \subseteq Below(w) /\ Below(right[w]) \subseteq Below(w)
      BY <3>1, BelowKid
    <3>3. leaves[w] = leaves[left[w]] \cup leaves[right[w]]
      BY <2>2, LeavesValue
    <3> QED BY <3>1, <3>2, <3>3
  <2> QED BY <2>1, <2>2
<1>2. S = Nodes
  <2>1. S \in SUBSET Nodes
    OBVIOUS
  <2> HIDE DEF S
  <2> QED BY <1>1, <2>1, TreeAssumption
<1> QED BY <1>2

\* The leaves below a node are those below its two kids, each below one of them.
LEMMA LeavesSplit ==
  ASSUME NEW u \in Nodes, ~Leaf(u)
  PROVE  /\ left[u] \in Nodes /\ right[u] \in Nodes
         /\ leaves[u] = leaves[left[u]] \cup leaves[right[u]]
         /\ leaves[left[u]] \cap leaves[right[u]] = {}
<1>1. left[u] \in Nodes /\ right[u] \in Nodes
  BY KidsAreNodes
<1>2. leaves[left[u]] \subseteq Below(left[u]) /\ leaves[right[u]] \subseteq Below(right[u])
  BY <1>1, LeavesBelow
<1> QED BY <1>1, <1>2, KidsApart, LeavesValue

-----------------------------------------------------------------------------
(***************************************************************************)
(* Every leaf is with one record.                                          *)
(***************************************************************************)

PendingAt(p, l)   == {i \in 1 .. Len(p) : l \in leaves[p[i].u]}
DoneAt(done, l)   == {r \in done : l \in leaves[r.u]}

\* One of the two sets has one member, and the other none.
OnceIn(A, B) ==
  \/ B = {} /\ \E x : A = {x}
  \/ A = {} /\ \E x : B = {x}

Traced(p, done) ==
  /\ \A i \in 1 .. Len(p) : p[i].u \in Nodes /\ leaves[p[i].u] \subseteq leaves[Root]
  /\ \A l \in leaves[Root] : OnceIn(PendingAt(p, l), DoneAt(done, l))

LEMMA OneRecord ==
  ASSUME NEW p, NEW done, Traced(p, done), NEW i \in 1 .. Len(p), NEW l \in leaves[p[i].u]
  PROVE  PendingAt(p, l) = {i} /\ DoneAt(done, l) = {} /\ l \in leaves[Root]
<1>1. l \in leaves[Root] /\ i \in PendingAt(p, l)
  BY DEF Traced, PendingAt
<1>2. OnceIn(PendingAt(p, l), DoneAt(done, l))
  BY <1>1 DEF Traced
<1> QED BY <1>1, <1>2 DEF OnceIn

\* No two records hold the same node: its leaves would be reached twice.
LEMMA NodesDiffer ==
  ASSUME NEW p, NEW done, Traced(p, done), NEW i \in 1 .. Len(p), NEW j \in 1 .. Len(p), i # j
  PROVE  p[i].u # p[j].u
<1> SUFFICES ASSUME p[i].u = p[j].u PROVE FALSE
  OBVIOUS
<1>1. PICK l \in leaves[p[i].u] : TRUE
  BY LeavesBelow DEF Traced
<1>2. PendingAt(p, l) = {i} /\ PendingAt(p, l) = {j}
  BY OneRecord
<1> QED BY <1>2

LEMMA TracedKeep ==
  ASSUME NEW p, NEW q, NEW done, Traced(p, done), SameRecords(p, q)
  PROVE  Traced(q, done)
<1>1. Len(q) = Len(p) /\ \A i \in 1 .. Len(p) : q[i].u = p[i].u
  BY DEF SameRecords
<1>2. \A l : PendingAt(q, l) = PendingAt(p, l)
  BY <1>1 DEF PendingAt
<1> QED BY <1>1, <1>2 DEF Traced

\* The first record is reported.
LEMMA TracedDeadEnd ==
  ASSUME NEW p, NEW q, NEW done, NEW r, Traced(p, done), Len(p) \in Nat \ {0},
         Len(q) = Len(p) - 1, \A i \in 1 .. Len(q) : q[i] = p[i + 1], r.u = p[1].u
  PROVE  Traced(q, done \cup {r})
<1>1. \A i \in 1 .. Len(q) : i + 1 \in 1 .. Len(p) /\ q[i].u = p[i + 1].u
  OBVIOUS
<1>2. ASSUME NEW l \in leaves[Root] PROVE OnceIn(PendingAt(q, l), DoneAt(done \cup {r}, l))
  <2>1. \A i : i \in PendingAt(q, l) => i + 1 \in PendingAt(p, l) /\ i \in 1 .. Len(q)
    BY <1>1 DEF PendingAt
  <2>2. CASE l \in leaves[p[1].u]
    <3>1. PendingAt(p, l) = {1} /\ DoneAt(done, l) = {}
      BY <2>2, OneRecord
    <3>2. PendingAt(q, l) = {}
      BY <2>1, <3>1
    <3>3. DoneAt(done \cup {r}, l) = {r}
      BY <2>2, <3>1 DEF DoneAt
    <3> QED BY <3>2, <3>3 DEF OnceIn
  <2>3. CASE l \notin leaves[p[1].u]
    <3>1. DoneAt(done \cup {r}, l) = DoneAt(done, l)
      BY <2>3 DEF DoneAt
    <3>2. OnceIn(PendingAt(p, l), DoneAt(done, l))
      BY DEF Traced
    <3>3. CASE PendingAt(p, l) = {}
      <4>1. PendingAt(q, l) = {}
        BY <2>1, <3>3
      <4> QED BY <3>1, <3>2, <3>3, <4>1
    <3>4. ASSUME NEW x, PendingAt(p, l) = {x} PROVE PendingAt(q, l) = {x - 1}
      <4>1. x \in 1 .. Len(p) /\ x # 1 /\ l \in leaves[p[x].u]
        BY <2>3, <3>4 DEF PendingAt
      <4>2. x - 1 \in 1 .. Len(q) /\ x - 1 + 1 = x
        BY <4>1
      <4>3. x - 1 \in PendingAt(q, l)
        BY <1>1, <4>1, <4>2 DEF PendingAt
      <4>4. \A i \in PendingAt(q, l) : i + 1 = x /\ i \in 1 .. Len(q)
        BY <2>1, <3>4
      <4> QED BY <4>1, <4>3, <4>4
    <3> QED BY <3>1, <3>2, <3>3, <3>4 DEF OnceIn
  <2> QED BY <2>2, <2>3
<1> QED BY <1>1, <1>2 DEF Traced

\* The first record goes, and its node's kids are put behind the m that follow it.
LEMMA TracedKids ==
  ASSUME NEW p, NEW q, NEW done, NEW m \in 0 .. Len(p) - 1, Traced(p, done),
         Len(p) \in Nat \ {0}, Len(q) = Len(p) + 1, ~Leaf(p[1].u),
         \A i \in 1 .. m : q[i] = p[i + 1],
         \A i \in m + 3 .. Len(p) + 1 : q[i] = p[i - 1],
         q[m + 1].u = left[p[1].u], q[m + 2].u = right[p[1].u]
  PROVE  Traced(q, done)
<1> DEFINE a == left[p[1].u]
           b == right[p[1].u]
<1>1. /\ p[1].u \in Nodes /\ leaves[p[1].u] \subseteq leaves[Root]
      /\ a \in Nodes /\ b \in Nodes
      /\ leaves[p[1].u] = leaves[a] \cup leaves[b] /\ leaves[a] \cap leaves[b] = {}
  <2>1. p[1].u \in Nodes /\ leaves[p[1].u] \subseteq leaves[Root]
    BY DEF Traced
  <2> QED BY <2>1, LeavesSplit
<1> HIDE DEF a, b
<1>2. q[m + 1].u = a /\ q[m + 2].u = b
  BY DEF a, b
<1>3. \A i \in 1 .. Len(q) : i \in 1 .. m \/ i = m + 1 \/ i = m + 2 \/ i \in m + 3 .. Len(p) + 1
  OBVIOUS
<1>4. ASSUME NEW i \in 1 .. Len(q) PROVE q[i].u \in Nodes /\ leaves[q[i].u] \subseteq leaves[Root]
  <2>1. CASE i \in 1 .. m
    <3>1. i + 1 \in 1 .. Len(p) /\ q[i] = p[i + 1]
      BY <2>1
    <3> QED BY <3>1 DEF Traced
  <2>2. CASE i \in m + 3 .. Len(p) + 1
    <3>1. i - 1 \in 1 .. Len(p) /\ q[i] = p[i - 1]
      BY <2>2
    <3> QED BY <3>1 DEF Traced
  <2> QED BY <1>1, <1>2, <1>3, <2>1, <2>2
<1>5. ASSUME NEW l \in leaves[Root] PROVE OnceIn(PendingAt(q, l), DoneAt(done, l))
  <2>1. ASSUME NEW i \in 1 .. Len(q), i # m + 1, i # m + 2, l \in leaves[q[i].u]
        PROVE  /\ i \in 1 .. m => i + 1 \in PendingAt(p, l)
               /\ i \notin 1 .. m => i - 1 \in PendingAt(p, l)
    <3>1. CASE i \in 1 .. m
      <4>1. i + 1 \in 1 .. Len(p) /\ q[i] = p[i + 1]
        BY <3>1
      <4> QED BY <2>1, <3>1, <4>1 DEF PendingAt
    <3>2. CASE i \notin 1 .. m
      <4>1. i \in m + 3 .. Len(p) + 1
        BY <1>3, <2>1, <3>2
      <4>2. i - 1 \in 1 .. Len(p) /\ q[i] = p[i - 1]
        BY <4>1
      <4> QED BY <2>1, <3>2, <4>2 DEF PendingAt
    <3> QED BY <3>1, <3>2
  <2>2. CASE l \in leaves[p[1].u]
    <3>1. PendingAt(p, l) = {1} /\ DoneAt(done, l) = {}
      BY <2>2, OneRecord
    <3>2. ASSUME NEW i \in PendingAt(q, l) PROVE i = m + 1 \/ i = m + 2
      <4>1. i \in 1 .. Len(q) /\ l \in leaves[q[i].u]
        BY DEF PendingAt
      <4>2. i # m + 1 /\ i # m + 2 => (i \in 1 .. m => i + 1 = 1) /\ (i \notin 1 .. m => i - 1 = 1)
        BY <2>1, <3>1, <4>1
      <4> QED BY <4>1, <4>2
    <3>3. m + 1 \in 1 .. Len(q) /\ m + 2 \in 1 .. Len(q) /\ m + 1 # m + 2
      OBVIOUS
    <3>4. (m + 1 \in PendingAt(q, l) <=> l \in leaves[a])
          /\ (m + 2 \in PendingAt(q, l) <=> l \in leaves[b])
      BY <1>2, <3>3 DEF PendingAt
    <3>5. PendingAt(q, l) = {m + 1} \/ PendingAt(q, l) = {m + 2}
      BY <1>1, <2>2, <3>2, <3>3, <3>4
    <3> QED BY <3>1, <3>5 DEF OnceIn
  <2>3. CASE l \notin leaves[p[1].u]
    <3>1. OnceIn(PendingAt(p, l), DoneAt(done, l))
      BY DEF Traced
    <3>2. \A i \in PendingAt(q, l) : i \in 1 .. Len(q) /\ i # m + 1 /\ i # m + 2 /\ l \in leaves[q[i].u]
      BY <1>1, <1>2, <2>3 DEF PendingAt
    <3>3. CASE PendingAt(p, l) = {}
      <4>1. PendingAt(q, l) = {}
        BY <2>1, <3>2, <3>3
      <4> QED BY <3>1, <3>3, <4>1
    <3>4. ASSUME NEW x, PendingAt(p, l) = {x} PROVE \E y : PendingAt(q, l) = {y}
      <4>1. x \in 1 .. Len(p) /\ x # 1 /\ l \in leaves[p[x].u]
        BY <2>3, <3>4 DEF PendingAt
      <4> DEFINE y == IF x <= m + 1 THEN x - 1 ELSE x + 1
      <4>2. y \in 1 .. Len(q) /\ q[y] = p[x]
        <5>1. CASE x <= m + 1
          <6>1. y = x - 1 /\ x - 1 \in 1 .. m /\ x - 1 + 1 = x
            BY <4>1, <5>1
          <6>2. q[x - 1] = p[x - 1 + 1]
            BY <6>1
          <6> QED BY <6>1, <6>2
        <5>2. CASE ~(x <= m + 1)
          <6>1. y = x + 1 /\ x + 1 \in m + 3 .. Len(p) + 1 /\ x + 1 - 1 = x
            BY <4>1, <5>2
          <6> DEFINE z == x + 1
          <6>2. z \in m + 3 .. Len(p) + 1 /\ z - 1 = x
            BY <4>1, <6>1
          <6> HIDE DEF z
          <6>3. q[z] = p[z - 1]
            BY <6>2
          <6> QED BY <6>1, <6>2, <6>3 DEF z
        <5> QED BY <5>1, <5>2
      <4> HIDE DEF y
      <4>3. y \in PendingAt(q, l)
        BY <4>1, <4>2 DEF PendingAt
      <4>4. ASSUME NEW i \in PendingAt(q, l) PROVE i = y
        <5>1. i \in 1 .. Len(q) /\ i # m + 1 /\ i # m + 2
          BY <3>2
        <5>2. (i \in 1 .. m => i + 1 = x) /\ (i \notin 1 .. m => i - 1 = x)
          BY <2>1, <3>2, <3>4
        <5> QED BY <4>1, <5>1, <5>2 DEF y
      <4> QED BY ZenonT(60), <4>3, <4>4
    <3> QED BY <3>1, <3>3, <3>4 DEF OnceIn
  <2> QED BY <2>2, <2>3
<1> QED BY <1>4, <1>5 DEF Traced

-----------------------------------------------------------------------------
(***************************************************************************)
(* The theorems.                                                           *)
(***************************************************************************)

\* At first the root is to be processed, with all the centres.
LEMMA RootPending ==
  ASSUME Init
  PROVE  Len(Pending) = 1 /\ Pending[1].u = Root /\ Pending[1].c = cs_0
<1>1. KernelInv /\ chan0 = <<>> /\ chan1 = <<>> /\ reported = {}
      /\ stack = <<[u |-> Root, c |-> cs_0, k |-> k, d |-> FALSE, cand |-> Centres]>>
  BY InitKernelInv DEF Init
<1>2. stack \in Seq(StackEntry) /\ chan0 \in Seq(StackEntry) /\ chan1 \in Seq(SearchedEntry)
  BY <1>1 DEF KernelInv, TypeOK
<1>3. InOrder(Pending, chan1, chan0, stack)
  BY <1>1, <1>2, PendingPlain DEF KernelInv, PlainBatch
<1>4. /\ Len(stack) = 1 /\ stack[1].u = Root /\ stack[1].c = cs_0
      /\ Len(chan0) = 0 /\ Len(chan1) = 0
  BY <1>1
<1>5. Pending[0 + 0 + 1] = stack[1 + 1 - 1]
  BY <1>3, <1>4 DEF InOrder
<1> QED BY <1>3, <1>4, <1>5 DEF InOrder

LEMMA TracedInit ==
  ASSUME Init
  PROVE  Traced(Pending, reported)
<1>1. reported = {} /\ Len(Pending) = 1 /\ Pending[1].u = Root
  BY RootPending DEF Init
<1>2. \A i \in 1 .. Len(Pending) : Pending[i].u = Root
  BY <1>1
<1>3. ASSUME NEW l \in leaves[Root] PROVE OnceIn(PendingAt(Pending, l), DoneAt(reported, l))
  <2>1. PendingAt(Pending, l) = {1} /\ DoneAt(reported, l) = {}
    BY <1>1 DEF PendingAt, DoneAt
  <2> QED BY <2>1 DEF OnceIn
<1> QED BY <1>2, <1>3, FilterAssumption DEF Traced

LEMMA TracedStep ==
  ASSUME KernelInv, Traced(Pending, reported), [Next]_vars
  PROVE  Traced(Pending, reported)'
<1>1. Traced(Pending, reported)' <=> Traced(Pending', reported')
  BY DEF Traced, PendingAt, DoneAt
<1>2. CASE QuietMove
  <2>1. Traced(Pending', reported)
    BY <1>2, TracedKeep DEF QuietMove
  <2> QED BY <1>1, <1>2, <2>1 DEF QuietMove
<1>3. CASE ProcessMoves(Pending, Pending')
  <2>1. Len(Pending) \in Nat \ {0}
    BY <1>3 DEF ProcessMoves
  <2>2. PICK closest, kept : \/ DeadEndMove(Pending, Pending', closest, kept)
                             \/ \E m : KidsMove(Pending, Pending', kept, m)
    BY <1>3 DEF ProcessMoves
  <2>3. CASE DeadEndMove(Pending, Pending', closest, kept)
    <3> DEFINE r == [u |-> Pending[1].u, centre |-> closest]
    <3>1. /\ Len(Pending') = Len(Pending) - 1
          /\ \A i \in 1 .. Len(Pending') : Pending'[i] = Pending[i + 1]
          /\ reported' = reported \cup {r} /\ r.u = Pending[1].u
      BY <2>3 DEF DeadEndMove
    <3> HIDE DEF r
    <3>2. Traced(Pending', reported \cup {r})
      BY <2>1, <3>1, TracedDeadEnd
    <3> QED BY <1>1, <3>1, <3>2
  <2>4. CASE \E m : KidsMove(Pending, Pending', kept, m)
    <3>1. PICK m : KidsMove(Pending, Pending', kept, m)
      BY <2>4
    <3>2. /\ m \in 0 .. Len(Pending) - 1 /\ Len(Pending') = Len(Pending) + 1
          /\ ~Leaf(Pending[1].u) /\ reported' = reported
          /\ \A i \in 1 .. m : Pending'[i] = Pending[i + 1]
          /\ \A i \in m + 3 .. Len(Pending) + 1 : Pending'[i] = Pending[i - 1]
          /\ Pending'[m + 1].u = left[Pending[1].u] /\ Pending'[m + 2].u = right[Pending[1].u]
      BY <3>1 DEF KidsMove
    <3>3. Traced(Pending', reported)
      BY <2>1, <3>2, TracedKids
    <3> QED BY <1>1, <3>2, <3>3
  <2> QED BY <2>2, <2>3, <2>4
<1> QED BY <1>2, <1>3, NextKernelInv

\* The invariant: KernelInv, and every leaf with one record, pending or reported.
LEMMA TraversalInvariant == Spec => [](KernelInv /\ Traced(Pending, reported))
<1>1. Init => KernelInv /\ Traced(Pending, reported)
  BY InitKernelInv, TracedInit
<1>2. KernelInv /\ Traced(Pending, reported) /\ [Next]_vars
        => (KernelInv /\ Traced(Pending, reported))'
  BY NextKernelInv, TracedStep
<1> QED BY <1>1, <1>2, PTL DEF Spec

\* No leaf of the tree is left out, and none is summed up twice: it is below one
\* pending record or one report, in every tree that buildkdTree makes.
THEOREM LeavesReachedOnce == Spec => []LeafOnce
<1>1. ASSUME Traced(Pending, reported) PROVE LeafOnce
  <2> SUFFICES ASSUME NEW l \in leaves[Root]
               PROVE  Cardinality(PendingAt(Pending, l)) + Cardinality(DoneAt(reported, l)) = 1
    BY DEF LeafOnce, PendingAt, DoneAt
  <2>1. OnceIn(PendingAt(Pending, l), DoneAt(reported, l))
    BY <1>1 DEF Traced
  <2>2. Cardinality({}) = 0 /\ \A x : Cardinality({x}) = 1
    BY FS_EmptySet, FS_Singleton
  <2> DEFINE A == PendingAt(Pending, l)
             B == DoneAt(reported, l)
  <2>3. (A = {} /\ \E x : B = {x}) \/ (B = {} /\ \E x : A = {x})
    BY <2>1 DEF OnceIn
  <2> HIDE DEF A, B
  <2>4. \/ Cardinality(A) = 0 /\ Cardinality(B) = 1
        \/ Cardinality(A) = 1 /\ Cardinality(B) = 0
    BY <2>2, <2>3
  <2>5. Cardinality(A) + Cardinality(B) = 1
    BY <2>4
  <2> QED BY <2>5 DEF A, B
<1>2. KernelInv /\ Traced(Pending, reported) => LeafOnce
  BY <1>1
<1> QED BY <1>2, TraversalInvariant, PTL

-----------------------------------------------------------------------------
(***************************************************************************)
(* The abstract traversal.                                                 *)
(***************************************************************************)

\* The set that the abstract traversal keeps: the records' nodes and candidates.
Todo == {Candidates(Pending[i]) : i \in 1 .. Len(Pending)}

LEMMA TodoSame ==
  ASSUME QuietMove
  PROVE  Todo' = Todo
<1>1. Todo' = {Candidates(Pending[i])' : i \in 1 .. Len(Pending')}
  BY DEF Todo, Candidates
<1>2. /\ cs_pool' = cs_pool /\ Len(Pending') = Len(Pending)
      /\ \A i \in 1 .. Len(Pending) : Pending'[i].u = Pending[i].u /\ Pending'[i].c = Pending[i].c
  BY DEF QuietMove, SameRecords
<1> QED BY <1>2 DEF Todo, Candidates

\* A record's node and candidates after the step, at place i.
After(i) == [u |-> Pending'[i].u, cand |-> cs_pool'[Pending'[i].c]]

LEMMA TodoAfter ==
  ASSUME Traced(Pending, reported), \A y \in Later(Pending) : cs_pool'[y] = cs_pool[y]
  PROVE  /\ Todo' = {After(i) : i \in 1 .. Len(Pending')}
         /\ \A i, j : j \in 2 .. Len(Pending) /\ Pending'[i] = Pending[j]
                        => After(i) = Candidates(Pending[j])
         /\ \A j \in 2 .. Len(Pending) : Candidates(Pending[j]) # Candidates(Pending[1])
<1>1. Todo' = {After(i) : i \in 1 .. Len(Pending')}
  BY DEF Todo, Candidates, After
<1>2. ASSUME NEW i, NEW j \in 2 .. Len(Pending), Pending'[i] = Pending[j]
      PROVE  After(i) = Candidates(Pending[j])
  <2>1. cs_pool'[Pending[j].c] = cs_pool[Pending[j].c]
    BY DEF Later
  <2> QED BY <1>2, <2>1 DEF After, Candidates
<1>3. ASSUME NEW j \in 2 .. Len(Pending) PROVE Candidates(Pending[j]) # Candidates(Pending[1])
  <2>1. Pending[j].u # Pending[1].u
    <3>1. j \in 1 .. Len(Pending) /\ 1 \in 1 .. Len(Pending) /\ j # 1
      OBVIOUS
    <3> QED BY <3>1, NodesDiffer
  <2> QED BY <2>1 DEF Candidates
<1> QED BY <1>1, <1>2, <1>3

LEMMA TodoDeadEnd ==
  ASSUME Traced(Pending, reported), \A y \in Later(Pending) : cs_pool'[y] = cs_pool[y],
         Len(Pending) \in Nat \ {0}, Len(Pending') = Len(Pending) - 1,
         \A i \in 1 .. Len(Pending') : Pending'[i] = Pending[i + 1]
  PROVE  Todo' = Todo \ {Candidates(Pending[1])}
<1> DEFINE n == Len(Pending)
           F(i) == Candidates(Pending[i])
<1>1. Todo' = {After(i) : i \in 1 .. n - 1} /\ Todo = {F(i) : i \in 1 .. n}
  BY TodoAfter DEF Todo
<1>2. \A i \in 1 .. n - 1 : After(i) = F(i + 1)
  <2> TAKE i \in 1 .. n - 1
  <2>1. i + 1 \in 2 .. n /\ Pending'[i] = Pending[i + 1]
    OBVIOUS
  <2> QED BY <2>1, TodoAfter
<1>3. \A j \in 2 .. n : F(j) # F(1)
  BY TodoAfter
<1>4. n \in Nat \ {0}
  OBVIOUS
<1> HIDE DEF n, F
<1>5. \A x : x \in {After(i) : i \in 1 .. n - 1} <=> \E j \in 2 .. n : x = F(j)
  <2> TAKE x
  <2>1. ASSUME NEW i \in 1 .. n - 1, x = After(i) PROVE \E j \in 2 .. n : x = F(j)
    <3>1. i + 1 \in 2 .. n
      BY <1>4
    <3> QED BY <1>2, <2>1, <3>1
  <2>2. ASSUME NEW j \in 2 .. n, x = F(j) PROVE \E i \in 1 .. n - 1 : x = After(i)
    <3>1. j - 1 \in 1 .. n - 1 /\ j - 1 + 1 = j
      BY <1>4
    <3>2. After(j - 1) = F(j - 1 + 1)
      BY <1>2, <3>1
    <3> QED BY <2>2, <3>1, <3>2
  <2> QED BY <2>1, <2>2
<1>6. \A x : x \in {F(i) : i \in 1 .. n} <=> x = F(1) \/ \E j \in 2 .. n : x = F(j)
  <2>1. \A i : i \in 1 .. n <=> i = 1 \/ i \in 2 .. n
    BY <1>4
  <2> QED BY <2>1
<1>7. Todo' = Todo \ {F(1)}
  BY <1>1, <1>3, <1>5, <1>6
<1> QED BY <1>7 DEF F

LEMMA TodoKids ==
  ASSUME Traced(Pending, reported), \A y \in Later(Pending) : cs_pool'[y] = cs_pool[y],
         Len(Pending) \in Nat \ {0}, Len(Pending') = Len(Pending) + 1,
         NEW m \in 0 .. Len(Pending) - 1,
         \A i \in 1 .. m : Pending'[i] = Pending[i + 1],
         \A i \in m + 3 .. Len(Pending) + 1 : Pending'[i] = Pending[i - 1]
  PROVE  Todo' = (Todo \ {Candidates(Pending[1])}) \cup {After(m + 1), After(m + 2)}
<1> DEFINE n == Len(Pending)
           F(i) == Candidates(Pending[i])
<1>1. Todo' = {After(i) : i \in 1 .. n + 1} /\ Todo = {F(i) : i \in 1 .. n}
  BY TodoAfter DEF Todo
<1>2. \A i \in 1 .. m : After(i) = F(i + 1)
  <2> TAKE i \in 1 .. m
  <2>1. i + 1 \in 2 .. n /\ Pending'[i] = Pending[i + 1]
    OBVIOUS
  <2> QED BY <2>1, TodoAfter
<1>3. \A i \in m + 3 .. n + 1 : After(i) = F(i - 1)
  <2> TAKE i \in m + 3 .. n + 1
  <2>1. i - 1 \in 2 .. n /\ Pending'[i] = Pending[i - 1]
    OBVIOUS
  <2> QED BY <2>1, TodoAfter
<1>4. \A j \in 2 .. n : F(j) # F(1)
  BY TodoAfter
<1>5. n \in Nat \ {0} /\ m \in Nat /\ m <= n - 1
  OBVIOUS
<1> HIDE DEF n, F
<1>6. \A x : x \in {After(i) : i \in 1 .. n + 1}
               <=> x = After(m + 1) \/ x = After(m + 2) \/ \E j \in 2 .. n : x = F(j)
  <2> TAKE x
  <2>1. ASSUME NEW i \in 1 .. n + 1, x = After(i), i # m + 1, i # m + 2
        PROVE  \E j \in 2 .. n : x = F(j)
    <3>1. \/ i \in 1 .. m /\ i + 1 \in 2 .. n
          \/ i \in m + 3 .. n + 1 /\ i - 1 \in 2 .. n
      BY <1>5, <2>1
    <3> QED BY <1>2, <1>3, <2>1, <3>1
  <2>2. ASSUME NEW j \in 2 .. n, x = F(j) PROVE \E i \in 1 .. n + 1 : x = After(i)
    <3>1. CASE j <= m + 1
      <4>1. j - 1 \in 1 .. m /\ j - 1 \in 1 .. n + 1 /\ j - 1 + 1 = j
        BY <1>5, <3>1
      <4>2. After(j - 1) = F(j - 1 + 1)
        BY <1>2, <4>1
      <4> QED BY <2>2, <4>1, <4>2
    <3>2. CASE j > m + 1
      <4>1. j + 1 \in m + 3 .. n + 1 /\ j + 1 \in 1 .. n + 1 /\ j + 1 - 1 = j
        BY <1>5, <3>2
      <4>2. After(j + 1) = F(j + 1 - 1)
        BY <1>3, <4>1
      <4> QED BY <2>2, <4>1, <4>2
    <3> QED BY <1>5, <3>1, <3>2
  <2>3. m + 1 \in 1 .. n + 1 /\ m + 2 \in 1 .. n + 1
    BY <1>5
  <2> QED BY <2>1, <2>2, <2>3
<1>7. \A x : x \in {F(i) : i \in 1 .. n} <=> x = F(1) \/ \E j \in 2 .. n : x = F(j)
  <2>1. \A i : i \in 1 .. n <=> i = 1 \/ i \in 2 .. n
    BY <1>5
  <2> QED BY <2>1
<1>8. Todo' = (Todo \ {F(1)}) \cup {After(m + 1), After(m + 2)}
  BY <1>1, <1>4, <1>6, <1>7
<1> QED BY <1>8 DEF F

\* A step of the traversal, or none, in terms of that set.
TodoMoves ==
  \/ /\ UNCHANGED <<Todo, reported>>
  \/ \E t \in Todo : \E closest \in t.cand :
       \E kept \in {s \in SUBSET t.cand : closest \in s} \cup {Centres} :
         IF Leaf(t.u) \/ Cardinality(kept) = 1
           THEN /\ reported' = reported \cup {[u |-> t.u, centre |-> closest]}
                /\ Todo' = Todo \ {t}
           ELSE /\ Todo' = (Todo \ {t}) \cup {[u |-> left[t.u], cand |-> kept],
                                              [u |-> right[t.u], cand |-> kept]}
                /\ reported' = reported

LEMMA StepTraverses ==
  ASSUME KernelInv, Traced(Pending, reported), [Next]_vars
  PROVE  TodoMoves
<1>1. CASE QuietMove
  BY <1>1, TodoSame DEF TodoMoves, QuietMove
<1>2. CASE ProcessMoves(Pending, Pending')
  <2> DEFINE t == Candidates(Pending[1])
             pool == cs_pool[Pending[1].c]
  <2>1. /\ Len(Pending) \in Nat \ {0}
        /\ \A y \in Later(Pending) : cs_pool'[y] = cs_pool[y]
    BY <1>2 DEF ProcessMoves
  <2>2. PICK closest \in pool, kept \in (SUBSET pool) \cup {Centres} :
          /\ closest \in kept
          /\ \/ DeadEndMove(Pending, Pending', closest, kept)
             \/ \E m : KidsMove(Pending, Pending', kept, m)
    BY <1>2 DEF ProcessMoves
  <2>3. t \in Todo /\ t.u = Pending[1].u /\ t.cand = pool
    <3>1. 1 \in 1 .. Len(Pending)
      BY <2>1
    <3> QED BY <3>1 DEF Todo, Candidates
  <2> HIDE DEF t, pool
  <2>4. closest \in t.cand /\ kept \in {s \in SUBSET t.cand : closest \in s} \cup {Centres}
    BY <2>2, <2>3
  <2>5. CASE DeadEndMove(Pending, Pending', closest, kept)
    <3>1. /\ Leaf(t.u) \/ Cardinality(kept) = 1
          /\ Len(Pending') = Len(Pending) - 1
          /\ \A i \in 1 .. Len(Pending') : Pending'[i] = Pending[i + 1]
          /\ reported' = reported \cup {[u |-> t.u, centre |-> closest]}
      BY <2>3, <2>5 DEF DeadEndMove
    <3>2. Todo' = Todo \ {t}
      BY <2>1, <3>1, TodoDeadEnd DEF t
    <3> QED BY <2>3, <2>4, <3>1, <3>2 DEF TodoMoves
  <2>6. CASE \E m : KidsMove(Pending, Pending', kept, m)
    <3>1. PICK m : KidsMove(Pending, Pending', kept, m)
      BY <2>6
    <3>2. /\ ~(Leaf(t.u) \/ Cardinality(kept) = 1) /\ reported' = reported
          /\ m \in 0 .. Len(Pending) - 1 /\ Len(Pending') = Len(Pending) + 1
          /\ \A i \in 1 .. m : Pending'[i] = Pending[i + 1]
          /\ \A i \in m + 3 .. Len(Pending) + 1 : Pending'[i] = Pending[i - 1]
      BY <2>3, <3>1 DEF KidsMove
    <3>3. Todo' = (Todo \ {t}) \cup {After(m + 1), After(m + 2)}
      BY <2>1, <3>2, TodoKids DEF t
    <3>4. /\ After(m + 1) = [u |-> left[t.u], cand |-> kept]
          /\ After(m + 2) = [u |-> right[t.u], cand |-> kept]
      BY <2>3, <3>1 DEF KidsMove, After
    <3> QED BY <2>3, <2>4, <3>2, <3>3, <3>4 DEF TodoMoves
  <2> QED BY <2>2, <2>5, <2>6
<1> QED BY <1>1, <1>2, NextKernelInv

\* The kernels carry out the traversal and nothing else: they begin with the root
\* and all the centres, and each step examines one node against its candidates, or
\* changes nothing that the traversal sees.  That the traversal ends is not part
\* of this (ImplementsTraversal).
THEOREM KernelsTraverse ==
  Spec => Traversal!TraversalInit /\ [][Traversal!TraversalNext]_(Traversal!traversal)
<1>1. Init => Traversal!TraversalInit
  <2> SUFFICES ASSUME Init PROVE Traversal!TraversalInit
    OBVIOUS
  <2>1. reported = {} /\ cs_pool[cs_0] = Centres
    BY InitKernelInv DEF Init, KernelInv
  <2>2. Len(Pending) = 1 /\ Pending[1].u = Root /\ Pending[1].c = cs_0
    BY RootPending
  <2>3. Todo = {[u |-> Root, cand |-> Centres]}
    BY <2>1, <2>2 DEF Todo, Candidates
  <2> QED BY <2>1, <2>3 DEF Traversal!TraversalInit, Todo
<1>2. KernelInv /\ Traced(Pending, reported) /\ [Next]_vars
        => [Traversal!TraversalNext]_(Traversal!traversal)
  <2> SUFFICES ASSUME KernelInv, Traced(Pending, reported), [Next]_vars
               PROVE  [Traversal!TraversalNext]_(Traversal!traversal)
    OBVIOUS
  <2>1. TodoMoves
    BY StepTraverses
  <2>2. \A S : Traversal!Cardinality(S) = Cardinality(S)
    BY DEF Cardinality, Traversal!Cardinality
  <2> QED BY <2>1, <2>2 DEF TodoMoves, Todo, Traversal!TraversalNext, Traversal!Examine,
                      Traversal!Survivors, Traversal!traversal, Traversal!Leaf, Leaf
<1> QED BY <1>1, <1>2, TraversalInvariant, PTL DEF Spec

-----------------------------------------------------------------------------
(***************************************************************************)
(* The heights of the nodes.                                               *)
(***************************************************************************)

Larger(a, b) == IF a > b THEN a ELSE b

HeightFix(f) ==
  f = [u \in Nodes |-> IF Leaf(u) THEN 0 ELSE 1 + Larger(f[left[u]], f[right[u]])]

\* T relates a leaf to 0, and a node to one more than the larger of its kids' numbers.
HeightRule(T) ==
  \A u \in Nodes :
    /\ Leaf(u) => <<u, 0>> \in T
    /\ ~Leaf(u) => \A a, b \in Nat : <<left[u], a>> \in T /\ <<right[u], b>> \in T
                                       => <<u, 1 + Larger(a, b)>> \in T

\* The least such relation.
Heights ==
  {x \in Nodes \X Nat : \A T \in SUBSET (Nodes \X Nat) : HeightRule(T) => x \in T}

LEMMA HeightsRule == HeightRule(Heights)
<1> SUFFICES ASSUME NEW u \in Nodes
             PROVE  /\ Leaf(u) => <<u, 0>> \in Heights
                    /\ ~Leaf(u) => \A a, b \in Nat :
                         <<left[u], a>> \in Heights /\ <<right[u], b>> \in Heights
                           => <<u, 1 + Larger(a, b)>> \in Heights
  BY DEF HeightRule
<1>1. ASSUME Leaf(u) PROVE <<u, 0>> \in Heights
  BY <1>1 DEF Heights, HeightRule
<1>2. ASSUME ~Leaf(u), NEW a \in Nat, NEW b \in Nat,
             <<left[u], a>> \in Heights, <<right[u], b>> \in Heights
      PROVE  <<u, 1 + Larger(a, b)>> \in Heights
  <2> DEFINE c == 1 + Larger(a, b)
  <2>1. c \in Nat
    BY DEF Larger
  <2>2. ASSUME NEW T \in SUBSET (Nodes \X Nat), HeightRule(T) PROVE <<u, c>> \in T
    <3>1. <<left[u], a>> \in T /\ <<right[u], b>> \in T
      BY <1>2, <2>2 DEF Heights
    <3> QED BY <1>2, <2>2, <3>1 DEF HeightRule
  <2> HIDE DEF c
  <2>3. <<u, c>> \in Nodes \X Nat
    BY <2>1
  <2>4. <<u, c>> \in Heights
    BY <2>2, <2>3 DEF Heights
  <2> QED BY <2>4 DEF c
<1> QED BY <1>1, <1>2

\* What the rule does not ask for is not in the least relation.
LEMMA HeightsLeast ==
  ASSUME NEW u \in Nodes, NEW c \in Nat, HeightRule(Heights \ {<<u, c>>})
  PROVE  <<u, c>> \notin Heights
  BY DEF Heights

\* Every node has one number.
LEMMA HeightsOne ==
  \A u \in Nodes : \E a \in Nat : \A b \in Nat : <<u, b>> \in Heights <=> b = a
<1> DEFINE S == {u \in Nodes : \E a \in Nat : \A b \in Nat : <<u, b>> \in Heights <=> b = a}
<1>1. ASSUME NEW u \in Nodes, Kids(u) \subseteq S PROVE u \in S
  <2>1. CASE Leaf(u)
    <3>1. <<u, 0>> \in Heights
      BY <2>1, HeightsRule DEF HeightRule
    <3>2. ASSUME NEW b \in Nat, b # 0 PROVE <<u, b>> \notin Heights
      <4>1. HeightRule(Heights \ {<<u, b>>})
        BY <2>1, <3>2, HeightsRule DEF HeightRule
      <4> QED BY <4>1, HeightsLeast
    <3> QED BY <3>1, <3>2
  <2>2. CASE ~Leaf(u)
    <3>1. left[u] \in S /\ right[u] \in S
      BY <1>1, <2>2, KidsAreNodes
    <3>2. PICK a1 \in Nat : \A b \in Nat : <<left[u], b>> \in Heights <=> b = a1
      BY <3>1
    <3>3. PICK a2 \in Nat : \A b \in Nat : <<right[u], b>> \in Heights <=> b = a2
      BY <3>1
    <3> DEFINE a == 1 + Larger(a1, a2)
    <3>4. a \in Nat
      BY DEF Larger
    <3>5. <<u, a>> \in Heights
      BY <2>2, <3>2, <3>3, HeightsRule DEF HeightRule
    <3>6. ASSUME NEW b1 \in Nat, NEW b2 \in Nat,
                 <<left[u], b1>> \in Heights, <<right[u], b2>> \in Heights
          PROVE  1 + Larger(b1, b2) = a
      BY <3>2, <3>3, <3>6
    <3> HIDE DEF a
    <3>7. ASSUME NEW b \in Nat, b # a PROVE <<u, b>> \notin Heights
      <4>1. HeightRule(Heights \ {<<u, b>>})
        <5> SUFFICES ASSUME NEW v \in Nodes
                     PROVE  /\ Leaf(v) => <<v, 0>> \in Heights \ {<<u, b>>}
                            /\ ~Leaf(v) => \A c, d \in Nat :
                                 <<left[v], c>> \in Heights \ {<<u, b>>}
                                 /\ <<right[v], d>> \in Heights \ {<<u, b>>}
                                   => <<v, 1 + Larger(c, d)>> \in Heights \ {<<u, b>>}
          BY DEF HeightRule
        <5>1. Leaf(v) => <<v, 0>> \in Heights \ {<<u, b>>}
          BY <2>2, HeightsRule DEF HeightRule
        <5>2. ASSUME ~Leaf(v), NEW c \in Nat, NEW d \in Nat,
                     <<left[v], c>> \in Heights, <<right[v], d>> \in Heights
              PROVE  <<v, 1 + Larger(c, d)>> \in Heights \ {<<u, b>>}
          <6>1. <<v, 1 + Larger(c, d)>> \in Heights
            BY <5>2, HeightsRule DEF HeightRule
          <6>2. v = u => 1 + Larger(c, d) = a
            BY <3>6, <5>2
          <6> QED BY <3>7, <6>1, <6>2
        <5> QED BY <5>1, <5>2
      <4> QED BY <4>1, HeightsLeast
    <3>8. \A b \in Nat : <<u, b>> \in Heights <=> b = a
      BY <3>5, <3>7
    <3> QED BY <3>4, <3>8
  <2> QED BY <2>1, <2>2
<1>2. S = Nodes
  <2>1. S \in SUBSET Nodes
    OBVIOUS
  <2> HIDE DEF S
  <2> QED BY <1>1, <2>1, TreeAssumption
<1> QED BY <1>2

LEMMA HeightEquation == HeightFix(height) /\ height \in [Nodes -> Nat]
<1> DEFINE G(u) == CHOOSE a \in Nat : <<u, a>> \in Heights
           g == [u \in Nodes |-> G(u)]
           e == [u \in Nodes |-> IF Leaf(u) THEN 0 ELSE 1 + Larger(g[left[u]], g[right[u]])]
<1>1. ASSUME NEW u \in Nodes PROVE g[u] \in Nat /\ <<u, g[u]>> \in Heights
  BY HeightsOne
<1>2. ASSUME NEW u \in Nodes, NEW b \in Nat, <<u, b>> \in Heights PROVE g[u] = b
  BY <1>1, <1>2, HeightsOne
<1> HIDE DEF G
<1>3. g = [u \in Nodes |-> g[u]]
  OBVIOUS
<1> HIDE DEF g
<1>4. ASSUME NEW u \in Nodes PROVE g[u] = e[u]
  <2>1. CASE Leaf(u)
    <3>1. <<u, 0>> \in Heights
      BY <2>1, HeightsRule DEF HeightRule
    <3> QED BY <1>2, <2>1, <3>1
  <2>2. CASE ~Leaf(u)
    <3> DEFINE a == g[left[u]]
               b == g[right[u]]
    <3>1. /\ a \in Nat /\ <<left[u], a>> \in Heights
          /\ b \in Nat /\ <<right[u], b>> \in Heights
      BY <1>1, <2>2, KidsAreNodes
    <3> HIDE DEF a, b
    <3>2. <<left[u], a>> \in Heights /\ <<right[u], b>> \in Heights
            => <<u, 1 + Larger(a, b)>> \in Heights
      BY <2>2, <3>1, HeightsRule DEF HeightRule
    <3>3. g[u] = 1 + Larger(a, b)
      <4>1. 1 + Larger(a, b) \in Nat
        BY <3>1 DEF Larger
      <4> QED BY <1>2, <3>1, <3>2, <4>1
    <3> QED BY <2>2, <3>3 DEF a, b
  <2> QED BY <2>1, <2>2
<1>5. g = e
  BY <1>3, <1>4
<1>6. HeightFix(g)
  BY <1>5 DEF HeightFix
<1>7. height = CHOOSE f : HeightFix(f)
  BY DEF height, HeightFix, Larger
<1>8. HeightFix(height)
  BY <1>6, <1>7
<1> DEFINE S == {u \in Nodes : height[u] \in Nat}
<1>9. ASSUME NEW u \in Nodes, Kids(u) \subseteq S PROVE u \in S
  <2>1. CASE Leaf(u)
    BY <1>8, <2>1 DEF HeightFix
  <2>2. CASE ~Leaf(u)
    <3>1. height[left[u]] \in Nat /\ height[right[u]] \in Nat
      BY <1>9, <2>2, KidsAreNodes
    <3>2. height[u] = 1 + Larger(height[left[u]], height[right[u]])
      BY <1>8, <2>2 DEF HeightFix
    <3> QED BY <3>1, <3>2 DEF Larger
  <2> QED BY <2>1, <2>2
<1>10. S = Nodes
  <2>1. S \in SUBSET Nodes
    OBVIOUS
  <2> HIDE DEF S
  <2> QED BY <1>9, <2>1, TreeAssumption
<1> QED BY <1>8, <1>10 DEF HeightFix

\* A kid is lower than its parent.
LEMMA HeightKids ==
  ASSUME NEW u \in Nodes
  PROVE  /\ height[u] \in Nat
         /\ ~Leaf(u) => height[left[u]] <= height[u] - 1 /\ height[right[u]] <= height[u] - 1
<1>1. height[u] \in Nat
  BY HeightEquation
<1>2. ASSUME ~Leaf(u)
      PROVE  height[left[u]] <= height[u] - 1 /\ height[right[u]] <= height[u] - 1
  <2>1. height[left[u]] \in Nat /\ height[right[u]] \in Nat
    BY <1>2, HeightEquation, KidsAreNodes
  <2>2. height[u] = 1 + Larger(height[left[u]], height[right[u]])
    BY <1>2, HeightEquation DEF HeightFix
  <2> QED BY <2>1, <2>2 DEF Larger
<1> QED BY <1>1, <1>2

-----------------------------------------------------------------------------
(***************************************************************************)
(* The levels of the entries.                                              *)
(***************************************************************************)

\* How far up the stack an entry of level l may be.
Room(l) == 1 + BatchSize * (height[Root] - l)

LEMMA RoomValues ==
  /\ BatchSize \in Nat \ {0} /\ height[Root] \in Nat
  /\ \A l \in Int : /\ Room(l) \in Int /\ Room(l - 1) = Room(l) + BatchSize
                    /\ l < height[Root] => Room(l) >= 1 + BatchSize
                    /\ l >= height[Root] => Room(l) <= 1
                    /\ l >= 0 => Room(l) <= Room(0)
  /\ Room(height[Root]) = 1
  /\ Room(0) = 1 + BatchSize * height[Root] /\ Room(0) >= 1
<1>1. BatchSize \in Nat \ {0} /\ height[Root] \in Nat
  BY FilterAssumption, HeightKids
<1> DEFINE h == height[Root]
<1> HIDE DEF h
<1>2. ASSUME NEW x \in Int, NEW y \in Int, x <= y
      PROVE  BatchSize * x <= BatchSize * y /\ BatchSize * x \in Int /\ BatchSize * (x + 1) = BatchSize * x + BatchSize
  <2>1. /\ BatchSize * y = BatchSize * x + BatchSize * (y - x)
        /\ BatchSize * (x + 1) = BatchSize * x + BatchSize /\ BatchSize * x \in Int
    BY <1>1
  <2>2. BatchSize * (y - x) \in Nat
    BY <1>1, <1>2
  <2> QED BY <2>1, <2>2
<1>3. /\ BatchSize * 0 = 0 /\ BatchSize * 1 = BatchSize
  BY <1>1
<1>4. ASSUME NEW l \in Int
      PROVE  /\ Room(l) \in Int /\ Room(l - 1) = Room(l) + BatchSize
             /\ l < h => Room(l) >= 1 + BatchSize
             /\ l >= h => Room(l) <= 1
             /\ l >= 0 => Room(l) <= Room(0)
  <2> DEFINE x == h - l
  <2>1. x \in Int /\ h - (l - 1) = x + 1 /\ h \in Nat /\ h - 0 = h /\ h \in Int
    BY <1>1 DEF h
  <2>2. x <= x /\ (l < h => 1 <= x) /\ (l >= h => x <= 0) /\ (l >= 0 => x <= h)
    BY <2>1
  <2>3. Room(l) = 1 + BatchSize * x /\ Room(l - 1) = 1 + BatchSize * (x + 1) /\ Room(0) = 1 + BatchSize * h
    BY <2>1 DEF Room, h
  <2> HIDE DEF x
  <2>4. /\ BatchSize * x \in Int /\ BatchSize * h \in Int /\ BatchSize * (x + 1) = BatchSize * x + BatchSize
        /\ l < h => BatchSize * 1 <= BatchSize * x
        /\ l >= h => BatchSize * x <= BatchSize * 0
        /\ l >= 0 => BatchSize * x <= BatchSize * h
    BY SMTT(60), <1>2, <2>1, <2>2
  <2> QED BY <1>1, <1>3, <2>3, <2>4
<1>5. Room(h) = 1 + BatchSize * 0 /\ Room(0) = 1 + BatchSize * h
  BY <1>1 DEF Room, h
<1>6. BatchSize * h \in Nat
  BY <1>1 DEF h
<1> QED BY <1>1, <1>3, <1>4, <1>5, <1>6 DEF h

\* Levels for the records p, the first of which is on top.
LevelledBy(p, L) ==
  /\ \A i \in 1 .. Len(p) : /\ p[i].u \in Nodes /\ L[i] \in Int /\ height[p[i].u] <= L[i]
                            /\ Len(p) + 1 - i <= Room(L[i])
  /\ \A i, j \in 1 .. Len(p) :
       i < j => /\ L[i] <= L[j]
                /\ L[i] < L[j] => Len(p) + 1 - j + BatchSize <= Room(L[j])

Levelled(p) == \E L : LevelledBy(p, L)

\* While a batch is processed: rest are its records that are left, of b; n entries
\* of the stack are older than what it has pushed; no record of it was above mu.
BatchedBy(rest, st, n, b, mu, L) ==
  /\ n \in 0 .. Len(st) /\ b \in Nat /\ mu \in Int
  /\ Len(rest) <= b /\ Len(st) <= n + 2 * (b - Len(rest))
  /\ n + 2 * b <= Room(mu - 1)
  /\ \A i \in 1 .. Len(rest) : rest[i].u \in Nodes /\ height[rest[i].u] <= mu
  /\ \A i \in 1 .. Len(st) : st[i].u \in Nodes
  /\ \A i \in n + 1 .. Len(st) : height[st[i].u] <= mu - 1
  /\ \A i \in 1 .. n : /\ L[i] \in Int /\ height[st[i].u] <= L[i] /\ mu <= L[i]
                       /\ i + BatchSize <= Room(L[i])
  /\ \A i, j \in 1 .. n : i < j => L[j] <= L[i]

Batched(rest, st) == \E n, b, mu, L : BatchedBy(rest, st, n, b, mu, L)

LEMMA StartBatch ==
  ASSUME NEW p, NEW rest, NEW st, Levelled(p),
         Len(rest) \in Nat \ {0}, Len(st) \in Nat, Len(p) = Len(rest) + Len(st),
         \A i \in 1 .. Len(rest) : p[i] = rest[i],
         \A i \in 1 .. Len(st) : p[Len(rest) + i] = st[Len(st) + 1 - i],
         Len(rest) <= BatchSize, Len(rest) = BatchSize \/ Len(st) = 0
  PROVE  Batched(rest, st)
<1> DEFINE b == Len(rest)
           n == Len(st)
           B == BatchSize
<1>1. b \in Nat \ {0} /\ n \in Nat /\ B \in Nat \ {0} /\ b <= B /\ (b = B \/ n = 0) /\ Len(p) = b + n
  BY RoomValues
<1>2. PICK L : LevelledBy(p, L)
  BY DEF Levelled
<1> HIDE DEF B
<1>3. /\ \A i \in 1 .. b + n : /\ p[i].u \in Nodes /\ L[i] \in Int /\ height[p[i].u] <= L[i]
                               /\ b + n + 1 - i <= Room(L[i])
      /\ \A i, j \in 1 .. b + n :
           i < j => L[i] <= L[j] /\ (L[i] < L[j] => b + n + 1 - j + B <= Room(L[j]))
  BY <1>1, <1>2 DEF LevelledBy, B
<1>4. /\ \A i \in 1 .. b : p[i] = rest[i]
      /\ \A i \in 1 .. n : p[b + i] = st[n + 1 - i]
  OBVIOUS
<1> HIDE DEF b, n
<1> DEFINE mu == L[b]
           M == [i \in 1 .. n |-> L[b + n + 1 - i]]
<1>5. mu \in Int /\ Room(mu) \in Int /\ Room(mu - 1) = Room(mu) + B /\ n + 1 <= Room(mu)
  <2>1. b \in 1 .. b + n /\ b + n + 1 - b = n + 1
    BY <1>1
  <2>2. mu \in Int /\ b + n + 1 - b <= Room(mu)
    BY <1>3, <2>1
  <2> QED BY <2>1, <2>2, RoomValues DEF B
<1>6. (L[1] = mu /\ n + b <= Room(mu)) \/ (b > 1 /\ n + 1 + B <= Room(mu))
  <2>1. 1 \in 1 .. b + n /\ b \in 1 .. b + n /\ b + n + 1 - 1 = n + b /\ b + n + 1 - b = n + 1
    BY <1>1
  <2>2. CASE L[1] = mu
    <3>1. b + n + 1 - 1 <= Room(L[1])
      BY <1>3, <2>1
    <3> QED BY <2>1, <2>2, <3>1
  <2>3. CASE L[1] # mu
    <3>1. 1 < b
      BY <1>1, <2>3
    <3>2. L[1] <= mu /\ L[1] \in Int /\ (L[1] < mu => b + n + 1 - b + B <= Room(mu))
      BY <1>3, <2>1, <3>1
    <3> QED BY <1>1, <1>5, <2>1, <2>3, <3>1, <3>2
  <2> QED BY <2>2, <2>3
<1>7. b = B => n + B <= Room(mu)
  BY <1>1, <1>5, <1>6
<1>8. n + 2 * b <= Room(mu - 1)
  <2>1. CASE b = B
    BY <1>1, <1>5, <1>7, <2>1
  <2>2. CASE b # B /\ mu < height[Root]
    <3>1. Room(mu) >= 1 + B
      BY <1>5, <2>2, RoomValues DEF B
    <3> QED BY <1>1, <1>5, <2>2, <3>1
  <2>3. CASE b # B /\ mu >= height[Root]
    <3>1. Room(mu) <= 1
      BY <1>5, <2>3, RoomValues
    <3>2. b = 1
      BY <1>1, <1>5, <1>6, <3>1
    <3> QED BY <1>1, <1>5, <2>3, <3>1, <3>2
  <2>4. height[Root] \in Nat
    BY RoomValues
  <2> QED BY <1>5, <2>1, <2>2, <2>3, <2>4
<1>9. \A i \in 1 .. b : rest[i].u \in Nodes /\ height[rest[i].u] <= mu
  <2> TAKE i \in 1 .. b
  <2>1. i \in 1 .. b + n /\ b \in 1 .. b + n
    BY <1>1
  <2>2. /\ rest[i].u \in Nodes /\ L[i] \in Int /\ height[rest[i].u] <= L[i]
        /\ i < b => L[i] <= mu
    BY <1>3, <1>4, <2>1
  <2>3. L[i] <= mu
    BY <1>1, <1>5, <2>2
  <2>4. height[rest[i].u] \in Int
    BY <2>2, HeightKids
  <2> QED BY <1>5, <2>2, <2>3, <2>4
<1>10. ASSUME NEW i \in 1 .. n
       PROVE  /\ st[i].u \in Nodes /\ M[i] \in Int /\ height[st[i].u] <= M[i] /\ mu <= M[i]
              /\ i + B <= Room(M[i])
  <2> DEFINE j == b + n + 1 - i
  <2>1. j \in 1 .. b + n /\ b \in 1 .. b + n /\ b < j /\ n + 1 - i \in 1 .. n
        /\ j = b + (n + 1 - i) /\ n + 1 - (n + 1 - i) = i /\ b + n + 1 - j = i
    BY <1>1
  <2>2. M[i] = L[j]
    OBVIOUS
  <2> HIDE DEF M, j
  <2>3. p[b + (n + 1 - i)] = st[n + 1 - (n + 1 - i)]
    BY <1>4, <2>1
  <2>4. /\ st[i].u \in Nodes /\ L[j] \in Int /\ height[st[i].u] <= L[j]
        /\ mu <= L[j] /\ (mu < L[j] => i + B <= Room(L[j]))
    BY <1>3, <2>1, <2>3
  <2>5. mu = L[j] => i + B <= Room(L[j])
    BY <1>1, <1>5, <1>7
  <2> QED BY <1>5, <2>2, <2>4, <2>5
<1>11. ASSUME NEW i \in 1 .. n, NEW j \in 1 .. n, i < j PROVE M[j] <= M[i]
  <2>1. /\ b + n + 1 - i \in 1 .. b + n /\ b + n + 1 - j \in 1 .. b + n
        /\ b + n + 1 - j < b + n + 1 - i
    BY <1>1, <1>11
  <2>2. L[b + n + 1 - j] <= L[b + n + 1 - i]
    BY <1>3, <2>1
  <2> QED BY <2>2
<1>12. ASSUME NEW i \in n + 1 .. n PROVE FALSE
  BY <1>1
<1> HIDE DEF mu, M
<1>13. BatchedBy(rest, st, n, b, mu, M)
  <2>1. Len(rest) = b /\ Len(st) = n /\ n \in 0 .. n /\ b <= b /\ n <= n + 2 * (b - b) /\ BatchSize = B
    BY <1>1 DEF b, n, B
  <2> QED BY <1>1, <1>5, <1>8, <1>9, <1>10, <1>11, <1>12, <2>1 DEF BatchedBy
<1> QED BY <1>13 DEF Batched

\* The first record is taken away.
TakesFirst(rest, rest2) ==
  /\ Len(rest) \in Nat \ {0} /\ Len(rest2) = Len(rest) - 1
  /\ \A i \in 1 .. Len(rest2) : rest2[i] = rest[i + 1]

\* The stack stays as it is, or gets the kids of u.
MayPush(st, st2, u) ==
  /\ Len(st) \in Nat /\ \A i \in 1 .. Len(st) : st2[i] = st[i]
  /\ \/ Len(st2) = Len(st)
     \/ /\ Len(st2) = Len(st) + 2 /\ ~Leaf(u)
        /\ st2[Len(st) + 1].u = right[u] /\ st2[Len(st) + 2].u = left[u]

LEMMA ProcessRecord ==
  ASSUME NEW rest, NEW st, NEW rest2, NEW st2,
         Batched(rest, st), TakesFirst(rest, rest2), MayPush(st, st2, rest[1].u)
  PROVE  Batched(rest2, st2)
<1>1. PICK n, b, mu, L : BatchedBy(rest, st, n, b, mu, L)
  BY DEF Batched
<1>2. /\ n \in 0 .. Len(st) /\ b \in Nat /\ mu \in Int
      /\ Len(rest) <= b /\ Len(st) <= n + 2 * (b - Len(rest)) /\ n + 2 * b <= Room(mu - 1)
      /\ \A i \in 1 .. Len(rest) : rest[i].u \in Nodes /\ height[rest[i].u] <= mu
      /\ \A i \in 1 .. Len(st) : st[i].u \in Nodes
      /\ \A i \in n + 1 .. Len(st) : height[st[i].u] <= mu - 1
      /\ \A i \in 1 .. n : /\ L[i] \in Int /\ height[st[i].u] <= L[i] /\ mu <= L[i]
                           /\ i + BatchSize <= Room(L[i])
      /\ \A i, j \in 1 .. n : i < j => L[j] <= L[i]
  BY <1>1 DEF BatchedBy
<1> DEFINE c == Len(rest)
           m == Len(st)
<1>3. /\ Len(rest2) = c - 1 /\ c \in Nat \ {0} /\ m \in Nat
      /\ Len(st2) = m \/ Len(st2) = m + 2
      /\ \A i \in 1 .. c - 1 : rest2[i] = rest[i + 1]
      /\ \A i \in 1 .. m : st2[i] = st[i]
      /\ MayPush(st, st2, rest[1].u)
  BY DEF TakesFirst, MayPush
<1>4. \A i \in 1 .. c - 1 : rest2[i].u \in Nodes /\ height[rest2[i].u] <= mu
  <2> TAKE i \in 1 .. c - 1
  <2>1. i + 1 \in 1 .. c
    BY <1>3
  <2>2. rest[i + 1].u \in Nodes /\ height[rest[i + 1].u] <= mu
    BY <1>2, <2>1
  <2> QED BY <1>3, <2>2
<1>5. ASSUME NEW i \in m + 1 .. Len(st2)
      PROVE  st2[i].u \in Nodes /\ height[st2[i].u] <= mu - 1
  <2>1. /\ Len(st2) = m + 2 /\ ~Leaf(rest[1].u) /\ (i = m + 1 \/ i = m + 2)
        /\ st2[m + 1].u = right[rest[1].u] /\ st2[m + 2].u = left[rest[1].u]
    BY <1>3 DEF MayPush
  <2> DEFINE u == rest[1].u
  <2>2. u \in Nodes /\ height[u] <= mu
    BY <1>2, <1>3
  <2> HIDE DEF u
  <2>3. /\ left[u] \in Nodes /\ right[u] \in Nodes /\ height[u] \in Nat
        /\ height[left[u]] <= height[u] - 1 /\ height[right[u]] <= height[u] - 1
    BY <2>1, <2>2, HeightKids, KidsAreNodes DEF u
  <2>4. height[left[u]] \in Nat /\ height[right[u]] \in Nat
    BY <2>3, HeightKids
  <2>5. height[left[u]] <= mu - 1 /\ height[right[u]] <= mu - 1
    <3>1. mu \in Int
      BY <1>2
    <3> QED BY <2>2, <2>3, <2>4, <3>1
  <2> QED BY <2>1, <2>3, <2>5 DEF u
<1>6. ASSUME NEW i \in 1 .. Len(st2)
      PROVE  /\ st2[i].u \in Nodes
             /\ i \in n + 1 .. Len(st2) => height[st2[i].u] <= mu - 1
  <2>1. i \in 1 .. m \/ i \in m + 1 .. Len(st2)
    BY <1>3
  <2>2. CASE i \in 1 .. m
    <3>1. st2[i] = st[i] /\ (i \in n + 1 .. Len(st2) => i \in n + 1 .. m)
      BY <1>3, <2>2
    <3> QED BY <1>2, <2>2, <3>1
  <2> QED BY <1>5, <2>1, <2>2
<1>7. \A i \in n + 1 .. Len(st2) : height[st2[i].u] <= mu - 1
  <2> TAKE i \in n + 1 .. Len(st2)
  <2>1. i \in 1 .. Len(st2)
    BY <1>2, <1>3
  <2> QED BY <1>6, <2>1
<1>8. \A i \in 1 .. n : st2[i] = st[i]
  BY <1>2, <1>3
<1> HIDE DEF c, m
<1>9. n \in 0 .. Len(st2) /\ c - 1 <= b /\ Len(st2) <= n + 2 * (b - (c - 1))
  BY <1>2, <1>3 DEF c, m
<1>10. BatchedBy(rest2, st2, n, b, mu, L)
  BY <1>2, <1>3, <1>4, <1>6, <1>7, <1>8, <1>9 DEF BatchedBy
<1> QED BY <1>10 DEF Batched

\* The batch is done.
LEMMA EndBatch ==
  ASSUME NEW rest, NEW st, NEW p, Batched(rest, st), Len(rest) = 0, Len(st) \in Nat,
         Len(p) = Len(st), \A i \in 1 .. Len(st) : p[i] = st[Len(st) + 1 - i]
  PROVE  Levelled(p)
<1>1. PICK n, b, mu, L : BatchedBy(rest, st, n, b, mu, L)
  BY DEF Batched
<1> DEFINE m == Len(st)
           B == BatchSize
<1> HIDE DEF B
<1>2. /\ n \in 0 .. m /\ b \in Nat /\ mu \in Int /\ m <= n + 2 * b /\ n + 2 * b <= Room(mu - 1)
      /\ \A i \in 1 .. m : st[i].u \in Nodes
      /\ \A i \in n + 1 .. m : height[st[i].u] <= mu - 1
      /\ \A i \in 1 .. n : /\ L[i] \in Int /\ height[st[i].u] <= L[i] /\ mu <= L[i]
                           /\ i + B <= Room(L[i])
      /\ \A i, j \in 1 .. n : i < j => L[j] <= L[i]
  <2>1. n \in 0 .. m /\ b \in Nat /\ mu \in Int /\ n + 2 * b <= Room(mu - 1)
    BY <1>1 DEF BatchedBy
  <2>2. m <= n + 2 * (b - Len(rest))
    BY <1>1 DEF BatchedBy
  <2>3. m <= n + 2 * b
    BY <2>1, <2>2
  <2>4. /\ \A i \in 1 .. m : st[i].u \in Nodes
        /\ \A i \in n + 1 .. m : height[st[i].u] <= mu - 1
    BY <1>1 DEF BatchedBy
  <2>5. /\ \A i \in 1 .. n : /\ L[i] \in Int /\ height[st[i].u] <= L[i] /\ mu <= L[i]
                              /\ i + B <= Room(L[i])
        /\ \A i, j \in 1 .. n : i < j => L[j] <= L[i]
    BY <1>1 DEF BatchedBy, B
  <2> QED BY <2>1, <2>3, <2>4, <2>5
<1>3. B \in Nat \ {0} /\ \A l \in Int : Room(l) \in Int
  BY RoomValues DEF B
<1> DEFINE Q(i) == m + 1 - i
           N == [i \in 1 .. m |-> IF Q(i) <= n THEN L[Q(i)] ELSE mu - 1]
<1>4. ASSUME NEW i \in 1 .. m
      PROVE  /\ Q(i) \in 1 .. m /\ p[i] = st[Q(i)] /\ Q(i) = m + 1 - i
             /\ Q(i) <= n => Q(i) \in 1 .. n /\ N[i] = L[Q(i)]
             /\ ~(Q(i) <= n) => Q(i) \in n + 1 .. m /\ N[i] = mu - 1
  BY <1>2
<1>5. \A i, j \in 1 .. m : i < j => Q(j) < Q(i)
  OBVIOUS
<1>6. m \in Nat /\ Len(p) = m
  OBVIOUS
<1> HIDE DEF m, Q, N
<1>7. ASSUME NEW i \in 1 .. m
      PROVE  /\ p[i].u \in Nodes /\ N[i] \in Int /\ height[p[i].u] <= N[i]
             /\ m + 1 - i <= Room(N[i])
  <2>1. CASE Q(i) <= n
    <3>1. /\ Q(i) \in 1 .. m /\ N[i] = L[Q(i)] /\ p[i] = st[Q(i)] /\ L[Q(i)] \in Int
          /\ st[Q(i)].u \in Nodes /\ height[st[Q(i)].u] <= L[Q(i)]
          /\ Q(i) + B <= Room(L[Q(i)]) /\ Room(L[Q(i)]) \in Int
      BY <1>2, <1>3, <1>4, <2>1
    <3>2. Q(i) <= Room(L[Q(i)])
      BY <1>3, <3>1
    <3>3. Q(i) = m + 1 - i
      BY <1>4
    <3> QED BY <3>1, <3>2, <3>3
  <2>2. CASE ~(Q(i) <= n)
    <3>1. Q(i) <= Room(mu - 1) /\ mu - 1 \in Int
      BY <1>2, <1>3, <1>4, <1>6, <2>2
    <3>2. Q(i) \in 1 .. m /\ Q(i) \in n + 1 .. m /\ p[i] = st[Q(i)] /\ N[i] = mu - 1 /\ Q(i) = m + 1 - i
      BY <1>4, <2>2
    <3>3. st[Q(i)].u \in Nodes /\ height[st[Q(i)].u] <= mu - 1
      BY <1>2, <3>2
    <3> QED BY <3>1, <3>2, <3>3
  <2> QED BY <2>1, <2>2
<1>8. ASSUME NEW i \in 1 .. m, NEW j \in 1 .. m, i < j
      PROVE  N[i] <= N[j] /\ (N[i] < N[j] => m + 1 - j + B <= Room(N[j]))
  <2>1. Q(j) < Q(i) /\ Q(i) \in Int /\ Q(j) \in Int /\ n \in Int
    BY <1>2, <1>4, <1>5, <1>6, <1>8
  <2>2. CASE Q(j) <= n
    <3>1. Q(j) \in 1 .. n /\ N[j] = L[Q(j)] /\ L[Q(j)] \in Int /\ mu <= L[Q(j)]
          /\ Q(j) + B <= Room(N[j]) /\ Q(j) = m + 1 - j
      BY <1>2, <1>4, <2>2
    <3>2. CASE Q(i) <= n
      <4>1. N[i] <= N[j]
        BY <1>2, <1>4, <2>1, <3>1, <3>2
      <4> QED BY <3>1, <4>1
    <3>3. CASE ~(Q(i) <= n)
      <4>1. N[i] = mu - 1
        BY <1>4, <3>3
      <4> QED BY <1>2, <3>1, <4>1
    <3> QED BY <3>2, <3>3
  <2>3. CASE ~(Q(j) <= n)
    <3>1. ~(Q(i) <= n)
      BY <2>1, <2>3
    <3>2. N[j] = mu - 1 /\ N[i] = mu - 1
      BY <1>4, <2>3, <3>1
    <3> QED BY <1>2, <3>2
  <2> QED BY <2>2, <2>3
<1>9. LevelledBy(p, N)
  BY <1>6, <1>7, <1>8 DEF LevelledBy, B
<1> QED BY <1>9 DEF Levelled

-----------------------------------------------------------------------------
(***************************************************************************)
(* The invariant.                                                          *)
(***************************************************************************)

StackInv ==
  /\ pc \in {"push", "search"} => Levelled(Pending)
  /\ pc = "search" /\ PlainBatch =>
       /\ Len(chan1) + Len(chan0) <= BatchSize
       /\ Len(chan1) + Len(chan0) = BatchSize \/ stack = <<>>
  /\ pc = "process" /\ PlainBatch => Batched(chan1, stack)
  /\ pc = "finished" => stack = <<>>

LEMMA StackInvNext ==
  /\ Levelled(Pending)' <=> Levelled(Pending')
  /\ Batched(chan1, stack)' <=> Batched(chan1', stack')
  BY DEF Levelled, LevelledBy, Batched, BatchedBy, Room

LEMMA LevelledKeep ==
  ASSUME QuietMove, Levelled(Pending)
  PROVE  Levelled(Pending')
<1>1. PICK L : LevelledBy(Pending, L)
  BY DEF Levelled
<1>2. Len(Pending') = Len(Pending) /\ \A i \in 1 .. Len(Pending) : Pending'[i].u = Pending[i].u
  BY DEF QuietMove, SameRecords
<1>3. LevelledBy(Pending', L)
  BY <1>1, <1>2 DEF LevelledBy
<1> QED BY <1>3 DEF Levelled

LEMMA StackInvInit ==
  ASSUME Init
  PROVE  StackInv
<1>1. Len(Pending) = 1 /\ Pending[1].u = Root /\ Root \in Nodes /\ pc = "push"
  BY RootPending, FilterAssumption DEF Init
<1> DEFINE L == [i \in {1} |-> height[Root]]
<1>2. L[1] \in Int /\ height[Root] <= L[1] /\ 1 + 1 - 1 <= Room(L[1])
  BY RoomValues
<1> HIDE DEF L
<1>3. LevelledBy(Pending, L)
  BY <1>1, <1>2 DEF LevelledBy
<1> QED BY <1>1, <1>3 DEF StackInv, Levelled

\* The loops that put a batch together: the records stay as they are.
LEMMA StackPush ==
  ASSUME KernelInv, StackInv, PushEntry \/ PushTerminator
  PROVE  StackInv'
<1>1. KernelInv' /\ QuietMove /\ pc = "push" /\ pc' \in {"push", "search"}
  BY PushEntryStep, PushTerminatorStep DEF PushEntry, PushTerminator
<1>2. Levelled(Pending')
  BY <1>1, LevelledKeep DEF StackInv
<1>3. ASSUME pc' = "search", PlainBatch'
      PROVE  /\ Len(chan1') + Len(chan0') <= BatchSize
             /\ Len(chan1') + Len(chan0') = BatchSize \/ stack' = <<>>
  <2>1. /\ chan0 \in Seq(StackEntry) /\ chan1 = <<>> /\ chan1' = chan1
        /\ Len(chan0) = read_counter /\ read_counter < BatchSize /\ read_counter \in Nat
        /\ read_counter' = read_counter + 1 /\ BatchSize \in Nat
    BY <1>1, FilterAssumption
       DEF KernelInv, TypeOK, BatchShape, PlainBatch, PushEntry, PushTerminator
  <2>2. CASE PushEntry
    <3>1. /\ chan0' = Append(chan0, stack[Len(stack)])
          /\ pc' = IF stack' # <<>> /\ read_counter' < BatchSize THEN "push" ELSE "search"
      BY <2>2 DEF PushEntry
    <3>2. Len(chan0') = read_counter + 1 /\ Len(chan1') = 0
      BY <2>1, <3>1
    <3> QED BY <1>3, <2>1, <3>1, <3>2
  <2>3. CASE PushTerminator
    <3>1. stack = <<>> /\ stack' = stack /\ chan0' = Append(chan0, Terminator)
      BY <2>3 DEF PushTerminator
    <3>2. Len(chan0') = read_counter + 1 /\ Len(chan1') = 0
      BY <2>1, <3>1
    <3> QED BY <2>1, <3>1, <3>2
  <2> QED BY <2>2, <2>3
<1> QED BY <1>1, <1>2, <1>3, StackInvNext DEF StackInv, PlainBatch

LEMMA StackSearch ==
  ASSUME KernelInv, StackInv, Search
  PROVE  StackInv'
<1>1. /\ KernelInv' /\ QuietMove /\ pc = "search" /\ stack' = stack /\ chan0' = Tail(chan0)
      /\ pc' = IF chan0' = <<>> THEN "process" ELSE "search"
  BY SearchStep DEF Search
<1>2. Levelled(Pending')
  BY <1>1, LevelledKeep DEF StackInv
<1>3. ASSUME PlainBatch'
      PROVE  /\ Len(chan1') + Len(chan0') <= BatchSize /\ Len(chan1') \in Nat \ {0}
             /\ Len(chan1') + Len(chan0') = BatchSize \/ stack' = <<>>
  <2>1. chan1' # <<>> /\ chan0 # <<>>
    BY DEF Search, KernelInv, TypeOK
  <2>2. PlainBatch
    <3>1. CASE LastBatch
      <4>1. chan0 = <<Terminator>> /\ chan1 = <<>>
        BY <2>1, <3>1, TerminatorPlace DEF KernelInv
      <4>2. chan1' = <<Terminator>>
        BY <4>1 DEF Search
      <4>3. <<Terminator>>[1] = Terminator /\ Len(<<Terminator>>) = 1
        OBVIOUS
      <4>4. Terminator \in SearchedEntry
        BY <1>3, <4>2, <4>3 DEF PlainBatch
      <4> QED BY <4>4, TerminatorAssumption
    <3> QED BY <3>1 DEF KernelInv, BatchShape
  <2>3. /\ Len(chan1') = Len(chan1) + 1 /\ Len(chan0') = Len(chan0) - 1
        /\ Len(chan1) \in Nat /\ Len(chan0) \in Nat \ {0}
    BY <1>1, <2>1, <2>2 DEF Search, PlainBatch
  <2> QED BY <1>1, <2>2, <2>3 DEF StackInv
<1>4. ASSUME pc' = "process", PlainBatch' PROVE Batched(chan1', stack')
  <2>1. /\ chan0' = <<>> /\ stack' \in Seq(StackEntry)
        /\ InOrder(Pending', chan1', chan0', stack')
    <3>1. chan0' = <<>>
      BY <1>1, <1>4
    <3>2. stack' \in Seq(StackEntry)
      BY <1>1 DEF KernelInv, TypeOK
    <3> QED BY <1>4, <3>1, <3>2, PendingNext DEF PlainBatch
  <2>2. /\ Len(chan0') = 0 /\ Len(stack') \in Nat /\ Len(chan1') \in Nat \ {0}
        /\ Len(chan1') <= BatchSize /\ (Len(chan1') = BatchSize \/ Len(stack') = 0)
    BY <1>3, <1>4, <2>1, RoomValues
  <2>3. Len(Pending') = Len(chan1') + Len(stack')
    BY <2>1, <2>2 DEF InOrder
  <2>4. \A i \in 1 .. Len(chan1') : Pending'[i] = chan1'[i]
    BY <2>1 DEF InOrder
  <2>5. \A i \in 1 .. Len(stack') : Pending'[Len(chan1') + i] = stack'[Len(stack') + 1 - i]
    <3>1. Len(chan1') + Len(chan0') = Len(chan1')
      BY <2>2
    <3> QED BY <2>1, <3>1 DEF InOrder
  <2> QED BY <1>2, <2>2, <2>3, <2>4, <2>5, StartBatch
<1> QED BY <1>1, <1>2, <1>3, <1>4, StackInvNext DEF StackInv, PlainBatch

LEMMA StackProcess ==
  ASSUME KernelInv, StackInv, Process
  PROVE  StackInv'
<1> DEFINE s == Head(chan1)
<1>1. /\ pc = "process" /\ chan1 # <<>> /\ s # Terminator /\ chan0' = chan0
      /\ \E writes : NextRecord(writes)
      /\ stack' = stack \/ (~Leaf(s.u) /\ \E new, new_k, full, cand :
                              stack' = stack \o Children(s.u, new, new_k, full, cand))
  <2>1. PICK delivered \in BOOLEAN, kept \in SUBSET cs_pool[s.c] :
          LET heap_full  == max_heap_usage_reached
              to_delete  == IF delivered THEN Head(chan2) ELSE s.c
              free_first == s.d \/ delivered
              heap == fused_kernel_conditional_free_malloc(to_delete, free_first, heap_full)
              new_k      == IF heap_full THEN k ELSE Cardinality(kept)
              new_cand   == IF heap_full THEN Centres ELSE kept
              deadend    == Leaf(s.u) \/ new_k = 1
          IN  /\ NextRecord(IF heap_full THEN {} ELSE {heap.new})
              /\ \/ stack' = stack
                 \/ /\ ~deadend
                    /\ stack' = stack \o Children(s.u, heap.new, new_k, heap_full, new_cand)
    BY ZenonT(60) DEF Process
  <2>2. /\ \E writes : NextRecord(writes)
        /\ stack' = stack \/ (~Leaf(s.u) /\ \E new, new_k, full, cand :
                                stack' = stack \o Children(s.u, new, new_k, full, cand))
    BY <2>1, Zenon
  <2> QED BY <2>2 DEF Process
<1>2. /\ KernelInv' /\ PlainBatch /\ chan0 = <<>> /\ chan1 \in Seq(SearchedEntry)
      /\ stack \in Seq(StackEntry) /\ stack' \in Seq(StackEntry)
  <2>1. KernelInv' /\ chan0 = <<>> /\ stack \in Seq(StackEntry) /\ TypeOK
    BY <1>1, ProcessStep DEF KernelInv, BatchShape, TypeOK
  <2>2. stack' \in Seq(StackEntry)
    BY <2>1 DEF KernelInv, TypeOK
  <2>3. ~LastBatch
    <3>1. ASSUME LastBatch PROVE FALSE
      <4>1. chan1 = <<Terminator>>
        BY <1>1, <2>1, <3>1, TerminatorPlace
      <4> QED BY <1>1, <4>1
    <3> QED BY <3>1
  <2>4. PlainBatch
    BY <2>3 DEF KernelInv, BatchShape
  <2> QED BY <2>1, <2>2, <2>4 DEF PlainBatch
<1>3. /\ chan1' = Tail(chan1) /\ s = chan1[1] /\ chan1' \in Seq(SearchedEntry)
      /\ Len(chan1) \in Nat \ {0} /\ Len(chan1') = Len(chan1) - 1
      /\ \A i \in 1 .. Len(chan1') : chan1'[i] = chan1[i + 1]
      /\ chan1' = <<>> => pc' = "push"
      /\ chan1' # <<>> => pc' = "process"
  BY <1>1, <1>2, HeadTailProperties, EmptySeq DEF NextRecord
<1>4. Len(stack) \in Nat /\ Len(stack') \in Nat
  BY <1>2
<1>5. Batched(chan1', stack')
  <2>1. Batched(chan1, stack)
    BY <1>1, <1>2 DEF StackInv
  <2>2. TakesFirst(chan1, chan1')
    BY <1>3 DEF TakesFirst
  <2>3. CASE stack' = stack
    <3>1. MayPush(stack, stack', chan1[1].u)
      BY <1>4, <2>3 DEF MayPush
    <3> QED BY <2>1, <2>2, <3>1, ProcessRecord
  <2>4. ASSUME NEW new, NEW new_k, NEW full, NEW cand, ~Leaf(s.u),
               stack' = stack \o Children(s.u, new, new_k, full, cand)
        PROVE  Batched(chan1', stack')
    <3> DEFINE x == [u |-> right[s.u], c |-> new, k |-> new_k, d |-> ~full, cand |-> cand]
               y == [u |-> left[s.u], c |-> new, k |-> new_k, d |-> FALSE, cand |-> cand]
               T == {stack[i] : i \in 1 .. Len(stack)} \cup {x, y}
    <3>1. stack' = stack \o <<x, y>> /\ x.u = right[s.u] /\ y.u = left[s.u]
      BY <2>4 DEF Children
    <3> HIDE DEF x, y
    <3>2. stack \in Seq(T) /\ <<x, y>> \in Seq(T) /\ Len(<<x, y>>) = 2
      <4>1. stack \in [1 .. Len(stack) -> T]
        BY <1>2
      <4>2. x \in T /\ y \in T
        OBVIOUS
      <4> HIDE DEF T
      <4> QED BY <1>4, <4>1, <4>2
    <3> HIDE DEF T
    <3>3. /\ Len(stack') = Len(stack) + 2
          /\ \A i \in 1 .. Len(stack) + 2 :
               stack'[i] = IF i <= Len(stack) THEN stack[i] ELSE <<x, y>>[i - Len(stack)]
      BY <3>1, <3>2, ConcatProperties
    <3>4. /\ \A i \in 1 .. Len(stack) : stack'[i] = stack[i]
          /\ stack'[Len(stack) + 1] = x /\ stack'[Len(stack) + 2] = y
      <4>1. \A i \in 1 .. Len(stack) : i \in 1 .. Len(stack) + 2 /\ i <= Len(stack)
        BY <1>4
      <4>2. /\ Len(stack) + 1 \in 1 .. Len(stack) + 2 /\ Len(stack) + 2 \in 1 .. Len(stack) + 2
            /\ ~(Len(stack) + 1 <= Len(stack)) /\ ~(Len(stack) + 2 <= Len(stack))
            /\ Len(stack) + 1 - Len(stack) = 1 /\ Len(stack) + 2 - Len(stack) = 2
        BY <1>4
      <4>3. <<x, y>>[1] = x /\ <<x, y>>[2] = y
        OBVIOUS
      <4> QED BY <3>3, <4>1, <4>2, <4>3
    <3>5. /\ Len(stack') = Len(stack) + 2 /\ ~Leaf(chan1[1].u)
          /\ stack'[Len(stack) + 1].u = right[chan1[1].u]
          /\ stack'[Len(stack) + 2].u = left[chan1[1].u]
      BY <1>3, <2>4, <3>1, <3>3, <3>4
    <3>6. MayPush(stack, stack', chan1[1].u)
      BY <1>4, <3>4, <3>5 DEF MayPush
    <3> QED BY <2>1, <2>2, <3>6, ProcessRecord
  <2> QED BY <1>1, <2>3, <2>4
<1>6. ASSUME chan1' = <<>> PROVE Levelled(Pending')
  <2>1. InOrder(Pending', chan1', chan0', stack') /\ Len(chan1') = 0 /\ Len(chan0') = 0
    <3>1. chan1' \in Seq(SearchedEntry) /\ chan0' \in Seq(StackEntry) /\ chan0' = <<>>
      BY <1>1, <1>2, <1>6
    <3> QED BY <1>2, <1>6, <3>1, PendingNext
  <2>2. Len(Pending') = Len(stack')
    BY <1>4, <2>1 DEF InOrder
  <2>3. \A i \in 1 .. Len(stack') : Pending'[i] = stack'[Len(stack') + 1 - i]
    <3>1. \A i \in 1 .. Len(stack') : Pending'[0 + 0 + i] = stack'[Len(stack') + 1 - i]
      BY <2>1 DEF InOrder
    <3> QED BY <1>4, <3>1
  <2> QED BY <1>4, <1>5, <2>1, <2>2, <2>3, EndBatch
<1> QED BY <1>3, <1>5, <1>6, StackInvNext DEF StackInv

LEMMA StackInvStep ==
  ASSUME KernelInv, StackInv, [Next]_vars
  PROVE  StackInv'
<1>1. CASE PushEntry \/ PushTerminator
  BY <1>1, StackPush
<1>2. CASE Search
  BY <1>2, StackSearch
<1>3. CASE Process
  BY <1>3, StackProcess
<1>4. CASE ProcessTerminator
  <2>1. pc = "process" /\ pc' = "finished" /\ stack' = stack /\ chan1 # <<>> /\ chan0 = <<>>
        /\ Head(chan1) = Terminator
    BY <1>4 DEF ProcessTerminator, KernelInv, BatchShape
  <2>2. ~PlainBatch
    <3>1. ASSUME PlainBatch PROVE FALSE
      <4>1. Head(chan1) \in SearchedEntry
        BY <2>1, <3>1, HeadTailProperties DEF PlainBatch
      <4> QED BY <2>1, <4>1, TerminatorAssumption
    <3> QED BY <3>1
  <2>3. stack = <<>>
    BY <2>2 DEF KernelInv, BatchShape
  <2> QED BY <2>1, <2>3 DEF StackInv
<1>5. CASE Accumulate \/ UNCHANGED vars
  <2>1. UNCHANGED <<pc, chan0, chan1, stack>>
    BY <1>5 DEF Accumulate, vars
  <2>2. Pending' = Pending
    BY <2>1 DEF Pending, Reversed
  <2> QED BY <2>1, <2>2, StackInvNext DEF StackInv, PlainBatch
<1> QED BY <1>1, <1>2, <1>3, <1>4, <1>5 DEF Next, filter0Next

LEMMA StackInvFits ==
  ASSUME KernelInv, StackInv
  PROVE  StackFits
<1>1. stack \in Seq(StackEntry) /\ Len(stack) \in Nat
  BY DEF KernelInv, TypeOK
<1>2. Room(0) \in Int /\ Room(0) >= 1 /\ Room(0) = 1 + BatchSize * height[Root]
  BY RoomValues
<1>3. Len(stack) <= Room(0)
  <2>1. CASE Len(stack) = 0
    BY <1>2, <2>1
  <2>2. CASE Len(stack) > 0 /\ pc \in {"push", "search"}
    <3>1. PlainBatch
      BY <2>2 DEF KernelInv, BatchShape
    <3>2. InOrder(Pending, chan1, chan0, stack) /\ Len(chan1) \in Nat /\ Len(chan0) \in Nat
      BY <3>1, PendingPlain DEF KernelInv, PlainBatch
    <3>3. Len(Pending) \in Nat \ {0} /\ Len(stack) <= Len(Pending)
      BY <1>1, <2>2, <3>2 DEF InOrder
    <3>4. PICK L : LevelledBy(Pending, L)
      BY <2>2 DEF StackInv, Levelled
    <3>5. /\ Pending[1].u \in Nodes /\ L[1] \in Int /\ height[Pending[1].u] <= L[1]
          /\ Len(Pending) + 1 - 1 <= Room(L[1])
      BY <3>3, <3>4 DEF LevelledBy
    <3>6. L[1] >= 0
      BY <3>5, HeightKids
    <3>7. Room(L[1]) <= Room(0) /\ Room(L[1]) \in Int
      BY <3>5, <3>6, RoomValues
    <3> QED BY <1>1, <1>2, <3>3, <3>5, <3>7
  <2>3. CASE Len(stack) > 0 /\ pc = "process"
    <3>1. PlainBatch
      BY <2>3 DEF KernelInv, BatchShape
    <3>2. PICK n, b, mu, L : BatchedBy(chan1, stack, n, b, mu, L)
      BY <2>3, <3>1 DEF StackInv, Batched
    <3>3. /\ n \in 0 .. Len(stack) /\ b \in Nat /\ mu \in Int /\ Len(chan1) \in Nat
          /\ Len(stack) <= n + 2 * (b - Len(chan1)) /\ n + 2 * b <= Room(mu - 1)
      BY <3>1, <3>2 DEF BatchedBy, PlainBatch
    <3>4. CASE n = Len(stack)
      <4>1. /\ stack[n].u \in Nodes /\ L[n] \in Int /\ height[stack[n].u] <= L[n]
            /\ n + BatchSize <= Room(L[n])
        BY <1>1, <2>3, <3>2, <3>4 DEF BatchedBy
      <4>2. L[n] >= 0 /\ BatchSize \in Nat
        BY <4>1, HeightKids, RoomValues
      <4>3. Room(L[n]) <= Room(0) /\ Room(L[n]) \in Int
        BY <4>1, <4>2, RoomValues
      <4> QED BY <1>1, <1>2, <3>4, <4>1, <4>2, <4>3
    <3>5. CASE n # Len(stack)
      <4>1. Len(stack) \in n + 1 .. Len(stack) /\ Len(stack) \in 1 .. Len(stack)
        BY <1>1, <2>3, <3>3, <3>5
      <4>2. stack[Len(stack)].u \in Nodes /\ height[stack[Len(stack)].u] <= mu - 1
        BY <3>2, <4>1 DEF BatchedBy
      <4>3. mu - 1 >= 0 /\ mu - 1 \in Int
        BY <3>3, <4>2, HeightKids
      <4>4. Room(mu - 1) <= Room(0) /\ Room(mu - 1) \in Int
        BY <4>3, RoomValues
      <4> QED BY <1>1, <1>2, <3>3, <4>4
    <3> QED BY <3>4, <3>5
  <2>4. CASE pc = "finished"
    BY <1>2, <2>4 DEF StackInv
  <2> QED BY <1>1, <2>1, <2>2, <2>3, <2>4 DEF KernelInv, TypeOK
<1> QED BY <1>2, <1>3 DEF StackFits

\* The stack never holds more than one entry and BatchSize for every level of the
\* tree: what STACK_SIZE has to allow for, whatever the shape of the tree.
THEOREM StackIsBounded == Spec => []StackFits
<1>1. Init => KernelInv /\ StackInv
  BY InitKernelInv, StackInvInit
<1>2. KernelInv /\ StackInv /\ [Next]_vars => (KernelInv /\ StackInv)'
  BY NextKernelInv, StackInvStep
<1>3. KernelInv /\ StackInv => StackFits
  BY StackInvFits
<1> QED BY <1>1, <1>2, <1>3, PTL DEF Spec
=============================================================================
