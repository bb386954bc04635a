----------------------------- MODULE KdTreeProofs -----------------------------
(***************************************************************************)
(* Theorems about the trees of both host programs, for every number of     *)
(* points, of dimensions and of coordinates, and every data file.          *)
(*                                                                         *)
(* The argument. A pass of a split ends, and leaves its range rearranged   *)
(* with the points that stay on the left first (PassSorts), so that a      *)
(* split leaves a point on either side (SplitIs) and the stack of calls    *)
(* stays nested (CallsOK). A range of n points gives 2n - 1 nodes, in      *)
(* postorder; so where a call's nodes begin (Heights) fixes where its      *)
(* children's are (TreeOK), how many nodes there are, and that the         *)
(* subtrees still to delete are disjoint intervals (DoomedOK). For the     *)
(* boxes, every call has a box of its own that holds its points (Boxes);   *)
(* for the points, each is in one leaf or at one position that is still to *)
(* be built (Kept); a node's sums are those of its children (SumsOK),      *)
(* whose leaves are disjoint. Heights and boxes are not variables of the   *)
(* model: it is enough that some exist.                                    *)
(***************************************************************************)
EXTENDS ArrayTree, TLAPS, FiniteSetTheorems, WellFoundedInduction

-----------------------------------------------------------------------------
(***************************************************************************)
(* Finite sets of integers, and functions that a loop computes.            *)
(***************************************************************************)

\* A nonempty finite set of integers has a greatest element.
LEMMA Greatest ==
  ASSUME NEW S, IsFiniteSet(S), S \subseteq Int, S # {}
  PROVE  \E x \in S : \A y \in S : y <= x
<1> DEFINE A(x) == {y \in S : y > x}
           T == {A(x) : x \in S}
           R == StrictSubsetOrdering(S)
<1>1. IsWellFoundedOn(R, FiniteSubsetsOf(S))
  BY FS_StrictSubsetOrderingWellFounded
<1>2. T \subseteq FiniteSubsetsOf(S) /\ T # {}
  <2>1. ASSUME NEW x \in S PROVE A(x) \in FiniteSubsetsOf(S)
    <3>1. A(x) \in SUBSET S
      OBVIOUS
    <3> QED BY <3>1, FS_Subset DEF FiniteSubsetsOf
  <2> QED BY <2>1
<1>3. PICK U \in T : \A V \in T : ~(<<V, U>> \in R)
  <2> HIDE DEF T, R
  <2> QED BY <1>1, <1>2, WFMin
<1>4. PICK x \in S : U = A(x)
  OBVIOUS
<1>5. ASSUME NEW y \in S, y > x PROVE FALSE
  <2>1. A(y) \subseteq A(x) /\ y \in A(x) /\ y \notin A(y)
    <3> HIDE DEF T, R
    <3>1. x \in Int /\ y \in Int
      OBVIOUS
    <3>2. ASSUME NEW z \in S, z > y PROVE z > x
      <4>1. z \in Int
        OBVIOUS
      <4> QED BY <1>5, <3>1, <3>2, <4>1
    <3>3. ~(y > y)
      BY <3>1
    <3> QED BY <1>5, <3>2, <3>3
  <2>2. A(y) \in T /\ A(y) \in SUBSET S /\ A(x) \in SUBSET S
    OBVIOUS
  <2> HIDE DEF A, T
  <2>3. <<A(y), A(x)>> \in R
    BY <2>1, <2>2 DEF StrictSubsetOrdering
  <2> QED BY <1>3, <1>4, <2>2, <2>3
<1> QED BY <1>5

\* And a least one.
LEMMA Least ==
  ASSUME NEW S, IsFiniteSet(S), S \subseteq Int, S # {}
  PROVE  \E x \in S : \A y \in S : x <= y
<1> DEFINE A(x) == {y \in S : y < x}
           T == {A(x) : x \in S}
           R == StrictSubsetOrdering(S)
<1>1. IsWellFoundedOn(R, FiniteSubsetsOf(S))
  BY FS_StrictSubsetOrderingWellFounded
<1>2. T \subseteq FiniteSubsetsOf(S) /\ T # {}
  <2>1. ASSUME NEW x \in S PROVE A(x) \in FiniteSubsetsOf(S)
    <3>1. A(x) \in SUBSET S
      OBVIOUS
    <3> QED BY <3>1, FS_Subset DEF FiniteSubsetsOf
  <2> QED BY <2>1
<1>3. PICK U \in T : \A V \in T : ~(<<V, U>> \in R)
  <2> HIDE DEF T, R
  <2> QED BY <1>1, <1>2, WFMin
<1>4. PICK x \in S : U = A(x)
  OBVIOUS
<1>5. ASSUME NEW y \in S, y < x PROVE FALSE
  <2>1. A(y) \subseteq A(x) /\ y \in A(x) /\ y \notin A(y)
    <3> HIDE DEF T, R
    <3>1. x \in Int /\ y \in Int
      OBVIOUS
    <3>2. ASSUME NEW z \in S, z < y PROVE z < x
      <4>1. z \in Int
        OBVIOUS
      <4> QED BY <1>5, <3>1, <3>2, <4>1
    <3>3. ~(y < y)
      BY <3>1
    <3> QED BY <1>5, <3>2, <3>3
  <2>2. A(y) \in T /\ A(y) \in SUBSET S /\ A(x) \in SUBSET S
    OBVIOUS
  <2> HIDE DEF A, T
  <2>3. <<A(y), A(x)>> \in R
    BY <2>1, <2>2 DEF StrictSubsetOrdering
  <2> QED BY <1>3, <1>4, <2>2, <2>3
<1> QED BY <1>5

\* A loop over S leaves at the states of E with what it has there, and ends.
Follows(f, S, E, final, next) ==
  \A s \in S : f[s] = IF s \in E THEN final[s] ELSE f[next[s]]

\* A loop that ends from every state computes a function, which is what a recursive
\* definition of its result needs.
LEMMA LoopComputes ==
  ASSUME NEW S, NEW V, NEW E, NEW next \in [S -> S], NEW final \in [S -> V],
         \A T \in SUBSET S : (\A s \in S : s \in E \/ next[s] \in T => s \in T) => T = S
  PROVE  \E f \in [S -> V] : Follows(f, S, E, final, next)
<1> DEFINE Closed(T) == \A s \in S : /\ s \in E => <<s, final[s]>> \in T
                                     /\ s \notin E => \A v \in V : <<next[s], v>> \in T => <<s, v>> \in T
           Rel == {x \in S \X V : \A T \in SUBSET (S \X V) : Closed(T) => x \in T}
<1>1. Closed(Rel)
  <2>1. ASSUME NEW s \in S, s \in E PROVE <<s, final[s]>> \in Rel
    <3>1. <<s, final[s]>> \in S \X V
      OBVIOUS
    <3> QED BY <2>1, <3>1
  <2>2. ASSUME NEW s \in S, s \notin E, NEW v \in V, <<next[s], v>> \in Rel
        PROVE  <<s, v>> \in Rel
    <3>1. <<s, v>> \in S \X V
      OBVIOUS
    <3>2. ASSUME NEW T \in SUBSET (S \X V), Closed(T) PROVE <<s, v>> \in T
      <4>1. <<next[s], v>> \in T
        BY <2>2, <3>2
      <4> QED BY <2>2, <3>2, <4>1
    <3> QED BY <3>1, <3>2
  <2> QED BY <2>1, <2>2
<1>2. ASSUME NEW s \in S, NEW v \in V, Closed(Rel \ {<<s, v>>}) PROVE <<s, v>> \notin Rel
  <2>1. Rel \ {<<s, v>>} \in SUBSET (S \X V)
    OBVIOUS
  <2> QED BY <1>2, <2>1
<1> DEFINE One == {s \in S : \E v \in V : \A w \in V : <<s, w>> \in Rel <=> w = v}
<1> HIDE DEF Rel
<1>3. ASSUME NEW s \in S, s \in E \/ next[s] \in One PROVE s \in One
  <2>1. CASE s \in E
    <3>1. <<s, final[s]>> \in Rel /\ final[s] \in V
      BY <1>1, <2>1
    <3>2. ASSUME NEW w \in V, w # final[s] PROVE <<s, w>> \notin Rel
      <4>1. Closed(Rel \ {<<s, w>>})
        BY <1>1, <2>1, <3>2
      <4> QED BY <1>2, <4>1
    <3>3. \A w \in V : <<s, w>> \in Rel <=> w = final[s]
      BY <3>1, <3>2
    <3> QED BY <3>1, <3>3
  <2>2. CASE s \notin E
    <3>1. next[s] \in S /\ next[s] \in One
      BY <1>3, <2>2
    <3>2. PICK v \in V : \A w \in V : <<next[s], w>> \in Rel <=> w = v
      BY <3>1
    <3>3. <<s, v>> \in Rel
      BY <1>1, <2>2, <3>2
    <3>4. ASSUME NEW w \in V, w # v PROVE <<s, w>> \notin Rel
      <4>1. ASSUME NEW t \in S, t \notin E, NEW x \in V, <<next[t], x>> \in Rel \ {<<s, w>>}
            PROVE  <<t, x>> \in Rel \ {<<s, w>>}
        BY <1>1, <3>2, <3>4, <4>1
      <4>2. ASSUME NEW t \in S, t \in E PROVE <<t, final[t]>> \in Rel \ {<<s, w>>}
        BY <1>1, <2>2, <4>2
      <4>3. Closed(Rel \ {<<s, w>>})
        BY <4>1, <4>2
      <4> QED BY <1>2, <4>3
    <3>5. \A w \in V : <<s, w>> \in Rel <=> w = v
      BY <3>3, <3>4
    <3> QED BY <3>5
  <2> QED BY <2>1, <2>2
<1>4. One = S
  <2>1. One \in SUBSET S
    OBVIOUS
  <2> HIDE DEF One
  <2> QED BY <1>3, <2>1
<1> DEFINE f == [s \in S |-> CHOOSE v \in V : <<s, v>> \in Rel]
<1>5. ASSUME NEW s \in S PROVE f[s] \in V /\ \A w \in V : <<s, w>> \in Rel <=> w = f[s]
  <2>1. PICK v \in V : \A w \in V : <<s, w>> \in Rel <=> w = v
    BY <1>4
  <2>2. f[s] \in V /\ <<s, f[s]>> \in Rel
    BY <2>1
  <2> QED BY <2>1, <2>2
<1>6. f \in [S -> V]
  BY <1>5
<1> HIDE DEF f, One
<1>7. ASSUME NEW s \in S PROVE f[s] = IF s \in E THEN final[s] ELSE f[next[s]]
  <2>1. CASE s \in E
    BY <1>1, <1>5, <2>1
  <2>2. CASE s \notin E
    <3>1. next[s] \in S
      OBVIOUS
    <3>2. <<next[s], f[next[s]]>> \in Rel /\ f[next[s]] \in V
      BY <1>5, <3>1
    <3>3. <<s, f[next[s]]>> \in Rel
      BY <1>1, <2>2, <3>2
    <3> QED BY <1>5, <2>2, <3>2, <3>3
  <2> QED BY <2>1, <2>2
<1>8. Follows(f, S, E, final, next)
  BY <1>7 DEF Follows
<1> QED BY <1>6, <1>8

-----------------------------------------------------------------------------
(***************************************************************************)
(* A pass of Wirth's method.                                               *)
(***************************************************************************)

\* b is a with its elements from low on, of n, in another order: p[i] is where the
\* element at i was, and q where an element goes.
Moved(p, q, a, b, low, n) ==
  /\ p \in [0 .. n - 1 -> 0 .. n - 1] /\ q \in [0 .. n - 1 -> 0 .. n - 1]
  /\ \A i \in 0 .. n - 1 : p[q[i]] = i /\ q[p[i]] = i
  /\ \A i \in 0 .. n - 1 : b[i] = a[p[i]]
  /\ \A i \in 0 .. n - 1 : i < low => p[i] = i

Rearranged(a, b, low, n) == \E p, q : Moved(p, q, a, b, low, n)

\* What is left as it is is rearranged.
LEMMA RearrangedNot ==
  ASSUME NEW a, NEW n \in Nat, NEW low \in Nat
  PROVE  Rearranged(a, a, low, n)
<1> DEFINE p == [i \in 0 .. n - 1 |-> i]
<1>1. Moved(p, p, a, a, low, n)
  BY DEF Moved
<1> HIDE DEF p
<1> QED BY <1>1 DEF Rearranged

\* Rearranging twice is rearranging.
LEMMA RearrangedTwice ==
  ASSUME NEW n \in Nat, NEW low \in Nat, NEW a, NEW b, NEW c,
         Rearranged(a, b, low, n), Rearranged(b, c, low, n)
  PROVE  Rearranged(a, c, low, n)
<1> DEFINE I == 0 .. n - 1
<1>1. PICK p1, q1 : Moved(p1, q1, a, b, low, n)
  BY DEF Rearranged
<1>2. PICK p2, q2 : Moved(p2, q2, b, c, low, n)
  BY DEF Rearranged
<1> DEFINE p == [i \in I |-> p1[p2[i]]]
           q == [i \in I |-> q2[q1[i]]]
<1>3. p \in [I -> I] /\ q \in [I -> I]
  BY <1>1, <1>2 DEF Moved
<1>4. ASSUME NEW i \in I
      PROVE  p[q[i]] = i /\ q[p[i]] = i /\ c[i] = a[p[i]] /\ (i < low => p[i] = i)
  <2>1. p2[i] \in I /\ q1[i] \in I /\ p1[p2[i]] \in I /\ q2[q1[i]] \in I
    BY <1>1, <1>2 DEF Moved
  <2>2. p[q[i]] = p1[p2[q2[q1[i]]]] /\ q[p[i]] = q2[q1[p1[p2[i]]]]
    BY <2>1
  <2>3. p2[q2[q1[i]]] = q1[i] /\ q1[p1[p2[i]]] = p2[i]
    BY <1>1, <1>2, <2>1 DEF Moved
  <2>4. p[q[i]] = i /\ q[p[i]] = i
    BY ZenonT(60), <1>1, <1>2, <2>2, <2>3 DEF Moved
  <2>5. c[i] = a[p[i]]
    BY <1>1, <1>2, <2>1 DEF Moved
  <2>6. i < low => p[i] = i
    BY <1>1, <1>2 DEF Moved
  <2> QED BY <2>4, <2>5, <2>6
<1> HIDE DEF p, q
<1>5. Moved(p, q, a, c, low, n)
  BY <1>3, <1>4 DEF Moved
<1> QED BY <1>5 DEF Rearranged

\* Exchanging two elements is rearranging.
LEMMA RearrangedSwap ==
  ASSUME NEW n \in Nat, NEW low \in Nat, NEW a \in [0 .. n - 1 -> 0 .. N - 1],
         NEW i \in low .. n - 1, NEW j \in low .. n - 1
  PROVE  /\ Swap(a, i, j) \in [0 .. n - 1 -> 0 .. N - 1]
         /\ Swap(a, i, j)[i] = a[j] /\ Swap(a, i, j)[j] = a[i]
         /\ \A k \in 0 .. n - 1 : k # i /\ k # j => Swap(a, i, j)[k] = a[k]
         /\ Rearranged(a, Swap(a, i, j), low, n)
<1> DEFINE I == 0 .. n - 1
           p == [k \in I |-> IF k = j THEN i ELSE IF k = i THEN j ELSE k]
<1>1. i \in I /\ j \in I
  OBVIOUS
<1>2. p \in [I -> I]
  BY <1>1
<1>3. /\ Swap(a, i, j) \in [I -> 0 .. N - 1]
      /\ \A k \in I : Swap(a, i, j)[k] = IF k = j THEN a[i] ELSE IF k = i THEN a[j] ELSE a[k]
  BY <1>1 DEF Swap
<1>4. ASSUME NEW k \in I
      PROVE  p[p[k]] = k /\ Swap(a, i, j)[k] = a[p[k]] /\ (k < low => p[k] = k)
  <2>1. p[p[k]] = k
    BY <1>1
  <2>2. Swap(a, i, j)[k] = a[p[k]]
    BY <1>3
  <2>3. k < low => p[k] = k
    OBVIOUS
  <2> QED BY <2>1, <2>2, <2>3
<1> HIDE DEF p
<1>5. Moved(p, p, a, Swap(a, i, j), low, n)
  BY <1>2, <1>4 DEF Moved
<1> QED BY <1>3, <1>5 DEF Rearranged

\* The position where l stops exists, and is as StopUp says.
LEMMA UpStops ==
  ASSUME NEW n \in Nat, NEW arr, NEW l \in 0 .. n, NEW onLeft
  PROVE  LET up == StopUp(arr, l, n, onLeft)
         IN  /\ up \in l .. n
             /\ up < n => arr[up] \notin onLeft
             /\ \A j \in l .. up - 1 : arr[j] \in onLeft
<1> DEFINE X == {i \in l .. n : i = n \/ arr[i] \notin onLeft}
<1>1. n \in X /\ X \subseteq Int
  OBVIOUS
<1>2. IsFiniteSet(X)
  <2>1. X \in SUBSET (l .. n) /\ IsFiniteSet(l .. n)
    BY FS_Interval
  <2> QED BY <2>1, FS_Subset
<1>3. PICK i \in X : \A j \in X : i <= j
  <2> HIDE DEF X
  <2> QED BY <1>1, <1>2, Least
<1>4. i \in l .. n /\ (i < n => arr[i] \notin onLeft)
  OBVIOUS
<1>5. \A j \in l .. i - 1 : arr[j] \in onLeft
  <2> TAKE j \in l .. i - 1
  <2>1. j \in l .. n /\ j # n /\ ~(i <= j)
    OBVIOUS
  <2>2. j \notin X
    BY <1>3, <2>1
  <2> QED BY <2>1, <2>2
<1> QED BY <1>4, <1>5 DEF StopUp

\* The same for r.
LEMMA DownStops ==
  ASSUME NEW n \in Nat, NEW arr, NEW r \in -1 .. n - 1, NEW bound \in Nat, NEW onRight
  PROVE  LET down == StopDown(arr, r, bound, onRight)
         IN  /\ down \in -1 .. r
             /\ down >= bound => arr[down] \notin onRight
             /\ \A j \in down + 1 .. r : j >= bound /\ arr[j] \in onRight
<1> DEFINE X == {i \in -1 .. r : i < bound \/ arr[i] \notin onRight}
<1>1. -1 \in X /\ X \subseteq Int
  OBVIOUS
<1>2. IsFiniteSet(X)
  <2>1. X \in SUBSET (-1 .. r) /\ IsFiniteSet(-1 .. r)
    BY FS_Interval
  <2> QED BY <2>1, FS_Subset
<1>3. PICK i \in X : \A j \in X : j <= i
  <2> HIDE DEF X
  <2> QED BY <1>1, <1>2, Greatest
<1>4. i \in -1 .. r /\ (i >= bound /\ i >= 0 => arr[i] \notin onRight)
  OBVIOUS
<1>5. \A j \in i + 1 .. r : j >= bound /\ arr[j] \in onRight
  <2> TAKE j \in i + 1 .. r
  <2>1. j \in -1 .. r /\ ~(j <= i)
    OBVIOUS
  <2>2. j \notin X
    BY <1>3, <2>1
  <2> QED BY <2>1, <2>2
<1>6. \A k \in -1 .. r : k >= bound => k >= 0
  OBVIOUS
<1> QED BY <1>4, <1>5, <1>6 DEF StopDown

PassFix(f, n, bound, onLeft, onRight) ==
  f = [s \in PassState(n) |->
        LET up   == StopUp(s.arr, s.l, n, onLeft)
            down == StopDown(s.arr, s.r, bound, onRight)
        IN  IF up > down THEN [arr |-> s.arr, l |-> up, r |-> down]
            ELSE f[[arr |-> Swap(s.arr, up, down), l |-> up + 1, r |-> down - 1]]]

LEMMA PassIsFix ==
  ASSUME NEW arr, NEW low, NEW n, NEW bound, NEW onLeft, NEW onRight
  PROVE  Pass(arr, low, n, bound, onLeft, onRight)
           = (CHOOSE f : PassFix(f, n, bound, onLeft, onRight))[[arr |-> arr, l |-> low, r |-> n - 1]]
  BY DEF Pass, PassFix

\* What holds of a state whenever the pass ends there or it holds of the next one
\* holds of every state, since l moves up.
LEMMA PassInduction ==
  ASSUME NEW n \in Nat, NEW E, NEW next \in [PassState(n) -> PassState(n)],
         \A s \in PassState(n) : s \notin E => next[s].l > s.l,
         NEW T \in SUBSET PassState(n),
         \A s \in PassState(n) : s \in E \/ next[s] \in T => s \in T
  PROVE  T = PassState(n)
<1> DEFINE S == PassState(n)
           X == {s.l : s \in S \ T}
<1> SUFFICES ASSUME S \ T # {} PROVE FALSE
  OBVIOUS
<1>1. \A s \in S : s.l \in 0 .. n
  BY DEF PassState
<1>2. X \subseteq 0 .. n
  BY <1>1
<1>3. IsFiniteSet(X) /\ X \subseteq Int /\ X # {}
  <2>1. X \in SUBSET (0 .. n) /\ IsFiniteSet(0 .. n)
    BY <1>2, FS_Interval
  <2>2. X \subseteq Int /\ X # {}
    BY <1>2
  <2> HIDE DEF X
  <2> QED BY <2>1, <2>2, FS_Subset
<1>4. PICK x \in X : \A y \in X : y <= x
  <2> HIDE DEF X
  <2> QED BY <1>3, Greatest
<1>5. PICK s \in S \ T : x = s.l
  OBVIOUS
<1>6. s \notin E /\ next[s] \in S \ T
  OBVIOUS
<1>7. next[s].l \in X /\ next[s].l > s.l
  BY <1>6
<1>8. next[s].l \in Int /\ s.l \in Int
  BY <1>1, <1>6
<1> HIDE DEF X
<1> QED BY <1>4, <1>5, <1>7, <1>8

\* How a pass goes on from a state: where it ends, or the next one.
LEMMA PassStep ==
  ASSUME NEW n \in Nat, NEW bound \in Nat, NEW onLeft, NEW onRight, NEW s \in PassState(n)
  PROVE  LET up   == StopUp(s.arr, s.l, n, onLeft)
             down == StopDown(s.arr, s.r, bound, onRight)
             t    == [arr |-> Swap(s.arr, up, down), l |-> up + 1, r |-> down - 1]
         IN  /\ up \in s.l .. n /\ down \in -1 .. s.r
             /\ [arr |-> s.arr, l |-> up, r |-> down] \in PassState(n)
             /\ ~(up > down) => t \in PassState(n) /\ t.l > s.l
<1> DEFINE up   == StopUp(s.arr, s.l, n, onLeft)
           down == StopDown(s.arr, s.r, bound, onRight)
           t    == [arr |-> Swap(s.arr, up, down), l |-> up + 1, r |-> down - 1]
<1>1. s.arr \in [0 .. n - 1 -> 0 .. N - 1] /\ s.l \in 0 .. n /\ s.r \in -1 .. n - 1
  BY DEF PassState
<1>2. up \in s.l .. n /\ down \in -1 .. s.r
  BY <1>1, UpStops, DownStops
<1> HIDE DEF up, down
<1>3. up \in 0 .. n /\ down \in -1 .. n - 1 /\ up >= s.l
  BY <1>1, <1>2
<1>4. [arr |-> s.arr, l |-> up, r |-> down] \in PassState(n)
  BY <1>1, <1>3 DEF PassState
<1>5. ASSUME ~(up > down) PROVE t \in PassState(n) /\ t.l > s.l
  <2>1. up \in 0 .. n - 1 /\ down \in 0 .. n - 1 /\ 0 \in Nat
    BY <1>3, <1>5
  <2>2. Swap(s.arr, up, down) \in [0 .. n - 1 -> 0 .. N - 1]
    BY <1>1, <2>1, RearrangedSwap
  <2>3. up + 1 \in 0 .. n /\ down - 1 \in -1 .. n - 1 /\ up + 1 > s.l
    BY <1>1, <1>3, <2>1
  <2> QED BY <2>2, <2>3 DEF PassState
<1> QED BY <1>2, <1>4, <1>5 DEF up, down

LEMMA PassEquation ==
  ASSUME NEW n \in Nat, NEW bound \in Nat, NEW onLeft, NEW onRight
  PROVE  \E f : PassFix(f, n, bound, onLeft, onRight)
<1> DEFINE S       == PassState(n)
           up(s)   == StopUp(s.arr, s.l, n, onLeft)
           down(s) == StopDown(s.arr, s.r, bound, onRight)
           E       == {s \in S : up(s) > down(s)}
           end(s)  == [arr |-> s.arr, l |-> up(s), r |-> down(s)]
           then(s) == [arr |-> Swap(s.arr, up(s), down(s)), l |-> up(s) + 1, r |-> down(s) - 1]
           final   == [s \in S |-> end(s)]
           next    == [s \in S |-> IF s \in E THEN s ELSE then(s)]
<1>1. ASSUME NEW s \in S
      PROVE  end(s) \in S /\ (s \notin E => then(s) \in S /\ then(s).l > s.l)
  BY PassStep
<1> HIDE DEF end, then, E
<1>2. final \in [S -> S] /\ next \in [S -> S]
  BY <1>1
<1>3. \A s \in S : s \notin E => next[s].l > s.l
  BY <1>1
<1>4. \A s \in S : final[s] = end(s) /\ next[s] = IF s \in E THEN s ELSE then(s)
  OBVIOUS
<1> HIDE DEF final, next
<1>5. ASSUME NEW T \in SUBSET S, \A s \in S : s \in E \/ next[s] \in T => s \in T PROVE T = S
  BY <1>2, <1>3, <1>5, PassInduction
<1>6. PICK f \in [S -> S] : Follows(f, S, E, final, next)
  <2> HIDE DEF S
  <2> QED BY <1>2, <1>5, LoopComputes
<1>7. \A s \in S : f[s] = IF s \in E THEN end(s) ELSE f[then(s)]
  <2> TAKE s \in S
  <2> QED BY <1>4, <1>6 DEF Follows
<1>8. f = [s \in S |-> IF up(s) > down(s) THEN end(s) ELSE f[then(s)]]
  <2>1. \A s \in S : s \in E <=> up(s) > down(s)
    BY DEF E
  <2> QED BY <1>6, <1>7, <2>1
<1>9. PassFix(f, n, bound, onLeft, onRight)
  BY <1>8 DEF PassFix, end, then
<1> QED BY <1>9

\* What a pass has arranged when it is in state s: low .. l - 1 is on the left, and
\* what lies behind r on the right.
Arranged(s, low, n, onLeft, onRight) ==
  /\ low <= s.l /\ s.l - 1 <= s.r
  /\ \A j \in low .. s.l - 1 : s.arr[j] \in onLeft
  /\ \A j \in s.r + 1 .. n - 1 : s.arr[j] \in onRight

\* A pass puts the elements that may stay on the left before the others, where l
\* tells them apart, and r ends just below.
LEMMA PassSorts ==
  ASSUME NEW n \in Nat, NEW low \in 0 .. n, NEW arr \in [0 .. n - 1 -> 0 .. N - 1],
         NEW onLeft, NEW onRight, \A x \in 0 .. N - 1 : x \in onLeft <=> x \notin onRight
  PROVE  LET t == Pass(arr, low, n, low, onLeft, onRight)
         IN  /\ t \in PassState(n)
             /\ t.l \in low .. n /\ t.r = t.l - 1
             /\ \A j \in low .. t.l - 1 : t.arr[j] \in onLeft
             /\ \A j \in t.l .. n - 1 : t.arr[j] \in onRight
             /\ Rearranged(arr, t.arr, low, n)
<1> DEFINE S       == PassState(n)
           up(s)   == StopUp(s.arr, s.l, n, onLeft)
           down(s) == StopDown(s.arr, s.r, low, onRight)
           E       == {s \in S : up(s) > down(s)}
           end(s)  == [arr |-> s.arr, l |-> up(s), r |-> down(s)]
           then(s) == [arr |-> Swap(s.arr, up(s), down(s)), l |-> up(s) + 1, r |-> down(s) - 1]
           next    == [s \in S |-> IF s \in E THEN s ELSE then(s)]
           f       == CHOOSE g : PassFix(g, n, low, onLeft, onRight)
           Sorted(s, t) == /\ t \in S /\ t.l \in low .. n /\ t.r = t.l - 1
                           /\ \A j \in low .. t.l - 1 : t.arr[j] \in onLeft
                           /\ \A j \in t.l .. n - 1 : t.arr[j] \in onRight
                           /\ Rearranged(s.arr, t.arr, low, n)
           T       == {s \in S : Arranged(s, low, n, onLeft, onRight) => Sorted(s, f[s])}
<1>0. low \in Nat
  OBVIOUS
<1>1. ASSUME NEW s \in S
      PROVE  end(s) \in S /\ (s \notin E => then(s) \in S /\ then(s).l > s.l)
  BY <1>0, PassStep
<1>2. PassFix(f, n, low, onLeft, onRight)
  BY <1>0, PassEquation
<1> HIDE DEF f
<1>3. \A s \in S : f[s] = IF up(s) > down(s) THEN end(s) ELSE f[then(s)]
  BY <1>2 DEF PassFix
<1>4. ASSUME NEW s \in S
      PROVE  /\ s.arr \in [0 .. n - 1 -> 0 .. N - 1] /\ s.l \in 0 .. n /\ s.r \in -1 .. n - 1
             /\ up(s) \in s.l .. n
             /\ up(s) < n => s.arr[up(s)] \notin onLeft
             /\ \A j \in s.l .. up(s) - 1 : s.arr[j] \in onLeft
             /\ down(s) \in -1 .. s.r
             /\ down(s) >= low => s.arr[down(s)] \notin onRight
             /\ \A j \in down(s) + 1 .. s.r : j >= low /\ s.arr[j] \in onRight
  <2>1. s.arr \in [0 .. n - 1 -> 0 .. N - 1] /\ s.l \in 0 .. n /\ s.r \in -1 .. n - 1
    BY DEF PassState
  <2> QED BY ZenonT(60), <1>0, <2>1, UpStops, DownStops
<1>5. ASSUME NEW s \in S, Arranged(s, low, n, onLeft, onRight), up(s) > down(s)
      PROVE  Sorted(s, end(s))
  <2> DEFINE u == up(s)
             d == down(s)
  <2>1. /\ u \in s.l .. n /\ s.l \in 0 .. n /\ s.r \in -1 .. n - 1 /\ d \in -1 .. s.r /\ u > d
        /\ low <= s.l /\ s.l - 1 <= s.r
    BY <1>4, <1>5 DEF Arranged
  <2>2. \A j \in low .. u - 1 : s.arr[j] \in onLeft
    <3> TAKE j \in low .. u - 1
    <3>1. j \in low .. s.l - 1 \/ j \in s.l .. u - 1
      BY <2>1
    <3> QED BY <1>4, <1>5, <3>1 DEF Arranged
  <2>3. \A j \in d + 1 .. n - 1 : s.arr[j] \in onRight
    <3> TAKE j \in d + 1 .. n - 1
    <3>1. j \in d + 1 .. s.r \/ j \in s.r + 1 .. n - 1
      BY SMTT(60), <2>1
    <3> QED BY <1>4, <1>5, <3>1 DEF Arranged
  <2>4. d = u - 1
    <3> SUFFICES ASSUME d < u - 1 PROVE FALSE
      BY <2>1
    <3>1. u - 1 \in d + 1 .. n - 1
      BY <2>1
    <3>2. u - 1 >= low
      <4>1. CASE u - 1 <= s.r
        <5>1. u - 1 \in d + 1 .. s.r
          BY <2>1, <4>1
        <5> QED BY <1>4, <5>1
      <4>2. CASE u - 1 > s.r
        BY <2>1, <4>2
      <4> QED BY <2>1, <4>1, <4>2
    <3>3. u - 1 \in low .. u - 1
      BY <2>1, <3>2
    <3>4. s.arr[u - 1] \in onLeft /\ s.arr[u - 1] \in onRight
      BY <2>2, <2>3, <3>1, <3>3
    <3>5. s.arr[u - 1] \in 0 .. N - 1
      <4>1. u - 1 \in 0 .. n - 1
        BY <2>1, <3>1
      <4> QED BY <1>4, <4>1
    <3> QED BY <3>4, <3>5
  <2>5. Rearranged(s.arr, s.arr, low, n)
    BY <1>0, RearrangedNot
  <2>6. end(s) \in S
    BY <1>1
  <2>7. end(s).l = u /\ end(s).r = d /\ end(s).arr = s.arr
    OBVIOUS
  <2>8. u \in low .. n
    BY <2>1
  <2> HIDE DEF u, d
  <2>9. \A j \in u .. n - 1 : s.arr[j] \in onRight
    BY <2>1, <2>3, <2>4
  <2> HIDE DEF end
  <2> QED BY <2>2, <2>4, <2>5, <2>6, <2>7, <2>8, <2>9
<1>6. ASSUME NEW s \in S, Arranged(s, low, n, onLeft, onRight), ~(up(s) > down(s))
      PROVE  /\ Arranged(then(s), low, n, onLeft, onRight)
             /\ Rearranged(s.arr, then(s).arr, low, n)
  <2> DEFINE u == up(s)
             d == down(s)
             a == s.arr
             b == Swap(a, u, d)
  <2>1. /\ u \in s.l .. n /\ s.l \in 0 .. n /\ s.r \in -1 .. n - 1 /\ d \in -1 .. s.r /\ u <= d
        /\ low <= s.l /\ s.l - 1 <= s.r
    BY <1>4, <1>6 DEF Arranged
  <2>0. /\ \A j \in s.l .. u - 1 : s.arr[j] \in onLeft
        /\ \A j \in d + 1 .. s.r : s.arr[j] \in onRight
        /\ a[u] \notin onLeft \/ ~(u < n)
        /\ a[d] \notin onRight \/ ~(d >= low)
    BY <1>4
  <2> HIDE DEF u, d
  <2>2. u \in low .. n - 1 /\ d \in low .. n - 1
    BY SMTT(60), <2>1
  <2>3. a \in [0 .. n - 1 -> 0 .. N - 1]
    BY <1>4
  <2>4. /\ b[u] = a[d] /\ b[d] = a[u]
        /\ \A k \in 0 .. n - 1 : k # u /\ k # d => b[k] = a[k]
        /\ Rearranged(a, b, low, n)
    <3> HIDE DEF a
    <3>1. b[u] = a[d] /\ b[d] = a[u]
      BY <1>0, <2>2, <2>3 DEF Swap
    <3>2. \A k \in 0 .. n - 1 : k # u /\ k # d => b[k] = a[k]
      BY <1>0, <2>2, <2>3 DEF Swap
    <3>3. Rearranged(a, b, low, n)
      BY <1>0, <2>2, <2>3, RearrangedSwap
    <3> QED BY <3>1, <3>2, <3>3
  <2>5. a[u] \in onRight /\ a[d] \in onLeft
    <3>1. a[u] \notin onLeft /\ a[d] \notin onRight
      BY <2>0, <2>2
    <3>2. a[u] \in 0 .. N - 1 /\ a[d] \in 0 .. N - 1
      BY <2>2, <2>3
    <3> QED BY <3>1, <3>2
  <2>6. u # d
    <3>1. a[u] \in 0 .. N - 1
      BY <2>2, <2>3
    <3> QED BY <2>5, <3>1
  <2>7. \A j \in low .. u : b[j] \in onLeft
    <3> TAKE j \in low .. u
    <3>1. CASE j = u
      BY <2>2, <2>4, <2>5, <2>6, <3>1
    <3>2. CASE j # u
      <4>1. j \in low .. s.l - 1 \/ j \in s.l .. u - 1
        BY <2>1, <3>2
      <4>2. a[j] \in onLeft
        BY <1>6, <2>0, <4>1 DEF Arranged
      <4>3. j # d /\ j \in 0 .. n - 1
        BY <2>1, <2>2, <3>2
      <4> QED BY <2>4, <3>2, <4>2, <4>3
    <3> QED BY <3>1, <3>2
  <2>8. \A j \in d .. n - 1 : b[j] \in onRight
    <3> TAKE j \in d .. n - 1
    <3>1. CASE j = d
      BY <2>2, <2>4, <2>5, <3>1
    <3>2. CASE j # d
      <4>1. j \in d + 1 .. s.r \/ j \in s.r + 1 .. n - 1
        BY <2>1, <3>2
      <4>2. a[j] \in onRight
        BY <1>6, <2>0, <4>1 DEF Arranged
      <4>3. j # u /\ j \in 0 .. n - 1
        BY <2>1, <2>2, <3>2
      <4> QED BY <2>4, <3>2, <4>2, <4>3
    <3> QED BY <3>1, <3>2
  <2>9. then(s).l = u + 1 /\ then(s).r = d - 1 /\ then(s).arr = b
    BY DEF u, d
  <2> HIDE DEF then, b
  <2>10. low <= u + 1 /\ (u + 1) - 1 <= d - 1
    BY <2>1, <2>2, <2>6
  <2>11. (u + 1) - 1 = u /\ (d - 1) + 1 = d
    BY <2>1
  <2> QED BY <2>4, <2>7, <2>8, <2>9, <2>10, <2>11 DEF Arranged
<1>7. ASSUME NEW s \in S, s \in E \/ next[s] \in T PROVE s \in T
  <2> SUFFICES ASSUME Arranged(s, low, n, onLeft, onRight) PROVE Sorted(s, f[s])
    OBVIOUS
  <2>1. CASE up(s) > down(s)
    <3>1. f[s] = end(s)
      BY <1>3, <2>1
    <3> QED BY <1>5, <2>1, <3>1
  <2>2. CASE ~(up(s) > down(s))
    <3>1. f[s] = f[then(s)] /\ next[s] = then(s) /\ then(s) \in T
      BY <1>3, <1>7, <2>2
    <3>2. /\ Arranged(then(s), low, n, onLeft, onRight)
          /\ Rearranged(s.arr, then(s).arr, low, n)
      BY <1>6, <2>2
    <3>3. Sorted(then(s), f[then(s)])
      BY <3>1, <3>2
    <3> HIDE DEF then
    <3>4. Rearranged(s.arr, f[then(s)].arr, low, n)
      BY <1>0, <3>2, <3>3, RearrangedTwice
    <3> QED BY <3>1, <3>3, <3>4
  <2> QED BY <2>1, <2>2
<1>8. T = S
  <2>1. next \in [S -> S]
    BY <1>1
  <2>2. \A s \in S : s \notin E => next[s].l > s.l
    BY <1>1
  <2>3. T \in SUBSET S
    OBVIOUS
  <2> HIDE DEF next, T, E
  <2> QED BY <1>7, <2>1, <2>2, <2>3, PassInduction
<1> DEFINE s0 == [arr |-> arr, l |-> low, r |-> n - 1]
<1>9. s0 \in S /\ Arranged(s0, low, n, onLeft, onRight)
  BY DEF PassState, Arranged
<1>10. Sorted(s0, f[s0])
  BY <1>8, <1>9
<1>11. Pass(arr, low, n, low, onLeft, onRight) = f[s0]
  BY PassIsFix DEF f
<1>12. s0.arr = arr
  OBVIOUS
<1> HIDE DEF s0
<1> QED BY <1>10, <1>11, <1>12

-----------------------------------------------------------------------------
(***************************************************************************)
(* The split.                                                              *)
(***************************************************************************)

LEMMA Sizes == N \in Nat \ {0} /\ D \in Nat \ {0} /\ Dims = 1 .. D
  BY KdTreeAssumption DEF Dims

\* The arrays and the box that all calls share.
ArraysOK ==
  /\ data_points \in [0 .. N - 1 -> Point]
  /\ index_arr \in [0 .. N - 1 -> 0 .. N - 1]
  /\ bnd_lo \in Point /\ bnd_hi \in Point

\* A longest edge exists.
LEMMA LongestEdgeIs == ArraysOK => LongestEdge \in Dims
<1> SUFFICES ASSUME ArraysOK PROVE LongestEdge \in Dims
  OBVIOUS
<1> DEFINE w(d) == bnd_hi[d] - bnd_lo[d]
           W == {w(d) : d \in Dims}
<1>1. \A d \in Dims : w(d) \in Int
  BY DEF ArraysOK, Point
<1>2. IsFiniteSet(Dims) /\ Dims # {} /\ Dims \subseteq Int
  <2>1. IsFiniteSet(1 .. D)
    BY Sizes, FS_Interval
  <2>2. 1 \in 1 .. D /\ 1 .. D \subseteq Int
    BY Sizes
  <2> QED BY <2>1, <2>2, Sizes
<1>3. IsFiniteSet(W) /\ W # {} /\ W \subseteq Int
  <2> DEFINE g == [d \in Dims |-> w(d)]
  <2>1. g \in Surjection(Dims, W)
    BY DEF Surjection
  <2>2. IsFiniteSet(W)
    <3> HIDE DEF g, W
    <3> QED BY <1>2, <2>1, FS_Surjection
  <2> QED BY <1>1, <1>2, <2>2
<1>4. PICK m \in W : \A x \in W : x <= m
  <2> HIDE DEF W
  <2> QED BY <1>3, Greatest
<1> DEFINE L == {d \in Dims : w(d) = m}
<1>5. IsFiniteSet(L) /\ L # {} /\ L \subseteq Int
  <2>1. L \in SUBSET Dims /\ L # {} /\ L \subseteq Int
    BY <1>2
  <2> HIDE DEF L
  <2> QED BY <1>2, <2>1, FS_Subset
<1>6. PICK d \in L : \A e \in L : d <= e
  <2> HIDE DEF L
  <2> QED BY <1>5, Least
<1>7. d \in Dims /\ \A e \in Dims : w(e) < w(d) \/ (w(e) = w(d) /\ e >= d)
  <2>1. d \in Dims /\ w(d) = m /\ d \in Int
    BY <1>2
  <2>2. ASSUME NEW e \in Dims PROVE w(e) < w(d) \/ (w(e) = w(d) /\ e >= d)
    <3>1. w(e) \in Int /\ w(d) \in Int /\ w(e) <= w(d) /\ e \in Int
      BY <1>1, <1>2, <1>4, <2>1
    <3>2. w(e) = w(d) => e >= d
      BY <1>6, <2>1, <3>1
    <3>3. w(e) < w(d) \/ w(e) = w(d)
      BY <3>1
    <3> QED BY <3>2, <3>3
  <2> QED BY <2>1, <2>2
<1> QED BY <1>7 DEF LongestEdge

\* The least and the greatest coordinate of a range are coordinates of it.
LEMMA MinMax ==
  ASSUME ArraysOK, NEW n \in Nat \ {0}, NEW base \in Nat, base + n <= N, NEW d \in Dims
  PROVE  LET found == find_min_max(base, n, d)
             key(i) == data_points[index_arr[base + i]][d]
         IN  /\ found.min \in Int /\ found.max \in Int
             /\ \A i \in 0 .. n - 1 : found.min <= key(i) /\ key(i) <= found.max
             /\ \E i \in 0 .. n - 1 : key(i) = found.min
             /\ \E i \in 0 .. n - 1 : key(i) = found.max
<1> DEFINE I == 0 .. n - 1
           key(i) == data_points[index_arr[base + i]][d]
           C == Coordinates(base, n, d)
<1>1. \A i \in I : key(i) \in Int
  <2> TAKE i \in I
  <2>1. base + i \in 0 .. N - 1
    BY Sizes
  <2> QED BY <2>1 DEF ArraysOK, Point
<1>2. C = {key(i) : i \in I}
  BY DEF Coordinates
<1>3. IsFiniteSet(C) /\ C # {} /\ C \subseteq Int
  <2> DEFINE g == [i \in I |-> key(i)]
  <2>1. g \in Surjection(I, C)
    BY <1>2 DEF Surjection
  <2>2. IsFiniteSet(I) /\ 0 \in I
    BY FS_Interval
  <2>3. IsFiniteSet(C)
    <3> HIDE DEF g, C, I
    <3> QED BY <2>1, <2>2, FS_Surjection
  <2> QED BY <1>1, <1>2, <2>2, <2>3
<1> HIDE DEF C
<1>4. Max(C) \in C /\ \A y \in C : Max(C) >= y
  <2>1. \E x \in C : \A y \in C : y <= x
    BY <1>3, Greatest
  <2>2. \E x \in C : \A y \in C : x >= y
    BY <1>3, <2>1
  <2> QED BY <2>2 DEF Max
<1>5. Min(C) \in C /\ \A y \in C : Min(C) <= y
  <2>1. \E x \in C : \A y \in C : x <= y
    BY <1>3, Least
  <2> QED BY <2>1 DEF Min
<1>6. find_min_max(base, n, d) = [min |-> Min(C), max |-> Max(C)]
  BY DEF find_min_max, C
<1>7. \A i \in I : key(i) \in C
  BY <1>2
<1>8. (\E i \in I : key(i) = Min(C)) /\ \E i \in I : key(i) = Max(C)
  BY <1>2, <1>4, <1>5
<1>9. Min(C) \in Int /\ Max(C) \in Int
  BY <1>3, <1>4, <1>5
<1>10. \A i \in I : Min(C) <= key(i) /\ key(i) <= Max(C)
  BY <1>1, <1>4, <1>5, <1>7, <1>9
<1> HIDE DEF key
<1> QED BY <1>6, <1>8, <1>9, <1>10 DEF key

\* What a split gives.
SplitOf(s, base, n) ==
  /\ s.arr \in [0 .. n - 1 -> 0 .. N - 1] /\ s.cdim \in Dims /\ s.cval \in Int
  /\ s.n_lo \in 1 .. n - 1
  /\ s.lowest >= 0
  /\ \A i \in 0 .. n - 1 : IF i < s.n_lo THEN data_points[s.arr[i]][s.cdim] <= s.cval
                                         ELSE data_points[s.arr[i]][s.cdim] >= s.cval
  /\ Rearranged([i \in 0 .. n - 1 |-> index_arr[base + i]], s.arr, 0, n)

\* br1 elements lie below the threshold, and those that follow up to br2 on it.
LEMMA Counts ==
  ASSUME NEW n \in Nat, n > 1, NEW key \in [0 .. n - 1 -> Int],
         NEW ideal \in Int, NEW found, found.min \in Int, found.max \in Int,
         NEW t \in Int, t = Threshold(ideal, found),
         \A i \in 0 .. n - 1 : found.min <= key[i] /\ key[i] <= found.max,
         \E i \in 0 .. n - 1 : key[i] = found.min, \E i \in 0 .. n - 1 : key[i] = found.max,
         NEW br1 \in 0 .. n, NEW br2 \in br1 .. n,
         \A i \in 0 .. br1 - 1 : key[i] < t,
         \A i \in br1 .. br2 - 1 : key[i] = t,
         \A i \in br2 .. n - 1 : key[i] > t
  PROVE  LET k == LeftCount(ideal, found, br1, br2, n)
         IN  /\ k \in 1 .. n - 1 /\ br2 >= 1
             /\ \A i \in 0 .. n - 1 : IF i < k THEN key[i] <= t ELSE key[i] >= t
<1> DEFINE k == LeftCount(ideal, found, br1, br2, n)
           half == n \div 2
<1>1. found.min <= t /\ t <= found.max
  BY DEF Threshold
<1>2. br1 <= n - 1
  <2>1. PICK i \in 0 .. n - 1 : key[i] = found.max
    OBVIOUS
  <2>2. ~(i \in 0 .. br1 - 1)
    BY <1>1, <2>1
  <2> QED BY <2>2
<1>3. br2 >= 1
  <2>1. PICK i \in 0 .. n - 1 : key[i] = found.min
    OBVIOUS
  <2>2. ~(i \in br2 .. n - 1)
    BY <1>1, <2>1
  <2> QED BY <2>2
<1>4. half \in 1 .. n - 1
  OBVIOUS
<1>5. ASSUME NEW i \in 0 .. n - 1
      PROVE  (i < br2 => key[i] <= t) /\ (i >= br1 => key[i] >= t)
  <2>1. i \in 0 .. br1 - 1 \/ i \in br1 .. br2 - 1 \/ i \in br2 .. n - 1
    OBVIOUS
  <2> QED BY <2>1
<1> HIDE DEF half
<1>6. CASE ideal < found.min
  <2>1. k = 1 /\ t = found.min
    BY <1>6 DEF LeftCount, Threshold
  <2> HIDE DEF k
  <2>2. ASSUME NEW i \in 0 .. n - 1 PROVE IF i < k THEN key[i] <= t ELSE key[i] >= t
    <3>1. found.min <= key[i] /\ key[i] <= found.max /\ key[i] \in Int
      OBVIOUS
    <3>2. i < k => i < br2
      BY <1>3, <2>1
    <3>3. (i < k => key[i] <= t) /\ (~(i < k) => key[i] >= t)
      BY <1>5, <2>1, <3>1, <3>2
    <3> QED BY <3>3
  <2> QED BY <1>3, <2>1, <2>2 DEF k
<1>7. CASE ~(ideal < found.min) /\ ideal > found.max
  <2>1. k = n - 1 /\ t = found.max
    BY <1>7 DEF LeftCount, Threshold
  <2> HIDE DEF k
  <2>2. ASSUME NEW i \in 0 .. n - 1 PROVE IF i < k THEN key[i] <= t ELSE key[i] >= t
    <3>1. found.min <= key[i] /\ key[i] <= found.max /\ key[i] \in Int
      OBVIOUS
    <3>2. ~(i < k) => i >= br1
      BY <1>2, <2>1
    <3>3. (i < k => key[i] <= t) /\ (~(i < k) => key[i] >= t)
      BY <1>5, <2>1, <3>1, <3>2
    <3> QED BY <3>3
  <2> QED BY <1>3, <2>1, <2>2 DEF k
<1>8. CASE ~(ideal < found.min) /\ ~(ideal > found.max)
  <2>1. k = IF br1 > half THEN br1 ELSE IF br2 < half THEN br2 ELSE half
    BY <1>8 DEF LeftCount, half
  <2> HIDE DEF k
  <2>2. k \in 1 .. n - 1 /\ br1 <= k /\ k <= br2
    BY <1>2, <1>3, <1>4, <2>1
  <2>3. \A i \in 0 .. n - 1 : IF i < k THEN key[i] <= t ELSE key[i] >= t
    BY <1>5, <2>2
  <2> QED BY <1>3, <2>2, <2>3 DEF k
<1> QED BY <1>6, <1>7, <1>8

\* What a rearrangement of arr[low ..] says of a higher part.
LEMMA MovedAbove ==
  ASSUME NEW n \in Nat, NEW low \in Nat, NEW a, NEW b, NEW p, NEW q, Moved(p, q, a, b, low, n)
  PROVE  \A i \in 0 .. n - 1 : p[i] \in 0 .. n - 1 /\ q[i] \in 0 .. n - 1 /\ (i >= low => p[i] >= low)
<1>1. \A i \in 0 .. n - 1 : p[i] \in 0 .. n - 1 /\ q[i] \in 0 .. n - 1
  BY DEF Moved
<1>2. ASSUME NEW i \in 0 .. n - 1, i >= low, p[i] < low PROVE FALSE
  <2>1. p[p[i]] = p[i] /\ q[p[p[i]]] = p[i] /\ q[p[i]] = i
    BY <1>1, <1>2 DEF Moved
  <2>2. p[i] = i
    BY <2>1
  <2> QED BY <1>2, <2>2
<1>3. \A i \in 0 .. n - 1 : i >= low => p[i] >= low
  BY <1>1, <1>2
<1> QED BY <1>1, <1>3

LEMMA RearrangedBelow ==
  ASSUME NEW n \in Nat, NEW low \in Nat, NEW a, NEW b, Rearranged(a, b, low, n)
  PROVE  Rearranged(a, b, 0, n)
<1>1. PICK p, q : Moved(p, q, a, b, low, n)
  BY DEF Rearranged
<1>2. Moved(p, q, a, b, 0, n)
  BY <1>1 DEF Moved
<1> QED BY <1>2 DEF Rearranged

LEMMA HalfIsInt == \A x \in Int : Half(x) \in Int
  BY DEF Half

\* The two passes of a split and the count of the left part.
LEMMA SplitIs ==
  ASSUME ArraysOK, NEW n \in 2 .. N, NEW base \in Nat, base + n <= N
  PROVE  SplitOf(split_bounding_box(base, n), base, n)
<1> DEFINE dim       == LongestEdge
           ideal     == Half(bnd_hi[dim] + bnd_lo[dim])
           found     == find_min_max(base, n, dim)
           t         == Threshold(ideal, found)
           key(x)    == data_points[x][dim]
           all       == 0 .. N - 1
           below     == {x \in all : key(x) < t}
           above     == {x \in all : key(x) > t}
           range     == [i \in 0 .. n - 1 |-> index_arr[base + i]]
           lower     == Pass(range, 0, n, 0, below, all \ below)
           mid       == lower.arr
           br1       == lower.l
           upper     == Pass(mid, br1, n, br1, all \ above, above)
           k         == LeftCount(ideal, found, br1, upper.l, n)
<1>1. split_bounding_box(base, n)
        = [arr |-> upper.arr, cdim |-> dim, cval |-> t, lowest |-> upper.r, n_lo |-> k]
  BY DEF split_bounding_box
<1>2. dim \in Dims
  BY LongestEdgeIs
<1>3. n \in Nat /\ n > 1 /\ n \in Nat \ {0}
  BY Sizes
<1> HIDE DEF dim
<1>4. ideal \in Int
  <2>1. bnd_hi[dim] \in Int /\ bnd_lo[dim] \in Int
    BY <1>2 DEF ArraysOK, Point
  <2>2. bnd_hi[dim] + bnd_lo[dim] \in Int
    BY <2>1
  <2> QED BY <2>2, HalfIsInt
<1>5. /\ found.min \in Int /\ found.max \in Int
      /\ \A i \in 0 .. n - 1 : found.min <= key(index_arr[base + i]) /\ key(index_arr[base + i]) <= found.max
      /\ \E i \in 0 .. n - 1 : key(index_arr[base + i]) = found.min
      /\ \E i \in 0 .. n - 1 : key(index_arr[base + i]) = found.max
  <2> HIDE DEF key
  <2> QED BY <1>2, <1>3, MinMax DEF key
<1> HIDE DEF ideal, found
<1>7. t \in Int
  BY <1>4, <1>5 DEF Threshold
<1>8. \A x \in all : key(x) \in Int
  BY <1>2 DEF ArraysOK, Point
<1> HIDE DEF t
<1>9. range \in [0 .. n - 1 -> all]
  <2>1. \A i \in 0 .. n - 1 : base + i \in all
    BY Sizes
  <2> QED BY <2>1 DEF ArraysOK
<1> HIDE DEF key
<1>10. (\A x \in all : x \in below <=> x \notin all \ below) /\ \A x \in all : x \in all \ above <=> x \notin above
  OBVIOUS
<1> HIDE DEF range
<1>11. /\ lower \in PassState(n) /\ lower.l \in 0 .. n
       /\ \A j \in 0 .. lower.l - 1 : lower.arr[j] \in below
       /\ \A j \in lower.l .. n - 1 : lower.arr[j] \in all \ below
       /\ Rearranged(range, lower.arr, 0, n)
  <2> HIDE DEF below, all
  <2>1. \A x \in 0 .. N - 1 : x \in below <=> x \notin all \ below
    BY <1>10 DEF all
  <2>2. range \in [0 .. n - 1 -> 0 .. N - 1]
    BY <1>9 DEF all
  <2>3. 0 \in 0 .. n
    BY <1>3
  <2> QED BY <1>3, <2>1, <2>2, <2>3, PassSorts
<1>12. /\ mid \in [0 .. n - 1 -> all] /\ br1 \in 0 .. n
       /\ \A j \in 0 .. br1 - 1 : mid[j] \in below
       /\ \A j \in br1 .. n - 1 : mid[j] \in all \ below
       /\ Rearranged(range, mid, 0, n)
  BY <1>11 DEF PassState
<1> HIDE DEF lower, mid, br1
<1>13. /\ upper \in PassState(n) /\ upper.l \in br1 .. n /\ upper.r = upper.l - 1
       /\ \A j \in br1 .. upper.l - 1 : upper.arr[j] \in all \ above
       /\ \A j \in upper.l .. n - 1 : upper.arr[j] \in above
       /\ Rearranged(mid, upper.arr, br1, n)
  <2> HIDE DEF above, all
  <2>1. \A x \in 0 .. N - 1 : x \in all \ above <=> x \notin above
    BY <1>10 DEF all
  <2>2. mid \in [0 .. n - 1 -> 0 .. N - 1]
    BY <1>12 DEF all
  <2> DEFINE left == all \ above
  <2>3. \A x \in 0 .. N - 1 : x \in left <=> x \notin above
    BY <2>1
  <2>4. br1 \in 0 .. n
    BY <1>12
  <2>5. upper = Pass(mid, br1, n, br1, left, above)
    OBVIOUS
  <2> HIDE DEF left, upper
  <2>6. /\ upper \in PassState(n) /\ upper.l \in br1 .. n /\ upper.r = upper.l - 1
        /\ \A j \in br1 .. upper.l - 1 : upper.arr[j] \in left
        /\ \A j \in upper.l .. n - 1 : upper.arr[j] \in above
        /\ Rearranged(mid, upper.arr, br1, n)
    BY SMTT(60), <1>3, <2>2, <2>3, <2>4, <2>5, PassSorts
  <2> QED BY <2>6 DEF left
<1>14. upper.arr \in [0 .. n - 1 -> all] /\ upper.l \in Int /\ br1 \in Nat
  <2>1. upper.arr \in [0 .. n - 1 -> all]
    BY <1>13 DEF PassState
  <2>2. upper.l \in Int /\ br1 \in Nat
    BY <1>3, <1>12, <1>13
  <2> QED BY <2>1, <2>2
<1> HIDE DEF upper
<1>15. /\ \A j \in 0 .. br1 - 1 : upper.arr[j] \in below
       /\ \A j \in br1 .. n - 1 : upper.arr[j] \in all \ below
  <2>1. PICK p, q : Moved(p, q, mid, upper.arr, br1, n)
    BY <1>13 DEF Rearranged
  <2>2. \A j \in 0 .. n - 1 : upper.arr[j] = mid[p[j]] /\ (j < br1 => p[j] = j) /\ (j >= br1 => p[j] >= br1)
    <3>1. \A j \in 0 .. n - 1 : upper.arr[j] = mid[p[j]] /\ (j < br1 => p[j] = j)
      BY <2>1 DEF Moved
    <3>2. \A j \in 0 .. n - 1 : j >= br1 => p[j] >= br1
      BY <1>3, <1>14, <2>1, MovedAbove
    <3> QED BY <3>1, <3>2
  <2> HIDE DEF below, all
  <2>3. ASSUME NEW j \in 0 .. br1 - 1 PROVE upper.arr[j] \in below
    <3>1. j \in 0 .. n - 1 /\ j < br1
      BY <1>12
    <3>2. upper.arr[j] = mid[j]
      BY <2>2, <3>1
    <3> QED BY <1>12, <3>2
  <2>4. ASSUME NEW j \in br1 .. n - 1 PROVE upper.arr[j] \in all \ below
    <3>1. j \in 0 .. n - 1 /\ j >= br1
      BY <1>12
    <3>2. upper.arr[j] = mid[p[j]] /\ p[j] >= br1 /\ p[j] \in 0 .. n - 1
      BY <2>1, <2>2, <3>1 DEF Moved
    <3>3. p[j] \in br1 .. n - 1
      BY <3>2, <1>12
    <3> QED BY <1>12, <3>2, <3>3
  <2> QED BY <2>3, <2>4
<1> DEFINE g == [i \in 0 .. n - 1 |-> key(upper.arr[i])]
<1>16. g \in [0 .. n - 1 -> Int]
  BY <1>8, <1>14
<1>17. Rearranged(range, upper.arr, 0, n)
  <2>1. Rearranged(mid, upper.arr, 0, n)
    BY <1>13, <1>14, RearrangedBelow
  <2>2. 0 \in Nat /\ n \in Nat
    BY <1>3
  <2> HIDE DEF all
  <2> QED BY <1>12, <2>1, <2>2, RearrangedTwice
<1>18. /\ \A i \in 0 .. n - 1 : found.min <= g[i] /\ g[i] <= found.max
       /\ \E i \in 0 .. n - 1 : g[i] = found.min
       /\ \E i \in 0 .. n - 1 : g[i] = found.max
  <2>1. PICK p, q : Moved(p, q, range, upper.arr, 0, n)
    BY <1>17 DEF Rearranged
  <2>2. \A j \in 0 .. n - 1 : /\ upper.arr[j] = range[p[j]] /\ p[q[j]] = j
                              /\ p[j] \in 0 .. n - 1 /\ q[j] \in 0 .. n - 1
    BY <2>1 DEF Moved
  <2>3. \A j \in 0 .. n - 1 : g[j] = key(index_arr[base + p[j]])
    BY <2>2 DEF range
  <2>4. \A j \in 0 .. n - 1 : g[q[j]] = key(index_arr[base + j])
    BY ZenonT(60), <2>2, <2>3
  <2> HIDE DEF g
  <2>5. ASSUME NEW i \in 0 .. n - 1 PROVE found.min <= g[i] /\ g[i] <= found.max
    BY <1>5, <2>2, <2>3
  <2>6. \A j \in 0 .. n - 1 : q[j] \in 0 .. n - 1 /\ g[q[j]] = key(index_arr[base + j])
    BY <2>2, <2>4
  <2>7. \E i \in 0 .. n - 1 : g[i] = found.min
    BY <1>5, <2>6
  <2>8. \E i \in 0 .. n - 1 : g[i] = found.max
    BY <1>5, <2>6
  <2> QED BY <2>5, <2>7, <2>8
<1>19. /\ \A i \in 0 .. br1 - 1 : g[i] < t
       /\ \A i \in br1 .. upper.l - 1 : g[i] = t
       /\ \A i \in upper.l .. n - 1 : g[i] > t
  <2>1. \A i \in 0 .. n - 1 : upper.arr[i] \in all /\ g[i] = key(upper.arr[i]) /\ g[i] \in Int
    BY <1>14, <1>16
  <2>2. ASSUME NEW i \in 0 .. br1 - 1 PROVE g[i] < t
    <3>1. i \in 0 .. n - 1
      BY <1>12
    <3> QED BY <1>15, <2>1, <3>1
  <2>3. ASSUME NEW i \in br1 .. upper.l - 1 PROVE g[i] = t
    <3>1. i \in 0 .. n - 1 /\ i \in br1 .. n - 1
      BY <1>12, <1>13
    <3>2. upper.arr[i] \in all \ below /\ upper.arr[i] \in all \ above
      BY <1>13, <1>15, <3>1
    <3>3. ~(g[i] < t) /\ ~(g[i] > t) /\ g[i] \in Int
      <4> HIDE DEF g
      <4> QED BY <2>1, <3>1, <3>2
    <3> HIDE DEF g
    <3> QED BY <1>7, <3>3
  <2>4. ASSUME NEW i \in upper.l .. n - 1 PROVE g[i] > t
    <3>1. i \in 0 .. n - 1
      BY <1>12, <1>13
    <3> QED BY <1>13, <2>1, <3>1
  <2> QED BY <2>2, <2>3, <2>4
<1>20. t = Threshold(ideal, found)
  BY DEF t
<1>21. k = LeftCount(ideal, found, br1, upper.l, n)
  BY DEF k
<1> HIDE DEF k, g, all, above, below
<1>22. /\ k \in 1 .. n - 1 /\ upper.l >= 1
       /\ \A i \in 0 .. n - 1 : IF i < k THEN g[i] <= t ELSE g[i] >= t
  <2>1. upper.l \in br1 .. n /\ br1 \in 0 .. n
    BY <1>12, <1>13
  <2>2. upper.l \in br1 .. n /\ n \in Nat /\ n > 1
    BY <1>3, <2>1
  <2> DEFINE br2 == upper.l
  <2>3. br2 \in br1 .. n /\ br1 \in 0 .. n
    BY <2>1
  <2>4. t = Threshold(ideal, found) /\ k = LeftCount(ideal, found, br1, br2, n)
    BY <1>20, <1>21
  <2>5. /\ \A i \in 0 .. br1 - 1 : g[i] < t
        /\ \A i \in br1 .. br2 - 1 : g[i] = t
        /\ \A i \in br2 .. n - 1 : g[i] > t
    BY <1>19
  <2>6. found.min \in Int /\ found.max \in Int
    BY <1>5
  <2> HIDE DEF br2
  <2>7. /\ k \in 1 .. n - 1 /\ br2 >= 1
        /\ \A i \in 0 .. n - 1 : IF i < k THEN g[i] <= t ELSE g[i] >= t
    BY <1>4, <1>7, <1>16, <1>18, <2>2, <2>3, <2>4, <2>5, <2>6, Counts
  <2> QED BY <2>7 DEF br2
<1>23. \A i \in 0 .. n - 1 : g[i] = data_points[upper.arr[i]][dim]
  BY DEF g, key
<1>24. upper.r >= 0
  BY <1>13, <1>14, <1>22
<1> DEFINE s == split_bounding_box(base, n)
<1>25. s.arr = upper.arr /\ s.cdim = dim /\ s.cval = t /\ s.lowest = upper.r /\ s.n_lo = k
  BY <1>1
<1> HIDE DEF s
<1>26. s.arr \in [0 .. n - 1 -> 0 .. N - 1] /\ s.cdim \in Dims /\ s.cval \in Int
  BY <1>2, <1>7, <1>14, <1>25 DEF all
<1>27. s.n_lo \in 1 .. n - 1 /\ s.lowest >= 0
  BY <1>22, <1>24, <1>25
<1>28. ASSUME NEW i \in 0 .. n - 1
       PROVE  IF i < s.n_lo THEN data_points[s.arr[i]][s.cdim] <= s.cval
                            ELSE data_points[s.arr[i]][s.cdim] >= s.cval
  BY <1>22, <1>23, <1>25
<1>29. Rearranged([i \in 0 .. n - 1 |-> index_arr[base + i]], s.arr, 0, n)
  BY <1>17, <1>25 DEF range
<1>30. SplitOf(s, base, n)
  BY <1>26, <1>27, <1>28, <1>29 DEF SplitOf
<1> QED BY <1>30 DEF s

-----------------------------------------------------------------------------
(***************************************************************************)
(* The stack of calls.                                                     *)
(***************************************************************************)

\* A call's record.
Frame == [pc : {"enter", "left", "right"}, base : 0 .. N - 1, n : 1 .. N, n_lo : 0 .. N,
          cdim : Dims, cval : Int, hv : Int, lv : Int, left : Nat]

FrameOK(c) == c.base + c.n <= N /\ (c.pc # "enter" => c.n_lo \in 1 .. c.n - 1)

\* The range of e lies in the part that the call c waits for.
Inside(c, e) ==
  IF c.pc = "left" THEN e.base >= c.base /\ e.base + e.n <= c.base + c.n_lo
  ELSE e.base >= c.base + c.n_lo /\ e.base + e.n <= c.base + c.n

\* Ranges within ranges.
LEMMA InsideTwice ==
  ASSUME NEW f \in Frame, NEW c \in Frame, NEW e \in Frame, FrameOK(c), c.pc # "enter",
         Inside(f, c), Inside(c, e)
  PROVE  Inside(f, e)
<1> DEFINE fb == f.base  fn == f.n  fl == f.n_lo
           cb == c.base  cn == c.n  cl == c.n_lo
           eb == e.base  en == e.n
<1>1. fb \in Int /\ fn \in Int /\ fl \in Int /\ cb \in Int /\ cn \in Int /\ eb \in Int /\ en \in Int
  BY DEF Frame
<1>2. cl \in 1 .. cn - 1
  BY DEF FrameOK
<1>3. (eb >= cb /\ eb + en <= cb + cl) \/ (eb >= cb + cl /\ eb + en <= cb + cn)
  BY DEF Inside
<1>4. IF f.pc = "left" THEN cb >= fb /\ cb + cn <= fb + fl ELSE cb >= fb + fl /\ cb + cn <= fb + fn
  BY DEF Inside
<1>5. (IF f.pc = "left" THEN eb >= fb /\ eb + en <= fb + fl ELSE eb >= fb + fl /\ eb + en <= fb + fn)
        => Inside(f, e)
  BY DEF Inside
<1> HIDE DEF fb, fn, fl, cb, cn, cl, eb, en
<1>6. eb >= cb /\ eb + en <= cb + cn
  BY <1>1, <1>2, <1>3
<1> QED BY <1>1, <1>4, <1>5, <1>6

\* Each call works on the part that the calls around it wait for.
Nested == \A i, j \in 1 .. Len(calls) : i < j => calls[i].pc # "enter" /\ Inside(calls[i], calls[j])

\* The calls and what they share.
CallsOK ==
  /\ ArraysOK
  /\ file \in Seq(Int)
  /\ calls \in Seq(Frame)
  /\ \A i \in 1 .. Len(calls) : FrameOK(calls[i])
  /\ Nested
  /\ phase \in {"read", "failed", "box", "build", "run", "delete"}
  /\ phase = "build" <=> calls # <<>>

\* What removing the innermost call leaves of the stack.
LEMMA Popped ==
  ASSUME NEW s \in Seq(Frame), s # <<>>
  PROVE  LET t == SubSeq(s, 1, Len(s) - 1)
         IN  /\ Len(s) \in Nat \ {0} /\ s[Len(s)] \in Frame
             /\ t \in Seq(Frame) /\ Len(t) = Len(s) - 1
             /\ \A i \in 1 .. Len(s) - 1 : t[i] = s[i]
<1>1. Len(s) \in Nat \ {0}
  OBVIOUS
<1>2. s[Len(s)] \in Frame
  BY <1>1
<1> DEFINE m == Len(s) - 1
           t == SubSeq(s, 1, m)
<1>3. m \in Nat /\ m <= Len(s)
  BY <1>1
<1> HIDE DEF m
<1>4. \A i \in 1 .. m : s[i] \in Frame
  BY <1>3
<1>5. t \in Seq(Frame) /\ Len(t) = m /\ \A i \in 1 .. m : t[i] = s[i]
  BY <1>3, <1>4
<1> QED BY <1>1, <1>2, <1>5 DEF m

Push(s, c, e) == SubSeq(s, 1, Len(s) - 1) \o <<c, e>>

\* What the stack is after a call has changed and made another.
LEMMA Pushed ==
  ASSUME NEW s \in Seq(Frame), s # <<>>, NEW c \in Frame, NEW e \in Frame
  PROVE  LET t == Push(s, c, e)
         IN  /\ t \in Seq(Frame) /\ Len(t) = Len(s) + 1 /\ t # <<>>
             /\ \A i \in 1 .. Len(s) - 1 : t[i] = s[i]
             /\ t[Len(s)] = c /\ t[Len(s) + 1] = e
<1> DEFINE o == SubSeq(s, 1, Len(s) - 1)
<1>1. /\ Len(s) \in Nat \ {0} /\ o \in Seq(Frame) /\ Len(o) = Len(s) - 1
      /\ \A i \in 1 .. Len(s) - 1 : o[i] = s[i]
  BY Popped
<1> HIDE DEF o
<1>2. <<c, e>> \in Seq(Frame) /\ Len(<<c, e>>) = 2
  OBVIOUS
<1>3. o \o <<c, e>> \in Seq(Frame) /\ Len(o \o <<c, e>>) = Len(s) + 1
  BY <1>1, <1>2
<1>4. /\ \A i \in 1 .. Len(s) - 1 : (o \o <<c, e>>)[i] = s[i]
      /\ (o \o <<c, e>>)[Len(s)] = c /\ (o \o <<c, e>>)[Len(s) + 1] = e
  <2>1. \A i \in 1 .. Len(s) + 1 : (o \o <<c, e>>)[i] = IF i <= Len(o) THEN o[i] ELSE <<c, e>>[i - Len(o)]
    BY <1>1, <1>2
  <2>2. \A i \in 1 .. Len(s) - 1 : i \in 1 .. Len(s) + 1 /\ i <= Len(o)
    BY <1>1
  <2>3. /\ Len(s) \in 1 .. Len(s) + 1 /\ ~(Len(s) <= Len(o)) /\ Len(s) - Len(o) = 1
        /\ Len(s) + 1 \in 1 .. Len(s) + 1 /\ ~(Len(s) + 1 <= Len(o)) /\ Len(s) + 1 - Len(o) = 2
    BY <1>1
  <2>4. <<c, e>>[1] = c /\ <<c, e>>[2] = e
    OBVIOUS
  <2>5. \A i \in 1 .. Len(s) - 1 : (o \o <<c, e>>)[i] = s[i]
    BY <1>1, <2>1, <2>2
  <2>6. (o \o <<c, e>>)[Len(s)] = <<c, e>>[1] /\ (o \o <<c, e>>)[Len(s) + 1] = <<c, e>>[2]
    BY <2>1, <2>3
  <2> QED BY <2>4, <2>5, <2>6
<1>5. o \o <<c, e>> # <<>>
  BY <1>1, <1>3
<1> QED BY <1>3, <1>4, <1>5 DEF o, Push

LEMMA CallIs ==
  ASSUME NEW base \in 0 .. N - 1, NEW n \in 1 .. N
  PROVE  Call(base, n) \in Frame
<1>1. 1 \in Dims /\ 0 \in Int /\ 0 \in 0 .. N /\ None \in Nat
  BY Sizes DEF None
<1> QED BY <1>1 DEF Call, Frame

\* The innermost call.
LEMMA TopIs ==
  ASSUME CallsOK, calls # <<>>
  PROVE  /\ Len(calls) \in Nat \ {0} /\ Top \in Frame /\ FrameOK(Top)
         /\ \A i \in 1 .. Len(calls) - 1 : calls[i].pc # "enter" /\ Inside(calls[i], Top)
<1>1. Len(calls) \in Nat \ {0} /\ Top \in Frame
  BY DEF CallsOK, Top
<1> QED BY <1>1 DEF CallsOK, Top, Nested

LEMMA OuterOK ==
  ASSUME CallsOK, calls # <<>>
  PROVE  /\ Outer \in Seq(Frame) /\ Len(Outer) = Len(calls) - 1 /\ Len(calls) \in Nat \ {0}
         /\ \A i \in 1 .. Len(Outer) : Outer[i] = calls[i] /\ i \in 1 .. Len(calls)
<1>1. calls \in Seq(Frame)
  BY DEF CallsOK
<1> QED BY <1>1, Popped DEF Outer

\* Pushing a call within the part that the caller waits for keeps the calls nested.
LEMMA PushedCalls ==
  ASSUME CallsOK, calls # <<>>, NEW c \in Frame, NEW e \in Frame, calls' = Outer \o <<c, e>>
  PROVE  /\ calls' \in Seq(Frame) /\ Len(calls') = Len(calls) + 1 /\ calls' # <<>>
         /\ \A i \in 1 .. Len(calls) - 1 : calls'[i] = calls[i]
         /\ calls'[Len(calls)] = c /\ calls'[Len(calls) + 1] = e
<1>1. calls \in Seq(Frame)
  BY DEF CallsOK
<1>2. calls' = Push(calls, c, e)
  BY DEF Outer, Push
<1> DEFINE t == Push(calls, c, e)
<1>3. /\ t \in Seq(Frame) /\ Len(t) = Len(calls) + 1 /\ t # <<>>
      /\ \A i \in 1 .. Len(calls) - 1 : t[i] = calls[i]
      /\ t[Len(calls)] = c /\ t[Len(calls) + 1] = e
  BY <1>1, Pushed, SMT
<1> QED BY <1>2, <1>3

\* A call ends: those around it stay as they were.
LEMMA ReturnCalls ==
  ASSUME CallsOK, calls # <<>>, phase = "build", NEW a, Return(a), ArraysOK', file' = file
  PROVE  CallsOK'
<1>1. calls' = Outer /\ phase' = (IF Outer = <<>> THEN "run" ELSE "build")
  BY DEF Return
<1>2. /\ Outer \in Seq(Frame) /\ Len(Outer) = Len(calls) - 1 /\ Len(calls) \in Nat \ {0}
      /\ \A i \in 1 .. Len(Outer) : Outer[i] = calls[i] /\ i \in 1 .. Len(calls)
  BY OuterOK
<1>3. calls' \in Seq(Frame) /\ \A i \in 1 .. Len(calls') : FrameOK(calls'[i])
  BY <1>1, <1>2 DEF CallsOK
<1>4. Nested'
  BY <1>1, <1>2 DEF CallsOK, Nested
<1>5. phase' \in {"build", "run"} /\ (phase' = "build" <=> calls' # <<>>)
  BY <1>1
<1> QED BY <1>3, <1>4, <1>5 DEF CallsOK

\* A call makes another.
LEMMA PushCalls ==
  ASSUME CallsOK, calls # <<>>, phase = "build", ArraysOK', file' = file, phase' = phase,
         NEW c \in Frame, NEW e \in Frame, FrameOK(c), FrameOK(e), c.pc # "enter", Inside(c, e),
         c.base = Top.base, c.n = Top.n,
         calls' = Outer \o <<c, e>>
  PROVE  CallsOK'
<1> DEFINE K == Len(calls)
<1>1. /\ calls' \in Seq(Frame) /\ Len(calls') = K + 1 /\ calls' # <<>>
      /\ \A i \in 1 .. K - 1 : calls'[i] = calls[i]
      /\ calls'[K] = c /\ calls'[K + 1] = e
  BY PushedCalls
<1>2. /\ K \in Nat \ {0} /\ Top \in Frame /\ FrameOK(Top)
      /\ \A i \in 1 .. K - 1 : calls[i].pc # "enter" /\ Inside(calls[i], Top)
  BY TopIs
<1>3. \A i \in 1 .. K + 1 : i \in 1 .. K - 1 \/ i = K \/ i = K + 1
  BY <1>2
<1>4. \A i \in 1 .. K - 1 : i \in 1 .. K /\ calls[i] \in Frame
  BY <1>2 DEF CallsOK
<1> HIDE DEF K
<1>5. \A i \in 1 .. Len(calls') : FrameOK(calls'[i])
  BY <1>1, <1>3, <1>4 DEF CallsOK, K
<1>6. ASSUME NEW i \in 1 .. K - 1 PROVE Inside(calls[i], c) /\ Inside(calls[i], e)
  <2>1. calls[i] \in Frame /\ Inside(calls[i], Top)
    BY <1>2, <1>4
  <2>2. Inside(calls[i], c)
    BY <2>1 DEF Inside
  <2> QED BY <2>1, <2>2, InsideTwice
<1>7. ASSUME NEW i \in 1 .. K + 1, NEW j \in 1 .. K + 1, i < j
      PROVE  calls'[i].pc # "enter" /\ Inside(calls'[i], calls'[j])
  <2>1. CASE j \in 1 .. K - 1
    <3>1. i \in 1 .. K - 1
      BY <1>2, <1>7, <2>1
    <3> QED BY <1>1, <1>4, <1>7, <2>1, <3>1 DEF CallsOK, Nested, K
  <2>2. CASE i \in 1 .. K - 1 /\ j \in {K, K + 1}
    BY <1>1, <1>2, <1>6, <2>2
  <2>3. CASE i = K /\ j = K + 1
    BY <1>1, <2>3
  <2>4. j \in 1 .. K - 1 \/ (i \in 1 .. K - 1 /\ j \in {K, K + 1}) \/ (i = K /\ j = K + 1)
    BY <1>2, <1>7
  <2> QED BY <2>1, <2>2, <2>3, <2>4
<1>8. Nested'
  BY <1>1, <1>7 DEF Nested
<1> QED BY <1>1, <1>5, <1>8 DEF CallsOK

\* The split of the range of the innermost call.
LEMMA TopSplit ==
  ASSUME CallsOK, phase = "build", Active("enter"), Top.n > 1
  PROVE  SplitOf(split_bounding_box(Top.base, Top.n), Top.base, Top.n)
<1>1. Top \in Frame /\ FrameOK(Top)
  BY TopIs DEF Active
<1>2. Top.n \in 2 .. N /\ Top.base \in Nat /\ Top.base + Top.n <= N
  BY <1>1, Sizes DEF Frame, FrameOK
<1> QED BY <1>2, SplitIs DEF CallsOK

LEMMA LeafNotNull == CallsOK /\ Active("enter") => Top.n \in Nat \ {0}
<1> SUFFICES ASSUME CallsOK, Active("enter") PROVE Top.n \in Nat \ {0}
  OBVIOUS
<1>1. Top \in Frame
  BY TopIs DEF Active
<1> QED BY <1>1 DEF Frame

\* Reading the data keeps the arrays as they should be.
LEMMA ReadData ==
  ASSUME CallsOK, read_data_points
  PROVE  CallsOK'
<1>1. ASSUME NEW i \in 0 .. N - 1, NEW d \in Dims, (d - 1) * N + i + 1 <= Len(file)
      PROVE  file[(d - 1) * N + i + 1] \in Int
  <2> DEFINE m == (d - 1) * N
  <2>1. d - 1 \in Nat /\ N \in Nat
    BY Sizes
  <2>2. m \in Nat
    BY <2>1
  <2> HIDE DEF m
  <2>3. m + i + 1 \in Nat \ {0} /\ Len(file) \in Nat /\ file \in Seq(Int)
    BY <2>2 DEF CallsOK
  <2>4. m + i + 1 \in 1 .. Len(file)
    BY <1>1, <2>3 DEF m
  <2>5. file[m + i + 1] \in Int
    BY <2>3, <2>4
  <2> QED BY <2>5 DEF m
<1>2. data_points' \in [0 .. N - 1 -> Point]
  <2>1. \A i \in 0 .. N - 1 : [d \in Dims |->
                      LET line == (d - 1) * N + i + 1
                      IN  IF line <= Len(file) THEN file[line] ELSE data_points[i][d]] \in Point
    <3> TAKE i \in 0 .. N - 1
    <3>1. \A d \in Dims : data_points[i][d] \in Int
      BY DEF CallsOK, ArraysOK, Point
    <3> QED BY <1>1, <3>1 DEF Point
  <2> QED BY <2>1 DEF read_data_points
<1>3. index_arr' \in [0 .. N - 1 -> 0 .. N - 1]
  BY DEF read_data_points, CallsOK, ArraysOK
<1>4. ArraysOK'
  BY <1>2, <1>3 DEF read_data_points, CallsOK, ArraysOK, Point
<1>5. phase' \in {"failed", "box"} /\ phase = "read" /\ calls' = calls /\ file' = file
  BY DEF read_data_points
<1> QED BY <1>4, <1>5 DEF CallsOK, Nested

LEMMA BoundingBox ==
  ASSUME CallsOK, compute_bounding_box
  PROVE  CallsOK'
<1>1. \A d \in Dims : find_min_max(0, N, d).min \in Int /\ find_min_max(0, N, d).max \in Int
  <2> TAKE d \in Dims
  <2>1. ArraysOK /\ N \in Nat \ {0} /\ 0 \in Nat /\ 0 + N <= N
    BY Sizes DEF CallsOK
  <2> QED BY <2>1, MinMax
<1>2. bnd_lo' \in Point /\ bnd_hi' \in Point
  BY <1>1 DEF compute_bounding_box, Point
<1>3. ArraysOK'
  BY <1>2 DEF compute_bounding_box, CallsOK, ArraysOK, Point
<1>4. Call(0, N) \in Frame /\ FrameOK(Call(0, N))
  <2>1. 0 \in 0 .. N - 1 /\ N \in 1 .. N
    BY Sizes
  <2> QED BY <2>1, CallIs, Sizes DEF Call, FrameOK
<1>5. calls' = <<Call(0, N)>> /\ phase' = "build" /\ file' = file
  BY DEF compute_bounding_box
<1>6. calls' \in Seq(Frame) /\ Len(calls') = 1 /\ calls'[1] = Call(0, N) /\ calls' # <<>>
  BY <1>4, <1>5
<1>7. Nested' /\ \A i \in 1 .. Len(calls') : FrameOK(calls'[i])
  BY <1>4, <1>6 DEF Nested
<1> QED BY <1>3, <1>5, <1>6, <1>7 DEF CallsOK

LEMMA LeafCalls ==
  ASSUME CallsOK, Leaf
  PROVE  CallsOK'
<1>1. ArraysOK'
  BY DEF CallsOK, ArraysOK, Leaf, Point
<1>2. phase = "build" /\ calls # <<>> /\ Return(Len(heap')) /\ file' = file
  BY DEF Leaf, Active
<1> QED BY <1>1, <1>2, ReturnCalls

LEMMA JoinCalls ==
  ASSUME CallsOK, Join
  PROVE  CallsOK'
<1>1. Top \in Frame
  BY TopIs DEF Join, Active
<1>2. bnd_lo' \in Point
  BY <1>1 DEF CallsOK, ArraysOK, Join, Point, Frame
<1>3. ArraysOK'
  BY <1>2 DEF CallsOK, ArraysOK, Join, Point
<1>4. phase = "build" /\ calls # <<>> /\ Return(Len(heap')) /\ file' = file
  BY DEF Join, Active
<1> QED BY <1>3, <1>4, ReturnCalls

\* What a call becomes when its parts are built.
LeftFrame == LET s == split_bounding_box(Top.base, Top.n)
             IN [Top EXCEPT !.pc = "left", !.n_lo = s.n_lo, !.cdim = s.cdim, !.cval = s.cval,
                            !.hv = bnd_hi[s.cdim], !.lv = bnd_lo[s.cdim]]
RightFrame == [Top EXCEPT !.pc = "right", !.left = ret]

LEMMA BuildLeftFrames ==
  ASSUME CallsOK, BuildLeft
  PROVE  LET s == split_bounding_box(Top.base, Top.n)
             c == LeftFrame
             e == Call(Top.base, s.n_lo)
         IN  /\ SplitOf(s, Top.base, Top.n)
             /\ c \in Frame /\ c.pc = "left" /\ c.n_lo = s.n_lo /\ c.base = Top.base /\ c.n = Top.n
             /\ c.cdim = s.cdim /\ c.cval = s.cval /\ c.hv = bnd_hi[s.cdim] /\ c.lv = bnd_lo[s.cdim]
             /\ e \in Frame /\ e.pc = "enter" /\ e.base = Top.base /\ e.n = s.n_lo
<1> DEFINE s == split_bounding_box(Top.base, Top.n)
           c == LeftFrame
           e == Call(Top.base, s.n_lo)
<1>1. phase = "build" /\ calls # <<>> /\ Top.n > 1 /\ Active("enter")
  BY DEF BuildLeft, Active
<1>2. Top \in Frame /\ FrameOK(Top)
  BY <1>1, TopIs
<1>3. SplitOf(s, Top.base, Top.n)
  BY <1>1, TopSplit
<1> HIDE DEF s
<1>5. /\ s.n_lo \in 1 .. Top.n - 1 /\ s.cdim \in Dims /\ s.cval \in Int
      /\ s.arr \in [0 .. Top.n - 1 -> 0 .. N - 1]
  BY <1>3 DEF SplitOf
<1>6. Top.base \in 0 .. N - 1 /\ Top.n \in 1 .. N /\ Top.base + Top.n <= N
  BY <1>2 DEF Frame, FrameOK
<1>13. s.n_lo \in 1 .. N /\ s.n_lo \in 0 .. N
  <2> DEFINE n == Top.n  k == s.n_lo
  <2>1. n \in 1 .. N /\ k \in 1 .. n - 1
    BY <1>5, <1>6
  <2> HIDE DEF n, k
  <2>2. k \in 1 .. N /\ k \in 0 .. N
    BY <2>1, Sizes
  <2> QED BY <2>2 DEF k
<1>7. c = [Top EXCEPT !.pc = "left", !.n_lo = s.n_lo, !.cdim = s.cdim, !.cval = s.cval,
                      !.hv = bnd_hi[s.cdim], !.lv = bnd_lo[s.cdim]]
  BY DEF s, LeftFrame
<1>8. c \in Frame
  <2>1. bnd_hi[s.cdim] \in Int /\ bnd_lo[s.cdim] \in Int
    BY <1>5 DEF CallsOK, ArraysOK, Point
  <2> HIDE DEF c
  <2> QED BY <1>2, <1>5, <1>7, <1>13, <2>1 DEF Frame
<1>9. /\ c.pc = "left" /\ c.n_lo = s.n_lo /\ c.base = Top.base /\ c.n = Top.n
      /\ c.cdim = s.cdim /\ c.cval = s.cval /\ c.hv = bnd_hi[s.cdim] /\ c.lv = bnd_lo[s.cdim]
  BY <1>2, <1>7 DEF Frame
<1>10. e \in Frame /\ e.pc = "enter" /\ e.base = Top.base /\ e.n = s.n_lo
  BY <1>6, <1>13, CallIs DEF Call
<1> QED BY <1>3, <1>8, <1>9, <1>10 DEF s

LEMMA BuildLeftCalls ==
  ASSUME CallsOK, BuildLeft
  PROVE  CallsOK'
<1> DEFINE s == split_bounding_box(Top.base, Top.n)
           c == LeftFrame
           e == Call(Top.base, s.n_lo)
<1>1. phase = "build" /\ calls # <<>> /\ Top.n > 1 /\ Active("enter")
  BY DEF BuildLeft, Active
<1>2. Top \in Frame /\ FrameOK(Top)
  BY <1>1, TopIs
<1>3. SplitOf(s, Top.base, Top.n)
  BY <1>1, TopSplit
<1>9. /\ c \in Frame /\ c.pc = "left" /\ c.n_lo = s.n_lo /\ c.base = Top.base /\ c.n = Top.n
      /\ e \in Frame /\ e.pc = "enter" /\ e.base = Top.base /\ e.n = s.n_lo
  BY BuildLeftFrames
<1>4. /\ calls' = Outer \o <<c, e>> /\ file' = file /\ phase' = phase
      /\ data_points' = data_points /\ bnd_lo' = bnd_lo
      /\ index_arr' = [i \in DOMAIN index_arr |->
                          IF i \in Top.base .. Top.base + Top.n - 1 THEN s.arr[i - Top.base] ELSE index_arr[i]]
      /\ bnd_hi' = [bnd_hi EXCEPT ![s.cdim] = s.cval]
  BY DEF BuildLeft, LeftFrame
<1> HIDE DEF s
<1>5. /\ s.n_lo \in 1 .. Top.n - 1 /\ s.cdim \in Dims /\ s.cval \in Int
      /\ s.arr \in [0 .. Top.n - 1 -> 0 .. N - 1]
  BY <1>3 DEF SplitOf
<1>6. Top.base \in 0 .. N - 1 /\ Top.n \in 1 .. N /\ Top.base + Top.n <= N
  BY <1>2 DEF Frame, FrameOK
<1> HIDE DEF c, e
<1>11. FrameOK(c) /\ FrameOK(e) /\ Inside(c, e) /\ c.pc # "enter"
  <2> DEFINE b == Top.base  n == Top.n  k == s.n_lo
  <2>1. b \in Int /\ n \in Int /\ k \in 1 .. n - 1 /\ b + n <= N
    BY <1>5, <1>6
  <2>2. c.base = b /\ c.n = n /\ c.n_lo = k /\ e.base = b /\ e.n = k
    BY <1>9
  <2> HIDE DEF b, n, k
  <2> QED BY <1>9, <2>1, <2>2, Sizes DEF FrameOK, Inside
<1>12. ArraysOK'
  <2>1. bnd_hi' \in Point
    BY <1>4, <1>5 DEF CallsOK, ArraysOK, Point
  <2>2. index_arr' \in [0 .. N - 1 -> 0 .. N - 1]
    <3>1. \A i \in Top.base .. Top.base + Top.n - 1 : i - Top.base \in 0 .. Top.n - 1
      BY <1>6
    <3>2. index_arr \in [0 .. N - 1 -> 0 .. N - 1]
      BY DEF CallsOK, ArraysOK
    <3>3. \A i \in 0 .. N - 1 :
             (IF i \in Top.base .. Top.base + Top.n - 1 THEN s.arr[i - Top.base] ELSE index_arr[i]) \in 0 .. N - 1
      BY <1>5, <3>1, <3>2
    <3> QED BY <1>4, <3>2, <3>3
  <2> QED BY <1>4, <2>1, <2>2 DEF CallsOK, ArraysOK, Point
<1> QED BY <1>1, <1>4, <1>9, <1>11, <1>12, PushCalls

LEMMA BuildRightFrames ==
  ASSUME CallsOK, BuildRight, ret \in Nat
  PROVE  LET c == RightFrame
             e == Call(Top.base + Top.n_lo, Top.n - Top.n_lo)
         IN  /\ c \in Frame /\ c.pc = "right" /\ c.n_lo = Top.n_lo /\ c.base = Top.base /\ c.n = Top.n
             /\ c.cdim = Top.cdim /\ c.cval = Top.cval /\ c.hv = Top.hv /\ c.lv = Top.lv /\ c.left = ret
             /\ e \in Frame /\ e.pc = "enter" /\ e.base = Top.base + Top.n_lo /\ e.n = Top.n - Top.n_lo
<1> DEFINE c == RightFrame
           e == Call(Top.base + Top.n_lo, Top.n - Top.n_lo)
<1>1. phase = "build" /\ calls # <<>> /\ Top.pc = "left"
  BY DEF BuildRight, Active
<1>2. Top \in Frame /\ FrameOK(Top)
  BY <1>1, TopIs
<1>4. /\ Top.n_lo \in 1 .. Top.n - 1 /\ Top.base \in 0 .. N - 1 /\ Top.n \in 1 .. N
      /\ Top.base + Top.n <= N
  BY <1>1, <1>2 DEF Frame, FrameOK
<1>5. /\ c \in Frame /\ c.pc = "right" /\ c.n_lo = Top.n_lo /\ c.base = Top.base /\ c.n = Top.n
      /\ c.cdim = Top.cdim /\ c.cval = Top.cval /\ c.hv = Top.hv /\ c.lv = Top.lv /\ c.left = ret
  BY <1>2 DEF Frame, RightFrame
<1> DEFINE b == Top.base  n == Top.n  k == Top.n_lo
<1>6. b \in Nat /\ n \in Nat /\ k \in 1 .. n - 1 /\ b + n <= N
  BY <1>4
<1>7. e \in Frame /\ e.pc = "enter" /\ e.base = b + k /\ e.n = n - k
  <2> HIDE DEF b, n, k
  <2>1. b + k \in 0 .. N - 1 /\ n - k \in 1 .. N
    BY <1>6, Sizes
  <2> QED BY <2>1, CallIs DEF Call, b, n, k
<1> QED BY <1>5, <1>7

LEMMA BuildRightCalls ==
  ASSUME CallsOK, BuildRight, ret \in Nat
  PROVE  CallsOK'
<1> DEFINE c == RightFrame
           e == Call(Top.base + Top.n_lo, Top.n - Top.n_lo)
<1>1. phase = "build" /\ calls # <<>> /\ Top.pc = "left"
  BY DEF BuildRight, Active
<1>2. Top \in Frame /\ FrameOK(Top)
  BY <1>1, TopIs
<1>3. /\ calls' = Outer \o <<c, e>> /\ file' = file /\ phase' = phase
      /\ data_points' = data_points /\ index_arr' = index_arr
      /\ bnd_hi' = [bnd_hi EXCEPT ![Top.cdim] = Top.hv]
      /\ bnd_lo' = [bnd_lo EXCEPT ![Top.cdim] = Top.cval]
  BY DEF BuildRight, RightFrame
<1>4. /\ Top.n_lo \in 1 .. Top.n - 1 /\ Top.base \in 0 .. N - 1 /\ Top.n \in 1 .. N
      /\ Top.base + Top.n <= N
  BY <1>1, <1>2 DEF Frame, FrameOK
<1>5. /\ c \in Frame /\ c.pc = "right" /\ c.n_lo = Top.n_lo /\ c.base = Top.base /\ c.n = Top.n
      /\ e \in Frame /\ e.pc = "enter" /\ e.base = Top.base + Top.n_lo /\ e.n = Top.n - Top.n_lo
  BY BuildRightFrames
<1> DEFINE b == Top.base  n == Top.n  k == Top.n_lo
<1>6. b \in Nat /\ n \in Nat /\ k \in 1 .. n - 1 /\ b + n <= N
  BY <1>4
<1>7. e.pc = "enter" /\ e.base = b + k /\ e.n = n - k
  BY <1>5
<1> HIDE DEF c, e
<1>8. FrameOK(c) /\ FrameOK(e) /\ Inside(c, e) /\ c.pc # "enter"
  <2>1. c.base = b /\ c.n = n /\ c.n_lo = k
    BY <1>5
  <2> HIDE DEF b, n, k
  <2> QED BY <1>5, <1>6, <1>7, <2>1, Sizes DEF FrameOK, Inside
<1>9. ArraysOK'
  <2>1. bnd_hi' \in Point /\ bnd_lo' \in Point
    BY <1>2, <1>3 DEF CallsOK, ArraysOK, Point, Frame
  <2> QED BY <1>3, <2>1 DEF CallsOK, ArraysOK, Point
<1> QED BY <1>1, <1>3, <1>5, <1>7, <1>8, <1>9, PushCalls

LEMMA DeleteCalls ==
  ASSUME CallsOK, (StartDelete \/ deletekdTree \/ UNCHANGED vars)
  PROVE  CallsOK'
<1>1. build' = build /\ (phase' = phase \/ (phase = "run" /\ phase' = "delete"))
  BY DEF StartDelete, deletekdTree, vars
<1>2. /\ file' = file /\ data_points' = data_points /\ index_arr' = index_arr
      /\ bnd_lo' = bnd_lo /\ bnd_hi' = bnd_hi /\ calls' = calls
  BY <1>1 DEF build
<1> QED BY <1>1, <1>2 DEF CallsOK, ArraysOK, Nested, Point

LEMMA InitCalls == Init => CallsOK
<1> SUFFICES ASSUME Init PROVE CallsOK
  OBVIOUS
<1>1. ArraysOK
  BY Sizes DEF Init, ArraysOK, Point
<1>2. file \in Seq(Int)
  <2> DEFINE m == N * D
  <2>1. m \in Nat /\ m - 1 \in Int
    BY Sizes
  <2>2. file \in [1 .. m -> Coords] \cup [1 .. m - 1 -> Coords \cap {0}] \cup {<<>>}
    BY DEF Init
  <2> HIDE DEF m
  <2>3. CASE file \in [1 .. m -> Coords]
    <3>1. file \in [1 .. m -> Int]
      BY <2>3, KdTreeAssumption
    <3> QED BY <2>1, <3>1
  <2>4. CASE file \in [1 .. m - 1 -> Coords \cap {0}]
    <3>1. file \in [1 .. m - 1 -> Int]
      BY <2>4
    <3>2. CASE m = 0
      <4>1. 1 .. m - 1 = 1 .. 0
        BY <3>2
      <4>2. file \in [1 .. 0 -> Int] /\ 0 \in Nat
        BY <3>1, <4>1
      <4> QED BY <4>2
    <3>3. CASE m - 1 \in Nat
      BY <3>1, <3>3
    <3> QED BY <2>1, <3>2, <3>3
  <2>5. CASE file = <<>>
    BY <2>5
  <2> QED BY <2>2, <2>3, <2>4, <2>5
<1>3. calls = <<>> /\ phase = "read"
  BY DEF Init
<1>4. calls \in Seq(Frame) /\ Len(calls) = 0
  BY <1>3
<1> QED BY <1>1, <1>2, <1>3, <1>4 DEF CallsOK, Nested

-----------------------------------------------------------------------------
(***************************************************************************)
(* The heap.  The calls make the nodes in postorder: the right child of a  *)
(* node is the one before it, and the left child is the one before the     *)
(* nodes of the right subtree, twice its leaves less one.                  *)
(***************************************************************************)

\* The heap is a sequence of nodes.
HeapSeq == \E S : heap \in Seq(S)

\* The children of an inner node are where postorder puts them.
InnerOK(u) ==
  /\ heap[u].right = u - 1 /\ u - 1 >= 1
  /\ heap[u].left = u - 2 * heap[u - 1].count /\ heap[u].left >= 1
  /\ heap[u].count = heap[heap[u].left].count + heap[u - 1].count

NodeOK(u) ==
  /\ heap[u].count \in Nat \ {0} /\ 2 * heap[u].count <= u + 1
  /\ IF IsLeaf(u) THEN heap[u].count = 1 ELSE InnerOK(u)

\* The nodes on the heap form complete subtrees.
TreeOK == HeapSeq /\ \A u \in Nodes : NodeOK(u)

\* The part of a call that is built first or next, and the nodes that the call has
\* made when it builds it, and when that is built.
Part(c, e)  == IF c.pc = "left" THEN e.base = c.base /\ e.n = c.n_lo
               ELSE e.base = c.base + c.n_lo /\ e.n = c.n - c.n_lo
Before(c) == IF c.pc = "right" THEN 2 * c.n_lo - 1 ELSE 0
After(c)  == IF c.pc = "enter" THEN 0 ELSE IF c.pc = "left" THEN 2 * c.n_lo - 1 ELSE 2 * c.n - 2

\* A call that began with h nodes and builds its right part has its left child.
LeftBuilt(nodes, c, h) ==
  c.pc = "right" => /\ c.left = h + 2 * c.n_lo - 1 /\ c.left <= Len(nodes)
                    /\ nodes[c.left].count = c.n_lo

\* The innermost call has made the nodes of its parts so far, and the last is returned.
PartBuilt(nodes, last, c, h) ==
  /\ Len(nodes) = h + After(c)
  /\ c.pc # "enter" => /\ last = Len(nodes)
                       /\ nodes[last].count = IF c.pc = "left" THEN c.n_lo ELSE c.n - c.n_lo

\* h[i] nodes had been made when the i-th call began.
Heights(h) ==
  /\ h \in [1 .. Len(calls) -> Nat]
  /\ calls # <<>> => h[1] = 0 /\ calls[1].base = 0 /\ calls[1].n = N
  /\ \A i \in 1 .. Len(calls) : h[i] <= 2 * calls[i].base /\ LeftBuilt(heap, calls[i], h[i])
  /\ \A i \in 1 .. Len(calls) - 1 : Part(calls[i], calls[i + 1]) /\ h[i + 1] = h[i] + Before(calls[i])
  /\ calls # <<>> => PartBuilt(heap, ret, Top, h[Len(calls)])

\* The tree is complete.
TreeBuilt == ret = Len(heap) /\ Len(heap) = 2 * N - 1 /\ heap[ret].count = N

\* The inductive invariant of the build, without the heights.
HeapOK ==
  /\ CallsOK /\ TreeOK /\ ret \in 0 .. Len(heap)
  /\ phase \in {"read", "failed", "box"} => heap = <<>>
  /\ phase \in {"run", "delete"} => TreeBuilt

\* A heap with one node more.
LEMMA HeapAppend ==
  ASSUME HeapSeq, NEW x, NEW g, g = Append(heap, x)
  PROVE  /\ \E S : g \in Seq(S)
         /\ Len(heap) \in Nat /\ Len(g) = Len(heap) + 1 /\ g[Len(heap) + 1] = x
         /\ \A u \in Nodes : g[u] = heap[u]
<1>1. PICK S : heap \in Seq(S)
  BY DEF HeapSeq
<1> DEFINE T == S \cup {x}
<1>2. heap \in Seq(T) /\ x \in T
  BY <1>1
<1> HIDE DEF T
<1>3. g \in Seq(T) /\ Len(heap) \in Nat /\ Len(g) = Len(heap) + 1
  BY <1>2
<1>4. g[Len(heap) + 1] = x /\ \A u \in 1 .. Len(heap) : g[u] = heap[u]
  BY <1>2
<1> QED BY <1>3, <1>4 DEF Nodes

LEMMA HeapGrows ==
  ASSUME HeapSeq, NEW x, heap' = Append(heap, x)
  PROVE  /\ HeapSeq' /\ Len(heap) \in Nat /\ Len(heap') = Len(heap) + 1 /\ heap'[Len(heap) + 1] = x
         /\ \A v \in Nodes : heap'[v] = heap[v]
<1> DEFINE g == heap'
<1>1. g = Append(heap, x)
  OBVIOUS
<1> HIDE DEF g
<1>2. /\ \E S : g \in Seq(S)
      /\ Len(heap) \in Nat /\ Len(g) = Len(heap) + 1 /\ g[Len(heap) + 1] = x
      /\ \A v \in Nodes : g[v] = heap[v]
  BY ZenonT(60), <1>1, HeapAppend
<1> QED BY <1>2 DEF g, HeapSeq

\* A node that is made of the nodes before it leaves the tree in order.
LEMMA TreeGrows ==
  ASSUME TreeOK, NEW x, heap' = Append(heap, x),
         NEW u, u = Len(heap) + 1,
         x.count \in Nat \ {0}, 2 * x.count <= u + 1,
         \/ x.left = None /\ x.right = None /\ x.count = 1
         \/ /\ x.right = u - 1 /\ u - 1 >= 1 /\ x.left = u - 2 * heap[u - 1].count /\ x.left >= 1
            /\ x.count = heap[x.left].count + heap[u - 1].count
  PROVE  TreeOK'
<1>1. /\ HeapSeq' /\ Len(heap) \in Nat /\ Len(heap') = Len(heap) + 1 /\ heap'[u] = x
      /\ \A v \in Nodes : heap'[v] = heap[v]
  <2>1. HeapSeq
    BY DEF TreeOK
  <2> QED BY <2>1, HeapGrows
<1>2. ASSUME NEW v \in Nodes PROVE NodeOK(v)'
  <2>1. NodeOK(v) /\ v \in Nat \ {0} /\ heap'[v] = heap[v] /\ v <= Len(heap)
    BY <1>1 DEF TreeOK, Nodes
  <2>2. CASE IsLeaf(v)
    BY <2>1, <2>2 DEF NodeOK, IsLeaf
  <2>3. CASE ~IsLeaf(v)
    <3>1. InnerOK(v)
      BY <2>1, <2>3 DEF NodeOK
    <3> DEFINE w == heap[v].left
    <3>2. v - 1 \in Nodes
      BY <1>1, <2>1, <3>1 DEF InnerOK, Nodes
    <3>3. heap[v - 1].count \in Nat \ {0}
      BY <3>2 DEF TreeOK, NodeOK
    <3>4. w \in Nodes
      <4>1. w = v - 2 * heap[v - 1].count /\ w >= 1
        BY <3>1 DEF InnerOK
      <4> HIDE DEF w
      <4>2. w \in Int /\ w <= v
        BY SMTT(60), <2>1, <3>3, <4>1
      <4> QED BY <1>1, <2>1, <4>1, <4>2 DEF Nodes
    <3>5. heap'[v - 1] = heap[v - 1] /\ heap'[w] = heap[w]
      BY <1>1, <3>2, <3>4
    <3> QED BY <2>1, <2>3, <3>1, <3>5 DEF NodeOK, InnerOK, IsLeaf
  <2> QED BY <2>2, <2>3
<1>3. NodeOK(u)'
  <2>1. CASE x.left = None /\ x.right = None /\ x.count = 1
    BY <1>1, <2>1 DEF NodeOK, IsLeaf
  <2>2. CASE /\ x.right = u - 1 /\ u - 1 >= 1 /\ x.left = u - 2 * heap[u - 1].count /\ x.left >= 1
             /\ x.count = heap[x.left].count + heap[u - 1].count
    <3> DEFINE w == x.left
    <3>1. u - 1 \in Nodes /\ u \in Nat
      BY <1>1, <2>2 DEF Nodes
    <3>2. heap[u - 1].count \in Nat \ {0}
      BY <3>1 DEF TreeOK, NodeOK
    <3>3. w \in Nodes /\ w # 0
      <4>1. w = u - 2 * heap[u - 1].count /\ w >= 1
        BY <2>2
      <4> HIDE DEF w
      <4>2. w \in Int /\ w <= u - 1
        BY <3>1, <3>2, <4>1
      <4> QED BY <1>1, <3>1, <4>1, <4>2 DEF Nodes
    <3>4. heap'[u - 1] = heap[u - 1] /\ heap'[w] = heap[w]
      BY <1>1, <3>1, <3>3
    <3> QED BY <1>1, <2>2, <3>3, <3>4 DEF NodeOK, InnerOK, IsLeaf, None
  <2> QED BY <2>1, <2>2
<1>4. \A v \in Nodes' : v \in Nodes \/ v = u
  BY <1>1 DEF Nodes
<1> QED BY <1>1, <1>2, <1>3, <1>4 DEF TreeOK

\* A call that began with h nodes and has made all of its own returns: what the call
\* around it counts on holds, or the tree is built.
LEMMA ReturnHeights ==
  ASSUME CallsOK, HeapSeq, NEW h, Heights(h), calls # <<>>, calls' = Outer,
         NEW x, heap' = Append(heap, x), ret' = Len(heap'), x.count = Top.n,
         Len(heap') = h[Len(calls)] + 2 * Top.n - 1,
         NEW g, g = [i \in 1 .. Len(calls) - 1 |-> h[i]]
  PROVE  Heights(g)' /\ (Outer = <<>> => TreeBuilt')
<1> DEFINE K == Len(calls)
<1>1. /\ Outer \in Seq(Frame) /\ Len(Outer) = K - 1 /\ K \in Nat \ {0}
      /\ \A i \in 1 .. K - 1 : Outer[i] = calls[i] /\ i \in 1 .. K
  BY OuterOK
<1>2. /\ Len(heap) \in Nat /\ Len(heap') = Len(heap) + 1 /\ heap'[Len(heap) + 1] = x
      /\ \A v \in 1 .. Len(heap) : heap'[v] = heap[v]
  BY HeapGrows DEF Nodes
<1>3. /\ h \in [1 .. K -> Nat] /\ h[1] = 0 /\ calls[1].base = 0 /\ calls[1].n = N
      /\ \A i \in 1 .. K : h[i] <= 2 * calls[i].base /\ LeftBuilt(heap, calls[i], h[i])
      /\ \A i \in 1 .. K - 1 : Part(calls[i], calls[i + 1]) /\ h[i + 1] = h[i] + Before(calls[i])
  BY DEF Heights
<1>4. \A i \in 1 .. K : calls[i] \in Frame /\ FrameOK(calls[i])
  BY <1>1 DEF CallsOK
<1>5. ret' = Len(heap') /\ heap'[ret'].count = Top.n
  BY <1>2
<1>6. \A i \in 1 .. K - 1 : g[i] = h[i] /\ calls'[i] = calls[i]
  BY <1>1
<1>7. g \in [1 .. K - 1 -> Nat]
  BY <1>1, <1>3
<1>8. ASSUME NEW c \in Frame, FrameOK(c), NEW b \in Nat, LeftBuilt(heap, c, b)
      PROVE  LeftBuilt(heap', c, b)
  <2>1. CASE c.pc = "right"
    <3> DEFINE l == c.left  k == c.n_lo
    <3>1. l = b + 2 * k - 1 /\ l <= Len(heap) /\ heap[l].count = k /\ k \in 1 .. c.n - 1
      BY <1>8, <2>1 DEF LeftBuilt, FrameOK
    <3>2. k \in Nat \ {0}
      BY <3>1 DEF Frame
    <3> HIDE DEF l, k
    <3>3. l \in 1 .. Len(heap)
      BY <1>2, <3>1, <3>2
    <3>4. heap'[l] = heap[l] /\ l <= Len(heap')
      BY <1>2, <3>3
    <3> QED BY <3>1, <3>4 DEF LeftBuilt, l, k
  <2> QED BY <2>1 DEF LeftBuilt
<1> HIDE DEF K
<1>9. CASE K = 1
  <2>1. Outer = <<>> /\ calls' = <<>> /\ Len(calls') = 0
    BY <1>1, <1>9
  <2>2. Top.n = N /\ h[K] = 0
    BY <1>3, <1>9 DEF Top, K
  <2>3. Len(heap') = 2 * N - 1
    <3>1. Len(heap') = h[K] + 2 * Top.n - 1
      BY DEF K
    <3>2. Len(heap') = 0 + 2 * N - 1
      BY <2>2, <3>1
    <3>3. 0 + 2 * N - 1 = 2 * N - 1
      BY Sizes
    <3> QED BY <3>2, <3>3
  <2>4. TreeBuilt'
    BY <1>5, <2>2, <2>3 DEF TreeBuilt
  <2>5. Heights(g)'
    BY <1>7, <1>9, <2>1 DEF Heights
  <2> QED BY <2>4, <2>5
<1>10. CASE K # 1
  <2>1. K - 1 \in 1 .. K /\ K - 1 \in 1 .. K - 1 /\ K \in 1 .. K /\ (K - 1) + 1 = K /\ 1 \in 1 .. K - 1
    BY <1>1, <1>10
  <2>2. Outer # <<>> /\ Len(calls') = K - 1
    BY <1>1, <2>1
  <2> DEFINE c == calls[K - 1]  e == calls[K]
  <2>3. c \in Frame /\ FrameOK(c) /\ c.pc # "enter"
    <3>1. K - 1 < K
      BY <1>1
    <3> QED BY <1>4, <2>1, <3>1 DEF CallsOK, Nested, K
  <2>4. Top' = c /\ Top = e
    BY <1>6, <2>1, <2>2 DEF Top, K
  <2>5. Part(c, e) /\ h[K] = h[K - 1] + Before(c)
    BY <1>3, <2>1
  <2> DEFINE L == Len(heap')  n == c.n  k == c.n_lo  a == h[K - 1]  b == h[K]  m == e.n
  <2>6. n \in Int /\ k \in Int /\ a \in Int /\ b \in Int /\ m \in Int
    <3>1. \A f \in Frame : f.n \in Int /\ f.n_lo \in Int
      BY DEF Frame
    <3>2. a \in Int /\ b \in Int
      BY <1>3, <2>1
    <3>3. c \in Frame /\ e \in Frame
      BY <1>4, <2>1
    <3> QED BY <3>1, <3>2, <3>3
  <2>7. L = b + 2 * m - 1
    BY <2>4 DEF K
  <2> HIDE DEF c, e, L, n, k, a, b, m
  <2>8. PartBuilt(heap', ret', c, a)
    <3>1. CASE c.pc = "left"
      <4>1. m = k /\ b = a /\ c.n_lo = k
        BY <2>5, <2>6, <3>1 DEF Part, Before, m, k, a, b
      <4>2. L = a + (2 * k - 1)
        BY <2>6, <2>7, <4>1
      <4>3. Len(heap') = a + After(c)
        BY <3>1, <4>1, <4>2 DEF After, L
      <4>4. ret' = Len(heap') /\ heap'[ret'].count = c.n_lo
        BY <1>5, <2>4, <4>1 DEF m
      <4> QED BY <3>1, <4>3, <4>4 DEF PartBuilt
    <3>2. CASE c.pc # "left"
      <4>1. c.pc = "right"
        BY <2>3, <3>2 DEF Frame
      <4>2. m = n - k /\ b = a + (2 * k - 1) /\ c.n_lo = k /\ c.n = n
        BY <2>5, <2>6, <4>1 DEF Part, Before, m, k, a, b, n
      <4>3. L = a + (2 * n - 2)
        BY <2>6, <2>7, <4>2
      <4>4. Len(heap') = a + After(c)
        BY <4>1, <4>2, <4>3 DEF After, L
      <4>5. ret' = Len(heap') /\ heap'[ret'].count = c.n - c.n_lo
        BY <1>5, <2>4, <4>2 DEF m
      <4> QED BY <4>1, <4>4, <4>5 DEF PartBuilt
    <3> QED BY <3>1, <3>2
  <2>9. PartBuilt(heap', ret', Top', g[K - 1])
    BY <1>6, <2>1, <2>2, <2>4, <2>8 DEF a
  <2>10. g[1] = 0 /\ calls'[1].base = 0 /\ calls'[1].n = N
    BY <1>3, <1>6, <2>1
  <2>11. ASSUME NEW i \in 1 .. K - 1
         PROVE  g[i] <= 2 * calls'[i].base /\ LeftBuilt(heap', calls'[i], g[i])
    <3>1. i \in 1 .. K /\ g[i] = h[i] /\ calls'[i] = calls[i]
      BY <1>1, <1>6
    <3>2. LeftBuilt(heap', calls[i], h[i])
      BY <1>3, <1>4, <1>8, <3>1
    <3> QED BY <1>3, <3>1, <3>2
  <2>12. ASSUME NEW i \in 1 .. (K - 1) - 1
         PROVE  Part(calls'[i], calls'[i + 1]) /\ g[i + 1] = g[i] + Before(calls'[i])
    <3>1. i \in 1 .. K - 1 /\ i + 1 \in 1 .. K - 1
      BY <1>1
    <3> QED BY <1>3, <1>6, <3>1
  <2>13. Heights(g)'
    BY <1>7, <2>2, <2>9, <2>10, <2>11, <2>12 DEF Heights
  <2> QED BY <2>2, <2>13
<1> QED BY <1>9, <1>10

\* A call that makes another: where the new one's nodes begin.
LEMMA PushHeights ==
  ASSUME CallsOK, HeapSeq, NEW h, Heights(h), calls # <<>>, heap' = heap, ret' = ret,
         NEW c \in Frame, NEW e \in Frame, calls' = Outer \o <<c, e>>,
         c.base = Top.base, c.n = Top.n, c.pc # "enter", e.pc = "enter", Part(c, e),
         Len(heap) = h[Len(calls)] + Before(c), Len(heap) <= 2 * e.base,
         LeftBuilt(heap, c, h[Len(calls)]),
         NEW g, g = [i \in 1 .. Len(calls) + 1 |-> IF i = Len(calls) + 1 THEN Len(heap) ELSE h[i]]
  PROVE  Heights(g)'
<1> DEFINE K == Len(calls)
<1>1. /\ Len(calls') = K + 1 /\ calls' # <<>>
      /\ \A i \in 1 .. K - 1 : calls'[i] = calls[i]
      /\ calls'[K] = c /\ calls'[K + 1] = e
  BY PushedCalls
<1>2. K \in Nat \ {0} /\ Len(heap) \in Nat
  <2>1. K \in Nat \ {0}
    BY TopIs
  <2>2. PICK S : heap \in Seq(S)
    BY DEF HeapSeq
  <2> QED BY <2>1, <2>2
<1>3. /\ h \in [1 .. K -> Nat] /\ h[1] = 0 /\ calls[1].base = 0 /\ calls[1].n = N
      /\ \A i \in 1 .. K : h[i] <= 2 * calls[i].base /\ LeftBuilt(heap, calls[i], h[i])
      /\ \A i \in 1 .. K - 1 : Part(calls[i], calls[i + 1]) /\ h[i + 1] = h[i] + Before(calls[i])
  BY DEF Heights
<1>4. Len(heap) = h[K] + Before(c) /\ LeftBuilt(heap, c, h[K])
  OBVIOUS
<1>5. Top = calls[K] /\ Top' = e
  BY <1>1 DEF Top
<1>6. g[K + 1] = Len(heap) /\ g[K] = h[K] /\ \A i \in 1 .. K - 1 : g[i] = h[i]
  BY <1>2
<1>7. g \in [1 .. K + 1 -> Nat]
  <2>1. \A i \in 1 .. K + 1 : i = K + 1 \/ i \in 1 .. K
    BY <1>2
  <2> QED BY <1>2, <1>3, <2>1
<1> HIDE DEF K
<1>8. \A i \in 1 .. K + 1 : i \in 1 .. K - 1 \/ i = K \/ i = K + 1
  BY <1>2
<1>9. g[1] = 0 /\ calls'[1].base = 0 /\ calls'[1].n = N
  <2>1. CASE K = 1
    BY <1>1, <1>3, <1>5, <1>6, <2>1
  <2>2. CASE K # 1
    <3>1. 1 \in 1 .. K - 1
      BY <1>2, <2>2
    <3> QED BY <1>1, <1>3, <1>6, <3>1
  <2> QED BY <2>1, <2>2
<1>10. ASSUME NEW i \in 1 .. K + 1
       PROVE  g[i] <= 2 * calls'[i].base /\ LeftBuilt(heap', calls'[i], g[i])
  <2>1. CASE i \in 1 .. K - 1
    <3>1. i \in 1 .. K
      BY <1>2, <2>1
    <3> QED BY <1>1, <1>3, <1>6, <2>1, <3>1
  <2>2. CASE i = K
    <3>1. K \in 1 .. K
      BY <1>2
    <3> QED BY <1>1, <1>3, <1>4, <1>5, <1>6, <2>2, <3>1
  <2>3. CASE i = K + 1
    BY <1>1, <1>6, <2>3 DEF LeftBuilt
  <2> QED BY <1>8, <2>1, <2>2, <2>3
<1>11. ASSUME NEW i \in 1 .. (K + 1) - 1
       PROVE  Part(calls'[i], calls'[i + 1]) /\ g[i + 1] = g[i] + Before(calls'[i])
  <2>1. CASE i = K
    BY <1>1, <1>4, <1>6, <2>1
  <2>2. CASE i # K
    <3>1. i \in 1 .. K - 1 /\ (i + 1 \in 1 .. K - 1 \/ i + 1 = K)
      BY <1>2, <2>2
    <3>2. calls'[i] = calls[i] /\ g[i] = h[i] /\ g[i + 1] = h[i + 1]
      BY <1>1, <1>6, <3>1
    <3>3. calls'[i + 1].base = calls[i + 1].base /\ calls'[i + 1].n = calls[i + 1].n
      BY <1>1, <1>5, <3>1
    <3>4. Part(calls[i], calls[i + 1]) /\ h[i + 1] = h[i] + Before(calls[i])
      BY <1>3, <3>1
    <3>5. Part(calls'[i], calls'[i + 1])
      BY <3>2, <3>3, <3>4 DEF Part
    <3> QED BY <3>2, <3>4, <3>5
  <2> QED BY <2>1, <2>2
<1>12. PartBuilt(heap', ret', Top', g[K + 1])
  <2>1. After(e) = 0 /\ Len(heap') = Len(heap)
    BY DEF After
  <2>2. Len(heap') = Len(heap) + 0
    BY <1>2, <2>1
  <2> QED BY <1>5, <1>6, <2>1, <2>2 DEF PartBuilt
<1> QED BY <1>1, <1>7, <1>9, <1>10, <1>11, <1>12 DEF Heights

-----------------------------------------------------------------------------
(***************************************************************************)
(* The steps of the build, on the heap.                                    *)
(***************************************************************************)

\* What the innermost call finds.
LEMMA TopHeight ==
  ASSUME CallsOK, HeapSeq, NEW h, Heights(h), phase = "build"
  PROVE  LET K == Len(calls)
         IN  /\ calls # <<>> /\ K \in Nat \ {0} /\ Len(heap) \in Nat
             /\ h \in [1 .. K -> Nat] /\ h[K] \in Nat /\ h[K] <= 2 * Top.base
             /\ Top.base \in Nat /\ Top.n \in Nat \ {0} /\ Top.base + Top.n <= N
             /\ PartBuilt(heap, ret, Top, h[K]) /\ LeftBuilt(heap, Top, h[K])
             /\ Top.pc # "enter" => Top.n_lo \in 1 .. Top.n - 1
<1>1. calls # <<>>
  BY DEF CallsOK
<1>2. Len(calls) \in Nat \ {0} /\ Top \in Frame /\ FrameOK(Top)
  BY <1>1, TopIs
<1>3. Len(heap) \in Nat
  <2>1. PICK S : heap \in Seq(S)
    BY DEF HeapSeq
  <2> QED BY <2>1
<1>4. Len(calls) \in 1 .. Len(calls)
  BY <1>2
<1>5. /\ h \in [1 .. Len(calls) -> Nat] /\ h[Len(calls)] <= 2 * Top.base
      /\ PartBuilt(heap, ret, Top, h[Len(calls)]) /\ LeftBuilt(heap, Top, h[Len(calls)])
  BY <1>1, <1>4 DEF Heights, Top
<1>6. h[Len(calls)] \in Nat
  BY <1>4, <1>5
<1>7. Top.base \in Nat /\ Top.n \in Nat \ {0} /\ Top.base + Top.n <= N
  BY <1>2 DEF Frame, FrameOK
<1>8. Top.pc # "enter" => Top.n_lo \in 1 .. Top.n - 1
  BY <1>2 DEF FrameOK
<1> QED BY <1>1, <1>2, <1>3, <1>5, <1>6, <1>7, <1>8

\* The first of the two parts begins where the call began.
LEMMA BuildLeftHeights ==
  ASSUME CallsOK, HeapSeq, NEW h, Heights(h), BuildLeft,
         NEW g, g = [i \in 1 .. Len(calls) + 1 |-> IF i = Len(calls) + 1 THEN Len(heap) ELSE h[i]]
  PROVE  Heights(g)'
<1> DEFINE s == split_bounding_box(Top.base, Top.n)
           c == LeftFrame
           e == Call(Top.base, s.n_lo)
<1>1. phase = "build" /\ calls # <<>> /\ Top.pc = "enter"
  BY DEF BuildLeft, Active
<1>2. /\ calls' = Outer \o <<c, e>> /\ heap' = heap /\ ret' = ret
  BY DEF BuildLeft, LeftFrame
<1>3. /\ c \in Frame /\ c.pc = "left" /\ c.n_lo = s.n_lo /\ c.base = Top.base /\ c.n = Top.n
      /\ e \in Frame /\ e.pc = "enter" /\ e.base = Top.base /\ e.n = s.n_lo
  BY BuildLeftFrames
<1>4. /\ h[Len(calls)] \in Nat /\ h[Len(calls)] <= 2 * Top.base
      /\ Len(heap) = h[Len(calls)]
  <2>1. h[Len(calls)] \in Nat /\ h[Len(calls)] <= 2 * Top.base /\ PartBuilt(heap, ret, Top, h[Len(calls)])
    BY <1>1, TopHeight
  <2>2. Len(heap) = h[Len(calls)] + 0
    BY <1>1, <2>1 DEF PartBuilt, After
  <2> QED BY <2>1, <2>2
<1> HIDE DEF c, e, s
<1>5. Before(c) = 0 /\ Len(heap) = h[Len(calls)] + 0 /\ Part(c, e) /\ LeftBuilt(heap, c, h[Len(calls)])
  BY <1>3, <1>4 DEF Before, Part, LeftBuilt
<1>6. Len(heap) <= 2 * e.base /\ c.pc # "enter"
  BY <1>3, <1>4
<1> QED BY <1>1, <1>2, <1>3, <1>5, <1>6, PushHeights

LEMMA BuildRightHeights ==
  ASSUME CallsOK, HeapSeq, NEW h, Heights(h), BuildRight, ret \in Nat,
         NEW g, g = [i \in 1 .. Len(calls) + 1 |-> IF i = Len(calls) + 1 THEN Len(heap) ELSE h[i]]
  PROVE  Heights(g)'
<1> DEFINE b == Top.base  n == Top.n  k == Top.n_lo
           c == RightFrame
           e == Call(b + k, n - k)
           a == h[Len(calls)]
<1>1. phase = "build" /\ calls # <<>> /\ Top.pc = "left"
  BY DEF BuildRight, Active
<1>2. /\ calls' = Outer \o <<c, e>> /\ heap' = heap /\ ret' = ret
  BY DEF BuildRight, RightFrame
<1>3. /\ c \in Frame /\ c.pc = "right" /\ c.n_lo = k /\ c.base = b /\ c.n = n /\ c.left = ret
      /\ e \in Frame /\ e.pc = "enter" /\ e.base = b + k /\ e.n = n - k
  BY BuildRightFrames
<1>4. /\ a \in Nat /\ a <= 2 * b /\ b \in Nat /\ n \in Nat /\ k \in 1 .. n - 1
      /\ PartBuilt(heap, ret, Top, a)
  BY <1>1, TopHeight
<1>5. Len(heap) = a + (2 * k - 1) /\ ret = Len(heap) /\ heap[ret].count = k
  BY <1>1, <1>4 DEF PartBuilt, After
<1> HIDE DEF c, e, b, n, k, a
<1>6. Before(c) = 2 * k - 1 /\ Part(c, e) /\ c.pc # "enter"
  BY <1>3 DEF Before, Part
<1>7. Len(heap) = a + Before(c) /\ Len(heap) <= 2 * e.base
  BY <1>3, <1>4, <1>5, <1>6
<1>8. LeftBuilt(heap, c, a)
  BY <1>3, <1>4, <1>5 DEF LeftBuilt
<1> QED BY <1>1, <1>2, <1>3, <1>6, <1>7, <1>8, PushHeights DEF a, b, n

LEMMA LeafHeap ==
  ASSUME HeapOK, NEW h, Heights(h), Leaf, NEW g, g = [i \in 1 .. Len(calls) - 1 |-> h[i]]
  PROVE  HeapOK' /\ Heights(g)' /\ Len(heap') = h[Len(calls)] + 2 * Top.n - 1
<1> DEFINE a == h[Len(calls)]
           x == LeafNode
<1>1. /\ phase = "build" /\ Top.pc = "enter" /\ calls # <<>> /\ Top.n <= 1
      /\ heap' = Append(heap, x) /\ calls' = Outer /\ ret' = Len(heap')
      /\ phase' = (IF Outer = <<>> THEN "run" ELSE "build")
  BY DEF Leaf, Active, Return
<1>2. CallsOK /\ TreeOK /\ HeapSeq
  BY DEF HeapOK, TreeOK
<1>3. a \in Nat /\ PartBuilt(heap, ret, Top, a) /\ Top.n \in Nat \ {0} /\ Len(heap) \in Nat
  BY <1>1, <1>2, TopHeight
<1>4. Top.n = 1 /\ Len(heap) = a + 0
  BY <1>1, <1>3 DEF PartBuilt, After
<1>5. x.count = 1 /\ x.left = None /\ x.right = None
  BY <1>4 DEF LeafNode
<1> HIDE DEF x
<1>6. HeapSeq' /\ Len(heap') = Len(heap) + 1
  BY <1>1, <1>2, HeapGrows
<1>7. Len(heap') = a + 2 * Top.n - 1
  BY <1>3, <1>4, <1>6
<1>8. TreeOK'
  <2> DEFINE u == Len(heap) + 1
  <2>1. u = Len(heap) + 1 /\ x.count \in Nat \ {0} /\ 2 * x.count <= u + 1
    BY <1>3, <1>5
  <2> HIDE DEF u
  <2> QED BY <1>1, <1>2, <1>5, <2>1, TreeGrows
<1>9. Heights(g)' /\ (Outer = <<>> => TreeBuilt')
  BY <1>1, <1>2, <1>4, <1>5, <1>7, ReturnHeights
<1>10. CallsOK'
  BY <1>2, LeafCalls
<1>11. ret' \in 0 .. Len(heap')
  BY <1>1, <1>3, <1>6
<1>12. HeapOK'
  BY <1>1, <1>8, <1>9, <1>10, <1>11 DEF HeapOK
<1> QED BY <1>7, <1>9, <1>12

LEMMA JoinHeap ==
  ASSUME HeapOK, NEW h, Heights(h), Join, NEW g, g = [i \in 1 .. Len(calls) - 1 |-> h[i]]
  PROVE  HeapOK' /\ Heights(g)' /\ Len(heap') = h[Len(calls)] + 2 * Top.n - 1
<1> DEFINE a == h[Len(calls)]  n == Top.n  k == Top.n_lo  l == Top.left
           x == InnerNode(heap[l], heap[ret])
           u == Len(heap) + 1
<1>1. /\ phase = "build" /\ Top.pc = "right" /\ calls # <<>>
      /\ heap' = Append(heap, x) /\ calls' = Outer /\ ret' = Len(heap')
      /\ phase' = (IF Outer = <<>> THEN "run" ELSE "build")
  BY DEF Join, Active, Return
<1>2. CallsOK /\ TreeOK /\ HeapSeq
  BY DEF HeapOK, TreeOK
<1>3. /\ a \in Nat /\ PartBuilt(heap, ret, Top, a) /\ LeftBuilt(heap, Top, a)
      /\ n \in Nat \ {0} /\ Len(heap) \in Nat /\ k \in 1 .. n - 1
  BY <1>1, <1>2, TopHeight
<1>4. Len(heap) = a + (2 * n - 2) /\ ret = Len(heap) /\ heap[ret].count = n - k
  BY <1>1, <1>3 DEF PartBuilt, After
<1>5. l = a + 2 * k - 1 /\ heap[l].count = k
  BY <1>1, <1>3 DEF LeftBuilt
<1>6. x.count = n /\ x.left = l /\ x.right = ret
  BY DEF InnerNode
<1>7. HeapSeq' /\ Len(heap') = Len(heap) + 1
  <2> HIDE DEF x
  <2> QED BY <1>1, <1>2, HeapGrows
<1> HIDE DEF x, a, n, k, l, u
<1>8. Len(heap') = a + 2 * n - 1
  BY <1>3, <1>4, <1>7
<1>9. TreeOK'
  <2>1. u = Len(heap) + 1 /\ n \in Nat \ {0} /\ 2 * n <= u + 1 /\ u - 1 = Len(heap) /\ u - 1 >= 1 /\ u \in Nat
    BY <1>3, <1>4 DEF u
  <2>2. heap[u - 1].count = n - k
    BY <1>4, <2>1
  <2>3. l = u - 2 * (n - k) /\ l >= 1
    BY <1>3, <1>4, <1>5 DEF u
  <2>4. n = k + (n - k)
    BY <1>3
  <2>5. /\ x.right = u - 1 /\ u - 1 >= 1 /\ x.left = u - 2 * heap[u - 1].count /\ x.left >= 1
        /\ x.count = heap[x.left].count + heap[u - 1].count
    BY <1>4, <1>5, <1>6, <2>1, <2>2, <2>3, <2>4
  <2>6. x.count \in Nat \ {0} /\ 2 * x.count <= u + 1
    BY <1>6, <2>1
  <2> QED BY <1>1, <1>2, <2>1, <2>5, <2>6, TreeGrows
<1>10. Heights(g)' /\ (Outer = <<>> => TreeBuilt')
  BY <1>1, <1>2, <1>6, <1>8, ReturnHeights DEF a, n
<1>11. CallsOK'
  BY <1>2, JoinCalls
<1>12. ret' \in 0 .. Len(heap')
  BY <1>1, <1>3, <1>7
<1>13. HeapOK'
  BY <1>1, <1>9, <1>10, <1>11, <1>12 DEF HeapOK
<1> QED BY <1>8, <1>10, <1>13 DEF a, n

\* A step that makes no node.
LEMMA SameHeap ==
  ASSUME HeapOK, CallsOK', heap' = heap, ret' = ret,
         (phase' \in {"read", "failed", "box"} => phase \in {"read", "failed", "box"}),
         (phase' \in {"run", "delete"} => phase \in {"run", "delete"})
  PROVE  HeapOK'
<1>1. TreeOK'
  BY DEF HeapOK, TreeOK, HeapSeq, Nodes, NodeOK, InnerOK, IsLeaf
<1> QED BY <1>1 DEF HeapOK, TreeBuilt

LEMMA SameHeights ==
  ASSUME NEW h, Heights(h), calls' = calls, heap' = heap, ret' = ret
  PROVE  Heights(h)'
BY DEF Heights, Top

LEMMA FirstHeights ==
  ASSUME HeapOK, compute_bounding_box, NEW g, g = [i \in 1 .. 1 |-> 0]
  PROVE  Heights(g)'
<1>1. heap' = heap /\ ret' = ret /\ calls' = <<Call(0, N)>> /\ phase = "box"
  BY DEF compute_bounding_box
<1>2. heap' = <<>>
  BY <1>1 DEF HeapOK
<1>3. /\ Len(calls') = 1 /\ calls'[1].base = 0 /\ calls'[1].n = N /\ calls'[1].pc = "enter" /\ Top' = calls'[1]
      /\ calls' # <<>>
  BY <1>1 DEF Call, Top
<1>4. g \in [1 .. 1 -> Nat] /\ g[1] = 0
  OBVIOUS
<1>5. Len(heap') = 0
  BY <1>2
<1>6. PartBuilt(heap', ret', Top', g[1]) /\ LeftBuilt(heap', calls'[1], g[1])
  BY <1>3, <1>4, <1>5 DEF PartBuilt, LeftBuilt, After
<1> QED BY <1>3, <1>4, <1>6 DEF Heights

HeapInv == HeapOK /\ \E h : Heights(h)

\* The calls and the heap stay in order with every step.
LEMMA HeapStep == HeapInv /\ [Next]_vars => HeapInv'
<1> SUFFICES ASSUME HeapInv, [Next]_vars PROVE HeapInv'
  OBVIOUS
<1>1. PICK h : Heights(h)
  BY DEF HeapInv
<1>2. HeapOK /\ CallsOK /\ TreeOK /\ HeapSeq /\ ret \in Nat
  <2>1. HeapOK /\ CallsOK /\ TreeOK /\ HeapSeq /\ ret \in 0 .. Len(heap)
    BY DEF HeapInv, HeapOK, TreeOK
  <2> QED BY <2>1
<1>3. ASSUME read_data_points PROVE HeapInv'
  <2>1. CallsOK'
    BY <1>2, <1>3, ReadData
  <2>2. heap' = heap /\ ret' = ret /\ calls' = calls /\ phase = "read" /\ phase' \in {"failed", "box"}
    BY <1>3 DEF read_data_points
  <2>3. HeapOK'
    BY <1>2, <2>1, <2>2, SameHeap
  <2> QED BY <1>1, <2>2, <2>3, SameHeights DEF HeapInv
<1>4. ASSUME compute_bounding_box PROVE HeapInv'
  <2>1. CallsOK'
    BY <1>2, <1>4, BoundingBox
  <2>2. heap' = heap /\ ret' = ret /\ phase = "box" /\ phase' = "build"
    BY <1>4 DEF compute_bounding_box
  <2>3. HeapOK'
    BY <1>2, <2>1, <2>2, SameHeap
  <2>4. PICK g : g = [i \in 1 .. 1 |-> 0]
    OBVIOUS
  <2>5. Heights(g)'
    BY <1>2, <1>4, <2>4, FirstHeights
  <2> QED BY <2>3, <2>5 DEF HeapInv
<1>5. ASSUME Leaf PROVE HeapInv'
  <2>1. PICK g : g = [i \in 1 .. Len(calls) - 1 |-> h[i]]
    OBVIOUS
  <2>2. HeapOK' /\ Heights(g)'
    BY <1>1, <1>2, <1>5, <2>1, LeafHeap
  <2> QED BY <2>2 DEF HeapInv
<1>6. ASSUME BuildLeft PROVE HeapInv'
  <2>1. PICK g : g = [i \in 1 .. Len(calls) + 1 |-> IF i = Len(calls) + 1 THEN Len(heap) ELSE h[i]]
    OBVIOUS
  <2>2. CallsOK'
    BY <1>2, <1>6, BuildLeftCalls
  <2>3. heap' = heap /\ ret' = ret /\ phase = "build" /\ phase' = "build"
    BY <1>6 DEF BuildLeft
  <2>4. HeapOK'
    BY <1>2, <2>2, <2>3, SameHeap
  <2>5. Heights(g)'
    BY <1>1, <1>2, <1>6, <2>1, BuildLeftHeights
  <2> QED BY <2>4, <2>5 DEF HeapInv
<1>7. ASSUME BuildRight PROVE HeapInv'
  <2>1. PICK g : g = [i \in 1 .. Len(calls) + 1 |-> IF i = Len(calls) + 1 THEN Len(heap) ELSE h[i]]
    OBVIOUS
  <2>2. CallsOK'
    BY <1>2, <1>7, BuildRightCalls
  <2>3. heap' = heap /\ ret' = ret /\ phase = "build" /\ phase' = "build"
    BY <1>7 DEF BuildRight
  <2>4. HeapOK'
    BY <1>2, <2>2, <2>3, SameHeap
  <2>5. Heights(g)'
    BY <1>1, <1>2, <1>7, <2>1, BuildRightHeights
  <2> QED BY <2>4, <2>5 DEF HeapInv
<1>8. ASSUME Join PROVE HeapInv'
  <2>1. PICK g : g = [i \in 1 .. Len(calls) - 1 |-> h[i]]
    OBVIOUS
  <2>2. HeapOK' /\ Heights(g)'
    BY <1>1, <1>2, <1>8, <2>1, JoinHeap
  <2> QED BY <2>2 DEF HeapInv
<1>9. ASSUME StartDelete \/ deletekdTree \/ UNCHANGED vars PROVE HeapInv'
  <2>1. CallsOK'
    BY <1>2, <1>9, DeleteCalls
  <2>2. build' = build /\ (phase' = phase \/ (phase = "run" /\ phase' = "delete"))
    BY <1>9 DEF StartDelete, deletekdTree, vars
  <2>3. heap' = heap /\ ret' = ret /\ calls' = calls
    BY <2>2 DEF build
  <2>4. HeapOK'
    BY <1>2, <2>1, <2>2, <2>3, SameHeap
  <2> QED BY <1>1, <2>3, <2>4, SameHeights DEF HeapInv
<1>10. UNCHANGED vars \/ Next
  OBVIOUS
<1> QED BY <1>3, <1>4, <1>5, <1>6, <1>7, <1>8, <1>9, <1>10 DEF Next

LEMMA InitHeap == Init => HeapInv
<1> SUFFICES ASSUME Init PROVE HeapInv
  OBVIOUS
<1>1. CallsOK
  BY InitCalls
<1>2. heap = <<>> /\ ret = 0 /\ calls = <<>> /\ phase = "read"
  BY DEF Init, None
<1>3. heap \in Seq({0}) /\ Len(heap) = 0 /\ Len(calls) = 0
  BY <1>2
<1>4. TreeOK
  BY <1>3 DEF TreeOK, HeapSeq, Nodes
<1>5. HeapOK
  BY <1>1, <1>2, <1>3, <1>4 DEF HeapOK
<1>6. PICK h : h = [i \in 1 .. 0 |-> 0]
  OBVIOUS
<1>7. Heights(h)
  BY <1>2, <1>3, <1>6 DEF Heights
<1> QED BY <1>5, <1>7 DEF HeapInv

LEMMA HeapInvariant == Spec => []HeapInv
<1>1. Init => HeapInv
  BY InitHeap
<1>2. HeapInv /\ [Next]_vars => HeapInv'
  BY HeapStep
<1> QED BY <1>1, <1>2, PTL DEF Spec

-----------------------------------------------------------------------------
(***************************************************************************)
(* The deletion.                                                           *)
(***************************************************************************)

\* The first node of the subtree of u, which are the nodes from there to u.
First(u) == u + 2 - 2 * heap[u].count

\* The subtrees still to delete follow each other, and the inner nodes outside them
\* are gone.
DoomedOK ==
  /\ doomed \in Seq(Nodes)
  /\ freed \subseteq Nodes
  /\ \A i, j \in 1 .. Len(doomed) : i < j => doomed[i] < First(doomed[j])
  /\ phase = "delete" => \A u \in Nodes :
       u \in freed <=> ~IsLeaf(u) /\ \A i \in 1 .. Len(doomed) : u \notin First(doomed[i]) .. doomed[i]
  /\ phase # "delete" => doomed = <<>> /\ freed = {}

LEMMA HeapLen == TreeOK => Len(heap) \in Nat
<1> SUFFICES ASSUME TreeOK PROVE Len(heap) \in Nat
  OBVIOUS
<1>1. PICK S : heap \in Seq(S)
  BY DEF TreeOK, HeapSeq
<1> QED BY <1>1

\* The nodes of the two children of a node are those before it, without a gap.
LEMMA Subtree ==
  ASSUME TreeOK, NEW u \in Nodes
  PROVE  /\ u \in Nat \ {0} /\ First(u) \in 1 .. u
         /\ IsLeaf(u) => First(u) = u
         /\ ~IsLeaf(u) => LET l == heap[u].left
                              r == heap[u].right
                          IN  /\ l \in Nodes /\ r \in Nodes
                              /\ r = u - 1 /\ First(r) = l + 1 /\ First(l) = First(u) /\ l < r
<1>1. Len(heap) \in Nat /\ u \in Nat \ {0} /\ u <= Len(heap)
  BY HeapLen DEF Nodes
<1> DEFINE c == heap[u].count
<1>2. c \in Nat \ {0} /\ 2 * c <= u + 1 /\ (IF IsLeaf(u) THEN c = 1 ELSE InnerOK(u))
  BY DEF TreeOK, NodeOK
<1>3. First(u) = u + 2 - 2 * c
  BY DEF First
<1> HIDE DEF c
<1>4. First(u) \in 1 .. u /\ (IsLeaf(u) => First(u) = u)
  BY <1>1, <1>2, <1>3
<1>5. ASSUME ~IsLeaf(u)
      PROVE  LET l == heap[u].left
                 r == heap[u].right
             IN  /\ l \in Nodes /\ r \in Nodes
                 /\ r = u - 1 /\ First(r) = l + 1 /\ First(l) = First(u) /\ l < r
  <2> DEFINE l == heap[u].left
             r == heap[u].right
             cl == heap[l].count
             cr == heap[u - 1].count
  <2>1. r = u - 1 /\ u - 1 >= 1 /\ l = u - 2 * cr /\ l >= 1 /\ c = cl + cr
    BY <1>2, <1>5 DEF InnerOK, c
  <2>2. u - 1 \in Nodes
    BY <1>1, <2>1 DEF Nodes
  <2>3. cr \in Nat \ {0} /\ 2 * cr <= (u - 1) + 1
    BY <2>2 DEF TreeOK, NodeOK
  <2>4. First(u - 1) = (u - 1) + 2 - 2 * cr
    BY DEF First
  <2>5. First(l) = l + 2 - 2 * cl
    BY DEF First
  <2> HIDE DEF l, cr
  <2>6. l \in Nodes /\ l \in Int
    BY <1>1, <2>1, <2>3 DEF Nodes
  <2>7. cl \in Nat \ {0}
    BY <2>6 DEF TreeOK, NodeOK
  <2> HIDE DEF cl, r
  <2>8. First(u - 1) = l + 1 /\ First(l) = First(u) /\ l < u - 1
    BY <1>1, <1>2, <1>3, <2>1, <2>3, <2>4, <2>5, <2>6, <2>7
  <2> QED BY <2>1, <2>2, <2>6, <2>8 DEF l, r
<1> QED BY <1>1, <1>4, <1>5

\* In the beginning the whole tree is to be deleted.
LEMMA StartDeleteDoomed ==
  ASSUME HeapOK, DoomedOK, StartDelete
  PROVE  DoomedOK'
<1>1. /\ phase = "run" /\ phase' = "delete" /\ doomed' = <<ret>> /\ freed' = freed
      /\ heap' = heap /\ ret' = ret
  BY DEF StartDelete, build
<1>2. TreeOK /\ ret = Len(heap) /\ Len(heap) = 2 * N - 1 /\ heap[ret].count = N /\ freed = {}
  BY <1>1 DEF HeapOK, TreeBuilt, DoomedOK
<1>3. ret \in Nodes /\ First(ret) = 1
  BY <1>2, Sizes DEF Nodes, First
<1>4. doomed' \in Seq(Nodes) /\ Len(doomed') = 1 /\ doomed'[1] = ret
  BY <1>1, <1>3
<1>5. \A u \in Nodes : u \in First(ret) .. ret
  BY <1>2, <1>3, Sizes DEF Nodes
<1>6. Nodes' = Nodes
  BY <1>1 DEF Nodes
<1>7. \A u \in Nodes : \E i \in 1 .. Len(doomed') : u \in First(doomed'[i]) .. doomed'[i]
  BY <1>4, <1>5
<1>8. \A i, j \in 1 .. Len(doomed') : ~(i < j)
  BY <1>4
<1>9. \A u \in Nodes : u \in freed' <=> ~IsLeaf(u) /\ \A i \in 1 .. Len(doomed') : u \notin First(doomed'[i]) .. doomed'[i]
  BY <1>1, <1>2, <1>7
<1>10. freed' \subseteq Nodes
  BY <1>1, <1>2
<1> QED BY <1>1, <1>4, <1>6, <1>8, <1>9, <1>10 DEF DoomedOK, First, IsLeaf

\* A deleted node is replaced by its two subtrees.
LEMMA DeleteDoomed ==
  ASSUME HeapOK, DoomedOK, deletekdTree
  PROVE  DoomedOK'
<1> DEFINE u == Head(doomed)
           m == Len(doomed)
<1>1. /\ phase = "delete" /\ phase' = phase /\ doomed # <<>> /\ heap' = heap /\ TreeOK
      /\ doomed \in Seq(Nodes)
  BY DEF deletekdTree, build, HeapOK, DoomedOK
<1>2. /\ m \in Nat \ {0} /\ u = doomed[1] /\ u \in Nodes
      /\ Tail(doomed) \in Seq(Nodes) /\ Len(Tail(doomed)) = m - 1
      /\ \A i \in 1 .. m - 1 : Tail(doomed)[i] = doomed[i + 1] /\ i + 1 \in 1 .. m
  BY <1>1
<1>3. Nodes' = Nodes /\ (\A v : First(v)' = v + 2 - 2 * heap'[v].count) /\ \A v : IsLeaf(v)' <=> heap'[v].left = None /\ heap'[v].right = None
  BY <1>1 DEF Nodes, First, IsLeaf
<1>4. /\ \A v \in Nodes : v \in freed <=> ~IsLeaf(v) /\ \A i \in 1 .. m : v \notin First(doomed[i]) .. doomed[i]
      /\ \A i, j \in 1 .. m : i < j => doomed[i] < First(doomed[j])
      /\ freed \subseteq Nodes
  BY <1>1 DEF DoomedOK
<1>5. \A i \in 1 .. m : doomed[i] \in Nodes /\ doomed[i] \in Nat /\ First(doomed[i]) \in 1 .. doomed[i]
  BY <1>1, Subtree
<1>6. u \in Nat \ {0} /\ First(u) \in 1 .. u
  BY <1>1, <1>2, Subtree
<1> HIDE DEF u, m
<1>7. CASE IsLeaf(u)
  <2>1. doomed' = Tail(doomed) /\ freed' = freed
    BY <1>7 DEF deletekdTree, u
  <2>2. First(u) = u
    BY <1>1, <1>2, <1>7, Subtree
  <2>3. doomed' \in Seq(Nodes) /\ Len(doomed') = m - 1 /\ \A i \in 1 .. m - 1 : doomed'[i] = doomed[i + 1] /\ i + 1 \in 1 .. m
    BY <1>2, <2>1
  <2>4. ASSUME NEW i \in 1 .. m - 1, NEW j \in 1 .. m - 1, i < j
        PROVE  doomed'[i] < First(doomed'[j])
    <3>1. i + 1 \in 1 .. m /\ j + 1 \in 1 .. m /\ i + 1 < j + 1
      BY <2>3, <2>4
    <3> QED BY <1>4, <2>3, <3>1
  <2>5. ASSUME NEW v \in Nodes
        PROVE  v \in freed <=> ~IsLeaf(v) /\ \A i \in 1 .. m - 1 : v \notin First(doomed'[i]) .. doomed'[i]
    <3>1. (\A i \in 1 .. m : v \notin First(doomed[i]) .. doomed[i])
             => \A i \in 1 .. m - 1 : v \notin First(doomed'[i]) .. doomed'[i]
      BY <2>3
    <3>2. ASSUME ~IsLeaf(v), \A i \in 1 .. m - 1 : v \notin First(doomed'[i]) .. doomed'[i],
                 NEW i \in 1 .. m
          PROVE  v \notin First(doomed[i]) .. doomed[i]
      <4>1. CASE i = 1
        <5>1. v # u
          BY <1>7, <3>2
        <5>2. v \notin u .. u
          BY <1>6, <5>1
        <5> QED BY <1>2, <2>2, <4>1, <5>2
      <4>2. CASE i # 1
        <5>1. i - 1 \in 1 .. m - 1 /\ (i - 1) + 1 = i
          BY <1>2, <4>2
        <5>2. doomed'[i - 1] = doomed[i]
          BY <2>3, <5>1
        <5> QED BY <3>2, <5>1, <5>2
      <4> QED BY <4>1, <4>2
    <3>3. (v \in freed) <=> (~IsLeaf(v) /\ \A i \in 1 .. m : v \notin First(doomed[i]) .. doomed[i])
      BY <1>4
    <3> QED BY <3>1, <3>2, <3>3
  <2>6. /\ \A i, j \in 1 .. Len(doomed') : i < j => doomed'[i] < First(doomed'[j])
        /\ \A v \in Nodes : v \in freed' <=> ~IsLeaf(v) /\ \A i \in 1 .. Len(doomed') : v \notin First(doomed'[i]) .. doomed'[i]
    BY <2>1, <2>3, <2>4, <2>5
  <2> QED BY <1>1, <1>3, <1>4, <2>1, <2>3, <2>6 DEF DoomedOK, First, IsLeaf
<1>8. CASE ~IsLeaf(u)
  <2> DEFINE l == heap[u].left
             r == heap[u].right
  <2>1. /\ l \in Nodes /\ r \in Nodes /\ l \in Nat \ {0} /\ r \in Nat \ {0}
        /\ r = u - 1 /\ First(r) = l + 1 /\ First(l) = First(u) /\ l < r
    BY <1>1, <1>2, <1>8, Subtree
  <2>2. doomed' = <<l, r>> \o Tail(doomed) /\ freed' = freed \cup {u}
    BY <1>8 DEF deletekdTree, u
  <2> HIDE DEF l, r
  <2>3. /\ doomed' \in Seq(Nodes) /\ Len(doomed') = m + 1 /\ doomed'[1] = l /\ doomed'[2] = r
        /\ \A i \in 3 .. m + 1 : doomed'[i] = doomed[i - 1]
    <3> DEFINE t == Tail(doomed)
    <3>1. t \in Seq(Nodes) /\ Len(t) = m - 1 /\ \A i \in 1 .. m - 1 : t[i] = doomed[i + 1]
      BY <1>2
    <3> HIDE DEF t
    <3>2. <<l, r>> \in Seq(Nodes) /\ Len(<<l, r>>) = 2 /\ <<l, r>>[1] = l /\ <<l, r>>[2] = r
      BY <2>1
    <3>3. doomed' \in Seq(Nodes) /\ Len(doomed') = 2 + (m - 1)
      BY <2>2, <3>1, <3>2 DEF t
    <3>4. \A i \in 1 .. 2 + (m - 1) : doomed'[i] = IF i <= 2 THEN <<l, r>>[i] ELSE t[i - 2]
      BY <2>2, <3>1, <3>2 DEF t
    <3>5. 1 \in 1 .. 2 + (m - 1) /\ 2 \in 1 .. 2 + (m - 1) /\ 2 + (m - 1) = m + 1
      BY <1>2
    <3>6. ASSUME NEW i \in 3 .. m + 1 PROVE doomed'[i] = doomed[i - 1]
      <4>1. i \in 1 .. 2 + (m - 1) /\ ~(i <= 2) /\ i - 2 \in 1 .. m - 1 /\ (i - 2) + 1 = i - 1
        BY <1>2
      <4> QED BY <3>1, <3>4, <4>1
    <3> QED BY <3>2, <3>3, <3>4, <3>5, <3>6
  <2>4. \A i \in 1 .. m + 1 : i = 1 \/ i = 2 \/ (i \in 3 .. m + 1 /\ i - 1 \in 1 .. m /\ i - 1 > 1)
    BY <1>2
  <2>5. \A j \in 1 .. m : j > 1 => u < First(doomed[j])
    <3>1. 1 \in 1 .. m
      BY <1>2
    <3> QED BY <1>2, <1>4, <3>1
  <2>6. ASSUME NEW i \in 1 .. m + 1, NEW j \in 1 .. m + 1, i < j
        PROVE  doomed'[i] < First(doomed'[j])
    <3>1. CASE i = 1 /\ j = 2
      BY <2>1, <2>3, <3>1
    <3>2. CASE i \in {1, 2} /\ j \in 3 .. m + 1
      <4>1. doomed'[j] = doomed[j - 1] /\ j - 1 \in 1 .. m /\ j - 1 > 1
        BY <2>3, <2>4, <3>2
      <4>2. u < First(doomed[j - 1]) /\ First(doomed[j - 1]) \in Int
        BY <1>5, <2>5, <4>1
      <4>3. doomed'[i] < u
        BY <1>6, <2>1, <2>3, <3>2
      <4>4. doomed'[i] \in Int
        BY <2>1, <2>3, <3>2
      <4> QED BY <1>6, <4>1, <4>2, <4>3, <4>4
    <3>3. CASE i \in 3 .. m + 1 /\ j \in 3 .. m + 1
      <4>1. doomed'[i] = doomed[i - 1] /\ doomed'[j] = doomed[j - 1] /\ i - 1 \in 1 .. m /\ j - 1 \in 1 .. m /\ i - 1 < j - 1
        BY <2>3, <2>4, <2>6, <3>3
      <4> QED BY <1>4, <4>1
    <3> QED BY <2>4, <2>6, <3>1, <3>2, <3>3
  <2>7. ASSUME NEW v \in Nodes
        PROVE  v \in freed \cup {u} <=> ~IsLeaf(v) /\ \A i \in 1 .. m + 1 : v \notin First(doomed'[i]) .. doomed'[i]
    <3>1. (v \in freed) <=> (~IsLeaf(v) /\ \A i \in 1 .. m : v \notin First(doomed[i]) .. doomed[i])
      BY <1>4
    <3>2. 1 \in 1 .. m /\ doomed[1] = u /\ 1 \in 1 .. m + 1 /\ 2 \in 1 .. m + 1 /\ v \in Nat
      BY <1>1, <1>2, Subtree
    <3>3. v \in First(u) .. u <=> (v \in First(l) .. l \/ v \in First(r) .. r \/ v = u)
      <4> DEFINE a == First(u)
      <4>1. /\ a \in Nat /\ l \in Nat /\ u \in Nat /\ a <= u /\ v \in Nat
            /\ First(l) = a /\ First(r) = l + 1 /\ r = u - 1
        BY <1>6, <2>1, <3>2
      <4>2. a <= l
        BY <1>1, <2>1, Subtree
      <4> HIDE DEF a
      <4>3. v \in a .. u <=> (v \in a .. l \/ v \in l + 1 .. u - 1 \/ v = u)
        BY <2>1, <4>1, <4>2
      <4> QED BY <4>1, <4>3 DEF a
    <3>4. ASSUME NEW i \in 1 .. m, v \notin First(u) .. u, v \in First(doomed[i]) .. doomed[i]
          PROVE  \E j \in 1 .. m + 1 : v \in First(doomed'[j]) .. doomed'[j]
      <4>1. i # 1
        BY <3>2, <3>4
      <4>2. i + 1 \in 3 .. m + 1 /\ (i + 1) - 1 = i /\ i + 1 \in 1 .. m + 1
        BY <1>2, <4>1
      <4>3. doomed'[i + 1] = doomed[i]
        BY <2>3, <4>2
      <4> QED BY <3>4, <4>2, <4>3
    <3>5. ASSUME NEW j \in 1 .. m + 1, v \in First(doomed'[j]) .. doomed'[j]
          PROVE  v # u /\ \E i \in 1 .. m : v \in First(doomed[i]) .. doomed[i]
      <4>1. CASE j \in {1, 2}
        <5>1. v \in First(l) .. l \/ v \in First(r) .. r
          BY <2>3, <3>5, <4>1
        <5>2. v < u
          BY <1>6, <2>1, <3>2, <5>1
        <5> QED BY <1>6, <3>2, <3>3, <5>1, <5>2
      <4>2. CASE j \in 3 .. m + 1
        <5>1. doomed'[j] = doomed[j - 1] /\ j - 1 \in 1 .. m /\ j - 1 > 1
          BY <2>3, <2>4, <4>2
        <5>2. u < First(doomed[j - 1]) /\ First(doomed[j - 1]) \in Int /\ doomed[j - 1] \in Int
          BY <1>5, <2>5, <5>1
        <5>3. v \in First(doomed[j - 1]) .. doomed[j - 1]
          BY <3>5, <5>1
        <5> QED BY <1>6, <3>2, <5>1, <5>2, <5>3
      <4> QED BY <2>4, <4>1, <4>2
    <3>6. CASE v = u
      <4>1. \A j \in 1 .. m + 1 : v \notin First(doomed'[j]) .. doomed'[j]
        BY <3>5, <3>6
      <4> QED BY <1>8, <3>6, <4>1
    <3>7. CASE v # u
      <4>1. (\E i \in 1 .. m : v \in First(doomed[i]) .. doomed[i])
               => \E j \in 1 .. m + 1 : v \in First(doomed'[j]) .. doomed'[j]
        <5>1. CASE v \in First(u) .. u
          <6>1. v \in First(l) .. l \/ v \in First(r) .. r
            BY <3>3, <3>7, <5>1
          <6> QED BY <2>3, <3>2, <6>1
        <5>2. CASE v \notin First(u) .. u
          BY <3>4, <5>2
        <5> QED BY <5>1, <5>2
      <4>2. (\E j \in 1 .. m + 1 : v \in First(doomed'[j]) .. doomed'[j])
               => \E i \in 1 .. m : v \in First(doomed[i]) .. doomed[i]
        BY <3>5
      <4> QED BY <3>1, <3>7, <4>1, <4>2
    <3> QED BY <3>6, <3>7
  <2>8. /\ \A i, j \in 1 .. Len(doomed') : i < j => doomed'[i] < First(doomed'[j])
        /\ \A v \in Nodes : v \in freed' <=> ~IsLeaf(v) /\ \A i \in 1 .. Len(doomed') : v \notin First(doomed'[i]) .. doomed'[i]
    BY <2>2, <2>3, <2>6, <2>7
  <2>9. freed' \subseteq Nodes
    BY <1>2, <1>4, <2>2
  <2> QED BY <1>1, <1>3, <2>3, <2>8, <2>9 DEF DoomedOK, First, IsLeaf
<1> QED BY <1>7, <1>8

\* No other step changes what is to be deleted.
LEMMA DoomedStep ==
  ASSUME HeapOK, HeapOK', DoomedOK, [Next]_vars
  PROVE  DoomedOK'
<1>1. CASE StartDelete
  BY <1>1, StartDeleteDoomed
<1>2. CASE deletekdTree
  BY <1>2, DeleteDoomed
<1>3. CASE UNCHANGED vars
  BY <1>3 DEF vars, build, DoomedOK, Nodes, First, IsLeaf
<1>4. CASE read_data_points \/ compute_bounding_box \/ Leaf \/ BuildLeft \/ BuildRight \/ Join
  <2>1. phase \in {"read", "box", "build"} /\ doomed' = doomed /\ freed' = freed
    BY <1>4 DEF read_data_points, compute_bounding_box, Leaf, BuildLeft, BuildRight, Join
  <2>2. phase' # "delete"
    BY <1>4 DEF read_data_points, compute_bounding_box, Leaf, BuildLeft, BuildRight, Join, Return
  <2>3. doomed = <<>> /\ freed = {}
    BY <2>1 DEF DoomedOK
  <2> QED BY <2>1, <2>2, <2>3 DEF DoomedOK
<1> QED BY <1>1, <1>2, <1>3, <1>4 DEF Next

\* The inductive invariant of build and deletion.
IInv == HeapInv /\ DoomedOK

\* The invariant gives the type invariant,
LEMMA IInvTypeOK == IInv => TypeOK
<1> SUFFICES ASSUME IInv PROVE TypeOK
  OBVIOUS
<1>1. PICK h : Heights(h)
  BY DEF IInv, HeapInv
<1>2. CallsOK /\ TreeOK /\ HeapSeq /\ ArraysOK /\ ret \in 0 .. Len(heap) /\ HeapOK
  BY DEF IInv, HeapInv, HeapOK, TreeOK, CallsOK
<1>3. \A i \in 1 .. Len(calls) : calls[i].n \in 1 .. N /\ calls[i].base \in 0 .. N - calls[i].n
  <2> TAKE i \in 1 .. Len(calls)
  <2> DEFINE c == calls[i]
  <2>1. c \in Frame /\ FrameOK(c)
    BY <1>2 DEF CallsOK
  <2> HIDE DEF c
  <2>2. c.n \in 1 .. N /\ c.base \in 0 .. N - 1 /\ c.base + c.n <= N
    BY <2>1 DEF Frame, FrameOK
  <2>3. c.base \in 0 .. N - c.n
    BY <2>2, Sizes
  <2> QED BY <2>2, <2>3 DEF c
<1>4. Len(heap) <= 2 * N - 1
  <2>1. CASE phase = "build"
    <3> DEFINE a == h[Len(calls)]  b == Top.base  n == Top.n  k == Top.n_lo
    <3>1. /\ a \in Nat /\ a <= 2 * b /\ b \in Nat /\ n \in Nat \ {0} /\ b + n <= N /\ Len(heap) \in Nat
          /\ PartBuilt(heap, ret, Top, a) /\ (Top.pc # "enter" => k \in 1 .. n - 1)
      BY <1>1, <1>2, <2>1, TopHeight
    <3>2. \/ Len(heap) = a + 0
          \/ Len(heap) = a + (2 * k - 1) /\ k \in 1 .. n - 1
          \/ Len(heap) = a + (2 * n - 2)
      BY <3>1 DEF PartBuilt, After
    <3> HIDE DEF a, b, n, k
    <3> QED BY <3>1, <3>2, Sizes
  <2>2. CASE phase \in {"read", "failed", "box"}
    <3>1. heap = <<>>
      BY <1>2, <2>2 DEF HeapOK
    <3> QED BY <3>1, Sizes
  <2>3. CASE phase \in {"run", "delete"}
    BY <1>2, <2>3, Sizes DEF HeapOK, TreeBuilt
  <2> QED BY <1>2, <2>1, <2>2, <2>3 DEF CallsOK
<1>5. \A u \in Nodes : heap[u].left < u /\ heap[u].right < u
  <2> TAKE u \in Nodes
  <2>1. u \in Nat \ {0}
    BY <1>2, Subtree
  <2>2. CASE IsLeaf(u)
    BY <2>1, <2>2 DEF IsLeaf, None
  <2>3. CASE ~IsLeaf(u)
    <3> DEFINE l == heap[u].left  r == heap[u].right
    <3>1. l \in Nodes /\ r \in Nodes /\ r = u - 1 /\ l < r
      BY <1>2, <2>3, Subtree
    <3>2. l \in Int
      BY <1>2, <3>1, Subtree
    <3> HIDE DEF l, r
    <3>3. l < u /\ r < u
      BY <2>1, <3>1, <3>2
    <3> QED BY <3>3 DEF l, r
  <2> QED BY <2>2, <2>3
<1>6. freed \subseteq Nodes
  BY DEF IInv, DoomedOK
<1> QED BY <1>2, <1>3, <1>4, <1>5, <1>6 DEF TypeOK, ArraysOK

\* that nothing is deleted twice,
LEMMA IInvDeletedOnce == IInv => DeletedOnce
<1> SUFFICES ASSUME IInv PROVE DeletedOnce
  OBVIOUS
<1>1. DoomedOK /\ TreeOK
  BY DEF IInv, HeapInv, HeapOK
<1>2. CASE phase = "delete"
  <2>1. \A u \in Nodes : u \in freed <=> ~IsLeaf(u) /\ \A i \in 1 .. Len(doomed) : u \notin First(doomed[i]) .. doomed[i]
    BY <1>1, <1>2 DEF DoomedOK
  <2>2. \A i \in 1 .. Len(doomed) : /\ doomed[i] \in Nodes /\ doomed[i] \in Nat
                                    /\ First(doomed[i]) \in 1 .. doomed[i]
    <3>1. \A i \in 1 .. Len(doomed) : doomed[i] \in Nodes
      BY <1>1 DEF DoomedOK
    <3> QED BY <1>1, <3>1, Subtree
  <2>3. \A i \in 1 .. Len(doomed) : doomed[i] \in First(doomed[i]) .. doomed[i]
    BY <2>2
  <2>4. \A i \in 1 .. Len(doomed) : doomed[i] \notin freed
    BY <2>1, <2>2, <2>3
  <2>5. \A i, j \in 1 .. Len(doomed) : i < j => doomed[i] < First(doomed[j])
    BY <1>1 DEF DoomedOK
  <2>6. ASSUME NEW i \in 1 .. Len(doomed), NEW j \in 1 .. Len(doomed), i # j
        PROVE  doomed[i] # doomed[j]
    <3>1. i < j \/ j < i
      BY <2>6
    <3> QED BY <2>2, <2>5, <3>1
  <2>7. doomed = <<>> => freed = {u \in Nodes : ~IsLeaf(u)}
    <3> SUFFICES ASSUME doomed = <<>> PROVE freed = {u \in Nodes : ~IsLeaf(u)}
      OBVIOUS
    <3>1. Len(doomed) = 0 /\ freed \subseteq Nodes
      BY <1>1 DEF DoomedOK
    <3> QED BY <2>1, <3>1
  <2> QED BY <2>4, <2>6, <2>7 DEF DeletedOnce
<1>3. CASE phase # "delete"
  <2>1. doomed = <<>> /\ Len(doomed) = 0
    BY <1>1, <1>3 DEF DoomedOK
  <2> QED BY <1>3, <2>1 DEF DeletedOnce
<1> QED BY <1>2, <1>3

\* and that splits are sound.
LEMMA IInvSplitSound == IInv => SplitSound
<1> SUFFICES ASSUME IInv, phase = "build", Active("enter"), Top.n > 1
             PROVE  LET s == split_bounding_box(Top.base, Top.n)
                        key(i) == data_points[s.arr[i]][s.cdim]
                    IN  /\ s.n_lo \in 1 .. Top.n - 1
                        /\ s.lowest >= 0
                        /\ \A i \in 0 .. Top.n - 1 : IF i < s.n_lo THEN key(i) <= s.cval ELSE key(i) >= s.cval
  BY DEF SplitSound
<1>1. CallsOK
  BY DEF IInv, HeapInv, HeapOK
<1> DEFINE s == split_bounding_box(Top.base, Top.n)
<1>2. SplitOf(s, Top.base, Top.n)
  BY <1>1, TopSplit
<1> HIDE DEF s
<1>3. /\ s.n_lo \in 1 .. Top.n - 1 /\ s.lowest >= 0
      /\ \A i \in 0 .. Top.n - 1 : IF i < s.n_lo THEN data_points[s.arr[i]][s.cdim] <= s.cval
                                     ELSE data_points[s.arr[i]][s.cdim] >= s.cval
  BY <1>2 DEF SplitOf
<1> QED BY <1>3 DEF s

\* It holds in every state.
LEMMA IInvInductive == Spec => []IInv
<1>1. Init => HeapInv /\ DoomedOK
  <2> SUFFICES ASSUME Init PROVE HeapInv /\ DoomedOK
    OBVIOUS
  <2>1. HeapInv
    BY InitHeap
  <2>2. doomed = <<>> /\ freed = {} /\ phase = "read" /\ heap = <<>>
    BY DEF Init
  <2>3. doomed \in Seq(Nodes) /\ Len(doomed) = 0
    BY <2>2
  <2> QED BY <2>1, <2>2, <2>3 DEF DoomedOK
<1>2. IInv /\ [Next]_vars => IInv'
  <2> SUFFICES ASSUME IInv, [Next]_vars PROVE IInv'
    OBVIOUS
  <2>1. HeapInv'
    BY HeapStep DEF IInv
  <2>2. HeapOK /\ HeapOK' /\ DoomedOK
    BY <2>1 DEF IInv, HeapInv
  <2>3. DoomedOK'
    BY <2>2, DoomedStep
  <2> QED BY <2>1, <2>3 DEF IInv
<1>3. Init => IInv
  BY <1>1 DEF IInv
<1> QED BY <1>2, <1>3, PTL DEF Spec

\* The tree never outgrows its 2 N - 1 nodes, every node is made after its children, and
\* no variable leaves its type.
THEOREM KdTypeOK == Spec => []TypeOK
BY IInvInductive, IInvTypeOK, PTL

\* A split leaves a point on either side, reads only its range, and its cut separates the
\* points.
THEOREM KdSplitSound == Spec => []SplitSound
BY IInvInductive, IInvSplitSound, PTL

\* deletekdTree examines no node after deleting it, deletes none twice, and in the end has
\* deleted the inner nodes.
THEOREM KdDeletedOnce == Spec => []DeletedOnce
BY IInvInductive, IInvDeletedOnce, PTL

-----------------------------------------------------------------------------
(***************************************************************************)
(* The boxes.                                                              *)
(***************************************************************************)

\* The point p lies in the box.
InBox(p, lo, hi) == \A d \in Dims : p[d] \in lo[d] .. hi[d]

\* The point at each position of index_arr.
Placed == [j \in 0 .. N - 1 |-> data_points[index_arr[j]]]

\* The shared box while the call c, whose own box is lo and hi, is the innermost one.
CurLo(c, lo) == IF c.pc = "right" THEN [lo EXCEPT ![c.cdim] = c.cval] ELSE lo
CurHi(c, hi) == IF c.pc = "left" THEN [hi EXCEPT ![c.cdim] = c.cval] ELSE hi

\* The points of the range of a call that began with h nodes, and the leaves made since,
\* lie in its box; while it waits for the left part, the right one lies above the cut.
CallBox(at, nodes, c, h, lo, hi) ==
  /\ c.pc # "enter" => c.hv = hi[c.cdim] /\ c.lv = lo[c.cdim]
  /\ \A j \in c.base .. c.base + c.n - 1 : InBox(at[j], lo, hi)
  /\ \A l \in h + 1 .. Len(nodes) : nodes[l].left = None /\ nodes[l].right = None => InBox(nodes[l].wgtCent, lo, hi)
  /\ c.pc = "left" => \A j \in c.base + c.n_lo .. c.base + c.n - 1 : at[j][c.cdim] >= c.cval

\* The i-th call has the box lo[i], hi[i], and the shared box is as the innermost needs it.
Boxes(h, lo, hi) ==
  /\ lo \in [1 .. Len(calls) -> Point] /\ hi \in [1 .. Len(calls) -> Point]
  /\ \A i \in 1 .. Len(calls) : CallBox(Placed, heap, calls[i], h[i], lo[i], hi[i])
  /\ \A i \in 1 .. Len(calls) - 1 : lo[i + 1] = CurLo(calls[i], lo[i]) /\ hi[i + 1] = CurHi(calls[i], hi[i])
  /\ calls # <<>> => bnd_lo = CurLo(Top, lo[Len(calls)]) /\ bnd_hi = CurHi(Top, hi[Len(calls)])

\* A node's box holds the leaves of its subtree.
BoxesOK ==
  \A u \in Nodes : \A l \in First(u) .. u :
    IsLeaf(l) => InBox(heap[l].wgtCent, heap[u].bnd_lo, heap[u].bnd_hi)

\* The ranges of the calls around the innermost one hold its range.
LEMMA OuterRanges ==
  ASSUME CallsOK, calls # <<>>, NEW i \in 1 .. Len(calls) - 1
  PROVE  /\ calls[i] \in Frame
         /\ Top.base .. Top.base + Top.n - 1 \subseteq calls[i].base .. calls[i].base + calls[i].n - 1
         /\ calls[i].pc = "left" =>
              \A j \in calls[i].base + calls[i].n_lo .. calls[i].base + calls[i].n - 1 :
                 j \notin Top.base .. Top.base + Top.n - 1
<1> DEFINE c == calls[i]
           fb == c.base  fn == c.n  fl == c.n_lo
           eb == Top.base  en == Top.n
<1>1. /\ Len(calls) \in Nat \ {0} /\ Top \in Frame /\ c.pc # "enter" /\ Inside(c, Top)
  BY TopIs
<1>2. c \in Frame /\ FrameOK(c)
  <2>1. i \in 1 .. Len(calls)
    BY <1>1
  <2> QED BY <2>1 DEF CallsOK
<1> HIDE DEF c
<1>3. fb \in Int /\ fn \in Int /\ fl \in 1 .. fn - 1 /\ eb \in Int /\ en \in Int
  BY <1>1, <1>2 DEF Frame, FrameOK
<1>4. IF c.pc = "left" THEN eb >= fb /\ eb + en <= fb + fl ELSE eb >= fb + fl /\ eb + en <= fb + fn
  BY <1>1 DEF Inside
<1> HIDE DEF fb, fn, fl, eb, en
<1>5. eb .. eb + en - 1 \subseteq fb .. fb + fn - 1
  BY <1>3, <1>4
<1>6. c.pc = "left" => \A j \in fb + fl .. fb + fn - 1 : j \notin eb .. eb + en - 1
  BY <1>3, <1>4
<1> QED BY <1>2, <1>5, <1>6 DEF c, fb, fn, fl, eb, en

\* A call that ends leaves the box of the part that the call around it waited for.
LEMMA PopBoxes ==
  ASSUME CallsOK, HeapSeq, NEW h, Heights(h), NEW lo, NEW hi, Boxes(h, lo, hi), calls # <<>>,
         NEW x, heap' = Append(heap, x), calls' = Outer, Placed' = Placed,
         x.left = None /\ x.right = None => x.wgtCent = Placed[Top.base],
         bnd_lo' = lo[Len(calls)], bnd_hi' = hi[Len(calls)],
         NEW g, g = [i \in 1 .. Len(calls) - 1 |-> h[i]],
         NEW glo, glo = [i \in 1 .. Len(calls) - 1 |-> lo[i]],
         NEW ghi, ghi = [i \in 1 .. Len(calls) - 1 |-> hi[i]]
  PROVE  Boxes(g, glo, ghi)'
<1> DEFINE K == Len(calls)
<1>1. /\ Len(Outer) = K - 1 /\ K \in Nat \ {0}
      /\ \A i \in 1 .. K - 1 : Outer[i] = calls[i] /\ i \in 1 .. K
  BY OuterOK
<1>2. /\ Len(heap) \in Nat /\ Len(heap') = Len(heap) + 1 /\ heap'[Len(heap) + 1] = x
      /\ \A v \in 1 .. Len(heap) : heap'[v] = heap[v]
  BY HeapGrows DEF Nodes
<1>3. /\ lo \in [1 .. K -> Point] /\ hi \in [1 .. K -> Point]
      /\ \A i \in 1 .. K : CallBox(Placed, heap, calls[i], h[i], lo[i], hi[i])
      /\ \A i \in 1 .. K - 1 : lo[i + 1] = CurLo(calls[i], lo[i]) /\ hi[i + 1] = CurHi(calls[i], hi[i])
  BY DEF Boxes
<1>4. \A i \in 1 .. K - 1 : /\ g[i] = h[i] /\ glo[i] = lo[i] /\ ghi[i] = hi[i] /\ calls'[i] = calls[i]
                            /\ h[i] \in Nat
  BY <1>1 DEF Heights
<1>5. glo \in [1 .. K - 1 -> Point] /\ ghi \in [1 .. K - 1 -> Point]
  BY <1>1, <1>3
<1>6. Top \in Frame
  BY TopIs
<1>7. Top.base \in Top.base .. Top.base + Top.n - 1
  BY <1>6 DEF Frame
<1> HIDE DEF K
<1>8. ASSUME NEW i \in 1 .. K - 1
      PROVE  CallBox(Placed', heap', calls'[i], g[i], glo[i], ghi[i])
  <2> DEFINE c == calls[i]  b == h[i]  il == lo[i]  ih == hi[i]
  <2>1. CallBox(Placed, heap, c, b, il, ih) /\ b \in Nat
    BY <1>1, <1>3, <1>4
  <2>2. Top.base \in c.base .. c.base + c.n - 1
    BY <1>7, OuterRanges DEF K
  <2>3. g[i] = b /\ glo[i] = il /\ ghi[i] = ih /\ calls'[i] = c
    BY <1>4
  <2> HIDE DEF c, b, il, ih
  <2>4. InBox(Placed[Top.base], il, ih)
    BY <2>1, <2>2 DEF CallBox
  <2>5. ASSUME NEW l \in b + 1 .. Len(heap'), heap'[l].left = None, heap'[l].right = None
        PROVE  InBox(heap'[l].wgtCent, il, ih)
    <3>1. CASE l = Len(heap) + 1
      <4>1. heap'[l].wgtCent = Placed[Top.base]
        BY <1>2, <2>5, <3>1
      <4> QED BY <2>4, <4>1
    <3>2. CASE l # Len(heap) + 1
      <4>1. l \in b + 1 .. Len(heap) /\ l \in 1 .. Len(heap)
        BY <1>2, <2>1, <3>2
      <4>2. heap'[l] = heap[l]
        BY <1>2, <4>1
      <4> QED BY <2>1, <2>5, <4>1, <4>2 DEF CallBox
    <3> QED BY <3>1, <3>2
  <2>6. CallBox(Placed', heap', c, b, il, ih)
    BY <2>1, <2>5 DEF CallBox
  <2> QED BY <2>3, <2>6
<1>9. ASSUME NEW i \in 1 .. (K - 1) - 1
      PROVE  glo[i + 1] = CurLo(calls'[i], glo[i]) /\ ghi[i + 1] = CurHi(calls'[i], ghi[i])
  <2>1. i \in 1 .. K - 1 /\ i + 1 \in 1 .. K - 1
    BY <1>1
  <2> QED BY <1>3, <1>4, <2>1
<1>10. calls' # <<>> => bnd_lo' = CurLo(Top', glo[K - 1]) /\ bnd_hi' = CurHi(Top', ghi[K - 1])
  <2> SUFFICES ASSUME calls' # <<>> PROVE bnd_lo' = CurLo(Top', glo[K - 1]) /\ bnd_hi' = CurHi(Top', ghi[K - 1])
    OBVIOUS
  <2>1. K # 1
    <3> SUFFICES ASSUME K = 1 PROVE FALSE
      OBVIOUS
    <3>1. calls' \in Seq(Frame) /\ Len(calls') = 0
      BY <1>1, OuterOK
    <3> QED BY <3>1
  <2>2. K - 1 \in 1 .. K - 1 /\ (K - 1) + 1 = K
    BY <1>1, <2>1
  <2>3. Top' = calls[K - 1]
    BY <1>1, <1>4, <2>2 DEF Top
  <2>4. lo[(K - 1) + 1] = CurLo(calls[K - 1], lo[K - 1]) /\ hi[(K - 1) + 1] = CurHi(calls[K - 1], hi[K - 1])
    BY <1>3, <2>2
  <2>5. bnd_lo' = lo[K] /\ bnd_hi' = hi[K]
    BY DEF K
  <2> QED BY <1>4, <2>2, <2>3, <2>4, <2>5
<1>11. Len(calls') = K - 1
  BY <1>1
<1> QED BY <1>5, <1>8, <1>9, <1>10, <1>11 DEF Boxes

\* f for the calls on the stack, x for the call that comes on top.
Extended(f, x) == [i \in 1 .. Len(calls) + 1 |-> IF i = Len(calls) + 1 THEN x ELSE f[i]]

\* A call whose frame becomes c makes the call e on a part that lies in the new box.
PushesBox(c, e, h, lo, hi) ==
  /\ CallsOK /\ HeapSeq /\ Boxes(h, lo, hi) /\ calls # <<>> /\ heap' = heap
  /\ c \in Frame /\ e \in Frame /\ calls' = Outer \o <<c, e>> /\ e.pc = "enter"
  /\ \A i \in 1 .. Len(calls) - 1 : CallBox(Placed', heap, calls[i], h[i], lo[i], hi[i])
  /\ CallBox(Placed', heap, c, h[Len(calls)], lo[Len(calls)], hi[Len(calls)])
  /\ \A j \in e.base .. e.base + e.n - 1 : InBox(Placed'[j], bnd_lo', bnd_hi')
  /\ bnd_lo' \in Point /\ bnd_hi' \in Point
  /\ bnd_lo' = CurLo(c, lo[Len(calls)]) /\ bnd_hi' = CurHi(c, hi[Len(calls)])

\* What holds of the boxes after such a call.
LEMMA PushBoxes ==
  ASSUME NEW c, NEW e, NEW h, NEW lo, NEW hi, PushesBox(c, e, h, lo, hi),
         NEW nlo, nlo = bnd_lo', NEW nhi, nhi = bnd_hi',
         NEW g, g = Extended(h, Len(heap)),
         NEW glo, glo = Extended(lo, nlo), NEW ghi, ghi = Extended(hi, nhi)
  PROVE  Boxes(g, glo, ghi)'
<1> USE DEF Extended
<1>0. /\ CallsOK /\ HeapSeq /\ Boxes(h, lo, hi) /\ calls # <<>> /\ heap' = heap
      /\ c \in Frame /\ e \in Frame /\ calls' = Outer \o <<c, e>> /\ e.pc = "enter"
      /\ nlo \in Point /\ nhi \in Point
  BY DEF PushesBox
<1> DEFINE K == Len(calls)
<1>1. /\ Len(calls') = K + 1 /\ calls' # <<>>
      /\ \A i \in 1 .. K - 1 : calls'[i] = calls[i]
      /\ calls'[K] = c /\ calls'[K + 1] = e
  BY <1>0, PushedCalls
<1>2. K \in Nat \ {0} /\ Len(heap) \in Nat
  <2>1. K \in Nat \ {0}
    BY <1>0, TopIs
  <2>2. PICK S : heap \in Seq(S)
    BY <1>0 DEF HeapSeq
  <2> QED BY <2>1, <2>2
<1>3. /\ lo \in [1 .. K -> Point] /\ hi \in [1 .. K -> Point]
      /\ \A i \in 1 .. K - 1 : lo[i + 1] = CurLo(calls[i], lo[i]) /\ hi[i + 1] = CurHi(calls[i], hi[i])
  BY <1>0 DEF Boxes
<1>4. /\ g[K + 1] = Len(heap) /\ glo[K + 1] = nlo /\ ghi[K + 1] = nhi
      /\ \A i \in 1 .. K : g[i] = h[i] /\ glo[i] = lo[i] /\ ghi[i] = hi[i]
  BY <1>2
<1>5. glo \in [1 .. K + 1 -> Point] /\ ghi \in [1 .. K + 1 -> Point]
  <2>1. \A i \in 1 .. K + 1 : i = K + 1 \/ i \in 1 .. K
    BY <1>2
  <2>2. \A i \in 1 .. K + 1 : glo[i] \in Point /\ ghi[i] \in Point
    BY <1>0, <1>3, <1>4, <2>1
  <2> QED BY <2>2
<1>6. /\ \A i \in 1 .. K - 1 : CallBox(Placed', heap, calls[i], h[i], lo[i], hi[i])
      /\ CallBox(Placed', heap, c, h[K], lo[K], hi[K])
      /\ nlo = CurLo(c, lo[K]) /\ nhi = CurHi(c, hi[K])
      /\ \A j \in e.base .. e.base + e.n - 1 : InBox(Placed'[j], nlo, nhi)
  BY DEF PushesBox
<1>7. Top' = e
  BY <1>1 DEF Top
<1> HIDE DEF K
<1>8. ASSUME NEW i \in 1 .. K + 1
      PROVE  CallBox(Placed', heap', calls'[i], g[i], glo[i], ghi[i])
  <2>1. CASE i \in 1 .. K - 1
    <3>1. i \in 1 .. K
      BY <1>2, <2>1
    <3> QED BY <1>0, <1>1, <1>4, <1>6, <2>1, <3>1
  <2>2. CASE i = K
    <3>1. K \in 1 .. K
      BY <1>2
    <3> QED BY <1>0, <1>1, <1>4, <1>6, <2>2, <3>1
  <2>3. CASE i = K + 1
    <3>1. Len(heap) + 1 .. Len(heap') = {}
      BY <1>0, <1>2
    <3>2. CallBox(Placed', heap', e, Len(heap), nlo, nhi)
      BY <1>0, <1>6, <3>1 DEF CallBox
    <3> QED BY <1>1, <1>4, <2>3, <3>2
  <2>4. i \in 1 .. K - 1 \/ i = K \/ i = K + 1
    BY <1>2
  <2> QED BY <2>1, <2>2, <2>3, <2>4
<1>9. ASSUME NEW i \in 1 .. (K + 1) - 1
      PROVE  glo[i + 1] = CurLo(calls'[i], glo[i]) /\ ghi[i + 1] = CurHi(calls'[i], ghi[i])
  <2>1. CASE i = K
    <3>1. K \in 1 .. K
      BY <1>2
    <3> QED BY ZenonT(60), <1>0, <1>1, <1>4, <1>6, <2>1, <3>1
  <2>2. CASE i # K
    <3>1. i \in 1 .. K - 1 /\ i \in 1 .. K /\ i + 1 \in 1 .. K
      BY <1>2, <2>2
    <3> QED BY ZenonT(60), <1>1, <1>3, <1>4, <3>1
  <2> QED BY <2>1, <2>2
<1>10. bnd_lo' = CurLo(Top', glo[K + 1]) /\ bnd_hi' = CurHi(Top', ghi[K + 1])
  BY <1>0, <1>4, <1>7 DEF CurLo, CurHi
<1> QED BY <1>1, <1>5, <1>8, <1>9, <1>10 DEF Boxes

\* The leaves of a subtree are those among its nodes.
LEMMA LeavesAre ==
  ASSUME TreeOK
  PROVE  /\ \A u \in Nodes : leaves[u] = {l \in First(u) .. u : IsLeaf(l)}
         /\ \A u \in Nodes : leaves[u] = IF IsLeaf(u) THEN {u} ELSE leaves[heap[u].left] \cup leaves[heap[u].right]
<1> DEFINE L == [u \in Nodes |-> {l \in First(u) .. u : IsLeaf(l)}]
           Eq(f) == f = [u \in Nodes |-> IF IsLeaf(u) THEN {u} ELSE f[heap[u].left] \cup f[heap[u].right]]
<1>1. ASSUME NEW u \in Nodes
      PROVE  L[u] = IF IsLeaf(u) THEN {u} ELSE L[heap[u].left] \cup L[heap[u].right]
  <2>1. u \in Nat \ {0} /\ First(u) \in 1 .. u
    BY Subtree
  <2>2. CASE IsLeaf(u)
    <3>1. First(u) = u
      BY <2>2, Subtree
    <3>2. First(u) .. u = {u}
      BY <2>1, <3>1
    <3> QED BY <2>2, <3>2
  <2>3. CASE ~IsLeaf(u)
    <3> DEFINE l == heap[u].left
               r == heap[u].right
    <3>1. l \in Nodes /\ r \in Nodes /\ r = u - 1 /\ First(r) = l + 1 /\ First(l) = First(u) /\ l < r
      BY <2>3, Subtree
    <3>2. l \in Nat \ {0} /\ First(l) \in 1 .. l
      BY <3>1, Subtree
    <3>3. L[l] = {v \in First(l) .. l : IsLeaf(v)} /\ L[r] = {v \in First(r) .. r : IsLeaf(v)}
      BY <3>1
    <3>4. L[u] = {v \in First(u) .. u : IsLeaf(v)}
      OBVIOUS
    <3> HIDE DEF l, r, L
    <3>5. \A v : v \in First(u) .. u <=> v \in First(l) .. l \/ v \in First(r) .. r \/ v = u
      BY <2>1, <3>1, <3>2
    <3>6. L[u] = L[l] \cup L[r]
      BY <2>3, <3>3, <3>4, <3>5
    <3> QED BY <2>3, <3>6 DEF l, r
  <2> QED BY <2>2, <2>3
<1>2. Eq(L)
  <2>1. L = [u \in Nodes |-> L[u]]
    OBVIOUS
  <2> HIDE DEF L
  <2> QED BY <1>1, <2>1
<1>3. leaves = CHOOSE f : Eq(f)
  BY DEF leaves
<1> HIDE DEF L
<1>4. Eq(leaves)
  <2> HIDE DEF Eq
  <2> QED BY <1>2, <1>3
<1>5. \A u \in Nodes : leaves[u] = IF IsLeaf(u) THEN {u} ELSE leaves[heap[u].left] \cup leaves[heap[u].right]
  BY <1>4
<1> DEFINE B == {u \in Nodes : leaves[u] # L[u]}
<1>6. B = {}
  <2> SUFFICES ASSUME B # {} PROVE FALSE
    OBVIOUS
  <2>1. IsFiniteSet(B) /\ B \subseteq Int
    <3>1. Len(heap) \in Nat
      BY HeapLen
    <3>2. IsFiniteSet(Nodes) /\ Nodes \subseteq Int /\ B \in SUBSET Nodes
      BY <3>1, FS_Interval DEF Nodes
    <3> HIDE DEF B
    <3>3. IsFiniteSet(B)
      BY <3>2, FS_Subset
    <3> QED BY <3>2, <3>3
  <2>2. PICK u \in B : \A v \in B : u <= v
    <3> HIDE DEF B
    <3> QED BY <2>1, Least
  <2>3. u \in Nodes /\ u \in Nat \ {0} /\ leaves[u] # L[u]
    BY Subtree
  <2>4. ~IsLeaf(u)
    BY <1>1, <1>5, <2>3
  <2> DEFINE l == heap[u].left
             r == heap[u].right
  <2>5. l \in Nodes /\ r \in Nodes /\ r = u - 1 /\ l < r /\ l \in Nat
    BY <2>3, <2>4, Subtree
  <2>6. leaves[u] = leaves[l] \cup leaves[r] /\ L[u] = L[l] \cup L[r]
    BY <1>1, <1>5, <2>3, <2>4
  <2> HIDE DEF l, r
  <2>7. ~(u <= l) /\ ~(u <= r)
    BY <2>3, <2>5
  <2>8. leaves[l] = L[l] /\ leaves[r] = L[r]
    BY <2>2, <2>5, <2>7
  <2> QED BY <2>3, <2>6, <2>8
<1>7. \A u \in Nodes : leaves[u] = {l \in First(u) .. u : IsLeaf(l)}
  BY <1>6 DEF L
<1> QED BY <1>5, <1>7

LEMMA BoxesAreHeld == TreeOK /\ BoxesOK => BoxesHold
<1> SUFFICES ASSUME TreeOK, BoxesOK, NEW u \in Nodes, NEW l \in leaves[u], NEW d \in Dims
             PROVE  heap[l].wgtCent[d] \in heap[u].bnd_lo[d] .. heap[u].bnd_hi[d]
  BY DEF BoxesHold
<1>1. l \in First(u) .. u /\ IsLeaf(l)
  BY LeavesAre
<1> QED BY <1>1 DEF BoxesOK, InBox

LEMMA BoxTop ==
  ASSUME CallsOK, calls # <<>>, NEW h, NEW lo, NEW hi, Boxes(h, lo, hi)
  PROVE  LET K == Len(calls)
         IN  /\ K \in Nat \ {0} /\ lo[K] \in Point /\ hi[K] \in Point
             /\ CallBox(Placed, heap, Top, h[K], lo[K], hi[K])
             /\ bnd_lo = CurLo(Top, lo[K]) /\ bnd_hi = CurHi(Top, hi[K])
<1>1. Len(calls) \in Nat \ {0}
  BY TopIs
<1>2. Len(calls) \in 1 .. Len(calls)
  BY <1>1
<1> QED BY <1>1, <1>2 DEF Boxes, Top

LEMMA PlacedIs ==
  ASSUME ArraysOK
  PROVE  Placed \in [0 .. N - 1 -> Point] /\ \A j \in 0 .. N - 1 : Placed[j] = data_points[index_arr[j]]
BY DEF ArraysOK, Placed

\* A new node's box holds the leaves below it.
LEMMA BoxesGrow ==
  ASSUME TreeOK, TreeOK', BoxesOK, NEW x, heap' = Append(heap, x),
         NEW u, u = Len(heap) + 1, NEW f \in Nat, f = u + 2 - 2 * x.count,
         \A l \in f .. Len(heap) : IsLeaf(l) => InBox(heap[l].wgtCent, x.bnd_lo, x.bnd_hi),
         x.left = None /\ x.right = None => InBox(x.wgtCent, x.bnd_lo, x.bnd_hi)
  PROVE  BoxesOK'
<1>1. HeapSeq
  BY DEF TreeOK
<1>2. /\ Len(heap) \in Nat /\ Len(heap') = Len(heap) + 1 /\ heap'[u] = x
      /\ \A v \in 1 .. Len(heap) : heap'[v] = heap[v]
  BY <1>1, HeapGrows DEF Nodes
<1>3. f \in 1 .. u
  <2>1. u \in Nodes'
    BY <1>2 DEF Nodes
  <2>2. x.count \in Nat \ {0} /\ 2 * x.count <= u + 1
    BY <1>2, <2>1 DEF TreeOK, NodeOK
  <2> QED BY <1>2, <2>2
<1>4. ASSUME NEW v \in Nodes', NEW l \in v + 2 - 2 * heap'[v].count .. v, heap'[l].left = None, heap'[l].right = None
      PROVE  InBox(heap'[l].wgtCent, heap'[v].bnd_lo, heap'[v].bnd_hi)
  <2>1. CASE v = u
    <3>1. l \in f .. u
      BY <1>2, <1>4, <2>1
    <3>2. CASE l = u
      BY <1>2, <1>4, <2>1, <3>2
    <3>3. CASE l # u
      <4>1. l \in f .. Len(heap) /\ l \in 1 .. Len(heap)
        BY <1>2, <1>3, <3>1, <3>3
      <4>2. heap'[l] = heap[l] /\ IsLeaf(l)
        BY <1>2, <1>4, <4>1 DEF IsLeaf
      <4> QED BY <1>2, <2>1, <4>1, <4>2
    <3> QED BY <3>2, <3>3
  <2>2. CASE v # u
    <3>1. v \in 1 .. Len(heap) /\ v \in Nodes
      BY <1>2, <2>2 DEF Nodes
    <3>2. heap'[v] = heap[v] /\ v \in Nat \ {0} /\ First(v) \in 1 .. v
      BY <1>2, <3>1, Subtree
    <3>3. l \in First(v) .. v
      BY <1>4, <3>2 DEF First
    <3>4. l \in 1 .. Len(heap)
      BY <1>2, <3>1, <3>2, <3>3
    <3>5. heap'[l] = heap[l] /\ IsLeaf(l)
      BY <1>2, <1>4, <3>4 DEF IsLeaf
    <3> QED BY <3>1, <3>2, <3>3, <3>5 DEF BoxesOK
  <2> QED BY <2>1, <2>2
<1> QED BY <1>4 DEF BoxesOK, First, IsLeaf

\* Each action that changes the boxes keeps what holds of them.
LEMMA LeafBoxes ==
  ASSUME HeapOK, HeapOK', BoxesOK, NEW h, Heights(h), NEW lo, NEW hi, Boxes(h, lo, hi), Leaf,
         NEW g, g = [i \in 1 .. Len(calls) - 1 |-> h[i]],
         NEW glo, glo = [i \in 1 .. Len(calls) - 1 |-> lo[i]],
         NEW ghi, ghi = [i \in 1 .. Len(calls) - 1 |-> hi[i]]
  PROVE  BoxesOK' /\ Boxes(g, glo, ghi)'
<1> DEFINE K == Len(calls)
           x == LeafNode
<1>1. /\ phase = "build" /\ Top.pc = "enter" /\ calls # <<>> /\ Top.n <= 1
      /\ heap' = Append(heap, x) /\ calls' = Outer
      /\ data_points' = data_points /\ index_arr' = index_arr /\ bnd_lo' = bnd_lo /\ bnd_hi' = bnd_hi
  BY DEF Leaf, Active, Return
<1>2. CallsOK /\ TreeOK /\ HeapSeq /\ TreeOK' /\ ArraysOK
  BY DEF HeapOK, TreeOK, CallsOK
<1>3. Placed' = Placed
  BY <1>1 DEF Placed
<1>4. /\ K \in Nat \ {0} /\ CallBox(Placed, heap, Top, h[K], lo[K], hi[K])
      /\ bnd_lo = CurLo(Top, lo[K]) /\ bnd_hi = CurHi(Top, hi[K])
  BY <1>1, <1>2, BoxTop
<1>5. bnd_lo = lo[K] /\ bnd_hi = hi[K]
  BY <1>1, <1>4 DEF CurLo, CurHi
<1>6. Top.base \in Nat /\ Top.n \in Nat \ {0} /\ Top.base + Top.n <= N /\ Len(heap) \in Nat
  BY <1>1, <1>2, TopHeight
<1>7. Top.n = 1 /\ Top.base \in 0 .. N - 1 /\ Top.base \in Top.base .. Top.base + Top.n - 1
  <2> DEFINE n == Top.n  b == Top.base
  <2>1. n \in Nat \ {0} /\ n <= 1 /\ b \in Nat /\ b + n <= N
    BY <1>1, <1>6
  <2> HIDE DEF n, b
  <2>2. n = 1 /\ b \in 0 .. N - 1 /\ b \in b .. b + n - 1
    BY <2>1, Sizes
  <2> QED BY <2>2 DEF n, b
<1>8. x.wgtCent = Placed[Top.base] /\ x.bnd_lo = lo[K] /\ x.bnd_hi = hi[K] /\ x.count = 1
  BY <1>2, <1>5, <1>7, PlacedIs DEF LeafNode
<1>9. InBox(x.wgtCent, x.bnd_lo, x.bnd_hi)
  BY <1>4, <1>7, <1>8 DEF CallBox
<1> HIDE DEF x
<1>10. Boxes(g, glo, ghi)'
  <2>1. bnd_lo' = lo[Len(calls)] /\ bnd_hi' = hi[Len(calls)]
    BY <1>1, <1>5
  <2> QED BY <1>1, <1>2, <1>3, <1>8, <2>1, PopBoxes
<1>11. BoxesOK'
  <2> DEFINE u == Len(heap) + 1
  <2>1. u = Len(heap) + 1 /\ u \in Nat /\ u = u + 2 - 2 * x.count
    BY <1>6, <1>8
  <2>2. u .. Len(heap) = {}
    BY <1>6
  <2> HIDE DEF u
  <2> QED BY <1>1, <1>2, <1>9, <2>1, <2>2, BoxesGrow
<1> QED BY <1>10, <1>11

LEMMA JoinBoxes ==
  ASSUME HeapOK, HeapOK', BoxesOK, NEW h, Heights(h), NEW lo, NEW hi, Boxes(h, lo, hi), Join,
         Len(heap') = h[Len(calls)] + 2 * Top.n - 1,
         NEW g, g = [i \in 1 .. Len(calls) - 1 |-> h[i]],
         NEW glo, glo = [i \in 1 .. Len(calls) - 1 |-> lo[i]],
         NEW ghi, ghi = [i \in 1 .. Len(calls) - 1 |-> hi[i]]
  PROVE  BoxesOK' /\ Boxes(g, glo, ghi)'
<1> DEFINE K == Len(calls)
           x == InnerNode(heap[Top.left], heap[ret])
<1>1. /\ phase = "build" /\ Top.pc = "right" /\ calls # <<>>
      /\ heap' = Append(heap, x) /\ calls' = Outer
      /\ data_points' = data_points /\ index_arr' = index_arr
      /\ bnd_lo' = [bnd_lo EXCEPT ![Top.cdim] = Top.lv] /\ bnd_hi' = bnd_hi
  BY DEF Join, Active, Return
<1>2. CallsOK /\ TreeOK /\ HeapSeq /\ TreeOK' /\ ArraysOK
  BY DEF HeapOK, TreeOK, CallsOK
<1>3. Placed' = Placed
  BY <1>1 DEF Placed
<1>4. /\ K \in Nat \ {0} /\ CallBox(Placed, heap, Top, h[K], lo[K], hi[K])
      /\ lo[K] \in Point /\ hi[K] \in Point
      /\ bnd_lo = CurLo(Top, lo[K]) /\ bnd_hi = CurHi(Top, hi[K])
  BY <1>1, <1>2, BoxTop
<1>5. Top.lv = lo[K][Top.cdim] /\ Top.cdim \in Dims
  <2>1. Top \in Frame
    BY <1>1, <1>2, TopIs
  <2> QED BY <1>1, <1>4, <2>1 DEF CallBox, Frame
<1>6. bnd_lo' = lo[K] /\ bnd_hi' = hi[K]
  <2>1. bnd_lo = [lo[K] EXCEPT ![Top.cdim] = Top.cval] /\ bnd_hi = hi[K]
    BY <1>1, <1>4 DEF CurLo, CurHi
  <2> DEFINE p == lo[K]  d == Top.cdim
  <2>2. p \in Point /\ d \in Dims /\ bnd_lo' = [[p EXCEPT ![d] = Top.cval] EXCEPT ![d] = p[d]]
    BY <1>1, <1>4, <1>5, <2>1
  <2> HIDE DEF p, d
  <2>3. bnd_lo' = p
    BY <2>2 DEF Point
  <2> QED BY <1>1, <2>1, <2>3 DEF p
<1>7. x.bnd_lo = bnd_lo' /\ x.bnd_hi = bnd_hi' /\ x.count = Top.n /\ x.left = Top.left
  BY <1>1 DEF InnerNode
<1>8. /\ h[K] \in Nat /\ Top.n \in Nat \ {0} /\ Len(heap) \in Nat
      /\ LeftBuilt(heap, Top, h[K]) /\ Top.n_lo \in 1 .. Top.n - 1
  BY <1>1, <1>2, TopHeight
<1>9. x.left # None
  <2> DEFINE a == h[K]  k == Top.n_lo
  <2>1. x.left = a + 2 * k - 1 /\ a \in Nat /\ k \in Nat \ {0}
    BY SMTT(60), <1>1, <1>7, <1>8 DEF LeftBuilt
  <2> HIDE DEF a, k
  <2> QED BY <2>1 DEF None
<1> HIDE DEF x
<1>10. Boxes(g, glo, ghi)'
  <2>1. bnd_lo' = lo[Len(calls)] /\ bnd_hi' = hi[Len(calls)]
    BY <1>6
  <2>2. x.left = None /\ x.right = None => x.wgtCent = Placed[Top.base]
    BY <1>9
  <2>3. calls # <<>> /\ heap' = Append(heap, x) /\ calls' = Outer /\ CallsOK /\ HeapSeq
    BY <1>1, <1>2
  <2> QED BY <1>3, <2>1, <2>2, <2>3, PopBoxes
<1>11. BoxesOK'
  <2> DEFINE u == Len(heap) + 1
             f == h[K] + 1
             n == Top.n
             a == h[K]
  <2>1. Len(heap') = Len(heap) + 1
    BY <1>1, <1>2, HeapGrows
  <2>2. u = a + 2 * n - 1 /\ x.count = n /\ a \in Nat /\ n \in Nat
    BY <1>7, <1>8, <2>1
  <2>3. \A l \in f .. Len(heap) : IsLeaf(l) => InBox(heap[l].wgtCent, x.bnd_lo, x.bnd_hi)
    BY <1>4, <1>6, <1>7 DEF CallBox, IsLeaf
  <2>4. u = Len(heap) + 1 /\ f = a + 1
    OBVIOUS
  <2> HIDE DEF u, f, n, a
  <2>5. f \in Nat /\ f = u + 2 - 2 * x.count
    BY <2>2, <2>4
  <2> QED BY <1>1, <1>2, <1>9, <2>3, <2>4, <2>5, BoxesGrow
<1> QED BY <1>10, <1>11

\* A split rearranges the points of the range; those outside stay.
LEMMA SplitPlaced ==
  ASSUME CallsOK, CallsOK', BuildLeft
  PROVE  LET s == split_bounding_box(Top.base, Top.n)
             R == Top.base .. Top.base + Top.n - 1
         IN  /\ \A j \in 0 .. N - 1 : j \notin R => Placed'[j] = Placed[j]
             /\ \A j \in R : \E i \in R : Placed'[j] = Placed[i]
             /\ \A j \in R : Placed'[j] = data_points[s.arr[j - Top.base]]
             /\ R \subseteq 0 .. N - 1
<1> DEFINE s == split_bounding_box(Top.base, Top.n)
           b == Top.base
           n == Top.n
           R == b .. b + n - 1
<1>1. /\ phase = "build" /\ calls # <<>> /\ Top.n > 1 /\ Active("enter") /\ data_points' = data_points
      /\ index_arr' = [i \in DOMAIN index_arr |-> IF i \in R THEN s.arr[i - b] ELSE index_arr[i]]
  BY DEF BuildLeft, Active
<1>2. SplitOf(s, b, n)
  BY <1>1, TopSplit
<1>3. Top \in Frame /\ FrameOK(Top)
  BY <1>1, TopIs
<1>4. b \in Nat /\ n \in Nat /\ b + n <= N
  BY <1>3 DEF Frame, FrameOK
<1>5. ArraysOK /\ ArraysOK'
  BY DEF CallsOK
<1>6. Rearranged([i \in 0 .. n - 1 |-> index_arr[b + i]], s.arr, 0, n)
  BY <1>2 DEF SplitOf
<1> HIDE DEF s, b, n
<1>7. R \subseteq 0 .. N - 1
  BY <1>4, Sizes
<1>8. Placed \in [0 .. N - 1 -> Point] /\ \A j \in 0 .. N - 1 : Placed[j] = data_points[index_arr[j]]
  BY <1>5, PlacedIs
<1>9. \A j \in 0 .. N - 1 : Placed'[j] = data_points[index_arr'[j]]
  BY <1>1 DEF Placed
<1>10. \A j \in 0 .. N - 1 : index_arr'[j] = IF j \in R THEN s.arr[j - b] ELSE index_arr[j]
  BY <1>1, <1>5 DEF ArraysOK
<1>11. \A j \in 0 .. N - 1 : j \notin R => Placed'[j] = Placed[j]
  BY <1>8, <1>9, <1>10
<1>12. \A j \in R : Placed'[j] = data_points[s.arr[j - b]]
  BY <1>7, <1>9, <1>10
<1>13. ASSUME NEW j \in R PROVE \E i \in R : Placed'[j] = Placed[i]
  <2>1. PICK p, q : Moved(p, q, [i \in 0 .. n - 1 |-> index_arr[b + i]], s.arr, 0, n)
    BY <1>6 DEF Rearranged
  <2>2. \A i \in 0 .. n - 1 : p[i] \in 0 .. n - 1 /\ s.arr[i] = index_arr[b + p[i]]
    BY <2>1 DEF Moved
  <2>3. j - b \in 0 .. n - 1
    BY <1>4
  <2> DEFINE i == b + p[j - b]
  <2>4. i \in R /\ s.arr[j - b] = index_arr[i]
    <3>1. p[j - b] \in 0 .. n - 1 /\ s.arr[j - b] = index_arr[b + p[j - b]]
      BY <2>2, <2>3
    <3> QED BY <1>4, <3>1
  <2> HIDE DEF i
  <2>5. Placed'[j] = Placed[i]
    BY <1>7, <1>8, <1>12, <2>4
  <2> QED BY <2>4, <2>5
<1> QED BY <1>7, <1>11, <1>12, <1>13 DEF s, b, n

\* The box of a call around the split still holds.
LEMMA SplitKeeps ==
  ASSUME CallsOK, CallsOK', BuildLeft, NEW i \in 1 .. Len(calls) - 1, NEW h, NEW lo, NEW hi,
         CallBox(Placed, heap, calls[i], h, lo, hi)
  PROVE  CallBox(Placed', heap, calls[i], h, lo, hi)
<1> DEFINE c == calls[i]
           R == Top.base .. Top.base + Top.n - 1
           P == c.base .. c.base + c.n - 1
<1>1. calls # <<>>
  BY DEF BuildLeft, Active
<1>2. /\ \A j \in 0 .. N - 1 : j \notin R => Placed'[j] = Placed[j]
      /\ \A j \in R : \E k \in R : Placed'[j] = Placed[k]
  BY SplitPlaced
<1>3. /\ c \in Frame /\ R \subseteq P
      /\ c.pc = "left" => \A j \in c.base + c.n_lo .. c.base + c.n - 1 : j \notin R
  BY <1>1, OuterRanges
<1>4. FrameOK(c) /\ c.pc # "enter"
  <2>1. i \in 1 .. Len(calls)
    BY <1>1, TopIs
  <2> QED BY <1>1, <2>1, TopIs DEF CallsOK
<1>5. CallBox(Placed, heap, c, h, lo, hi)
  OBVIOUS
<1> HIDE DEF c, R
<1>6. c.base \in Nat /\ c.n \in Nat /\ c.base + c.n <= N /\ c.n_lo \in 1 .. c.n - 1
  BY <1>3, <1>4 DEF Frame, FrameOK
<1>7. P \subseteq 0 .. N - 1 /\ c.base + c.n_lo .. c.base + c.n - 1 \subseteq 0 .. N - 1
  <2> DEFINE b == c.base  n == c.n  k == c.n_lo
  <2>1. b \in Nat /\ n \in Nat /\ b + n <= N /\ k \in 1 .. n - 1
    BY <1>6
  <2> HIDE DEF b, n, k
  <2>2. b .. b + n - 1 \subseteq 0 .. N - 1 /\ b + k .. b + n - 1 \subseteq 0 .. N - 1
    BY <2>1, Sizes
  <2> QED BY <2>2 DEF b, n, k
<1>8. ASSUME NEW j \in P PROVE InBox(Placed'[j], lo, hi)
  <2>1. \E k \in P : Placed'[j] = Placed[k]
    BY <1>2, <1>3, <1>7
  <2> QED BY <1>5, <2>1 DEF CallBox
<1>9. ASSUME c.pc = "left", NEW j \in c.base + c.n_lo .. c.base + c.n - 1
      PROVE  Placed'[j][c.cdim] >= c.cval
  <2>1. Placed'[j] = Placed[j]
    BY <1>2, <1>3, <1>7, <1>9
  <2> QED BY <1>5, <1>9, <2>1 DEF CallBox
<1> HIDE DEF P
<1>10. CallBox(Placed', heap, c, h, lo, hi)
  BY <1>5, <1>8, <1>9 DEF CallBox, P
<1> QED BY <1>10 DEF c

\* A point of a box lies in the part of it on its side of a cut.
LEMMA CutBox ==
  ASSUME NEW p, NEW lo \in Point, NEW hi \in Point, NEW d \in Dims, NEW v \in Int, InBox(p, lo, hi)
  PROVE  /\ p[d] <= v => InBox(p, lo, [hi EXCEPT ![d] = v])
         /\ p[d] >= v => InBox(p, [lo EXCEPT ![d] = v], hi)
<1>1. \A e \in Dims : lo[e] \in Int /\ hi[e] \in Int /\ p[e] \in Int /\ lo[e] <= p[e] /\ p[e] <= hi[e]
  BY DEF InBox, Point
<1>2. \A e \in Dims : [hi EXCEPT ![d] = v][e] = IF e = d THEN v ELSE hi[e]
  BY DEF Point
<1>3. \A e \in Dims : [lo EXCEPT ![d] = v][e] = IF e = d THEN v ELSE lo[e]
  BY DEF Point
<1>4. ASSUME p[d] <= v, NEW e \in Dims PROVE p[e] \in lo[e] .. [hi EXCEPT ![d] = v][e]
  BY <1>1, <1>2, <1>4
<1>5. ASSUME p[d] >= v, NEW e \in Dims PROVE p[e] \in [lo EXCEPT ![d] = v][e] .. hi[e]
  BY <1>1, <1>3, <1>5
<1> QED BY <1>4, <1>5 DEF InBox

LEMMA BuildLeftBoxes ==
  ASSUME HeapOK, CallsOK', NEW h, NEW lo, NEW hi, Boxes(h, lo, hi), BuildLeft,
         NEW nlo, nlo = bnd_lo', NEW nhi, nhi = bnd_hi',
         NEW g, g = Extended(h, Len(heap)),
         NEW glo, glo = Extended(lo, nlo), NEW ghi, ghi = Extended(hi, nhi)
  PROVE  Boxes(g, glo, ghi)'
<1> DEFINE K == Len(calls)
           s == split_bounding_box(Top.base, Top.n)
           c == LeftFrame
           e == Call(Top.base, s.n_lo)
           b == Top.base
           n == Top.n
           R == b .. b + n - 1
<1>1. /\ phase = "build" /\ Top.pc = "enter" /\ calls # <<>> /\ heap' = heap
      /\ calls' = Outer \o <<c, e>> /\ bnd_lo' = bnd_lo
      /\ bnd_hi' = [bnd_hi EXCEPT ![s.cdim] = s.cval]
  BY DEF BuildLeft, Active, LeftFrame
<1>2. CallsOK /\ HeapSeq /\ ArraysOK /\ ArraysOK'
  BY DEF HeapOK, TreeOK, CallsOK
<1>3. /\ SplitOf(s, b, n)
      /\ c \in Frame /\ c.pc = "left" /\ c.n_lo = s.n_lo /\ c.base = b /\ c.n = n
      /\ c.cdim = s.cdim /\ c.cval = s.cval /\ c.hv = bnd_hi[s.cdim] /\ c.lv = bnd_lo[s.cdim]
      /\ e \in Frame /\ e.pc = "enter" /\ e.base = b /\ e.n = s.n_lo
  BY <1>2, BuildLeftFrames
<1>4. /\ K \in Nat \ {0} /\ CallBox(Placed, heap, Top, h[K], lo[K], hi[K])
      /\ lo[K] \in Point /\ hi[K] \in Point
      /\ bnd_lo = CurLo(Top, lo[K]) /\ bnd_hi = CurHi(Top, hi[K])
  BY <1>1, <1>2, BoxTop
<1>5. bnd_lo = lo[K] /\ bnd_hi = hi[K]
  BY <1>1, <1>4 DEF CurLo, CurHi
<1>6. /\ \A j \in R : \E i \in R : Placed'[j] = Placed[i]
      /\ \A j \in R : Placed'[j] = data_points[s.arr[j - b]]
  BY <1>2, SplitPlaced
<1>7. Top \in Frame
  BY <1>1, <1>2, TopIs
<1>8. b \in Nat /\ n \in Nat
  BY <1>7 DEF Frame
<1>9. /\ s.n_lo \in 1 .. n - 1 /\ s.cdim \in Dims /\ s.cval \in Int
      /\ \A i \in 0 .. n - 1 : IF i < s.n_lo THEN data_points[s.arr[i]][s.cdim] <= s.cval
                                         ELSE data_points[s.arr[i]][s.cdim] >= s.cval
  BY <1>3 DEF SplitOf
<1> DEFINE k == s.n_lo  d == s.cdim  v == s.cval
<1>10. ASSUME NEW j \in R PROVE InBox(Placed'[j], lo[K], hi[K])
  BY <1>4, <1>6 DEF CallBox
<1> HIDE DEF c, e, b, n, s
<1>11. ASSUME NEW j \in b .. b + k - 1 PROVE j \in R /\ Placed'[j][d] <= v
  <2> HIDE DEF k, d, v
  <2>1. k \in 1 .. n - 1
    BY <1>9 DEF k
  <2>2. j \in R /\ j - b \in 0 .. n - 1 /\ j - b < k
    BY <1>8, <2>1
  <2>3. \A i \in 0 .. n - 1 : i < k => data_points[s.arr[i]][d] <= v
    BY <1>9 DEF k, d, v
  <2> QED BY <1>6, <2>2, <2>3
<1>12. ASSUME NEW j \in b + k .. b + n - 1 PROVE j \in R /\ Placed'[j][d] >= v
  <2> HIDE DEF k, d, v
  <2>1. k \in 1 .. n - 1
    BY <1>9 DEF k
  <2>2. j \in R /\ j - b \in 0 .. n - 1 /\ ~(j - b < k)
    BY <1>8, <2>1
  <2>3. \A i \in 0 .. n - 1 : ~(i < k) => data_points[s.arr[i]][d] >= v
    BY <1>9 DEF k, d, v
  <2> QED BY <1>6, <2>2, <2>3
<1> HIDE DEF K
<1>13. CallBox(Placed', heap, c, h[K], lo[K], hi[K])
  <2>1. c.hv = hi[K][c.cdim] /\ c.lv = lo[K][c.cdim]
    BY <1>3, <1>5
  <2>2. \A j \in c.base .. c.base + c.n - 1 : InBox(Placed'[j], lo[K], hi[K])
    BY <1>3, <1>10
  <2>3. \A j \in c.base + c.n_lo .. c.base + c.n - 1 : Placed'[j][c.cdim] >= c.cval
    BY <1>3, <1>12
  <2> QED BY <1>4, <2>1, <2>2, <2>3 DEF CallBox
<1>14. nlo = lo[K] /\ nhi = [hi[K] EXCEPT ![d] = v]
  BY <1>1, <1>5
<1>15. nlo = CurLo(c, lo[K]) /\ nhi = CurHi(c, hi[K]) /\ nlo \in Point /\ nhi \in Point
  <2>1. nlo = CurLo(c, lo[K]) /\ nhi = CurHi(c, hi[K])
    BY <1>3, <1>14 DEF CurLo, CurHi
  <2> QED BY <1>2, <2>1 DEF ArraysOK, Point
<1>16. \A j \in e.base .. e.base + e.n - 1 : InBox(Placed'[j], nlo, nhi)
  <2> SUFFICES ASSUME NEW j \in b .. b + k - 1 PROVE InBox(Placed'[j], nlo, nhi)
    BY <1>3
  <2>1. InBox(Placed'[j], lo[K], hi[K]) /\ Placed'[j][d] <= v
    BY <1>10, <1>11
  <2> DEFINE il == lo[K]  ih == hi[K]  p == Placed'[j]
  <2>2. il \in Point /\ ih \in Point /\ d \in Dims /\ v \in Int /\ InBox(p, il, ih) /\ p[d] <= v
    BY <1>4, <1>9, <2>1
  <2>3. nlo = il /\ nhi = [ih EXCEPT ![d] = v]
    BY <1>14
  <2> HIDE DEF il, ih, d, v, p
  <2>4. InBox(p, il, [ih EXCEPT ![d] = v])
    BY <2>2, CutBox
  <2> QED BY <2>3, <2>4 DEF p
<1>17. \A i \in 1 .. K - 1 : CallBox(Placed', heap, calls[i], h[i], lo[i], hi[i])
  <2> TAKE i \in 1 .. K - 1
  <2>1. i \in 1 .. K
    BY <1>4
  <2>2. CallBox(Placed, heap, calls[i], h[i], lo[i], hi[i])
    BY <2>1 DEF Boxes, K
  <2> QED BY <1>2, <2>2, SplitKeeps DEF K
<1>18. bnd_lo' = nlo /\ bnd_hi' = nhi
  OBVIOUS
<1>19. /\ CallsOK /\ HeapSeq /\ calls # <<>> /\ heap' = heap /\ c \in Frame /\ e \in Frame
       /\ calls' = Outer \o <<c, e>> /\ e.pc = "enter"
  BY <1>1, <1>2, <1>3
<1>20. PushesBox(c, e, h, lo, hi)
  BY <1>13, <1>15, <1>16, <1>17, <1>18, <1>19 DEF K, PushesBox
<1> QED BY <1>20, PushBoxes

LEMMA BuildRightBoxes ==
  ASSUME HeapOK, CallsOK', NEW h, NEW lo, NEW hi, Boxes(h, lo, hi), BuildRight, ret \in Nat,
         NEW nlo, nlo = bnd_lo', NEW nhi, nhi = bnd_hi',
         NEW g, g = Extended(h, Len(heap)),
         NEW glo, glo = Extended(lo, nlo), NEW ghi, ghi = Extended(hi, nhi)
  PROVE  Boxes(g, glo, ghi)'
<1> DEFINE K == Len(calls)
           b == Top.base  n == Top.n  k == Top.n_lo  d == Top.cdim  v == Top.cval
           c == RightFrame
           e == Call(b + k, n - k)
<1>1. /\ phase = "build" /\ Top.pc = "left" /\ calls # <<>> /\ heap' = heap
      /\ calls' = Outer \o <<c, e>>
      /\ data_points' = data_points /\ index_arr' = index_arr
      /\ bnd_hi' = [bnd_hi EXCEPT ![d] = Top.hv] /\ bnd_lo' = [bnd_lo EXCEPT ![d] = v]
  BY DEF BuildRight, Active, RightFrame
<1>2. CallsOK /\ HeapSeq /\ ArraysOK /\ ArraysOK'
  BY DEF HeapOK, TreeOK, CallsOK
<1>3. /\ c \in Frame /\ c.pc = "right" /\ c.n_lo = k /\ c.base = b /\ c.n = n
      /\ c.cdim = d /\ c.cval = v /\ c.hv = Top.hv /\ c.lv = Top.lv
      /\ e \in Frame /\ e.pc = "enter" /\ e.base = b + k /\ e.n = n - k
  BY <1>2, BuildRightFrames
<1>4. /\ K \in Nat \ {0} /\ CallBox(Placed, heap, Top, h[K], lo[K], hi[K])
      /\ lo[K] \in Point /\ hi[K] \in Point
      /\ bnd_lo = CurLo(Top, lo[K]) /\ bnd_hi = CurHi(Top, hi[K])
  BY <1>1, <1>2, BoxTop
<1>5. Placed' = Placed
  BY <1>1 DEF Placed
<1>6. b \in Nat /\ n \in Nat /\ k \in 1 .. n - 1 /\ d \in Dims /\ v \in Int
  <2>1. Top \in Frame /\ FrameOK(Top)
    BY <1>1, <1>2, TopIs
  <2> QED BY <1>1, <2>1 DEF Frame, FrameOK
<1>7. /\ Top.hv = hi[K][d] /\ Top.lv = lo[K][d]
      /\ \A j \in b .. b + n - 1 : InBox(Placed[j], lo[K], hi[K])
      /\ \A l \in h[K] + 1 .. Len(heap) : heap[l].left = None /\ heap[l].right = None => InBox(heap[l].wgtCent, lo[K], hi[K])
      /\ \A j \in b + k .. b + n - 1 : Placed[j][d] >= v
  BY <1>1, <1>4 DEF CallBox
<1>8. nlo = [lo[K] EXCEPT ![d] = v] /\ nhi = hi[K]
  <2>1. bnd_lo = lo[K] /\ bnd_hi = [hi[K] EXCEPT ![d] = v]
    BY <1>1, <1>4 DEF CurLo, CurHi
  <2> DEFINE p == hi[K]
  <2>2. p \in Point /\ d \in Dims /\ bnd_hi' = [[p EXCEPT ![d] = v] EXCEPT ![d] = p[d]]
    BY <1>1, <1>4, <1>6, <1>7, <2>1
  <2> HIDE DEF p, d, v
  <2>3. bnd_hi' = p
    BY <2>2 DEF Point
  <2> QED BY <1>1, <2>1, <2>3 DEF p
<1> HIDE DEF c, e, b, n, k, d, v, K
<1>9. CallBox(Placed', heap, c, h[K], lo[K], hi[K])
  <2>1. \A j \in c.base .. c.base + c.n - 1 : InBox(Placed'[j], lo[K], hi[K])
    BY <1>3, <1>5, <1>7
  <2>2. c.hv = hi[K][c.cdim] /\ c.lv = lo[K][c.cdim] /\ c.pc # "left"
    BY <1>3, <1>7
  <2> QED BY <1>7, <2>1, <2>2 DEF CallBox
<1>10. nlo = CurLo(c, lo[K]) /\ nhi = CurHi(c, hi[K]) /\ nlo \in Point /\ nhi \in Point
  <2>1. nlo = CurLo(c, lo[K]) /\ nhi = CurHi(c, hi[K])
    BY <1>3, <1>8 DEF CurLo, CurHi
  <2> QED BY <1>2, <2>1 DEF ArraysOK, Point
<1>11. \A j \in e.base .. e.base + e.n - 1 : InBox(Placed'[j], nlo, nhi)
  <2> SUFFICES ASSUME NEW j \in b + k .. b + n - 1 PROVE InBox(Placed'[j], nlo, nhi)
    <3>1. (b + k) + (n - k) - 1 = b + n - 1
      BY <1>6
    <3> QED BY <1>3, <3>1
  <2>1. j \in b .. b + n - 1
    BY <1>6
  <2>2. InBox(Placed[j], lo[K], hi[K]) /\ Placed[j][d] >= v
    BY <1>7, <2>1
  <2> DEFINE il == lo[K]  ih == hi[K]  p == Placed[j]
  <2>3. il \in Point /\ ih \in Point /\ InBox(p, il, ih) /\ p[d] >= v
    BY <1>4, <2>2
  <2>4. nlo = [il EXCEPT ![d] = v] /\ nhi = ih
    BY <1>8
  <2> HIDE DEF il, ih, p
  <2>5. InBox(p, [il EXCEPT ![d] = v], ih)
    BY <1>6, <2>3, CutBox
  <2> QED BY <1>5, <2>4, <2>5 DEF p
<1>12. \A i \in 1 .. K - 1 : CallBox(Placed', heap, calls[i], h[i], lo[i], hi[i])
  <2> TAKE i \in 1 .. K - 1
  <2>1. i \in 1 .. K
    BY <1>4
  <2> QED BY <1>5, <2>1 DEF Boxes, K
<1>13. bnd_lo' = nlo /\ bnd_hi' = nhi
  OBVIOUS
<1>14. /\ CallsOK /\ HeapSeq /\ calls # <<>> /\ heap' = heap /\ c \in Frame /\ e \in Frame
       /\ calls' = Outer \o <<c, e>> /\ e.pc = "enter"
  BY <1>1, <1>2, <1>3
<1>15. PushesBox(c, e, h, lo, hi)
  BY <1>9, <1>10, <1>11, <1>12, <1>13, <1>14 DEF K, PushesBox
<1> QED BY <1>15, PushBoxes

\* While no call is left, or none of what the boxes are about changes, they stay.
LEMMA SameBoxes ==
  ASSUME BoxesOK, NEW h, NEW lo, NEW hi, Boxes(h, lo, hi), heap' = heap, calls' = calls,
         \/ calls = <<>>
         \/ data_points' = data_points /\ index_arr' = index_arr /\ bnd_lo' = bnd_lo /\ bnd_hi' = bnd_hi
  PROVE  BoxesOK' /\ Boxes(h, lo, hi)'
<1>1. BoxesOK'
  BY DEF BoxesOK, Nodes, First, IsLeaf
<1>2. CASE calls = <<>>
  <2>1. Len(calls) = 0 /\ calls' = <<>>
    BY <1>2
  <2>2. 1 .. Len(calls) = {} /\ 1 .. Len(calls) - 1 = {}
    BY <2>1
  <2> QED BY <1>1, <2>1, <2>2 DEF Boxes
<1>3. CASE data_points' = data_points /\ index_arr' = index_arr /\ bnd_lo' = bnd_lo /\ bnd_hi' = bnd_hi
  <2>1. Placed' = Placed /\ Top' = Top
    BY <1>3 DEF Placed, Top
  <2> QED BY <1>1, <1>3, <2>1 DEF Boxes
<1> QED BY <1>2, <1>3

\* The first call's box is that of all the points.
LEMMA FirstBox ==
  ASSUME CallsOK, heap = <<>>, compute_bounding_box,
         NEW lo, lo = [i \in 1 .. 1 |-> bnd_lo'], NEW hi, hi = [i \in 1 .. 1 |-> bnd_hi'],
         NEW g, g = [i \in 1 .. 1 |-> 0]
  PROVE  BoxesOK' /\ Boxes(g, lo, hi)'
<1>1. /\ heap' = heap /\ data_points' = data_points /\ index_arr' = index_arr
      /\ calls' = <<Call(0, N)>>
      /\ bnd_lo' = [d \in Dims |-> find_min_max(0, N, d).min]
      /\ bnd_hi' = [d \in Dims |-> find_min_max(0, N, d).max]
  BY DEF compute_bounding_box
<1>2. Len(heap') = 0 /\ Nodes' = {}
  BY <1>1 DEF Nodes
<1>3. BoxesOK'
  BY <1>2 DEF BoxesOK
<1>4. Placed' = Placed
  BY <1>1 DEF Placed
<1>5. ArraysOK /\ ArraysOK' /\ Placed \in [0 .. N - 1 -> Point]
  <2>1. CallsOK'
    BY BoundingBox
  <2>2. ArraysOK /\ ArraysOK'
    BY <2>1 DEF CallsOK
  <2> QED BY <2>2, PlacedIs
<1>6. ASSUME NEW j \in 0 .. N - 1 PROVE InBox(Placed[j], bnd_lo', bnd_hi')
  <2> SUFFICES ASSUME NEW d \in Dims PROVE Placed[j][d] \in bnd_lo'[d] .. bnd_hi'[d]
    BY DEF InBox
  <2> DEFINE f == find_min_max(0, N, d)
  <2>1. N \in Nat \ {0} /\ 0 \in Nat /\ 0 + N <= N
    BY Sizes
  <2>2. /\ f.min \in Int /\ f.max \in Int
        /\ \A i \in 0 .. N - 1 : f.min <= data_points[index_arr[0 + i]][d] /\ data_points[index_arr[0 + i]][d] <= f.max
    BY <1>5, <2>1, MinMax
  <2>3. bnd_lo'[d] = f.min /\ bnd_hi'[d] = f.max
    BY <1>1
  <2> HIDE DEF f
  <2>4. 0 + j = j
    OBVIOUS
  <2>5. f.min <= data_points[index_arr[j]][d] /\ data_points[index_arr[j]][d] <= f.max
    BY <2>2, <2>4
  <2>6. Placed[j][d] = data_points[index_arr[j]][d] /\ Placed[j][d] \in Int
    BY <1>5 DEF Placed, Point
  <2> QED BY <2>2, <2>3, <2>5, <2>6
<1> DEFINE e == Call(0, N)
<1>7. e.pc = "enter" /\ e.base = 0 /\ e.n = N
  BY DEF Call
<1>8. Len(calls') = 1 /\ calls'[1] = e /\ Top' = e
  BY <1>1 DEF Top
<1> HIDE DEF e
<1>9. lo[1] = bnd_lo' /\ hi[1] = bnd_hi' /\ g[1] = 0
  OBVIOUS
<1>10. CallBox(Placed', heap', e, 0, bnd_lo', bnd_hi')
  <2>1. 0 + 1 .. Len(heap') = {} /\ 0 .. 0 + N - 1 = 0 .. N - 1
    BY <1>2, Sizes
  <2> QED BY <1>4, <1>6, <1>7, <2>1 DEF CallBox
<1>11. lo \in [1 .. 1 -> Point] /\ hi \in [1 .. 1 -> Point]
  BY <1>5 DEF ArraysOK
<1>12. bnd_lo' = CurLo(e, lo[1]) /\ bnd_hi' = CurHi(e, hi[1])
  BY <1>7, <1>9 DEF CurLo, CurHi
<1>13. \A i \in 1 .. 1 : CallBox(Placed', heap', calls'[i], g[i], lo[i], hi[i])
  BY <1>8, <1>9, <1>10
<1>14. 1 .. 1 - 1 = {}
  OBVIOUS
<1>15. Boxes(g, lo, hi)'
  BY <1>8, <1>11, <1>12, <1>13, <1>14 DEF Boxes
<1> QED BY <1>3, <1>15

\* The inductive invariant of the boxes.
BoxInv == HeapOK /\ BoxesOK /\ \E h, lo, hi : Heights(h) /\ Boxes(h, lo, hi)

\* What holds of the boxes is inductive.
LEMMA BoxStep == BoxInv /\ [Next]_vars => BoxInv'
<1> SUFFICES ASSUME BoxInv, [Next]_vars PROVE BoxInv'
  OBVIOUS
<1>1. PICK h, lo, hi : Heights(h) /\ Boxes(h, lo, hi)
  BY DEF BoxInv
<1>2. HeapOK /\ BoxesOK /\ CallsOK /\ TreeOK /\ HeapSeq /\ ret \in Nat
  <2>1. HeapOK /\ BoxesOK /\ CallsOK /\ TreeOK /\ HeapSeq /\ ret \in 0 .. Len(heap)
    BY DEF BoxInv, HeapOK, TreeOK
  <2> QED BY <2>1
<1>3. HeapOK'
  BY <1>1, <1>2, HeapStep DEF HeapInv
<1>4. CallsOK'
  BY <1>3 DEF HeapOK
<1>5. ASSUME read_data_points \/ StartDelete \/ deletekdTree \/ UNCHANGED vars PROVE BoxInv'
  <2>1. heap' = heap /\ ret' = ret /\ calls' = calls
    BY <1>5 DEF read_data_points, StartDelete, deletekdTree, vars, build
  <2>2. \/ calls = <<>>
        \/ data_points' = data_points /\ index_arr' = index_arr /\ bnd_lo' = bnd_lo /\ bnd_hi' = bnd_hi
    BY <1>2, <1>5 DEF read_data_points, StartDelete, deletekdTree, vars, build, CallsOK
  <2>3. Heights(h)'
    BY <1>1, <2>1, SameHeights
  <2>4. BoxesOK' /\ Boxes(h, lo, hi)'
    BY <1>1, <1>2, <2>1, <2>2, SameBoxes
  <2> QED BY <1>3, <2>3, <2>4 DEF BoxInv
<1>6. ASSUME compute_bounding_box PROVE BoxInv'
  <2>1. heap = <<>> /\ heap' = heap /\ ret' = ret /\ calls' = <<Call(0, N)>>
    BY <1>2, <1>6 DEF compute_bounding_box, HeapOK
  <2>2. PICK g, glo, ghi : /\ g = [i \in 1 .. 1 |-> 0]
                           /\ glo = [i \in 1 .. 1 |-> bnd_lo'] /\ ghi = [i \in 1 .. 1 |-> bnd_hi']
    OBVIOUS
  <2>3. BoxesOK' /\ Boxes(g, glo, ghi)'
    BY <1>2, <1>6, <2>1, <2>2, FirstBox
  <2>4. Heights(g)'
    BY <1>2, <1>6, <2>2, FirstHeights
  <2> QED BY <1>3, <2>3, <2>4 DEF BoxInv
<1>7. ASSUME Leaf \/ Join PROVE BoxInv'
  <2>1. PICK g, glo, ghi : /\ g = [i \in 1 .. Len(calls) - 1 |-> h[i]]
                           /\ glo = [i \in 1 .. Len(calls) - 1 |-> lo[i]]
                           /\ ghi = [i \in 1 .. Len(calls) - 1 |-> hi[i]]
    OBVIOUS
  <2>2. CASE Leaf
    <3>1. Heights(g)'
      BY <1>1, <1>2, <2>1, <2>2, LeafHeap
    <3>2. BoxesOK' /\ Boxes(g, glo, ghi)'
      BY <1>1, <1>2, <1>3, <2>1, <2>2, LeafBoxes
    <3> QED BY <1>3, <3>1, <3>2 DEF BoxInv
  <2>3. CASE Join
    <3>1. Heights(g)' /\ Len(heap') = h[Len(calls)] + 2 * Top.n - 1
      BY <1>1, <1>2, <2>1, <2>3, JoinHeap
    <3>2. BoxesOK' /\ Boxes(g, glo, ghi)'
      BY <1>1, <1>2, <1>3, <2>1, <2>3, <3>1, JoinBoxes
    <3> QED BY <1>3, <3>1, <3>2 DEF BoxInv
  <2> QED BY <1>7, <2>2, <2>3
<1>8. ASSUME BuildLeft \/ BuildRight PROVE BoxInv'
  <2>1. PICK nlo, nhi : nlo = bnd_lo' /\ nhi = bnd_hi'
    OBVIOUS
  <2>2. PICK g, glo, ghi : g = Extended(h, Len(heap)) /\ glo = Extended(lo, nlo) /\ ghi = Extended(hi, nhi)
    OBVIOUS
  <2>3. g = [i \in 1 .. Len(calls) + 1 |-> IF i = Len(calls) + 1 THEN Len(heap) ELSE h[i]]
    BY <2>2 DEF Extended
  <2>4. heap' = heap
    BY <1>8 DEF BuildLeft, BuildRight
  <2>5. BoxesOK'
    BY <1>2, <2>4 DEF BoxesOK, Nodes, First, IsLeaf
  <2>6. Heights(g)'
    BY <1>1, <1>2, <1>8, <2>3, BuildLeftHeights, BuildRightHeights
  <2>7. Boxes(g, glo, ghi)'
    BY <1>1, <1>2, <1>4, <1>8, <2>1, <2>2, BuildLeftBoxes, BuildRightBoxes
  <2> QED BY <1>3, <2>5, <2>6, <2>7 DEF BoxInv
<1> QED BY <1>5, <1>6, <1>7, <1>8 DEF Next

LEMMA InitBoxes == Init => BoxInv
<1> SUFFICES ASSUME Init PROVE BoxInv
  OBVIOUS
<1>1. HeapInv
  BY InitHeap
<1>2. PICK h : Heights(h)
  BY <1>1 DEF HeapInv
<1>3. heap = <<>> /\ calls = <<>>
  BY DEF Init
<1>4. Len(heap) = 0 /\ Len(calls) = 0
  BY <1>3
<1>5. Nodes = {} /\ 1 .. Len(calls) - 1 = {}
  BY <1>4 DEF Nodes
<1>6. BoxesOK
  BY <1>5 DEF BoxesOK
<1>7. PICK f : f = [i \in 1 .. 0 |-> bnd_lo]
  OBVIOUS
<1>8. Boxes(h, f, f)
  BY <1>3, <1>4, <1>5, <1>7 DEF Boxes
<1> QED BY <1>1, <1>2, <1>6, <1>8 DEF BoxInv, HeapInv

\* A node's box holds the points below the node.
THEOREM KdBoxesHold == Spec => []BoxesHold
<1>1. BoxInv => BoxesHold
  BY BoxesAreHeld DEF BoxInv, HeapOK
<1> QED BY <1>1, InitBoxes, BoxStep, PTL DEF Spec

-----------------------------------------------------------------------------
(***************************************************************************)
(* The points are kept.                                                    *)
(***************************************************************************)

\* The positions that a call has still to build itself.
Rest(c) ==
  CASE c.pc = "enter" -> c.base .. c.base + c.n - 1
    [] c.pc = "left"  -> c.base + c.n_lo .. c.base + c.n - 1
    [] OTHER -> {}

OuterRest == UNION {Rest(calls[i]) : i \in 1 .. Len(calls) - 1}

\* Where the point p is: in the data, in the leaves, and at the positions to build.
DataAt(p) == {j \in 0 .. N - 1 : data_points[j] = p}
LeafAt(p) == {u \in Nodes : IsLeaf(u) /\ heap[u].wgtCent = p}
RestAt(p) == {j \in Unbuilt : Placed[j] = p}

Kept(p) == Cardinality(DataAt(p)) = Cardinality(LeafAt(p)) + Cardinality(RestAt(p))

\* The positions that are still to be built are the rests of the calls.
LEMMA RestIs ==
  ASSUME CallsOK, calls # <<>>
  PROVE  /\ Unbuilt = OuterRest \cup Rest(Top)
         /\ \A j \in OuterRest : j \notin Top.base .. Top.base + Top.n - 1
         /\ Top.base .. Top.base + Top.n - 1 \subseteq 0 .. N - 1
         /\ Unbuilt \subseteq 0 .. N - 1
<1> DEFINE K == Len(calls)
<1>1. /\ K \in Nat \ {0} /\ Top \in Frame /\ FrameOK(Top)
      /\ \A i \in 1 .. K - 1 : calls[i].pc # "enter"
  BY TopIs
<1>2. Unbuilt = UNION {Rest(calls[i]) : i \in 1 .. K}
  BY DEF Unbuilt, Rest
<1>3. Top = calls[K]
  BY DEF Top
<1>4. \A i : i \in 1 .. K <=> i \in 1 .. K - 1 \/ i = K
  BY <1>1
<1> HIDE DEF K
<1>5. Unbuilt = OuterRest \cup Rest(Top)
  <2>1. OuterRest = UNION {Rest(calls[i]) : i \in 1 .. K - 1}
    BY DEF OuterRest, K
  <2> QED BY <1>2, <1>3, <1>4, <2>1
<1>6. \A j \in OuterRest : j \notin Top.base .. Top.base + Top.n - 1
  <2> TAKE j \in OuterRest
  <2>1. PICK i \in 1 .. K - 1 : j \in Rest(calls[i])
    BY DEF OuterRest, K
  <2>2. calls[i].pc = "left" => \A m \in calls[i].base + calls[i].n_lo .. calls[i].base + calls[i].n - 1 :
                                   m \notin Top.base .. Top.base + Top.n - 1
    BY OuterRanges DEF K
  <2> QED BY <1>1, <2>1, <2>2 DEF Rest
<1>7. ASSUME NEW c \in Frame, FrameOK(c)
      PROVE  c.base .. c.base + c.n - 1 \subseteq 0 .. N - 1 /\ Rest(c) \subseteq 0 .. N - 1
  <2> DEFINE b == c.base  n == c.n  k == c.n_lo
  <2>1. b \in Nat /\ n \in Nat /\ k \in Nat /\ b + n <= N
    BY <1>7 DEF Frame, FrameOK
  <2>2. Rest(c) \subseteq (b .. b + n - 1) \cup (b + k .. b + n - 1)
    BY DEF Rest
  <2> HIDE DEF b, n, k
  <2>3. b .. b + n - 1 \subseteq 0 .. N - 1 /\ b + k .. b + n - 1 \subseteq 0 .. N - 1
    BY <2>1, Sizes
  <2> QED BY <2>2, <2>3 DEF b, n
<1>8. \A i \in 1 .. K : calls[i] \in Frame /\ FrameOK(calls[i])
  <2>1. calls \in Seq(Frame) /\ \A i \in 1 .. K : FrameOK(calls[i])
    BY DEF CallsOK, K
  <2> QED BY <2>1 DEF K
<1>9. Unbuilt \subseteq 0 .. N - 1
  BY <1>2, <1>7, <1>8
<1> QED BY <1>1, <1>5, <1>6, <1>7, <1>9

\* All three sets are finite.
LEMMA AtFinite ==
  ASSUME TreeOK, Unbuilt \subseteq 0 .. N - 1, NEW p
  PROVE  IsFiniteSet(LeafAt(p)) /\ IsFiniteSet(RestAt(p)) /\ IsFiniteSet(DataAt(p))
<1>1. Len(heap) \in Nat
  BY HeapLen
<1>2. IsFiniteSet(Nodes) /\ IsFiniteSet(0 .. N - 1)
  BY <1>1, FS_Interval, Sizes DEF Nodes
<1>3. LeafAt(p) \in SUBSET Nodes /\ RestAt(p) \in SUBSET (0 .. N - 1) /\ DataAt(p) \in SUBSET (0 .. N - 1)
  BY DEF LeafAt, RestAt, DataAt
<1> QED BY <1>2, <1>3, FS_Subset

\* A call on one point makes a leaf of it.
LEMMA LeafKeeps ==
  ASSUME HeapOK, CallsOK', NEW p, Kept(p), Leaf
  PROVE  Kept(p)'
<1> DEFINE x == LeafNode
           b == Top.base
           u == Len(heap) + 1
<1>1. /\ phase = "build" /\ Top.pc = "enter" /\ calls # <<>> /\ Top.n <= 1
      /\ heap' = Append(heap, x) /\ calls' = Outer
      /\ data_points' = data_points /\ index_arr' = index_arr
  BY DEF Leaf, Active, Return
<1>2. CallsOK /\ TreeOK /\ HeapSeq /\ ArraysOK
  BY DEF HeapOK, TreeOK, CallsOK
<1>3. Top \in Frame /\ Top.n = 1
  <2>1. Top \in Frame
    BY <1>1, <1>2, TopIs
  <2> QED BY <1>1, <2>1 DEF Frame
<1>4. b \in Int /\ Rest(Top) = {b} /\ Top.base .. Top.base + Top.n - 1 = {b}
  <2>1. b \in Int /\ Top.n = 1
    BY <1>3 DEF Frame
  <2> HIDE DEF b
  <2>2. b .. b + 1 - 1 = {b}
    BY <2>1
  <2>3. Rest(Top) = Top.base .. Top.base + Top.n - 1
    BY <1>1 DEF Rest
  <2> QED BY <2>1, <2>2, <2>3 DEF b
<1>5. /\ Unbuilt = OuterRest \cup {b} /\ b \notin OuterRest /\ b \in 0 .. N - 1
      /\ Unbuilt \subseteq 0 .. N - 1
  <2> HIDE DEF b
  <2>1. /\ Unbuilt = OuterRest \cup Rest(Top)
        /\ \A j \in OuterRest : j \notin Top.base .. Top.base + Top.n - 1
        /\ Top.base .. Top.base + Top.n - 1 \subseteq 0 .. N - 1
        /\ Unbuilt \subseteq 0 .. N - 1
    BY <1>1, <1>2, RestIs
  <2> QED BY <1>4, <2>1
<1>6. Unbuilt' = OuterRest
  <2> DEFINE K == Len(calls)
  <2>1. Len(calls') = K - 1 /\ \A i \in 1 .. K - 1 : calls'[i] = calls[i]
    BY <1>1, <1>2, OuterOK
  <2>2. Unbuilt' = UNION {Rest(calls'[i]) : i \in 1 .. Len(calls')}
    BY DEF Unbuilt, Rest
  <2>3. OuterRest = UNION {Rest(calls[i]) : i \in 1 .. K - 1}
    BY DEF OuterRest
  <2> HIDE DEF K
  <2>4. Unbuilt' = UNION {Rest(calls'[i]) : i \in 1 .. K - 1}
    BY <2>1, <2>2
  <2> QED BY <2>1, <2>3, <2>4
<1>7. Placed' = Placed /\ DataAt(p)' = DataAt(p)
  BY <1>1 DEF Placed, DataAt
<1>8. /\ Len(heap) \in Nat /\ Len(heap') = u /\ heap'[u] = x
      /\ \A v \in Nodes : heap'[v] = heap[v]
  BY <1>1, <1>2, HeapGrows
<1>9. x.wgtCent = Placed[b] /\ x.left = None /\ x.right = None
  BY <1>2, <1>5, PlacedIs DEF LeafNode
<1>10. RestAt(p)' = RestAt(p) \ {b} /\ (b \in RestAt(p) <=> Placed[b] = p)
  <2> HIDE DEF b
  <2> QED BY <1>5, <1>6, <1>7 DEF RestAt
<1>11. u \notin LeafAt(p) /\ LeafAt(p)' = IF Placed[b] = p THEN LeafAt(p) \cup {u} ELSE LeafAt(p)
  <2> DEFINE B == Placed[b]
  <2>1. \A v : v \in Nodes' <=> v \in Nodes \/ v = u
    BY <1>8 DEF Nodes
  <2>2. u \notin Nodes
    BY <1>8 DEF Nodes
  <2>3. x.wgtCent = B
    BY <1>9
  <2> HIDE DEF x, u, B
  <2>4. \A v : v \in LeafAt(p)' <=> v \in LeafAt(p) \/ (v = u /\ B = p)
    BY <1>8, <1>9, <2>1, <2>2, <2>3 DEF LeafAt, IsLeaf
  <2>5. u \notin LeafAt(p)
    BY <2>2 DEF LeafAt
  <2>6. LeafAt(p)' = IF B = p THEN LeafAt(p) \cup {u} ELSE LeafAt(p)
    BY <2>4
  <2> QED BY <2>5, <2>6 DEF B
<1>12. IsFiniteSet(LeafAt(p)) /\ IsFiniteSet(RestAt(p))
  BY <1>2, <1>5, AtFinite
<1> HIDE DEF b, u, x
<1>13. Cardinality(LeafAt(p)) \in Nat /\ Cardinality(RestAt(p)) \in Nat
  BY <1>12, FS_CardinalityType
<1>14. CASE Placed[b] = p
  <2>1. Cardinality(LeafAt(p)') = Cardinality(LeafAt(p)) + 1
    BY <1>11, <1>12, <1>14, FS_AddElement
  <2>2. Cardinality(RestAt(p)') = Cardinality(RestAt(p)) - 1
    BY <1>10, <1>12, <1>14, FS_RemoveElement
  <2> QED BY <1>7, <1>13, <2>1, <2>2 DEF Kept
<1>15. CASE Placed[b] # p
  <2>1. LeafAt(p)' = LeafAt(p) /\ RestAt(p)' = RestAt(p)
    BY <1>10, <1>11, <1>15
  <2> QED BY <1>7, <2>1 DEF Kept
<1> QED BY <1>14, <1>15

\* A node of two parts is no leaf, and both parts are built.
LEMMA JoinKeeps ==
  ASSUME HeapOK, NEW h, Heights(h), NEW p, Kept(p), Join
  PROVE  Kept(p)'
<1> DEFINE x == InnerNode(heap[Top.left], heap[ret])
           u == Len(heap) + 1
<1>1. /\ phase = "build" /\ Top.pc = "right" /\ calls # <<>>
      /\ heap' = Append(heap, x) /\ calls' = Outer
      /\ data_points' = data_points /\ index_arr' = index_arr
  BY DEF Join, Active, Return
<1>2. CallsOK /\ TreeOK /\ HeapSeq
  BY DEF HeapOK, TreeOK, CallsOK
<1>3. Unbuilt = OuterRest
  <2>1. Rest(Top) = {}
    BY <1>1 DEF Rest
  <2> QED BY <1>1, <1>2, <2>1, RestIs
<1>4. Unbuilt' = OuterRest
  <2> DEFINE K == Len(calls)
  <2>1. Len(calls') = K - 1 /\ \A i \in 1 .. K - 1 : calls'[i] = calls[i]
    BY <1>1, <1>2, OuterOK
  <2>2. Unbuilt' = UNION {Rest(calls'[i]) : i \in 1 .. Len(calls')}
    BY DEF Unbuilt, Rest
  <2>3. OuterRest = UNION {Rest(calls[i]) : i \in 1 .. K - 1}
    BY DEF OuterRest
  <2> HIDE DEF K
  <2>4. Unbuilt' = UNION {Rest(calls'[i]) : i \in 1 .. K - 1}
    BY <2>1, <2>2
  <2> QED BY <2>1, <2>3, <2>4
<1>5. Placed' = Placed /\ DataAt(p)' = DataAt(p)
  BY <1>1 DEF Placed, DataAt
<1>6. /\ Len(heap) \in Nat /\ Len(heap') = u /\ heap'[u] = x
      /\ \A v \in Nodes : heap'[v] = heap[v]
  BY <1>1, <1>2, HeapGrows
<1>7. x.left # None
  <2> DEFINE a == h[Len(calls)]  k == Top.n_lo
  <2>1. x.left = a + 2 * k - 1 /\ a \in Nat /\ k \in Nat \ {0}
    <3>1. a \in Nat /\ LeftBuilt(heap, Top, a) /\ Top.n_lo \in 1 .. Top.n - 1 /\ Top.n \in Nat
      BY <1>1, <1>2, TopHeight
    <3> QED BY <1>1, <3>1 DEF LeftBuilt, InnerNode
  <2> HIDE DEF a, k
  <2> QED BY <2>1 DEF None
<1>8. LeafAt(p)' = LeafAt(p)
  <2>1. \A v : v \in Nodes' <=> v \in Nodes \/ v = u
    BY <1>6 DEF Nodes
  <2> HIDE DEF x, u
  <2>2. \A v : v \in LeafAt(p)' <=> v \in LeafAt(p)
    BY <1>6, <1>7, <2>1 DEF LeafAt, IsLeaf
  <2> QED BY <2>2
<1>9. RestAt(p)' = RestAt(p)
  BY <1>3, <1>4, <1>5 DEF RestAt
<1> QED BY <1>5, <1>8, <1>9 DEF Kept

\* A call on a part takes its positions from the call that makes it.
LEMMA PushRest ==
  ASSUME CallsOK, calls # <<>>, NEW c \in Frame, NEW e \in Frame, calls' = Outer \o <<c, e>>,
         Rest(c) \cup Rest(e) = Rest(Top)
  PROVE  Unbuilt' = Unbuilt
<1> DEFINE K == Len(calls)
<1>1. /\ Len(calls') = K + 1
      /\ \A i \in 1 .. K - 1 : calls'[i] = calls[i]
      /\ calls'[K] = c /\ calls'[K + 1] = e
  BY PushedCalls
<1>2. K \in Nat \ {0}
  BY TopIs
<1>3. Unbuilt' = UNION {Rest(calls'[i]) : i \in 1 .. K + 1}
  <2>1. Unbuilt' = UNION {Rest(calls'[i]) : i \in 1 .. Len(calls')}
    BY DEF Unbuilt, Rest
  <2> QED BY <1>1, <2>1
<1>4. OuterRest = UNION {Rest(calls[i]) : i \in 1 .. K - 1}
  BY DEF OuterRest
<1>5. \A i : i \in 1 .. K + 1 <=> i \in 1 .. K - 1 \/ i = K \/ i = K + 1
  BY <1>2
<1> HIDE DEF K
<1>6. Unbuilt' = OuterRest \cup Rest(c) \cup Rest(e)
  <2>1. \A j : j \in Unbuilt' <=> \E i \in 1 .. K + 1 : j \in Rest(calls'[i])
    BY <1>3
  <2>2. \A j : j \in OuterRest <=> \E i \in 1 .. K - 1 : j \in Rest(calls[i])
    BY <1>4
  <2>3. \A j : j \in Unbuilt' <=> j \in OuterRest \/ j \in Rest(c) \/ j \in Rest(e)
    BY <1>1, <1>5, <2>1, <2>2
  <2> QED BY <2>3
<1> QED BY <1>6, RestIs

\* A split moves every point of the range to one position of it.
LEMMA SplitMoves ==
  ASSUME CallsOK, CallsOK', BuildLeft
  PROVE  LET R == Top.base .. Top.base + Top.n - 1
         IN  \E f, g : /\ f \in [R -> R] /\ g \in [R -> R]
                       /\ \A j \in R : f[g[j]] = j /\ g[f[j]] = j /\ Placed'[j] = Placed[f[j]]
<1> DEFINE s == split_bounding_box(Top.base, Top.n)
           b == Top.base
           n == Top.n
           R == b .. b + n - 1
<1>1. phase = "build" /\ calls # <<>> /\ Top.n > 1 /\ Active("enter")
  BY DEF BuildLeft, Active
<1>2. /\ \A j \in R : Placed'[j] = data_points[s.arr[j - b]]
      /\ R \subseteq 0 .. N - 1
  BY SplitPlaced
<1>3. SplitOf(s, b, n)
  BY <1>1, TopSplit
<1>4. b \in Nat /\ n \in Nat
  <2>1. Top \in Frame
    BY <1>1, TopIs
  <2> QED BY <2>1 DEF Frame
<1>5. \A j \in 0 .. N - 1 : Placed[j] = data_points[index_arr[j]]
  BY PlacedIs DEF CallsOK
<1> DEFINE a == [i \in 0 .. n - 1 |-> index_arr[b + i]]
<1>6. PICK p, q : Moved(p, q, a, s.arr, 0, n)
  BY <1>3 DEF SplitOf, Rearranged
<1> HIDE DEF s, b, n
<1>7. /\ p \in [0 .. n - 1 -> 0 .. n - 1] /\ q \in [0 .. n - 1 -> 0 .. n - 1]
      /\ \A i \in 0 .. n - 1 : p[q[i]] = i /\ q[p[i]] = i /\ s.arr[i] = index_arr[b + p[i]]
  BY <1>6 DEF Moved
<1> DEFINE f == [j \in R |-> b + p[j - b]]
           g == [j \in R |-> b + q[j - b]]
<1>8. \A j \in R : j - b \in 0 .. n - 1 /\ b + (j - b) = j
  BY <1>4
<1>9. \A i \in 0 .. n - 1 : b + i \in R /\ (b + i) - b = i
  BY <1>4
<1> HIDE DEF R
<1>10. \A j \in R : b + p[j - b] \in R /\ b + q[j - b] \in R
  BY <1>7, <1>8, <1>9
<1>11. f \in [R -> R] /\ g \in [R -> R]
  BY <1>10
<1>12. ASSUME NEW j \in R PROVE f[g[j]] = j /\ g[f[j]] = j /\ Placed'[j] = Placed[f[j]]
  <2>1. f[j] = b + p[j - b] /\ g[j] = b + q[j - b] /\ f[j] \in R /\ g[j] \in R
    BY <1>10
  <2>2. p[j - b] \in 0 .. n - 1 /\ q[j - b] \in 0 .. n - 1 /\ j - b \in 0 .. n - 1
    BY <1>7, <1>8
  <2>3. f[g[j]] = b + p[q[j - b]] /\ g[f[j]] = b + q[p[j - b]]
    <3>1. f[g[j]] = b + p[g[j] - b] /\ g[f[j]] = b + q[f[j] - b]
      BY <2>1
    <3>2. g[j] - b = q[j - b] /\ f[j] - b = p[j - b]
      BY <1>9, <2>1, <2>2
    <3> QED BY <3>1, <3>2
  <2>4. Placed'[j] = Placed[f[j]]
    <3>1. Placed'[j] = data_points[s.arr[j - b]] /\ s.arr[j - b] = index_arr[b + p[j - b]]
      BY <1>2, <1>7, <2>2 DEF R
    <3>2. f[j] \in 0 .. N - 1
      BY <1>2, <2>1 DEF R
    <3> HIDE DEF f
    <3> QED BY <1>5, <2>1, <3>1, <3>2
  <2> QED BY <1>7, <1>8, <2>2, <2>3, <2>4
<1> HIDE DEF f, g
<1>13. \E ff, gg : /\ ff \in [R -> R] /\ gg \in [R -> R]
                   /\ \A j \in R : ff[gg[j]] = j /\ gg[ff[j]] = j /\ Placed'[j] = Placed[ff[j]]
  BY <1>11, <1>12
<1> QED BY <1>13 DEF R, b, n

\* The call on the left part takes over its positions, and the split moves their points.
LEMMA BuildLeftKeeps ==
  ASSUME HeapOK, CallsOK', NEW p, Kept(p), BuildLeft
  PROVE  Kept(p)'
<1> DEFINE s == split_bounding_box(Top.base, Top.n)
           c == LeftFrame
           e == Call(Top.base, s.n_lo)
           b == Top.base
           n == Top.n
           k == s.n_lo
           R == b .. b + n - 1
<1>1. /\ calls # <<>> /\ Top.pc = "enter" /\ heap' = heap /\ data_points' = data_points
      /\ calls' = Outer \o <<c, e>>
  BY DEF BuildLeft, Active, LeftFrame
<1>2. CallsOK /\ TreeOK
  BY DEF HeapOK
<1>3. /\ SplitOf(s, b, n)
      /\ c \in Frame /\ c.pc = "left" /\ c.n_lo = k /\ c.base = b /\ c.n = n
      /\ e \in Frame /\ e.pc = "enter" /\ e.base = b /\ e.n = k
  BY <1>2, BuildLeftFrames
<1>4. b \in Nat /\ n \in Nat /\ k \in 1 .. n - 1
  <2>1. Top \in Frame
    BY <1>1, <1>2, TopIs
  <2>2. b \in Nat /\ n \in Nat
    BY <2>1 DEF Frame
  <2> HIDE DEF s, b, n
  <2> QED BY <1>3, <2>2 DEF SplitOf
<1>5. PICK f, g : /\ f \in [R -> R] /\ g \in [R -> R]
                  /\ \A j \in R : f[g[j]] = j /\ g[f[j]] = j /\ Placed'[j] = Placed[f[j]]
  <2> HIDE DEF s
  <2> QED BY <1>2, SplitMoves
<1>6. \A j \in 0 .. N - 1 : j \notin R => Placed'[j] = Placed[j]
  BY <1>2, SplitPlaced
<1>7. Rest(Top) = R
  BY <1>1 DEF Rest
<1>8. Unbuilt' = Unbuilt
  <2>1. Rest(c) = b + k .. b + n - 1 /\ Rest(e) = b .. b + k - 1
    BY <1>3 DEF Rest
  <2> HIDE DEF c, e
  <2>2. Rest(c) \cup Rest(e) = Rest(Top)
    <3> HIDE DEF b, n, k
    <3>1. (b + k .. b + n - 1) \cup (b .. b + k - 1) = b .. b + n - 1
      BY <1>4
    <3> QED BY <1>7, <2>1, <3>1 DEF R
  <2> HIDE DEF s, k, b, n
  <2> QED BY <1>1, <1>2, <1>3, <2>2, PushRest
<1>9. Unbuilt \subseteq 0 .. N - 1 /\ R \subseteq Unbuilt
  <2>1. Unbuilt \subseteq 0 .. N - 1 /\ Unbuilt = OuterRest \cup Rest(Top)
    BY <1>1, <1>2, RestIs
  <2> QED BY <1>7, <2>1
<1>10. LeafAt(p)' = LeafAt(p) /\ DataAt(p)' = DataAt(p)
  BY <1>1 DEF LeafAt, DataAt, Nodes, IsLeaf
<1> HIDE DEF R
<1> DEFINE A == RestAt(p)
           B == {j \in Unbuilt : Placed'[j] = p}
           F == [j \in A |-> IF j \in R THEN g[j] ELSE j]
<1>11. RestAt(p)' = B
  BY <1>8 DEF RestAt
<1>12. \A j \in A : j \in Unbuilt /\ Placed[j] = p
  BY DEF RestAt
<1>13. \A j \in R : f[j] \in R /\ g[j] \in R /\ f[g[j]] = j /\ g[f[j]] = j /\ Placed'[g[j]] = Placed[j] /\ Placed'[j] = Placed[f[j]]
  BY <1>5
<1>14. \A j \in A : F[j] \in B
  BY <1>6, <1>9, <1>12, <1>13
<1>15. F \in [A -> B]
  BY <1>14
<1>16. \A i, j \in A : F[i] = F[j] => i = j
  BY <1>13
<1>17. \A j \in B : \E i \in A : F[i] = j
  <2> TAKE j \in B
  <2>1. CASE j \in R
    <3>1. f[j] \in R /\ f[j] \in A /\ g[f[j]] = j
      BY <1>9, <1>13, <2>1 DEF RestAt
    <3> QED BY <3>1
  <2>2. CASE j \notin R
    <3>1. j \in A
      BY <1>6, <1>9, <2>2 DEF RestAt
    <3> QED BY <2>2, <3>1
  <2> QED BY <2>1, <2>2
<1> HIDE DEF A, B, F
<1>18. F \in Bijection(A, B)
  BY <1>15, <1>16, <1>17 DEF Bijection, Injection, Surjection, IsInjective
<1>19. ExistsBijection(A, B)
  BY <1>18 DEF ExistsBijection
<1>20. IsFiniteSet(A)
  BY <1>2, <1>9, AtFinite DEF A
<1>21. Cardinality(B) = Cardinality(A)
  BY <1>19, <1>20, FS_Bijection
<1> QED BY <1>10, <1>11, <1>21 DEF Kept, A

\* The call on the right part takes over the rest.
LEMMA BuildRightKeeps ==
  ASSUME HeapOK, ret \in Nat, NEW p, Kept(p), BuildRight
  PROVE  Kept(p)'
<1> DEFINE b == Top.base  n == Top.n  k == Top.n_lo
           c == RightFrame
           e == Call(b + k, n - k)
<1>1. /\ calls # <<>> /\ Top.pc = "left" /\ heap' = heap /\ data_points' = data_points
      /\ index_arr' = index_arr /\ calls' = Outer \o <<c, e>>
  BY DEF BuildRight, Active, RightFrame
<1>2. CallsOK
  BY DEF HeapOK
<1>3. /\ c \in Frame /\ c.pc = "right" /\ e \in Frame /\ e.pc = "enter" /\ e.base = b + k /\ e.n = n - k
  BY <1>2, BuildRightFrames
<1>4. b \in Nat /\ n \in Nat /\ k \in Nat
  <2>1. Top \in Frame
    BY <1>1, <1>2, TopIs
  <2> QED BY <2>1 DEF Frame
<1>5. Rest(Top) = b + k .. b + n - 1
  BY <1>1 DEF Rest
<1> HIDE DEF c, e
<1>6. Rest(c) \cup Rest(e) = Rest(Top)
  <2>1. Rest(c) = {} /\ Rest(e) = b + k .. (b + k) + (n - k) - 1
    BY <1>3 DEF Rest
  <2> HIDE DEF b, n, k
  <2>2. (b + k) + (n - k) - 1 = b + n - 1
    BY <1>4
  <2> QED BY <1>5, <2>1, <2>2
<1> HIDE DEF b, n, k
<1>7. Unbuilt' = Unbuilt
  BY <1>1, <1>2, <1>3, <1>6, PushRest
<1>8. LeafAt(p)' = LeafAt(p) /\ DataAt(p)' = DataAt(p) /\ Placed' = Placed
  BY <1>1 DEF LeafAt, DataAt, Nodes, IsLeaf, Placed
<1>9. RestAt(p)' = RestAt(p)
  BY <1>7, <1>8 DEF RestAt
<1> QED BY <1>8, <1>9 DEF Kept

\* The inductive invariant of the points.
KeptInv ==
  /\ phase = "box" => index_arr = [i \in 0 .. N - 1 |-> i]
  /\ phase \in {"build", "run", "delete"} => \A p : Kept(p)

\* The first call takes all the positions, in the order of the data.
LEMMA FirstKept ==
  ASSUME HeapOK, KeptInv, compute_bounding_box, NEW p
  PROVE  Kept(p)'
<1>1. /\ phase = "box" /\ heap' = heap /\ data_points' = data_points /\ index_arr' = index_arr
      /\ calls' = <<Call(0, N)>>
  BY DEF compute_bounding_box
<1>2. heap = <<>> /\ ArraysOK
  BY <1>1 DEF HeapOK, CallsOK
<1>3. LeafAt(p)' = {}
  <2>1. Len(heap') = 0
    BY <1>1, <1>2
  <2> QED BY <2>1 DEF LeafAt, Nodes
<1> DEFINE e == Call(0, N)
<1>4. e.pc = "enter" /\ e.base = 0 /\ e.n = N
  BY DEF Call
<1>5. Len(calls') = 1 /\ calls'[1] = e
  BY <1>1
<1> HIDE DEF e
<1>6. Unbuilt' = 0 .. N - 1
  <2>1. Unbuilt' = UNION {Rest(calls'[i]) : i \in 1 .. Len(calls')}
    BY DEF Unbuilt, Rest
  <2>2. Unbuilt' = Rest(e)
    BY <1>5, <2>1
  <2>3. Rest(e) = 0 .. 0 + N - 1
    BY <1>4 DEF Rest
  <2> QED BY <2>2, <2>3, Sizes
<1>7. Placed' = data_points
  <2>1. \A j \in 0 .. N - 1 : index_arr'[j] = j
    BY <1>1 DEF KeptInv
  <2>2. Placed' = [j \in 0 .. N - 1 |-> data_points[j]]
    BY <1>1, <2>1 DEF Placed
  <2> QED BY <1>2, <2>2 DEF ArraysOK
<1>8. RestAt(p)' = DataAt(p)'
  BY <1>1, <1>6, <1>7 DEF RestAt, DataAt
<1>9. IsFiniteSet(DataAt(p)')
  <2> DEFINE S == 0 .. N - 1  T == DataAt(p)'
  <2>1. T \in SUBSET S
    BY DEF DataAt
  <2>2. IsFiniteSet(S)
    BY FS_Interval, Sizes
  <2> HIDE DEF S, T
  <2>3. IsFiniteSet(T)
    BY <2>1, <2>2, FS_Subset
  <2> QED BY <2>3 DEF T
<1>10. Cardinality(DataAt(p)') \in Nat /\ Cardinality(LeafAt(p)') = 0
  BY <1>3, <1>9, FS_CardinalityType, FS_EmptySet
<1> QED BY <1>8, <1>10 DEF Kept

\* No step loses or repeats a point.
LEMMA KeptStep == HeapInv /\ KeptInv /\ [Next]_vars => KeptInv'
<1> SUFFICES ASSUME HeapInv, KeptInv, [Next]_vars PROVE KeptInv'
  OBVIOUS
<1>1. PICK h : Heights(h)
  BY DEF HeapInv
<1>2. HeapOK /\ CallsOK /\ ret \in Nat
  <2>1. HeapOK /\ CallsOK /\ TreeOK /\ ret \in 0 .. Len(heap)
    BY DEF HeapInv, HeapOK
  <2> QED BY <2>1
<1>3. CallsOK'
  BY HeapStep DEF HeapInv, HeapOK
<1>4. ASSUME read_data_points PROVE KeptInv'
  <2>1. phase' \in {"failed", "box"} /\ (phase' = "box" => index_arr' = [i \in 0 .. N - 1 |-> i])
    BY <1>4 DEF read_data_points
  <2> QED BY <2>1 DEF KeptInv
<1>5. ASSUME compute_bounding_box PROVE KeptInv'
  <2>1. phase' = "build" /\ \A p : Kept(p)'
    BY <1>2, <1>5, FirstKept DEF compute_bounding_box
  <2> QED BY <2>1 DEF KeptInv
<1>6. ASSUME Leaf \/ Join \/ BuildLeft \/ BuildRight PROVE KeptInv'
  <2>1. phase = "build" /\ phase' # "box"
    BY <1>6 DEF Leaf, Join, BuildLeft, BuildRight, Return
  <2>2. \A p : Kept(p)
    BY <2>1 DEF KeptInv
  <2>3. ASSUME NEW p PROVE Kept(p)'
    <3>1. Kept(p)
      BY <2>2
    <3> QED BY <1>1, <1>2, <1>3, <1>6, <3>1, LeafKeeps, JoinKeeps, BuildLeftKeeps, BuildRightKeeps
  <2> QED BY <2>1, <2>3 DEF KeptInv
<1>7. ASSUME StartDelete \/ deletekdTree \/ UNCHANGED vars PROVE KeptInv'
  <2>1. build' = build /\ (phase' = phase \/ (phase = "run" /\ phase' = "delete"))
    BY <1>7 DEF StartDelete, deletekdTree, vars
  <2>2. heap' = heap /\ calls' = calls /\ data_points' = data_points /\ index_arr' = index_arr /\ file' = file
    BY <2>1 DEF build
  <2>3. ASSUME NEW p, Kept(p) PROVE Kept(p)'
    <3>1. LeafAt(p)' = LeafAt(p) /\ DataAt(p)' = DataAt(p) /\ Placed' = Placed /\ Unbuilt' = Unbuilt
      BY <2>2 DEF LeafAt, DataAt, Nodes, IsLeaf, Placed, Unbuilt
    <3>2. RestAt(p)' = RestAt(p)
      BY <3>1 DEF RestAt
    <3> QED BY <2>3, <3>1, <3>2 DEF Kept
  <2> QED BY <2>1, <2>2, <2>3 DEF KeptInv
<1>8. UNCHANGED vars \/ Next
  OBVIOUS
<1> QED BY <1>4, <1>5, <1>6, <1>7, <1>8 DEF Next

\* What the data file says of a point is what the tree says of it.
LEMMA KeptIsPointsKept ==
  ASSUME CallsOK, phase \in {"build", "run", "delete"} => \A p : Kept(p)
  PROVE  PointsKept
<1> SUFFICES ASSUME phase \in {"build", "run", "delete"}, NEW p
             PROVE  Cardinality({j \in 0 .. N - 1 : data_points[j] = p})
                      = Cardinality({u \in Nodes : IsLeaf(u) /\ heap[u].wgtCent = p})
                        + Cardinality({j \in Unbuilt : data_points[index_arr[j]] = p})
  BY DEF PointsKept
<1>1. Unbuilt \subseteq 0 .. N - 1
  <2>1. CASE calls = <<>>
    <3>1. 1 .. Len(calls) = {}
      BY <2>1
    <3> QED BY <3>1 DEF Unbuilt
  <2>2. CASE calls # <<>>
    BY <2>2, RestIs
  <2> QED BY <2>1, <2>2
<1>2. \A j \in 0 .. N - 1 : Placed[j] = data_points[index_arr[j]]
  BY PlacedIs DEF CallsOK
<1>3. RestAt(p) = {j \in Unbuilt : data_points[index_arr[j]] = p}
  BY <1>1, <1>2 DEF RestAt
<1>4. Kept(p)
  OBVIOUS
<1> QED BY <1>3, <1>4 DEF Kept, LeafAt, DataAt

\* Rearranging index_arr in place loses and repeats no point: each is in one leaf, or in one
\* range that is still to be built.
THEOREM KdPointsKept == Spec => []PointsKept
<1>1. Init => KeptInv
  BY DEF Init, KeptInv
<1>2. HeapInv /\ KeptInv => PointsKept
  <2> SUFFICES ASSUME HeapInv, KeptInv PROVE PointsKept
    OBVIOUS
  <2>1. CallsOK
    BY DEF HeapInv, HeapOK
  <2> QED BY <2>1, KeptIsPointsKept DEF KeptInv
<1> QED BY <1>1, <1>2, HeapInvariant, KeptStep, PTL DEF Spec

-----------------------------------------------------------------------------
(***************************************************************************)
(* Sums over finite sets.                                                  *)
(***************************************************************************)

\* T is the sum of f over each subset of S, in whatever order its elements are taken.
Sums(T, f, S) ==
  /\ T \in [SUBSET S -> Int] /\ T[{}] = 0
  /\ \A s \in SUBSET S : \A x \in s : T[s] = f[x] + T[s \ {x}]

\* A fold of f over A takes the elements one by one.
FoldsTo(g, f, A) ==
  g = [s \in SUBSET A |-> IF s = {} THEN 0 ELSE f[CHOOSE x \in s : TRUE] + g[s \ {CHOOSE x \in s : TRUE}]]

\* A set of finite sets with a property has a smallest member.
LEMMA SmallestSet ==
  ASSUME NEW S, IsFiniteSet(S), NEW B \in SUBSET (SUBSET S), B # {}
  PROVE  \E s \in B : \A t \in B : t \subseteq s => t = s
<1> DEFINE R == StrictSubsetOrdering(S)
<1>1. IsWellFoundedOn(R, FiniteSubsetsOf(S))
  BY FS_StrictSubsetOrderingWellFounded
<1>2. B \subseteq FiniteSubsetsOf(S)
  <2>1. \A s \in SUBSET S : IsFiniteSet(s)
    BY FS_Subset
  <2> QED BY <2>1 DEF FiniteSubsetsOf
<1> HIDE DEF R
<1>3. PICK s \in B : \A t \in B : ~(<<t, s>> \in R)
  BY <1>1, <1>2, WFMin
<1>4. \A t \in B : t \subseteq s => t = s
  <2> TAKE t \in B
  <2>1. t \in SUBSET S /\ s \in SUBSET S
    OBVIOUS
  <2> QED BY <1>3, <2>1 DEF R, StrictSubsetOrdering
<1> QED BY <1>4

\* A fold that takes one element first is the sum, whichever it takes.
LEMMA FoldIsSum ==
  ASSUME NEW S, IsFiniteSet(S), NEW f, NEW T, Sums(T, f, S), NEW A \in SUBSET S
  PROVE  /\ \E g : FoldsTo(g, f, A)
         /\ \A g : FoldsTo(g, f, A) => g[A] = T[A]
<1> DEFINE c(s) == CHOOSE x \in s : TRUE
<1>1. ASSUME NEW s \in SUBSET A, s # {} PROVE c(s) \in s /\ s \ {c(s)} \in SUBSET A
  BY <1>1
<1>2. T[{}] = 0 /\ \A s \in SUBSET A : \A x \in s : T[s] = f[x] + T[s \ {x}]
  BY DEF Sums
<1>3. \E g : FoldsTo(g, f, A)
  <2> DEFINE g == [s \in SUBSET A |-> T[s]]
  <2> HIDE DEF c
  <2>1. ASSUME NEW s \in SUBSET A
        PROVE  g[s] = IF s = {} THEN 0 ELSE f[c(s)] + g[s \ {c(s)}]
    <3>1. CASE s = {}
      BY <1>2, <3>1
    <3>2. CASE s # {}
      <4>1. c(s) \in s /\ s \ {c(s)} \in SUBSET A
        BY <1>1, <3>2
      <4>2. T[s] = f[c(s)] + T[s \ {c(s)}]
        BY <1>2, <4>1
      <4> QED BY <3>2, <4>1, <4>2
    <3> QED BY <3>1, <3>2
  <2>2. g = [s \in SUBSET A |-> g[s]]
    OBVIOUS
  <2> HIDE DEF g
  <2>3. FoldsTo(g, f, A)
    BY <2>1, <2>2 DEF FoldsTo, c
  <2> QED BY <2>3
<1>4. ASSUME NEW g, FoldsTo(g, f, A) PROVE g[A] = T[A]
  <2> DEFINE B == {s \in SUBSET A : g[s] # T[s]}
  <2>1. \A s \in SUBSET A : g[s] = IF s = {} THEN 0 ELSE f[c(s)] + g[s \ {c(s)}]
    BY <1>4 DEF FoldsTo
  <2> HIDE DEF c
  <2>2. ASSUME B # {} PROVE FALSE
    <3>1. IsFiniteSet(A)
      BY FS_Subset
    <3>2. PICK s \in B : \A t \in B : t \subseteq s => t = s
      <4>1. B \in SUBSET (SUBSET A)
        OBVIOUS
      <4> HIDE DEF B
      <4> QED BY <2>2, <3>1, <4>1, SmallestSet
    <3>3. s # {}
      BY <1>2, <2>1
    <3>4. c(s) \in s /\ s \ {c(s)} \in SUBSET A
      BY <1>1, <3>3
    <3>5. s \ {c(s)} \notin B
      BY <3>2, <3>4
    <3>6. g[s \ {c(s)}] = T[s \ {c(s)}]
      BY <3>4, <3>5
    <3> QED BY <1>2, <2>1, <3>3, <3>4, <3>6
  <2> QED BY <2>2
<1> QED BY <1>3, <1>4

\* There is a sum over every finite set.
LEMMA SumExists ==
  ASSUME NEW S, IsFiniteSet(S), NEW f \in [S -> Int]
  PROVE  \E T : Sums(T, f, S)
<1> DEFINE c(s) == CHOOSE x \in s : TRUE
           States == (SUBSET S) \X Int
           End == {<<{}, a>> : a \in Int}
           next == [z \in States |-> IF z[1] = {} THEN z ELSE <<z[1] \ {c(z[1])}, z[2] + f[c(z[1])]>>]
           final == [z \in States |-> z[2]]
<1>1. ASSUME NEW s \in SUBSET S, s # {} PROVE c(s) \in s /\ c(s) \in S /\ s \ {c(s)} \in SUBSET S /\ f[c(s)] \in Int
  BY <1>1
<1> HIDE DEF c
<1>2. next \in [States -> States] /\ final \in [States -> Int]
  BY <1>1
<1>3. \A a \in Int : <<{}, a>> \in States /\ <<{}, a>> \in End /\ final[<<{}, a>>] = a
  OBVIOUS
<1>4. ASSUME NEW s \in SUBSET S, s # {}, NEW a \in Int
      PROVE  <<s, a>> \in States /\ <<s, a>> \notin End /\ next[<<s, a>>] = <<s \ {c(s)}, a + f[c(s)]>>
  BY <1>4
<1>5. \A z \in States : \E s \in SUBSET S : \E a \in Int : z = <<s, a>>
  OBVIOUS
<1> HIDE DEF States, End, next, final
<1>6. ASSUME NEW U \in SUBSET States, \A z \in States : z \in End \/ next[z] \in U => z \in U
      PROVE  U = States
  <2> DEFINE B == {s \in SUBSET S : \E a \in Int : <<s, a>> \notin U}
  <2>1. ASSUME B # {} PROVE FALSE
    <3>1. PICK s \in B : \A t \in B : t \subseteq s => t = s
      <4>1. B \in SUBSET (SUBSET S)
        OBVIOUS
      <4> HIDE DEF B
      <4> QED BY <2>1, <4>1, SmallestSet
    <3>2. PICK a \in Int : <<s, a>> \notin U
      OBVIOUS
    <3>3. s # {}
      BY <1>3, <1>6, <3>2
    <3>4. s \ {c(s)} \in SUBSET S /\ s \ {c(s)} # s /\ s \ {c(s)} \subseteq s /\ a + f[c(s)] \in Int
      BY <1>1, <3>3
    <3>5. s \ {c(s)} \notin B
      BY <3>1, <3>4
    <3>6. <<s \ {c(s)}, a + f[c(s)]>> \in U
      BY <3>4, <3>5
    <3> QED BY <1>4, <1>6, <3>2, <3>3, <3>6
  <2>2. \A s \in SUBSET S : \A a \in Int : <<s, a>> \in U
    BY <2>1
  <2>3. \A z \in States : z \in U
    BY <1>5, <2>2
  <2> HIDE DEF B
  <2> QED BY <2>3
<1>7. PICK F \in [States -> Int] : Follows(F, States, End, final, next)
  BY <1>2, <1>6, LoopComputes
<1>8. \A a \in Int : F[<<{}, a>>] = a
  BY <1>3, <1>7 DEF Follows
<1>9. ASSUME NEW s \in SUBSET S, s # {}, NEW a \in Int
      PROVE  F[<<s, a>>] = F[<<s \ {c(s)}, a + f[c(s)]>>]
  BY <1>4, <1>7, <1>9 DEF Follows
<1>10. \A s \in SUBSET S : \A a \in Int : F[<<s, a>>] \in Int
  BY DEF States
<1> HIDE DEF End, next, final, States
<1> DEFINE B == {s \in SUBSET S : \E a \in Int : F[<<s, a>>] # a + F[<<s, 0>>]}
<1>11. B = {}
  <2> SUFFICES ASSUME B # {} PROVE FALSE
    OBVIOUS
  <2>1. PICK s \in B : \A t \in B : t \subseteq s => t = s
    <3>1. B \in SUBSET (SUBSET S)
      OBVIOUS
    <3> HIDE DEF B
    <3> QED BY <3>1, SmallestSet
  <2>2. PICK a \in Int : F[<<s, a>>] # a + F[<<s, 0>>]
    OBVIOUS
  <2>3. s # {}
    BY <1>8, <2>2
  <2> DEFINE t == s \ {c(s)}  y == f[c(s)]
  <2>4. t \in SUBSET S /\ t # s /\ t \subseteq s /\ y \in Int
    BY <1>1, <2>3
  <2>5. t \notin B
    BY <2>1, <2>4
  <2>6. F[<<s, a>>] = F[<<t, a + y>>] /\ F[<<s, 0>>] = F[<<t, 0 + y>>]
    BY <1>9, <2>3
  <2> HIDE DEF t, y
  <2>7. a + y \in Int /\ 0 + y \in Int
    BY <2>4
  <2>8. F[<<t, a + y>>] = (a + y) + F[<<t, 0>>] /\ F[<<t, 0 + y>>] = (0 + y) + F[<<t, 0>>]
    BY <2>4, <2>5, <2>7
  <2>9. F[<<t, 0>>] \in Int
    BY <1>10, <2>4
  <2> QED BY <2>2, <2>4, <2>6, <2>8, <2>9
<1> DEFINE T == [s \in SUBSET S |-> F[<<s, 0>>]]
<1>12. T \in [SUBSET S -> Int] /\ T[{}] = 0
  BY <1>8, <1>10
<1>13. ASSUME NEW s \in SUBSET S, s # {}
       PROVE  T[s] = f[c(s)] + T[s \ {c(s)}]
  <2> DEFINE t == s \ {c(s)}  y == f[c(s)]
  <2>1. t \in SUBSET S /\ y \in Int
    BY <1>1, <1>13
  <2>2. F[<<s, 0>>] = F[<<t, 0 + y>>]
    BY <1>9, <1>13
  <2> HIDE DEF t, y
  <2>3. F[<<t, y>>] = y + F[<<t, 0>>]
    BY <1>11, <2>1
  <2>4. 0 + y = y
    BY <2>1
  <2>5. T[s] = y + T[t]
    BY <2>1, <2>2, <2>3, <2>4
  <2> QED BY <2>5 DEF t, y
<1> HIDE DEF T
<1> DEFINE W == {s \in SUBSET S : \E x \in s : T[s] # f[x] + T[s \ {x}]}
<1>14. W = {}
  <2> SUFFICES ASSUME W # {} PROVE FALSE
    OBVIOUS
  <2>1. PICK s \in W : \A t \in W : t \subseteq s => t = s
    <3>1. W \in SUBSET (SUBSET S)
      OBVIOUS
    <3> HIDE DEF W
    <3> QED BY <3>1, SmallestSet
  <2>2. PICK x \in s : T[s] # f[x] + T[s \ {x}]
    OBVIOUS
  <2> DEFINE z == c(s)
             t == s \ {z}
             r == s \ {x}
             b == t \ {x}
  <2>3. z \in s /\ T[s] = f[z] + T[t]
    BY <1>1, <1>13
  <2>4. x # z
    BY <2>2, <2>3
  <2>5. /\ s \in SUBSET S /\ x \in t /\ z \in r /\ b = r \ {z}
        /\ t \in SUBSET S /\ r \in SUBSET S /\ b \in SUBSET S
        /\ t \subseteq s /\ r \subseteq s /\ t # s /\ r # s
    BY <2>3, <2>4
  <2>6. t \notin W /\ r \notin W
    BY <2>1, <2>5
  <2>7. T[t] = f[x] + T[b] /\ T[r] = f[z] + T[b]
    BY <2>5, <2>6
  <2>8. f[x] \in Int /\ f[z] \in Int /\ T[b] \in Int
    BY <1>12, <2>2, <2>3, <2>5
  <2>9. T[s] # f[x] + T[r]
    BY <2>2
  <2> HIDE DEF z, t, r, b
  <2> QED BY <2>3, <2>7, <2>8, <2>9
<1>15. Sums(T, f, S)
  BY <1>12, <1>14 DEF Sums
<1> QED BY <1>15

\* The sum over one element,
LEMMA SumOfOne ==
  ASSUME NEW S, NEW f \in [S -> Int], NEW T, Sums(T, f, S), NEW x \in S
  PROVE  T[{x}] = f[x]
<1>1. {x} \in SUBSET S /\ x \in {x} /\ {x} \ {x} = {} /\ f[x] \in Int
  OBVIOUS
<1>2. T[{x}] = f[x] + T[{}] /\ T[{}] = 0
  BY <1>1 DEF Sums
<1> QED BY <1>1, <1>2

\* and over two sets with nothing in common.
LEMMA SumOfBoth ==
  ASSUME NEW S, IsFiniteSet(S), NEW f \in [S -> Int], NEW T, Sums(T, f, S),
         NEW A \in SUBSET S, NEW B \in SUBSET S, A \cap B = {}
  PROVE  T[A \cup B] = T[A] + T[B]
<1>1. /\ T \in [SUBSET S -> Int] /\ T[{}] = 0
      /\ \A s \in SUBSET S : \A x \in s : T[s] = f[x] + T[s \ {x}]
  BY DEF Sums
<1> DEFINE W == {s \in SUBSET A : T[s \cup B] # T[s] + T[B]}
<1>2. W = {}
  <2> SUFFICES ASSUME W # {} PROVE FALSE
    OBVIOUS
  <2>1. IsFiniteSet(A)
    BY FS_Subset
  <2>2. PICK s \in W : \A t \in W : t \subseteq s => t = s
    <3>1. W \in SUBSET (SUBSET A)
      OBVIOUS
    <3> HIDE DEF W
    <3> QED BY <2>1, <3>1, SmallestSet
  <2>3. s # {}
    <3>1. {} \cup B = B /\ T[B] \in Int /\ T[{}] + T[B] = T[B]
      BY <1>1
    <3> QED BY <3>1
  <2>4. PICK x : x \in s
    BY <2>3
  <2> DEFINE t == s \ {x}  u == t \cup B
  <2>5. /\ t \in SUBSET A /\ t \subseteq s /\ t # s /\ x \in S /\ x \in s \cup B /\ (s \cup B) \ {x} = u
        /\ s \cup B \in SUBSET S /\ u \in SUBSET S /\ s \in SUBSET S /\ t \in SUBSET S
    BY <2>4
  <2>6. T[u] = T[t] + T[B]
    BY <2>2, <2>5
  <2>7. T[s \cup B] = f[x] + T[u] /\ T[s] = f[x] + T[t]
    BY <1>1, <2>4, <2>5
  <2>8. f[x] \in Int /\ T[t] \in Int /\ T[B] \in Int
    BY <1>1, <2>5
  <2>9. T[s \cup B] # T[s] + T[B]
    OBVIOUS
  <2> HIDE DEF t, u, W
  <2> QED BY <2>6, <2>7, <2>8, <2>9
<1> QED BY <1>2

-----------------------------------------------------------------------------
(***************************************************************************)
(* The sums of the nodes.                                                  *)
(***************************************************************************)

\* The sum of squares of a point is an integer.
LEMMA SumSqIs == \A p \in Point : SumSq(p) \in Int
<1> TAKE p \in Point
<1>1. IsFiniteSet(Dims)
  BY Sizes, FS_Interval
<1> DEFINE f == [d \in Dims |-> p[d] * p[d]]
           E(g) == g = [s \in SUBSET Dims |-> IF s = {} THEN 0
                                              ELSE p[CHOOSE x \in s : TRUE] * p[CHOOSE x \in s : TRUE]
                                                     + g[s \ {CHOOSE x \in s : TRUE}]]
<1>2. f \in [Dims -> Int]
  BY DEF Point
<1>3. SumSq(p) = (CHOOSE g : E(g))[Dims]
  BY DEF SumSq, MapThenSumSet, MapThenFoldSet
<1>4. ASSUME NEW g PROVE E(g) <=> FoldsTo(g, f, Dims)
  <2>1. \A s \in SUBSET Dims : s # {} => (CHOOSE x \in s : TRUE) \in Dims
    OBVIOUS
  <2>2. \A x \in Dims : f[x] = p[x] * p[x]
    OBVIOUS
  <2> HIDE DEF f
  <2> QED BY <2>1, <2>2 DEF FoldsTo
<1> HIDE DEF E, f
<1>5. PICK T : Sums(T, f, Dims)
  BY <1>1, <1>2, SumExists
<1>6. (\E g : FoldsTo(g, f, Dims)) /\ \A g : FoldsTo(g, f, Dims) => g[Dims] = T[Dims]
  BY <1>1, <1>5, FoldIsSum
<1>7. E(CHOOSE g : E(g))
  <2>1. \E g : E(g)
    BY <1>4, <1>6
  <2> QED BY <2>1
<1>8. SumSq(p) = T[Dims]
  BY <1>3, <1>4, <1>6, <1>7
<1> QED BY <1>5, <1>8 DEF Sums

\* The sums over a set of nodes.
CoordsOf(d, A) == MapThenSumSet(LAMBDA l : heap[l].wgtCent[d], A)
Coord(d) == [l \in Nodes |-> heap[l].wgtCent[d]]
SquaresOf(A) == MapThenSumSet(LAMBDA l : SumSq(heap[l].wgtCent), A)

\* A node's sums are those of its children, or of its point.
SumsOK ==
  \A u \in Nodes :
    /\ heap[u].wgtCent \in Point /\ heap[u].sum_sq \in Int
    /\ IsLeaf(u) => heap[u].sum_sq = SumSq(heap[u].wgtCent)
    /\ ~IsLeaf(u) =>
         LET l == heap[heap[u].left]
             r == heap[heap[u].right]
         IN  /\ heap[u].sum_sq = l.sum_sq + r.sum_sq
             /\ \A d \in Dims : heap[u].wgtCent[d] = l.wgtCent[d] + r.wgtCent[d]

\* The sum of the leaves' coordinates is such a sum,
LEMMA CoordsAre ==
  ASSUME IsFiniteSet(Nodes), NEW d, NEW T, Sums(T, Coord(d), Nodes), NEW A \in SUBSET Nodes
  PROVE  CoordsOf(d, A) = T[A]
<1> DEFINE E(g) == g = [s \in SUBSET A |-> IF s = {} THEN 0
                                           ELSE heap[CHOOSE x \in s : TRUE].wgtCent[d]
                                                  + g[s \ {CHOOSE x \in s : TRUE}]]
<1>1. CoordsOf(d, A) = (CHOOSE g : E(g))[A]
  BY DEF CoordsOf, MapThenSumSet, MapThenFoldSet
<1>2. ASSUME NEW g PROVE E(g) <=> FoldsTo(g, Coord(d), A)
  <2>1. \A s \in SUBSET A : s # {} => (CHOOSE x \in s : TRUE) \in Nodes
    OBVIOUS
  <2>2. \A x \in Nodes : Coord(d)[x] = heap[x].wgtCent[d]
    BY DEF Coord
  <2> QED BY <2>1, <2>2 DEF FoldsTo
<1> HIDE DEF E
<1>3. (\E g : FoldsTo(g, Coord(d), A)) /\ \A g : FoldsTo(g, Coord(d), A) => g[A] = T[A]
  BY FoldIsSum
<1>4. E(CHOOSE g : E(g))
  <2>1. \E g : E(g)
    BY <1>2, <1>3
  <2> QED BY <2>1
<1> QED BY <1>1, <1>2, <1>3, <1>4

\* and so is that of their squares.
LEMMA SquaresAre ==
  ASSUME IsFiniteSet(Nodes), NEW f, \A l \in Nodes : f[l] = SumSq(heap[l].wgtCent),
         NEW T, Sums(T, f, Nodes), NEW A \in SUBSET Nodes
  PROVE  SquaresOf(A) = T[A]
<1> DEFINE E(g) == g = [s \in SUBSET A |-> IF s = {} THEN 0
                                           ELSE SumSq(heap[CHOOSE x \in s : TRUE].wgtCent)
                                                  + g[s \ {CHOOSE x \in s : TRUE}]]
<1>1. SquaresOf(A) = (CHOOSE g : E(g))[A]
  BY DEF SquaresOf, MapThenSumSet, MapThenFoldSet
<1>2. ASSUME NEW g PROVE E(g) <=> FoldsTo(g, f, A)
  <2>1. \A s \in SUBSET A : s # {} => (CHOOSE x \in s : TRUE) \in Nodes
    OBVIOUS
  <2>2. \A x \in Nodes : f[x] = SumSq(heap[x].wgtCent)
    OBVIOUS
  <2> QED BY <2>1, <2>2 DEF FoldsTo
<1> HIDE DEF E
<1>3. (\E g : FoldsTo(g, f, A)) /\ \A g : FoldsTo(g, f, A) => g[A] = T[A]
  BY FoldIsSum
<1>4. E(CHOOSE g : E(g))
  <2>1. \E g : E(g)
    BY <1>2, <1>3
  <2> QED BY <2>1
<1> QED BY <1>1, <1>2, <1>3, <1>4

\* The leaves below the children of a node are its leaves, none below both.
LEMMA LeavesSplit ==
  ASSUME TreeOK, NEW u \in Nodes, ~IsLeaf(u)
  PROVE  LET l == heap[u].left
             r == heap[u].right
         IN  /\ l \in Nodes /\ r \in Nodes /\ l < u /\ r < u
             /\ leaves[u] = leaves[l] \cup leaves[r] /\ leaves[l] \cap leaves[r] = {}
             /\ heap[u].count = heap[l].count + heap[r].count
<1> DEFINE l == heap[u].left
           r == heap[u].right
<1>1. u \in Nat \ {0} /\ l \in Nodes /\ r \in Nodes /\ r = u - 1 /\ First(r) = l + 1 /\ l < r
  BY Subtree
<1>2. l \in Nat \ {0} /\ r \in Nat \ {0}
  BY <1>1, Subtree
<1>3. leaves[u] = leaves[l] \cup leaves[r]
  BY LeavesAre
<1>4. leaves[l] = {v \in First(l) .. l : IsLeaf(v)} /\ leaves[r] = {v \in First(r) .. r : IsLeaf(v)}
  BY <1>1, LeavesAre
<1>5. heap[u].count = heap[l].count + heap[r].count
  <2>1. NodeOK(u)
    BY DEF TreeOK
  <2> QED BY <2>1 DEF NodeOK, InnerOK
<1>6. First(l) \in Int
  BY <1>1, Subtree
<1> HIDE DEF l, r
<1>7. l < u /\ r < u
  BY <1>1, <1>2
<1>8. leaves[l] \cap leaves[r] = {}
  BY <1>1, <1>2, <1>4, <1>6
<1> QED BY <1>1, <1>3, <1>5, <1>7, <1>8 DEF l, r

\* The leaves of a node lie in its subtree.
LEMMA LeavesIn ==
  ASSUME TreeOK, NEW u \in Nodes
  PROVE  leaves[u] \in SUBSET Nodes /\ IsFiniteSet(leaves[u]) /\ (IsLeaf(u) => leaves[u] = {u})
<1>1. leaves[u] = {l \in First(u) .. u : IsLeaf(l)} /\ (IsLeaf(u) => leaves[u] = {u})
  BY LeavesAre
<1>2. First(u) \in 1 .. u /\ u \in 1 .. Len(heap) /\ Len(heap) \in Nat
  BY Subtree, HeapLen DEF Nodes
<1>3. First(u) .. u \subseteq 1 .. Len(heap)
  BY <1>2
<1>4. leaves[u] \in SUBSET Nodes
  BY <1>1, <1>3 DEF Nodes
<1>5. IsFiniteSet(Nodes)
  BY <1>2, FS_Interval DEF Nodes
<1> QED BY <1>1, <1>4, <1>5, FS_Subset

\* Sums that are those of the children are those of the leaves.
LEMMA SumsAreExact == TreeOK /\ SumsOK => SumsExact
<1> SUFFICES ASSUME TreeOK, SumsOK PROVE SumsExact
  OBVIOUS
<1>1. Len(heap) \in Nat /\ IsFiniteSet(Nodes) /\ Nodes \subseteq Int
  <2>1. Len(heap) \in Nat
    BY HeapLen
  <2> QED BY <2>1, FS_Interval DEF Nodes
<1> DEFINE Exact(u) == /\ heap[u].count = Cardinality(leaves[u])
                       /\ heap[u].sum_sq = SquaresOf(leaves[u])
                       /\ \A d \in Dims : heap[u].wgtCent[d] = CoordsOf(d, leaves[u])
<1>2. ASSUME NEW u \in Nodes, IsLeaf(u) \/ (Exact(heap[u].left) /\ Exact(heap[u].right))
      PROVE  Exact(u)
  <2> DEFINE fs == [l \in Nodes |-> SumSq(heap[l].wgtCent)]
  <2>1. fs \in [Nodes -> Int] /\ \A d \in Dims : Coord(d) \in [Nodes -> Int]
    BY SumSqIs DEF SumsOK, Point, Coord
  <2> HIDE DEF fs
  <2>2. PICK Ts : Sums(Ts, fs, Nodes)
    BY <1>1, <2>1, SumExists
  <2>3. \A A \in SUBSET Nodes : SquaresOf(A) = Ts[A]
    <3>1. \A l \in Nodes : fs[l] = SumSq(heap[l].wgtCent)
      BY DEF fs
    <3> QED BY <1>1, <2>2, <3>1, SquaresAre
  <2>4. ASSUME NEW d \in Dims
        PROVE  \E T : Sums(T, Coord(d), Nodes) /\ \A A \in SUBSET Nodes : CoordsOf(d, A) = T[A]
    <3>1. PICK T : Sums(T, Coord(d), Nodes)
      BY <1>1, <2>1, SumExists
    <3>2. \A A \in SUBSET Nodes : CoordsOf(d, A) = T[A]
      BY <1>1, <3>1, CoordsAre
    <3> QED BY <3>1, <3>2
  <2>5. leaves[u] \in SUBSET Nodes /\ IsFiniteSet(leaves[u])
    BY LeavesIn
  <2>6. CASE IsLeaf(u)
    <3>1. leaves[u] = {u} /\ {u} \in SUBSET Nodes
      BY <2>6, LeavesIn
    <3>2. heap[u].count = Cardinality(leaves[u])
      <4>1. heap[u].count = 1
        BY <2>6 DEF TreeOK, NodeOK
      <4> QED BY <3>1, <4>1, FS_Singleton
    <3>3. heap[u].sum_sq = SquaresOf(leaves[u])
      <4>1. Ts[{u}] = fs[u]
        BY <2>1, <2>2, SumOfOne
      <4>2. fs[u] = heap[u].sum_sq
        BY <2>6 DEF SumsOK, fs
      <4> QED BY <2>3, <3>1, <4>1, <4>2
    <3>4. ASSUME NEW d \in Dims PROVE heap[u].wgtCent[d] = CoordsOf(d, leaves[u])
      <4>1. PICK T : Sums(T, Coord(d), Nodes) /\ \A A \in SUBSET Nodes : CoordsOf(d, A) = T[A]
        BY <2>4
      <4>2. T[{u}] = Coord(d)[u]
        BY <2>1, <4>1, SumOfOne
      <4>3. Coord(d)[u] = heap[u].wgtCent[d]
        BY DEF Coord
      <4> QED BY <3>1, <4>1, <4>2, <4>3
    <3> QED BY <3>2, <3>3, <3>4
  <2>7. CASE ~IsLeaf(u)
    <3> DEFINE l == heap[u].left  r == heap[u].right
    <3>1. /\ l \in Nodes /\ r \in Nodes
          /\ leaves[u] = leaves[l] \cup leaves[r] /\ leaves[l] \cap leaves[r] = {}
          /\ heap[u].count = heap[l].count + heap[r].count
      BY <2>7, LeavesSplit
    <3>2. /\ heap[u].sum_sq = heap[l].sum_sq + heap[r].sum_sq
          /\ \A d \in Dims : heap[u].wgtCent[d] = heap[l].wgtCent[d] + heap[r].wgtCent[d]
      BY <2>7 DEF SumsOK
    <3>3. Exact(l) /\ Exact(r)
      BY <1>2, <2>7
    <3> HIDE DEF l, r
    <3>4. /\ leaves[l] \in SUBSET Nodes /\ IsFiniteSet(leaves[l])
          /\ leaves[r] \in SUBSET Nodes /\ IsFiniteSet(leaves[r])
      BY <3>1, LeavesIn
    <3>8. \A f \in [Nodes -> Int] : \A T : Sums(T, f, Nodes) =>
            T[leaves[l] \cup leaves[r]] = T[leaves[l]] + T[leaves[r]]
      <4>1. PICK A, C, M : A = leaves[l] /\ C = leaves[r] /\ M = Nodes
        OBVIOUS
      <4>2. IsFiniteSet(M) /\ A \in SUBSET M /\ C \in SUBSET M /\ A \cap C = {}
        BY <1>1, <3>1, <3>4, <4>1
      <4>3. \A f \in [M -> Int] : \A T : Sums(T, f, M) => T[A \cup C] = T[A] + T[C]
        BY <4>2, SumOfBoth
      <4> QED BY <4>1, <4>3
    <3>5. heap[u].count = Cardinality(leaves[u])
      <4>1. Cardinality(leaves[l] \cup leaves[r]) = Cardinality(leaves[l]) + Cardinality(leaves[r])
        <5> DEFINE A == leaves[l]  B == leaves[r]
        <5>1. IsFiniteSet(A) /\ IsFiniteSet(B) /\ A \cap B = {}
          BY <3>1, <3>4
        <5> HIDE DEF A, B
        <5>2. Cardinality(A \cup B) = Cardinality(A) + Cardinality(B) - Cardinality(A \cap B)
          BY <5>1, FS_Union
        <5>3. Cardinality(A \cap B) = 0 /\ Cardinality(A) \in Nat /\ Cardinality(B) \in Nat
          BY <5>1, FS_EmptySet, FS_CardinalityType
        <5>4. Cardinality(A \cup B) = Cardinality(A) + Cardinality(B)
          BY <5>2, <5>3
        <5> QED BY <5>4 DEF A, B
      <4> QED BY <3>1, <3>3, <4>1
    <3>6. heap[u].sum_sq = SquaresOf(leaves[u])
      <4>1. Ts[leaves[l] \cup leaves[r]] = Ts[leaves[l]] + Ts[leaves[r]]
        BY <2>1, <2>2, <3>8
      <4> QED BY <2>3, <2>5, <3>1, <3>2, <3>3, <3>4, <4>1
    <3>7. ASSUME NEW d \in Dims PROVE heap[u].wgtCent[d] = CoordsOf(d, leaves[u])
      <4>1. PICK T : Sums(T, Coord(d), Nodes) /\ \A A \in SUBSET Nodes : CoordsOf(d, A) = T[A]
        BY <2>4
      <4>2. Coord(d) \in [Nodes -> Int]
        BY <2>1
      <4>3. T[leaves[l] \cup leaves[r]] = T[leaves[l]] + T[leaves[r]]
        BY <3>8, <4>1, <4>2
      <4> QED BY <2>5, <3>1, <3>2, <3>3, <3>4, <4>1, <4>3
    <3> QED BY <3>5, <3>6, <3>7
  <2> QED BY <2>6, <2>7
<1> DEFINE B == {u \in Nodes : ~Exact(u)}
<1> HIDE DEF Exact
<1>3. B = {}
  <2> SUFFICES ASSUME B # {} PROVE FALSE
    OBVIOUS
  <2>1. IsFiniteSet(B) /\ B \subseteq Int
    <3>1. B \in SUBSET Nodes
      OBVIOUS
    <3> HIDE DEF B
    <3> QED BY <1>1, <3>1, FS_Subset
  <2>2. PICK u \in B : \A v \in B : u <= v
    <3> HIDE DEF B
    <3> QED BY <2>1, Least
  <2>3. ~IsLeaf(u) /\ u \in Nodes /\ ~Exact(u)
    BY <1>2
  <2>4. /\ heap[u].left \in Nodes /\ heap[u].right \in Nodes
        /\ heap[u].left < u /\ heap[u].right < u
    BY <2>3, LeavesSplit
  <2>5. \A v \in Nodes : v < u => v \notin B
    <3> TAKE v \in Nodes
    <3>1. v \in Int /\ u \in Int
      BY <1>1
    <3> QED BY <2>2, <3>1
  <2> QED BY <1>2, <2>3, <2>4, <2>5
<1>4. \A u \in Nodes : Exact(u)
  BY <1>3
<1> QED BY <1>4 DEF Exact, SumsExact, CoordsOf, SquaresOf, MapThenSumSet, MapThenFoldSet

\* A new node with the sums of its children, or of its point.
LEMMA SumsGrow ==
  ASSUME TreeOK, SumsOK, NEW x, heap' = Append(heap, x), x.wgtCent \in Point, x.sum_sq \in Int,
         \/ x.left = None /\ x.right = None /\ x.sum_sq = SumSq(x.wgtCent)
         \/ /\ x.left # None /\ x.left \in Nodes /\ x.right \in Nodes
            /\ x.sum_sq = heap[x.left].sum_sq + heap[x.right].sum_sq
            /\ \A d \in Dims : x.wgtCent[d] = heap[x.left].wgtCent[d] + heap[x.right].wgtCent[d]
  PROVE  SumsOK'
<1> DEFINE u == Len(heap) + 1
<1>1. /\ Len(heap) \in Nat /\ Len(heap') = u /\ heap'[u] = x
      /\ \A v \in Nodes : heap'[v] = heap[v]
  BY HeapGrows DEF TreeOK
<1>2. \A v \in Nodes' : v \in Nodes \/ v = u
  BY <1>1 DEF Nodes
<1> DEFINE Good(v) ==
  /\ heap'[v].wgtCent \in Point /\ heap'[v].sum_sq \in Int
  /\ heap'[v].left = None /\ heap'[v].right = None => heap'[v].sum_sq = SumSq(heap'[v].wgtCent)
  /\ ~(heap'[v].left = None /\ heap'[v].right = None) =>
       /\ heap'[v].sum_sq = heap'[heap'[v].left].sum_sq + heap'[heap'[v].right].sum_sq
       /\ \A d \in Dims : heap'[v].wgtCent[d] = heap'[heap'[v].left].wgtCent[d] + heap'[heap'[v].right].wgtCent[d]
<1>3. Good(u)
  <2> HIDE DEF u
  <2> QED BY <1>1
<1>4. ASSUME NEW v \in Nodes PROVE Good(v)
  <2>1. heap'[v] = heap[v]
    BY <1>1
  <2>2. CASE IsLeaf(v)
    BY <2>1, <2>2 DEF SumsOK, IsLeaf
  <2>3. CASE ~IsLeaf(v)
    <3> DEFINE l == heap[v].left  r == heap[v].right
    <3>1. l \in Nodes /\ r \in Nodes
      BY <2>3, Subtree
    <3>2. heap'[l] = heap[l] /\ heap'[r] = heap[r]
      BY <1>1, <3>1
    <3>3. /\ heap[v].wgtCent \in Point /\ heap[v].sum_sq \in Int
          /\ heap[v].sum_sq = heap[l].sum_sq + heap[r].sum_sq
          /\ \A d \in Dims : heap[v].wgtCent[d] = heap[l].wgtCent[d] + heap[r].wgtCent[d]
      BY <2>3 DEF SumsOK
    <3> QED BY <2>1, <2>3, <3>2, <3>3 DEF IsLeaf
  <2> QED BY <2>2, <2>3
<1>5. \A v \in Nodes' : Good(v)
  <2> HIDE DEF Good, u
  <2> QED BY <1>2, <1>3, <1>4
<1> QED BY <1>5 DEF SumsOK, IsLeaf

LEMMA LeafSums ==
  ASSUME HeapOK, SumsOK, Leaf
  PROVE  SumsOK'
<1> DEFINE x == LeafNode
<1>1. Active("enter") /\ calls # <<>> /\ heap' = Append(heap, x) /\ CallsOK /\ TreeOK
  BY DEF Leaf, Active, Return, HeapOK
<1>2. Top.base \in 0 .. N - 1
  <2>1. Top \in Frame
    BY <1>1, TopIs
  <2> QED BY <2>1 DEF Frame
<1>3. x.wgtCent \in Point
  BY <1>1, <1>2 DEF LeafNode, CallsOK, ArraysOK
<1>4. x.left = None /\ x.right = None /\ x.sum_sq = SumSq(x.wgtCent)
  BY DEF LeafNode
<1> HIDE DEF x
<1>5. x.sum_sq \in Int
  BY <1>3, <1>4, SumSqIs
<1> QED BY <1>1, <1>3, <1>4, <1>5, SumsGrow

LEMMA JoinSums ==
  ASSUME HeapOK, SumsOK, NEW h, Heights(h), Join
  PROVE  SumsOK'
<1> DEFINE a == h[Len(calls)]  n == Top.n  k == Top.n_lo  l == Top.left
           x == InnerNode(heap[l], heap[ret])
<1>1. phase = "build" /\ Top.pc = "right" /\ calls # <<>> /\ heap' = Append(heap, x) /\ CallsOK /\ TreeOK
  BY DEF Join, Active, Return, HeapOK
<1>2. /\ a \in Nat /\ Len(heap) \in Nat /\ n \in Nat /\ k \in 1 .. n - 1
      /\ LeftBuilt(heap, Top, a) /\ PartBuilt(heap, ret, Top, a)
  <2>1. HeapSeq
    BY <1>1 DEF TreeOK
  <2> QED BY <1>1, <2>1, TopHeight
<1>3. l = a + 2 * k - 1 /\ l <= Len(heap) /\ ret = Len(heap) /\ Len(heap) = a + (2 * n - 2)
  BY <1>1, <1>2 DEF LeftBuilt, PartBuilt, After
<1>4. /\ x.left = l /\ x.right = ret /\ x.sum_sq = heap[l].sum_sq + heap[ret].sum_sq
      /\ x.wgtCent = [d \in Dims |-> heap[l].wgtCent[d] + heap[ret].wgtCent[d]]
  BY DEF InnerNode
<1> HIDE DEF a, n, k, l, x
<1>5. l # None /\ l \in Nodes /\ ret \in Nodes
  BY <1>2, <1>3 DEF None, Nodes
<1>6. /\ heap[l].wgtCent \in Point /\ heap[l].sum_sq \in Int
      /\ heap[ret].wgtCent \in Point /\ heap[ret].sum_sq \in Int
  BY <1>5 DEF SumsOK
<1>7. x.sum_sq \in Int /\ x.wgtCent \in Point
  BY <1>4, <1>6 DEF Point
<1>8. \A d \in Dims : x.wgtCent[d] = heap[l].wgtCent[d] + heap[ret].wgtCent[d]
  BY <1>4
<1>9. /\ x.left # None /\ x.left \in Nodes /\ x.right \in Nodes
      /\ x.sum_sq = heap[x.left].sum_sq + heap[x.right].sum_sq
      /\ \A d \in Dims : x.wgtCent[d] = heap[x.left].wgtCent[d] + heap[x.right].wgtCent[d]
  BY <1>4, <1>5, <1>8
<1> QED BY <1>1, <1>7, <1>9, SumsGrow

\* The sums of the nodes stay right with every step.
LEMMA SumsStep == HeapInv /\ SumsOK /\ [Next]_vars => SumsOK'
<1> SUFFICES ASSUME HeapInv, SumsOK, [Next]_vars PROVE SumsOK'
  OBVIOUS
<1>1. PICK h : Heights(h)
  BY DEF HeapInv
<1>2. HeapOK
  BY DEF HeapInv
<1>3. ASSUME heap' = heap PROVE SumsOK'
  BY <1>3 DEF SumsOK, Nodes, IsLeaf
<1>4. Leaf \/ Join \/ heap' = heap
  BY DEF Next, read_data_points, compute_bounding_box, BuildLeft, BuildRight, StartDelete, deletekdTree, vars, build
<1> QED BY <1>1, <1>2, <1>3, <1>4, LeafSums, JoinSums

\* The count and the sums of a node are those of the points below it.
THEOREM KdSumsExact == Spec => []SumsExact
<1>1. Init => SumsOK
  <2> SUFFICES ASSUME Init PROVE SumsOK
    OBVIOUS
  <2>1. heap = <<>>
    BY DEF Init
  <2>2. Len(heap) = 0
    BY <2>1
  <2> QED BY <2>2 DEF SumsOK, Nodes
<1>2. HeapInv /\ SumsOK => SumsExact
  BY SumsAreExact DEF HeapInv, HeapOK
<1> QED BY <1>1, <1>2, HeapInvariant, SumsStep, PTL DEF Spec

-----------------------------------------------------------------------------
(***************************************************************************)
(* The array holds the same tree.                                          *)
(***************************************************************************)

\* A node.
KdNode == [count : Nat, wgtCent : Point, sum_sq : Int, bnd_lo : Point, bnd_hi : Point,
           left : Nat, right : Nat]

\* The elements of a concatenation.
LEMMA Concatenated ==
  ASSUME NEW a \in Seq(Int), NEW b \in Seq(Int)
  PROVE  /\ a \o b \in Seq(Int) /\ Len(a \o b) = Len(a) + Len(b)
         /\ \A i \in 1 .. Len(a) : (a \o b)[i] = a[i]
         /\ \A i \in 1 .. Len(b) : (a \o b)[Len(a) + i] = b[i]
<1>1. a \o b \in Seq(Int) /\ Len(a \o b) = Len(a) + Len(b) /\ Len(a) \in Nat /\ Len(b) \in Nat
  OBVIOUS
<1>2. \A i \in 1 .. Len(a) + Len(b) : (a \o b)[i] = IF i <= Len(a) THEN a[i] ELSE b[i - Len(a)]
  OBVIOUS
<1>3. ASSUME NEW i \in 1 .. Len(a) PROVE (a \o b)[i] = a[i]
  <2>1. i \in 1 .. Len(a) + Len(b) /\ i <= Len(a)
    BY <1>1
  <2> QED BY <1>2, <2>1
<1>4. ASSUME NEW i \in 1 .. Len(b) PROVE (a \o b)[Len(a) + i] = b[i]
  <2>1. Len(a) + i \in 1 .. Len(a) + Len(b) /\ ~(Len(a) + i <= Len(a)) /\ (Len(a) + i) - Len(a) = i
    BY <1>1
  <2> QED BY <1>2, <2>1
<1> QED BY <1>1, <1>3, <1>4

\* The same for a sequence c that was put together of a and b.
LEMMA Joined ==
  ASSUME NEW a \in Seq(Int), NEW b \in Seq(Int), NEW c, c = a \o b
  PROVE  /\ c \in Seq(Int) /\ Len(c) = Len(a) + Len(b)
         /\ \A i \in 1 .. Len(a) : c[i] = a[i]
         /\ \A i \in 1 .. Len(b) : c[Len(a) + i] = b[i]
BY Concatenated

LEMMA PickIs ==
  ASSUME NEW p \in Point
  PROVE  Pick(p) \in Seq(Int) /\ Len(Pick(p)) = D /\ \A i \in 1 .. D : Pick(p)[i] = p[i]
<1>1. Pick(p) \in [1 .. D -> Int] /\ D \in Nat
  BY Sizes DEF Pick, Point
<1> QED BY <1>1 DEF Pick

\* What the kernel and the host read back from the words of a node is the node.
LEMMA RoundTrip ==
  ASSUME NEW t \in KdNode
  PROVE  vector_2_kdTree_t(kdTree_t_2_vector(t)) = t
<1>16. PICK w, lo, hi, v1, q, lr :
         /\ w = Pick(t.wgtCent) /\ lo = Pick(t.bnd_lo) /\ hi = Pick(t.bnd_hi)
         /\ v1 = <<t.count>> /\ q = <<t.sum_sq>> /\ lr = <<t.left, t.right>>
  OBVIOUS
<1>17. PICK v2, v3, v4, v5, v :
         v2 = v1 \o w /\ v3 = v2 \o q /\ v4 = v3 \o lo /\ v5 = v4 \o hi /\ v = v5 \o lr
  OBVIOUS
<1>1. /\ t.count \in Int /\ t.sum_sq \in Int /\ t.left \in Int /\ t.right \in Int
      /\ t.wgtCent \in Point /\ t.bnd_lo \in Point /\ t.bnd_hi \in Point
  BY DEF KdNode
<1>2. kdTree_t_2_vector(t) = v
  BY <1>16, <1>17 DEF kdTree_t_2_vector
<1>3. /\ w \in Seq(Int) /\ Len(w) = D /\ \A i \in 1 .. D : w[i] = t.wgtCent[i]
      /\ lo \in Seq(Int) /\ Len(lo) = D /\ \A i \in 1 .. D : lo[i] = t.bnd_lo[i]
      /\ hi \in Seq(Int) /\ Len(hi) = D /\ \A i \in 1 .. D : hi[i] = t.bnd_hi[i]
  BY <1>1, <1>16, PickIs
<1>4. /\ v1 \in Seq(Int) /\ Len(v1) = 1 /\ v1[1] = t.count
      /\ q \in Seq(Int) /\ Len(q) = 1 /\ q[1] = t.sum_sq
      /\ lr \in Seq(Int) /\ Len(lr) = 2 /\ lr[1] = t.left /\ lr[2] = t.right
  BY <1>1, <1>16
<1>5. D \in Nat \ {0}
  BY Sizes
<1>6. /\ v2 \in Seq(Int) /\ Len(v2) = D + 1 /\ v2[1] = t.count
      /\ \A i \in 1 .. D : v2[1 + i] = t.wgtCent[i]
  <2>0. v1 \in Seq(Int) /\ w \in Seq(Int) /\ v2 = v1 \o w
    BY <1>3, <1>4, <1>17
  <2>1. /\ v2 \in Seq(Int) /\ Len(v2) = Len(v1) + Len(w)
        /\ (\A i \in 1 .. Len(v1) : v2[i] = v1[i]) /\ (\A i \in 1 .. Len(w) : v2[Len(v1) + i] = w[i])
    BY <2>0, Joined
  <2>2. 1 \in 1 .. Len(v1) /\ Len(v2) = D + 1
    BY <1>3, <1>4, <1>5, <2>1
  <2>3. \A i \in 1 .. D : v2[1 + i] = w[i]
    BY <1>3, <1>4, <2>1
  <2> QED BY <1>3, <1>4, <2>1, <2>2, <2>3
<1>7. /\ v3 \in Seq(Int) /\ Len(v3) = D + 2 /\ v3[D + 2] = t.sum_sq
      /\ \A i \in 1 .. D + 1 : v3[i] = v2[i]
  <2>0. v2 \in Seq(Int) /\ q \in Seq(Int) /\ v3 = v2 \o q
    BY <1>4, <1>6, <1>17
  <2>1. /\ v3 \in Seq(Int) /\ Len(v3) = Len(v2) + Len(q)
        /\ (\A i \in 1 .. Len(v2) : v3[i] = v2[i]) /\ (\A i \in 1 .. Len(q) : v3[Len(v2) + i] = q[i])
    BY <2>0, Joined
  <2>2. Len(v3) = D + 2 /\ (D + 1) + 1 = D + 2 /\ 1 \in 1 .. 1
    BY <1>4, <1>5, <1>6, <2>1
  <2>3. v3[(D + 1) + 1] = q[1]
    BY <1>4, <1>6, <2>1, <2>2
  <2> QED BY <1>4, <1>6, <2>1, <2>2, <2>3
<1>8. /\ v4 \in Seq(Int) /\ Len(v4) = (D + 2) + D
      /\ (\A i \in 1 .. D + 2 : v4[i] = v3[i]) /\ (\A i \in 1 .. D : v4[(D + 2) + i] = lo[i])
  <2>0. v3 \in Seq(Int) /\ lo \in Seq(Int) /\ v4 = v3 \o lo
    BY <1>3, <1>7, <1>17
  <2>1. /\ v4 \in Seq(Int) /\ Len(v4) = Len(v3) + Len(lo)
        /\ (\A i \in 1 .. Len(v3) : v4[i] = v3[i]) /\ (\A i \in 1 .. Len(lo) : v4[Len(v3) + i] = lo[i])
    BY <2>0, Joined
  <2> QED BY <1>3, <1>7, <2>1
<1>9. /\ v5 \in Seq(Int) /\ Len(v5) = (D + 2) + D + D
      /\ (\A i \in 1 .. (D + 2) + D : v5[i] = v4[i]) /\ (\A i \in 1 .. D : v5[(D + 2) + D + i] = hi[i])
  <2>0. v4 \in Seq(Int) /\ hi \in Seq(Int) /\ v5 = v4 \o hi
    BY <1>3, <1>8, <1>17
  <2>1. /\ v5 \in Seq(Int) /\ Len(v5) = Len(v4) + Len(hi)
        /\ (\A i \in 1 .. Len(v4) : v5[i] = v4[i]) /\ (\A i \in 1 .. Len(hi) : v5[Len(v4) + i] = hi[i])
    BY <2>0, Joined
  <2> QED BY <1>3, <1>8, <2>1
<1>10. /\ (\A i \in 1 .. (D + 2) + D + D : v[i] = v5[i])
       /\ (\A i \in 1 .. 2 : v[((D + 2) + D + D) + i] = lr[i])
  <2>0. v5 \in Seq(Int) /\ lr \in Seq(Int) /\ v = v5 \o lr
    BY <1>4, <1>9, <1>17
  <2>1. /\ (\A i \in 1 .. Len(v5) : v[i] = v5[i]) /\ (\A i \in 1 .. Len(lr) : v[Len(v5) + i] = lr[i])
    BY <2>0, Joined
  <2> QED BY <1>4, <1>9, <2>1
<1>11. /\ v[1] = t.count /\ v[D + 2] = t.sum_sq /\ v[3 * D + 3] = t.left /\ v[3 * D + 4] = t.right
  <2>1. /\ 1 \in 1 .. D + 1 /\ 1 \in 1 .. D + 2 /\ 1 \in 1 .. (D + 2) + D /\ 1 \in 1 .. (D + 2) + D + D
        /\ D + 2 \in 1 .. D + 2 /\ D + 2 \in 1 .. (D + 2) + D /\ D + 2 \in 1 .. (D + 2) + D + D
        /\ 3 * D + 3 = ((D + 2) + D + D) + 1 /\ 3 * D + 4 = ((D + 2) + D + D) + 2
        /\ 1 \in 1 .. 2 /\ 2 \in 1 .. 2
    BY <1>5
  <2>2. v[1] = v5[1] /\ v5[1] = v4[1] /\ v4[1] = v3[1] /\ v3[1] = v2[1]
    BY <1>7, <1>8, <1>9, <1>10, <2>1
  <2>3. v[D + 2] = v5[D + 2] /\ v5[D + 2] = v4[D + 2] /\ v4[D + 2] = v3[D + 2]
    BY <1>8, <1>9, <1>10, <2>1
  <2>4. v[3 * D + 3] = lr[1] /\ v[3 * D + 4] = lr[2]
    BY <1>10, <2>1
  <2> QED BY <1>4, <1>6, <1>7, <2>2, <2>3, <2>4
<1>12. ASSUME NEW d \in Dims
       PROVE  /\ v[2 + d - 1] = t.wgtCent[d] /\ v[(D + 3) + d - 1] = t.bnd_lo[d]
              /\ v[(2 * D + 3) + d - 1] = t.bnd_hi[d]
  <2>1. d \in 1 .. D
    BY Sizes
  <2>2. /\ 2 + d - 1 = 1 + d /\ 1 + d \in 1 .. D + 1 /\ 1 + d \in 1 .. D + 2 /\ 1 + d \in 1 .. (D + 2) + D
        /\ 1 + d \in 1 .. (D + 2) + D + D
        /\ (D + 3) + d - 1 = (D + 2) + d /\ (D + 2) + d \in 1 .. (D + 2) + D
        /\ (D + 2) + d \in 1 .. (D + 2) + D + D
        /\ (2 * D + 3) + d - 1 = (D + 2) + D + d /\ (D + 2) + D + d \in 1 .. (D + 2) + D + D
    BY <1>5, <2>1
  <2>3. v[1 + d] = t.wgtCent[d]
    <3>1. v[1 + d] = v5[1 + d]
      BY <1>10, <2>2
    <3>2. v5[1 + d] = v4[1 + d]
      BY <1>9, <2>2
    <3>3. v4[1 + d] = v3[1 + d]
      BY <1>8, <2>2
    <3>4. v3[1 + d] = v2[1 + d]
      BY <1>7, <2>2
    <3> QED BY <1>6, <2>1, <3>1, <3>2, <3>3, <3>4
  <2>4. v[(D + 2) + d] = t.bnd_lo[d]
    <3>1. v[(D + 2) + d] = v5[(D + 2) + d]
      BY <1>10, <2>2
    <3>2. v5[(D + 2) + d] = v4[(D + 2) + d]
      BY <1>9, <2>2
    <3>3. v4[(D + 2) + d] = lo[d]
      BY <1>8, <2>1
    <3> QED BY <1>3, <2>1, <3>1, <3>2, <3>3
  <2>5. v[(D + 2) + D + d] = t.bnd_hi[d]
    BY <1>3, <1>9, <1>10, <2>1, <2>2
  <2> QED BY <2>2, <2>3, <2>4, <2>5
<1>13. Slice(v, 2) = t.wgtCent /\ Slice(v, D + 3) = t.bnd_lo /\ Slice(v, 2 * D + 3) = t.bnd_hi
  BY <1>1, <1>12 DEF Slice, Point
<1>14. vector_2_kdTree_t(v) = [count |-> t.count, wgtCent |-> t.wgtCent, sum_sq |-> t.sum_sq,
                               bnd_lo |-> t.bnd_lo, bnd_hi |-> t.bnd_hi, left |-> t.left, right |-> t.right]
  BY <1>11, <1>13 DEF vector_2_kdTree_t
<1>15. t = [count |-> t.count, wgtCent |-> t.wgtCent, sum_sq |-> t.sum_sq,
            bnd_lo |-> t.bnd_lo, bnd_hi |-> t.bnd_hi, left |-> t.left, right |-> t.right]
  BY DEF KdNode
<1> QED BY <1>2, <1>14, <1>15

\* The array and the heap hold the same nodes under the same addresses.
ArrayOK ==
  /\ DOMAIN tree_memory = 0 .. 2 * N - 1 /\ heap_ptr = Len(heap)
  /\ \A i \in Nodes : heap[i] \in KdNode /\ vector_2_kdTree_t(tree_memory[i]) = heap[i]

\* A node that is stored under its address keeps the array in step with the heap.
LEMMA StoreKeeps ==
  ASSUME TreeOK, Len(heap') <= 2 * N - 1, ArrayOK, NEW x \in KdNode, heap' = Append(heap, x), Store(x)
  PROVE  ArrayOK'
<1>1. /\ Len(heap) \in Nat /\ Len(heap') = Len(heap) + 1 /\ heap'[Len(heap) + 1] = x
      /\ \A v \in 1 .. Len(heap) : heap'[v] = heap[v]
  BY HeapGrows DEF TreeOK, Nodes
<1> DEFINE u == Len(heap) + 1
<1>2. /\ heap_ptr' = u /\ tree_memory' = [tree_memory EXCEPT ![u] = kdTree_t_2_vector(x)]
      /\ DOMAIN tree_memory = 0 .. 2 * N - 1
  BY DEF Store, ArrayOK
<1>3. u \in 0 .. 2 * N - 1 /\ u \in Nat
  BY <1>1, Sizes
<1>4. \A i \in 1 .. Len(heap) : i # u /\ i \in 0 .. 2 * N - 1
  BY <1>1, Sizes
<1> HIDE DEF u
<1>5. DOMAIN tree_memory' = 0 .. 2 * N - 1 /\ tree_memory'[u] = kdTree_t_2_vector(x)
  BY <1>2, <1>3
<1>6. \A i \in 1 .. Len(heap) : tree_memory'[i] = tree_memory[i]
  BY <1>2, <1>4
<1>7. vector_2_kdTree_t(tree_memory'[u]) = x
  BY <1>5, RoundTrip
<1>8. \A i \in 1 .. Len(heap') : i \in 1 .. Len(heap) \/ i = u
  BY <1>1 DEF u
<1>9. ASSUME NEW i \in 1 .. Len(heap')
      PROVE  heap'[i] \in KdNode /\ vector_2_kdTree_t(tree_memory'[i]) = heap'[i]
  <2>1. CASE i = u
    BY <1>1, <1>7, <2>1 DEF u
  <2>2. CASE i \in 1 .. Len(heap)
    <3>1. heap[i] \in KdNode /\ vector_2_kdTree_t(tree_memory[i]) = heap[i]
      BY <2>2 DEF ArrayOK, Nodes
    <3> QED BY <1>1, <1>6, <2>2, <3>1
  <2> QED BY <1>8, <2>1, <2>2
<1> QED BY <1>1, <1>2, <1>5, <1>9 DEF ArrayOK, Nodes, u

\* So does every step.
LEMMA ArrayStep ==
  ASSUME IInv, TypeOK', ArrayOK, [ArrayNext]_arrayVars
  PROVE  ArrayOK'
<1>1. PICK h : Heights(h)
  BY DEF IInv, HeapInv
<1>2. HeapOK /\ CallsOK /\ TreeOK /\ HeapSeq /\ ArraysOK
  BY DEF IInv, HeapInv, HeapOK, CallsOK, TreeOK
<1>4. Len(heap') <= 2 * N - 1
  BY DEF TypeOK
<1>5. CASE ArrayLeaf
  <2>1. Active("enter") /\ calls # <<>> /\ heap' = Append(heap, LeafNode) /\ Store(LeafNode)
    BY <1>5 DEF ArrayLeaf, Leaf, Active, Return
  <2>2. Top \in Frame
    BY <1>2, <2>1, TopIs
  <2> DEFINE p == data_points[index_arr[Top.base]]
  <2>3. p \in Point /\ Top.n \in Nat
    BY <1>2, <2>2 DEF Frame, ArraysOK
  <2>4. LeafNode = [count |-> Top.n, wgtCent |-> p, sum_sq |-> SumSq(p),
                    bnd_lo |-> bnd_lo, bnd_hi |-> bnd_hi, left |-> None, right |-> None]
    BY DEF LeafNode
  <2> HIDE DEF p
  <2>5. SumSq(p) \in Int /\ bnd_lo \in Point /\ bnd_hi \in Point /\ None \in Nat
    BY <1>2, <2>3, SumSqIs DEF ArraysOK, None
  <2>6. LeafNode \in KdNode
    BY <2>3, <2>4, <2>5 DEF KdNode
  <2> QED BY <1>2, <1>4, <2>1, <2>6, StoreKeeps
<1>6. CASE ArrayJoin
  <2> DEFINE l == Top.left
             x == InnerNode(heap[l], heap[ret])
             y == InnerNode(vector_2_kdTree_t(tree_memory[l]), vector_2_kdTree_t(tree_memory[ret]))
  <2>1. phase = "build" /\ Top.pc = "right" /\ calls # <<>> /\ heap' = Append(heap, x) /\ Store(y)
    BY <1>6 DEF ArrayJoin, Join, Active, Return
  <2> DEFINE a == h[Len(calls)]  n == Top.n  k == Top.n_lo
  <2>2. /\ a \in Nat /\ Len(heap) \in Nat /\ n \in Nat /\ k \in 1 .. n - 1
        /\ LeftBuilt(heap, Top, a) /\ PartBuilt(heap, ret, Top, a)
    BY <1>1, <1>2, <2>1, TopHeight
  <2>3. l = a + 2 * k - 1 /\ l <= Len(heap) /\ ret = Len(heap) /\ Len(heap) = a + (2 * n - 2)
    BY <2>1, <2>2 DEF LeftBuilt, PartBuilt, After
  <2>4. Top \in Frame
    BY <1>2, <2>1, TopIs
  <2>5. n \in Nat /\ l \in Nat /\ Top.cdim \in Dims /\ Top.lv \in Int
    BY <2>4 DEF Frame
  <2> HIDE DEF a, n, k, l
  <2>6. l \in Nodes /\ ret \in Nodes
    BY <2>2, <2>3 DEF Nodes
  <2>7. heap[l] \in KdNode /\ heap[ret] \in KdNode /\ y = x
    BY <2>6 DEF ArrayOK
  <2>8. x = [count |-> n, sum_sq |-> heap[l].sum_sq + heap[ret].sum_sq,
             wgtCent |-> [d \in Dims |-> heap[l].wgtCent[d] + heap[ret].wgtCent[d]],
             bnd_lo |-> [bnd_lo EXCEPT ![Top.cdim] = Top.lv], bnd_hi |-> bnd_hi,
             left |-> l, right |-> ret]
    BY DEF InnerNode, n, l
  <2>9. /\ heap[l].sum_sq + heap[ret].sum_sq \in Int
        /\ [d \in Dims |-> heap[l].wgtCent[d] + heap[ret].wgtCent[d]] \in Point
        /\ [bnd_lo EXCEPT ![Top.cdim] = Top.lv] \in Point /\ bnd_hi \in Point
        /\ ret \in Nat
    <3>1. /\ heap[l].sum_sq \in Int /\ heap[ret].sum_sq \in Int
          /\ heap[l].wgtCent \in Point /\ heap[ret].wgtCent \in Point
      BY <2>7 DEF KdNode
    <3>2. heap[l].sum_sq + heap[ret].sum_sq \in Int
      BY <3>1
    <3>3. \A d \in Dims : heap[l].wgtCent[d] + heap[ret].wgtCent[d] \in Int
      BY <3>1 DEF Point
    <3>4. [d \in Dims |-> heap[l].wgtCent[d] + heap[ret].wgtCent[d]] \in Point
      BY <3>3 DEF Point
    <3>5. bnd_lo \in Point /\ bnd_hi \in Point
      BY <1>2 DEF ArraysOK
    <3>6. [bnd_lo EXCEPT ![Top.cdim] = Top.lv] \in Point
      BY <2>5, <3>5 DEF Point
    <3>7. ret \in Nat
      BY <2>2, <2>3
    <3> QED BY <3>2, <3>4, <3>5, <3>6, <3>7
  <2>10. x \in KdNode
    BY <2>5, <2>8, <2>9 DEF KdNode
  <2> HIDE DEF x, y
  <2> QED BY <1>2, <1>4, <2>1, <2>7, <2>10, StoreKeeps
<1>7. CASE heap' = heap /\ tree_memory' = tree_memory /\ heap_ptr' = heap_ptr
  BY <1>7 DEF ArrayOK, Nodes
<1>8. \/ ArrayLeaf \/ ArrayJoin
      \/ heap' = heap /\ tree_memory' = tree_memory /\ heap_ptr' = heap_ptr
  BY DEF ArrayNext, ArrayRead, ArrayBox, ArrayLeft, ArrayRight, HeapDelete, ArrayUnchanged, arrayVars,
         read_data_points, compute_bounding_box, BuildLeft, BuildRight, StartDelete, deletekdTree, vars, build
<1> QED BY <1>5, <1>6, <1>7, <1>8

\* The program with the array takes the steps of the one with the heap.
THEOREM ArrayTreeIsKdTree == ArraySpec => Spec
<1>1. ArrayInit => Init
  BY DEF ArrayInit
<1>2. [ArrayNext]_arrayVars => [Next]_vars
  BY DEF ArrayNext, ArrayRead, ArrayBox, ArrayLeaf, ArrayLeft, ArrayRight, ArrayJoin, HeapDelete,
         arrayVars, Next
<1> QED BY <1>1, <1>2, PTL DEF ArraySpec, Spec

\* The array holds the tree on the heap, and what main gives the kernel as the root is
\* the root.
THEOREM ArraySameTree == ArraySpec => []SameTree
<1>1. ArrayInit => ArrayOK
  <2> SUFFICES ASSUME ArrayInit PROVE ArrayOK
    OBVIOUS
  <2>1. heap = <<>> /\ heap_ptr = 0 /\ tree_memory = [i \in 0 .. 2 * N - 1 |-> <<>>]
    BY DEF ArrayInit, Init
  <2>2. Len(heap) = 0
    BY <2>1
  <2> QED BY <2>1, <2>2 DEF ArrayOK, Nodes
<1>2. IInv /\ TypeOK' /\ ArrayOK /\ [ArrayNext]_arrayVars => ArrayOK'
  BY ArrayStep
<1>3. IInv /\ ArrayOK => SameTree
  <2> SUFFICES ASSUME IInv, ArrayOK PROVE SameTree
    OBVIOUS
  <2>1. TypeOK /\ TreeOK
    BY IInvTypeOK DEF IInv, HeapInv, HeapOK
  <2>2. Len(heap) <= 2 * N - 1 /\ Len(heap) \in Nat
    BY <2>1, HeapLen DEF TypeOK
  <2>3. phase = "run" => Len(heap) = ret
    BY DEF IInv, HeapInv, HeapOK, TreeBuilt
  <2> QED BY <2>2, <2>3, Sizes DEF SameTree, ArrayOK, Nodes
<1> QED BY <1>1, <1>2, <1>3, ArrayTreeIsKdTree, IInvInductive, KdTypeOK, PTL DEF ArraySpec
=============================================================================
