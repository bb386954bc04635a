---------------------------- MODULE HostRunProofs ----------------------------
(***************************************************************************)
(* Theorems about the host programs, for every setting and whatever call   *)
(* fails: a call finds what it works on, the kernels start on inputs that  *)
(* have been written, results that are shown have been read, no memory     *)
(* goes away under a command, and cleanup frees all but the leaves.         *)
(*                                                                         *)
(* The argument.  A program is a sequence of calls, and what it has at a   *)
(* call follows from the calls before: what there is for certain, what     *)
(* there may be, the command of every event variable, how many commands    *)
(* were handed over and which have ended.  Each call is legal when that is *)
(* known before it (Legal), and it says what is known after it (After).    *)
(* Both programs are chains of legal calls (Leads), piece by piece: the    *)
(* rules of the pieces are those of the code's functions.  While nothing   *)
(* has failed, what is known is so, and the calls still to make are the    *)
(* rest of a chain; a failure happens only where cleanup releases all that *)
(* there may be (HostInv).  The commands are those of a plan, in its       *)
(* order, and a command of a queue leaves the state "queued" only when     *)
(* those before it in the queue have ended: one wait thus tells of         *)
(* several commands.                                                       *)
(***************************************************************************)
EXTENDS HostRun, FiniteSetTheorems, WellFoundedInduction, TLAPS

-----------------------------------------------------------------------------
(***************************************************************************)
(* What is known when a call is made.                                      *)
(***************************************************************************)

\* The commands that each program hands over, in this order.
Planned(cmd, queue, uses) == [cmd |-> cmd, queue |-> queue, uses |-> uses]

SvmPlan ==
  << Planned("write_centers", "queue0", {"initial_centers"}),
     Planned("filter1", "queue1", {}),
     Planned("filter0", "queue0", {"root", "leaves"}),
     Planned("read_visited", "queue0", {"visited_nodes"}),
     Planned("read_profiling", "queue0", {"profiling_data"}),
     Planned("read_centers", "queue1", {"new_centers"}),
     Planned("read_distortion", "queue1", {"distortion"}) >>

NoSvmPlan ==
  << Planned("write_tree", "queue0", {"tree_memory"}),
     Planned("write_centers", "queue0", {"initial_centers"}),
     Planned("filter1", "queue1", {}),
     Planned("filter0", "queue0", {}),
     Planned("read_visited", "queue0", {"visited_nodes"}),
     Planned("read_centers", "queue1", {"new_centers"}),
     Planned("read_distortion", "queue1", {"distortion"}) >>

\* The plan of the program b: what its run hands over when nothing fails.
Plan(b) == IF b = "svm" THEN SvmPlan ELSE NoSvmPlan

\* All that a program can have, and the commands.
Names    == Objects \cup HostMemory \cup Arrays \cup InScope \cup Files
Commands == {"write_tree", "write_centers", "filter0", "filter1", "read_visited", "read_profiling",
             "read_centers", "read_distortion"}

\* What there is for certain, what there may be, the event variables, the number of
\* commands handed over, and commands that have ended.
Knowledge == [must : SUBSET Names, may : SUBSET Names, events : [EventVars -> Commands \cup {"none"}],
              sent : 0 .. 7, ended : SUBSET Commands]

\* What cleanup leaves at the end of a run and after a failure, and what it finds at most.
Rest(b)     == Arrays \cup {"aocx file"} \cup Unfreed(b)
Leftover(b) == Rest(b) \cup {"local program"} \cup InScope

Cleans(b) == IF b = "svm" THEN Names \ {"centres file", "tree_memory", "tree_memory_buf"}
             ELSE Names \ {"centres file", "root", "leaves", "z0_buf", "profiling_data", "profiling_data_buf"}

\* At the end of a run there is what cleanup does not free, and nothing but the rest.
Final(b, m) == Unfreed(b) \subseteq m.must /\ m.may \subseteq Rest(b)

\* A command that may still be at work on the memory x, which is not one of the two
\* results that nobody waits for.
StillUses(b, a, x) ==
  \E i \in 1 .. a.sent : /\ Plan(b)[i].cmd \notin a.ended
                         /\ x \in Plan(b)[i].uses \ {"visited_nodes", "profiling_data"}

\* The call c finds what it works on.
Finds(c, a) ==
  /\ c.needs \subseteq a.must
  /\ c.op = "enqueue" => c.waits \subseteq EventVars /\ \A e \in c.waits : a.events[e] # "none"
  /\ c.op \in {"wait", "releaseEvent"} => a.events[c.x] # "none"
  /\ c.op = "query" => a.events[c.x] \in a.ended
  /\ c.op = "show" /\ c.x = "new_centers" => "read_centers" \in a.ended
  /\ c.op = "show" /\ c.x = "distortion" => "read_distortion" \in a.ended

\* A failure comes where cleanup, or the return of main, leaves nothing behind.
MayFail(b, c, a) ==
  /\ c.fail \in {"never", "cleanup", "return", "exit"}
  /\ c.fail = "cleanup" => a.may \subseteq Cleans(b)
  /\ c.fail = "return" => a.may \subseteq Arrays

\* The call c may be made: it takes nothing from a command, or is the next command of the plan.
Legal(b, c, a) ==
  /\ Finds(c, a) /\ MayFail(b, c, a)
  /\ c.op = "release" => ~StillUses(b, a, c.x)
  /\ c.op = "enqueue" => /\ a.sent < 7 /\ Plan(b)[a.sent + 1] = Planned(c.x, c.queue, c.uses)
                         /\ c.event \in EventVars

\* When the command of an event has ended, so have those before it in its queue.
EndedWith(b, a, cmd) ==
  {Plan(b)[j].cmd : j \in {j \in 1 .. a.sent :
     \E i \in j .. a.sent : Plan(b)[i].cmd = cmd /\ Plan(b)[i].queue = Plan(b)[j].queue}}

\* What is known after the call c of the program b.
After(b, c, a) ==
  CASE c.op = "create"  -> [a EXCEPT !.must = @ \cup {c.x}, !.may = @ \cup {c.x}]
    [] c.op = "malloc"  -> [a EXCEPT !.may = @ \cup {c.x}]
    [] c.op = "assign"  -> [a EXCEPT !.must = (@ \ {"local program"}) \cup {c.x},
                                     !.may = (@ \ {"local program"}) \cup {c.x}]
    [] c.op = "release" -> [a EXCEPT !.must = @ \ {c.x}, !.may = @ \ {c.x}]
    [] c.op = "enqueue" -> [a EXCEPT !.sent = @ + 1, !.events[c.event] = c.x]
    [] c.op = "wait"    -> [a EXCEPT !.ended = @ \cup EndedWith(b, a, a.events[c.x])]
    [] c.op = "releaseEvent" -> [a EXCEPT !.events[c.x] = "none"]
    [] OTHER -> a

\* What is known may be known less well: less is certain, and more may be there.
Weaker(a, m) ==
  /\ m.must \subseteq a.must /\ a.may \subseteq m.may
  /\ m.events = a.events /\ m.sent = a.sent /\ m.ended \subseteq a.ended

\* The call c is legal when k is known, and m is known after it.
OneStep(b, c, k, m) == Legal(b, c, k) /\ (c.op # "fails" => Weaker(After(b, c, k), m))

\* The calls q are legal one after the other when k is known before the first;
\* m is known after the last.
Leads(b, k, q, m) ==
  /\ \E S : q \in Seq(S)
  /\ \E tr \in [0 .. Len(q) -> Knowledge] :
       /\ tr[0] = k /\ tr[Len(q)] = m
       /\ \A i \in 1 .. Len(q) : OneStep(b, q[i], tr[i - 1], tr[i])

-----------------------------------------------------------------------------
(***************************************************************************)
(* Sequences of calls.                                                     *)
(***************************************************************************)

\* No call changes nothing of what is known.
LEMMA LeadsNone ==
  ASSUME NEW b, NEW k \in Knowledge
  PROVE  Leads(b, k, <<>>, k)
<1> DEFINE tr == [i \in 0 .. 0 |-> k]
<1>1. <<>> \in Seq({}) /\ Len(<<>>) = 0
  OBVIOUS
<1>2. tr \in [0 .. 0 -> Knowledge] /\ tr[0] = k
  OBVIOUS
<1>3. \A i \in 1 .. 0 : OneStep(b, <<>>[i], tr[i - 1], tr[i])
  OBVIOUS
<1> HIDE DEF tr
<1> QED BY <1>1, <1>2, <1>3 DEF Leads

\* One call.
LEMMA LeadsOne ==
  ASSUME NEW b, NEW c, NEW k \in Knowledge, NEW m \in Knowledge, OneStep(b, c, k, m)
  PROVE  Leads(b, k, <<c>>, m)
<1> DEFINE tr == [i \in 0 .. 1 |-> IF i = 0 THEN k ELSE m]
           q == <<c>>
<1>1. q \in Seq({c}) /\ Len(q) = 1 /\ q[1] = c
  OBVIOUS
<1>2. tr \in [0 .. 1 -> Knowledge] /\ tr[0] = k /\ tr[1] = m
  OBVIOUS
<1>3. \A i \in 1 .. 1 : OneStep(b, q[i], tr[i - 1], tr[i])
  <2> HIDE DEF tr, q
  <2>1. \A i \in 1 .. 1 : i = 1 /\ i - 1 = 0
    OBVIOUS
  <2> QED BY <1>1, <1>2, <2>1
<1> HIDE DEF tr, q
<1>4. Leads(b, k, q, m)
  BY <1>1, <1>2, <1>3 DEF Leads
<1> QED BY <1>4 DEF q

\* Calls, and others that go on from what is known after them.
LEMMA LeadsOn ==
  ASSUME NEW b, NEW k, NEW p, NEW l, NEW q, NEW m, Leads(b, k, p, l), Leads(b, l, q, m)
  PROVE  Leads(b, k, p \o q, m)
<1>1. PICK S : p \in Seq(S)
  BY DEF Leads
<1>2. PICK T : q \in Seq(T)
  BY DEF Leads
<1>3. PICK tp \in [0 .. Len(p) -> Knowledge] :
        /\ tp[0] = k /\ tp[Len(p)] = l
        /\ \A i \in 1 .. Len(p) : OneStep(b, p[i], tp[i - 1], tp[i])
  BY DEF Leads
<1>4. PICK tq \in [0 .. Len(q) -> Knowledge] :
        /\ tq[0] = l /\ tq[Len(q)] = m
        /\ \A i \in 1 .. Len(q) : OneStep(b, q[i], tq[i - 1], tq[i])
  BY DEF Leads
<1> DEFINE r == p \o q
           n == Len(p)
           tr == [i \in 0 .. Len(r) |-> IF i <= n THEN tp[i] ELSE tq[i - n]]
<1>5. p \in Seq(S \cup T) /\ q \in Seq(S \cup T) /\ n \in Nat /\ Len(q) \in Nat
  BY <1>1, <1>2
<1>6. /\ r \in Seq(S \cup T) /\ Len(r) = n + Len(q)
      /\ \A i \in 1 .. Len(r) : r[i] = IF i <= n THEN p[i] ELSE q[i - n]
  BY <1>5
<1>7. tr \in [0 .. Len(r) -> Knowledge]
  <2>1. ASSUME NEW i \in 0 .. Len(r) PROVE tr[i] \in Knowledge
    <3>1. CASE i <= n
      <4>1. i \in 0 .. n
        BY <3>1, <1>5
      <4> QED BY <3>1, <4>1, <1>3
    <3>2. CASE ~(i <= n)
      <4>1. (i - n) \in 0 .. Len(q)
        BY <3>2, <1>5, <1>6
      <4> QED BY <3>2, <4>1, <1>4
    <3> QED BY <3>1, <3>2
  <2> QED BY <2>1
<1>8. tr[0] = k
  BY <1>3, <1>5, <1>6
<1>9. tr[Len(r)] = m
  <2>1. CASE Len(q) = 0
    BY <2>1, <1>3, <1>4, <1>5, <1>6
  <2>2. CASE Len(q) # 0
    BY <2>2, <1>4, <1>5, <1>6
  <2> QED BY <2>1, <2>2
<1>10. ASSUME NEW i \in 1 .. Len(r) PROVE OneStep(b, r[i], tr[i - 1], tr[i])
  <2>1. CASE i <= n
    <3>1. i \in 1 .. n /\ r[i] = p[i] /\ tr[i - 1] = tp[i - 1] /\ tr[i] = tp[i]
      <4> HIDE DEF r
      <4> QED BY <2>1, <1>5, <1>6
    <3> HIDE DEF tr, r
    <3> QED BY <3>1, <1>3
  <2>2. CASE ~(i <= n)
    <3>1. (i - n) \in 1 .. Len(q) /\ r[i] = q[i - n] /\ tr[i] = tq[i - n]
      <4> HIDE DEF r
      <4> QED BY <2>2, <1>5, <1>6
    <3>2. tr[i - 1] = tq[(i - n) - 1]
      <4>1. CASE i - 1 = n
        <5> HIDE DEF r
        <5> QED BY <4>1, <1>3, <1>4, <1>5, <1>6
      <4>2. CASE i - 1 # n
        <5>1. (i - 1) - n = (i - n) - 1
          BY <1>5
        <5> HIDE DEF r
        <5> QED BY <4>2, <2>2, <5>1, <1>5, <1>6
      <4> QED BY <4>1, <4>2
    <3> HIDE DEF tr, r
    <3> QED BY <3>1, <3>2, <1>4
  <2> QED BY <2>1, <2>2
<1> HIDE DEF tr, r
<1>11. Leads(b, k, r, m)
  BY <1>6, <1>7, <1>8, <1>9, <1>10 DEF Leads
<1> QED BY <1>11 DEF r

\* The first call is legal, and the others go on from what is known after it.
LEMMA LeadsHead ==
  ASSUME NEW b, NEW k, NEW q, NEW m, Leads(b, k, q, m), q # <<>>
  PROVE  \E l \in Knowledge : OneStep(b, Head(q), k, l) /\ Leads(b, l, Tail(q), m)
<1>1. PICK S : q \in Seq(S)
  BY DEF Leads
<1>2. PICK tr \in [0 .. Len(q) -> Knowledge] :
        /\ tr[0] = k /\ tr[Len(q)] = m
        /\ \A i \in 1 .. Len(q) : OneStep(b, q[i], tr[i - 1], tr[i])
  BY DEF Leads
<1> DEFINE r == Tail(q)
           tt == [i \in 0 .. Len(r) |-> tr[i + 1]]
<1>3. /\ Len(q) \in Nat /\ Len(q) >= 1 /\ Head(q) = q[1]
      /\ r \in Seq(S) /\ Len(r) = Len(q) - 1 /\ \A i \in 1 .. Len(r) : r[i] = q[i + 1]
  BY <1>1
<1>4. tt \in [0 .. Len(r) -> Knowledge] /\ tt[0] = tr[1] /\ tt[Len(r)] = m
  <2> HIDE DEF r
  <2>1. \A i \in 0 .. Len(r) : (i + 1) \in 0 .. Len(q)
    BY <1>3
  <2> QED BY <1>2, <1>3, <2>1
<1>5. ASSUME NEW i \in 1 .. Len(r) PROVE OneStep(b, r[i], tt[i - 1], tt[i])
  <2> HIDE DEF r
  <2>1. (i + 1) \in 1 .. Len(q) /\ r[i] = q[i + 1] /\ tt[i - 1] = tr[(i + 1) - 1] /\ tt[i] = tr[i + 1]
    BY <1>3
  <2> HIDE DEF tt
  <2> QED BY <1>2, <2>1
<1>6. OneStep(b, Head(q), k, tr[1]) /\ tr[1] \in Knowledge
  <2>1. 1 \in 1 .. Len(q) /\ 1 - 1 = 0 /\ 1 \in 0 .. Len(q)
    BY <1>3
  <2> QED BY <1>2, <1>3, <2>1
<1> HIDE DEF tt, r
<1>7. Leads(b, tr[1], r, m)
  BY <1>3, <1>4, <1>5 DEF Leads
<1> QED BY <1>6, <1>7 DEF r

\* A nonempty finite set of integers has a least element.
LEMMA Least ==
  ASSUME NEW S, IsFiniteSet(S), S \subseteq Int, S # {}
  PROVE  \E x \in S : \A y \in S : x <= y
<1> DEFINE A(x) == {y \in S : y < x}
           T == {A(x) : x \in S}
           R == StrictSubsetOrdering(S)
<1>1. IsWellFoundedOn(R, FiniteSubsetsOf(S))
  BY FS_StrictSubsetOrderingWellFounded
<1>2. T \subseteq FiniteSubsetsOf(S) /\ T # {}
  <2>1. ASSUME NEW x \in S PROVE A(x) \in FiniteSubsetsOf(S)
    <3>1. A(x) \in SUBSET S
      OBVIOUS
    <3> QED BY <3>1, FS_Subset DEF FiniteSubsetsOf
  <2> QED BY <2>1
<1>3. PICK U \in T : \A V \in T : ~(<<V, U>> \in R)
  <2> HIDE DEF T, R
  <2> QED BY <1>1, <1>2, WFMin
<1>4. PICK x \in S : U = A(x)
  OBVIOUS
<1>5. ASSUME NEW y \in S, y < x PROVE FALSE
  <2>1. A(y) \subseteq A(x) /\ y \in A(x) /\ y \notin A(y)
    <3> HIDE DEF T, R
    <3>1. x \in Int /\ y \in Int
      OBVIOUS
    <3>2. ASSUME NEW z \in S, z < y PROVE z < x
      <4>1. z \in Int
        OBVIOUS
      <4> QED BY <1>5, <3>1, <3>2, <4>1
    <3>3. ~(y < y)
      BY <3>1
    <3> QED BY <1>5, <3>2, <3>3
  <2>2. A(y) \in T /\ A(y) \in SUBSET S /\ A(x) \in SUBSET S
    OBVIOUS
  <2> HIDE DEF A, T
  <2>3. <<A(y), A(x)>> \in R
    BY <2>1, <2>2 DEF StrictSubsetOrdering
  <2> QED BY <1>3, <1>4, <2>2, <2>3
<1> QED BY <1>5

\* A set that has 0, and every number up to n whose predecessor it has.
LEMMA UpTo ==
  ASSUME NEW n \in Nat, NEW T, 0 \in T, \A i \in 1 .. n : i - 1 \in T => i \in T
  PROVE  0 .. n \subseteq T
<1> DEFINE X == (0 .. n) \ T
<1> SUFFICES ASSUME X # {} PROVE FALSE
  OBVIOUS
<1>1. IsFiniteSet(X) /\ X \subseteq Int
  <2>1. X \in SUBSET (0 .. n) /\ IsFiniteSet(0 .. n)
    BY FS_Interval
  <2>2. X \subseteq Int
    OBVIOUS
  <2> HIDE DEF X
  <2> QED BY <2>1, <2>2, FS_Subset
<1>2. PICK x \in X : \A y \in X : x <= y
  <2> HIDE DEF X
  <2> QED BY <1>1, Least
<1>3. x \in 1 .. n /\ (x - 1) \in 0 .. n /\ ~(x <= x - 1)
  OBVIOUS
<1>4. x - 1 \in T
  BY <1>2, <1>3
<1> QED BY <1>3, <1>4

\* The function that FlattenSeq computes its result with.
Flattens(f, seqs, n) == f = [i \in 1 .. n |-> IF i = 1 THEN seqs[i] ELSE f[i - 1] \o seqs[i]]

\* There is such a function.
LEMMA FlattensExists ==
  ASSUME NEW seqs, NEW n \in Nat
  PROVE  \E f : Flattens(f, seqs, n)
<1> DEFINE T == {i \in 0 .. n : \E f : Flattens(f, seqs, i)}
<1>1. 0 \in T
  <2> DEFINE f == [i \in 1 .. 0 |-> 0]
  <2>1. f = [i \in 1 .. 0 |-> IF i = 1 THEN seqs[i] ELSE f[i - 1] \o seqs[i]]
    OBVIOUS
  <2>2. 0 \in 0 .. n
    OBVIOUS
  <2> HIDE DEF f
  <2>3. Flattens(f, seqs, 0)
    BY <2>1 DEF Flattens
  <2> QED BY <2>2, <2>3
<1>2. ASSUME NEW i \in 1 .. n, i - 1 \in T PROVE i \in T
  <2>1. PICK g : Flattens(g, seqs, i - 1)
    BY <1>2
  <2> DEFINE f == [j \in 1 .. i |-> IF j = i THEN (IF i = 1 THEN seqs[i] ELSE g[i - 1] \o seqs[i]) ELSE g[j]]
  <2>2. ASSUME NEW j \in 1 .. i
        PROVE  f[j] = IF j = 1 THEN seqs[j] ELSE f[j - 1] \o seqs[j]
    <3>1. CASE j = i
      <4>1. i # 1 => (i - 1) \in 1 .. i /\ i - 1 # i
        OBVIOUS
      <4> QED BY <3>1, <4>1
    <3>2. CASE j # i
      <4>1. j \in 1 .. (i - 1) /\ (j # 1 => (j - 1) \in 1 .. i /\ j - 1 # i)
        BY <3>2
      <4>2. f[j] = g[j] /\ (j # 1 => f[j - 1] = g[j - 1])
        BY <3>2, <4>1
      <4>3. g[j] = IF j = 1 THEN seqs[j] ELSE g[j - 1] \o seqs[j]
        <5> HIDE DEF f
        <5> QED BY <2>1, <4>1 DEF Flattens
      <4> QED BY <4>2, <4>3
    <3> QED BY <3>1, <3>2
  <2>3. f = [j \in 1 .. i |-> f[j]]
    OBVIOUS
  <2> HIDE DEF f
  <2>4. f = [j \in 1 .. i |-> IF j = 1 THEN seqs[j] ELSE f[j - 1] \o seqs[j]]
    BY <2>2, <2>3
  <2>5. i \in 0 .. n
    OBVIOUS
  <2> QED BY <2>4, <2>5 DEF Flattens
<1>3. 0 .. n \subseteq T
  <2> HIDE DEF T
  <2> QED BY <1>1, <1>2, UpTo
<1>4. n \in T
  BY <1>3
<1> QED BY <1>4

\* So FlattenSeq appends the sequences one after the other.
LEMMA FlattenSeqIs ==
  ASSUME NEW seqs, Len(seqs) \in Nat, Len(seqs) # 0
  PROVE  \E f : FlattenSeq(seqs) = f[Len(seqs)] /\ f[1] = seqs[1]
                /\ \A i \in 2 .. Len(seqs) : f[i] = f[i - 1] \o seqs[i]
<1> DEFINE n == Len(seqs)
           f == CHOOSE g : Flattens(g, seqs, n)
<1>1. FlattenSeq(seqs) = f[n]
  BY DEF FlattenSeq, Flattens
<1>2. Flattens(f, seqs, n)
  <2>1. \E g : Flattens(g, seqs, n)
    BY FlattensExists
  <2> QED BY <2>1
<1> HIDE DEF f
<1>3. \A i \in 1 .. n : f[i] = IF i = 1 THEN seqs[i] ELSE f[i - 1] \o seqs[i]
  BY <1>2 DEF Flattens
<1>4. 1 \in 1 .. n /\ \A i \in 2 .. n : i \in 1 .. n /\ i # 1
  OBVIOUS
<1>5. f[1] = seqs[1] /\ \A i \in 2 .. n : f[i] = f[i - 1] \o seqs[i]
  BY <1>3, <1>4
<1> QED BY <1>1, <1>5

\* Pieces that lead on from each other, one after the other.
LEMMA LeadsFlat ==
  ASSUME NEW b, NEW n \in Nat, NEW ks \in [0 .. n -> Knowledge], NEW seqs,
         seqs = [i \in 1 .. n |-> seqs[i]],
         \A i \in 1 .. n : Leads(b, ks[i - 1], seqs[i], ks[i])
  PROVE  Leads(b, ks[0], FlattenSeq(seqs), ks[n])
<1>0. Len(seqs) = n
  OBVIOUS
<1>1. CASE n = 0
  <2>1. FlattenSeq(seqs) = <<>>
    <3>1. FlattenSeq(seqs) = seqs
      BY <1>0, <1>1 DEF FlattenSeq
    <3>2. seqs = <<>>
      BY <1>1
    <3> QED BY <3>1, <3>2
  <2>2. ks[0] \in Knowledge
    OBVIOUS
  <2> QED BY <2>1, <2>2, <1>1, LeadsNone
<1>2. CASE n # 0
  <2>1. PICK f : FlattenSeq(seqs) = f[n] /\ f[1] = seqs[1] /\ \A i \in 2 .. n : f[i] = f[i - 1] \o seqs[i]
    <3> HIDE <1>2
    <3>1. Len(seqs) \in Nat /\ Len(seqs) # 0
      BY <1>0, <1>2
    <3> QED BY <3>1, <1>0, FlattenSeqIs
  <2> DEFINE T == {i \in 0 .. n : i # 0 => Leads(b, ks[0], f[i], ks[i])}
  <2>2. 0 \in T
    OBVIOUS
  <2>3. ASSUME NEW i \in 1 .. n, i - 1 \in T PROVE i \in T
    <3>1. Leads(b, ks[0], f[i], ks[i])
      <4>1. CASE i = 1
        BY <2>1, <4>1
      <4>2. CASE i # 1
        <5>1. i \in 2 .. n /\ i - 1 # 0
          BY <4>2
        <5>2. Leads(b, ks[0], f[i - 1], ks[i - 1]) /\ f[i] = f[i - 1] \o seqs[i]
          BY <2>1, <2>3, <5>1
        <5>3. Leads(b, ks[i - 1], seqs[i], ks[i])
          OBVIOUS
        <5>4. Leads(b, ks[0], f[i - 1] \o seqs[i], ks[i])
          BY <5>2, <5>3, LeadsOn
        <5> QED BY <5>2, <5>4
      <4> QED BY <4>1, <4>2
    <3>2. i \in 0 .. n
      OBVIOUS
    <3> QED BY <3>1, <3>2
  <2>4. 0 .. n \subseteq T
    <3> HIDE DEF T
    <3> QED BY <2>2, <2>3, UpTo
  <2>5. n \in T
    BY <2>4
  <2> QED BY <2>1, <2>5, <1>2
<1> QED BY <1>1, <1>2

\* A piece that changes nothing of what is known, any number of times.
LEMMA LeadsRepeat ==
  ASSUME NEW b, NEW k \in Knowledge, NEW q, Leads(b, k, q, k), NEW n \in Nat
  PROVE  Leads(b, k, Repeat(n, q), k)
<1> DEFINE ks == [i \in 0 .. n |-> k]
           seqs == [i \in 1 .. n |-> q]
<1>1. ks \in [0 .. n -> Knowledge] /\ ks[0] = k /\ ks[n] = k
  OBVIOUS
<1>2. seqs = [i \in 1 .. n |-> seqs[i]] /\ \A i \in 1 .. n : Leads(b, ks[i - 1], seqs[i], ks[i])
  OBVIOUS
<1> HIDE DEF ks
<1>3. Repeat(n, q) = FlattenSeq(seqs)
  BY DEF Repeat
<1> HIDE DEF seqs
<1>4. Leads(b, ks[0], FlattenSeq(seqs), ks[n])
  BY <1>1, <1>2, LeadsFlat
<1> QED BY <1>1, <1>3, <1>4

-----------------------------------------------------------------------------
(***************************************************************************)
(* One call.                                                               *)
(***************************************************************************)

\* M is there for certain, and nothing outside U.
Known(M, U, ev, n, en) == [must |-> M, may |-> U, events |-> ev, sent |-> n, ended |-> en]

\* What a program has handed over and waited for.
Progress(ev, n, en) == ev \in [EventVars -> Commands \cup {"none"}] /\ n \in 0 .. 7 /\ en \subseteq Commands

\* Such a record is knowledge.
LEMMA KnownTyped ==
  ASSUME NEW M, NEW U, NEW ev, NEW n, NEW en, M \subseteq U, U \subseteq Names, Progress(ev, n, en)
  PROVE  Known(M, U, ev, n, en) \in Knowledge
  BY DEF Known, Knowledge, Progress

\* What cleanup finds has a name.
LEMMA CleansNames == ASSUME NEW b PROVE Cleans(b) \subseteq Names
  BY DEF Cleans

\* A call whose result is checked, and whose failure calls cleanup.
LEMMA LeadsCheck ==
  ASSUME NEW b, NEW M, NEW U, NEW ev, NEW n, NEW en, Progress(ev, n, en), M \subseteq U, U \subseteq Cleans(b),
         NEW what, NEW needs, needs \subseteq M
  PROVE  Leads(b, Known(M, U, ev, n, en), _checkError(what, needs), Known(M, U, ev, n, en))
<1> DEFINE k == Known(M, U, ev, n, en)
           c == [op |-> "call", x |-> what, needs |-> needs, fail |-> "cleanup"]
<1>1. k \in Knowledge
  BY KnownTyped, CleansNames
<1>2. Legal(b, c, k)
  BY DEF Legal, Finds, MayFail, Known
<1>3. Weaker(After(b, c, k), k)
  BY DEF Weaker, After, Known
<1>4. _checkError(what, needs) = <<c>>
  BY DEF _checkError, Call
<1> HIDE DEF k, c
<1>5. OneStep(b, c, k, k)
  BY <1>2, <1>3 DEF OneStep
<1>6. Leads(b, k, <<c>>, k)
  BY <1>1, <1>5, LeadsOne
<1> QED BY <1>4, <1>6 DEF k

\* A call whose failure makes main return.
LEMMA LeadsReturn ==
  ASSUME NEW b, NEW M, NEW U, NEW ev, NEW n, NEW en, Progress(ev, n, en), M \subseteq U, U \subseteq Arrays,
         NEW what
  PROVE  Leads(b, Known(M, U, ev, n, en), Return(what), Known(M, U, ev, n, en))
<1> DEFINE k == Known(M, U, ev, n, en)
           c == [op |-> "call", x |-> what, needs |-> {}, fail |-> "return"]
<1>1. k \in Knowledge
  <2>1. U \subseteq Names
    BY DEF Names
  <2> QED BY <2>1, KnownTyped
<1>2. Legal(b, c, k)
  BY DEF Legal, Finds, MayFail, Known
<1>3. Weaker(After(b, c, k), k)
  BY DEF Weaker, After, Known
<1>4. Return(what) = <<c>>
  BY DEF Return, Call
<1> HIDE DEF k, c
<1>5. OneStep(b, c, k, k)
  BY <1>2, <1>3 DEF OneStep
<1>6. Leads(b, k, <<c>>, k)
  BY <1>1, <1>5, LeadsOne
<1> QED BY <1>4, <1>6 DEF k

\* An OpenCL object is created.
LEMMA LeadsObject ==
  ASSUME NEW b, NEW M, NEW U, NEW ev, NEW n, NEW en, Progress(ev, n, en), M \subseteq U, U \subseteq Cleans(b),
         NEW x \in U, NEW needs, needs \subseteq M
  PROVE  Leads(b, Known(M, U, ev, n, en), Object(x, needs), Known(M \cup {x}, U, ev, n, en))
<1> DEFINE k == Known(M, U, ev, n, en)
           m == Known(M \cup {x}, U, ev, n, en)
           c == [op |-> "create", x |-> x, needs |-> needs, fail |-> "cleanup"]
<1>1. k \in Knowledge /\ m \in Knowledge
  BY KnownTyped, CleansNames
<1>2. Legal(b, c, k)
  BY DEF Legal, Finds, MayFail, Known
<1>3. Weaker(After(b, c, k), m)
  BY DEF Weaker, After, Known
<1>4. Object(x, needs) = <<c>>
  BY DEF Object, Call
<1> HIDE DEF k, m, c
<1>5. Leads(b, k, <<c>>, m)
  BY <1>1, <1>2, <1>3, LeadsOne DEF OneStep
<1> QED BY <1>4, <1>5 DEF k, m

\* An array is created.
LEMMA LeadsNew ==
  ASSUME NEW b, NEW M, NEW U, NEW ev, NEW n, NEW en, Progress(ev, n, en), M \subseteq U, U \subseteq Names,
         NEW x, U \cup {x} \subseteq Names
  PROVE  Leads(b, Known(M, U, ev, n, en), New(x), Known(M \cup {x}, U \cup {x}, ev, n, en))
<1> DEFINE k == Known(M, U, ev, n, en)
           m == Known(M \cup {x}, U \cup {x}, ev, n, en)
           c == [op |-> "create", x |-> x, needs |-> {}, fail |-> "never"]
<1>1. k \in Knowledge /\ m \in Knowledge
  BY KnownTyped, CleansNames
<1>2. Legal(b, c, k)
  BY DEF Legal, Finds, MayFail, Known
<1>3. Weaker(After(b, c, k), m)
  BY DEF Weaker, After, Known
<1>4. New(x) = <<c>>
  BY DEF New, Call
<1> HIDE DEF k, m, c
<1>5. Leads(b, k, <<c>>, m)
  BY <1>1, <1>2, <1>3, LeadsOne DEF OneStep
<1> QED BY <1>4, <1>5 DEF k, m

\* An array that there may be already.
LEMMA LeadsNewInto ==
  ASSUME NEW b, NEW M, NEW U, NEW ev, NEW n, NEW en, Progress(ev, n, en), M \subseteq U, U \subseteq Names,
         NEW x \in U
  PROVE  Leads(b, Known(M, U, ev, n, en), New(x), Known(M, U, ev, n, en))
<1> DEFINE k == Known(M, U, ev, n, en)
           m == Known(M, U, ev, n, en)
           c == [op |-> "create", x |-> x, needs |-> {}, fail |-> "never"]
<1>1. k \in Knowledge /\ m \in Knowledge
  BY KnownTyped, CleansNames
<1>2. Legal(b, c, k)
  BY DEF Legal, Finds, MayFail, Known
<1>3. Weaker(After(b, c, k), m)
  BY DEF Weaker, After, Known
<1>4. New(x) = <<c>>
  BY DEF New, Call
<1> HIDE DEF k, m, c
<1>5. Leads(b, k, <<c>>, m)
  BY <1>1, <1>2, <1>3, LeadsOne DEF OneStep
<1> QED BY <1>4, <1>5 DEF k, m

\* Memory that there may be already.
LEMMA LeadsMemory ==
  ASSUME NEW b, NEW M, NEW U, NEW ev, NEW n, NEW en, Progress(ev, n, en), M \subseteq U, U \subseteq Names,
         NEW x \in U
  PROVE  Leads(b, Known(M, U, ev, n, en), Memory(x), Known(M, U, ev, n, en))
<1> DEFINE k == Known(M, U, ev, n, en)
           m == Known(M, U, ev, n, en)
           c == [op |-> "malloc", x |-> x, needs |-> {}, fail |-> "never"]
<1>1. k \in Knowledge /\ m \in Knowledge
  BY KnownTyped, CleansNames
<1>2. Legal(b, c, k)
  BY DEF Legal, Finds, MayFail, Known
<1>3. Weaker(After(b, c, k), m)
  BY DEF Weaker, After, Known
<1>4. Memory(x) = <<c>>
  BY DEF Memory, Call
<1> HIDE DEF k, m, c
<1>5. Leads(b, k, <<c>>, m)
  BY <1>1, <1>2, <1>3, LeadsOne DEF OneStep
<1> QED BY <1>4, <1>5 DEF k, m

\* The host fills memory.
LEMMA LeadsFill ==
  ASSUME NEW b, NEW M, NEW U, NEW ev, NEW n, NEW en, Progress(ev, n, en), M \subseteq U, U \subseteq Names,
         NEW x
  PROVE  Leads(b, Known(M, U, ev, n, en), Fill(x), Known(M, U, ev, n, en))
<1> DEFINE k == Known(M, U, ev, n, en)
           m == Known(M, U, ev, n, en)
           c == [op |-> "fill", x |-> x, needs |-> {}, fail |-> "never"]
<1>1. k \in Knowledge /\ m \in Knowledge
  BY KnownTyped, CleansNames
<1>2. Legal(b, c, k)
  BY DEF Legal, Finds, MayFail, Known
<1>3. Weaker(After(b, c, k), m)
  BY DEF Weaker, After, Known
<1>4. Fill(x) = <<c>>
  BY DEF Fill, Call
<1> HIDE DEF k, m, c
<1>5. Leads(b, k, <<c>>, m)
  BY <1>1, <1>2, <1>3, LeadsOne DEF OneStep
<1> QED BY <1>4, <1>5 DEF k, m

\* Results that have been read are shown.
LEMMA LeadsShow ==
  ASSUME NEW b, NEW M, NEW U, NEW ev, NEW n, NEW en, Progress(ev, n, en), M \subseteq U, U \subseteq Names,
         NEW x, x = "new_centers" => "read_centers" \in en, x = "distortion" => "read_distortion" \in en
  PROVE  Leads(b, Known(M, U, ev, n, en), Show(x), Known(M, U, ev, n, en))
<1> DEFINE k == Known(M, U, ev, n, en)
           m == Known(M, U, ev, n, en)
           c == [op |-> "show", x |-> x, needs |-> {}, fail |-> "never"]
<1>1. k \in Knowledge /\ m \in Knowledge
  BY KnownTyped, CleansNames
<1>2. Legal(b, c, k)
  BY DEF Legal, Finds, MayFail, Known
<1>3. Weaker(After(b, c, k), m)
  BY DEF Weaker, After, Known
<1>4. Show(x) = <<c>>
  BY DEF Show, Call
<1> HIDE DEF k, m, c
<1>5. Leads(b, k, <<c>>, m)
  BY <1>1, <1>2, <1>3, LeadsOne DEF OneStep
<1> QED BY <1>4, <1>5 DEF k, m

\* A call whose failure ends the program on the spot.
LEMMA LeadsExit ==
  ASSUME NEW b, NEW M, NEW U, NEW ev, NEW n, NEW en, Progress(ev, n, en), M \subseteq U, U \subseteq Names,
         NEW what
  PROVE  Leads(b, Known(M, U, ev, n, en), Call("call", what, {}, "exit"), Known(M, U, ev, n, en))
<1> DEFINE k == Known(M, U, ev, n, en)
           m == Known(M, U, ev, n, en)
           c == [op |-> "call", x |-> what, needs |-> {}, fail |-> "exit"]
<1>1. k \in Knowledge /\ m \in Knowledge
  BY KnownTyped, CleansNames
<1>2. Legal(b, c, k)
  BY DEF Legal, Finds, MayFail, Known
<1>3. Weaker(After(b, c, k), m)
  BY DEF Weaker, After, Known
<1>4. Call("call", what, {}, "exit") = <<c>>
  BY DEF Call
<1> HIDE DEF k, m, c
<1>5. Leads(b, k, <<c>>, m)
  BY <1>1, <1>2, <1>3, LeadsOne DEF OneStep
<1> QED BY <1>4, <1>5 DEF k, m

\* A file is opened, or main returns.
LEMMA LeadsOpen ==
  ASSUME NEW b, NEW M, NEW U, NEW ev, NEW n, NEW en, Progress(ev, n, en), M \subseteq U, U \subseteq Names,
         NEW x, U \cup {x} \subseteq Names, U \subseteq Arrays
  PROVE  Leads(b, Known(M, U, ev, n, en), Call("create", x, {}, "return"), Known(M, U \cup {x}, ev, n, en))
<1> DEFINE k == Known(M, U, ev, n, en)
           m == Known(M, U \cup {x}, ev, n, en)
           c == [op |-> "create", x |-> x, needs |-> {}, fail |-> "return"]
<1>1. k \in Knowledge /\ m \in Knowledge
  BY KnownTyped, CleansNames
<1>2. Legal(b, c, k)
  BY DEF Legal, Finds, MayFail, Known
<1>3. Weaker(After(b, c, k), m)
  BY DEF Weaker, After, Known
<1>4. Call("create", x, {}, "return") = <<c>>
  BY DEF Call
<1> HIDE DEF k, m, c
<1>5. Leads(b, k, <<c>>, m)
  BY <1>1, <1>2, <1>3, LeadsOne DEF OneStep
<1> QED BY <1>4, <1>5 DEF k, m

\* A file is opened, or cleanup is called.
LEMMA LeadsOpenClean ==
  ASSUME NEW b, NEW M, NEW U, NEW ev, NEW n, NEW en, Progress(ev, n, en), M \subseteq U, U \subseteq Cleans(b),
         NEW V, NEW x \in V, U \subseteq V, V \subseteq Names
  PROVE  Leads(b, Known(M, U, ev, n, en), Call("create", x, {}, "cleanup"), Known(M, V, ev, n, en))
<1> DEFINE k == Known(M, U, ev, n, en)
           m == Known(M, V, ev, n, en)
           c == [op |-> "create", x |-> x, needs |-> {}, fail |-> "cleanup"]
<1>1. k \in Knowledge /\ m \in Knowledge
  <2>1. U \subseteq Names /\ M \subseteq V
    BY CleansNames
  <2> QED BY <2>1, KnownTyped
<1>2. Legal(b, c, k)
  BY DEF Legal, Finds, MayFail, Known
<1>3. Weaker(After(b, c, k), m)
  BY DEF Weaker, After, Known
<1>4. Call("create", x, {}, "cleanup") = <<c>>
  BY DEF Call
<1> HIDE DEF k, m, c
<1>5. Leads(b, k, <<c>>, m)
  BY <1>1, <1>2, <1>3, LeadsOne DEF OneStep
<1> QED BY <1>4, <1>5 DEF k, m

\* A call after which more may be there.
LEMMA LeadsCheckInto ==
  ASSUME NEW b, NEW M, NEW U, NEW ev, NEW n, NEW en, Progress(ev, n, en), M \subseteq U, U \subseteq Cleans(b),
         NEW V, NEW what, NEW needs, U \subseteq V, V \subseteq Names, needs \subseteq M
  PROVE  Leads(b, Known(M, U, ev, n, en), _checkError(what, needs), Known(M, V, ev, n, en))
<1> DEFINE k == Known(M, U, ev, n, en)
           m == Known(M, V, ev, n, en)
           c == [op |-> "call", x |-> what, needs |-> needs, fail |-> "cleanup"]
<1>1. k \in Knowledge /\ m \in Knowledge
  <2>1. U \subseteq Names /\ M \subseteq V
    BY CleansNames
  <2> QED BY <2>1, KnownTyped
<1>2. Legal(b, c, k)
  BY DEF Legal, Finds, MayFail, Known
<1>3. Weaker(After(b, c, k), m)
  BY DEF Weaker, After, Known
<1>4. _checkError(what, needs) = <<c>>
  BY DEF _checkError, Call
<1> HIDE DEF k, m, c
<1>5. Leads(b, k, <<c>>, m)
  BY <1>1, <1>2, <1>3, LeadsOne DEF OneStep
<1> QED BY <1>4, <1>5 DEF k, m

\* A function returns its program.
LEMMA LeadsAssign ==
  ASSUME NEW b, NEW M, NEW U, NEW ev, NEW n, NEW en, Progress(ev, n, en), M \subseteq U, U \subseteq Names,
         "local program" \in M,
         NEW x \in U
  PROVE  Leads(b, Known(M, U, ev, n, en), Call("assign", x, {"local program"}, "never"),
               Known((M \ {"local program"}) \cup {x}, (U \ {"local program"}) \cup {x}, ev, n, en))
<1> DEFINE k == Known(M, U, ev, n, en)
           m == Known((M \ {"local program"}) \cup {x}, (U \ {"local program"}) \cup {x}, ev, n, en)
           c == [op |-> "assign", x |-> x, needs |-> {"local program"}, fail |-> "never"]
<1>1. k \in Knowledge /\ m \in Knowledge
  BY KnownTyped, CleansNames
<1>2. Legal(b, c, k)
  BY DEF Legal, Finds, MayFail, Known
<1>3. Weaker(After(b, c, k), m)
  BY DEF Weaker, After, Known
<1>4. Call("assign", x, {"local program"}, "never") = <<c>>
  BY DEF Call
<1> HIDE DEF k, m, c
<1>5. Leads(b, k, <<c>>, m)
  BY <1>1, <1>2, <1>3, LeadsOne DEF OneStep
<1> QED BY <1>4, <1>5 DEF k, m

\* The times of a command that has ended are asked for.
LEMMA LeadsQuery ==
  ASSUME NEW b, NEW M, NEW U, NEW ev, NEW n, NEW en, Progress(ev, n, en), M \subseteq U, U \subseteq Cleans(b),
         NEW e, ev[e] \in en
  PROVE  Leads(b, Known(M, U, ev, n, en), Call("query", e, {}, "cleanup"), Known(M, U, ev, n, en))
<1> DEFINE k == Known(M, U, ev, n, en)
           m == Known(M, U, ev, n, en)
           c == [op |-> "query", x |-> e, needs |-> {}, fail |-> "cleanup"]
<1>1. k \in Knowledge /\ m \in Knowledge
  BY KnownTyped, CleansNames
<1>2. Legal(b, c, k)
  BY DEF Legal, Finds, MayFail, Known
<1>3. Weaker(After(b, c, k), m)
  BY DEF Weaker, After, Known
<1>4. Call("query", e, {}, "cleanup") = <<c>>
  BY DEF Call
<1> HIDE DEF k, m, c
<1>5. Leads(b, k, <<c>>, m)
  BY <1>1, <1>2, <1>3, LeadsOne DEF OneStep
<1> QED BY <1>4, <1>5 DEF k, m

\* Something is released that no command works on.
LEMMA LeadsReleaseFree ==
  ASSUME NEW b, NEW M, NEW U, NEW ev, NEW n, NEW en, Progress(ev, n, en), M \subseteq U, U \subseteq Names,
         NEW x, ~StillUses(b, Known(M, U, ev, n, en), x)
  PROVE  Leads(b, Known(M, U, ev, n, en), Release(x), Known(M \ {x}, U \ {x}, ev, n, en))
<1> DEFINE k == Known(M, U, ev, n, en)
           m == Known(M \ {x}, U \ {x}, ev, n, en)
           c == [op |-> "release", x |-> x, needs |-> {}, fail |-> "never"]
<1>1. k \in Knowledge /\ m \in Knowledge
  BY KnownTyped, CleansNames
<1>2. Legal(b, c, k)
  BY DEF Legal, Finds, MayFail, Known
<1>3. Weaker(After(b, c, k), m)
  BY DEF Weaker, After, Known
<1>4. Release(x) = <<c>>
  BY DEF Release, Call
<1> HIDE DEF k, m, c
<1>5. Leads(b, k, <<c>>, m)
  BY <1>1, <1>2, <1>3, LeadsOne DEF OneStep
<1> QED BY <1>4, <1>5 DEF k, m

\* A command is waited for, and so are those before it in its queue.
LEMMA LeadsWait ==
  ASSUME NEW b, NEW M, NEW U, NEW ev, NEW n, NEW en, Progress(ev, n, en), M \subseteq U, U \subseteq Names,
         NEW e, NEW more, ev[e] # "none", more \subseteq Commands,
         more \subseteq en \cup EndedWith(b, Known(M, U, ev, n, en), ev[e])
  PROVE  Leads(b, Known(M, U, ev, n, en), Wait(e), Known(M, U, ev, n, more))
<1> DEFINE k == Known(M, U, ev, n, en)
           m == Known(M, U, ev, n, more)
           c == [op |-> "wait", x |-> e, needs |-> {}, fail |-> "never"]
<1>1. k \in Knowledge /\ m \in Knowledge
  <2>1. Progress(ev, n, more)
    BY DEF Progress
  <2> QED BY <2>1, KnownTyped
<1>2. Legal(b, c, k)
  BY DEF Legal, Finds, MayFail, Known
<1>3. Weaker(After(b, c, k), m)
  BY DEF Weaker, After, Known
<1>4. Wait(e) = <<c>>
  BY DEF Wait, Call
<1> HIDE DEF k, m, c
<1>5. Leads(b, k, <<c>>, m)
  BY <1>1, <1>2, <1>3, LeadsOne DEF OneStep
<1> QED BY <1>4, <1>5 DEF k, m

\* An event is released.
LEMMA LeadsReleaseEvent ==
  ASSUME NEW b, NEW M, NEW U, NEW ev, NEW n, NEW en, Progress(ev, n, en), M \subseteq U, U \subseteq Names,
         NEW e \in EventVars, ev[e] # "none"
  PROVE  Leads(b, Known(M, U, ev, n, en), ReleaseEvent(e), Known(M, U, [ev EXCEPT ![e] = "none"], n, en))
<1> DEFINE k == Known(M, U, ev, n, en)
           m == Known(M, U, [ev EXCEPT ![e] = "none"], n, en)
           c == [op |-> "releaseEvent", x |-> e, needs |-> {}, fail |-> "never"]
<1>1. k \in Knowledge /\ m \in Knowledge
  <2>1. Progress([ev EXCEPT ![e] = "none"], n, en)
    BY DEF Progress
  <2> QED BY <2>1, KnownTyped
<1>2. Legal(b, c, k)
  BY DEF Legal, Finds, MayFail, Known
<1>3. Weaker(After(b, c, k), m)
  BY DEF Weaker, After, Known
<1>4. ReleaseEvent(e) = <<c>>
  BY DEF ReleaseEvent, Call
<1> HIDE DEF k, m, c
<1>5. Leads(b, k, <<c>>, m)
  BY <1>1, <1>2, <1>3, LeadsOne DEF OneStep
<1> QED BY <1>4, <1>5 DEF k, m

\* A command is handed over.
LEMMA LeadsEnqueue ==
  ASSUME NEW b, NEW M, NEW U, NEW ev, NEW n, NEW en, Progress(ev, n, en), M \subseteq U, U \subseteq Cleans(b),
         NEW cmd \in Commands, NEW queue, NEW needs, NEW waits, NEW event \in EventVars, NEW uses,
         NEW next, NEW now, n < 7, now = n + 1, Plan(b)[now] = Planned(cmd, queue, uses),
         next = [ev EXCEPT ![event] = cmd],
          queue \in M, needs \subseteq M, waits \subseteq EventVars,
         \A e \in waits : ev[e] # "none"
  PROVE  Leads(b, Known(M, U, ev, n, en), Enqueue(cmd, queue, needs, waits, event, uses),
               Known(M, U, next, now, en))
<1> DEFINE k == Known(M, U, ev, n, en)
           m == Known(M, U, next, now, en)
           c == [op |-> "enqueue", x |-> cmd, queue |-> queue, needs |-> {queue} \cup needs,
                  waits |-> waits, event |-> event, uses |-> uses, fail |-> "cleanup"]
<1>1. k \in Knowledge /\ m \in Knowledge
  <2>1. Progress(next, now, en)
    BY DEF Progress
  <2> QED BY <2>1, KnownTyped, CleansNames
<1>2. Legal(b, c, k)
  BY DEF Legal, Finds, MayFail, Known
<1>3. Weaker(After(b, c, k), m)
  BY DEF Weaker, After, Known
<1>4. Enqueue(cmd, queue, needs, waits, event, uses) = <<c>>
  BY DEF Enqueue
<1> HIDE DEF k, m, c
<1>5. Leads(b, k, <<c>>, m)
  BY <1>1, <1>2, <1>3, LeadsOne DEF OneStep
<1> QED BY <1>4, <1>5 DEF k, m

\* A call that fails for certain: what would be known after it does not matter.
LEMMA LeadsFails ==
  ASSUME NEW b, NEW M, NEW U, NEW ev, NEW n, NEW en, Progress(ev, n, en), M \subseteq U, U \subseteq Names,
         NEW m \in Knowledge, NEW what, NEW fail \in {"exit", "return", "cleanup"},
         fail = "return" => U \subseteq Arrays, fail = "cleanup" => U \subseteq Cleans(b)
  PROVE  Leads(b, Known(M, U, ev, n, en), Call("fails", what, {}, fail), m)
<1> DEFINE k == Known(M, U, ev, n, en)
           c == [op |-> "fails", x |-> what, needs |-> {}, fail |-> fail]
<1>1. k \in Knowledge
  BY KnownTyped
<1>2. Legal(b, c, k)
  BY DEF Legal, Finds, MayFail, Known
<1>3. c.op = "fails"
  OBVIOUS
<1>4. Call("fails", what, {}, fail) = <<c>>
  BY DEF Call
<1> HIDE DEF k, c
<1>5. Leads(b, k, <<c>>, m)
  BY <1>1, <1>2, <1>3, LeadsOne DEF OneStep
<1> QED BY <1>4, <1>5 DEF k

\* Before the first command nothing is at work on any memory.
LEMMA NothingInUse == ASSUME NEW b, NEW M, NEW U, NEW ev, NEW en, NEW x
                      PROVE  ~StillUses(b, Known(M, U, ev, 0, en), x)
  BY DEF StillUses, Known

\* Something is released before the first command.
LEMMA LeadsRelease ==
  ASSUME NEW b, NEW M, NEW U, NEW ev, NEW en, Progress(ev, 0, en), M \subseteq U, U \subseteq Names, NEW x
  PROVE  Leads(b, Known(M, U, ev, 0, en), Release(x), Known(M \ {x}, U \ {x}, ev, 0, en))
  BY NothingInUse, LeadsReleaseFree

\* An array in its scope, before the first command.
LEMMA LeadsScoped ==
  ASSUME NEW b, NEW M, NEW N, NEW U, NEW ev, NEW en, Progress(ev, 0, en), M \subseteq U, N \subseteq U,
         NEW x, U \cup {x} \subseteq Names, x \notin U, NEW body,
         Leads(b, Known(M \cup {x}, U \cup {x}, ev, 0, en), body, Known(N \cup {x}, U \cup {x}, ev, 0, en))
  PROVE  Leads(b, Known(M, U, ev, 0, en), scoped_array(x, body), Known(N, U, ev, 0, en))
<1>1. Leads(b, Known(M, U, ev, 0, en), New(x), Known(M \cup {x}, U \cup {x}, ev, 0, en))
  BY LeadsNew
<1>2. Leads(b, Known(N \cup {x}, U \cup {x}, ev, 0, en), Release(x),
               Known((N \cup {x}) \ {x}, (U \cup {x}) \ {x}, ev, 0, en))
  <2>1. N \cup {x} \subseteq U \cup {x}
    OBVIOUS
  <2> QED BY <2>1, LeadsRelease
<1>3. (N \cup {x}) \ {x} = N /\ (U \cup {x}) \ {x} = U
  OBVIOUS
<1>4. Leads(b, Known(M, U, ev, 0, en), New(x) \o body, Known(N \cup {x}, U \cup {x}, ev, 0, en))
  BY <1>1, LeadsOn
<1>5. Leads(b, Known(M, U, ev, 0, en), (New(x) \o body) \o Release(x), Known(N, U, ev, 0, en))
  BY <1>2, <1>3, <1>4, LeadsOn
<1> QED BY <1>5 DEF scoped_array

-----------------------------------------------------------------------------
(***************************************************************************)
(* A call for each of several things.                                      *)
(***************************************************************************)

\* Calls that change nothing of what is known.
LEMMA LeadsSame ==
  ASSUME NEW b, NEW k \in Knowledge, NEW n \in Nat, NEW seqs, seqs = [i \in 1 .. n |-> seqs[i]],
         \A i \in 1 .. n : Leads(b, k, seqs[i], k)
  PROVE  Leads(b, k, FlattenSeq(seqs), k)
<1> DEFINE ks == [i \in 0 .. n |-> k]
<1>1. ks \in [0 .. n -> Knowledge] /\ ks[0] = k /\ ks[n] = k
  OBVIOUS
<1>2. \A i \in 1 .. n : Leads(b, ks[i - 1], seqs[i], ks[i])
  OBVIOUS
<1> HIDE DEF ks
<1>3. Leads(b, ks[0], FlattenSeq(seqs), ks[n])
  BY <1>1, <1>2, LeadsFlat
<1> QED BY <1>1, <1>3

\* Arrays that there may be already.
LEMMA LeadsNews ==
  ASSUME NEW b, NEW M, NEW U, NEW ev, NEW n, NEW en, Progress(ev, n, en), M \subseteq U, U \subseteq Names,
         NEW xs, Len(xs) \in Nat, \A i \in 1 .. Len(xs) : xs[i] \in U
  PROVE  Leads(b, Known(M, U, ev, n, en), Each(New, xs), Known(M, U, ev, n, en))
<1> DEFINE k == Known(M, U, ev, n, en)
           seqs == [i \in 1 .. Len(xs) |-> New(xs[i])]
<1>1. \A i \in 1 .. Len(xs) : Leads(b, k, seqs[i], k)
  BY LeadsNewInto
<1>2. k \in Knowledge /\ seqs = [i \in 1 .. Len(xs) |-> seqs[i]]
  BY KnownTyped
<1>3. Each(New, xs) = FlattenSeq(seqs)
  BY DEF Each
<1> HIDE DEF k, seqs
<1> QED BY <1>1, <1>2, <1>3, LeadsSame DEF k

\* Memory that there may be already.
LEMMA LeadsMemories ==
  ASSUME NEW b, NEW M, NEW U, NEW ev, NEW n, NEW en, Progress(ev, n, en), M \subseteq U, U \subseteq Names,
         NEW xs, Len(xs) \in Nat, \A i \in 1 .. Len(xs) : xs[i] \in U
  PROVE  Leads(b, Known(M, U, ev, n, en), Each(Memory, xs), Known(M, U, ev, n, en))
<1> DEFINE k == Known(M, U, ev, n, en)
           seqs == [i \in 1 .. Len(xs) |-> Memory(xs[i])]
<1>1. \A i \in 1 .. Len(xs) : Leads(b, k, seqs[i], k)
  BY LeadsMemory
<1>2. k \in Knowledge /\ seqs = [i \in 1 .. Len(xs) |-> seqs[i]]
  BY KnownTyped
<1>3. Each(Memory, xs) = FlattenSeq(seqs)
  BY DEF Each
<1> HIDE DEF k, seqs
<1> QED BY <1>1, <1>2, <1>3, LeadsSame DEF k

\* Results that have been read are shown.
LEMMA LeadsShows ==
  ASSUME NEW b, NEW M, NEW U, NEW ev, NEW n, NEW en, Progress(ev, n, en), M \subseteq U, U \subseteq Names,
         NEW xs, Len(xs) \in Nat, {"read_centers", "read_distortion"} \subseteq en
  PROVE  Leads(b, Known(M, U, ev, n, en), Each(Show, xs), Known(M, U, ev, n, en))
<1> DEFINE k == Known(M, U, ev, n, en)
           seqs == [i \in 1 .. Len(xs) |-> Show(xs[i])]
<1>1. \A i \in 1 .. Len(xs) : Leads(b, k, seqs[i], k)
  BY LeadsShow
<1>2. k \in Knowledge /\ seqs = [i \in 1 .. Len(xs) |-> seqs[i]]
  BY KnownTyped
<1>3. Each(Show, xs) = FlattenSeq(seqs)
  BY DEF Each
<1> HIDE DEF k, seqs
<1> QED BY <1>1, <1>2, <1>3, LeadsSame DEF k

\* The arguments of a kernel that there is.
LEMMA LeadsArguments ==
  ASSUME NEW b, NEW M, NEW U, NEW ev, NEW n, NEW en, Progress(ev, n, en), M \subseteq U, U \subseteq Cleans(b),
         NEW kernel \in M, NEW args, Len(args) \in Nat, \A i \in 1 .. Len(args) : args[i] \subseteq M
  PROVE  Leads(b, Known(M, U, ev, n, en), Arguments(kernel, args), Known(M, U, ev, n, en))
<1> DEFINE k == Known(M, U, ev, n, en)
           seqs == [i \in 1 .. Len(args) |-> _checkError("clSetKernelArg", {kernel} \cup args[i])]
<1>1. \A i \in 1 .. Len(args) : Leads(b, k, seqs[i], k)
  BY LeadsCheck
<1>2. k \in Knowledge /\ seqs = [i \in 1 .. Len(args) |-> seqs[i]]
  BY KnownTyped, CleansNames
<1>3. Arguments(kernel, args) = FlattenSeq(seqs)
  BY DEF Each, Arguments
<1> HIDE DEF k, seqs
<1> QED BY <1>1, <1>2, <1>3, LeadsSame DEF k

\* The first i of a sequence.
Firsts(xs, i) == {xs[j] : j \in 1 .. i}

\* One more of them.
LEMMA FirstsOn ==
  ASSUME NEW xs, NEW i \in Nat, i >= 1
  PROVE  Firsts(xs, i) = Firsts(xs, i - 1) \cup {xs[i]}
<1>1. \A j \in 1 .. i : j = i \/ j \in 1 .. i - 1
  OBVIOUS
<1>2. i \in 1 .. i /\ \A j \in 1 .. i - 1 : j \in 1 .. i
  OBVIOUS
<1> QED BY <1>1, <1>2 DEF Firsts

\* None of them.
LEMMA FirstsNone == ASSUME NEW xs PROVE Firsts(xs, 0) = {}
  BY DEF Firsts

\* OpenCL objects are created with one that there is.
LEMMA LeadsObjects ==
  ASSUME NEW b, NEW M, NEW U, NEW ev, NEW n, NEW en, Progress(ev, n, en), M \subseteq U, U \subseteq Cleans(b),
         NEW xs, Len(xs) \in Nat, \A i \in 1 .. Len(xs) : xs[i] \in U, NEW what \in M
  PROVE  Leads(b, Known(M, U, ev, n, en), Each(LAMBDA q : Object(q, {what}), xs),
                  Known(M \cup Firsts(xs, Len(xs)), U, ev, n, en))
<1> DEFINE ks == [i \in 0 .. Len(xs) |-> Known(M \cup Firsts(xs, i), U, ev, n, en)]
           seqs == [i \in 1 .. Len(xs) |-> Object(xs[i], {what})]
<1>1. \A i \in 0 .. Len(xs) : Firsts(xs, i) \subseteq U
  <2>1. \A i \in 0 .. Len(xs) : \A j \in 1 .. i : j \in 1 .. Len(xs)
    OBVIOUS
  <2> QED BY <2>1 DEF Firsts
<1>2. ASSUME NEW i \in 1 .. Len(xs) PROVE Leads(b, ks[i - 1], seqs[i], ks[i])
  <2> DEFINE N == M \cup Firsts(xs, i - 1)
  <2>1. (i - 1) \in 0 .. Len(xs) /\ i \in 0 .. Len(xs) /\ i \in Nat /\ i >= 1
    OBVIOUS
  <2>2. N \subseteq U /\ xs[i] \in U /\ {what} \subseteq N
    BY <1>1, <2>1
  <2>3. ks[i - 1] = Known(N, U, ev, n, en) /\ seqs[i] = Object(xs[i], {what})
    BY <2>1
  <2>4. ks[i] = Known(N \cup {xs[i]}, U, ev, n, en)
    <3>1. M \cup Firsts(xs, i) = N \cup {xs[i]}
      BY <2>1, FirstsOn
    <3> QED BY <3>1, <2>1
  <2> HIDE DEF N, ks, seqs
  <2>5. Leads(b, Known(N, U, ev, n, en), Object(xs[i], {what}), Known(N \cup {xs[i]}, U, ev, n, en))
    BY <2>2, LeadsObject
  <2> QED BY <2>3, <2>4, <2>5
<1>3. ks \in [0 .. Len(xs) -> Knowledge]
  <2>1. \A i \in 0 .. Len(xs) : ks[i] \in Knowledge
    BY <1>1, KnownTyped, CleansNames
  <2> QED BY <2>1
<1>4. seqs = [i \in 1 .. Len(xs) |-> seqs[i]] /\ Each(LAMBDA q : Object(q, {what}), xs) = FlattenSeq(seqs)
  BY DEF Each
<1>5. ks[0] = Known(M, U, ev, n, en) /\ ks[Len(xs)] = Known(M \cup Firsts(xs, Len(xs)), U, ev, n, en)
  <2>1. M \cup Firsts(xs, 0) = M
    BY FirstsNone
  <2>2. 0 \in 0 .. Len(xs) /\ Len(xs) \in 0 .. Len(xs)
    OBVIOUS
  <2> QED BY <2>1, <2>2
<1> HIDE DEF ks, seqs
<1> QED BY <1>2, <1>3, <1>4, <1>5, LeadsFlat

\* Releases of what no command works on.
LEMMA LeadsReleases ==
  ASSUME NEW b, NEW M, NEW U, NEW ev, NEW n, NEW en, Progress(ev, n, en), M \subseteq U, U \subseteq Names,
         NEW xs, Len(xs) \in Nat,
         \A i \in 1 .. Len(xs) : \A N, V : ~StillUses(b, Known(N, V, ev, n, en), xs[i])
  PROVE  Leads(b, Known(M, U, ev, n, en), Each(Release, xs),
                  Known(M \ Firsts(xs, Len(xs)), U \ Firsts(xs, Len(xs)), ev, n, en))
<1> DEFINE ks == [i \in 0 .. Len(xs) |-> Known(M \ Firsts(xs, i), U \ Firsts(xs, i), ev, n, en)]
           seqs == [i \in 1 .. Len(xs) |-> Release(xs[i])]
<1>2. ASSUME NEW i \in 1 .. Len(xs) PROVE Leads(b, ks[i - 1], seqs[i], ks[i])
  <2> DEFINE N == M \ Firsts(xs, i - 1)
             V == U \ Firsts(xs, i - 1)
  <2>1. (i - 1) \in 0 .. Len(xs) /\ i \in 0 .. Len(xs) /\ i \in Nat /\ i >= 1
    OBVIOUS
  <2>2. N \subseteq V /\ V \subseteq Names
    OBVIOUS
  <2>3. ks[i - 1] = Known(N, V, ev, n, en) /\ seqs[i] = Release(xs[i])
    BY <2>1
  <2>4. ks[i] = Known(N \ {xs[i]}, V \ {xs[i]}, ev, n, en)
    <3>1. M \ Firsts(xs, i) = N \ {xs[i]} /\ U \ Firsts(xs, i) = V \ {xs[i]}
      BY <2>1, FirstsOn
    <3> QED BY <3>1, <2>1
  <2> HIDE DEF N, V, ks, seqs
  <2>5. Leads(b, Known(N, V, ev, n, en), Release(xs[i]), Known(N \ {xs[i]}, V \ {xs[i]}, ev, n, en))
    BY <2>2, LeadsReleaseFree
  <2> QED BY <2>3, <2>4, <2>5
<1>3. ks \in [0 .. Len(xs) -> Knowledge]
  <2>1. ASSUME NEW i \in 0 .. Len(xs) PROVE ks[i] \in Knowledge
    <3>1. M \ Firsts(xs, i) \subseteq U \ Firsts(xs, i) /\ U \ Firsts(xs, i) \subseteq Names
      OBVIOUS
    <3> QED BY <3>1, KnownTyped
  <2> QED BY <2>1
<1>4. seqs = [i \in 1 .. Len(xs) |-> seqs[i]] /\ Each(Release, xs) = FlattenSeq(seqs)
  BY DEF Each
<1>5. ks[0] = Known(M, U, ev, n, en)
      /\ ks[Len(xs)] = Known(M \ Firsts(xs, Len(xs)), U \ Firsts(xs, Len(xs)), ev, n, en)
  <2>1. M \ Firsts(xs, 0) = M /\ U \ Firsts(xs, 0) = U
    BY FirstsNone
  <2>2. 0 \in 0 .. Len(xs) /\ Len(xs) \in 0 .. Len(xs)
    OBVIOUS
  <2> QED BY <2>1, <2>2
<1> HIDE DEF ks, seqs
<1> QED BY <1>2, <1>3, <1>4, <1>5, LeadsFlat

\* Events that are set are released one after the other.
LEMMA LeadsReleaseEvents ==
  ASSUME NEW b, NEW M, NEW U, NEW ev, NEW n, NEW en, Progress(ev, n, en), M \subseteq U, U \subseteq Names,
         NEW xs, Len(xs) \in Nat, \A i \in 1 .. Len(xs) : xs[i] \in EventVars /\ ev[xs[i]] # "none",
         \A i, j \in 1 .. Len(xs) : xs[i] = xs[j] => i = j
  PROVE  \E last : Progress(last, n, en)
                   /\ Leads(b, Known(M, U, ev, n, en), Each(ReleaseEvent, xs), Known(M, U, last, n, en))
<1> DEFINE at(i) == [e \in EventVars |-> IF e \in Firsts(xs, i) THEN "none" ELSE ev[e]]
           ks == [i \in 0 .. Len(xs) |-> Known(M, U, at(i), n, en)]
           seqs == [i \in 1 .. Len(xs) |-> ReleaseEvent(xs[i])]
<1>1. \A i \in 0 .. Len(xs) : Progress(at(i), n, en)
  BY DEF Progress
<1>2. ASSUME NEW i \in 1 .. Len(xs) PROVE Leads(b, ks[i - 1], seqs[i], ks[i])
  <2>1. (i - 1) \in 0 .. Len(xs) /\ i \in 0 .. Len(xs) /\ i \in Nat /\ i >= 1
    OBVIOUS
  <2>2. ks[i - 1] = Known(M, U, at(i - 1), n, en) /\ seqs[i] = ReleaseEvent(xs[i])
        /\ ks[i] = Known(M, U, at(i), n, en)
    BY <2>1
  <2>3. at(i - 1)[xs[i]] # "none"
    <3>1. xs[i] \notin Firsts(xs, i - 1)
      <4>1. \A j \in 1 .. i - 1 : j \in 1 .. Len(xs) /\ j # i
        OBVIOUS
      <4> QED BY <4>1 DEF Firsts
    <3> QED BY <3>1
  <2>4. at(i) = [at(i - 1) EXCEPT ![xs[i]] = "none"]
    <3>1. Firsts(xs, i) = Firsts(xs, i - 1) \cup {xs[i]}
      BY <2>1, FirstsOn
    <3> QED BY <3>1
  <2>5. Progress(at(i - 1), n, en) /\ xs[i] \in EventVars
    BY <1>1, <2>1
  <2> HIDE DEF ks, seqs, at
  <2>6. Leads(b, Known(M, U, at(i - 1), n, en), ReleaseEvent(xs[i]),
                 Known(M, U, [at(i - 1) EXCEPT ![xs[i]] = "none"], n, en))
    BY <2>3, <2>5, LeadsReleaseEvent
  <2> QED BY <2>2, <2>4, <2>6
<1>3. ks \in [0 .. Len(xs) -> Knowledge]
  <2> HIDE DEF at
  <2>1. \A i \in 0 .. Len(xs) : ks[i] \in Knowledge
    BY <1>1, KnownTyped
  <2> QED BY <2>1
<1>4. seqs = [i \in 1 .. Len(xs) |-> seqs[i]] /\ Each(ReleaseEvent, xs) = FlattenSeq(seqs)
  BY DEF Each
<1>5. ks[0] = Known(M, U, ev, n, en) /\ ks[Len(xs)] = Known(M, U, at(Len(xs)), n, en)
  <2>1. at(0) = ev
    BY FirstsNone DEF Progress
  <2> QED BY <2>1
<1>6. Progress(at(Len(xs)), n, en)
  <2> HIDE DEF at
  <2> QED BY <1>1
<1> HIDE DEF ks, seqs, at
<1>7. Leads(b, ks[0], FlattenSeq(seqs), ks[Len(xs)])
  BY <1>2, <1>3, <1>4, LeadsFlat
<1> QED BY <1>4, <1>5, <1>6, <1>7

-----------------------------------------------------------------------------
(***************************************************************************)
(* What the two programs have in common.                                   *)
(***************************************************************************)

\* What there may be between the calls of main.
Local   == InScope \cup {"local program"}
\* What there may be of the program b outside init_opencl.
Base(b) == Cleans(b) \ Local

\* What there may be beside the local names holds what init_opencl creates.
LEMMA BaseIs ==
  ASSUME NEW b
  PROVE  /\ Base(b) \subseteq Cleans(b) /\ Arrays \subseteq Base(b) /\ Base(b) \cup Local \subseteq Cleans(b)
         /\ {"aocx file", "context", "program", "queue0", "queue1", "kernel0", "kernel1"} \subseteq Base(b)
         /\ \A x \in Local : x \notin Base(b)
<1>1. \A x \in Local : x \in Cleans(b)
  BY DEF Local, Cleans, Names, InScope, Objects
<1>2. Arrays \subseteq Cleans(b) /\ Arrays \cap Local = {}
  BY DEF Local, Cleans, Names, InScope, Arrays
<1>3. {"aocx file", "context", "program", "queue0", "queue1", "kernel0", "kernel1"} \subseteq Cleans(b) \ Local
  BY DEF Local, Cleans, Names, InScope, Objects, Files
<1> QED BY <1>1, <1>2, <1>3 DEF Base

\* The names, one by one.
LEMMA LocalIs == Local = {"name", "pids", "devices", "binary", "binaries", "local program"}
  BY DEF Local, InScope

\* Three pieces one after the other.
LEMMA LeadsOn3 ==
  ASSUME NEW b, NEW k1, NEW k2, NEW k3, NEW k4, NEW p1, NEW p2, NEW p3,
         Leads(b, k1, p1, k2), Leads(b, k2, p2, k3), Leads(b, k3, p3, k4)
  PROVE  Leads(b, k1, (p1 \o p2) \o p3, k4)
<1>1. Leads(b, k1, p1 \o p2, k3)
  BY LeadsOn
<1> QED BY <1>1, LeadsOn

\* Four pieces one after the other.
LEMMA LeadsOn4 ==
  ASSUME NEW b, NEW k1, NEW k2, NEW k3, NEW k4, NEW k5, NEW p1, NEW p2, NEW p3, NEW p4,
         Leads(b, k1, p1, k2), Leads(b, k2, p2, k3), Leads(b, k3, p3, k4), Leads(b, k4, p4, k5)
  PROVE  Leads(b, k1, ((p1 \o p2) \o p3) \o p4, k5)
<1>1. Leads(b, k1, (p1 \o p2) \o p3, k4)
  BY LeadsOn3
<1> QED BY <1>1, LeadsOn

\* The options and the files: nothing but the arrays is there when main returns.
LEMMA LeadsReadInputs ==
  ASSUME NEW b, NEW ev, NEW en, Progress(ev, 0, en), NEW s
  PROVE  Leads(b, Known({}, Arrays, ev, 0, en), ReadInputs(s), Known({}, Arrays, ev, 0, en))
<1> DEFINE k == Known({}, Arrays, ev, 0, en)
           f == "centres file"
<1>1. {} \subseteq Arrays /\ Arrays \subseteq Names /\ f \in Names /\ f \notin Arrays
  BY DEF Names, Arrays, Files
<1>2. k \in Knowledge
  BY <1>1, KnownTyped
<1>3. Leads(b, k, addFromCommandLine(s), k)
  <2>1. Leads(b, k, Call("fails", "errorNameless", {}, "exit"), k)
    BY <1>1, <1>2, LeadsFails
  <2>2. Leads(b, k, <<>>, k)
    BY <1>2, LeadsNone
  <2> QED BY <2>1, <2>2 DEF addFromCommandLine
<1>4. Leads(b, k, Each(New, <<"data_points", "index_arr", "cntr_idx">>), k)
  <2> DEFINE xs == <<"data_points", "index_arr", "cntr_idx">>
  <2>1. Len(xs) \in Nat /\ \A i \in 1 .. Len(xs) : xs[i] \in Arrays
    BY DEF Arrays
  <2> HIDE DEF xs
  <2>2. Leads(b, k, Each(New, xs), k)
    BY <1>1, <2>1, LeadsNews
  <2> QED BY <2>2 DEF xs
<1>5. Leads(b, k, Return("read_data_points"), k)
  BY <1>1, LeadsReturn
<1>6. Leads(b, k, read_initial_centres(s), k)
  <2>1. Leads(b, k, Call("create", f, {}, "return"), Known({}, Arrays \cup {f}, ev, 0, en))
    <3>1. Arrays \cup {f} \subseteq Names
      BY <1>1
    <3> QED BY <1>1, <3>1, LeadsOpen
  <2>2. Leads(b, Known({}, Arrays \cup {f}, ev, 0, en), Release(f), k)
    <3>1. {} \subseteq Arrays \cup {f} /\ Arrays \cup {f} \subseteq Names /\ {} \ {f} = {}
          /\ (Arrays \cup {f}) \ {f} = Arrays
      BY <1>1
    <3>2. Leads(b, Known({}, Arrays \cup {f}, ev, 0, en), Release(f),
                Known({} \ {f}, (Arrays \cup {f}) \ {f}, ev, 0, en))
      BY <3>1, LeadsRelease
    <3> QED BY <3>1, <3>2
  <2>3. Leads(b, k, IF s.centres = "short" THEN Call("fails", "fgets", {}, "return") ELSE <<>>, k)
    <3>1. Leads(b, k, Call("fails", "fgets", {}, "return"), k)
      BY <1>1, <1>2, LeadsFails
    <3>2. Leads(b, k, <<>>, k)
      BY <1>2, LeadsNone
    <3> QED BY <3>1, <3>2
  <2> HIDE DEF k
  <2> QED BY <2>1, <2>2, <2>3, LeadsOn3 DEF read_initial_centres
<1> HIDE DEF k
<1>7. Leads(b, k, ReadInputs(s), k)
  BY <1>3, <1>4, <1>5, <1>6, LeadsOn4 DEF ReadInputs
<1> QED BY <1>7 DEF k

\* getPlatformName gives its local array back.
LEMMA LeadsPlatformName ==
  ASSUME NEW b, NEW M, NEW U, NEW ev, NEW en, Progress(ev, 0, en), M \subseteq U,
         U \cup {"name"} \subseteq Cleans(b), "name" \notin U
  PROVE  Leads(b, Known(M, U, ev, 0, en), getPlatformName, Known(M, U, ev, 0, en))
<1>1. U \subseteq Cleans(b) /\ U \cup {"name"} \subseteq Names /\ {} \subseteq M
  BY CleansNames
<1>2. Leads(b, Known(M, U, ev, 0, en), _checkError("clGetPlatformInfo", {}), Known(M, U, ev, 0, en))
  BY <1>1, LeadsCheck
<1> DEFINE N == M \cup {"name"}
           V == U \cup {"name"}
<1>3. Leads(b, Known(N, V, ev, 0, en), _checkError("clGetPlatformInfo", {"name"}), Known(N, V, ev, 0, en))
  <2>1. N \subseteq V /\ V \subseteq Cleans(b) /\ {"name"} \subseteq N
    OBVIOUS
  <2> HIDE DEF N, V
  <2> QED BY <2>1, LeadsCheck
<1>4. Leads(b, Known(M, U, ev, 0, en), scoped_array("name", _checkError("clGetPlatformInfo", {"name"})),
               Known(M, U, ev, 0, en))
  BY <1>1, <1>3, LeadsScoped
<1> QED BY <1>2, <1>4, LeadsOn DEF getPlatformName

\* getDeviceName gives its local array back.
LEMMA LeadsDeviceName ==
  ASSUME NEW b, NEW M, NEW U, NEW ev, NEW en, Progress(ev, 0, en), M \subseteq U,
         U \cup {"name"} \subseteq Cleans(b), "name" \notin U
  PROVE  Leads(b, Known(M, U, ev, 0, en), getDeviceName, Known(M, U, ev, 0, en))
<1>1. U \subseteq Cleans(b) /\ U \cup {"name"} \subseteq Names /\ {} \subseteq M
  BY CleansNames
<1>2. Leads(b, Known(M, U, ev, 0, en), _checkError("clGetDeviceInfo", {}), Known(M, U, ev, 0, en))
  BY <1>1, LeadsCheck
<1> DEFINE N == M \cup {"name"}
           V == U \cup {"name"}
<1>3. Leads(b, Known(N, V, ev, 0, en), _checkError("clGetDeviceInfo", {"name"}), Known(N, V, ev, 0, en))
  <2>1. N \subseteq V /\ V \subseteq Cleans(b) /\ {"name"} \subseteq N
    OBVIOUS
  <2> HIDE DEF N, V
  <2> QED BY <2>1, LeadsCheck
<1>4. Leads(b, Known(M, U, ev, 0, en), scoped_array("name", _checkError("clGetDeviceInfo", {"name"})),
               Known(M, U, ev, 0, en))
  BY <1>1, <1>3, LeadsScoped
<1> QED BY <1>2, <1>4, LeadsOn DEF getDeviceName

\* The platforms are looked at before there is anything to clean up.
LEMMA LeadsFindPlatform ==
  ASSUME NEW b, NEW ev, NEW en, Progress(ev, 0, en), NEW s \in Settings
  PROVE  Leads(b, Known({}, Arrays, ev, 0, en), findPlatform(s), Known({}, Arrays, ev, 0, en))
<1> DEFINE k == Known({}, Arrays, ev, 0, en)
           P == {"pids"}
           U == Arrays \cup {"pids"}
           n == IF s.platform = 0 THEN NumPlatforms ELSE s.platform
<1>1. /\ Arrays \subseteq Cleans(b) /\ U \subseteq Cleans(b) /\ U \cup {"name"} \subseteq Cleans(b)
      /\ "name" \notin U /\ P \subseteq U /\ "pids" \notin Arrays
  <2>1. Arrays \cup Local \subseteq Cleans(b) /\ \A x \in Local : x \notin Arrays
    BY BaseIs
  <2> QED BY <2>1, LocalIs
<1>2. k \in Knowledge /\ U \subseteq Names
  BY <1>1, CleansNames, KnownTyped
<1>3. n \in Nat
  BY PlatformsAssumption DEF Settings
<1>4. Leads(b, k, _checkError("clGetPlatformIDs", {}), k)
  BY <1>1, LeadsCheck
<1>5. Leads(b, k, scoped_array("pids", _checkError("clGetPlatformIDs", {"pids"}) \o Repeat(n, getPlatformName)), k)
  <2> DEFINE l == Known(P, U, ev, 0, en)
  <2> HIDE DEF n, U
  <2>1. Leads(b, l, _checkError("clGetPlatformIDs", {"pids"}), l)
    BY <1>1, LeadsCheck
  <2>2. l \in Knowledge
    BY <1>1, <1>2, KnownTyped
  <2>3. Leads(b, l, getPlatformName, l)
    BY <1>1, LeadsPlatformName
  <2>4. Leads(b, l, Repeat(n, getPlatformName), l)
    <3> HIDE DEF l
    <3> QED BY <1>3, <2>2, <2>3, LeadsRepeat
  <2>5. Leads(b, l, _checkError("clGetPlatformIDs", {"pids"}) \o Repeat(n, getPlatformName), l)
    <3> HIDE DEF l
    <3> QED BY <2>1, <2>4, LeadsOn
  <2>6. l = Known({} \cup {"pids"}, Arrays \cup {"pids"}, ev, 0, en)
    BY DEF U
  <2>7. {} \subseteq Arrays /\ Arrays \cup {"pids"} \subseteq Names
    BY <1>2 DEF U
  <2> DEFINE body == _checkError("clGetPlatformIDs", {"pids"}) \o Repeat(n, getPlatformName)
  <2>8. Leads(b, Known({} \cup {"pids"}, Arrays \cup {"pids"}, ev, 0, en), body,
                 Known({} \cup {"pids"}, Arrays \cup {"pids"}, ev, 0, en))
    BY <2>5, <2>6
  <2> HIDE DEF l, body
  <2>9. Leads(b, k, scoped_array("pids", body), k)
    BY <1>1, <2>7, <2>8, LeadsScoped
  <2> QED BY <2>9 DEF body
<1>6. Leads(b, k, IF s.platform = 0 THEN Call("fails", "findPlatform", {}, "return") ELSE <<>>, k)
  <2>1. Leads(b, k, Call("fails", "findPlatform", {}, "return"), k)
    BY <1>1, <1>2, CleansNames, LeadsFails
  <2>2. Leads(b, k, <<>>, k)
    BY <1>2, LeadsNone
  <2> QED BY <2>1, <2>2
<1> HIDE DEF k, U
<1>7. Leads(b, k, findPlatform(s), k)
  BY <1>4, <1>5, <1>6, LeadsOn3 DEF findPlatform
<1> QED BY <1>7 DEF k

\* The array of devices is the caller's; from here on main has cleanup called.
LEMMA LeadsGetDevices ==
  ASSUME NEW b, NEW ev, NEW en, Progress(ev, 0, en)
  PROVE  Leads(b, Known({}, Arrays, ev, 0, en), getDevices,
                  Known({"devices"}, Base(b) \cup {"devices"}, ev, 0, en))
<1> DEFINE D == Base(b) \cup {"devices"}
<1>1. Arrays \subseteq Base(b) /\ Base(b) \subseteq Cleans(b) /\ D \subseteq Cleans(b) /\ {} \subseteq Arrays
  <2>1. Base(b) \cup Local \subseteq Cleans(b) /\ Arrays \subseteq Base(b)
    BY BaseIs
  <2> QED BY <2>1, LocalIs
<1>2. Base(b) \subseteq Names /\ D \subseteq Names
  BY <1>1, CleansNames
<1>3. Leads(b, Known({}, Arrays, ev, 0, en), _checkError("clGetDeviceIDs", {}), Known({}, Base(b), ev, 0, en))
  <2>1. Arrays \subseteq Cleans(b)
    BY <1>1
  <2> QED BY <1>1, <1>2, <2>1, LeadsCheckInto
<1>4. Leads(b, Known({}, Base(b), ev, 0, en), New("devices"), Known({"devices"}, D, ev, 0, en))
  <2>1. {} \cup {"devices"} = {"devices"} /\ {} \subseteq Base(b)
    OBVIOUS
  <2>2. Leads(b, Known({}, Base(b), ev, 0, en), New("devices"), Known({} \cup {"devices"}, D, ev, 0, en))
    BY <1>2, <2>1, LeadsNew
  <2> QED BY <2>1, <2>2
<1>5. Leads(b, Known({"devices"}, D, ev, 0, en), _checkError("clGetDeviceIDs", {"devices"}),
            Known({"devices"}, D, ev, 0, en))
  <2>1. {"devices"} \subseteq D
    OBVIOUS
  <2> HIDE DEF D
  <2> QED BY <1>1, <2>1, LeadsCheck
<1> HIDE DEF D
<1>6. Leads(b, Known({}, Arrays, ev, 0, en), getDevices, Known({"devices"}, D, ev, 0, en))
  BY <1>3, <1>4, <1>5, LeadsOn3 DEF getDevices
<1> QED BY <1>6 DEF D

\* The file may stay open; the program is kept, and nothing else.
LEMMA LeadsCreateProgram ==
  ASSUME NEW b, NEW ev, NEW en, Progress(ev, 0, en), NEW s
  PROVE  Leads(b, Known({"devices", "context"}, Base(b) \cup {"devices"}, ev, 0, en), createProgramFromBinary(s),
                  Known({"devices", "context", "program"}, Base(b) \cup {"devices"}, ev, 0, en))
<1> DEFINE B == Base(b)
           D == B \cup {"devices"}
           L == D \cup {"local program"}
           W == L \cup {"binary"}
           M == {"devices", "context"}
           N == {"devices", "context", "binary"}
           O == {"devices", "context", "binary", "local program"}
           Q == {"devices", "context", "local program"}
           P == {"devices", "context", "program"}
           file == "aocx file"
           m == Known(P, D, ev, 0, en)
<1>0. /\ {file, "context", "program"} \subseteq B /\ B \cup Local \subseteq Cleans(b)
      /\ \A x \in Local : x \notin B
  BY BaseIs
<1>1. /\ M \subseteq D /\ M \subseteq L /\ N \subseteq W /\ O \subseteq W /\ Q \subseteq L /\ P \subseteq D
         /\ file \in L
      /\ D \subseteq L /\ D \subseteq Cleans(b) /\ L \subseteq Cleans(b) /\ W \subseteq Cleans(b)
      /\ W \cup {"binaries"} \subseteq Cleans(b) /\ "binaries" \notin W
      /\ "local program" \in W
  <2> HIDE DEF B
  <2> QED BY <1>0, LocalIs
<1>2. /\ L \cup {"binary"} = W /\ M \cup {"binary"} = N /\ N \cup {"local program"} = O
      /\ W \ {"binary"} = L /\ O \ {"binary"} = Q
      /\ (Q \ {"local program"}) \cup {"program"} = P /\ (L \ {"local program"}) \cup {"program"} = D
  <2> HIDE DEF B
  <2> QED BY <1>0, LocalIs
<1>3. D \subseteq Names /\ L \subseteq Names /\ W \subseteq Names /\ W \cup {"binaries"} \subseteq Names
  BY <1>1, CleansNames
<1> HIDE DEF B, D, L, W, M, N, O, Q, P
<1>4. m \in Knowledge
  BY <1>1, <1>3, KnownTyped
<1>5. Leads(b, Known(M, D, ev, 0, en), Call("fails", "fileExists", {}, "cleanup"), m)
  BY <1>1, <1>3, <1>4, LeadsFails
<1>6. Leads(b, Known(M, D, ev, 0, en), Call("create", file, {}, "cleanup"), Known(M, L, ev, 0, en))
  BY <1>1, <1>3, LeadsOpenClean
<1>7. Leads(b, Known(M, L, ev, 0, en), New("binary"), Known(N, W, ev, 0, en))
  <2>1. L \cup {"binary"} \subseteq Names
    BY <1>2, <1>3
  <2>2. Leads(b, Known(M, L, ev, 0, en), New("binary"), Known(M \cup {"binary"}, L \cup {"binary"}, ev, 0, en))
    BY <1>1, <1>3, <2>1, LeadsNew
  <2> QED BY <1>2, <2>2
<1>8. Leads(b, Known(N, W, ev, 0, en), Release("binary") \o Release(file) \o Call("fails", "fread", {}, "cleanup"),
            Known(N, W, ev, 0, en))
  <2> DEFINE N1 == N \ {"binary"}
             W1 == W \ {"binary"}
             N2 == N1 \ {file}
             W2 == W1 \ {file}
  <2>1. /\ N1 \subseteq W1 /\ W1 \subseteq Names /\ N2 \subseteq W2 /\ W2 \subseteq Names
           /\ W2 \subseteq Cleans(b)
    BY <1>1, <1>3
  <2>2. Leads(b, Known(N, W, ev, 0, en), Release("binary"), Known(N1, W1, ev, 0, en))
    BY <1>1, <1>3, LeadsRelease
  <2> HIDE DEF N1, W1
  <2>3. Leads(b, Known(N1, W1, ev, 0, en), Release(file), Known(N2, W2, ev, 0, en))
    BY <2>1, LeadsRelease
  <2> HIDE DEF N2, W2
  <2>4. Known(N, W, ev, 0, en) \in Knowledge
    BY <1>1, <1>3, KnownTyped
  <2>5. Leads(b, Known(N2, W2, ev, 0, en), Call("fails", "fread", {}, "cleanup"), Known(N, W, ev, 0, en))
    BY <2>1, <2>4, LeadsFails
  <2> QED BY <2>2, <2>3, <2>5, LeadsOn3
<1>9. Leads(b, Known(N, W, ev, 0, en),
            IF s.readable THEN <<>>
            ELSE Release("binary") \o Release(file) \o Call("fails", "fread", {}, "cleanup"),
            Known(N, W, ev, 0, en))
  <2>1. Known(N, W, ev, 0, en) \in Knowledge
    BY <1>1, <1>3, KnownTyped
  <2>2. Leads(b, Known(N, W, ev, 0, en), <<>>, Known(N, W, ev, 0, en))
    BY <2>1, LeadsNone
  <2> QED BY <1>8, <2>2
<1>10. Leads(b, Known(M, D, ev, 0, en), loadBinaryFile(s), Known(N, W, ev, 0, en))
  BY <1>6, <1>7, <1>9, LeadsOn3 DEF loadBinaryFile
<1>11. Leads(b, Known(N, W, ev, 0, en),
              scoped_array("binaries", Object("local program", {"context", "binary"}) \o _checkError("binary_status", {})),
              Known(O, W, ev, 0, en))
  <2> DEFINE V == W \cup {"binaries"}
             body == Object("local program", {"context", "binary"}) \o _checkError("binary_status", {})
  <2>1. /\ N \cup {"binaries"} \subseteq V /\ O \cup {"binaries"} \subseteq V /\ V \subseteq Cleans(b)
           /\ "local program" \in V
        /\ {"context", "binary"} \subseteq N \cup {"binaries"} /\ {} \subseteq O \cup {"binaries"}
        /\ (N \cup {"binaries"}) \cup {"local program"} = O \cup {"binaries"}
    BY <1>1 DEF N, O
  <2> DEFINE N1 == N \cup {"binaries"}
             O1 == O \cup {"binaries"}
  <2>2. Leads(b, Known(N1, V, ev, 0, en), Object("local program", {"context", "binary"}),
              Known(O1, V, ev, 0, en))
    <3>1. O1 = N1 \cup {"local program"} /\ N1 \subseteq V /\ V \subseteq Cleans(b) /\ "local program" \in V
          /\ {"context", "binary"} \subseteq N1
      BY <2>1
    <3> HIDE DEF N1, O1, V
    <3>2. Leads(b, Known(N1, V, ev, 0, en), Object("local program", {"context", "binary"}),
                Known(N1 \cup {"local program"}, V, ev, 0, en))
      BY <3>1, LeadsObject
    <3> QED BY <3>1, <3>2
  <2>3. Leads(b, Known(O1, V, ev, 0, en), _checkError("binary_status", {}), Known(O1, V, ev, 0, en))
    <3>1. {} \subseteq O1 /\ O1 \subseteq V /\ V \subseteq Cleans(b)
      BY <2>1
    <3> HIDE DEF O1, V
    <3> QED BY <3>1, LeadsCheck
  <2>4. Leads(b, Known(N1, V, ev, 0, en), body, Known(O1, V, ev, 0, en))
    <3> HIDE DEF O1, V, N1
    <3> QED BY <2>2, <2>3, LeadsOn
  <2> HIDE DEF body
  <2> QED BY <1>1, <1>3, <2>4, LeadsScoped DEF body
<1>12. Leads(b, Known(O, W, ev, 0, en), Release("binary"), Known(Q, L, ev, 0, en))
  <2>1. Leads(b, Known(O, W, ev, 0, en), Release("binary"), Known(O \ {"binary"}, W \ {"binary"}, ev, 0, en))
    BY <1>1, <1>3, LeadsRelease
  <2> QED BY <1>2, <2>1
<1>13. Leads(b, Known(Q, L, ev, 0, en), Call("assign", "program", {"local program"}, "never"), m)
  <2>1. "local program" \in Q /\ "program" \in L
    BY <1>0, <1>1 DEF Q, L, D
  <2>2. Leads(b, Known(Q, L, ev, 0, en), Call("assign", "program", {"local program"}, "never"),
            Known((Q \ {"local program"}) \cup {"program"}, (L \ {"local program"}) \cup {"program"}, ev, 0, en))
    BY <1>1, <1>3, <2>1, LeadsAssign
  <2> QED BY <1>2, <2>2
<1> HIDE DEF m
<1>14. Leads(b, Known(M, D, ev, 0, en), createProgramFromBinary(s), m)
  <2>1. Leads(b, Known(M, D, ev, 0, en), loadBinaryFile(s)
         \o scoped_array("binaries",
              Object("local program", {"context", "binary"}) \o _checkError("binary_status", {}))
         \o Release("binary") \o Call("assign", "program", {"local program"}, "never"), m)
    BY <1>10, <1>11, <1>12, <1>13, LeadsOn4
  <2> QED BY <1>5, <2>1 DEF createProgramFromBinary
<1> QED BY <1>14 DEF m, M, P, D, B

\* What init_opencl opens.
Opened == {"context", "program", "queue0", "queue1", "kernel0", "kernel1"}

\* init_opencl leaves the context, the program, the queues and the kernels behind.
LEMMA LeadsInit ==
  ASSUME NEW b, NEW ev, NEW en, Progress(ev, 0, en), NEW s \in Settings
  PROVE  Leads(b, Known({}, Arrays, ev, 0, en), init_opencl(s), Known(Opened, Base(b), ev, 0, en))
<1> DEFINE k == Known({}, Arrays, ev, 0, en)
           D == Base(b) \cup {"devices"}
           M0 == {"devices"}
           M1 == {"devices", "context"}
           M2 == {"devices", "context", "program"}
           M3 == {"devices", "context", "program", "queue0", "queue1"}
           M4 == {"devices", "context", "program", "queue0", "queue1", "kernel0", "kernel1"}
<1>1. /\ {"context", "program", "queue0", "queue1", "kernel0", "kernel1"} \subseteq Base(b)
      /\ Base(b) \cup Local \subseteq Cleans(b) /\ \A x \in Local : x \notin Base(b)
      /\ Arrays \subseteq Cleans(b) /\ Base(b) \subseteq Cleans(b)
  BY BaseIs
<1>2. /\ D \subseteq Cleans(b) /\ D \cup {"name"} \subseteq Cleans(b) /\ "name" \notin D
      /\ M0 \subseteq D /\ M1 \subseteq D /\ M2 \subseteq D /\ M3 \subseteq D /\ M4 \subseteq D
      /\ D \ {"devices"} = Base(b)
  BY <1>1, LocalIs
<1>3. D \subseteq Names /\ Base(b) \subseteq Names /\ Arrays \subseteq Names /\ {} \subseteq Arrays
  BY <1>1, <1>2, CleansNames
<1>4. Leads(b, k, setCwdToExeDir, k)
  BY <1>3, LeadsReturn DEF setCwdToExeDir
<1>5. Leads(b, k, findPlatform(s), k)
  BY LeadsFindPlatform
<1>6. Leads(b, k, getDevices, Known(M0, D, ev, 0, en))
  BY LeadsGetDevices
<1>7. Leads(b, Known(M0, D, ev, 0, en), getPlatformName, Known(M0, D, ev, 0, en))
  <2> HIDE DEF M0, D
  <2> QED BY <1>2, LeadsPlatformName
<1>8. Leads(b, Known(M0, D, ev, 0, en), getDeviceName, Known(M0, D, ev, 0, en))
  <2> HIDE DEF M0, D
  <2> QED BY <1>2, LeadsDeviceName
<1>9. Leads(b, Known(M0, D, ev, 0, en), Object("context", {"devices"}), Known(M1, D, ev, 0, en))
  <2>1. "context" \in D /\ {"devices"} \subseteq M0 /\ M0 \cup {"context"} = M1
    BY <1>1
  <2> HIDE DEF M0, M1, D
  <2> QED BY <1>2, <2>1, LeadsObject
<1>10. Leads(b, Known(M1, D, ev, 0, en), getBoardBinaryFile(s), Known(M1, D, ev, 0, en))
  <2> HIDE DEF M1, D
  <2>1. Known(M1, D, ev, 0, en) \in Knowledge
    BY <1>2, <1>3, KnownTyped
  <2>2. Leads(b, Known(M1, D, ev, 0, en), <<>>, Known(M1, D, ev, 0, en))
    BY <2>1, LeadsNone
  <2>3. Leads(b, Known(M1, D, ev, 0, en), getDeviceName, Known(M1, D, ev, 0, en))
    BY <1>2, LeadsDeviceName
  <2> QED BY <2>2, <2>3 DEF getBoardBinaryFile
<1>11. Leads(b, Known(M1, D, ev, 0, en), createProgramFromBinary(s), Known(M2, D, ev, 0, en))
  BY LeadsCreateProgram
<1>12. Leads(b, Known(M2, D, ev, 0, en), _checkError("clBuildProgram", {"program"}), Known(M2, D, ev, 0, en))
  <2>1. {"program"} \subseteq M2
    OBVIOUS
  <2> HIDE DEF M2, D
  <2> QED BY <1>2, <2>1, LeadsCheck
<1>13. Leads(b, Known(M2, D, ev, 0, en), Each(LAMBDA q : Object(q, {"context"}), <<"queue0", "queue1">>),
             Known(M3, D, ev, 0, en))
  <2> DEFINE xs == <<"queue0", "queue1">>
  <2>1. Len(xs) \in Nat /\ (\A i \in 1 .. Len(xs) : xs[i] \in D) /\ "context" \in M2
    BY <1>1
  <2>2. M2 \cup Firsts(xs, Len(xs)) = M3
    BY DEF Firsts
  <2> HIDE DEF xs, M2, M3, D
  <2>3. Leads(b, Known(M2, D, ev, 0, en), Each(LAMBDA q : Object(q, {"context"}), xs),
              Known(M2 \cup Firsts(xs, Len(xs)), D, ev, 0, en))
    BY <1>2, <2>1, LeadsObjects
  <2> QED BY <2>2, <2>3 DEF xs
<1>14. Leads(b, Known(M3, D, ev, 0, en), Each(LAMBDA q : Object(q, {"program"}), <<"kernel0", "kernel1">>),
             Known(M4, D, ev, 0, en))
  <2> DEFINE xs == <<"kernel0", "kernel1">>
  <2>1. Len(xs) \in Nat /\ (\A i \in 1 .. Len(xs) : xs[i] \in D) /\ "program" \in M3
    BY <1>1
  <2>2. M3 \cup Firsts(xs, Len(xs)) = M4
    BY DEF Firsts
  <2> HIDE DEF xs, M3, M4, D
  <2>3. Leads(b, Known(M3, D, ev, 0, en), Each(LAMBDA q : Object(q, {"program"}), xs),
              Known(M3 \cup Firsts(xs, Len(xs)), D, ev, 0, en))
    BY <1>2, <2>1, LeadsObjects
  <2> QED BY <2>2, <2>3 DEF xs
<1>15. Leads(b, Known(M4, D, ev, 0, en), Release("devices"), Known(Opened, Base(b), ev, 0, en))
  <2>1. M4 \ {"devices"} = Opened
    BY DEF Opened
  <2> HIDE DEF M4, D
  <2>2. Leads(b, Known(M4, D, ev, 0, en), Release("devices"),
              Known(M4 \ {"devices"}, D \ {"devices"}, ev, 0, en))
    BY <1>2, <1>3, LeadsRelease
  <2> QED BY <1>2, <2>1, <2>2
<1> DEFINE l == Known(Opened, Base(b), ev, 0, en)
<1> HIDE DEF k, l, M0, M1, M2, M3, M4, D
<1>16. Leads(b, k, setCwdToExeDir \o findPlatform(s) \o getDevices \o getPlatformName, Known(M0, D, ev, 0, en))
  BY <1>4, <1>5, <1>6, <1>7, LeadsOn4
<1>17. Leads(b, k, setCwdToExeDir \o findPlatform(s) \o getDevices \o getPlatformName \o getDeviceName
                    \o Object("context", {"devices"}) \o getBoardBinaryFile(s), Known(M1, D, ev, 0, en))
  BY <1>16, <1>8, <1>9, <1>10, LeadsOn4
<1>18. Leads(b, k, setCwdToExeDir \o findPlatform(s) \o getDevices \o getPlatformName \o getDeviceName
                    \o Object("context", {"devices"}) \o getBoardBinaryFile(s) \o createProgramFromBinary(s)
                    \o _checkError("clBuildProgram", {"program"})
                    \o Each(LAMBDA q : Object(q, {"context"}), <<"queue0", "queue1">>), Known(M3, D, ev, 0, en))
  BY <1>17, <1>11, <1>12, <1>13, LeadsOn4
<1>19. Leads(b, k, init_opencl(s), l)
  BY <1>18, <1>14, <1>15, LeadsOn3 DEF init_opencl, l
<1> QED BY <1>19 DEF k, l

\* Commands are waited for one after the other.
LEMMA LeadsWaits ==
  ASSUME NEW b, NEW M, NEW U, NEW ev, NEW n, NEW ens, M \subseteq U, U \subseteq Names,
         NEW xs, Len(xs) \in Nat, \A i \in 0 .. Len(xs) : Progress(ev, n, ens[i]),
         \A i \in 1 .. Len(xs) : ev[xs[i]] # "none"
           /\ ens[i] \subseteq ens[i - 1] \cup EndedWith(b, Known(M, U, ev, n, ens[i - 1]), ev[xs[i]])
  PROVE  Leads(b, Known(M, U, ev, n, ens[0]), Each(Wait, xs), Known(M, U, ev, n, ens[Len(xs)]))
<1> DEFINE ks == [i \in 0 .. Len(xs) |-> Known(M, U, ev, n, ens[i])]
           seqs == [i \in 1 .. Len(xs) |-> Wait(xs[i])]
<1>1. ASSUME NEW i \in 1 .. Len(xs) PROVE Leads(b, ks[i - 1], seqs[i], ks[i])
  <2>1. (i - 1) \in 0 .. Len(xs) /\ i \in 0 .. Len(xs)
    OBVIOUS
  <2>2. ks[i - 1] = Known(M, U, ev, n, ens[i - 1]) /\ seqs[i] = Wait(xs[i])
        /\ ks[i] = Known(M, U, ev, n, ens[i])
    BY <2>1
  <2>3. Progress(ev, n, ens[i - 1]) /\ ens[i] \subseteq Commands
    BY <2>1 DEF Progress
  <2> HIDE DEF ks, seqs
  <2>4. Leads(b, Known(M, U, ev, n, ens[i - 1]), Wait(xs[i]), Known(M, U, ev, n, ens[i]))
    BY <2>3, LeadsWait
  <2> QED BY <2>2, <2>4
<1>2. ks \in [0 .. Len(xs) -> Knowledge]
  <2>1. \A i \in 0 .. Len(xs) : ks[i] \in Knowledge
    BY KnownTyped
  <2> QED BY <2>1
<1>3. seqs = [i \in 1 .. Len(xs) |-> seqs[i]] /\ Each(Wait, xs) = FlattenSeq(seqs)
  BY DEF Each
<1>4. ks[0] = Known(M, U, ev, n, ens[0]) /\ ks[Len(xs)] = Known(M, U, ev, n, ens[Len(xs)])
  OBVIOUS
<1> HIDE DEF ks, seqs
<1> QED BY <1>1, <1>2, <1>3, <1>4, LeadsFlat

\* Both times of a command.
LEMMA LeadsTimes ==
  ASSUME NEW b, NEW M, NEW U, NEW ev, NEW n, NEW en, Progress(ev, n, en), M \subseteq U, U \subseteq Cleans(b),
         NEW e, ev[e] \in en
  PROVE  Leads(b, Known(M, U, ev, n, en), getStartEndTime(e), Known(M, U, ev, n, en))
<1>1. Leads(b, Known(M, U, ev, n, en), Call("query", e, {}, "cleanup"), Known(M, U, ev, n, en))
  BY LeadsQuery
<1> QED BY <1>1, LeadsOn DEF getStartEndTime

-----------------------------------------------------------------------------
(***************************************************************************)
(* The program with shared virtual memory.                                 *)
(***************************************************************************)

\* What there is for certain once run has its buffers.
SvmHeld == Opened \cup {"root", "leaves", "initial_centers_buf", "z0_buf", "visited_nodes_buf", "profiling_data_buf",
                        "new_centers_buf", "distortion_buf"}

\* What run has is among what cleanup finds.
LEMMA SvmNames ==
  /\ SvmHeld \subseteq Base("svm") /\ SvmHeld \subseteq Names /\ Base("svm") \subseteq Names
  /\ {"initial_centers", "visited_nodes", "profiling_data", "new_centers", "distortion"} \subseteq Base("svm")
<1>1. SvmHeld \subseteq Base("svm")
  BY DEF SvmHeld, Opened, Base, Cleans, Local, Names, Objects, HostMemory, InScope
<1>2. {"initial_centers", "visited_nodes", "profiling_data", "new_centers", "distortion"} \subseteq Base("svm")
  BY DEF Base, Cleans, Local, Names, HostMemory, InScope
<1> QED BY <1>1, <1>2, BaseIs, CleansNames

\* svm_enable ends the program when it fails, or changes nothing of what is known.
LEMMA LeadsSvmEnable ==
  ASSUME NEW M, NEW U, NEW ev, NEW en, Progress(ev, 0, en), M \subseteq U, U \subseteq Names, NEW s
  PROVE  Leads("svm", Known(M, U, ev, 0, en), Svm_enable(s), Known(M, U, ev, 0, en))
<1> DEFINE k == Known(M, U, ev, 0, en)
<1>1. Leads("svm", k, getvaddr, k)
  BY LeadsExit DEF getvaddr
<1>2. k \in Knowledge
  BY KnownTyped
<1> HIDE DEF k
<1>3. Leads("svm", k, Repeat(7, getvaddr), k) /\ Leads("svm", k, Repeat(2, getvaddr), k)
  BY <1>1, <1>2, LeadsRepeat
<1>4. Leads("svm", k, <<>>, k)
  BY <1>2, LeadsNone
<1>5. Leads("svm", k, IF s.driver THEN Repeat(7, getvaddr) ELSE <<>>, k)
  BY <1>3, <1>4
<1>6. Leads("svm", k, Svm_enable(s), k)
  BY <1>1, <1>3, <1>5, LeadsOn3 DEF Svm_enable
<1> QED BY <1>6 DEF k

\* The memory may be there or not; the tree and the buffers are.
LEMMA LeadsSvmBuffers ==
  ASSUME NEW ev, NEW en, Progress(ev, 0, en)
  PROVE  /\ Leads("svm", Known(Opened, Base("svm"), ev, 0, en), Svm_setup,
                         Known(Opened \cup {"root", "leaves"}, Base("svm"), ev, 0, en))
         /\ Leads("svm", Known(Opened \cup {"root", "leaves"}, Base("svm"), ev, 0, en), Svm_buffers,
                         Known(SvmHeld, Base("svm"), ev, 0, en))
<1> DEFINE U == Base("svm")
           M == Opened \cup {"root", "leaves"}
           k == Known(M, U, ev, 0, en)
<1>1. /\ Opened \subseteq U /\ M \subseteq U /\ U \subseteq Names /\ U \subseteq Cleans("svm") /\ "root" \in U
         /\ "leaves" \in U /\ "context" \in M
      /\ SvmHeld \subseteq U
      /\ {"initial_centers", "visited_nodes", "profiling_data", "new_centers", "distortion"} \subseteq U
  BY SvmNames, BaseIs DEF SvmHeld, Opened
<1> HIDE DEF U
<1>2. Leads("svm", Known(Opened, U, ev, 0, en), New("root") \o New("leaves"), k)
  <2>1. U \cup {"root"} = U /\ U \cup {"leaves"} = U /\ Opened \cup {"root"} \subseteq U
        /\ (Opened \cup {"root"}) \cup {"leaves"} = M
    BY <1>1
  <2>2. Leads("svm", Known(Opened, U, ev, 0, en), New("root"),
              Known(Opened \cup {"root"}, U \cup {"root"}, ev, 0, en))
    BY <1>1, <2>1, LeadsNew
  <2>3. Leads("svm", Known(Opened \cup {"root"}, U, ev, 0, en), New("leaves"),
              Known((Opened \cup {"root"}) \cup {"leaves"}, U \cup {"leaves"}, ev, 0, en))
    BY <1>1, <2>1, LeadsNew
  <2> QED BY <2>1, <2>2, <2>3, LeadsOn
<1>3. Leads("svm", k, Memory("initial_centers"), k) /\ Leads("svm", k, Fill("initial_centers"), k)
  <2>1. "initial_centers" \in U
    BY <1>1
  <2> HIDE DEF M
  <2> QED BY <1>1, <2>1, LeadsMemory, LeadsFill
<1>4. Leads("svm", k, Each(Memory, <<"visited_nodes", "profiling_data", "new_centers", "distortion">>), k)
  <2> DEFINE xs == <<"visited_nodes", "profiling_data", "new_centers", "distortion">>
  <2>1. Len(xs) \in Nat /\ \A i \in 1 .. Len(xs) : xs[i] \in U
    BY <1>1
  <2> HIDE DEF xs, M
  <2>2. Leads("svm", k, Each(Memory, xs), k)
    BY <1>1, <2>1, LeadsMemories
  <2> QED BY <2>2 DEF xs
<1>5. Leads("svm", k, Svm_buffers, Known(SvmHeld, U, ev, 0, en))
  <2> DEFINE xs == <<"initial_centers_buf", "z0_buf", "visited_nodes_buf", "profiling_data_buf",
                     "new_centers_buf", "distortion_buf">>
  <2>1. Len(xs) \in Nat /\ \A i \in 1 .. Len(xs) : xs[i] \in U
    BY <1>1 DEF SvmHeld
  <2>2. M \cup Firsts(xs, Len(xs)) = SvmHeld
    <3>1. \A x \in Firsts(xs, Len(xs)) : x \in SvmHeld
      BY DEF Firsts, SvmHeld
    <3>2. Len(xs) = 6 /\ xs[1] = "initial_centers_buf" /\ xs[2] = "z0_buf" /\ xs[3] = "visited_nodes_buf"
          /\ xs[4] = "profiling_data_buf" /\ xs[5] = "new_centers_buf" /\ xs[6] = "distortion_buf"
      OBVIOUS
    <3> HIDE DEF xs
    <3>3. {"initial_centers_buf", "z0_buf", "visited_nodes_buf", "profiling_data_buf",
           "new_centers_buf", "distortion_buf"} \subseteq Firsts(xs, Len(xs))
      BY <3>2 DEF Firsts
    <3> QED BY <3>1, <3>3 DEF SvmHeld
  <2> HIDE DEF xs, M
  <2>3. Leads("svm", k, Each(LAMBDA q : Object(q, {"context"}), xs),
              Known(M \cup Firsts(xs, Len(xs)), U, ev, 0, en))
    BY <1>1, <2>1, LeadsObjects
  <2> QED BY <2>2, <2>3 DEF xs, Svm_buffers
<1> HIDE DEF k
<1>6. Leads("svm", Known(Opened, U, ev, 0, en), Svm_setup, k)
  BY <1>2, <1>3, <1>4, LeadsOn4 DEF Svm_setup
<1> QED BY <1>5, <1>6 DEF U, k

\* The events of the seven commands; the reads share one variable.
NoEvents  == [e \in EventVars |-> "none"]
SvmEvent1 == [NoEvents EXCEPT !["write_event0"] = "write_centers"]
SvmEvent2 == [SvmEvent1 EXCEPT !["kernel1_event"] = "filter1"]
SvmEvent3 == [SvmEvent2 EXCEPT !["kernel0_event"] = "filter0"]
SvmEvent4 == [SvmEvent3 EXCEPT !["finish_event"] = "read_visited"]
SvmEvent5 == [SvmEvent4 EXCEPT !["finish_event"] = "read_profiling"]
SvmEvent6 == [SvmEvent5 EXCEPT !["finish_event"] = "read_centers"]
SvmEvent7 == [SvmEvent6 EXCEPT !["finish_event"] = "read_distortion"]

\* What has ended when the reads of queue1 and filter0 have been waited for.
SvmRead  == {"read_centers", "read_distortion"}
\* The commands that have ended after the waits.
SvmEnded == SvmRead \cup {"write_centers", "filter0"}

\* One more command is handed over.
LEMMA ProgressOn ==
  ASSUME NEW ev, NEW n, NEW en, Progress(ev, n, en), n < 7, NEW now, now = n + 1,
         NEW event \in EventVars, NEW cmd \in Commands
  PROVE  Progress([ev EXCEPT ![event] = cmd], now, en)
  BY DEF Progress

\* The event variables after each command, and the commands that their values stand for.
LEMMA SvmEventsAre ==
  /\ Progress(NoEvents, 0, {}) /\ Progress(SvmEvent1, 1, {}) /\ Progress(SvmEvent2, 2, {})
  /\ Progress(SvmEvent3, 3, {}) /\ Progress(SvmEvent4, 4, {}) /\ Progress(SvmEvent5, 5, {})
  /\ Progress(SvmEvent6, 6, {}) /\ Progress(SvmEvent7, 7, {})
  /\ SvmEvent2["write_event0"] # "none"
  /\ SvmEvent3["kernel0_event"] # "none" /\ SvmEvent4["kernel0_event"] # "none"
  /\ SvmEvent5["kernel1_event"] # "none" /\ SvmEvent6["kernel1_event"] # "none"
  /\ SvmEvent7["write_event0"] = "write_centers" /\ SvmEvent7["kernel0_event"] = "filter0"
  /\ SvmEvent7["kernel1_event"] = "filter1" /\ SvmEvent7["finish_event"] = "read_distortion"
<1>0. {"write_centers", "filter0", "filter1", "read_visited", "read_profiling", "read_centers", "read_distortion"}
         \subseteq Commands
      /\ {"write_event0", "kernel0_event", "kernel1_event", "finish_event"} \subseteq EventVars
  BY DEF Commands, EventVars
<1>1. Progress(NoEvents, 0, {})
  BY DEF Progress, NoEvents
<1>2. Progress(SvmEvent1, 1, {})
  <2>1. "write_event0" \in EventVars /\ "write_centers" \in Commands /\ 0 < 7 /\ 1 = 0 + 1
    BY <1>0
  <2> QED BY <1>1, <2>1, ProgressOn DEF SvmEvent1
<1>3. Progress(SvmEvent2, 2, {})
  <2>1. "kernel1_event" \in EventVars /\ "filter1" \in Commands /\ 1 < 7 /\ 2 = 1 + 1
    BY <1>0
  <2> QED BY <1>2, <2>1, ProgressOn DEF SvmEvent2
<1>4. Progress(SvmEvent3, 3, {})
  <2>1. "kernel0_event" \in EventVars /\ "filter0" \in Commands /\ 2 < 7 /\ 3 = 2 + 1
    BY <1>0
  <2> QED BY <1>3, <2>1, ProgressOn DEF SvmEvent3
<1>5. Progress(SvmEvent4, 4, {})
  <2>1. "finish_event" \in EventVars /\ "read_visited" \in Commands /\ 3 < 7 /\ 4 = 3 + 1
    BY <1>0
  <2> QED BY <1>4, <2>1, ProgressOn DEF SvmEvent4
<1>6. Progress(SvmEvent5, 5, {})
  <2>1. "finish_event" \in EventVars /\ "read_profiling" \in Commands /\ 4 < 7 /\ 5 = 4 + 1
    BY <1>0
  <2> QED BY <1>5, <2>1, ProgressOn DEF SvmEvent5
<1>7. Progress(SvmEvent6, 6, {})
  <2>1. "finish_event" \in EventVars /\ "read_centers" \in Commands /\ 5 < 7 /\ 6 = 5 + 1
    BY <1>0
  <2> QED BY <1>6, <2>1, ProgressOn DEF SvmEvent6
<1>8. Progress(SvmEvent7, 7, {})
  <2>1. "finish_event" \in EventVars /\ "read_distortion" \in Commands /\ 6 < 7 /\ 7 = 6 + 1
    BY <1>0
  <2> QED BY <1>7, <2>1, ProgressOn DEF SvmEvent7
<1>9. SvmEvent1["write_event0"] = "write_centers"
  BY DEF SvmEvent1, NoEvents, EventVars
<1>10. SvmEvent2["write_event0"] = "write_centers" /\ SvmEvent2["kernel1_event"] = "filter1"
  BY <1>2, <1>9 DEF SvmEvent2, Progress, EventVars
<1>11. SvmEvent3["write_event0"] = "write_centers" /\ SvmEvent3["kernel1_event"] = "filter1"
       /\ SvmEvent3["kernel0_event"] = "filter0"
  BY <1>3, <1>10 DEF SvmEvent3, Progress, EventVars
<1>12. SvmEvent4["write_event0"] = "write_centers" /\ SvmEvent4["kernel1_event"] = "filter1"
       /\ SvmEvent4["kernel0_event"] = "filter0"
  BY <1>4, <1>11 DEF SvmEvent4, Progress, EventVars
<1>13. SvmEvent5["write_event0"] = "write_centers" /\ SvmEvent5["kernel1_event"] = "filter1"
       /\ SvmEvent5["kernel0_event"] = "filter0"
  BY <1>5, <1>12 DEF SvmEvent5, Progress, EventVars
<1>14. SvmEvent6["write_event0"] = "write_centers" /\ SvmEvent6["kernel1_event"] = "filter1"
       /\ SvmEvent6["kernel0_event"] = "filter0"
  BY <1>6, <1>13 DEF SvmEvent6, Progress, EventVars
<1>15. SvmEvent7["write_event0"] = "write_centers" /\ SvmEvent7["kernel1_event"] = "filter1"
       /\ SvmEvent7["kernel0_event"] = "filter0" /\ SvmEvent7["finish_event"] = "read_distortion"
  BY <1>7, <1>14 DEF SvmEvent7, Progress, EventVars
<1> QED BY <1>1, <1>2, <1>3, <1>4, <1>5, <1>6, <1>7, <1>8, <1>10, <1>11, <1>12, <1>13, <1>14, <1>15

\* The commands from the write to the last read.
LEMMA LeadsSvmCommands ==
  /\ Leads("svm", Known(SvmHeld, Base("svm"), NoEvents, 0, {}), Svm_write,
           Known(SvmHeld, Base("svm"), SvmEvent1, 1, {}))
  /\ Leads("svm", Known(SvmHeld, Base("svm"), SvmEvent1, 1, {}), Svm_args,
           Known(SvmHeld, Base("svm"), SvmEvent1, 1, {}))
  /\ Leads("svm", Known(SvmHeld, Base("svm"), SvmEvent1, 1, {}), Svm_launch,
           Known(SvmHeld, Base("svm"), SvmEvent3, 3, {}))
  /\ Leads("svm", Known(SvmHeld, Base("svm"), SvmEvent3, 3, {}), Svm_reads,
           Known(SvmHeld, Base("svm"), SvmEvent7, 7, {}))
<1> DEFINE U == Base("svm")
           M == SvmHeld
<1>1. M \subseteq U /\ U \subseteq Cleans("svm")
  BY SvmNames, BaseIs
<1>2. {"queue0", "queue1", "kernel0", "kernel1", "root", "leaves", "initial_centers_buf", "z0_buf", "visited_nodes_buf",
       "profiling_data_buf", "new_centers_buf", "distortion_buf"} \subseteq M
  BY DEF SvmHeld, Opened
<1>3. {"write_centers", "filter0", "filter1", "read_visited", "read_profiling", "read_centers", "read_distortion"}
         \subseteq Commands
      /\ {"write_event0", "kernel0_event", "kernel1_event", "finish_event"} \subseteq EventVars
  BY DEF Commands, EventVars
<1>4. /\ Plan("svm")[1] = Planned("write_centers", "queue0", {"initial_centers"})
      /\ Plan("svm")[2] = Planned("filter1", "queue1", {})
      /\ Plan("svm")[3] = Planned("filter0", "queue0", {"root", "leaves"})
      /\ Plan("svm")[4] = Planned("read_visited", "queue0", {"visited_nodes"})
      /\ Plan("svm")[5] = Planned("read_profiling", "queue0", {"profiling_data"})
      /\ Plan("svm")[6] = Planned("read_centers", "queue1", {"new_centers"})
      /\ Plan("svm")[7] = Planned("read_distortion", "queue1", {"distortion"})
  BY DEF Plan, SvmPlan
<1> HIDE DEF U, M
<1>5. Leads("svm", Known(M, U, NoEvents, 0, {}), Svm_write, Known(M, U, SvmEvent1, 1, {}))
  <2>1. 0 < 7 /\ 1 = 0 + 1 /\ "write_centers" \in Commands /\ "write_event0" \in EventVars /\ "queue0" \in M
        /\ {"initial_centers_buf"} \subseteq M /\ {} \subseteq EventVars /\ \A e \in {} : NoEvents[e] # "none"
    BY <1>2, <1>3
  <2>2. Leads("svm", Known(M, U, NoEvents, 0, {}),
              Enqueue("write_centers", "queue0", {"initial_centers_buf"}, {}, "write_event0", {"initial_centers"}),
              Known(M, U, SvmEvent1, 1, {}))
    BY <1>1, <1>4, <2>1, SvmEventsAre, LeadsEnqueue DEF SvmEvent1
  <2> QED BY <2>2 DEF Svm_write, Write
<1>6. Leads("svm", Known(M, U, SvmEvent1, 1, {}), Svm_args, Known(M, U, SvmEvent1, 1, {}))
  <2> DEFINE xs == <<{"z0_buf"}, {"root"}, {}, {}, {"initial_centers_buf"},
                     {"visited_nodes_buf"}, {"profiling_data_buf"}>>
             ys == <<{}, {"new_centers_buf"}, {"distortion_buf"}>>
  <2>1. Len(xs) \in Nat /\ \A i \in 1 .. Len(xs) : xs[i] \subseteq M
    BY <1>2
  <2>2. Len(ys) \in Nat /\ \A i \in 1 .. Len(ys) : ys[i] \subseteq M
    BY <1>2
  <2>3. "kernel0" \in M /\ "kernel1" \in M
    BY <1>2
  <2> HIDE DEF xs, ys
  <2>4. Leads("svm", Known(M, U, SvmEvent1, 1, {}), Arguments("kernel0", xs), Known(M, U, SvmEvent1, 1, {}))
    BY <1>1, <2>1, <2>3, SvmEventsAre, LeadsArguments
  <2>5. Leads("svm", Known(M, U, SvmEvent1, 1, {}), Arguments("kernel1", ys), Known(M, U, SvmEvent1, 1, {}))
    BY <1>1, <2>2, <2>3, SvmEventsAre, LeadsArguments
  <2>6. Leads("svm", Known(M, U, SvmEvent1, 1, {}), Arguments("kernel0", xs) \o Arguments("kernel1", ys),
              Known(M, U, SvmEvent1, 1, {}))
    BY <2>4, <2>5, LeadsOn
  <2> QED BY <2>6 DEF Svm_args, xs, ys
<1>7. Leads("svm", Known(M, U, SvmEvent1, 1, {}), Svm_launch, Known(M, U, SvmEvent3, 3, {}))
  <2>1. 1 < 7 /\ 2 = 1 + 1 /\ 2 < 7 /\ 3 = 2 + 1 /\ {"filter0", "filter1"} \subseteq Commands
        /\ "kernel0_event" \in EventVars /\ "kernel1_event" \in EventVars /\ "queue0" \in M /\ "queue1" \in M
        /\ {"kernel0"} \subseteq M /\ {"kernel1"} \subseteq M
           /\ ({} \subseteq EventVars /\ \A e \in {} : SvmEvent1[e] # "none")
        /\ {"write_event0"} \subseteq EventVars /\ \A e \in {"write_event0"} : SvmEvent2[e] # "none"
    BY <1>2, <1>3, SvmEventsAre
  <2>2. Leads("svm", Known(M, U, SvmEvent1, 1, {}), Enqueue("filter1", "queue1", {"kernel1"}, {}, "kernel1_event", {}),
              Known(M, U, SvmEvent2, 2, {}))
    BY <1>1, <1>4, <2>1, SvmEventsAre, LeadsEnqueue DEF SvmEvent2
  <2>3. Leads("svm", Known(M, U, SvmEvent2, 2, {}),
              Enqueue("filter0", "queue0", {"kernel0"}, {"write_event0"}, "kernel0_event", {"root", "leaves"}),
              Known(M, U, SvmEvent3, 3, {}))
    BY <1>1, <1>4, <2>1, SvmEventsAre, LeadsEnqueue DEF SvmEvent3
  <2> QED BY <2>2, <2>3, LeadsOn DEF Svm_launch
<1>8. Leads("svm", Known(M, U, SvmEvent3, 3, {}), Svm_reads, Known(M, U, SvmEvent7, 7, {}))
  <2>1. 3 < 7 /\ 4 = 3 + 1 /\ 4 < 7 /\ 5 = 4 + 1 /\ 5 < 7 /\ 6 = 5 + 1 /\ 6 < 7 /\ 7 = 6 + 1
        /\ {"read_visited", "read_profiling", "read_centers", "read_distortion"} \subseteq Commands
        /\ "finish_event" \in EventVars /\ "queue0" \in M /\ "queue1" \in M
        /\ {"visited_nodes_buf"} \subseteq M /\ {"profiling_data_buf"} \subseteq M
           /\ {"new_centers_buf"} \subseteq M
        /\ {"distortion_buf"} \subseteq M
        /\ {"kernel0_event"} \subseteq EventVars /\ {"kernel1_event"} \subseteq EventVars
        /\ (\A e \in {"kernel0_event"} : SvmEvent3[e] # "none")
           /\ (\A e \in {"kernel0_event"} : SvmEvent4[e] # "none")
        /\ (\A e \in {"kernel1_event"} : SvmEvent5[e] # "none")
           /\ (\A e \in {"kernel1_event"} : SvmEvent6[e] # "none")
    BY <1>2, <1>3, SvmEventsAre
  <2>2. Leads("svm", Known(M, U, SvmEvent3, 3, {}),
              Read("read_visited", "queue0", "visited_nodes_buf", "kernel0_event", "finish_event", "visited_nodes"),
              Known(M, U, SvmEvent4, 4, {}))
    BY <1>1, <1>4, <2>1, SvmEventsAre, LeadsEnqueue DEF SvmEvent4, Read
  <2>3. Leads("svm", Known(M, U, SvmEvent4, 4, {}),
              Read("read_profiling", "queue0", "profiling_data_buf", "kernel0_event", "finish_event", "profiling_data"),
              Known(M, U, SvmEvent5, 5, {}))
    BY <1>1, <1>4, <2>1, SvmEventsAre, LeadsEnqueue DEF SvmEvent5, Read
  <2>4. Leads("svm", Known(M, U, SvmEvent5, 5, {}),
              Read("read_centers", "queue1", "new_centers_buf", "kernel1_event", "finish_event", "new_centers"),
              Known(M, U, SvmEvent6, 6, {}))
    BY <1>1, <1>4, <2>1, SvmEventsAre, LeadsEnqueue DEF SvmEvent6, Read
  <2>5. Leads("svm", Known(M, U, SvmEvent6, 6, {}),
              Read("read_distortion", "queue1", "distortion_buf", "kernel1_event", "finish_event", "distortion"),
              Known(M, U, SvmEvent7, 7, {}))
    BY <1>1, <1>4, <2>1, SvmEventsAre, LeadsEnqueue DEF SvmEvent7, Read
  <2> QED BY <2>2, <2>3, <2>4, <2>5, LeadsOn4 DEF Svm_reads
<1> QED BY <1>5, <1>6, <1>7, <1>8 DEF U, M

\* The waits: each queue executes its commands in order, so the reads that nobody
\* waits for by their own event have ended too, except those of queue0.
LEMMA LeadsSvmWaits ==
  Leads("svm", Known(SvmHeld, Base("svm"), SvmEvent7, 7, {}), Svm_waits,
        Known(SvmHeld, Base("svm"), SvmEvent7, 7, SvmEnded))
<1> DEFINE U == Base("svm")
           M == SvmHeld
           xs == <<"finish_event", "kernel0_event", "kernel1_event">>
           ens == [i \in 0 .. 3 |-> IF i = 0 THEN {} ELSE IF i = 1 THEN SvmRead ELSE SvmEnded]
           ended(i, cmd) == EndedWith("svm", Known(M, U, SvmEvent7, 7, ens[i]), cmd)
<1>1. M \subseteq U /\ U \subseteq Names
  BY SvmNames
<1>2. Len(xs) = 3 /\ xs[1] = "finish_event" /\ xs[2] = "kernel0_event" /\ xs[3] = "kernel1_event"
  OBVIOUS
<1>3. ens[0] = {} /\ ens[1] = SvmRead /\ ens[2] = SvmEnded /\ ens[3] = SvmEnded
  OBVIOUS
<1>4. \A i \in 0 .. 3 : Progress(SvmEvent7, 7, ens[i])
  <2>1. SvmRead \subseteq Commands /\ SvmEnded \subseteq Commands
    BY DEF SvmRead, SvmEnded, Commands
  <2>2. \A i \in 0 .. 3 : ens[i] \subseteq Commands
    BY <2>1
  <2> HIDE DEF ens
  <2> QED BY <2>2, SvmEventsAre DEF Progress
<1> HIDE DEF xs, ens, U, M
<1>5. SvmRead \subseteq ended(0, "read_distortion")
  <2>1. Known(M, U, SvmEvent7, 7, ens[0]).sent = 7
    BY DEF Known
  <2>2. \A j \in {6, 7} : j \in 1 .. 7 /\ 7 \in j .. 7
    OBVIOUS
  <2>3. Plan("svm")[6].cmd = "read_centers" /\ Plan("svm")[7].cmd = "read_distortion"
        /\ Plan("svm")[6].queue = "queue1" /\ Plan("svm")[7].queue = "queue1"
    BY DEF Plan, SvmPlan, Planned
  <2>4. "read_centers" \in ended(0, "read_distortion") /\ "read_distortion" \in ended(0, "read_distortion")
    BY <2>1, <2>2, <2>3 DEF EndedWith
  <2> QED BY <2>4 DEF SvmRead
<1>6. SvmEnded \subseteq ens[1] \cup ended(1, "filter0")
  <2>1. Known(M, U, SvmEvent7, 7, ens[1]).sent = 7
    BY DEF Known
  <2>2. \A j \in {1, 3} : j \in 1 .. 7 /\ 3 \in j .. 7
    OBVIOUS
  <2>3. Plan("svm")[1].cmd = "write_centers" /\ Plan("svm")[3].cmd = "filter0"
        /\ Plan("svm")[1].queue = "queue0" /\ Plan("svm")[3].queue = "queue0"
    BY DEF Plan, SvmPlan, Planned
  <2>4. "write_centers" \in ended(1, "filter0") /\ "filter0" \in ended(1, "filter0")
    BY <2>1, <2>2, <2>3 DEF EndedWith
  <2> HIDE DEF ended
  <2> QED BY <2>4, <1>3 DEF SvmEnded
<1>7. ASSUME NEW i \in 1 .. 3
      PROVE  SvmEvent7[xs[i]] # "none" /\ ens[i] \subseteq ens[i - 1] \cup ended(i - 1, SvmEvent7[xs[i]])
  <2> HIDE DEF ended
  <2>1. CASE i = 1
    BY <2>1, <1>2, <1>3, <1>5, SvmEventsAre
  <2>2. CASE i = 2
    BY <2>2, <1>2, <1>3, <1>6, SvmEventsAre
  <2>3. CASE i = 3
    BY <2>3, <1>2, <1>3, SvmEventsAre
  <2> QED BY <2>1, <2>2, <2>3
<1>8. Leads("svm", Known(M, U, SvmEvent7, 7, ens[0]), Each(Wait, xs), Known(M, U, SvmEvent7, 7, ens[Len(xs)]))
  <2>1. Len(xs) \in Nat
    BY <1>2
  <2> QED BY <1>1, <1>2, <1>4, <1>7, <2>1, LeadsWaits
<1> QED BY <1>2, <1>3, <1>8 DEF U, M, xs, Svm_waits

\* The report shows what has been read, and releases the events that were set.
LEMMA LeadsSvmReport ==
  \E last : /\ Progress(last, 7, SvmEnded)
            /\ Leads("svm", Known(SvmHeld, Base("svm"), SvmEvent7, 7, SvmEnded), Svm_report,
                            Known(SvmHeld, Base("svm"), last, 7, SvmEnded))
<1> DEFINE U == Base("svm")
           M == SvmHeld
           k == Known(M, U, SvmEvent7, 7, SvmEnded)
           xs == <<"visited_nodes", "new_centers", "distortion", "profiling_data">>
           es == <<"write_event0", "kernel1_event", "kernel0_event", "finish_event">>
<1>1. M \subseteq U /\ U \subseteq Names /\ U \subseteq Cleans("svm")
  BY SvmNames, BaseIs
<1>2. Progress(SvmEvent7, 7, SvmEnded)
  BY SvmEventsAre DEF Progress, SvmEnded, SvmRead, Commands
<1>3. Len(xs) \in Nat /\ {"read_centers", "read_distortion"} \subseteq SvmEnded
  BY DEF SvmEnded, SvmRead
<1>4. Len(es) \in Nat /\ (\A i \in 1 .. Len(es) : es[i] \in EventVars /\ SvmEvent7[es[i]] # "none")
      /\ \A i, j \in 1 .. Len(es) : es[i] = es[j] => i = j
  <2>1. Len(es) = 4 /\ es[1] = "write_event0" /\ es[2] = "kernel1_event" /\ es[3] = "kernel0_event"
        /\ es[4] = "finish_event"
    OBVIOUS
  <2> HIDE DEF es
  <2>2. \A i \in 1 .. Len(es) : i = 1 \/ i = 2 \/ i = 3 \/ i = 4
    BY <2>1
  <2>3. ASSUME NEW i \in 1 .. Len(es) PROVE es[i] \in EventVars /\ SvmEvent7[es[i]] # "none"
    BY <2>1, <2>2, SvmEventsAre DEF EventVars
  <2>4. \A i, j \in 1 .. Len(es) : es[i] = es[j] => i = j
    BY <2>1, <2>2
  <2>5. Len(es) \in Nat
    BY <2>1
  <2> QED BY <2>3, <2>4, <2>5
<1> HIDE DEF U, M, xs, es
<1>5. Leads("svm", k, Each(Show, xs), k)
  BY <1>1, <1>2, <1>3, LeadsShows
<1>6. Leads("svm", k, getStartEndTime("kernel0_event"), k)
  <2>1. SvmEvent7["kernel0_event"] \in SvmEnded
    BY SvmEventsAre DEF SvmEnded
  <2> QED BY <1>1, <1>2, <2>1, LeadsTimes
<1>7. PICK last : Progress(last, 7, SvmEnded) /\ Leads("svm", k, Each(ReleaseEvent, es),
                                                       Known(M, U, last, 7, SvmEnded))
  BY <1>1, <1>2, <1>4, LeadsReleaseEvents
<1> HIDE DEF k
<1>8. Leads("svm", k, Svm_report, Known(M, U, last, 7, SvmEnded))
  BY <1>5, <1>6, <1>7, LeadsOn3 DEF Svm_report, xs, es
<1> QED BY <1>7, <1>8 DEF k, U, M

\* What cleanup releases.
SvmReleased ==
  <<"kernel0", "queue0", "kernel1", "queue1", "initial_centers_buf",
    "visited_nodes_buf", "profiling_data_buf", "new_centers_buf", "distortion_buf",
    "z0_buf", "program", "context", "root", "initial_centers", "visited_nodes",
    "new_centers", "distortion", "profiling_data">>

\* cleanup leaves nothing behind but what it has no name for, and the leaves.
LEMMA SvmReleases ==
  /\ Svm_cleanup = Each(Release, SvmReleased) /\ Len(SvmReleased) = 18 /\ Len(SvmReleased) \in Nat
     /\ Len(SvmReleased) # 0
  /\ Cleans("svm") \ Firsts(SvmReleased, Len(SvmReleased)) \subseteq Leftover("svm")
  /\ Base("svm") \ Firsts(SvmReleased, Len(SvmReleased)) \subseteq Rest("svm")
  /\ "leaves" \notin Firsts(SvmReleased, Len(SvmReleased))
<1>1. Svm_cleanup = Each(Release, SvmReleased)
  BY DEF Svm_cleanup, SvmReleased
<1>2. Len(SvmReleased) = 18 /\ Len(SvmReleased) \in Nat /\ Len(SvmReleased) # 0
  BY DEF SvmReleased
<1> DEFINE F == Firsts(SvmReleased, Len(SvmReleased))
<1>3. {"kernel0", "queue0", "kernel1", "queue1", "initial_centers_buf", "visited_nodes_buf"} \subseteq F
  <2>1. {SvmReleased[1], SvmReleased[2], SvmReleased[3], SvmReleased[4], SvmReleased[5], SvmReleased[6]} \subseteq F
    BY <1>2 DEF Firsts
  <2> HIDE DEF F
  <2> QED BY <2>1 DEF SvmReleased
<1>4. {"profiling_data_buf", "new_centers_buf", "distortion_buf", "z0_buf", "program", "context"} \subseteq F
  <2>1. {SvmReleased[7], SvmReleased[8], SvmReleased[9], SvmReleased[10], SvmReleased[11], SvmReleased[12]} \subseteq F
    BY <1>2 DEF Firsts
  <2> HIDE DEF F
  <2> QED BY <2>1 DEF SvmReleased
<1>5. {"root", "initial_centers", "visited_nodes", "new_centers", "distortion", "profiling_data"} \subseteq F
  <2>1. {SvmReleased[13], SvmReleased[14], SvmReleased[15], SvmReleased[16], SvmReleased[17], SvmReleased[18]} \subseteq F
    BY <1>2 DEF Firsts
  <2> HIDE DEF F
  <2> QED BY <2>1 DEF SvmReleased
<1> HIDE DEF F
<1>6. Cleans("svm") \ F \subseteq Leftover("svm")
  BY <1>3, <1>4, <1>5 DEF Cleans, Leftover, Rest, Unfreed, Names, Objects, HostMemory, Files
<1>7. Base("svm") \ F \subseteq Rest("svm")
  BY <1>6 DEF Base, Local, Leftover
<1>8. "leaves" \notin F
  BY DEF F, Firsts, SvmReleased
<1> QED BY <1>1, <1>2, <1>6, <1>7, <1>8 DEF F

\* Nothing that cleanup takes away is worked on, but the two results nobody waits for.
LEMMA SvmNothingInUse ==
  ASSUME NEW M, NEW U, NEW ev, NEW x
  PROVE  ~StillUses("svm", Known(M, U, ev, 7, SvmEnded), x)
<1>1. ASSUME NEW i \in 1 .. 7
      PROVE  \/ Plan("svm")[i].cmd \in SvmEnded
             \/ Plan("svm")[i].uses \subseteq {"visited_nodes", "profiling_data"}
  <2>1. i \in {1, 2, 3, 4, 5, 6, 7}
    OBVIOUS
  <2>2. /\ Plan("svm")[1].cmd = "write_centers" /\ Plan("svm")[2].uses = {} /\ Plan("svm")[3].cmd = "filter0"
        /\ Plan("svm")[4].uses = {"visited_nodes"} /\ Plan("svm")[5].uses = {"profiling_data"}
        /\ Plan("svm")[6].cmd = "read_centers" /\ Plan("svm")[7].cmd = "read_distortion"
    BY DEF Plan, SvmPlan, Planned
  <2> QED BY <2>1, <2>2 DEF SvmEnded, SvmRead
<1>2. Known(M, U, ev, 7, SvmEnded).sent = 7 /\ Known(M, U, ev, 7, SvmEnded).ended = SvmEnded
  BY DEF Known
<1> QED BY <1>1, <1>2 DEF StillUses

\* The whole program.
LEMMA LeadsSvm ==
  ASSUME NEW s \in Settings
  PROVE  \E m : /\ Final("svm", m)
                /\ Leads("svm", Known({}, Arrays, NoEvents, 0, {}), Svm_main(s), m)
<1> DEFINE U == Base("svm")
           k0 == Known({}, Arrays, NoEvents, 0, {})
           k1 == Known(Opened, U, NoEvents, 0, {})
           k2 == Known(Opened \cup {"root", "leaves"}, U, NoEvents, 0, {})
           k3 == Known(SvmHeld, U, NoEvents, 0, {})
           k4 == Known(SvmHeld, U, SvmEvent1, 1, {})
           k5 == Known(SvmHeld, U, SvmEvent3, 3, {})
           k6 == Known(SvmHeld, U, SvmEvent7, 7, {})
           k7 == Known(SvmHeld, U, SvmEvent7, 7, SvmEnded)
           F == Firsts(SvmReleased, Len(SvmReleased))
<1>0. Progress(NoEvents, 0, {}) /\ U \subseteq Names /\ SvmHeld \subseteq U /\ Opened \subseteq U
  BY SvmEventsAre, SvmNames DEF SvmHeld
<1>1. Leads("svm", k0, ReadInputs(s), k0)
  BY <1>0, LeadsReadInputs
<1>2. Leads("svm", k0, init_opencl(s), k1)
  BY <1>0, LeadsInit
<1>3. Leads("svm", k1, Svm_enable(s), k1)
  <2> HIDE DEF U
  <2> QED BY <1>0, LeadsSvmEnable
<1>4. Leads("svm", k1, Svm_setup, k2) /\ Leads("svm", k2, Svm_buffers, k3)
  BY <1>0, LeadsSvmBuffers
<1>5. Leads("svm", k3, Svm_write, k4) /\ Leads("svm", k4, Svm_args, k4)
      /\ Leads("svm", k4, Svm_launch, k5) /\ Leads("svm", k5, Svm_reads, k6)
  BY LeadsSvmCommands
<1>6. Leads("svm", k6, Svm_waits, k7)
  BY LeadsSvmWaits
<1>7. PICK last : Progress(last, 7, SvmEnded) /\ Leads("svm", k7, Svm_report,
                                                       Known(SvmHeld, U, last, 7, SvmEnded))
  BY LeadsSvmReport
<1> DEFINE k8 == Known(SvmHeld, U, last, 7, SvmEnded)
           k9 == Known(SvmHeld \ F, U \ F, last, 7, SvmEnded)
<1>8. Leads("svm", k8, Svm_cleanup, k9)
  <2>1. Len(SvmReleased) \in Nat
    BY SvmReleases
  <2> HIDE DEF U
  <2>2. Leads("svm", k8, Each(Release, SvmReleased), k9)
    BY <1>0, <1>7, <2>1, SvmNothingInUse, LeadsReleases
  <2> QED BY <2>2, SvmReleases
<1>9. Final("svm", k9)
  BY SvmReleases DEF Final, Known, Unfreed, SvmHeld
<1>10. Leads("svm", k7, Svm_report, k8)
  BY <1>7
<1> HIDE DEF k0, k1, k2, k3, k4, k5, k6, k7, k8, k9
<1>11. Leads("svm", k0, ReadInputs(s) \o init_opencl(s) \o Svm_enable(s) \o Svm_setup, k2)
  BY <1>1, <1>2, <1>3, <1>4, LeadsOn4
<1>12. Leads("svm", k0, ReadInputs(s) \o init_opencl(s) \o Svm_enable(s) \o Svm_setup
                          \o Svm_buffers \o Svm_write \o Svm_args, k4)
  BY <1>4, <1>5, <1>11, LeadsOn4
<1>13. Leads("svm", k0, ReadInputs(s) \o init_opencl(s) \o Svm_enable(s) \o Svm_setup
                          \o Svm_buffers \o Svm_write \o Svm_args \o Svm_launch \o Svm_reads \o Svm_waits, k7)
  BY <1>5, <1>6, <1>12, LeadsOn4
<1>14. Leads("svm", k0, Svm_main(s), k9)
  BY <1>8, <1>10, <1>13, LeadsOn3 DEF Svm_main
<1> QED BY <1>9, <1>14 DEF k0

-----------------------------------------------------------------------------
(***************************************************************************)
(* The program without shared virtual memory.                              *)
(***************************************************************************)

\* What there is for certain once run has its buffers.
NoSvmHeld == Opened \cup {"initial_centers_buf", "tree_memory_buf", "visited_nodes_buf", "new_centers_buf",
                          "distortion_buf"}

\* What run has is among what cleanup finds.
LEMMA NoSvmNames ==
  /\ NoSvmHeld \subseteq Base("no_svm") /\ NoSvmHeld \subseteq Names /\ Base("no_svm") \subseteq Names
  /\ {"tree_memory", "initial_centers", "visited_nodes", "new_centers", "distortion"} \subseteq Base("no_svm")
<1>1. NoSvmHeld \subseteq Base("no_svm")
  BY DEF NoSvmHeld, Opened, Base, Cleans, Local, Names, Objects, HostMemory, InScope
<1>2. {"tree_memory", "initial_centers", "visited_nodes", "new_centers", "distortion"} \subseteq Base("no_svm")
  BY DEF Base, Cleans, Local, Names, HostMemory, InScope
<1> QED BY <1>1, <1>2, BaseIs, CleansNames

\* The buffers and the memory of run.
LEMMA LeadsNoSvmBuffers ==
  ASSUME NEW ev, NEW en, Progress(ev, 0, en)
  PROVE  /\ Leads("no_svm", Known(Opened, Base("no_svm"), ev, 0, en), NoSvm_setup,
                            Known(Opened, Base("no_svm"), ev, 0, en))
         /\ Leads("no_svm", Known(Opened, Base("no_svm"), ev, 0, en), NoSvm_buffers,
                            Known(NoSvmHeld, Base("no_svm"), ev, 0, en))
<1> DEFINE U == Base("no_svm")
           M == Opened
           k == Known(M, U, ev, 0, en)
<1>1. /\ M \subseteq U /\ U \subseteq Names /\ U \subseteq Cleans("no_svm") /\ "context" \in M
      /\ NoSvmHeld \subseteq U
      /\ {"tree_memory", "initial_centers", "visited_nodes", "new_centers", "distortion"} \subseteq U
  BY NoSvmNames, BaseIs DEF NoSvmHeld, Opened
<1> HIDE DEF U
<1>2. Leads("no_svm", k, Memory("tree_memory"), k) /\ Leads("no_svm", k, Fill("tree_memory"), k)
  <2>1. "tree_memory" \in U
    BY <1>1
  <2> HIDE DEF M
  <2> QED BY <1>1, <2>1, LeadsMemory, LeadsFill
<1>3. Leads("no_svm", k, Memory("initial_centers"), k) /\ Leads("no_svm", k, Fill("initial_centers"), k)
  <2>1. "initial_centers" \in U
    BY <1>1
  <2> HIDE DEF M
  <2> QED BY <1>1, <2>1, LeadsMemory, LeadsFill
<1>4. Leads("no_svm", k, Each(Memory, <<"visited_nodes", "new_centers", "distortion">>), k)
  <2> DEFINE xs == <<"visited_nodes", "new_centers", "distortion">>
  <2>1. Len(xs) \in Nat /\ \A i \in 1 .. Len(xs) : xs[i] \in U
    BY <1>1
  <2> HIDE DEF xs, M
  <2>2. Leads("no_svm", k, Each(Memory, xs), k)
    BY <1>1, <2>1, LeadsMemories
  <2> QED BY <2>2 DEF xs
<1>5. Leads("no_svm", k, NoSvm_buffers, Known(NoSvmHeld, U, ev, 0, en))
  <2> DEFINE xs == <<"initial_centers_buf", "tree_memory_buf", "visited_nodes_buf", "new_centers_buf",
                     "distortion_buf">>
  <2>1. Len(xs) \in Nat /\ \A i \in 1 .. Len(xs) : xs[i] \in U
    BY <1>1 DEF NoSvmHeld
  <2>2. M \cup Firsts(xs, Len(xs)) = NoSvmHeld
    <3>1. \A x \in Firsts(xs, Len(xs)) : x \in NoSvmHeld
      BY DEF Firsts, NoSvmHeld
    <3>2. Len(xs) = 5 /\ xs[1] = "initial_centers_buf" /\ xs[2] = "tree_memory_buf"
          /\ xs[3] = "visited_nodes_buf"
          /\ xs[4] = "new_centers_buf" /\ xs[5] = "distortion_buf"
      OBVIOUS
    <3> HIDE DEF xs
    <3>3. {"initial_centers_buf", "tree_memory_buf", "visited_nodes_buf", "new_centers_buf", "distortion_buf"}
            \subseteq Firsts(xs, Len(xs))
      BY <3>2 DEF Firsts
    <3> QED BY <3>1, <3>3 DEF NoSvmHeld
  <2> HIDE DEF xs, M
  <2>3. Leads("no_svm", k, Each(LAMBDA q : Object(q, {"context"}), xs),
              Known(M \cup Firsts(xs, Len(xs)), U, ev, 0, en))
    BY <1>1, <2>1, LeadsObjects
  <2> QED BY <2>2, <2>3 DEF xs, NoSvm_buffers
<1> HIDE DEF k
<1>6. Leads("no_svm", k, NoSvm_setup, k)
  <2>1. Leads("no_svm", k,
              Memory("tree_memory") \o Fill("tree_memory") \o Memory("initial_centers") \o Fill("initial_centers"), k)
    BY <1>2, <1>3, LeadsOn4
  <2> QED BY <1>4, <2>1, LeadsOn DEF NoSvm_setup
<1> QED BY <1>5, <1>6 DEF U, k

NoSvmEvent1 == [NoEvents EXCEPT !["write_event0"] = "write_tree"]
NoSvmEvent2 == [NoSvmEvent1 EXCEPT !["write_event1"] = "write_centers"]
NoSvmEvent3 == [NoSvmEvent2 EXCEPT !["kernel1_event"] = "filter1"]
NoSvmEvent4 == [NoSvmEvent3 EXCEPT !["kernel0_event"] = "filter0"]
NoSvmEvent5 == [NoSvmEvent4 EXCEPT !["finish_event"] = "read_visited"]
NoSvmEvent6 == [NoSvmEvent5 EXCEPT !["finish_event"] = "read_centers"]
NoSvmEvent7 == [NoSvmEvent6 EXCEPT !["finish_event"] = "read_distortion"]

\* The commands that have ended after the reads.
NoSvmEnded == SvmRead \cup {"write_tree", "write_centers", "filter0"}

\* The event variables after each command, and the commands that their values stand for.
LEMMA NoSvmEventsAre ==
  /\ Progress(NoSvmEvent1, 1, {}) /\ Progress(NoSvmEvent2, 2, {})
  /\ Progress(NoSvmEvent3, 3, {}) /\ Progress(NoSvmEvent4, 4, {}) /\ Progress(NoSvmEvent5, 5, {})
  /\ Progress(NoSvmEvent6, 6, {}) /\ Progress(NoSvmEvent7, 7, {})
  /\ NoSvmEvent3["write_event0"] # "none" /\ NoSvmEvent3["write_event1"] # "none"
  /\ NoSvmEvent4["kernel0_event"] # "none"
  /\ NoSvmEvent5["kernel1_event"] # "none" /\ NoSvmEvent6["kernel1_event"] # "none"
  /\ NoSvmEvent7["write_event0"] = "write_tree" /\ NoSvmEvent7["write_event1"] = "write_centers"
  /\ NoSvmEvent7["kernel0_event"] = "filter0" /\ NoSvmEvent7["kernel1_event"] = "filter1"
  /\ NoSvmEvent7["finish_event"] = "read_distortion"
<1>0. {"write_tree", "write_centers", "filter0", "filter1", "read_visited", "read_centers", "read_distortion"}
         \subseteq Commands
      /\ {"write_event0", "write_event1", "kernel0_event", "kernel1_event", "finish_event"} \subseteq EventVars
  BY DEF Commands, EventVars
<1>1. Progress(NoEvents, 0, {})
  BY DEF Progress, NoEvents
<1>2. Progress(NoSvmEvent1, 1, {})
  <2>1. "write_event0" \in EventVars /\ "write_tree" \in Commands /\ 0 < 7 /\ 1 = 0 + 1
    BY <1>0
  <2> QED BY <1>1, <2>1, ProgressOn DEF NoSvmEvent1
<1>3. Progress(NoSvmEvent2, 2, {})
  <2>1. "write_event1" \in EventVars /\ "write_centers" \in Commands /\ 1 < 7 /\ 2 = 1 + 1
    BY <1>0
  <2> QED BY <1>2, <2>1, ProgressOn DEF NoSvmEvent2
<1>4. Progress(NoSvmEvent3, 3, {})
  <2>1. "kernel1_event" \in EventVars /\ "filter1" \in Commands /\ 2 < 7 /\ 3 = 2 + 1
    BY <1>0
  <2> QED BY <1>3, <2>1, ProgressOn DEF NoSvmEvent3
<1>5. Progress(NoSvmEvent4, 4, {})
  <2>1. "kernel0_event" \in EventVars /\ "filter0" \in Commands /\ 3 < 7 /\ 4 = 3 + 1
    BY <1>0
  <2> QED BY <1>4, <2>1, ProgressOn DEF NoSvmEvent4
<1>6. Progress(NoSvmEvent5, 5, {})
  <2>1. "finish_event" \in EventVars /\ "read_visited" \in Commands /\ 4 < 7 /\ 5 = 4 + 1
    BY <1>0
  <2> QED BY <1>5, <2>1, ProgressOn DEF NoSvmEvent5
<1>7. Progress(NoSvmEvent6, 6, {})
  <2>1. "finish_event" \in EventVars /\ "read_centers" \in Commands /\ 5 < 7 /\ 6 = 5 + 1
    BY <1>0
  <2> QED BY <1>6, <2>1, ProgressOn DEF NoSvmEvent6
<1>8. Progress(NoSvmEvent7, 7, {})
  <2>1. "finish_event" \in EventVars /\ "read_distortion" \in Commands /\ 6 < 7 /\ 7 = 6 + 1
    BY <1>0
  <2> QED BY <1>7, <2>1, ProgressOn DEF NoSvmEvent7
<1>9. NoSvmEvent1["write_event0"] = "write_tree"
  BY DEF NoSvmEvent1, NoEvents, EventVars
<1>10. NoSvmEvent2["write_event0"] = "write_tree" /\ NoSvmEvent2["write_event1"] = "write_centers"
  BY <1>2, <1>9 DEF NoSvmEvent2, Progress, EventVars
<1>11. NoSvmEvent3["write_event0"] = "write_tree" /\ NoSvmEvent3["write_event1"] = "write_centers"
       /\ NoSvmEvent3["kernel1_event"] = "filter1"
  BY <1>3, <1>10 DEF NoSvmEvent3, Progress, EventVars
<1>12. NoSvmEvent4["write_event0"] = "write_tree" /\ NoSvmEvent4["write_event1"] = "write_centers"
       /\ NoSvmEvent4["kernel1_event"] = "filter1" /\ NoSvmEvent4["kernel0_event"] = "filter0"
  BY <1>4, <1>11 DEF NoSvmEvent4, Progress, EventVars
<1>13. NoSvmEvent5["write_event0"] = "write_tree" /\ NoSvmEvent5["write_event1"] = "write_centers"
       /\ NoSvmEvent5["kernel1_event"] = "filter1" /\ NoSvmEvent5["kernel0_event"] = "filter0"
  BY <1>5, <1>12 DEF NoSvmEvent5, Progress, EventVars
<1>14. NoSvmEvent6["write_event0"] = "write_tree" /\ NoSvmEvent6["write_event1"] = "write_centers"
       /\ NoSvmEvent6["kernel1_event"] = "filter1" /\ NoSvmEvent6["kernel0_event"] = "filter0"
  BY <1>6, <1>13 DEF NoSvmEvent6, Progress, EventVars
<1>15. NoSvmEvent7["write_event0"] = "write_tree" /\ NoSvmEvent7["write_event1"] = "write_centers"
       /\ NoSvmEvent7["kernel1_event"] = "filter1" /\ NoSvmEvent7["kernel0_event"] = "filter0"
       /\ NoSvmEvent7["finish_event"] = "read_distortion"
  BY <1>7, <1>14 DEF NoSvmEvent7, Progress, EventVars
<1> QED BY <1>2, <1>3, <1>4, <1>5, <1>6, <1>7, <1>8, <1>11, <1>12, <1>13, <1>14, <1>15

\* The commands from the writes to the kernels.
LEMMA LeadsNoSvmCommands ==
  /\ Leads("no_svm", Known(NoSvmHeld, Base("no_svm"), NoEvents, 0, {}), NoSvm_writes,
                     Known(NoSvmHeld, Base("no_svm"), NoSvmEvent2, 2, {}))
  /\ Leads("no_svm", Known(NoSvmHeld, Base("no_svm"), NoSvmEvent2, 2, {}), NoSvm_args,
                     Known(NoSvmHeld, Base("no_svm"), NoSvmEvent2, 2, {}))
  /\ Leads("no_svm", Known(NoSvmHeld, Base("no_svm"), NoSvmEvent2, 2, {}), NoSvm_launch,
                     Known(NoSvmHeld, Base("no_svm"), NoSvmEvent4, 4, {}))
<1> DEFINE U == Base("no_svm")
           M == NoSvmHeld
<1>1. M \subseteq U /\ U \subseteq Cleans("no_svm")
  BY NoSvmNames, BaseIs
<1>2. {"queue0", "queue1", "kernel0", "kernel1", "initial_centers_buf", "tree_memory_buf", "visited_nodes_buf",
       "new_centers_buf", "distortion_buf"} \subseteq M
  BY DEF NoSvmHeld, Opened
<1>3. {"write_tree", "write_centers", "filter0", "filter1"} \subseteq Commands
      /\ {"write_event0", "write_event1", "kernel0_event", "kernel1_event"} \subseteq EventVars
  BY DEF Commands, EventVars
<1>4. /\ Plan("no_svm")[1] = Planned("write_tree", "queue0", {"tree_memory"})
      /\ Plan("no_svm")[2] = Planned("write_centers", "queue0", {"initial_centers"})
      /\ Plan("no_svm")[3] = Planned("filter1", "queue1", {})
      /\ Plan("no_svm")[4] = Planned("filter0", "queue0", {})
  BY DEF Plan, NoSvmPlan
<1>5. Progress(NoEvents, 0, {})
  BY SvmEventsAre
<1> HIDE DEF U, M
<1>6. Leads("no_svm", Known(M, U, NoEvents, 0, {}), NoSvm_writes, Known(M, U, NoSvmEvent2, 2, {}))
  <2>1. 0 < 7 /\ 1 = 0 + 1 /\ 1 < 7 /\ 2 = 1 + 1 /\ "write_tree" \in Commands /\ "write_centers" \in Commands
        /\ "write_event0" \in EventVars /\ "write_event1" \in EventVars /\ "queue0" \in M
        /\ {"tree_memory_buf"} \subseteq M /\ {"initial_centers_buf"} \subseteq M
        /\ {} \subseteq EventVars /\ (\A e \in {} : NoEvents[e] # "none")
           /\ \A e \in {} : NoSvmEvent1[e] # "none"
    BY <1>2, <1>3
  <2>2. Leads("no_svm", Known(M, U, NoEvents, 0, {}),
              Write("write_tree", "queue0", "tree_memory_buf", "write_event0", "tree_memory"),
              Known(M, U, NoSvmEvent1, 1, {}))
    BY <1>1, <1>4, <1>5, <2>1, LeadsEnqueue DEF NoSvmEvent1, Write
  <2>3. Leads("no_svm", Known(M, U, NoSvmEvent1, 1, {}),
              Write("write_centers", "queue0", "initial_centers_buf", "write_event1", "initial_centers"),
              Known(M, U, NoSvmEvent2, 2, {}))
    BY <1>1, <1>4, <2>1, NoSvmEventsAre, LeadsEnqueue DEF NoSvmEvent2, Write
  <2> QED BY <2>2, <2>3, LeadsOn DEF NoSvm_writes
<1>7. Leads("no_svm", Known(M, U, NoSvmEvent2, 2, {}), NoSvm_args, Known(M, U, NoSvmEvent2, 2, {}))
  <2> DEFINE xs == <<{}, {}, {"tree_memory_buf"}, {"initial_centers_buf"}, {"visited_nodes_buf"}>>
             ys == <<{}, {"new_centers_buf"}, {"distortion_buf"}>>
  <2>1. Len(xs) \in Nat /\ \A i \in 1 .. Len(xs) : xs[i] \subseteq M
    BY <1>2
  <2>2. Len(ys) \in Nat /\ \A i \in 1 .. Len(ys) : ys[i] \subseteq M
    BY <1>2
  <2>3. "kernel0" \in M /\ "kernel1" \in M
    BY <1>2
  <2> HIDE DEF xs, ys
  <2>4. Leads("no_svm", Known(M, U, NoSvmEvent2, 2, {}), Arguments("kernel0", xs),
              Known(M, U, NoSvmEvent2, 2, {}))
    BY <1>1, <2>1, <2>3, NoSvmEventsAre, LeadsArguments
  <2>5. Leads("no_svm", Known(M, U, NoSvmEvent2, 2, {}), Arguments("kernel1", ys),
              Known(M, U, NoSvmEvent2, 2, {}))
    BY <1>1, <2>2, <2>3, NoSvmEventsAre, LeadsArguments
  <2>6. Leads("no_svm", Known(M, U, NoSvmEvent2, 2, {}), Arguments("kernel0", xs) \o Arguments("kernel1", ys),
                        Known(M, U, NoSvmEvent2, 2, {}))
    BY <2>4, <2>5, LeadsOn
  <2> QED BY <2>6 DEF NoSvm_args, xs, ys
<1>8. Leads("no_svm", Known(M, U, NoSvmEvent2, 2, {}), NoSvm_launch, Known(M, U, NoSvmEvent4, 4, {}))
  <2>1. 2 < 7 /\ 3 = 2 + 1 /\ 3 < 7 /\ 4 = 3 + 1 /\ {"filter0", "filter1"} \subseteq Commands
        /\ "kernel0_event" \in EventVars /\ "kernel1_event" \in EventVars /\ "queue0" \in M /\ "queue1" \in M
        /\ {"kernel0"} \subseteq M /\ {"kernel1"} \subseteq M
           /\ ({} \subseteq EventVars /\ \A e \in {} : NoSvmEvent2[e] # "none")
        /\ {"write_event0", "write_event1"} \subseteq EventVars
           /\ \A e \in {"write_event0", "write_event1"} : NoSvmEvent3[e] # "none"
    BY <1>2, <1>3, NoSvmEventsAre
  <2>2. Leads("no_svm", Known(M, U, NoSvmEvent2, 2, {}), Enqueue("filter1", "queue1", {"kernel1"}, {}, "kernel1_event", {}),
              Known(M, U, NoSvmEvent3, 3, {}))
    BY <1>1, <1>4, <2>1, NoSvmEventsAre, LeadsEnqueue DEF NoSvmEvent3
  <2>3. Leads("no_svm", Known(M, U, NoSvmEvent3, 3, {}),
              Enqueue("filter0", "queue0", {"kernel0"}, {"write_event0", "write_event1"}, "kernel0_event", {}),
              Known(M, U, NoSvmEvent4, 4, {}))
    BY <1>1, <1>4, <2>1, NoSvmEventsAre, LeadsEnqueue DEF NoSvmEvent4
  <2> QED BY <2>2, <2>3, LeadsOn DEF NoSvm_launch
<1> QED BY <1>6, <1>7, <1>8 DEF U, M

\* The reads, and the waits after them.
LEMMA LeadsNoSvmReadout ==
  Leads("no_svm", Known(NoSvmHeld, Base("no_svm"), NoSvmEvent4, 4, {}), NoSvm_readout,
                  Known(NoSvmHeld, Base("no_svm"), NoSvmEvent7, 7, NoSvmEnded))
<1> DEFINE U == Base("no_svm")
           M == NoSvmHeld
           xs == <<"finish_event", "kernel0_event", "kernel1_event">>
           ens == [i \in 0 .. 3 |-> IF i = 0 THEN {} ELSE IF i = 1 THEN SvmRead ELSE NoSvmEnded]
           ended(i, cmd) == EndedWith("no_svm", Known(M, U, NoSvmEvent7, 7, ens[i]), cmd)
<1>1. M \subseteq U /\ U \subseteq Names /\ U \subseteq Cleans("no_svm")
  BY NoSvmNames, BaseIs
<1>2. Len(xs) = 3 /\ Len(xs) \in Nat /\ xs[1] = "finish_event" /\ xs[2] = "kernel0_event"
      /\ xs[3] = "kernel1_event"
  OBVIOUS
<1>3. ens[0] = {} /\ ens[1] = SvmRead /\ ens[2] = NoSvmEnded /\ ens[3] = NoSvmEnded
  OBVIOUS
<1>4. \A i \in 0 .. 3 : Progress(NoSvmEvent7, 7, ens[i])
  <2>1. SvmRead \subseteq Commands /\ NoSvmEnded \subseteq Commands
    BY DEF SvmRead, NoSvmEnded, Commands
  <2>2. \A i \in 0 .. 3 : ens[i] \subseteq Commands
    BY <2>1
  <2> HIDE DEF ens
  <2> QED BY <2>2, NoSvmEventsAre DEF Progress
<1>5. {"queue0", "queue1", "visited_nodes_buf", "new_centers_buf", "distortion_buf"} \subseteq M
  BY DEF NoSvmHeld, Opened
<1> HIDE DEF xs, ens, U, M
<1>6. SvmRead \subseteq ended(0, "read_distortion")
  <2>1. Known(M, U, NoSvmEvent7, 7, ens[0]).sent = 7
    BY DEF Known
  <2>2. \A j \in {6, 7} : j \in 1 .. 7 /\ 7 \in j .. 7
    OBVIOUS
  <2>3. Plan("no_svm")[6].cmd = "read_centers" /\ Plan("no_svm")[7].cmd = "read_distortion"
        /\ Plan("no_svm")[6].queue = "queue1" /\ Plan("no_svm")[7].queue = "queue1"
    BY DEF Plan, NoSvmPlan, Planned
  <2>4. "read_centers" \in ended(0, "read_distortion") /\ "read_distortion" \in ended(0, "read_distortion")
    BY <2>1, <2>2, <2>3 DEF EndedWith
  <2> QED BY <2>4 DEF SvmRead
<1>7. NoSvmEnded \subseteq ens[1] \cup ended(1, "filter0")
  <2>1. Known(M, U, NoSvmEvent7, 7, ens[1]).sent = 7
    BY DEF Known
  <2>2. \A j \in {1, 2, 4} : j \in 1 .. 7 /\ 4 \in j .. 7
    OBVIOUS
  <2>3. Plan("no_svm")[1].cmd = "write_tree" /\ Plan("no_svm")[2].cmd = "write_centers"
        /\ Plan("no_svm")[4].cmd = "filter0"
        /\ Plan("no_svm")[1].queue = "queue0" /\ Plan("no_svm")[2].queue = "queue0"
           /\ Plan("no_svm")[4].queue = "queue0"
    BY DEF Plan, NoSvmPlan, Planned
  <2>4. "write_tree" \in ended(1, "filter0") /\ "write_centers" \in ended(1, "filter0")
        /\ "filter0" \in ended(1, "filter0")
    BY <2>1, <2>2, <2>3 DEF EndedWith
  <2> HIDE DEF ended
  <2> QED BY <2>4, <1>3 DEF NoSvmEnded
<1>8. ASSUME NEW i \in 1 .. 3
      PROVE  NoSvmEvent7[xs[i]] # "none" /\ ens[i] \subseteq ens[i - 1] \cup ended(i - 1, NoSvmEvent7[xs[i]])
  <2> HIDE DEF ended
  <2>1. CASE i = 1
    BY <2>1, <1>2, <1>3, <1>6, NoSvmEventsAre
  <2>2. CASE i = 2
    BY <2>2, <1>2, <1>3, <1>7, NoSvmEventsAre
  <2>3. CASE i = 3
    BY <2>3, <1>2, <1>3, NoSvmEventsAre
  <2> QED BY <2>1, <2>2, <2>3
<1>9. Leads("no_svm", Known(M, U, NoSvmEvent7, 7, {}), Each(Wait, xs), Known(M, U, NoSvmEvent7, 7, NoSvmEnded))
  <2>1. Leads("no_svm", Known(M, U, NoSvmEvent7, 7, ens[0]), Each(Wait, xs),
              Known(M, U, NoSvmEvent7, 7, ens[Len(xs)]))
    BY <1>1, <1>2, <1>4, <1>8, LeadsWaits
  <2> QED BY <1>2, <1>3, <2>1
<1>10. /\ Plan("no_svm")[5] = Planned("read_visited", "queue0", {"visited_nodes"})
       /\ Plan("no_svm")[6] = Planned("read_centers", "queue1", {"new_centers"})
       /\ Plan("no_svm")[7] = Planned("read_distortion", "queue1", {"distortion"})
  BY DEF Plan, NoSvmPlan
<1>11. 4 < 7 /\ 5 = 4 + 1 /\ 5 < 7 /\ 6 = 5 + 1 /\ 6 < 7 /\ 7 = 6 + 1
       /\ {"read_visited", "read_centers", "read_distortion"} \subseteq Commands
       /\ "finish_event" \in EventVars /\ "queue0" \in M /\ "queue1" \in M
       /\ {"visited_nodes_buf"} \subseteq M /\ {"new_centers_buf"} \subseteq M /\ {"distortion_buf"} \subseteq M
       /\ {"kernel0_event"} \subseteq EventVars /\ {"kernel1_event"} \subseteq EventVars
       /\ (\A e \in {"kernel0_event"} : NoSvmEvent4[e] # "none")
          /\ (\A e \in {"kernel1_event"} : NoSvmEvent5[e] # "none")
       /\ (\A e \in {"kernel1_event"} : NoSvmEvent6[e] # "none")
  BY <1>5, NoSvmEventsAre DEF Commands, EventVars
<1>12. Leads("no_svm", Known(M, U, NoSvmEvent4, 4, {}),
             Read("read_visited", "queue0", "visited_nodes_buf", "kernel0_event", "finish_event", "visited_nodes"),
             Known(M, U, NoSvmEvent5, 5, {}))
  BY <1>1, <1>10, <1>11, NoSvmEventsAre, LeadsEnqueue DEF NoSvmEvent5, Read
<1>13. Leads("no_svm", Known(M, U, NoSvmEvent5, 5, {}),
             Read("read_centers", "queue1", "new_centers_buf", "kernel1_event", "finish_event", "new_centers"),
             Known(M, U, NoSvmEvent6, 6, {}))
  BY <1>1, <1>10, <1>11, NoSvmEventsAre, LeadsEnqueue DEF NoSvmEvent6, Read
<1>14. Leads("no_svm", Known(M, U, NoSvmEvent6, 6, {}),
             Read("read_distortion", "queue1", "distortion_buf", "kernel1_event", "finish_event", "distortion"),
             Known(M, U, NoSvmEvent7, 7, {}))
  BY <1>1, <1>10, <1>11, NoSvmEventsAre, LeadsEnqueue DEF NoSvmEvent7, Read
<1>15. Leads("no_svm", Known(M, U, NoSvmEvent4, 4, {}), NoSvm_readout, Known(M, U, NoSvmEvent7, 7, NoSvmEnded))
  BY <1>9, <1>12, <1>13, <1>14, LeadsOn4 DEF NoSvm_readout, xs
<1> QED BY <1>15 DEF U, M

\* The report shows what has been read, and releases the events that were set.
LEMMA LeadsNoSvmReport ==
  \E last : /\ Progress(last, 7, NoSvmEnded)
            /\ Leads("no_svm", Known(NoSvmHeld, Base("no_svm"), NoSvmEvent7, 7, NoSvmEnded), NoSvm_report,
                            Known(NoSvmHeld, Base("no_svm"), last, 7, NoSvmEnded))
<1> DEFINE U == Base("no_svm")
           M == NoSvmHeld
           k == Known(M, U, NoSvmEvent7, 7, NoSvmEnded)
           xs == <<"visited_nodes", "new_centers", "distortion">>
           es == <<"write_event0", "write_event1", "kernel1_event", "kernel0_event", "finish_event">>
<1>1. M \subseteq U /\ U \subseteq Names /\ U \subseteq Cleans("no_svm")
  BY NoSvmNames, BaseIs
<1>2. Progress(NoSvmEvent7, 7, NoSvmEnded)
  BY NoSvmEventsAre DEF Progress, NoSvmEnded, SvmRead, Commands
<1>3. Len(xs) \in Nat /\ {"read_centers", "read_distortion"} \subseteq NoSvmEnded
  BY DEF NoSvmEnded, SvmRead
<1>4. Len(es) \in Nat /\ (\A i \in 1 .. Len(es) : es[i] \in EventVars /\ NoSvmEvent7[es[i]] # "none")
      /\ \A i, j \in 1 .. Len(es) : es[i] = es[j] => i = j
  <2>1. Len(es) = 5 /\ es[1] = "write_event0" /\ es[2] = "write_event1" /\ es[3] = "kernel1_event"
        /\ es[4] = "kernel0_event"
        /\ es[5] = "finish_event"
    OBVIOUS
  <2> HIDE DEF es
  <2>2. \A i \in 1 .. Len(es) : i = 1 \/ i = 2 \/ i = 3 \/ i = 4 \/ i = 5
    BY <2>1
  <2>3. ASSUME NEW i \in 1 .. Len(es) PROVE es[i] \in EventVars /\ NoSvmEvent7[es[i]] # "none"
    BY <2>1, <2>2, NoSvmEventsAre DEF EventVars
  <2>4. \A i, j \in 1 .. Len(es) : es[i] = es[j] => i = j
    BY <2>1, <2>2
  <2>5. Len(es) \in Nat
    BY <2>1
  <2> QED BY <2>3, <2>4, <2>5
<1> HIDE DEF U, M, xs, es
<1>5. Leads("no_svm", k, Each(Show, xs), k)
  BY <1>1, <1>2, <1>3, LeadsShows
<1>6. Leads("no_svm", k, getStartEndTime("kernel0_event"), k)
  <2>1. NoSvmEvent7["kernel0_event"] \in NoSvmEnded
    BY NoSvmEventsAre DEF NoSvmEnded
  <2> QED BY <1>1, <1>2, <2>1, LeadsTimes
<1>7. PICK last : Progress(last, 7, NoSvmEnded) /\ Leads("no_svm", k, Each(ReleaseEvent, es),
                                                         Known(M, U, last, 7, NoSvmEnded))
  BY <1>1, <1>2, <1>4, LeadsReleaseEvents
<1> HIDE DEF k
<1>8. Leads("no_svm", k, NoSvm_report, Known(M, U, last, 7, NoSvmEnded))
  BY <1>5, <1>6, <1>7, LeadsOn3 DEF NoSvm_report, xs, es
<1> QED BY <1>7, <1>8 DEF k, U, M

\* What cleanup releases, in its order.
NoSvmReleased ==
  <<"kernel0", "queue0", "kernel1", "queue1", "tree_memory_buf", "initial_centers_buf",
    "visited_nodes_buf", "new_centers_buf", "distortion_buf", "program", "context",
    "tree_memory", "initial_centers", "visited_nodes", "new_centers", "distortion">>

\* cleanup leaves nothing behind but what it has no name for, and no leaves.
LEMMA NoSvmReleases ==
  /\ NoSvm_cleanup = Each(Release, NoSvmReleased) /\ Len(NoSvmReleased) = 16 /\ Len(NoSvmReleased) \in Nat
     /\ Len(NoSvmReleased) # 0
  /\ Cleans("no_svm") \ Firsts(NoSvmReleased, Len(NoSvmReleased)) \subseteq Leftover("no_svm")
  /\ Base("no_svm") \ Firsts(NoSvmReleased, Len(NoSvmReleased)) \subseteq Rest("no_svm")
<1>1. NoSvm_cleanup = Each(Release, NoSvmReleased)
  BY DEF NoSvm_cleanup, NoSvmReleased
<1>2. Len(NoSvmReleased) = 16 /\ Len(NoSvmReleased) \in Nat /\ Len(NoSvmReleased) # 0
  BY DEF NoSvmReleased
<1> DEFINE F == Firsts(NoSvmReleased, Len(NoSvmReleased))
<1>3. {"kernel0", "queue0", "kernel1", "queue1", "tree_memory_buf", "initial_centers_buf"} \subseteq F
  <2>1. {NoSvmReleased[1], NoSvmReleased[2], NoSvmReleased[3], NoSvmReleased[4], NoSvmReleased[5], NoSvmReleased[6]} \subseteq F
    BY <1>2 DEF Firsts
  <2> HIDE DEF F
  <2> QED BY <2>1 DEF NoSvmReleased
<1>4. {"visited_nodes_buf", "new_centers_buf", "distortion_buf", "program", "context"} \subseteq F
  <2>1. {NoSvmReleased[7], NoSvmReleased[8], NoSvmReleased[9], NoSvmReleased[10], NoSvmReleased[11]} \subseteq F
    BY <1>2 DEF Firsts
  <2> HIDE DEF F
  <2> QED BY <2>1 DEF NoSvmReleased
<1>5. {"tree_memory", "initial_centers", "visited_nodes", "new_centers", "distortion"} \subseteq F
  <2>1. {NoSvmReleased[12], NoSvmReleased[13], NoSvmReleased[14], NoSvmReleased[15], NoSvmReleased[16]} \subseteq F
    BY <1>2 DEF Firsts
  <2> HIDE DEF F
  <2> QED BY <2>1 DEF NoSvmReleased
<1> HIDE DEF F
<1>6. Cleans("no_svm") \ F \subseteq Leftover("no_svm")
  BY <1>3, <1>4, <1>5 DEF Cleans, Leftover, Rest, Names, Objects, HostMemory, Files
<1>7. Base("no_svm") \ F \subseteq Rest("no_svm")
  BY <1>6 DEF Base, Local, Leftover
<1> QED BY <1>1, <1>2, <1>6, <1>7 DEF F

\* Nothing that cleanup takes away is worked on, but the two results nobody waits for.
LEMMA NoSvmNothingInUse ==
  ASSUME NEW M, NEW U, NEW ev, NEW x
  PROVE  ~StillUses("no_svm", Known(M, U, ev, 7, NoSvmEnded), x)
<1>1. ASSUME NEW i \in 1 .. 7
      PROVE  Plan("no_svm")[i].cmd \in NoSvmEnded \/ Plan("no_svm")[i].uses \subseteq {"visited_nodes"}
  <2>1. i \in {1, 2, 3, 4, 5, 6, 7}
    OBVIOUS
  <2>2. /\ Plan("no_svm")[1].cmd = "write_tree" /\ Plan("no_svm")[2].cmd = "write_centers"
        /\ Plan("no_svm")[3].uses = {} /\ Plan("no_svm")[4].cmd = "filter0"
        /\ Plan("no_svm")[5].uses = {"visited_nodes"}
        /\ Plan("no_svm")[6].cmd = "read_centers" /\ Plan("no_svm")[7].cmd = "read_distortion"
    BY DEF Plan, NoSvmPlan, Planned
  <2> QED BY <2>1, <2>2 DEF NoSvmEnded, SvmRead
<1>2. Known(M, U, ev, 7, NoSvmEnded).sent = 7 /\ Known(M, U, ev, 7, NoSvmEnded).ended = NoSvmEnded
  BY DEF Known
<1> QED BY <1>1, <1>2 DEF StillUses

\* The whole program.
LEMMA LeadsNoSvm ==
  ASSUME NEW s \in Settings
  PROVE  \E m : Final("no_svm", m)
               /\ Leads("no_svm", Known({}, Arrays, NoEvents, 0, {}), NoSvm_main(s), m)
<1> DEFINE U == Base("no_svm")
           k0 == Known({}, Arrays, NoEvents, 0, {})
           k1 == Known(Opened, U, NoEvents, 0, {})
           k2 == Known(NoSvmHeld, U, NoEvents, 0, {})
           k3 == Known(NoSvmHeld, U, NoSvmEvent2, 2, {})
           k4 == Known(NoSvmHeld, U, NoSvmEvent4, 4, {})
           k5 == Known(NoSvmHeld, U, NoSvmEvent7, 7, NoSvmEnded)
           F == Firsts(NoSvmReleased, Len(NoSvmReleased))
<1>0. Progress(NoEvents, 0, {}) /\ U \subseteq Names /\ NoSvmHeld \subseteq U
  BY SvmEventsAre, NoSvmNames
<1>1. Leads("no_svm", k0, ReadInputs(s), k0)
  BY <1>0, LeadsReadInputs
<1>2. Leads("no_svm", k0, NoSvm_init_opencl(s), k1)
  BY <1>0, LeadsInit DEF NoSvm_init_opencl
<1>3. Leads("no_svm", k1, NoSvm_setup, k1) /\ Leads("no_svm", k1, NoSvm_buffers, k2)
  BY <1>0, LeadsNoSvmBuffers
<1>4. Leads("no_svm", k2, NoSvm_writes, k3) /\ Leads("no_svm", k3, NoSvm_args, k3)
      /\ Leads("no_svm", k3, NoSvm_launch, k4)
  BY LeadsNoSvmCommands
<1>5. Leads("no_svm", k4, NoSvm_readout, k5)
  BY LeadsNoSvmReadout
<1>6. PICK last : Progress(last, 7, NoSvmEnded) /\ Leads("no_svm", k5, NoSvm_report,
                                                         Known(NoSvmHeld, U, last, 7, NoSvmEnded))
  BY LeadsNoSvmReport
<1> DEFINE k6 == Known(NoSvmHeld, U, last, 7, NoSvmEnded)
           k7 == Known(NoSvmHeld \ F, U \ F, last, 7, NoSvmEnded)
<1>7. Leads("no_svm", k6, NoSvm_cleanup, k7)
  <2>1. Len(NoSvmReleased) \in Nat
    BY NoSvmReleases
  <2> HIDE DEF U
  <2>2. Leads("no_svm", k6, Each(Release, NoSvmReleased), k7)
    BY <1>0, <1>6, <2>1, NoSvmNothingInUse, LeadsReleases
  <2> QED BY <2>2, NoSvmReleases
<1>8. Final("no_svm", k7)
  BY NoSvmReleases DEF Final, Known, Unfreed
<1>9. Leads("no_svm", k5, NoSvm_report, k6)
  BY <1>6
<1> HIDE DEF k0, k1, k2, k3, k4, k5, k6, k7
<1>10. Leads("no_svm", k0, ReadInputs(s) \o NoSvm_init_opencl(s) \o NoSvm_setup \o NoSvm_buffers, k2)
  BY <1>1, <1>2, <1>3, LeadsOn4
<1>11. Leads("no_svm", k0, ReadInputs(s) \o NoSvm_init_opencl(s) \o NoSvm_setup \o NoSvm_buffers
                             \o NoSvm_writes \o NoSvm_args \o NoSvm_launch, k4)
  BY <1>4, <1>10, LeadsOn4
<1>12. Leads("no_svm", k0, NoSvm_main(s), k7)
  BY <1>5, <1>7, <1>9, <1>11, LeadsOn4 DEF NoSvm_main
<1> QED BY <1>8, <1>12 DEF k0

-----------------------------------------------------------------------------
(***************************************************************************)
(* The inductive invariant.                                                *)
(***************************************************************************)

\* How far a command is.
Statuses == {"queued", "running", "sent", "complete"}

\* The commands are the first ones of the plan, and a queue executes them in order.
QueuesInOrder ==
  /\ cmds \in Seq([cmd : Commands, queue : {"queue0", "queue1"}, waits : SUBSET (Commands \cup {"none"}),
                   uses : SUBSET Names, status : Statuses])
  /\ Len(cmds) <= 7
  /\ \A i \in 1 .. Len(cmds) : /\ cmds[i].cmd = Plan(build)[i].cmd /\ cmds[i].queue = Plan(build)[i].queue
                               /\ cmds[i].uses = Plan(build)[i].uses
  /\ \A i \in 1 .. Len(cmds) : \A j \in 1 .. i - 1 :
       cmds[i].queue = cmds[j].queue /\ cmds[i].status # "queued" => cmds[j].status = "complete"

\* What is known is so.
Matches(a) ==
  /\ a \in Knowledge
  /\ a.must \subseteq held /\ held \subseteq a.may
  /\ events = a.events /\ Len(cmds) = a.sent
  /\ \A c \in a.ended : Complete(c)

\* While nothing has failed, what is known makes the calls to come legal.
GoesOn == \E a, m : Matches(a) /\ Final(build, m) /\ Leads(build, a, todo, m)

\* After a failure there are only releases to come.
CleansUp ==
  /\ \E S : todo \in Seq(S)
  /\ \A i \in 1 .. Len(todo) : todo[i].op = "release" /\ todo[i].needs = {} /\ todo[i].fail = "never"
  /\ held \subseteq Leftover(build) \cup {todo[i].x : i \in 1 .. Len(todo)}

\* While nothing has failed there is a chain of legal calls to come; after a failure
\* there are the releases of cleanup, or nothing.
HostInv ==
  /\ build \in Builds /\ held \subseteq Names
  /\ events \in [EventVars -> Commands \cup {"none"}]
  /\ QueuesInOrder /\ NoUseAfterFree
  /\ \/ outcome = "ok" /\ GoesOn
     \/ outcome = "cleanup" /\ CleansUp
     \/ outcome = "return" /\ todo = <<>> /\ held \subseteq Arrays
     \/ outcome \in {"exit", "killed"} /\ todo = <<>>

\* No command is planned twice, and the commands work on memory of the host.
LEMMA PlanTyped ==
  ASSUME NEW b
  PROVE  /\ \A i \in 1 .. 7 : /\ Plan(b)[i].cmd \in Commands /\ Plan(b)[i].queue \in {"queue0", "queue1"}
                              /\ Plan(b)[i].uses \subseteq HostMemory
         /\ \A i, j \in 1 .. 7 : Plan(b)[i].cmd = Plan(b)[j].cmd => i = j
<1>1. \A i \in 1 .. 7 : i \in {1, 2, 3, 4, 5, 6, 7}
  OBVIOUS
<1>2. /\ {"initial_centers"} \subseteq HostMemory /\ {} \subseteq HostMemory /\ {"root", "leaves"} \subseteq HostMemory
         /\ {"visited_nodes"} \subseteq HostMemory
      /\ {"profiling_data"} \subseteq HostMemory /\ {"new_centers"} \subseteq HostMemory
         /\ {"distortion"} \subseteq HostMemory
      /\ {"tree_memory"} \subseteq HostMemory
  BY DEF HostMemory
<1>3. CASE b = "svm"
  <2>1. Plan(b) = SvmPlan
    BY <1>3 DEF Plan
  <2>2. /\ SvmPlan[1].cmd = "write_centers" /\ SvmPlan[2].cmd = "filter1" /\ SvmPlan[3].cmd = "filter0"
        /\ SvmPlan[4].cmd = "read_visited" /\ SvmPlan[5].cmd = "read_profiling"
           /\ SvmPlan[6].cmd = "read_centers"
        /\ SvmPlan[7].cmd = "read_distortion"
    BY DEF SvmPlan, Planned
  <2>3. \A i \in 1 .. 7 : SvmPlan[i].cmd \in Commands
    BY <1>1, <2>2 DEF Commands
  <2>4. \A i, j \in 1 .. 7 : SvmPlan[i].cmd = SvmPlan[j].cmd => i = j
    BY <1>1, <2>2
  <2>5. \A i \in 1 .. 7 : SvmPlan[i].queue \in {"queue0", "queue1"}
    BY <1>1 DEF SvmPlan, Planned
  <2>6. \A i \in 1 .. 7 : SvmPlan[i].uses \subseteq HostMemory
    <3>1. /\ SvmPlan[1].uses = {"initial_centers"} /\ SvmPlan[2].uses = {} /\ SvmPlan[3].uses = {"root", "leaves"}
          /\ SvmPlan[4].uses = {"visited_nodes"} /\ SvmPlan[5].uses = {"profiling_data"}
             /\ SvmPlan[6].uses = {"new_centers"}
          /\ SvmPlan[7].uses = {"distortion"}
      BY DEF SvmPlan, Planned
    <3> QED BY <1>1, <1>2, <3>1
  <2> QED BY <2>1, <2>3, <2>4, <2>5, <2>6
<1>4. CASE b # "svm"
  <2>1. Plan(b) = NoSvmPlan
    BY <1>4 DEF Plan
  <2>2. /\ NoSvmPlan[1].cmd = "write_tree" /\ NoSvmPlan[2].cmd = "write_centers" /\ NoSvmPlan[3].cmd = "filter1"
        /\ NoSvmPlan[4].cmd = "filter0" /\ NoSvmPlan[5].cmd = "read_visited"
           /\ NoSvmPlan[6].cmd = "read_centers"
        /\ NoSvmPlan[7].cmd = "read_distortion"
    BY DEF NoSvmPlan, Planned
  <2>3. \A i \in 1 .. 7 : NoSvmPlan[i].cmd \in Commands
    BY <1>1, <2>2 DEF Commands
  <2>4. \A i, j \in 1 .. 7 : NoSvmPlan[i].cmd = NoSvmPlan[j].cmd => i = j
    BY <1>1, <2>2
  <2>5. \A i \in 1 .. 7 : NoSvmPlan[i].queue \in {"queue0", "queue1"}
    BY <1>1 DEF NoSvmPlan, Planned
  <2>6. \A i \in 1 .. 7 : NoSvmPlan[i].uses \subseteq HostMemory
    <3>1. /\ NoSvmPlan[1].uses = {"tree_memory"} /\ NoSvmPlan[2].uses = {"initial_centers"}
             /\ NoSvmPlan[3].uses = {}
          /\ NoSvmPlan[4].uses = {} /\ NoSvmPlan[5].uses = {"visited_nodes"}
             /\ NoSvmPlan[6].uses = {"new_centers"}
          /\ NoSvmPlan[7].uses = {"distortion"}
      BY DEF NoSvmPlan, Planned
    <3> QED BY <1>1, <1>2, <3>1
  <2> QED BY <2>1, <2>3, <2>4, <2>5, <2>6
<1> QED BY <1>3, <1>4

\* cleanup releases one thing with each call.
LEMMA ReleasesAre ==
  ASSUME NEW xs, NEW n \in Nat, n # 0, Len(xs) = n
  PROVE  Each(Release, xs)
           = [i \in 1 .. n |-> [op |-> "release", x |-> xs[i], needs |-> {}, fail |-> "never"]]
<1> DEFINE call(i) == [op |-> "release", x |-> xs[i], needs |-> {}, fail |-> "never"]
           seqs == [i \in 1 .. n |-> Release(xs[i])]
<1>1. Each(Release, xs) = FlattenSeq(seqs)
  BY DEF Each
<1>2. Len(seqs) = n
  OBVIOUS
<1>3. \A i \in 1 .. n : seqs[i] = <<call(i)>>
  BY DEF Release, Call
<1> HIDE DEF seqs, call
<1>4. PICK f : FlattenSeq(seqs) = f[n] /\ f[1] = seqs[1] /\ \A i \in 2 .. n : f[i] = f[i - 1] \o seqs[i]
  <2>1. Len(seqs) \in Nat /\ Len(seqs) # 0
    BY <1>2
  <2>2. \E f : FlattenSeq(seqs) = f[Len(seqs)] /\ f[1] = seqs[1]
               /\ \A i \in 2 .. Len(seqs) : f[i] = f[i - 1] \o seqs[i]
    BY <2>1, FlattenSeqIs
  <2> QED BY <1>2, <2>2
<1> DEFINE T == {i \in 0 .. n : i # 0 => f[i] = [j \in 1 .. i |-> call(j)]}
<1>5. 0 \in T
  OBVIOUS
<1>6. ASSUME NEW i \in 1 .. n, i - 1 \in T PROVE i \in T
  <2>1. CASE i = 1
    <3>1. f[1] = <<call(1)>>
      BY <1>3, <1>4, <2>1
    <3>2. <<call(1)>> = [j \in 1 .. 1 |-> call(j)]
      OBVIOUS
    <3> QED BY <2>1, <3>1, <3>2
  <2>2. CASE i # 1
    <3> DEFINE S == {call(j) : j \in 1 .. i}
               p == [j \in 1 .. i - 1 |-> call(j)]
    <3>1. i \in 2 .. n /\ i - 1 # 0 /\ (i - 1) \in Nat
      BY <2>2
    <3>2. f[i] = p \o <<call(i)>>
      BY <1>3, <1>4, <1>6, <3>1
    <3>3. p \in Seq(S) /\ Len(p) = i - 1 /\ \A j \in 1 .. i - 1 : p[j] = call(j)
      <4>1. \A j \in 1 .. i - 1 : call(j) \in S
        OBVIOUS
      <4> HIDE DEF S
      <4> QED BY <3>1, <4>1
    <3>4. call(i) \in S
      OBVIOUS
    <3> HIDE DEF p, S
    <3>5. p \o <<call(i)>> = [j \in 1 .. i |-> call(j)]
      <4>1. p \o <<call(i)>> \in Seq(S) /\ Len(p \o <<call(i)>>) = i
        BY <3>3, <3>4
      <4>2. \A j \in 1 .. i : (p \o <<call(i)>>)[j] = call(j)
        BY <3>3, <3>4
      <4> QED BY <4>1, <4>2
    <3>6. f[i] = [j \in 1 .. i |-> call(j)]
      BY <3>2, <3>5
    <3>7. i \in 0 .. n
      OBVIOUS
    <3> QED BY <3>6, <3>7
  <2> QED BY <2>1, <2>2
<1>7. 0 .. n \subseteq T
  <2> HIDE DEF T
  <2> QED BY <1>5, <1>6, UpTo
<1>8. n \in T
  BY <1>7
<1> QED BY <1>1, <1>4, <1>8 DEF call

-----------------------------------------------------------------------------
(***************************************************************************)
(* The initial states and the steps.                                       *)
(***************************************************************************)

\* At the start the whole of the program makes a chain of legal calls.
LEMMA HostInitInv == Init => HostInv
<1> SUFFICES ASSUME Init PROVE HostInv
  OBVIOUS
<1> DEFINE a == Known({}, Arrays, NoEvents, 0, {})
<1>1. build \in Builds /\ outcome = "ok" /\ held = {} /\ events = NoEvents /\ cmds = <<>>
  BY DEF Init, NoEvents
<1>2. PICK s \in Settings : todo = main(s)
  BY DEF Init
<1>3. Progress(NoEvents, 0, {}) /\ Arrays \subseteq Names
  BY SvmEventsAre DEF Names
<1>4. Matches(a)
  <2>1. a \in Knowledge
    BY <1>3, KnownTyped
  <2>2. a.must = {} /\ a.may = Arrays /\ a.events = NoEvents /\ a.sent = 0 /\ a.ended = {}
    BY DEF Known
  <2> HIDE DEF a
  <2> QED BY <1>1, <2>1, <2>2 DEF Matches
<1>5. \E m : Final(build, m) /\ Leads(build, a, todo, m)
  <2>1. build \in {"svm", "no_svm"}
    BY <1>1, BuildsAssumption
  <2>2. CASE build = "svm"
    BY <1>2, <2>2, LeadsSvm DEF main
  <2>3. CASE build = "no_svm"
    BY <1>2, <2>3, LeadsNoSvm DEF main
  <2> QED BY <2>1, <2>2, <2>3
<1>6. GoesOn
  BY <1>4, <1>5 DEF GoesOn
<1>7. QueuesInOrder /\ NoUseAfterFree
  BY <1>1 DEF QueuesInOrder, NoUseAfterFree
<1>8. events \in [EventVars -> Commands \cup {"none"}] /\ held \subseteq Names
  BY <1>1 DEF NoEvents
<1> QED BY <1>1, <1>6, <1>7, <1>8 DEF HostInv

\* The next call: what is known before and after it, while nothing has failed.
NextKnown(a, l) ==
  /\ Matches(a) /\ l \in Knowledge
  /\ Legal(build, Next_call, a)
  /\ Next_call.op # "fails" => Weaker(After(build, Next_call, a), l)

\* What is left to call then is legal, and leaves only what cleanup does not free.
Ahead(a, l, m) ==
  /\ NextKnown(a, l)
  /\ Final(build, m) /\ Leads(build, l, Tail(todo), m)

\* While nothing has failed the next call is legal; after a failure it is a release.
LEMMA NextCallIs ==
  ASSUME HostInv, todo # <<>>
  PROVE  \/ /\ outcome = "ok"
            /\ \E a, l, m : Ahead(a, l, m)
         \/ /\ outcome = "cleanup" /\ CleansUp
            /\ Next_call.op = "release" /\ Next_call.needs = {} /\ Next_call.fail = "never"
<1>1. CASE outcome = "ok" /\ GoesOn
  <2>1. PICK a, m : Matches(a) /\ Final(build, m) /\ Leads(build, a, todo, m)
    BY <1>1 DEF GoesOn
  <2>2. PICK l \in Knowledge : OneStep(build, Head(todo), a, l) /\ Leads(build, l, Tail(todo), m)
    BY <2>1, LeadsHead
  <2>3. NextKnown(a, l)
    BY <2>1, <2>2 DEF NextKnown, OneStep, Next_call
  <2>4. Ahead(a, l, m)
    BY <2>1, <2>2, <2>3 DEF Ahead
  <2> QED BY <1>1, <2>4
<1>2. CASE outcome = "cleanup" /\ CleansUp
  <2>1. PICK S : todo \in Seq(S)
    BY <1>2 DEF CleansUp
  <2>2. 1 \in 1 .. Len(todo) /\ Next_call = todo[1]
    BY <2>1 DEF Next_call
  <2> QED BY <1>2, <2>2 DEF CleansUp
<1> QED BY <1>1, <1>2 DEF HostInv

\* A call that is made, and does not fail.
LEMMA HostGoesOn ==
  ASSUME HostInv, outcome = "ok", Done, NEW a, NEW l, NEW m, Ahead(a, l, m),
         Matches(l)', QueuesInOrder', NoUseAfterFree'
  PROVE  HostInv'
<1>1. build' \in Builds /\ outcome' = "ok" /\ build' = build /\ todo' = Tail(todo)
  BY DEF HostInv, Done
<1>2. held' \subseteq Names /\ events' \in [EventVars -> Commands \cup {"none"}]
  BY DEF Matches, Knowledge
<1>3. GoesOn'
  BY <1>1 DEF Ahead, GoesOn
<1> QED BY <1>1, <1>2, <1>3 DEF HostInv

\* A step that leaves the commands alone leaves their order alone.
LEMMA QueuesStay == ASSUME QueuesInOrder, cmds' = cmds, build' = build PROVE QueuesInOrder'
  BY DEF QueuesInOrder

\* What has ended has ended.
LEMMA CompleteStays == ASSUME NEW c, Complete(c), cmds' = cmds PROVE Complete(c)'
  BY DEF Complete

\* A call that only takes away or brings memory, objects and arrays.
LEMMA HeldStep ==
  ASSUME HostInv, outcome = "ok", Done, NEW a, NEW l, NEW m, Ahead(a, l, m),
         UNCHANGED <<events, cmds>>, l.must \subseteq held', held' \subseteq l.may,
         l.events = a.events, l.sent = a.sent, l.ended \subseteq a.ended,
         \A i \in 1 .. Len(cmds) :
           cmds[i].status # "complete"
             => cmds[i].uses \cap held \subseteq held' \cup {"visited_nodes", "profiling_data"}
  PROVE  HostInv'
<1>1. build' = build /\ outcome' = outcome /\ cmds' = cmds /\ events' = events
  BY DEF Done
<1>2. QueuesInOrder'
  <2>1. QueuesInOrder
    BY DEF HostInv
  <2> QED BY <1>1, <2>1, QueuesStay
<1>3. NoUseAfterFree'
  BY <1>1 DEF HostInv, NoUseAfterFree
<1>4. Matches(l)'
  <2>1. Matches(a) /\ l \in Knowledge
    BY DEF Ahead, NextKnown
  <2>2. ASSUME NEW c \in l.ended PROVE Complete(c)'
    <3>1. Complete(c)
      BY <2>1 DEF Matches
    <3> QED BY <1>1, <3>1, CompleteStays
  <2> QED BY <1>1, <2>1, <2>2 DEF Matches
<1> QED BY <1>2, <1>3, <1>4, HostGoesOn

\* A failure finds nothing that cleanup, or the return of main, would leave behind.
LEMMA FailInv == ASSUME HostInv, Fail PROVE HostInv'
<1>1. todo # <<>> /\ Next_call.fail # "never" /\ outcome' = Next_call.fail
      /\ todo' = (IF Next_call.fail = "cleanup" THEN cleanup ELSE <<>>)
      /\ UNCHANGED <<build, held, events, cmds, fits>>
  BY DEF Fail
<1>2. outcome = "ok" /\ \E a, l, m : Ahead(a, l, m)
  BY <1>1, NextCallIs
<1>3. PICK a, l, m : Ahead(a, l, m)
  BY <1>2
<1>4. /\ Next_call.fail \in {"never", "cleanup", "return", "exit"}
      /\ Next_call.fail = "cleanup" => held \subseteq Cleans(build)
      /\ Next_call.fail = "return" => held \subseteq Arrays
  BY <1>3 DEF Ahead, NextKnown, Legal, MayFail, Matches
<1>5. build' \in Builds /\ held' \subseteq Names /\ events' \in [EventVars -> Commands \cup {"none"}]
      /\ QueuesInOrder'
  BY <1>1 DEF HostInv, QueuesInOrder
<1>6. NoUseAfterFree'
  BY <1>1, <1>4 DEF NoUseAfterFree
<1>7. CASE Next_call.fail = "cleanup"
  <2> DEFINE xs == IF build = "svm" THEN SvmReleased ELSE NoSvmReleased
             n  == Len(xs)
  <2>1. build \in {"svm", "no_svm"}
    BY BuildsAssumption DEF HostInv
  <2>2. cleanup = Each(Release, xs) /\ n \in Nat /\ n # 0 /\ Cleans(build) \ Firsts(xs, n) \subseteq Leftover(build)
    <3>1. CASE build = "svm"
      <4>1. xs = SvmReleased /\ cleanup = Svm_cleanup
        BY <3>1 DEF cleanup
      <4> HIDE DEF xs
      <4> QED BY <3>1, <4>1, SvmReleases
    <3>2. CASE build = "no_svm"
      <4>1. xs = NoSvmReleased /\ cleanup = NoSvm_cleanup
        BY <3>2 DEF cleanup
      <4> HIDE DEF xs
      <4> QED BY <3>2, <4>1, NoSvmReleases
    <3> QED BY <2>1, <3>1, <3>2
  <2> HIDE DEF xs
  <2>3. todo' = [i \in 1 .. n |-> [op |-> "release", x |-> xs[i], needs |-> {}, fail |-> "never"]]
    BY <1>1, <1>7, <2>2, ReleasesAre
  <2>4. Len(todo') = n /\ (\E S : todo' \in Seq(S))
    <3> DEFINE S == {[op |-> "release", x |-> xs[i], needs |-> {}, fail |-> "never"] : i \in 1 .. n}
    <3>1. \A i \in 1 .. n : [op |-> "release", x |-> xs[i], needs |-> {}, fail |-> "never"] \in S
      OBVIOUS
    <3> HIDE DEF S
    <3>2. todo' \in Seq(S) /\ Len(todo') = n
      BY <2>2, <2>3, <3>1
    <3> QED BY <3>2
  <2>5. \A i \in 1 .. n : todo'[i].op = "release" /\ todo'[i].needs = {} /\ todo'[i].fail = "never"
        /\ todo'[i].x = xs[i]
    BY <2>3
  <2>6. held' \subseteq Leftover(build) \cup {todo'[i].x : i \in 1 .. n}
    <3>1. Firsts(xs, n) \subseteq {todo'[i].x : i \in 1 .. n}
      BY <2>5 DEF Firsts
    <3>2. held' \subseteq Cleans(build)
      BY <1>1, <1>4, <1>7
    <3> QED BY <2>2, <3>1, <3>2
  <2>7. CleansUp'
    BY <1>1, <2>4, <2>5, <2>6 DEF CleansUp
  <2> QED BY <1>1, <1>5, <1>6, <1>7, <2>7 DEF HostInv
<1>8. CASE Next_call.fail = "return"
  BY <1>1, <1>4, <1>5, <1>6, <1>8 DEF HostInv
<1>9. CASE Next_call.fail = "exit"
  BY <1>1, <1>5, <1>6, <1>9 DEF HostInv
<1> QED BY <1>1, <1>4, <1>7, <1>8, <1>9

\* A command is handed over only once.
LEMMA CommandsDiffer ==
  ASSUME QueuesInOrder
  PROVE  \A i, j \in 1 .. Len(cmds) : cmds[i].cmd = cmds[j].cmd => i = j
<1>1. Len(cmds) \in Nat /\ Len(cmds) <= 7
  BY DEF QueuesInOrder
<1>2. \A i \in 1 .. Len(cmds) : i \in 1 .. 7
  BY <1>1
<1>3. \A i \in 1 .. Len(cmds) : cmds[i].cmd = Plan(build)[i].cmd
  BY DEF QueuesInOrder
<1>4. \A i, j \in 1 .. 7 : Plan(build)[i].cmd = Plan(build)[j].cmd => i = j
  BY PlanTyped
<1> QED BY <1>2, <1>3, <1>4

\* No command works on the program under construction.
LEMMA PlanUses ==
  ASSUME QueuesInOrder
  PROVE  \A i \in 1 .. Len(cmds) : "local program" \notin cmds[i].uses
<1>1. Len(cmds) \in Nat /\ Len(cmds) <= 7
  BY DEF QueuesInOrder
<1>2. \A i \in 1 .. Len(cmds) : i \in 1 .. 7 /\ cmds[i].uses = Plan(build)[i].uses
  BY <1>1 DEF QueuesInOrder
<1>3. "local program" \notin HostMemory
  BY DEF HostMemory
<1> QED BY <1>2, <1>3, PlanTyped

-----------------------------------------------------------------------------
(***************************************************************************)
(* One lemma for each action.                                              *)
(***************************************************************************)

\* An object, an array or a file comes to be.
LEMMA CreateInv == ASSUME HostInv, Create PROVE HostInv'
<1>1. todo # <<>> /\ Next_call.op = "create" /\ Done /\ events' = events /\ cmds' = cmds
      /\ held' = held \cup {Next_call.x}
  BY DEF Create, Makes
<1>2. outcome = "ok" /\ \E a, l, m : Ahead(a, l, m)
  BY <1>1, NextCallIs
<1>3. PICK a, l, m : Ahead(a, l, m)
  BY <1>2
<1>4. a \in Knowledge /\ a.must \subseteq held /\ held \subseteq a.may
  BY <1>3 DEF Ahead, NextKnown, Matches
<1>5. Weaker(After(build, Next_call, a), l)
  BY <1>1, <1>3 DEF Ahead, NextKnown
<1>6. /\ l.must \subseteq a.must \cup {Next_call.x} /\ a.may \cup {Next_call.x} \subseteq l.may
      /\ l.events = a.events /\ l.sent = a.sent /\ l.ended \subseteq a.ended
  BY <1>1, <1>4, <1>5 DEF Weaker, After, Knowledge
<1>7. l.must \subseteq held' /\ held' \subseteq l.may /\ held \subseteq held'
  BY <1>1, <1>4, <1>6
<1>8. \A i \in 1 .. Len(cmds) :
        cmds[i].status # "complete"
          => cmds[i].uses \cap held \subseteq held' \cup {"visited_nodes", "profiling_data"}
  BY <1>7
<1> QED BY <1>1, <1>2, <1>3, <1>6, <1>7, <1>8, HeldStep

\* Memory is asked for.
LEMMA MallocInv == ASSUME HostInv, Malloc PROVE HostInv'
<1>1. todo # <<>> /\ Next_call.op = "malloc" /\ Done /\ events' = events /\ cmds' = cmds
      /\ held' \in {held, held \cup {Next_call.x}}
  BY DEF Malloc, Makes
<1>2. outcome = "ok" /\ \E a, l, m : Ahead(a, l, m)
  BY <1>1, NextCallIs
<1>3. PICK a, l, m : Ahead(a, l, m)
  BY <1>2
<1>4. a \in Knowledge /\ a.must \subseteq held /\ held \subseteq a.may
  BY <1>3 DEF Ahead, NextKnown, Matches
<1>5. Weaker(After(build, Next_call, a), l)
  BY <1>1, <1>3 DEF Ahead, NextKnown
<1>6. /\ l.must \subseteq a.must /\ a.may \cup {Next_call.x} \subseteq l.may
      /\ l.events = a.events /\ l.sent = a.sent /\ l.ended \subseteq a.ended
  BY <1>1, <1>4, <1>5 DEF Weaker, After, Knowledge
<1>7. l.must \subseteq held' /\ held' \subseteq l.may /\ held \subseteq held'
  BY <1>1, <1>4, <1>6
<1>8. \A i \in 1 .. Len(cmds) :
        cmds[i].status # "complete"
          => cmds[i].uses \cap held \subseteq held' \cup {"visited_nodes", "profiling_data"}
  BY <1>7
<1> QED BY <1>1, <1>2, <1>3, <1>6, <1>7, <1>8, HeldStep

\* A call that changes nothing here.
LEMMA PlainInv == ASSUME HostInv, Plain PROVE HostInv'
<1>1. todo # <<>> /\ Next_call.op \in {"call", "show", "query"} /\ Done /\ events' = events /\ cmds' = cmds
      /\ held' = held
  BY DEF Plain, Makes
<1>2. outcome = "ok" /\ \E a, l, m : Ahead(a, l, m)
  BY <1>1, NextCallIs
<1>3. PICK a, l, m : Ahead(a, l, m)
  BY <1>2
<1>4. a \in Knowledge /\ a.must \subseteq held /\ held \subseteq a.may
  BY <1>3 DEF Ahead, NextKnown, Matches
<1>5. Weaker(After(build, Next_call, a), l)
  BY <1>1, <1>3 DEF Ahead, NextKnown
<1>6. /\ l.must \subseteq a.must /\ a.may \subseteq l.may
      /\ l.events = a.events /\ l.sent = a.sent /\ l.ended \subseteq a.ended
  BY <1>1, <1>4, <1>5 DEF Weaker, After, Knowledge
<1>7. l.must \subseteq held' /\ held' \subseteq l.may /\ held \subseteq held'
  BY <1>1, <1>4, <1>6
<1>8. \A i \in 1 .. Len(cmds) :
        cmds[i].status # "complete"
          => cmds[i].uses \cap held \subseteq held' \cup {"visited_nodes", "profiling_data"}
  BY <1>7
<1> QED BY <1>1, <1>2, <1>3, <1>6, <1>7, <1>8, HeldStep

\* The memory that is filled is there, or the program is killed.
LEMMA FillInv == ASSUME HostInv, FillMemory PROVE HostInv'
<1>1. todo # <<>> /\ Next_call.op = "fill" /\ events' = events /\ cmds' = cmds /\ held' = held
      /\ (Done \/ (todo' = <<>> /\ outcome' = "killed" /\ UNCHANGED <<build, fits>>))
  BY DEF FillMemory, Makes
<1>2. outcome = "ok" /\ \E a, l, m : Ahead(a, l, m)
  BY <1>1, NextCallIs
<1>3. PICK a, l, m : Ahead(a, l, m)
  BY <1>2
<1>4. a \in Knowledge /\ a.must \subseteq held /\ held \subseteq a.may
  BY <1>3 DEF Ahead, NextKnown, Matches
<1>5. Weaker(After(build, Next_call, a), l)
  BY <1>1, <1>3 DEF Ahead, NextKnown
<1>6. /\ l.must \subseteq a.must /\ a.may \subseteq l.may
      /\ l.events = a.events /\ l.sent = a.sent /\ l.ended \subseteq a.ended
  BY <1>1, <1>4, <1>5 DEF Weaker, After, Knowledge
<1>7. CASE Done
  <2>1. l.must \subseteq held' /\ held' \subseteq l.may /\ held \subseteq held'
    BY <1>1, <1>4, <1>6
  <2>2. \A i \in 1 .. Len(cmds) :
          cmds[i].status # "complete"
            => cmds[i].uses \cap held \subseteq held' \cup {"visited_nodes", "profiling_data"}
    BY <2>1
  <2> QED BY <1>1, <1>2, <1>3, <1>6, <1>7, <2>1, <2>2, HeldStep
<1>8. CASE todo' = <<>> /\ outcome' = "killed" /\ UNCHANGED <<build, fits>>
  <2>1. build' = build
    BY <1>8
  <2>2. build' \in Builds /\ held' \subseteq Names /\ events' \in [EventVars -> Commands \cup {"none"}]
    BY <1>1, <2>1 DEF HostInv
  <2>3. QueuesInOrder'
    <3>1. QueuesInOrder
      BY DEF HostInv
    <3> QED BY <1>1, <2>1, <3>1, QueuesStay
  <2>4. NoUseAfterFree'
    BY <1>8 DEF NoUseAfterFree
  <2> QED BY <1>8, <2>2, <2>3, <2>4 DEF HostInv
<1> QED BY <1>1, <1>7, <1>8

\* createProgramFromBinary hands its program over.
LEMMA AssignInv == ASSUME HostInv, Assign PROVE HostInv'
<1>1. todo # <<>> /\ Next_call.op = "assign" /\ Done /\ events' = events /\ cmds' = cmds
      /\ held' = (held \ {"local program"}) \cup {Next_call.x}
  BY DEF Assign, Makes
<1>2. outcome = "ok" /\ \E a, l, m : Ahead(a, l, m)
  BY <1>1, NextCallIs
<1>3. PICK a, l, m : Ahead(a, l, m)
  BY <1>2
<1>4. a \in Knowledge /\ a.must \subseteq held /\ held \subseteq a.may
  BY <1>3 DEF Ahead, NextKnown, Matches
<1>5. Weaker(After(build, Next_call, a), l)
  BY <1>1, <1>3 DEF Ahead, NextKnown
<1>6. /\ l.must \subseteq (a.must \ {"local program"}) \cup {Next_call.x}
      /\ (a.may \ {"local program"}) \cup {Next_call.x} \subseteq l.may
      /\ l.events = a.events /\ l.sent = a.sent /\ l.ended \subseteq a.ended
  BY <1>1, <1>4, <1>5 DEF Weaker, After, Knowledge
<1>7. l.must \subseteq held' /\ held' \subseteq l.may
  BY <1>1, <1>4, <1>6
<1>8. \A i \in 1 .. Len(cmds) :
        cmds[i].status # "complete"
          => cmds[i].uses \cap held \subseteq held' \cup {"visited_nodes", "profiling_data"}
  <2>1. \A i \in 1 .. Len(cmds) : "local program" \notin cmds[i].uses
    BY PlanUses DEF HostInv
  <2> QED BY <1>1, <2>1
<1> QED BY <1>1, <1>2, <1>3, <1>6, <1>7, <1>8, HeldStep

\* Nothing is released that a command works on.
LEMMA ReleaseInv == ASSUME HostInv, ReleaseObject PROVE HostInv'
<1>1. todo # <<>> /\ Next_call.op = "release" /\ Done /\ events' = events /\ cmds' = cmds
      /\ held' = held \ {Next_call.x}
  BY DEF ReleaseObject, Makes
<1>2. CASE outcome = "ok" /\ \E a, l, m : Ahead(a, l, m)
  <2>1. PICK a, l, m : Ahead(a, l, m)
    BY <1>2
  <2>2. a \in Knowledge /\ a.must \subseteq held /\ held \subseteq a.may /\ Len(cmds) = a.sent
    BY <2>1 DEF Ahead, NextKnown, Matches
  <2>3. Weaker(After(build, Next_call, a), l) /\ ~StillUses(build, a, Next_call.x)
    BY <1>1, <2>1 DEF Ahead, NextKnown, Legal
  <2>4. /\ l.must \subseteq a.must \ {Next_call.x} /\ a.may \ {Next_call.x} \subseteq l.may
        /\ l.events = a.events /\ l.sent = a.sent /\ l.ended \subseteq a.ended
    BY <1>1, <2>2, <2>3 DEF Weaker, After, Knowledge
  <2>5. l.must \subseteq held' /\ held' \subseteq l.may
    BY <1>1, <2>2, <2>4
  <2>6. \A i \in 1 .. Len(cmds) :
          cmds[i].status # "complete"
            => cmds[i].uses \cap held \subseteq held' \cup {"visited_nodes", "profiling_data"}
    <3> SUFFICES ASSUME NEW i \in 1 .. Len(cmds), cmds[i].status # "complete"
                 PROVE  Next_call.x \notin cmds[i].uses \ {"visited_nodes", "profiling_data"}
      BY <1>1
    <3>1. cmds[i].cmd = Plan(build)[i].cmd /\ cmds[i].uses = Plan(build)[i].uses
      BY DEF HostInv, QueuesInOrder
    <3>2. cmds[i].cmd \notin a.ended
      <4> SUFFICES ASSUME cmds[i].cmd \in a.ended PROVE FALSE
        OBVIOUS
      <4>1. Complete(cmds[i].cmd)
        BY <2>1 DEF Ahead, NextKnown, Matches
      <4>2. PICK j \in 1 .. Len(cmds) : cmds[j].cmd = cmds[i].cmd /\ cmds[j].status = "complete"
        BY <4>1 DEF Complete
      <4>3. j = i
        BY <4>2, CommandsDiffer DEF HostInv
      <4> QED BY <4>2, <4>3
    <3> QED BY <2>2, <2>3, <3>1, <3>2 DEF StillUses
  <2> QED BY <1>1, <1>2, <2>1, <2>4, <2>5, <2>6, HeldStep
<1>3. CASE outcome = "cleanup" /\ CleansUp
  <2>1. build' = build /\ todo' = Tail(todo) /\ outcome' = "cleanup"
    BY <1>1, <1>3 DEF Done
  <2>2. build' \in Builds /\ held' \subseteq Names /\ events' \in [EventVars -> Commands \cup {"none"}]
    BY <1>1, <2>1 DEF HostInv
  <2>3. QueuesInOrder'
    <3>1. QueuesInOrder
      BY DEF HostInv
    <3> QED BY <1>1, <2>1, <3>1, QueuesStay
  <2>4. NoUseAfterFree'
    BY <2>1 DEF NoUseAfterFree
  <2>5. CleansUp'
    <3>1. PICK S : todo \in Seq(S)
      BY <1>3 DEF CleansUp
    <3>2. /\ Tail(todo) \in Seq(S) /\ Len(todo) \in Nat /\ Len(todo) >= 1 /\ Len(Tail(todo)) = Len(todo) - 1
          /\ Next_call = todo[1] /\ \A i \in 1 .. Len(Tail(todo)) : Tail(todo)[i] = todo[i + 1]
      BY <1>1, <3>1 DEF Next_call
    <3>3. \A i \in 1 .. Len(Tail(todo)) :
            Tail(todo)[i].op = "release" /\ Tail(todo)[i].needs = {} /\ Tail(todo)[i].fail = "never"
      <4>1. \A i \in 1 .. Len(Tail(todo)) : (i + 1) \in 1 .. Len(todo)
        BY <3>2
      <4> QED BY <1>3, <3>2, <4>1 DEF CleansUp
    <3>4. held' \subseteq Leftover(build) \cup {Tail(todo)[i].x : i \in 1 .. Len(Tail(todo))}
      <4> SUFFICES ASSUME NEW x \in held', x \notin Leftover(build)
                   PROVE  \E i \in 1 .. Len(Tail(todo)) : Tail(todo)[i].x = x
        OBVIOUS
      <4>1. x \in held /\ x # Next_call.x
        BY <1>1
      <4>2. PICK j \in 1 .. Len(todo) : todo[j].x = x
        BY <1>3, <4>1 DEF CleansUp
      <4>3. j # 1
        BY <3>2, <4>1, <4>2
      <4>4. (j - 1) \in 1 .. Len(Tail(todo)) /\ (j - 1) + 1 = j
        BY <3>2, <4>3
      <4>5. Tail(todo)[j - 1].x = x
        BY <3>2, <4>2, <4>4
      <4> QED BY <4>4, <4>5
    <3> QED BY <2>1, <3>1, <3>2, <3>3, <3>4 DEF CleansUp
  <2> QED BY <2>1, <2>2, <2>3, <2>4, <2>5 DEF HostInv
<1> QED BY <1>1, <1>2, <1>3, NextCallIs

\* The next command of the plan is handed over.
LEMMA EnqueueInv == ASSUME HostInv, EnqueueCommand PROVE HostInv'
<1> DEFINE c == Next_call
           new == [cmd |-> c.x, queue |-> c.queue, waits |-> {events[e] : e \in c.waits},
                   uses |-> c.uses, status |-> "queued"]
           n == Len(cmds)
<1>1. /\ todo # <<>> /\ c.op = "enqueue" /\ Done /\ c.uses \subseteq held /\ held' = held
      /\ cmds' = Append(cmds, new)
      /\ events' = [e \in DOMAIN events \cup {c.event} |-> IF e = c.event THEN c.x ELSE events[e]]
  BY DEF EnqueueCommand, Makes
<1>2. outcome = "ok" /\ \E a, l, m : Ahead(a, l, m)
  BY <1>1, NextCallIs
<1>3. PICK a, l, m : Ahead(a, l, m)
  BY <1>2
<1>4. /\ a \in Knowledge /\ a.must \subseteq held /\ held \subseteq a.may /\ n = a.sent /\ events = a.events
      /\ \A x \in a.ended : Complete(x)
  BY <1>3 DEF Ahead, NextKnown, Matches
<1>5. /\ n < 7 /\ Plan(build)[n + 1] = Planned(c.x, c.queue, c.uses) /\ c.event \in EventVars
      /\ c.waits \subseteq EventVars
  BY <1>1, <1>3, <1>4 DEF Ahead, NextKnown, Legal, Finds
<1>6. Weaker(After(build, c, a), l) /\ l \in Knowledge
  BY <1>1, <1>3 DEF Ahead, NextKnown
<1>7. /\ l.must \subseteq a.must /\ a.may \subseteq l.may /\ l.sent = a.sent + 1 /\ l.ended \subseteq a.ended
      /\ l.events = [a.events EXCEPT ![c.event] = c.x]
  BY <1>1, <1>4, <1>6 DEF Weaker, After, Knowledge
<1>8. QueuesInOrder
  BY DEF HostInv
<1> DEFINE S == [cmd : Commands, queue : {"queue0", "queue1"}, waits : SUBSET (Commands \cup {"none"}),
                 uses : SUBSET Names, status : Statuses]
<1>9. cmds \in Seq(S) /\ n \in Nat
  BY <1>8 DEF QueuesInOrder
<1>10. Plan(build)[n + 1].cmd = c.x /\ Plan(build)[n + 1].queue = c.queue /\ Plan(build)[n + 1].uses = c.uses
  BY <1>5 DEF Planned
<1>11. new \in S
  <2>1. (n + 1) \in 1 .. 7
    BY <1>5, <1>9
  <2>2. c.x \in Commands /\ c.queue \in {"queue0", "queue1"} /\ c.uses \subseteq HostMemory
    BY <1>10, <2>1, PlanTyped
  <2>3. c.uses \subseteq Names
    BY <2>2 DEF Names
  <2>4. {events[e] : e \in c.waits} \subseteq Commands \cup {"none"}
    BY <1>5 DEF HostInv
  <2> QED BY <2>2, <2>3, <2>4 DEF Statuses
<1>12. /\ cmds' \in Seq(S) /\ Len(cmds') = n + 1 /\ cmds'[n + 1] = new
       /\ \A i \in 1 .. n : cmds'[i] = cmds[i]
  <2> HIDE DEF S, new
  <2> QED BY <1>1, <1>9, <1>11
<1>13. \A i \in 1 .. n + 1 : i \in 1 .. n \/ i = n + 1
  BY <1>9
<1>14. build' = build /\ outcome' = "ok"
  BY <1>1, <1>2 DEF Done
<1>15. new.cmd = c.x /\ new.queue = c.queue /\ new.uses = c.uses /\ new.status = "queued"
  OBVIOUS
<1> HIDE DEF S, new
<1>16. QueuesInOrder'
  <2>1. Len(cmds') <= 7
    BY <1>5, <1>9, <1>12
  <2>2. ASSUME NEW i \in 1 .. Len(cmds')
        PROVE  /\ cmds'[i].cmd = Plan(build)[i].cmd /\ cmds'[i].queue = Plan(build)[i].queue
               /\ cmds'[i].uses = Plan(build)[i].uses
    <3>1. CASE i \in 1 .. n
      BY <3>1, <1>8, <1>12 DEF QueuesInOrder
    <3>2. CASE i = n + 1
      BY <3>2, <1>10, <1>12, <1>15
    <3> QED BY <3>1, <3>2, <1>12, <1>13
  <2>3. ASSUME NEW i \in 1 .. Len(cmds'), NEW j \in 1 .. i - 1,
               cmds'[i].queue = cmds'[j].queue, cmds'[i].status # "queued"
        PROVE  cmds'[j].status = "complete"
    <3>1. i \in 1 .. n
      BY <2>3, <1>12, <1>13, <1>15
    <3>2. j \in 1 .. n
      BY <3>1, <1>9
    <3> QED BY <2>3, <3>1, <3>2, <1>8, <1>12 DEF QueuesInOrder
  <2> QED BY <1>12, <1>14, <2>1, <2>2, <2>3 DEF QueuesInOrder, S
<1>17. NoUseAfterFree'
  <2>1. ASSUME NEW i \in 1 .. n + 1, cmds'[i].status # "complete"
        PROVE  cmds'[i].uses \subseteq held \cup {"visited_nodes", "profiling_data"}
    <3>1. CASE i \in 1 .. n
      BY <3>1, <2>1, <1>2, <1>12 DEF HostInv, NoUseAfterFree
    <3>2. CASE i = n + 1
      BY <3>2, <1>1, <1>12, <1>15
    <3> QED BY <3>1, <3>2, <1>13
  <2> QED BY <2>1, <1>1, <1>12 DEF NoUseAfterFree
<1>18. Matches(l)'
  <2>1. events' = l.events
    <3>1. events \in [EventVars -> Commands \cup {"none"}]
      BY DEF HostInv
    <3> QED BY <3>1, <1>1, <1>4, <1>5, <1>7
  <2>2. ASSUME NEW x \in l.ended PROVE Complete(x)'
    <3>1. Complete(x)
      BY <1>4, <1>7
    <3>2. PICK i \in 1 .. n : cmds[i].cmd = x /\ cmds[i].status = "complete"
      BY <3>1 DEF Complete
    <3>3. i \in 1 .. Len(cmds')
      BY <1>9, <1>12
    <3> QED BY <3>2, <3>3, <1>12 DEF Complete
  <2>3. Len(cmds') = l.sent /\ l.must \subseteq held' /\ held' \subseteq l.may
    BY <1>1, <1>4, <1>7, <1>12
  <2> QED BY <1>6, <2>1, <2>2, <2>3 DEF Matches
<1> HIDE DEF c, n
<1> QED BY <1>1, <1>2, <1>3, <1>16, <1>17, <1>18, HostGoesOn

\* A command has ended, and so have those before it in its queue.
LEMMA WaitInv == ASSUME HostInv, WaitForEvent PROVE HostInv'
<1>1. todo # <<>> /\ Next_call.op = "wait" /\ Done /\ events' = events /\ cmds' = cmds
      /\ held' = held /\ Complete(events[Next_call.x])
  BY DEF WaitForEvent, Makes
<1>2. outcome = "ok" /\ \E a, l, m : Ahead(a, l, m)
  BY <1>1, NextCallIs
<1>3. PICK a, l, m : Ahead(a, l, m)
  BY <1>2
<1>4. /\ a \in Knowledge /\ a.must \subseteq held /\ held \subseteq a.may /\ Len(cmds) = a.sent
         /\ events = a.events
      /\ \A x \in a.ended : Complete(x)
  BY <1>3 DEF Ahead, NextKnown, Matches
<1>5. Weaker(After(build, Next_call, a), l) /\ l \in Knowledge
  BY <1>1, <1>3 DEF Ahead, NextKnown
<1>6. /\ l.must \subseteq a.must /\ a.may \subseteq l.may /\ l.events = a.events /\ l.sent = a.sent
      /\ l.ended \subseteq a.ended \cup EndedWith(build, a, events[Next_call.x])
  BY <1>1, <1>4, <1>5 DEF Weaker, After, Knowledge
<1>7. QueuesInOrder /\ build' = build
  BY <1>1 DEF HostInv, Done
<1>8. ASSUME NEW x \in EndedWith(build, a, events[Next_call.x]) PROVE Complete(x)
  <2>0. PICK j \in 1 .. Len(cmds) :
          x = Plan(build)[j].cmd
            /\ \E i \in j .. Len(cmds) : /\ Plan(build)[i].cmd = events[Next_call.x]
                                        /\ Plan(build)[i].queue = Plan(build)[j].queue
    BY <1>4 DEF EndedWith
  <2>1. PICK i \in j .. Len(cmds) : /\ x = Plan(build)[j].cmd /\ Plan(build)[i].cmd = events[Next_call.x]
                                    /\ Plan(build)[i].queue = Plan(build)[j].queue
    BY <2>0
  <2>2. i \in 1 .. Len(cmds) /\ Len(cmds) \in Nat
    BY <1>7 DEF QueuesInOrder
  <2>3. cmds[i].cmd = events[Next_call.x] /\ cmds[j].cmd = x /\ cmds[i].queue = cmds[j].queue
    BY <1>7, <2>1, <2>2 DEF QueuesInOrder
  <2>4. PICK k \in 1 .. Len(cmds) : cmds[k].cmd = events[Next_call.x] /\ cmds[k].status = "complete"
    BY <1>1 DEF Complete
  <2>5. k = i
    BY <1>7, <2>2, <2>3, <2>4, CommandsDiffer
  <2>6. cmds[j].status = "complete"
    <3>1. CASE j = i
      BY <3>1, <2>4, <2>5
    <3>2. CASE j # i
      <4>1. j \in 1 .. i - 1
        BY <3>2, <2>2
      <4>2. cmds[i].status # "queued"
        BY <2>4, <2>5
      <4> QED BY <4>1, <4>2, <1>7, <2>2, <2>3 DEF QueuesInOrder
    <3> QED BY <3>1, <3>2
  <2> QED BY <2>3, <2>6 DEF Complete
<1>9. Matches(l)'
  <2>1. ASSUME NEW x \in l.ended PROVE Complete(x)'
    <3>1. Complete(x)
      BY <1>4, <1>6, <1>8
    <3> QED BY <1>1, <3>1, CompleteStays
  <2> QED BY <1>1, <1>4, <1>5, <1>6, <2>1 DEF Matches
<1>10. QueuesInOrder'
  BY <1>1, <1>7, QueuesStay
<1>11. NoUseAfterFree'
  BY <1>1, <1>2 DEF HostInv, NoUseAfterFree
<1> QED BY <1>1, <1>2, <1>3, <1>9, <1>10, <1>11, HostGoesOn

\* An event is released.
LEMMA DropInv == ASSUME HostInv, DropEvent PROVE HostInv'
<1>1. todo # <<>> /\ Next_call.op = "releaseEvent" /\ Done /\ cmds' = cmds
      /\ held' = held /\ events' = [events EXCEPT ![Next_call.x] = "none"]
  BY DEF DropEvent, Makes
<1>2. outcome = "ok" /\ \E a, l, m : Ahead(a, l, m)
  BY <1>1, NextCallIs
<1>3. PICK a, l, m : Ahead(a, l, m)
  BY <1>2
<1>4. /\ a \in Knowledge /\ a.must \subseteq held /\ held \subseteq a.may /\ Len(cmds) = a.sent
         /\ events = a.events
      /\ \A x \in a.ended : Complete(x)
  BY <1>3 DEF Ahead, NextKnown, Matches
<1>5. Weaker(After(build, Next_call, a), l) /\ l \in Knowledge
  BY <1>1, <1>3 DEF Ahead, NextKnown
<1>6. /\ l.must \subseteq a.must /\ a.may \subseteq l.may /\ l.sent = a.sent /\ l.ended \subseteq a.ended
      /\ l.events = [a.events EXCEPT ![Next_call.x] = "none"]
  BY <1>1, <1>4, <1>5 DEF Weaker, After, Knowledge
<1>7. QueuesInOrder /\ build' = build
  BY <1>1 DEF HostInv, Done
<1>8. Matches(l)'
  <2>1. ASSUME NEW x \in l.ended PROVE Complete(x)'
    <3>1. Complete(x)
      BY <1>4, <1>6
    <3> QED BY <1>1, <3>1, CompleteStays
  <2> QED BY <1>1, <1>4, <1>5, <1>6, <2>1 DEF Matches
<1>9. QueuesInOrder'
  BY <1>1, <1>7, QueuesStay
<1>10. NoUseAfterFree'
  BY <1>1, <1>2 DEF HostInv, NoUseAfterFree
<1> QED BY <1>1, <1>2, <1>3, <1>8, <1>9, <1>10, HostGoesOn

\* A command gets on, in its turn.
LEMMA BecomesInv ==
  ASSUME HostInv, NEW i \in 1 .. Len(cmds), NEW status \in Statuses, Becomes(i, status),
         cmds[i].status # "complete",
         cmds[i].status # "queued"
           \/ \A j \in 1 .. i - 1 : cmds[j].queue = cmds[i].queue => cmds[j].status = "complete"
  PROVE  HostInv'
<1>1. cmds' = [cmds EXCEPT ![i].status = status] /\ UNCHANGED <<build, todo, outcome, held, events, fits>>
  BY DEF Becomes
<1>2. QueuesInOrder
  BY DEF HostInv
<1> DEFINE S == [cmd : Commands, queue : {"queue0", "queue1"}, waits : SUBSET (Commands \cup {"none"}),
                 uses : SUBSET Names, status : Statuses]
<1>3. cmds \in Seq(S) /\ Len(cmds) \in Nat
  BY <1>2 DEF QueuesInOrder
<1>4. cmds[i] \in S
  <2> HIDE DEF S
  <2> QED BY <1>3
<1> DEFINE new == [cmds[i] EXCEPT !.status = status]
<1>5. new \in S /\ new.cmd = cmds[i].cmd /\ new.queue = cmds[i].queue /\ new.uses = cmds[i].uses
      /\ new.status = status
  BY <1>4
<1>6. cmds' = [cmds EXCEPT ![i] = new]
  BY <1>1
<1> HIDE DEF S, new
<1>7. cmds' \in Seq(S) /\ Len(cmds') = Len(cmds) /\ cmds'[i] = new
      /\ \A j \in 1 .. Len(cmds) : j # i => cmds'[j] = cmds[j]
  BY <1>3, <1>5, <1>6
<1>8. ASSUME NEW j \in 1 .. Len(cmds)
      PROVE  /\ cmds'[j].cmd = cmds[j].cmd /\ cmds'[j].queue = cmds[j].queue /\ cmds'[j].uses = cmds[j].uses
             /\ cmds[j].status = "complete" => cmds'[j].status = "complete"
  <2>1. CASE j = i
    BY <2>1, <1>5, <1>7
  <2>2. CASE j # i
    BY <2>2, <1>7
  <2> QED BY <2>1, <2>2
<1>9. QueuesInOrder'
  <2>1. ASSUME NEW j \in 1 .. Len(cmds'), NEW k \in 1 .. j - 1,
               cmds'[j].queue = cmds'[k].queue, cmds'[j].status # "queued"
        PROVE  cmds'[k].status = "complete"
    <3>1. j \in 1 .. Len(cmds) /\ k \in 1 .. Len(cmds)
      BY <1>3, <1>7
    <3>2. cmds[j].queue = cmds[k].queue
      BY <2>1, <1>8, <3>1
    <3>3. cmds[k].status = "complete"
      <4>1. CASE cmds[j].status # "queued"
        BY <4>1, <1>2, <3>1, <3>2 DEF QueuesInOrder
      <4>2. CASE cmds[j].status = "queued"
        <5>1. j = i
          BY <4>2, <2>1, <1>7, <3>1
        <5> QED BY <4>2, <5>1, <3>2
      <4> QED BY <4>1, <4>2
    <3> QED BY <1>8, <3>1, <3>3
  <2>2. \A j \in 1 .. Len(cmds') : /\ cmds'[j].cmd = Plan(build)[j].cmd /\ cmds'[j].queue = Plan(build)[j].queue
                                   /\ cmds'[j].uses = Plan(build)[j].uses
    BY <1>2, <1>7, <1>8 DEF QueuesInOrder
  <2>3. Len(cmds') <= 7 /\ build' = build
    BY <1>1, <1>2, <1>7 DEF QueuesInOrder
  <2> QED BY <1>7, <2>1, <2>2, <2>3 DEF QueuesInOrder, S
<1>10. NoUseAfterFree'
  BY <1>1, <1>7, <1>8 DEF HostInv, NoUseAfterFree
<1>11. ASSUME NEW x, Complete(x) PROVE Complete(x)'
  <2>1. PICK j \in 1 .. Len(cmds) : cmds[j].cmd = x /\ cmds[j].status = "complete"
    BY <1>11 DEF Complete
  <2> QED BY <2>1, <1>7, <1>8 DEF Complete
<1>12. ASSUME GoesOn PROVE GoesOn'
  <2>1. PICK a, m : Matches(a) /\ Final(build, m) /\ Leads(build, a, todo, m)
    BY <1>12 DEF GoesOn
  <2>2. Matches(a)'
    <3>1. ASSUME NEW x \in a.ended PROVE Complete(x)'
      BY <2>1, <1>11 DEF Matches
    <3> QED BY <2>1, <1>1, <1>7, <3>1 DEF Matches
  <2>3. build' = build /\ todo' = todo
    BY <1>1
  <2> QED BY <2>1, <2>2, <2>3 DEF GoesOn
<1>13. ASSUME CleansUp PROVE CleansUp'
  BY <1>1, <1>13 DEF CleansUp
<1>14. build' \in Builds /\ held' \subseteq Names /\ events' \in [EventVars -> Commands \cup {"none"}]
  BY <1>1 DEF HostInv
<1> QED BY <1>1, <1>9, <1>10, <1>12, <1>13, <1>14 DEF HostInv

\* The runtime and the kernels leave the calls to come alone.
LEMMA RuntimeInv == ASSUME HostInv, Runtime PROVE HostInv'
<1>1. PICK i \in 1 .. Len(cmds) : Start(i) \/ Sent(i) \/ Ends(i)
  BY DEF Runtime
<1>2. {"running", "sent", "complete"} \subseteq Statuses
  BY DEF Statuses
<1>3. CASE Start(i)
  <2>1. /\ cmds[i].status = "queued" /\ Becomes(i, "running")
        /\ \A j \in 1 .. i - 1 : cmds[j].queue = cmds[i].queue => cmds[j].status = "complete"
    BY <1>3 DEF Start
  <2>2. cmds[i].status # "complete"
    BY <2>1
  <2> QED BY <1>2, <2>1, <2>2, BecomesInv
<1>4. CASE Sent(i)
  <2>1. cmds[i].status = "running" /\ Becomes(i, "sent")
    BY <1>4 DEF Sent
  <2>2. cmds[i].status # "complete" /\ cmds[i].status # "queued"
    BY <2>1
  <2> QED BY <1>2, <2>1, <2>2, BecomesInv
<1>5. CASE Ends(i)
  <2>1. cmds[i].status \in {"running", "sent"} /\ Becomes(i, "complete")
    BY <1>5 DEF Ends
  <2>2. cmds[i].status # "complete" /\ cmds[i].status # "queued"
    BY <2>1
  <2> QED BY <1>2, <2>1, <2>2, BecomesInv
<1> QED BY <1>1, <1>3, <1>4, <1>5

\* Every step keeps the invariant.
LEMMA HostNextInv == ASSUME HostInv, [Next]_vars PROVE HostInv'
<1>1. CASE Host
  <2>1. CASE Fail           BY <2>1, FailInv
  <2>2. CASE Create         BY <2>2, CreateInv
  <2>3. CASE Malloc         BY <2>3, MallocInv
  <2>4. CASE FillMemory     BY <2>4, FillInv
  <2>5. CASE Assign         BY <2>5, AssignInv
  <2>6. CASE Plain          BY <2>6, PlainInv
  <2>7. CASE EnqueueCommand BY <2>7, EnqueueInv
  <2>8. CASE WaitForEvent   BY <2>8, WaitInv
  <2>9. CASE DropEvent      BY <2>9, DropInv
  <2>10. CASE ReleaseObject BY <2>10, ReleaseInv
  <2> QED
    BY <1>1, <2>1, <2>2, <2>3, <2>4, <2>5, <2>6, <2>7, <2>8, <2>9, <2>10 DEF Host
<1>2. CASE Runtime
  BY <1>2, RuntimeInv
<1>3. CASE UNCHANGED vars
  <2>1. UNCHANGED <<build, todo, outcome, held, events, cmds>>
    BY <1>3 DEF vars
  <2>2. QueuesInOrder' <=> QueuesInOrder
    BY <2>1 DEF QueuesInOrder
  <2>3. NoUseAfterFree' <=> NoUseAfterFree
    BY <2>1 DEF NoUseAfterFree
  <2>4. GoesOn' <=> GoesOn
    BY <2>1 DEF GoesOn, Matches, Complete
  <2>5. CleansUp' <=> CleansUp
    BY <2>1 DEF CleansUp
  <2> QED BY <2>1, <2>2, <2>3, <2>4, <2>5 DEF HostInv
<1> QED BY <1>1, <1>2, <1>3 DEF Next

\* The invariant holds of every run, of either program, whatever fails.
THEOREM HostInvariant == Spec => []HostInv
<1>1. Init => HostInv
  BY HostInitInv
<1>2. HostInv /\ [Next]_vars => HostInv'
  BY HostNextInv
<1> QED BY <1>1, <1>2, PTL DEF Spec

-----------------------------------------------------------------------------
(***************************************************************************)
(* What follows from it.                                                   *)
(***************************************************************************)

\* HostTypeOK: the host's variables keep their types, and main and run hand no command
\* over twice.
THEOREM HostTypes == Spec => []HostTypeOK
<1>1. HostInv => HostTypeOK
  <2> SUFFICES ASSUME HostInv PROVE HostTypeOK
    OBVIOUS
  <2>1. DOMAIN events = EventVars
    BY DEF HostInv
  <2>2. \A i, j \in 1 .. Len(cmds) : cmds[i].cmd = cmds[j].cmd => i = j
    BY CommandsDiffer DEF HostInv
  <2>3. outcome \in {"ok", "cleanup", "return", "exit", "killed"}
    BY DEF HostInv
  <2>4. held \subseteq Objects \cup HostMemory \cup Arrays \cup InScope \cup Files
    BY DEF HostInv, Names
  <2>5. build \in Builds
    BY DEF HostInv
  <2> QED BY <2>1, <2>2, <2>3, <2>4, <2>5 DEF HostTypeOK
<1> QED BY <1>1, HostInvariant, PTL

\* CallsLegal: whatever failed before, each call of main, init_opencl, run and cleanup
\* finds its objects, and the events it waits for, asks or releases are set.
THEOREM HostCallsLegal == Spec => []CallsLegal
<1>1. HostInv => CallsLegal
  <2> SUFFICES ASSUME HostInv, todo # <<>> PROVE CallsLegal
    BY DEF CallsLegal
  <2>1. CASE \E a, l, m : Ahead(a, l, m)
    <3>1. PICK a, l, m : Ahead(a, l, m)
      BY <2>1
    <3>2. Finds(Next_call, a) /\ a.must \subseteq held /\ events = a.events /\ \A c \in a.ended : Complete(c)
      BY <3>1 DEF Ahead, NextKnown, Legal, Matches
    <3> QED BY <3>2 DEF CallsLegal, Finds
  <2>2. CASE Next_call.op = "release" /\ Next_call.needs = {}
    BY <2>2 DEF CallsLegal
  <2> QED BY <2>1, <2>2, NextCallIs
<1> QED BY <1>1, HostInvariant, PTL

\* InputsWritten: filter0 runs on inputs that have been written, since the writes are
\* before it in its queue.
THEOREM HostInputsWritten == Spec => []InputsWritten
<1>1. HostInv => InputsWritten
  <2> SUFFICES ASSUME HostInv, NEW i \in 1 .. Len(cmds), NEW j \in 1 .. Len(cmds),
                      cmds[i].cmd = "filter0", cmds[i].status \in {"running", "sent", "complete"},
                      cmds[j].cmd \in {"write_tree", "write_centers"}
               PROVE  cmds[j].status = "complete"
    BY DEF InputsWritten, IsIn
  <2>1. QueuesInOrder /\ build \in {"svm", "no_svm"}
    BY BuildsAssumption DEF HostInv
  <2>2. Len(cmds) \in Nat /\ Len(cmds) <= 7
    BY <2>1 DEF QueuesInOrder
  <2>3. i \in 1 .. 7 /\ j \in 1 .. 7
    BY <2>2
  <2>4. i \in {1, 2, 3, 4, 5, 6, 7} /\ j \in {1, 2, 3, 4, 5, 6, 7}
    BY <2>3
  <2>5. /\ cmds[i].cmd = Plan(build)[i].cmd /\ cmds[i].queue = Plan(build)[i].queue
        /\ cmds[j].cmd = Plan(build)[j].cmd /\ cmds[j].queue = Plan(build)[j].queue
    BY <2>1 DEF QueuesInOrder
  <2>6. j < i /\ cmds[j].queue = cmds[i].queue
    <3>1. CASE build = "svm"
      <4>1. /\ SvmPlan[1] = Planned("write_centers", "queue0", {"initial_centers"})
            /\ SvmPlan[2].cmd = "filter1" /\ SvmPlan[3] = Planned("filter0", "queue0", {"root", "leaves"})
            /\ SvmPlan[4].cmd = "read_visited" /\ SvmPlan[5].cmd = "read_profiling"
               /\ SvmPlan[6].cmd = "read_centers"
            /\ SvmPlan[7].cmd = "read_distortion"
        BY DEF SvmPlan, Planned
      <4>2. Plan(build) = SvmPlan
        BY <3>1 DEF Plan
      <4>3. SvmPlan[1].cmd = "write_centers" /\ SvmPlan[1].queue = "queue0" /\ SvmPlan[3].cmd = "filter0"
            /\ SvmPlan[3].queue = "queue0"
        BY <4>1 DEF Planned
      <4>4. i = 3
        BY <2>4, <2>5, <4>1, <4>2, <4>3
      <4>5. j = 1
        BY <2>4, <2>5, <4>1, <4>2, <4>3
      <4> QED BY <2>5, <4>2, <4>3, <4>4, <4>5
    <3>2. CASE build = "no_svm"
      <4>1. /\ NoSvmPlan[1].cmd = "write_tree" /\ NoSvmPlan[2].cmd = "write_centers"
               /\ NoSvmPlan[3].cmd = "filter1"
            /\ NoSvmPlan[4].cmd = "filter0" /\ NoSvmPlan[5].cmd = "read_visited"
               /\ NoSvmPlan[6].cmd = "read_centers"
            /\ NoSvmPlan[7].cmd = "read_distortion"
            /\ NoSvmPlan[1].queue = "queue0" /\ NoSvmPlan[2].queue = "queue0" /\ NoSvmPlan[4].queue = "queue0"
        BY DEF NoSvmPlan, Planned
      <4>2. Plan(build) = NoSvmPlan
        BY <3>2 DEF Plan
      <4>3. i = 4
        BY <2>4, <2>5, <4>1, <4>2
      <4>4. j \in {1, 2}
        BY <2>4, <2>5, <4>1, <4>2
      <4> QED BY <2>5, <4>1, <4>2, <4>3, <4>4
    <3> QED BY <2>1, <3>1, <3>2
  <2>7. j \in 1 .. i - 1 /\ cmds[i].status # "queued"
    BY <2>3, <2>6
  <2> QED BY <2>1, <2>6, <2>7 DEF QueuesInOrder
<1> QED BY <1>1, HostInvariant, PTL

\* ResultsReady: the centres and distortions that are printed have been read, although
\* only the last of the reads is waited for.
THEOREM HostResultsReady == Spec => []ResultsReady
<1>1. HostInv => ResultsReady
  <2> SUFFICES ASSUME HostInv, Makes("show") PROVE ResultsReady
    BY DEF ResultsReady
  <2>1. \E a, l, m : Ahead(a, l, m)
    BY NextCallIs DEF Makes
  <2>2. PICK a, l, m : Ahead(a, l, m)
    BY <2>1
  <2>3. Finds(Next_call, a) /\ \A c \in a.ended : Complete(c)
    BY <2>2 DEF Ahead, NextKnown, Legal, Matches
  <2> QED BY <2>3 DEF ResultsReady, Finds, Makes
<1> QED BY <1>1, HostInvariant, PTL

\* NoUseAfterFree: while nothing fails, cleanup frees no memory that a command works
\* on, but for the two results that nobody waits for.
THEOREM HostNoUseAfterFree == Spec => []NoUseAfterFree
<1>1. HostInv => NoUseAfterFree
  BY DEF HostInv
<1> QED BY <1>1, HostInvariant, PTL

\* CleanedUp: however far the program came, cleanup leaves nothing behind but what it
\* has no name for, and the leaves of the tree of the program with shared virtual
\* memory; a run of that program in which nothing fails leaves all of them.
THEOREM HostCleanedUp == Spec => []CleanedUp
<1>1. HostInv => CleanedUp
  <2> SUFFICES ASSUME HostInv, todo = <<>> PROVE CleanedUp
    BY DEF CleanedUp
  <2>1. CASE outcome = "ok" /\ GoesOn
    <3>1. PICK a, m : Matches(a) /\ Final(build, m) /\ Leads(build, a, todo, m)
      BY <2>1 DEF GoesOn
    <3>2. Len(todo) = 0
      OBVIOUS
    <3>3. a = m
      BY <3>1, <3>2 DEF Leads
    <3> QED BY <2>1, <3>1, <3>3 DEF Matches, Final, Rest, CleanedUp
  <2>2. CASE outcome = "cleanup" /\ CleansUp
    <3>1. Len(todo) = 0
      OBVIOUS
    <3>2. held \subseteq Leftover(build)
      BY <2>2, <3>1 DEF CleansUp
    <3> QED BY <2>2, <3>2 DEF CleanedUp, Leftover, Rest
  <2>3. CASE outcome = "return" /\ held \subseteq Arrays
    BY <2>3 DEF CleanedUp
  <2>4. CASE outcome \in {"exit", "killed"}
    BY <2>4 DEF CleanedUp
  <2> QED BY <2>1, <2>2, <2>3, <2>4 DEF HostInv
<1> QED BY <1>1, HostInvariant, PTL
=============================================================================
