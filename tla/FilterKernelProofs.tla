------------------------- MODULE FilterKernelProofs -------------------------
(***************************************************************************)
(* Theorems about the filter kernels and their pool of candidate sets, for *)
(* every tree, every set of centres, every pool and every batch size, and  *)
(* whatever the delay of chan2.                                            *)
(*                                                                         *)
(* The argument.  The records to be processed form one sequence, Pending:  *)
(* the batch and, behind it, the stack.  Moving a record from the stack to *)
(* chan0 and on to chan1 leaves it as it is; only the second loop changes  *)
(* it, taking the first record and putting its children in the middle.  A  *)
(* set in use is freed by the last record that uses it (FreedByLastUser),  *)
(* so that what is freed is used by no other and waits in chan2 at most    *)
(* once; so it may go to the free list, which is a chain without cycles    *)
(* that holds exactly the locations not taken (FreeChain), and the head of *)
(* the chain, or the set just freed, is a fresh location for a new set.    *)
(***************************************************************************)
EXTENDS FilterKernel, TLAPS, SequenceTheorems, FiniteSetTheorems, WellFoundedInduction

-----------------------------------------------------------------------------
(***************************************************************************)
(* The inductive invariant.                                                *)
(***************************************************************************)

LastBatch  == chan1 \o chan0 = <<Terminator>>
PlainBatch == chan0 \in Seq(StackEntry) /\ chan1 \in Seq(SearchedEntry)

\* What the channels hold in each of filter0's loops.
BatchShape ==
  /\ LastBatch \/ PlainBatch
  /\ LastBatch => stack = <<>>
  /\ pc = "push" => /\ PlainBatch /\ chan1 = <<>>
                    /\ Len(chan0) = read_counter /\ read_counter < BatchSize
                    /\ chan0 # <<>> => stack # <<>>
  /\ pc = "search" => chan0 # <<>>
  /\ pc = "process" => chan0 = <<>>
  /\ pc \in {"push", "search"} => stored = {}

\* The locations that are not free, but for location 0.
Taken == InUse(Pending) \cup {cs_0} \cup Delayed

\* The free list, as the m locations that it leads through.
Chain(f, m, list, next) ==
  /\ f \in [0 .. m -> 0 .. PoolSize]
  /\ f[0] = next /\ f[m] = PoolSize
  /\ \A i \in 0 .. m - 1 : f[i] \in Locations /\ list[f[i]] = f[i + 1]
  /\ \A i, j \in 0 .. m - 1 : f[i] = f[j] => i = j

Through(f, m) == {f[i] : i \in 0 .. m - 1}

\* The allocator's list and counter agree with the set of locations that are taken.
Accounts(taken, list, next, heap) ==
  /\ list \in [Locations -> 0 .. PoolSize]
  /\ taken \subseteq Locations \ {0} /\ cs_0 \in taken
  /\ heap = Cardinality(taken) /\ heap \in 1 .. PoolSize - 4
  /\ \E f : /\ Chain(f, PoolSize - 1 - heap, list, next)
            /\ Through(f, PoolSize - 1 - heap) = Locations \ (taken \cup {0})

\* A set that waits in chan2 waits once, and nobody uses it.
ReturnedOnce ==
  /\ \A i, j \in 1 .. Len(chan2) : chan2[i] = chan2[j] => i = j
  /\ (InUse(Pending) \cup {cs_0}) \cap Delayed = {}

KernelInv ==
  /\ TypeOK
  /\ BatchShape
  /\ Accounts(Taken, flist, next_free_location, heap_consumption)
  /\ ReturnedOnce
  /\ FreedByLastUser
  /\ CandidatesIntact /\ cs_pool[cs_0] = Centres
  /\ PoolIvdep

-----------------------------------------------------------------------------
(***************************************************************************)
(* The free list.                                                          *)
(***************************************************************************)

LEMMA PoolConstants ==
  /\ PoolSize \in Nat /\ PoolSize > 4 /\ Locations = 0 .. PoolSize - 1
  /\ cs_0 \in Locations /\ cs_0 = 1
  BY FilterAssumption DEF Locations, cs_0

LEMMA ThroughMember ==
  ASSUME NEW f, NEW m \in Nat
  PROVE  /\ \A x : x \in Through(f, m) <=> \E i \in 0 .. m - 1 : x = f[i]
         /\ \A i \in 0 .. m - 1 : f[i] \in Through(f, m)
  BY DEF Through

\* The head of the list is taken off.
LEMMA ChainPop ==
  ASSUME NEW f, NEW m \in Nat \ {0}, NEW list, NEW next, Chain(f, m, list, next)
  PROVE  /\ next \in Through(f, m)
         /\ \E g : Chain(g, m - 1, list, list[next]) /\ Through(g, m - 1) = Through(f, m) \ {next}
<1> DEFINE g == [i \in 0 .. m - 1 |-> f[i + 1]]
<1>1. \A i \in 0 .. m - 1 : g[i] = f[i + 1]
  OBVIOUS
<1>2. g \in [0 .. m - 1 -> 0 .. PoolSize] /\ g[0] = list[next] /\ g[m - 1] = PoolSize
  BY DEF Chain
<1>3. \A i \in 0 .. (m - 1) - 1 : g[i] \in Locations /\ list[g[i]] = g[i + 1]
  BY <1>1 DEF Chain
<1>4. \A i, j \in 0 .. (m - 1) - 1 : g[i] = g[j] => i = j
  BY <1>1 DEF Chain
<1> HIDE DEF g
<1>5. Chain(g, m - 1, list, list[next])
  BY <1>2, <1>3, <1>4 DEF Chain
<1>6. m - 1 \in Nat /\ f[0] = next /\ 0 \in 0 .. m - 1
  BY DEF Chain
<1>7. next \in Through(f, m)
  BY <1>6, ThroughMember
<1>8. ASSUME NEW x PROVE x \in Through(g, m - 1) <=> x \in Through(f, m) /\ x # next
  <2>1. ASSUME x \in Through(g, m - 1) PROVE x \in Through(f, m) /\ x # next
    <3>1. PICK i \in 0 .. (m - 1) - 1 : x = g[i]
      BY <1>6, <2>1, ThroughMember
    <3>2. x = f[i + 1] /\ i + 1 \in 0 .. m - 1 /\ i + 1 # 0
      BY <1>1, <3>1
    <3>3. x # f[0]
      BY <1>6, <3>2 DEF Chain
    <3> QED BY <1>6, <3>2, <3>3, ThroughMember
  <2>2. ASSUME x \in Through(f, m), x # next PROVE x \in Through(g, m - 1)
    <3>1. PICK i \in 0 .. m - 1 : x = f[i]
      BY <2>2, ThroughMember
    <3>2. i # 0
      BY <1>6, <2>2, <3>1
    <3>3. i - 1 \in 0 .. (m - 1) - 1 /\ x = g[i - 1]
      BY <1>1, <3>1, <3>2
    <3> QED BY <1>6, <3>3, ThroughMember
  <2> QED BY <2>1, <2>2
<1>9. Through(g, m - 1) = Through(f, m) \ {next}
  BY <1>8
<1> QED BY <1>5, <1>7, <1>9

\* A location that is not on the list becomes its head.
LEMMA ChainPush ==
  ASSUME NEW f, NEW m \in Nat, NEW list \in [Locations -> 0 .. PoolSize], NEW next,
         Chain(f, m, list, next),
         NEW address \in Locations, address \notin Through(f, m),
         NEW l, l[address] = next,
         \A x \in Locations : x # address => l[x] = list[x]
  PROVE  \E g : /\ Chain(g, m + 1, l, address)
                /\ Through(g, m + 1) = Through(f, m) \cup {address}
<1> DEFINE g == [i \in 0 .. m + 1 |-> IF i = 0 THEN address ELSE f[i - 1]]
<1> USE PoolConstants
<1>1. \A i \in 0 .. m + 1 : g[i] = IF i = 0 THEN address ELSE f[i - 1]
  OBVIOUS
<1>2. g \in [0 .. m + 1 -> 0 .. PoolSize] /\ g[0] = address /\ g[m + 1] = PoolSize
  BY DEF Chain
<1>3. \A i \in 0 .. m - 1 : f[i] # address
  BY ThroughMember
<1>4. \A i \in 0 .. m : g[i] \in Locations /\ l[g[i]] = g[i + 1]
  <2> SUFFICES ASSUME NEW i \in 0 .. m PROVE g[i] \in Locations /\ l[g[i]] = g[i + 1]
    OBVIOUS
  <2>1. CASE i = 0
    BY <1>1, <2>1 DEF Chain
  <2>2. CASE i # 0
    <3>1. g[i] = f[i - 1] /\ g[i + 1] = f[i] /\ i - 1 \in 0 .. m - 1
      BY <1>1, <2>2
    <3>2. f[i - 1] \in Locations /\ list[f[i - 1]] = f[(i - 1) + 1] /\ (i - 1) + 1 = i
      BY <3>1 DEF Chain
    <3> QED BY <1>3, <3>1, <3>2
  <2> QED BY <2>1, <2>2
<1>5. \A i, j \in 0 .. m : g[i] = g[j] => i = j
  BY SMTT(60), <1>1, <1>3 DEF Chain
<1> HIDE DEF g
<1>6. Chain(g, m + 1, l, address)
  <2>1. (m + 1) - 1 = m
    OBVIOUS
  <2> QED BY <1>2, <1>4, <1>5, <2>1 DEF Chain
<1>7. ASSUME NEW x PROVE x \in Through(g, m + 1) <=> x \in Through(f, m) \/ x = address
  <2>1. ASSUME x \in Through(g, m + 1) PROVE x \in Through(f, m) \/ x = address
    <3>1. PICK i \in 0 .. m : x = g[i]
      BY <2>1, ThroughMember
    <3>2. CASE i = 0
      BY <1>1, <3>1, <3>2
    <3>3. CASE i # 0
      <4>1. i - 1 \in 0 .. m - 1 /\ x = f[i - 1]
        BY <1>1, <3>1, <3>3
      <4> QED BY <4>1, ThroughMember
    <3> QED BY <3>2, <3>3
  <2>2. ASSUME x \in Through(f, m) PROVE x \in Through(g, m + 1)
    <3>1. PICK i \in 0 .. m - 1 : x = f[i]
      BY <2>2, ThroughMember
    <3>2. i + 1 \in 0 .. (m + 1) - 1 /\ x = g[i + 1]
      BY <1>1, <3>1
    <3> QED BY <3>2, ThroughMember
  <2>3. address \in Through(g, m + 1)
    BY <1>2, ThroughMember
  <2> QED BY <2>1, <2>2, <2>3
<1>8. Through(g, m + 1) = Through(f, m) \cup {address}
  BY <1>7
<1> QED BY <1>6, <1>8

\* A write of a link that is not on the list.
LEMMA ChainKeep ==
  ASSUME NEW f, NEW m \in Nat, NEW list \in [Locations -> 0 .. PoolSize], NEW next,
         Chain(f, m, list, next),
         NEW address \in Locations, address \notin Through(f, m), NEW x
  PROVE  Chain(f, m, [list EXCEPT ![address] = x], next)
<1>1. \A i \in 0 .. m - 1 : f[i] # address
  BY ThroughMember
<1> QED BY <1>1 DEF Chain

\* The values of the allocator's three results in the four cases.
LEMMA FusedValues ==
  ASSUME NEW address, NEW free_first, NEW heap_full,
         NEW h, h = fused_kernel_conditional_free_malloc(address, free_first, heap_full)
  PROVE  /\ h.flist = IF free_first THEN [flist EXCEPT ![address] = next_free_location] ELSE flist
         /\ h.next = IF free_first /\ heap_full THEN address
                     ELSE IF ~free_first /\ ~heap_full THEN flist[next_free_location]
                     ELSE next_free_location
         /\ h.new = IF heap_full THEN cs_0
                    ELSE IF free_first THEN address ELSE next_free_location
  BY Zenon DEF fused_kernel_conditional_free_malloc

LEMMA TakenFinite ==
  ASSUME NEW taken, taken \subseteq Locations \ {0}
  PROVE  IsFiniteSet(taken)
<1>1. IsFiniteSet(Locations)
  BY PoolConstants, FS_Interval
<1> QED BY <1>1, FS_Subset

\* A new set takes the head of the list.
LEMMA AccountsTake ==
  ASSUME NEW taken, NEW list, NEW next, NEW heap, Accounts(taken, list, next, heap),
         heap < PoolSize - 4
  PROVE  /\ next \in Locations \ (taken \cup {0})
         /\ Accounts(taken \cup {next}, list, list[next], heap + 1)
<1>0. /\ list \in [Locations -> 0 .. PoolSize]
      /\ taken \subseteq Locations \ {0} /\ cs_0 \in taken
      /\ heap = Cardinality(taken) /\ heap \in 1 .. PoolSize - 4 /\ heap \in Nat
  BY PoolConstants DEF Accounts
<1> DEFINE m == PoolSize - 1 - heap
<1>2. PICK f : Chain(f, m, list, next) /\ Through(f, m) = Locations \ (taken \cup {0})
  BY DEF Accounts
<1>1. m \in Nat \ {0} /\ PoolSize - 1 - (heap + 1) = m - 1
  BY SMTT(60), <1>0, PoolConstants
<1> HIDE DEF m
<1>3. PICK g : Chain(g, m - 1, list, list[next]) /\ Through(g, m - 1) = Through(f, m) \ {next}
  BY <1>2, <1>1, ChainPop
<1>4. next \in Through(f, m)
  BY <1>2, <1>1, ChainPop
<1>5. next \in Locations \ (taken \cup {0})
  BY <1>2, <1>4
<1>6. Cardinality(taken \cup {next}) = heap + 1
  BY <1>0, <1>5, TakenFinite, FS_AddElement
<1>7. Through(g, m - 1) = Locations \ ((taken \cup {next}) \cup {0})
  BY <1>2, <1>3
<1>8. heap + 1 \in 1 .. PoolSize - 4
  BY <1>0, PoolConstants
<1>9. taken \cup {next} \subseteq Locations \ {0} /\ cs_0 \in taken \cup {next}
  BY <1>0, <1>5
<1> QED BY <1>0, <1>1, <1>3, <1>5, <1>6, <1>7, <1>8, <1>9 DEF Accounts

\* A location that is freed becomes the head of the list.
LEMMA AccountsFree ==
  ASSUME NEW taken, NEW list, NEW next, NEW heap, Accounts(taken, list, next, heap),
         NEW address \in taken, address # cs_0
  PROVE  Accounts(taken \ {address}, [list EXCEPT ![address] = next], address, heap - 1)
<1> DEFINE l == [list EXCEPT ![address] = next]
<1>0. /\ list \in [Locations -> 0 .. PoolSize]
      /\ taken \subseteq Locations \ {0} /\ cs_0 \in taken
      /\ heap = Cardinality(taken) /\ heap \in 1 .. PoolSize - 4 /\ heap \in Nat
  BY SMTT(60), PoolConstants DEF Accounts
<1> DEFINE m == PoolSize - 1 - heap
<1>2. PICK f : Chain(f, m, list, next) /\ Through(f, m) = Locations \ (taken \cup {0})
  BY DEF Accounts
<1>1. m \in Nat /\ PoolSize - 1 - (heap - 1) = m + 1
  BY SMTT(60), <1>0, PoolConstants
<1> HIDE DEF m
<1>3. address \in Locations \ {0} /\ address \notin Through(f, m)
  BY <1>0, <1>2
<1>4. PICK g : Chain(g, m + 1, l, address) /\ Through(g, m + 1) = Through(f, m) \cup {address}
  <2>1. address \in Locations
    BY <1>3
  <2>2. l[address] = next /\ \A x \in Locations : x # address => l[x] = list[x]
    BY <1>0, <1>3
  <2>3. m \in Nat /\ list \in [Locations -> 0 .. PoolSize] /\ address \notin Through(f, m)
    BY <1>0, <1>1, <1>3
  <2>4. Chain(f, m, list, next)
    BY <1>2
  <2> HIDE DEF l
  <2> QED BY <2>1, <2>2, <2>3, <2>4, ChainPush
<1>5. l \in [Locations -> 0 .. PoolSize]
  <2>1. next \in 0 .. PoolSize
    BY <1>1, <1>2, PoolConstants DEF Chain
  <2> QED BY <1>0, <1>3, <2>1
<1> HIDE DEF l
<1>6. Through(g, m + 1) = Locations \ ((taken \ {address}) \cup {0})
  BY <1>2, <1>3, <1>4
<1>7. IsFiniteSet(taken \ {address}) /\ Cardinality(taken \ {address}) = heap - 1
  BY <1>0, TakenFinite, FS_RemoveElement
<1>8. heap - 1 \in 1 .. PoolSize - 4
  <2>1. taken \ {address} # {}
    BY <1>0
  <2>2. Cardinality(taken \ {address}) \in Nat /\ Cardinality(taken \ {address}) # 0
    BY <1>7, <2>1, FS_EmptySet, FS_CardinalityType
  <2> QED BY SMTT(60), <1>0, <1>7, <2>2, PoolConstants
<1>9. Accounts(taken \ {address}, l, address, heap - 1)
  BY <1>0, <1>1, <1>4, <1>5, <1>6, <1>7, <1>8 DEF Accounts
<1> QED BY <1>9 DEF l

\* A location that is freed and taken again at once is not linked in.
LEMMA AccountsReuse ==
  ASSUME NEW taken, NEW list, NEW next, NEW heap, Accounts(taken, list, next, heap),
         NEW address \in taken
  PROVE  Accounts(taken, [list EXCEPT ![address] = next], next, heap)
<1> DEFINE l == [list EXCEPT ![address] = next]
<1>0. /\ list \in [Locations -> 0 .. PoolSize]
      /\ taken \subseteq Locations \ {0} /\ cs_0 \in taken
      /\ heap = Cardinality(taken) /\ heap \in 1 .. PoolSize - 4 /\ heap \in Nat
  BY SMTT(60), PoolConstants DEF Accounts
<1>1. PICK m \in Nat : m = PoolSize - 1 - heap
  BY <1>0, PoolConstants
<1>2. PICK f : Chain(f, m, list, next) /\ Through(f, m) = Locations \ (taken \cup {0})
  BY <1>1 DEF Accounts
<1>3. address \in Locations /\ address \notin Through(f, m)
  BY <1>0, <1>2
<1>4. Chain(f, m, l, next)
  BY <1>0, <1>2, <1>1, <1>3, ChainKeep
<1>5. l \in [Locations -> 0 .. PoolSize]
  <2>1. next \in 0 .. PoolSize
    BY <1>2, PoolConstants DEF Chain
  <2> QED BY <1>0, <1>3, <2>1
<1> HIDE DEF l
<1>6. Accounts(taken, l, next, heap)
  BY <1>0, <1>2, <1>1, <1>4, <1>5 DEF Accounts
<1> QED BY <1>6 DEF l

\* The allocator frees a taken location, or none, and takes a fresh one unless
\* the pool is nearly full; its list and counter keep agreeing with what is taken.
LEMMA AllocatorStep ==
  ASSUME NEW taken, Accounts(taken, flist, next_free_location, heap_consumption),
         NEW free_first \in BOOLEAN, NEW address,
         free_first => address \in taken \ {cs_0},
         NEW rest, rest = IF free_first THEN taken \ {address} ELSE taken,
         NEW full \in BOOLEAN, full <=> heap_consumption >= PoolSize - 4,
         NEW h, h = fused_kernel_conditional_free_malloc(address, free_first, full)
  PROVE  /\ full => h.new = cs_0
         /\ ~full => h.new \in Locations \ {0} /\ h.new \notin rest
         /\ Accounts(IF full THEN rest ELSE rest \cup {h.new},
                     h.flist, h.next, new_heap_consumption(free_first))
<1>1. /\ h.flist = IF free_first THEN [flist EXCEPT ![address] = next_free_location] ELSE flist
      /\ h.next = IF free_first /\ full THEN address
                  ELSE IF ~free_first /\ ~full THEN flist[next_free_location]
                  ELSE next_free_location
      /\ h.new = IF full THEN cs_0 ELSE IF free_first THEN address ELSE next_free_location
  BY FusedValues
<1>2. new_heap_consumption(free_first) =
        IF full THEN (IF free_first THEN heap_consumption - 1 ELSE heap_consumption)
        ELSE (IF free_first THEN heap_consumption ELSE heap_consumption + 1)
  BY DEF new_heap_consumption, max_heap_usage_reached
<1>3. /\ heap_consumption \in Nat /\ (~full => heap_consumption < PoolSize - 4)
      /\ taken \subseteq Locations \ {0} /\ cs_0 \in taken
  BY PoolConstants DEF Accounts
<1>4. CASE ~full /\ ~free_first
  <2>1. /\ next_free_location \in Locations \ (taken \cup {0})
        /\ Accounts(taken \cup {next_free_location}, flist, flist[next_free_location],
                    heap_consumption + 1)
    BY <1>3, <1>4, AccountsTake
  <2> QED BY <1>1, <1>2, <1>4, <2>1
<1>5. CASE ~full /\ free_first
  <2>1. Accounts(taken, [flist EXCEPT ![address] = next_free_location], next_free_location,
                 heap_consumption)
    BY <1>5, AccountsReuse
  <2>2. rest \cup {address} = taken /\ address \notin rest /\ address \in Locations \ {0}
    BY <1>3, <1>5
  <2> QED BY <1>1, <1>2, <1>5, <2>1, <2>2
<1>6. CASE full /\ free_first
  <2>1. Accounts(taken \ {address}, [flist EXCEPT ![address] = next_free_location], address,
                 heap_consumption - 1)
    BY <1>6, AccountsFree
  <2> QED BY <1>1, <1>2, <1>6, <2>1
<1>7. CASE full /\ ~free_first
  BY <1>1, <1>2, <1>7
<1> QED BY <1>4, <1>5, <1>6, <1>7

-----------------------------------------------------------------------------
(***************************************************************************)
(* The records to be processed.                                            *)
(***************************************************************************)

PendingOf(batch1, batch0, st) ==
  (IF batch1 \o batch0 = <<Terminator>> THEN <<>> ELSE batch1 \o batch0) \o Reversed(st)

LastFrees(p) ==
  \A i \in 1 .. Len(p) :
    IF p[i].c = cs_0 THEN ~p[i].d
    ELSE p[i].d <=> \A j \in i + 1 .. Len(p) : p[j].c # p[i].c

\* A record carries the candidates stored for it, and their number.
Holds(s, pool) == pool[s.c] = s.cand /\ s.k = Cardinality(s.cand)

Intact(p, pool) == \A i \in 1 .. Len(p) : Holds(p[i], pool)

SameRecords(p, q) ==
  /\ Len(q) = Len(p)
  /\ \A i \in 1 .. Len(p) :
       /\ q[i].u = p[i].u /\ q[i].c = p[i].c /\ q[i].k = p[i].k /\ q[i].d = p[i].d
       /\ q[i].cand = p[i].cand

LEMMA PendingForms ==
  /\ Pending = PendingOf(chan1, chan0, stack)
  /\ FreedByLastUser <=> LastFrees(Pending)
  /\ CandidatesIntact <=> Intact(Pending, cs_pool)
  BY DEF Pending, PendingOf, FreedByLastUser, LastFrees, CandidatesIntact, Intact, Holds

LEMMA ReversedSeq ==
  ASSUME NEW S, NEW st \in Seq(S)
  PROVE  /\ Reversed(st) \in Seq(S) /\ Len(Reversed(st)) = Len(st)
         /\ \A i \in 1 .. Len(st) : Reversed(st)[i] = st[Len(st) + 1 - i]
<1>1. Len(st) \in Nat /\ \A i \in 1 .. Len(st) : st[Len(st) + 1 - i] \in S
  OBVIOUS
<1>2. Reversed(st) \in [1 .. Len(st) -> S]
  BY <1>1 DEF Reversed
<1>3. Reversed(st) \in Seq(S)
  BY <1>1, <1>2
<1>4. Len(Reversed(st)) = Len(st)
  BY <1>1, <1>2, <1>3, LenProperties
<1> QED BY <1>1, <1>3, <1>4 DEF Reversed

\* p holds the records of chan1, then those of chan0, then the stack from its top.
InOrder(p, b1, b0, st) ==
  /\ p \in Seq(StackEntry \cup SearchedEntry)
  /\ Len(p) = Len(b1) + Len(b0) + Len(st)
  /\ \A i \in 1 .. Len(b1) : p[i] = b1[i]
  /\ \A i \in 1 .. Len(b0) : p[Len(b1) + i] = b0[i]
  /\ \A i \in 1 .. Len(st) : p[Len(b1) + Len(b0) + i] = st[Len(st) + 1 - i]
  /\ b1 \o b0 # <<Terminator>>

LEMMA PlainPending ==
  ASSUME NEW b1 \in Seq(SearchedEntry), NEW b0 \in Seq(StackEntry), NEW st \in Seq(StackEntry)
  PROVE  InOrder(PendingOf(b1, b0, st), b1, b0, st)
<1> DEFINE p == PendingOf(b1, b0, st)
<1> DEFINE E == StackEntry \cup SearchedEntry
           b == b1 \o b0
           r == Reversed(st)
<1>1. b1 \in Seq(E) /\ b0 \in Seq(E) /\ st \in Seq(E)
  OBVIOUS
<1>2. r \in Seq(E) /\ Len(r) = Len(st) /\ \A i \in 1 .. Len(st) : r[i] = st[Len(st) + 1 - i]
  BY <1>1, ReversedSeq
<1>3. /\ b \in Seq(E) /\ Len(b) = Len(b1) + Len(b0)
      /\ \A i \in 1 .. Len(b) : b[i] = IF i <= Len(b1) THEN b1[i] ELSE b0[i - Len(b1)]
  BY <1>1, ConcatProperties
<1>4. b # <<Terminator>>
  <2>1. ASSUME b = <<Terminator>> PROVE FALSE
    <3>1. Len(b) = 1 /\ b[1] = Terminator /\ b[1] \in E
      BY <1>3, <2>1
    <3> QED BY <3>1, TerminatorAssumption
  <2> QED BY <2>1
<1>5. p = b \o r
  BY <1>4 DEF PendingOf
<1> HIDE DEF b, r, p, E
<1>6. /\ p \in Seq(E) /\ Len(p) = Len(b) + Len(r)
      /\ \A i \in 1 .. Len(p) : p[i] = IF i <= Len(b) THEN b[i] ELSE r[i - Len(b)]
  <2>1. b \in Seq(E) /\ r \in Seq(E)
    BY <1>2, <1>3
  <2>2. /\ b \o r \in Seq(E) /\ Len(b \o r) = Len(b) + Len(r)
        /\ \A i \in 1 .. Len(b) + Len(r) : (b \o r)[i] = IF i <= Len(b) THEN b[i] ELSE r[i - Len(b)]
    BY <2>1, ConcatProperties
  <2> QED BY <1>5, <2>2
<1>7. \A i \in 1 .. Len(b1) : p[i] = b1[i]
  BY <1>1, <1>2, <1>3, <1>6
<1>8. \A i \in 1 .. Len(b0) : p[Len(b1) + i] = b0[i]
  BY <1>1, <1>2, <1>3, <1>6
<1>9. \A i \in 1 .. Len(st) : p[Len(b1) + Len(b0) + i] = st[Len(st) + 1 - i]
  <2> SUFFICES ASSUME NEW i \in 1 .. Len(st)
               PROVE  p[Len(b1) + Len(b0) + i] = st[Len(st) + 1 - i]
    OBVIOUS
  <2>1. Len(b1) \in Nat /\ Len(b0) \in Nat /\ Len(st) \in Nat
    BY <1>1
  <2>2. /\ Len(b1) + Len(b0) + i \in 1 .. Len(p) /\ ~(Len(b1) + Len(b0) + i <= Len(b))
        /\ Len(b1) + Len(b0) + i - Len(b) = i
    BY <2>1, <1>2, <1>3, <1>6
  <2> DEFINE x == Len(b1) + Len(b0) + i
  <2>3. x \in 1 .. Len(p) /\ ~(x <= Len(b)) /\ x - Len(b) = i
    BY <2>2
  <2> HIDE DEF x
  <2>4. p[x] = r[i]
    BY <1>6, <2>3
  <2>5. r[i] = st[Len(st) + 1 - i]
    BY <1>2
  <2> QED BY <2>4, <2>5 DEF x
<1>10. InOrder(p, b1, b0, st)
  BY <1>1, <1>2, <1>3, <1>4, <1>6, <1>7, <1>8, <1>9 DEF InOrder, b, E
<1> QED BY <1>10 DEF p

\* The terminator alone is no record.
LEMMA LastPending ==
  ASSUME NEW b1, NEW b0, b1 \o b0 = <<Terminator>>
  PROVE  PendingOf(b1, b0, <<>>) = <<>>
<1>1. Reversed(<<>>) = <<>>
  BY DEF Reversed
<1> QED BY <1>1 DEF PendingOf

LEMMA SameRecordsKeep ==
  ASSUME NEW p, NEW q, Len(p) \in Nat, SameRecords(p, q), NEW pool
  PROVE  /\ InUse(q) = InUse(p)
         /\ LastFrees(p) => LastFrees(q)
         /\ Intact(p, pool) => Intact(q, pool)
<1>1. InUse(q) = InUse(p)
  BY DEF SameRecords, InUse
<1>2. LastFrees(p) => LastFrees(q)
  <2> SUFFICES ASSUME LastFrees(p), NEW i \in 1 .. Len(q)
               PROVE  IF q[i].c = cs_0 THEN ~q[i].d
                      ELSE q[i].d <=> \A j \in i + 1 .. Len(q) : q[j].c # q[i].c
    BY DEF LastFrees
  <2>1. /\ i \in 1 .. Len(p) /\ q[i].c = p[i].c /\ q[i].d = p[i].d /\ Len(q) = Len(p)
        /\ \A j \in i + 1 .. Len(p) : q[j].c = p[j].c
    BY DEF SameRecords
  <2> QED BY <2>1 DEF LastFrees
<1>3. Intact(p, pool) => Intact(q, pool)
  BY DEF SameRecords, Intact, Holds
<1> QED BY <1>1, <1>2, <1>3

\* The locations of all records but the first.
Later(p) == {p[i].c : i \in 2 .. Len(p)}

LEMMA LaterMember ==
  ASSUME NEW p
  PROVE  \A i \in 2 .. Len(p) : p[i].c \in Later(p)
  BY DEF Later

\* The first record, if it frees its set, is alone in using it, and if not, is not.
LEMMA FirstRecord ==
  ASSUME NEW p, Len(p) \in Nat \ {0}, LastFrees(p)
  PROVE  /\ InUse(p) = Later(p) \cup {p[1].c}
         /\ p[1].d => p[1].c # cs_0 /\ p[1].c \notin Later(p)
         /\ ~p[1].d => p[1].c \in Later(p) \cup {cs_0}
<1>1. \A i : i \in 1 .. Len(p) <=> i = 1 \/ i \in 2 .. Len(p)
  OBVIOUS
<1>2. InUse(p) = Later(p) \cup {p[1].c}
  BY <1>1 DEF InUse, Later
<1>3. 1 \in 1 .. Len(p) /\ 1 + 1 = 2
  OBVIOUS
<1>4. IF p[1].c = cs_0 THEN ~p[1].d
      ELSE p[1].d <=> \A j \in 2 .. Len(p) : p[j].c # p[1].c
  BY <1>3 DEF LastFrees
<1>5. p[1].d => p[1].c # cs_0 /\ p[1].c \notin Later(p)
  BY <1>4 DEF Later
<1>6. ~p[1].d => p[1].c \in Later(p) \cup {cs_0}
  BY <1>4 DEF Later
<1> QED BY <1>2, <1>5, <1>6

\* A dead end: the first record goes.
LEMMA DropRecord ==
  ASSUME NEW p, Len(p) \in Nat \ {0}, LastFrees(p),
         NEW q, Len(q) = Len(p) - 1, \A i \in 1 .. Len(q) : q[i] = p[i + 1]
  PROVE  /\ InUse(q) = Later(p)
         /\ LastFrees(q)
<1>1. \A i \in 1 .. Len(q) : i + 1 \in 2 .. Len(p) /\ i + 1 \in 1 .. Len(p)
  OBVIOUS
<1>2. \A i \in 2 .. Len(p) : i - 1 \in 1 .. Len(q) /\ q[i - 1] = p[i]
  OBVIOUS
<1>3. InUse(q) = Later(p)
  <2>1. ASSUME NEW x \in InUse(q) PROVE x \in Later(p)
    BY <1>1 DEF InUse, Later
  <2>2. ASSUME NEW x \in Later(p) PROVE x \in InUse(q)
    BY <1>2 DEF InUse, Later
  <2> QED BY <2>1, <2>2
<1>4. LastFrees(q)
  <2> SUFFICES ASSUME NEW i \in 1 .. Len(q)
               PROVE  IF q[i].c = cs_0 THEN ~q[i].d
                      ELSE q[i].d <=> \A j \in i + 1 .. Len(q) : q[j].c # q[i].c
    BY DEF LastFrees
  <2>1. IF p[i + 1].c = cs_0 THEN ~p[i + 1].d
        ELSE p[i + 1].d <=> \A j \in (i + 1) + 1 .. Len(p) : p[j].c # p[i + 1].c
    BY <1>1 DEF LastFrees
  <2>2. q[i] = p[i + 1]
    OBVIOUS
  <2>3. (\A j \in (i + 1) + 1 .. Len(p) : p[j].c # p[i + 1].c)
          <=> \A j \in i + 1 .. Len(q) : q[j].c # q[i].c
    <3>1. \A j \in (i + 1) + 1 .. Len(p) : j - 1 \in i + 1 .. Len(q) /\ q[j - 1] = p[j]
      BY <1>2
    <3>2. \A j \in i + 1 .. Len(q) : j + 1 \in (i + 1) + 1 .. Len(p) /\ q[j] = p[j + 1]
      BY <1>1
    <3>3. ASSUME \A j \in (i + 1) + 1 .. Len(p) : p[j].c # p[i + 1].c, NEW j \in i + 1 .. Len(q)
          PROVE  q[j].c # q[i].c
      BY <2>2, <3>2, <3>3
    <3>4. ASSUME \A j \in i + 1 .. Len(q) : q[j].c # q[i].c, NEW j \in (i + 1) + 1 .. Len(p)
          PROVE  p[j].c # p[i + 1].c
      BY <2>2, <3>1, <3>4
    <3> QED BY <3>3, <3>4
  <2> QED BY <2>1, <2>2, <2>3
<1> QED BY <1>3, <1>4

\* Two children that share a new set, or cs_0, come between the batch and the
\* rest of the stack.
Inserted(p, q, m, new, full) ==
  /\ Len(q) = Len(p) + 1 /\ m \in 0 .. Len(p) - 1
  /\ \A i \in 1 .. m : q[i] = p[i + 1]
  /\ q[m + 1].c = new /\ q[m + 1].d = FALSE
  /\ q[m + 2].c = new /\ q[m + 2].d = ~full
  /\ \A i \in m + 3 .. Len(p) + 1 : q[i] = p[i - 1]

LEMMA PutChildren ==
  ASSUME NEW p, Len(p) \in Nat \ {0}, LastFrees(p),
         NEW q, NEW m, NEW full \in BOOLEAN, NEW new, Inserted(p, q, m, new, full),
         full => new = cs_0, ~full => new \notin Later(p) \cup {cs_0}
  PROVE  /\ InUse(q) = Later(p) \cup {new}
         /\ LastFrees(q)
<1> USE DEF Inserted
<1>1. \A i \in 1 .. Len(q) : i \in 1 .. m \/ i = m + 1 \/ i = m + 2 \/ i \in m + 3 .. Len(p) + 1
  OBVIOUS
<1>2. \A i \in 1 .. m : i + 1 \in 2 .. Len(p) /\ i + 1 \in 1 .. Len(p) /\ i \in 1 .. Len(q)
  OBVIOUS
<1>3. \A i \in m + 3 .. Len(p) + 1 : i - 1 \in 2 .. Len(p) /\ i - 1 \in 1 .. Len(p) /\ i \in 1 .. Len(q)
  OBVIOUS
<1>4. \A i \in 2 .. Len(p) : \/ i - 1 \in 1 .. m /\ q[i - 1] = p[i]
                             \/ i + 1 \in m + 3 .. Len(p) + 1 /\ q[i + 1] = p[i]
  OBVIOUS
<1>5. m + 1 \in 1 .. Len(q) /\ m + 2 \in 1 .. Len(q)
  OBVIOUS
<1>6. \A i \in 1 .. Len(q) : q[i].c \in Later(p) \cup {new}
  BY <1>1, <1>2, <1>3, LaterMember
<1>7. InUse(q) = Later(p) \cup {new}
  <2>1. InUse(q) \subseteq Later(p) \cup {new}
    BY <1>6 DEF InUse
  <2>2. Later(p) \subseteq InUse(q)
    <3> SUFFICES ASSUME NEW i \in 2 .. Len(p) PROVE p[i].c \in InUse(q)
      BY DEF Later
    <3>1. CASE i - 1 \in 1 .. m /\ q[i - 1] = p[i]
      BY <1>2, <3>1 DEF InUse
    <3>2. CASE i + 1 \in m + 3 .. Len(p) + 1 /\ q[i + 1] = p[i]
      BY <1>3, <3>2 DEF InUse
    <3> QED BY <1>4, <3>1, <3>2
  <2>3. new \in InUse(q)
    BY <1>5 DEF InUse
  <2> QED BY <2>1, <2>2, <2>3
<1>8. ASSUME NEW i \in 1 .. Len(q)
      PROVE  IF q[i].c = cs_0 THEN ~q[i].d
             ELSE q[i].d <=> \A j \in i + 1 .. Len(q) : q[j].c # q[i].c
  <2>1. CASE i \in 1 .. m
    <3>1. IF p[i + 1].c = cs_0 THEN ~p[i + 1].d
          ELSE p[i + 1].d <=> \A j \in (i + 1) + 1 .. Len(p) : p[j].c # p[i + 1].c
      BY <1>2, <2>1 DEF LastFrees
    <3>2. q[i] = p[i + 1] /\ p[i + 1].c \in Later(p)
      BY <1>2, <2>1, LaterMember
    <3>3. CASE p[i + 1].c # cs_0
      <4>1. new # p[i + 1].c
        BY <3>2, <3>3
      <4>2. ASSUME \A j \in (i + 1) + 1 .. Len(p) : p[j].c # p[i + 1].c,
                   NEW j \in i + 1 .. Len(q)
            PROVE  q[j].c # q[i].c
        <5>1. CASE j \in 1 .. m
          <6>1. j + 1 \in (i + 1) + 1 .. Len(p) /\ q[j] = p[j + 1]
            BY <5>1
          <6> QED BY <3>2, <4>2, <6>1
        <5>2. CASE j \in m + 3 .. Len(p) + 1
          <6>1. j - 1 \in (i + 1) + 1 .. Len(p) /\ q[j] = p[j - 1]
            BY <2>1, <5>2
          <6> QED BY <3>2, <4>2, <6>1
        <5>3. CASE j = m + 1 \/ j = m + 2
          BY <3>2, <4>1, <5>3
        <5>4. j \in 1 .. Len(q)
          OBVIOUS
        <5> QED BY <1>1, <5>1, <5>2, <5>3, <5>4
      <4>3. ASSUME \A j \in i + 1 .. Len(q) : q[j].c # q[i].c,
                   NEW j \in (i + 1) + 1 .. Len(p)
            PROVE  p[j].c # p[i + 1].c
        <5>1. j \in 2 .. Len(p)
          OBVIOUS
        <5>2. CASE j - 1 \in 1 .. m /\ q[j - 1] = p[j]
          <6>1. j - 1 \in i + 1 .. Len(q)
            BY <5>2
          <6> QED BY <3>2, <4>3, <5>2, <6>1
        <5>3. CASE j + 1 \in m + 3 .. Len(p) + 1 /\ q[j + 1] = p[j]
          <6>1. j + 1 \in i + 1 .. Len(q)
            BY <5>3
          <6> QED BY <3>2, <4>3, <5>3, <6>1
        <5> QED BY <1>4, <5>1, <5>2, <5>3
      <4> QED BY <3>1, <3>2, <3>3, <4>2, <4>3
    <3> QED BY <3>1, <3>2, <3>3
  <2>2. CASE i = m + 1
    <3>1. i + 1 = m + 2 /\ i + 1 \in i + 1 .. Len(q)
      BY <2>2
    <3> QED BY <2>2, <3>1
  <2>3. CASE i = m + 2
    <3>1. CASE full
      BY <2>3, <3>1
    <3>2. CASE ~full
      <4>1. ASSUME NEW j \in i + 1 .. Len(q) PROVE q[j].c # new
        <5>1. j \in m + 3 .. Len(p) + 1
          BY <2>3
        <5>2. q[j].c \in Later(p)
          BY <1>3, <5>1, LaterMember
        <5> QED BY <3>2, <5>2
      <4> QED BY <2>3, <3>2, <4>1
    <3> QED BY <3>1, <3>2
  <2>4. CASE i \in m + 3 .. Len(p) + 1
    <3>1. IF p[i - 1].c = cs_0 THEN ~p[i - 1].d
          ELSE p[i - 1].d <=> \A j \in (i - 1) + 1 .. Len(p) : p[j].c # p[i - 1].c
      BY <1>3, <2>4 DEF LastFrees
    <3>2. q[i] = p[i - 1]
      BY <2>4
    <3>3. (\A j \in (i - 1) + 1 .. Len(p) : p[j].c # p[i - 1].c)
            <=> \A j \in i + 1 .. Len(q) : q[j].c # q[i].c
      <4>1. \A j \in (i - 1) + 1 .. Len(p) : j + 1 \in i + 1 .. Len(q) /\ q[j + 1] = p[j]
        BY <2>4
      <4>2. \A j \in i + 1 .. Len(q) : j - 1 \in (i - 1) + 1 .. Len(p) /\ q[j] = p[j - 1]
        BY <2>4
      <4>3. ASSUME \A j \in (i - 1) + 1 .. Len(p) : p[j].c # p[i - 1].c,
                   NEW j \in i + 1 .. Len(q)
            PROVE  q[j].c # q[i].c
        BY <3>2, <4>2, <4>3
      <4>4. ASSUME \A j \in i + 1 .. Len(q) : q[j].c # q[i].c,
                   NEW j \in (i - 1) + 1 .. Len(p)
            PROVE  p[j].c # p[i - 1].c
        <5>1. j + 1 \in i + 1 .. Len(q) /\ q[j + 1] = p[j]
          BY <4>1
        <5>2. q[j + 1].c # q[i].c
          BY <4>4, <5>1
        <5> QED BY <3>2, <5>1, <5>2
      <4> QED BY <4>3, <4>4
    <3> QED BY <3>1, <3>2, <3>3
  <2> QED BY <1>1, <2>1, <2>2, <2>3, <2>4
<1>9. LastFrees(q)
  BY <1>8 DEF LastFrees
<1> QED BY <1>7, <1>9

-----------------------------------------------------------------------------
(***************************************************************************)
(* The initial states.                                                     *)
(***************************************************************************)

LEMMA CentreCount ==
  /\ k \in Nat \ {0}
  /\ \A S \in SUBSET Centres : S # {} => Cardinality(S) \in 1 .. k
<1>1. IsFiniteSet(Centres) /\ Centres # {}
  BY FilterAssumption
<1>2. ASSUME NEW S \in SUBSET Centres, S # {} PROVE Cardinality(S) \in 1 .. k /\ k \in Nat
  <2>1. IsFiniteSet(S) /\ Cardinality(S) <= k
    BY <1>1, FS_Subset DEF k
  <2>2. Cardinality(S) \in Nat /\ Cardinality(S) # 0 /\ k \in Nat
    BY <1>1, <1>2, <2>1, FS_CardinalityType, FS_EmptySet DEF k
  <2> QED BY <2>1, <2>2
<1> QED BY <1>1, <1>2

LEMMA AccountsInit ==
  ASSUME AllocatorInit
  PROVE  Accounts({cs_0}, flist, next_free_location, heap_consumption)
<1> USE PoolConstants
<1> DEFINE m == PoolSize - 1 - heap_consumption
           f == [i \in 0 .. m |-> i + 2]
<1>1. /\ heap_consumption = 1 /\ next_free_location = 2
      /\ flist = [i \in Locations |-> i + 1]
  BY DEF AllocatorInit
<1>2. m = PoolSize - 2
  BY <1>1
<1>3. \A i \in 0 .. m : f[i] = i + 2
  OBVIOUS
<1>4. f \in [0 .. m -> 0 .. PoolSize] /\ f[0] = next_free_location /\ f[m] = PoolSize
  BY <1>1, <1>2
<1>5. \A i \in 0 .. m - 1 : f[i] \in Locations /\ flist[f[i]] = f[i + 1]
  BY <1>1, <1>2
<1>6. \A i, j \in 0 .. m - 1 : f[i] = f[j] => i = j
  BY <1>2
<1>7. Through(f, m) = Locations \ ({cs_0} \cup {0})
  <2>1. \A i \in 0 .. m - 1 : i + 2 \in Locations \ ({cs_0} \cup {0})
    BY <1>2
  <2>2. \A x \in Locations \ ({cs_0} \cup {0}) : x - 2 \in 0 .. m - 1 /\ x = f[x - 2]
    BY <1>2
  <2>3. m \in Nat
    BY <1>2
  <2> HIDE DEF m, f
  <2>4. ASSUME NEW x PROVE x \in Through(f, m) <=> x \in Locations \ ({cs_0} \cup {0})
    <3>1. ASSUME x \in Through(f, m) PROVE x \in Locations \ ({cs_0} \cup {0})
      <4>1. PICK i \in 0 .. m - 1 : x = f[i]
        BY <2>3, <3>1, ThroughMember
      <4>2. f[i] = i + 2
        BY <1>3, <2>3
      <4> QED BY <2>1, <4>1, <4>2
    <3>2. ASSUME x \in Locations \ ({cs_0} \cup {0}) PROVE x \in Through(f, m)
      BY <2>2, <2>3, <3>2, ThroughMember
    <3> QED BY <3>1, <3>2
  <2> QED BY <2>4
<1> HIDE DEF f
<1>8. Chain(f, m, flist, next_free_location)
  BY <1>4, <1>5, <1>6 DEF Chain
<1>9. flist \in [Locations -> 0 .. PoolSize]
  BY <1>1
<1>10. Cardinality({cs_0}) = 1
  BY FS_Singleton
<1>11. {cs_0} \subseteq Locations \ {0} /\ 1 \in 1 .. PoolSize - 4
  OBVIOUS
<1> QED BY <1>1, <1>7, <1>8, <1>9, <1>10, <1>11 DEF Accounts

LEMMA InitKernelInv == Init => KernelInv
<1> SUFFICES ASSUME Init PROVE KernelInv
  OBVIOUS
<1> DEFINE root == [u |-> Root, c |-> cs_0, k |-> k, d |-> FALSE, cand |-> Centres]
<1>1. /\ stack = <<root>> /\ chan0 = <<>> /\ chan1 = <<>> /\ chan2 = <<>> /\ chan3 = <<>>
      /\ pc = "push" /\ read_counter = 0 /\ stored = {} /\ finished1 = FALSE
      /\ cs_pool = [l \in Locations |-> IF l = cs_0 THEN Centres ELSE {}]
      /\ centroid_buffer = [z \in Centres |-> {}]
  BY DEF Init
<1>2. root \in StackEntry
  BY FilterAssumption, PoolConstants, CentreCount DEF StackEntry
<1>3. stack \in Seq(StackEntry) /\ Len(stack) = 1 /\ stack[1] = root
  BY <1>1, <1>2
<1>4. Len(Pending) = 1 /\ Pending[1] = root
  <2>1. chan1 \in Seq(SearchedEntry) /\ chan0 \in Seq(StackEntry) /\ Len(chan1) = 0 /\ Len(chan0) = 0
    BY <1>1
  <2>2. /\ Len(Pending) = Len(chan1) + Len(chan0) + Len(stack)
        /\ \A i \in 1 .. Len(stack) : Pending[Len(chan1) + Len(chan0) + i] = stack[Len(stack) + 1 - i]
    <3>1. stack \in Seq(StackEntry) /\ Pending = PendingOf(chan1, chan0, stack)
      BY <1>3, PendingForms
    <3>2. InOrder(Pending, chan1, chan0, stack)
      BY <2>1, <3>1, PlainPending
    <3> QED BY <3>2 DEF InOrder
  <2>3. Len(Pending) = 1 /\ Pending[0 + 1] = stack[1 + 1 - 1]
    BY <1>3, <2>1, <2>2
  <2> QED BY <1>3, <2>3
<1>5. Accounts({cs_0}, flist, next_free_location, heap_consumption)
  BY AccountsInit DEF Init
<1>6. Taken = {cs_0} /\ InUse(Pending) = {cs_0} /\ Delayed = {}
  <2>1. InUse(Pending) = {cs_0}
    BY <1>4 DEF InUse
  <2>2. Delayed = {}
    BY <1>1 DEF Delayed
  <2> QED BY <2>1, <2>2 DEF Taken
<1>7. TypeOK
  <2>1. /\ flist \in [Locations -> 0 .. PoolSize]
        /\ heap_consumption \in 1 .. PoolSize - 4
    BY <1>5 DEF Accounts
  <2>2. next_free_location \in Locations
    BY PoolConstants DEF Init, AllocatorInit
  <2>3. cs_pool \in [Locations -> SUBSET Centres]
    BY <1>1
  <2>4. read_counter \in 0 .. BatchSize
    BY <1>1, FilterAssumption
  <2>5. centroid_buffer \in [Centres -> SUBSET Nodes]
    BY <1>1
  <2>6. /\ chan0 \in Seq(StackEntry \cup {Terminator})
        /\ chan1 \in Seq(SearchedEntry \cup {Terminator})
        /\ chan2 \in Seq(Locations)
        /\ chan3 \in Seq(DeadEnd \cup {Terminator})
    BY <1>1, EmptySeq
  <2>7. pc \in {"push", "search", "process", "finished"} /\ finished1 \in BOOLEAN
    BY <1>1
  <2> QED BY <1>3, <2>1, <2>2, <2>3, <2>4, <2>5, <2>6, <2>7 DEF TypeOK
<1>8. BatchShape
  <2>1. PlainBatch
    BY <1>1 DEF PlainBatch
  <2>2. ~LastBatch
    BY <1>3, <2>1, PlainPending DEF PlainBatch, LastBatch, InOrder
  <2>3. 0 < BatchSize
    BY FilterAssumption
  <2> QED BY <1>1, <2>1, <2>2, <2>3 DEF BatchShape
<1>9. ReturnedOnce
  BY <1>1, <1>6 DEF ReturnedOnce
<1>10. FreedByLastUser
  BY <1>4, PendingForms DEF LastFrees
<1>11. CandidatesIntact /\ cs_pool[cs_0] = Centres
  <2>1. cs_pool[cs_0] = Centres
    BY <1>1, PoolConstants
  <2> QED BY <1>4, <2>1, PendingForms DEF Intact, Holds, k
<1>12. PoolIvdep
  BY <1>1 DEF PoolIvdep
<1> QED BY <1>5, <1>6, <1>7, <1>8, <1>9, <1>10, <1>11, <1>12 DEF KernelInv

-----------------------------------------------------------------------------
(***************************************************************************)
(* The steps that move records without changing what is to be processed.   *)
(***************************************************************************)

LEMMA PendingPlain ==
  ASSUME TypeOK, PlainBatch
  PROVE  InOrder(Pending, chan1, chan0, stack)
<1>1. stack \in Seq(StackEntry)
  BY DEF TypeOK
<1> QED BY <1>1, PendingForms, PlainPending DEF PlainBatch

LEMMA PendingLast ==
  ASSUME BatchShape, LastBatch
  PROVE  Pending = <<>>
  BY PendingForms, LastPending DEF BatchShape, LastBatch

LEMMA PendingLength ==
  ASSUME TypeOK, BatchShape
  PROVE  Len(Pending) \in Nat
<1>1. CASE PlainBatch
  <2>1. Pending \in Seq(StackEntry \cup SearchedEntry)
    BY <1>1, PendingPlain DEF InOrder
  <2> QED BY <2>1
<1>2. CASE LastBatch
  BY <1>2, PendingLast
<1> QED BY <1>1, <1>2 DEF BatchShape

LEMMA PendingNext ==
  ASSUME chan1' \in Seq(SearchedEntry), chan0' \in Seq(StackEntry), stack' \in Seq(StackEntry)
  PROVE  InOrder(Pending', chan1', chan0', stack')
<1>1. Pending' = PendingOf(chan1', chan0', stack')
  BY DEF Pending, PendingOf, Reversed
<1> QED BY <1>1, PlainPending

LEMMA PendingLastNext ==
  ASSUME BatchShape', LastBatch'
  PROVE  Pending' = <<>>
<1>1. Pending' = PendingOf(chan1', chan0', stack')
  BY DEF Pending, PendingOf, Reversed
<1>2. stack' = <<>> /\ chan1' \o chan0' = <<Terminator>>
  BY DEF BatchShape, LastBatch
<1> QED BY <1>1, <1>2, LastPending

\* What every other step does to them: nothing that the traversal can see.
QuietMove ==
  /\ SameRecords(Pending, Pending')
  /\ cs_pool' = cs_pool /\ reported' = reported

LEMMA QuietStep ==
  ASSUME KernelInv, TypeOK', BatchShape', PoolIvdep', SameRecords(Pending, Pending'),
         UNCHANGED <<allocator, cs_pool, chan2, reported>>
  PROVE  KernelInv' /\ QuietMove
<1>1. Len(Pending) \in Nat
  BY PendingLength DEF KernelInv
<1>2. LastFrees(Pending) /\ Intact(Pending, cs_pool)
  BY PendingForms DEF KernelInv
<1>3. /\ InUse(Pending') = InUse(Pending)
      /\ LastFrees(Pending') /\ Intact(Pending', cs_pool)
  BY <1>1, <1>2, SameRecordsKeep
<1>4. /\ flist' = flist /\ next_free_location' = next_free_location
      /\ heap_consumption' = heap_consumption /\ cs_pool' = cs_pool /\ chan2' = chan2
  BY DEF allocator
<1>5. Delayed' = Delayed
  BY <1>4 DEF Delayed
<1>6. InUse(Pending)' = InUse(Pending')
  BY DEF InUse
<1>7. Taken' = Taken
  BY <1>3, <1>5, <1>6 DEF Taken
<1>8. Accounts(Taken', flist', next_free_location', heap_consumption')
  BY <1>4, <1>7 DEF KernelInv
<1>9. Accounts(Taken, flist, next_free_location, heap_consumption)'
  BY <1>8 DEF Accounts, Chain, Through, Locations, cs_0
<1>10. ReturnedOnce'
  BY <1>3, <1>4, <1>5, <1>6 DEF KernelInv, ReturnedOnce
<1>11. FreedByLastUser'
  BY <1>3 DEF FreedByLastUser, LastFrees
<1>12. CandidatesIntact' /\ (cs_pool[cs_0] = Centres)'
  BY <1>3, <1>4 DEF KernelInv, CandidatesIntact, Intact, Holds, cs_0
<1>13. KernelInv'
  BY <1>9, <1>10, <1>11, <1>12 DEF KernelInv
<1> QED BY <1>4, <1>13 DEF QuietMove

LEMMA PushEntryStep ==
  ASSUME KernelInv, PushEntry
  PROVE  KernelInv' /\ QuietMove
<1> DEFINE n == Len(stack)
<1>1. /\ stack # <<>> /\ stack \in Seq(StackEntry) /\ chan0 \in Seq(StackEntry) /\ chan1 = <<>>
      /\ stored = {} /\ Len(chan0) = read_counter /\ read_counter < BatchSize
      /\ pc = "push" /\ PlainBatch /\ read_counter \in Nat
  BY DEF KernelInv, TypeOK, BatchShape, PlainBatch, PushEntry
<1>2. n \in Nat \ {0} /\ stack[n] \in StackEntry
  BY <1>1
<1>3. /\ chan0' = Append(chan0, stack[n]) /\ stack' = SubSeq(stack, 1, n - 1)
      /\ read_counter' = read_counter + 1 /\ chan1' = chan1 /\ stored' = stored
      /\ pc' = IF stack' # <<>> /\ read_counter' < BatchSize THEN "push" ELSE "search"
      /\ UNCHANGED <<allocator, cs_pool, chan2, chan3, filter1, reported>>
  BY DEF PushEntry, history
<1>4. /\ chan0' \in Seq(StackEntry) /\ Len(chan0') = Len(chan0) + 1 /\ chan0' # <<>>
      /\ chan0'[Len(chan0) + 1] = stack[n] /\ \A i \in 1 .. Len(chan0) : chan0'[i] = chan0[i]
  BY SMTT(60), <1>1, <1>2, <1>3, AppendProperties
<1>5. /\ stack' \in Seq(StackEntry) /\ Len(stack') = n - 1
      /\ \A i \in 1 .. n - 1 : stack'[i] = stack[i]
  <2>1. \A i \in 1 .. n - 1 : stack[i] \in StackEntry
    BY <1>1
  <2>2. /\ SubSeq(stack, 1, n - 1) \in Seq(StackEntry)
        /\ Len(SubSeq(stack, 1, n - 1)) = IF 1 <= n - 1 THEN n - 1 - 1 + 1 ELSE 0
        /\ \A i \in 1 .. n - 1 - 1 + 1 : SubSeq(stack, 1, n - 1)[i] = stack[1 + i - 1]
    BY <1>2, <2>1, SubSeqProperties
  <2> HIDE DEF n
  <2>3. /\ n - 1 - 1 + 1 = n - 1 /\ (1 <= n - 1 \/ n - 1 = 0)
        /\ \A i \in 1 .. n - 1 : 1 + i - 1 = i
    BY <1>2
  <2> QED BY <1>3, <2>2, <2>3
<1>6. chan1' \in Seq(SearchedEntry) /\ Len(chan1) = 0 /\ Len(chan1') = 0
  BY <1>1, <1>3
<1>7. InOrder(Pending, chan1, chan0, stack) /\ InOrder(Pending', chan1', chan0', stack')
  BY <1>1, <1>4, <1>5, <1>6, PendingPlain, PendingNext DEF KernelInv
<1>8. PlainBatch' /\ ~LastBatch'
  BY <1>4, <1>6, <1>7 DEF PlainBatch, LastBatch, InOrder
<1>9. BatchShape'
  BY <1>1, <1>3, <1>4, <1>6, <1>8 DEF BatchShape
<1>10. TypeOK'
  <2>1. chan0' \in Seq(StackEntry \cup {Terminator})
    BY <1>4
  <2>2. read_counter' \in 0 .. BatchSize
    BY <1>1, <1>3, FilterAssumption
  <2>3. UNCHANGED <<flist, next_free_location, heap_consumption, cs_pool, chan1, chan2, chan3,
                    centroid_buffer, finished1>>
    BY <1>3 DEF allocator, filter1
  <2>4. pc' \in {"push", "search", "process", "finished"}
    BY <1>3
  <2> QED BY <1>5, <2>1, <2>2, <2>3, <2>4 DEF KernelInv, TypeOK
<1>11. SameRecords(Pending, Pending')
  <2>1. Len(Pending) = Len(chan0) + n /\ Len(Pending') = Len(chan0) + n
    BY <1>1, <1>2, <1>4, <1>5, <1>6, <1>7 DEF InOrder
  <2>2. ASSUME NEW i \in 1 .. Len(Pending) PROVE Pending'[i] = Pending[i]
    <3>1. CASE i \in 1 .. Len(chan0)
      <4>1. Pending[0 + i] = chan0[i] /\ Pending'[0 + i] = chan0'[i]
        BY <1>1, <1>4, <1>6, <1>7, <3>1 DEF InOrder
      <4> QED BY <1>4, <3>1, <4>1
    <3>2. CASE i = Len(chan0) + 1
      <4>1. Pending'[0 + i] = chan0'[i]
        BY <1>1, <1>4, <1>6, <1>7, <3>2 DEF InOrder
      <4>2. Pending[0 + Len(chan0) + 1] = stack[n + 1 - 1]
        BY <1>2, <1>6, <1>7 DEF InOrder
      <4> QED BY <1>1, <1>2, <1>4, <3>2, <4>1, <4>2
    <3>3. CASE i > Len(chan0) + 1
      <4> DEFINE j == i - Len(chan0) - 1
      <4>1. /\ j \in 1 .. n - 1 /\ j + 1 \in 1 .. n /\ i = 0 + Len(chan0) + (j + 1)
            /\ i = 0 + (Len(chan0) + 1) + j /\ n - 1 + 1 - j = n + 1 - (j + 1)
            /\ n + 1 - (j + 1) \in 1 .. n - 1
        BY <1>1, <1>2, <2>1, <3>3
      <4> HIDE DEF j
      <4>2. Pending[0 + Len(chan0) + (j + 1)] = stack[n + 1 - (j + 1)]
        BY <1>6, <1>7, <4>1 DEF InOrder
      <4>3. Pending'[0 + (Len(chan0) + 1) + j] = stack'[n - 1 + 1 - j]
        BY <1>4, <1>5, <1>6, <1>7, <4>1 DEF InOrder
      <4> QED BY <1>5, <4>1, <4>2, <4>3
    <3> QED BY <1>1, <3>1, <3>2, <3>3
  <2> QED BY <2>1, <2>2 DEF SameRecords
<1>12. PoolIvdep'
  BY <1>3 DEF PoolIvdep
<1> QED BY <1>3, <1>9, <1>10, <1>11, <1>12, QuietStep

LEMMA PushTerminatorStep ==
  ASSUME KernelInv, PushTerminator
  PROVE  KernelInv' /\ QuietMove
<1>1. /\ stack = <<>> /\ chan0 = <<>> /\ chan1 = <<>> /\ PlainBatch
      /\ stored = {} /\ Len(chan0) = read_counter /\ read_counter < BatchSize /\ pc = "push"
  BY DEF KernelInv, BatchShape, PushTerminator
<1>2. /\ chan0' = <<Terminator>> /\ chan1' = <<>> /\ stack' = <<>> /\ stored' = {}
      /\ read_counter' = 1 /\ pc' = "search"
      /\ UNCHANGED <<allocator, cs_pool, chan2, chan3, filter1, reported>>
  <2>1. Append(<<>>, Terminator) = <<Terminator>> /\ Len(<<>>) = 0
    OBVIOUS
  <2> QED BY <1>1, <2>1 DEF PushTerminator, history
<1>3. LastBatch'
  BY <1>2 DEF LastBatch
<1>4. BatchShape'
  BY <1>2, <1>3 DEF BatchShape
<1>5. TypeOK'
  <2>1. /\ chan0' \in Seq(StackEntry \cup {Terminator})
        /\ chan1' \in Seq(SearchedEntry \cup {Terminator}) /\ stack' \in Seq(StackEntry)
    BY <1>2
  <2>2. read_counter' \in 0 .. BatchSize
    BY <1>2, FilterAssumption
  <2>3. UNCHANGED <<flist, next_free_location, heap_consumption, cs_pool, chan2, chan3,
                    centroid_buffer, finished1>>
    BY <1>2 DEF allocator, filter1
  <2> QED BY <1>2, <2>1, <2>2, <2>3 DEF KernelInv, TypeOK
<1>6. SameRecords(Pending, Pending')
  <2>1. Pending' = <<>>
    BY <1>3, <1>4, PendingLastNext
  <2>2. Len(Pending) = 0
    BY <1>1, PendingPlain DEF KernelInv, InOrder
  <2> QED BY <2>1, <2>2 DEF SameRecords
<1>7. PoolIvdep'
  BY <1>2 DEF PoolIvdep
<1> QED BY <1>2, <1>4, <1>5, <1>6, <1>7, QuietStep

LEMMA ConcatShort ==
  ASSUME NEW S, NEW b1 \in Seq(S), NEW b0 \in Seq(S), NEW x, b1 \o b0 = <<x>>
  PROVE  \/ b1 = <<>> /\ b0 = <<x>>
         \/ b1 = <<x>> /\ b0 = <<>>
<1>1. Len(b1) + Len(b0) = 1 /\ Len(b1) \in Nat /\ Len(b0) \in Nat
  <2>1. Len(b1 \o b0) = Len(b1) + Len(b0)
    BY ConcatProperties
  <2> QED BY <2>1
<1>2. CASE Len(b1) = 0
  <2>1. b1 = <<>>
    BY <1>2, EmptySeq
  <2> QED BY <2>1, ConcatEmptySeq
<1>3. CASE Len(b0) = 0
  <2>1. b0 = <<>>
    BY <1>3, EmptySeq
  <2> QED BY <2>1, ConcatEmptySeq
<1> QED BY <1>1, <1>2, <1>3

\* Where the terminator is, when it is in the batch.
LEMMA TerminatorPlace ==
  ASSUME TypeOK, LastBatch
  PROVE  \/ chan1 = <<>> /\ chan0 = <<Terminator>>
         \/ chan1 = <<Terminator>> /\ chan0 = <<>>
<1> DEFINE S == StackEntry \cup SearchedEntry \cup {Terminator}
<1>1. chan1 \in Seq(S) /\ chan0 \in Seq(S)
  BY DEF TypeOK
<1> HIDE DEF S
<1> QED BY <1>1, ConcatShort DEF LastBatch

LEMMA SearchStep ==
  ASSUME KernelInv, Search
  PROVE  KernelInv' /\ QuietMove
<1>1. /\ chan0 # <<>> /\ pc = "search" /\ stored = {} /\ chan0' = Tail(chan0)
      /\ stack' = stack /\ stored' = stored /\ read_counter' = read_counter
      /\ pc' = IF chan0' = <<>> THEN "process" ELSE "search"
      /\ UNCHANGED <<allocator, cs_pool, chan2, chan3, filter1, reported>>
  BY DEF KernelInv, BatchShape, Search, history
<1>2. TypeOK /\ BatchShape
  BY DEF KernelInv
<1>3. CASE LastBatch
  <2>1. chan1 = <<>> /\ chan0 = <<Terminator>>
    BY <1>1, <1>2, <1>3, TerminatorPlace
  <2>2. chan1' = <<Terminator>> /\ chan0' = <<>>
    <3>1. Head(chan0) = Terminator /\ Tail(chan0) = <<>> /\ Append(<<>>, Terminator) = <<Terminator>>
      BY <2>1
    <3> QED BY <2>1, <3>1 DEF Search
  <2>3. LastBatch' /\ stack' = <<>>
    <3>1. <<Terminator>> \o <<>> = <<Terminator>>
      OBVIOUS
    <3>2. stack = <<>>
      BY <1>2, <1>3 DEF BatchShape
    <3> QED BY <1>1, <2>2, <3>1, <3>2 DEF LastBatch
  <2>4. BatchShape'
    BY <1>1, <2>2, <2>3 DEF BatchShape
  <2>5. TypeOK'
    <3>1. chan1' \in Seq(SearchedEntry \cup {Terminator})
      BY <2>2
    <3>2. chan0' \in Seq(StackEntry \cup {Terminator})
      BY <2>2
    <3>3. UNCHANGED <<flist, next_free_location, heap_consumption, cs_pool, chan2, chan3,
                      centroid_buffer, finished1>>
      BY <1>1 DEF allocator, filter1
    <3> QED BY <1>1, <1>2, <3>1, <3>2, <3>3 DEF TypeOK
  <2>6. SameRecords(Pending, Pending')
    <3>1. Pending = <<>> /\ Pending' = <<>>
      BY <1>2, <1>3, <2>3, <2>4, PendingLast, PendingLastNext
    <3> QED BY <3>1 DEF SameRecords
  <2>7. PoolIvdep'
    BY <1>1 DEF PoolIvdep
  <2> QED BY <1>1, <2>4, <2>5, <2>6, <2>7, QuietStep
<1>4. CASE PlainBatch
  <2> DEFINE s == Head(chan0)
  <2>1. chan0 \in Seq(StackEntry) /\ chan1 \in Seq(SearchedEntry) /\ stack \in Seq(StackEntry)
    BY <1>2, <1>4 DEF PlainBatch, TypeOK
  <2>2. /\ s \in StackEntry /\ s = chan0[1] /\ chan0' \in Seq(StackEntry)
        /\ Len(chan0) \in Nat \ {0} /\ Len(chan0') = Len(chan0) - 1
        /\ \A i \in 1 .. Len(chan0) - 1 : chan0'[i] = chan0[i + 1]
    BY <1>1, <2>1, HeadTailProperties, EmptySeq
  <2>3. s # Terminator
    BY <2>2, TerminatorAssumption
  <2>4. PICK closest \in cs_pool[s.c] : chan1' = Append(chan1, Searched(s, closest))
    BY <2>3 DEF Search
  <2> DEFINE r == Searched(s, closest)
  <2>5. /\ r \in SearchedEntry /\ r.u = s.u /\ r.c = s.c /\ r.k = s.k /\ r.d = s.d
        /\ r.cand = s.cand
    <3>1. /\ s.u \in Nodes /\ s.c \in Locations /\ s.k \in 1 .. k /\ s.d \in BOOLEAN
          /\ s.cand \in SUBSET Centres
      BY <2>2 DEF StackEntry
    <3>2. closest \in Centres
      BY <1>2, <2>4, <3>1 DEF TypeOK
    <3> QED BY <3>1, <3>2 DEF Searched, SearchedEntry
  <2> HIDE DEF r, s
  <2>6. /\ chan1' \in Seq(SearchedEntry) /\ Len(chan1') = Len(chan1) + 1 /\ Len(chan1) \in Nat
        /\ chan1'[Len(chan1) + 1] = r /\ \A i \in 1 .. Len(chan1) : chan1'[i] = chan1[i]
    BY <2>1, <2>4, <2>5, AppendProperties DEF r
  <2>7. stack' \in Seq(StackEntry) /\ Len(stack) \in Nat
    BY <1>1, <2>1
  <2>8. InOrder(Pending, chan1, chan0, stack) /\ InOrder(Pending', chan1', chan0', stack')
    BY <1>2, <1>4, <2>2, <2>6, <2>7, PendingPlain, PendingNext
  <2>9. PlainBatch' /\ ~LastBatch'
    BY <2>2, <2>6, <2>8 DEF PlainBatch, LastBatch, InOrder
  <2>10. BatchShape'
    BY <1>1, <2>9 DEF BatchShape
  <2>11. TypeOK'
    <3>1. chan1' \in Seq(SearchedEntry \cup {Terminator})
      BY <2>6
    <3>2. chan0' \in Seq(StackEntry \cup {Terminator})
      BY <2>2
    <3>3. UNCHANGED <<flist, next_free_location, heap_consumption, cs_pool, chan2, chan3,
                      centroid_buffer, finished1>>
      BY <1>1 DEF allocator, filter1
    <3> QED BY <1>1, <1>2, <3>1, <3>2, <3>3 DEF TypeOK
  <2>12. SameRecords(Pending, Pending')
    <3>1. Len(Pending) = Len(chan1) + Len(chan0) + Len(stack) /\ Len(Pending') = Len(Pending)
      BY <1>1, <2>2, <2>6, <2>7, <2>8 DEF InOrder
    <3>2. ASSUME NEW i \in 1 .. Len(Pending), i # Len(chan1) + 1 PROVE Pending'[i] = Pending[i]
      <4>1. CASE i \in 1 .. Len(chan1)
        BY <2>6, <2>8, <4>1 DEF InOrder
      <4>2. CASE i > Len(chan1) + Len(chan0)
        <5> DEFINE j == i - Len(chan1) - Len(chan0)
        <5>1. /\ j \in 1 .. Len(stack) /\ i = Len(chan1) + Len(chan0) + j
              /\ i = Len(chan1) + 1 + (Len(chan0) - 1) + j
          BY <2>2, <2>6, <2>7, <3>1, <4>2
        <5> HIDE DEF j
        <5>2. Pending[Len(chan1) + Len(chan0) + j] = stack[Len(stack) + 1 - j]
          BY <2>8, <5>1 DEF InOrder
        <5>3. Pending'[Len(chan1) + 1 + (Len(chan0) - 1) + j] = stack[Len(stack) + 1 - j]
          BY <1>1, <2>2, <2>6, <2>8, <5>1 DEF InOrder
        <5> QED BY <5>1, <5>2, <5>3
      <4>3. CASE i > Len(chan1) + 1 /\ i <= Len(chan1) + Len(chan0)
        <5> DEFINE j == i - Len(chan1) - 1
        <5>1. /\ j \in 1 .. Len(chan0) - 1 /\ j + 1 \in 1 .. Len(chan0)
              /\ i = Len(chan1) + (j + 1) /\ i = Len(chan1) + 1 + j
          BY <2>2, <2>6, <4>3
        <5> HIDE DEF j
        <5>2. Pending[Len(chan1) + (j + 1)] = chan0[j + 1]
          BY <2>8, <5>1 DEF InOrder
        <5>3. Pending'[Len(chan1) + 1 + j] = chan0'[j]
          BY <2>2, <2>6, <2>8, <5>1 DEF InOrder
        <5> QED BY <2>2, <5>1, <5>2, <5>3
      <4> QED BY <2>2, <2>6, <2>7, <3>1, <3>2, <4>1, <4>2, <4>3
    <3>3. Pending[Len(chan1) + 1] = s
      BY <2>2, <2>8 DEF InOrder
    <3>4. Pending'[Len(chan1) + 1] = r
      BY <2>6, <2>8 DEF InOrder
    <3> QED BY <2>5, <3>1, <3>2, <3>3, <3>4 DEF SameRecords
  <2>13. PoolIvdep'
    BY <1>1 DEF PoolIvdep
  <2> QED BY <1>1, <2>10, <2>11, <2>12, <2>13, QuietStep
<1> QED BY <1>2, <1>3, <1>4 DEF BatchShape

LEMMA ProcessTerminatorStep ==
  ASSUME KernelInv, ProcessTerminator
  PROVE  KernelInv' /\ QuietMove
<1>1. /\ chan1 # <<>> /\ Head(chan1) = Terminator /\ pc' = "finished" /\ chan1' = Tail(chan1)
      /\ chan3' = Append(chan3, Terminator) /\ stack' = stack /\ chan0' = chan0
      /\ read_counter' = read_counter /\ stored' = stored
      /\ UNCHANGED <<allocator, cs_pool, chan2, filter1, reported>>
  BY DEF ProcessTerminator, history
<1>2. TypeOK /\ BatchShape
  BY DEF KernelInv
<1>3. ~PlainBatch
  <2>1. ASSUME PlainBatch PROVE FALSE
    <3>1. Head(chan1) \in SearchedEntry
      BY <1>1, <2>1, HeadTailProperties DEF PlainBatch
    <3> QED BY <1>1, <3>1, TerminatorAssumption
  <2> QED BY <2>1
<1>4. LastBatch /\ stack = <<>> /\ chan1 = <<Terminator>> /\ chan0 = <<>>
  BY <1>1, <1>2, <1>3, TerminatorPlace DEF BatchShape
<1>5. chan1' = <<>> /\ chan0' = <<>> /\ stack' = <<>>
  BY <1>1, <1>4
<1>6. chan1' \in Seq(SearchedEntry) /\ chan0' \in Seq(StackEntry) /\ stack' \in Seq(StackEntry)
  BY <1>5
<1>7. InOrder(Pending', chan1', chan0', stack')
  BY <1>6, PendingNext
<1>8. BatchShape'
  <2>1. PlainBatch' /\ ~LastBatch'
    BY <1>6, <1>7 DEF PlainBatch, LastBatch, InOrder
  <2> QED BY <1>1, <2>1 DEF BatchShape
<1>9. TypeOK'
  <2>1. chan1' \in Seq(SearchedEntry \cup {Terminator})
    BY <1>6
  <2>2. chan3' \in Seq(DeadEnd \cup {Terminator})
    BY <1>1, <1>2 DEF TypeOK
  <2>3. UNCHANGED <<flist, next_free_location, heap_consumption, cs_pool, chan0, chan2,
                    centroid_buffer, finished1>>
    BY <1>1 DEF allocator, filter1
  <2> QED BY <1>1, <1>2, <2>1, <2>2, <2>3 DEF TypeOK
<1>10. SameRecords(Pending, Pending')
  <2>1. Pending = <<>>
    BY <1>2, <1>4, PendingLast
  <2>2. Len(Pending') = 0
    BY <1>5, <1>7 DEF InOrder
  <2> QED BY <2>1, <2>2 DEF SameRecords
<1>11. PoolIvdep'
  BY <1>1 DEF PoolIvdep
<1> QED BY <1>1, <1>8, <1>9, <1>10, <1>11, QuietStep

LEMMA AccumulateStep ==
  ASSUME KernelInv, Accumulate
  PROVE  KernelInv' /\ QuietMove
<1>1. /\ chan3 # <<>> /\ chan3' = Tail(chan3)
      /\ UNCHANGED <<flist, next_free_location, heap_consumption, cs_pool, stack, read_counter,
                     pc, chan0, chan1, chan2, reported, stored>>
      /\ UNCHANGED <<allocator, cs_pool, chan2, reported>>
  BY DEF Accumulate, allocator, history
<1>2. TypeOK /\ BatchShape /\ PoolIvdep
  BY DEF KernelInv
<1>3. Pending' = Pending
  BY <1>1 DEF Pending, Reversed
<1>4. SameRecords(Pending, Pending')
  BY <1>3 DEF SameRecords
<1>5. BatchShape' /\ PoolIvdep'
  BY <1>1, <1>2 DEF BatchShape, LastBatch, PlainBatch, PoolIvdep
<1>6. TypeOK'
  <2>1. Head(chan3) \in DeadEnd \cup {Terminator} /\ chan3' \in Seq(DeadEnd \cup {Terminator})
    BY <1>1, <1>2, HeadTailProperties DEF TypeOK
  <2>2. CASE Head(chan3) = Terminator
    <3>1. finished1' = TRUE /\ centroid_buffer' = centroid_buffer
      BY <2>2 DEF Accumulate
    <3> QED BY <1>1, <1>2, <2>1, <3>1 DEF TypeOK
  <2>3. CASE Head(chan3) # Terminator
    <3> DEFINE r == Head(chan3)
    <3>1. r.u \in Nodes /\ r.centre \in Centres
      BY <2>1, <2>3 DEF DeadEnd
    <3>2. centroid_buffer' = [centroid_buffer EXCEPT ![r.centre] = {r.u}] /\ finished1' = finished1
      BY <2>3 DEF Accumulate
    <3> HIDE DEF r
    <3>3. centroid_buffer' \in [Centres -> SUBSET Nodes]
      BY <1>2, <3>1, <3>2 DEF TypeOK
    <3> QED BY <1>1, <1>2, <2>1, <3>2, <3>3 DEF TypeOK
  <2> QED BY <2>2, <2>3
<1> QED BY <1>1, <1>4, <1>5, <1>6, QuietStep

-----------------------------------------------------------------------------
(***************************************************************************)
(* A record of the second loop.                                            *)
(***************************************************************************)

ElementsOf(s) == {s[i] : i \in 1 .. Len(s)}

DistinctSeq(s) == \A i, j \in 1 .. Len(s) : s[i] = s[j] => i = j

LEMMA DistinctTail ==
  ASSUME NEW S, NEW s \in Seq(S), s # <<>>, DistinctSeq(s)
  PROVE  /\ Tail(s) \in Seq(S) /\ DistinctSeq(Tail(s))
         /\ Head(s) \in ElementsOf(s) /\ ElementsOf(Tail(s)) = ElementsOf(s) \ {Head(s)}
<1> DEFINE t == Tail(s)
<1>1. /\ t \in Seq(S) /\ Len(t) = Len(s) - 1 /\ Len(s) \in Nat \ {0}
      /\ \A i \in 1 .. Len(t) : t[i] = s[i + 1]
  BY HeadTailProperties, EmptySeq
<1>2. Head(s) = s[1] /\ 1 \in 1 .. Len(s)
  BY <1>1
<1> HIDE DEF t
<1>3. \A i \in 1 .. Len(t) : i + 1 \in 1 .. Len(s) /\ i + 1 # 1
  BY <1>1
<1>4. DistinctSeq(t)
  BY <1>1, <1>3 DEF DistinctSeq
<1>5. ASSUME NEW x PROVE x \in ElementsOf(t) <=> x \in ElementsOf(s) /\ x # s[1]
  <2>1. ASSUME x \in ElementsOf(t) PROVE x \in ElementsOf(s) /\ x # s[1]
    <3>1. PICK i \in 1 .. Len(t) : x = t[i]
      BY <2>1 DEF ElementsOf
    <3> QED BY <1>1, <1>2, <1>3, <3>1 DEF ElementsOf, DistinctSeq
  <2>2. ASSUME x \in ElementsOf(s), x # s[1] PROVE x \in ElementsOf(t)
    <3>1. PICK i \in 1 .. Len(s) : x = s[i]
      BY <2>2 DEF ElementsOf
    <3>2. i - 1 \in 1 .. Len(t) /\ x = t[i - 1]
      BY <1>1, <2>2, <3>1
    <3> QED BY <3>2 DEF ElementsOf
  <2> QED BY <2>1, <2>2
<1>6. ElementsOf(t) = ElementsOf(s) \ {Head(s)}
  BY <1>2, <1>5
<1>7. Head(s) \in ElementsOf(s)
  BY <1>2 DEF ElementsOf
<1> QED BY <1>1, <1>4, <1>6, <1>7 DEF t

LEMMA DistinctAppend ==
  ASSUME NEW S, NEW s \in Seq(S), DistinctSeq(s), NEW e \in S, e \notin ElementsOf(s)
  PROVE  /\ Append(s, e) \in Seq(S) /\ DistinctSeq(Append(s, e))
         /\ ElementsOf(Append(s, e)) = ElementsOf(s) \cup {e}
<1> DEFINE t == Append(s, e)
<1>1. /\ t \in Seq(S) /\ Len(t) = Len(s) + 1 /\ Len(s) \in Nat
      /\ t[Len(s) + 1] = e /\ \A i \in 1 .. Len(s) : t[i] = s[i]
  BY AppendProperties
<1> HIDE DEF t
<1>2. \A i \in 1 .. Len(t) : i \in 1 .. Len(s) \/ i = Len(s) + 1
  BY <1>1
<1>3. \A i \in 1 .. Len(s) : t[i] \in ElementsOf(s) /\ i \in 1 .. Len(t)
  BY <1>1 DEF ElementsOf
<1>4. DistinctSeq(t)
  <2> SUFFICES ASSUME NEW i \in 1 .. Len(t), NEW j \in 1 .. Len(t), t[i] = t[j] PROVE i = j
    BY DEF DistinctSeq
  <2>1. CASE i \in 1 .. Len(s) /\ j \in 1 .. Len(s)
    BY <1>1, <2>1 DEF DistinctSeq
  <2>2. CASE i = Len(s) + 1 \/ j = Len(s) + 1
    BY <1>1, <1>2, <1>3, <2>2
  <2> QED BY <1>2, <2>1, <2>2
<1>5. ElementsOf(t) = ElementsOf(s) \cup {e}
  <2>1. \A x \in ElementsOf(t) : x \in ElementsOf(s) \cup {e}
    BY <1>1, <1>2, <1>3 DEF ElementsOf
  <2>2. \A x \in ElementsOf(s) : x \in ElementsOf(t)
    BY <1>1, <1>3 DEF ElementsOf
  <2>3. e \in ElementsOf(t)
    <3>1. Len(s) + 1 \in 1 .. Len(t)
      BY <1>1
    <3> QED BY <1>1, <3>1 DEF ElementsOf
  <2> QED BY <2>1, <2>2, <2>3
<1> QED BY <1>1, <1>4, <1>5 DEF t

\* A sequence without repetition has as many elements as its length.
LEMMA DistinctCardinality ==
  ASSUME NEW S, NEW s \in Seq(S), DistinctSeq(s)
  PROVE  Cardinality(ElementsOf(s)) = Len(s)
<1>1. Len(s) \in Nat /\ s \in [1 .. Len(s) -> ElementsOf(s)]
  BY LenProperties DEF ElementsOf
<1>2. \A t \in ElementsOf(s) : \E i \in 1 .. Len(s) : s[i] = t
  BY DEF ElementsOf
<1>3. s \in Bijection(1 .. Len(s), ElementsOf(s))
  BY <1>1, <1>2 DEF DistinctSeq, Bijection, Injection, Surjection, IsInjective
<1>4. ExistsBijection(1 .. Len(s), ElementsOf(s))
  BY <1>3 DEF ExistsBijection
<1> QED BY <1>1, <1>4, FS_CountingElements

\* What the record frees, and what stays taken: the locations of the records
\* behind it, cs_0, and those that wait in chan2.
StillTaken(returned) == Later(Pending) \cup {cs_0} \cup ElementsOf(returned)

LEMMA Freed ==
  ASSUME KernelInv, Len(Pending) \in Nat \ {0},
         NEW s, s = Pending[1],
         NEW delivered \in BOOLEAN, delivered => ~s.d /\ chan2 # <<>>,
         NEW returned, NEW address,
         delivered => returned = Tail(chan2) /\ address = Head(chan2),
         ~delivered => returned = chan2 /\ address = s.c,
         NEW free \in BOOLEAN, free <=> s.d \/ delivered
  PROVE  /\ returned \in Seq(Locations) /\ DistinctSeq(returned)
         /\ ElementsOf(returned) \cap (Later(Pending) \cup {cs_0}) = {}
         /\ free => address \in Taken \ {cs_0}
         /\ StillTaken(returned) = IF free THEN Taken \ {address} ELSE Taken
<1> DEFINE rest == StillTaken(returned)
<1>1. /\ chan2 \in Seq(Locations) /\ DistinctSeq(chan2) /\ Delayed = ElementsOf(chan2)
      /\ (InUse(Pending) \cup {cs_0}) \cap Delayed = {}
  BY DEF KernelInv, TypeOK, ReturnedOnce, DistinctSeq, ElementsOf, Delayed
<1>2. /\ InUse(Pending) = Later(Pending) \cup {s.c}
      /\ s.d => s.c # cs_0 /\ s.c \notin Later(Pending)
      /\ ~s.d => s.c \in Later(Pending) \cup {cs_0}
  BY FirstRecord, PendingForms DEF KernelInv
<1>3. Taken = InUse(Pending) \cup {cs_0} \cup Delayed
  BY DEF Taken
<1>4. CASE delivered
  <2>1. /\ returned \in Seq(Locations) /\ DistinctSeq(returned)
        /\ address \in Delayed /\ ElementsOf(returned) = Delayed \ {address}
    <3>1. chan2 # <<>> /\ returned = Tail(chan2) /\ address = Head(chan2)
      BY <1>4
    <3>2. /\ Tail(chan2) \in Seq(Locations) /\ DistinctSeq(Tail(chan2))
          /\ Head(chan2) \in ElementsOf(chan2)
          /\ ElementsOf(Tail(chan2)) = ElementsOf(chan2) \ {Head(chan2)}
      BY <1>1, <3>1, DistinctTail
    <3> QED BY <1>1, <3>1, <3>2
  <2>2. ~s.d /\ free
    BY <1>4
  <2>3. s.c \in Later(Pending) \cup {cs_0}
    BY <1>2, <2>2
  <2>4. rest = Taken \ {address} /\ address # cs_0
    BY <1>1, <1>2, <1>3, <2>1, <2>3 DEF StillTaken
  <2> QED BY <1>1, <1>2, <1>3, <2>1, <2>2, <2>4
<1>5. CASE ~delivered
  <2>1. returned = chan2 /\ address = s.c /\ (free <=> s.d)
    BY <1>5
  <2>2. CASE s.d
    <3>1. rest = Taken \ {s.c} /\ s.c \in Taken
      BY <1>1, <1>2, <1>3, <2>1, <2>2 DEF StillTaken
    <3> QED BY <1>1, <1>2, <2>1, <2>2, <3>1
  <2>3. CASE ~s.d
    <3>1. rest = Taken
      BY <1>1, <1>2, <1>3, <2>1, <2>3 DEF StillTaken
    <3> QED BY <1>1, <1>2, <2>1, <2>3, <3>1
  <2> QED BY <2>2, <2>3
<1> QED BY <1>4, <1>5

\* Where the records are after the first one has gone.
LEMMA GoneFirst ==
  ASSUME NEW b \in Seq(SearchedEntry), b # <<>>, NEW st \in Seq(StackEntry),
         NEW p, InOrder(p, b, <<>>, st), NEW q, InOrder(q, Tail(b), <<>>, st)
  PROVE  /\ Len(p) \in Nat \ {0} /\ Len(q) = Len(p) - 1
         /\ \A i \in 1 .. Len(q) : q[i] = p[i + 1]
<1>1. /\ Len(b) \in Nat \ {0} /\ Len(Tail(b)) = Len(b) - 1 /\ Len(st) \in Nat /\ Len(<<>>) = 0
      /\ \A i \in 1 .. Len(b) - 1 : Tail(b)[i] = b[i + 1]
  BY HeadTailProperties, EmptySeq
<1>2. Len(p) = Len(b) + Len(st) /\ Len(q) = Len(b) - 1 + Len(st)
  BY <1>1 DEF InOrder
<1>3. ASSUME NEW i \in 1 .. Len(q) PROVE q[i] = p[i + 1]
  <2>1. CASE i \in 1 .. Len(b) - 1
    <3>1. q[i] = Tail(b)[i]
      BY <1>1, <2>1 DEF InOrder
    <3>2. i + 1 \in 1 .. Len(b)
      BY <1>1, <2>1
    <3>3. p[i + 1] = b[i + 1]
      BY <3>2 DEF InOrder
    <3> QED BY <1>1, <2>1, <3>1, <3>3
  <2>2. CASE i > Len(b) - 1
    <3> DEFINE j == i - (Len(b) - 1)
    <3>1. j \in 1 .. Len(st) /\ i = (Len(b) - 1) + 0 + j /\ i + 1 = Len(b) + 0 + j
      BY <1>1, <1>2, <2>2
    <3> HIDE DEF j
    <3>2. q[(Len(b) - 1) + 0 + j] = st[Len(st) + 1 - j]
      BY <1>1, <3>1 DEF InOrder
    <3>3. p[Len(b) + 0 + j] = st[Len(st) + 1 - j]
      BY <1>1, <3>1 DEF InOrder
    <3> QED BY <3>1, <3>2, <3>3
  <2> QED BY <1>1, <1>2, <2>1, <2>2
<1> QED BY <1>1, <1>2, <1>3

\* Where they are when two entries have been pushed besides.
LEMMA PushedTwo ==
  ASSUME NEW b \in Seq(SearchedEntry), b # <<>>, NEW st \in Seq(StackEntry),
         NEW r \in StackEntry, NEW l \in StackEntry,
         NEW m, m = Len(b) - 1,
         NEW p, InOrder(p, b, <<>>, st), NEW q, InOrder(q, Tail(b), <<>>, st \o <<r, l>>)
  PROVE  /\ Len(p) \in Nat \ {0} /\ Len(q) = Len(p) + 1 /\ m \in 0 .. Len(p) - 1
         /\ \A i \in 1 .. m : q[i] = p[i + 1]
         /\ q[m + 1] = l /\ q[m + 2] = r
         /\ \A i \in m + 3 .. Len(p) + 1 : q[i] = p[i - 1]
<1> DEFINE st2 == st \o <<r, l>>
           n == Len(st)
<1>1. /\ Len(b) = m + 1 /\ m \in Nat /\ Len(Tail(b)) = m /\ Len(<<>>) = 0
      /\ \A i \in 1 .. m : Tail(b)[i] = b[i + 1]
  BY HeadTailProperties, EmptySeq
<1>2. /\ st2 \in Seq(StackEntry) /\ Len(st2) = n + 2 /\ n \in Nat
      /\ st2[n + 1] = r /\ st2[n + 2] = l /\ \A i \in 1 .. n : st2[i] = st[i]
  <2>1. <<r, l>> \in Seq(StackEntry) /\ Len(<<r, l>>) = 2 /\ n \in Nat
        /\ <<r, l>>[1] = r /\ <<r, l>>[2] = l
    OBVIOUS
  <2>2. /\ st2 \in Seq(StackEntry) /\ Len(st2) = n + 2
        /\ \A i \in 1 .. n + 2 : st2[i] = IF i <= n THEN st[i] ELSE <<r, l>>[i - n]
    BY <2>1, ConcatProperties
  <2> HIDE DEF st2, n
  <2>3. n + 1 \in 1 .. n + 2 /\ n + 2 \in 1 .. n + 2 /\ ~(n + 1 <= n) /\ ~(n + 2 <= n)
        /\ n + 1 - n = 1 /\ n + 2 - n = 2 /\ \A i \in 1 .. n : i \in 1 .. n + 2 /\ i <= n
    BY <2>1
  <2> QED BY SMTT(60), <2>1, <2>2, <2>3
<1>0. InOrder(q, Tail(b), <<>>, st2) /\ Len(st) = n
  OBVIOUS
<1>3. /\ Len(p) = m + 1 + n /\ Len(q) = m + n + 2
      /\ \A i \in 1 .. n : p[m + 1 + 0 + i] = st[n + 1 - i]
      /\ \A i \in 1 .. n + 2 : q[m + 0 + i] = st2[n + 2 + 1 - i]
  <2> HIDE DEF st2, n
  <2>1. Len(p) = m + 1 + 0 + n /\ \A i \in 1 .. n : p[m + 1 + 0 + i] = st[n + 1 - i]
    BY <1>0, <1>1 DEF InOrder
  <2>2. Len(q) = m + 0 + (n + 2) /\ \A i \in 1 .. n + 2 : q[m + 0 + i] = st2[n + 2 + 1 - i]
    BY <1>0, <1>1, <1>2 DEF InOrder
  <2> QED BY <1>1, <1>2, <2>1, <2>2
<1>4. \A i \in 1 .. m : q[i] = p[i + 1]
  <2> SUFFICES ASSUME NEW i \in 1 .. m PROVE q[i] = p[i + 1]
    OBVIOUS
  <2>1. q[i] = Tail(b)[i]
    BY <1>1 DEF InOrder
  <2>2. i + 1 \in 1 .. Len(b)
    BY <1>1
  <2>3. p[i + 1] = b[i + 1]
    BY <2>2 DEF InOrder
  <2> QED BY <1>1, <2>1, <2>3
<1> HIDE DEF st2, n
<1>5. q[m + 1] = l /\ q[m + 2] = r
  <2>1. /\ 1 \in 1 .. n + 2 /\ 2 \in 1 .. n + 2 /\ m + 0 + 1 = m + 1 /\ m + 0 + 2 = m + 2
        /\ n + 2 + 1 - 1 = n + 2 /\ n + 2 + 1 - 2 = n + 1
    BY <1>1, <1>2
  <2>2. q[m + 0 + 1] = st2[n + 2 + 1 - 1] /\ q[m + 0 + 2] = st2[n + 2 + 1 - 2]
    BY <1>3, <2>1
  <2> QED BY <1>2, <2>1, <2>2
<1>6. \A i \in m + 3 .. Len(p) + 1 : q[i] = p[i - 1]
  <2> SUFFICES ASSUME NEW i \in m + 3 .. Len(p) + 1 PROVE q[i] = p[i - 1]
    OBVIOUS
  <2> DEFINE j == i - m
  <2>1. /\ j \in 1 .. n + 2 /\ j - 2 \in 1 .. n /\ i = m + 0 + j /\ i - 1 = m + 1 + 0 + (j - 2)
        /\ n + 2 + 1 - j = n + 1 - (j - 2) /\ n + 1 - (j - 2) \in 1 .. n
    BY <1>1, <1>2, <1>3
  <2> HIDE DEF j
  <2>2. q[m + 0 + j] = st2[n + 2 + 1 - j] /\ p[m + 1 + 0 + (j - 2)] = st[n + 1 - (j - 2)]
    BY <1>3, <2>1
  <2> QED BY <1>2, <2>1, <2>2
<1> QED BY <1>1, <1>2, <1>3, <1>4, <1>5, <1>6

\* The new candidate set is written to a location that no record behind uses.
LEMMA IntactWrite ==
  ASSUME NEW p, Len(p) \in Nat, Intact(p, cs_pool),
         NEW pool, \A loc \in Later(p) : pool[loc] = cs_pool[loc],
         NEW q,
         \A i \in 1 .. Len(q) :
           Holds(q[i], pool) \/ \E j \in 2 .. Len(p) : q[i] = p[j]
  PROVE  Intact(q, pool)
<1> SUFFICES ASSUME NEW i \in 1 .. Len(q) PROVE Holds(q[i], pool)
  BY DEF Intact
<1>1. CASE \E j \in 2 .. Len(p) : q[i] = p[j]
  <2>1. PICK j \in 2 .. Len(p) : q[i] = p[j]
    BY <1>1
  <2>2. p[j].c \in Later(p) /\ j \in 1 .. Len(p)
    BY LaterMember
  <2>3. pool[p[j].c] = cs_pool[p[j].c]
    BY <2>2
  <2> QED BY <2>1, <2>2, <2>3 DEF Intact, Holds
<1> QED BY <1>1

\* What a record of the second loop does to the records to be processed, p before
\* and q after it: it goes, or its node's kids take its place behind m others.
DeadEndMove(p, q, closest, kept) ==
  /\ Leaf(p[1].u) \/ Cardinality(kept) = 1
  /\ Len(q) = Len(p) - 1 /\ \A i \in 1 .. Len(q) : q[i] = p[i + 1]
  /\ reported' = reported \cup {[u |-> p[1].u, centre |-> closest]}

KidsMove(p, q, kept, m) ==
  /\ ~(Leaf(p[1].u) \/ Cardinality(kept) = 1)
  /\ Len(q) = Len(p) + 1 /\ m \in 0 .. Len(p) - 1
  /\ \A i \in 1 .. m : q[i] = p[i + 1]
  /\ \A i \in m + 3 .. Len(p) + 1 : q[i] = p[i - 1]
  /\ q[m + 1].u = left[p[1].u] /\ q[m + 2].u = right[p[1].u]
  /\ cs_pool'[q[m + 1].c] = kept /\ cs_pool'[q[m + 2].c] = kept
  /\ reported' = reported

ProcessMoves(p, q) ==
  /\ Len(p) \in Nat \ {0} /\ p[1].u \in Nodes
  /\ \A y \in Later(p) : cs_pool'[y] = cs_pool[y]
  /\ \E closest \in cs_pool[p[1].c], kept \in (SUBSET cs_pool[p[1].c]) \cup {Centres} :
       /\ closest \in kept /\ kept \in SUBSET Centres
       /\ \/ DeadEndMove(p, q, closest, kept)
          \/ \E m : KidsMove(p, q, kept, m)

LEMMA ProcessStep ==
  ASSUME KernelInv, Process
  PROVE  KernelInv' /\ ProcessMoves(Pending, Pending')
<1> DEFINE s == Head(chan1)
           full == max_heap_usage_reached
           Returned(x) == IF x THEN Tail(chan2) ELSE chan2
           Address(x) == IF x THEN Head(chan2) ELSE s.c
           H(x) == fused_kernel_conditional_free_malloc(Address(x), s.d \/ x, full)
           NewK(kept) == IF full THEN k ELSE Cardinality(kept)
           NewCand(kept) == IF full THEN Centres ELSE kept
           DeadEndAt(kept) == Leaf(s.u) \/ NewK(kept) = 1
           Record == [u |-> s.u, centre |-> s.closest]
<1>1. PICK x \in BOOLEAN, kept \in SUBSET cs_pool[s.c] :
        /\ x => ~s.d /\ chan2 # <<>>
        /\ s.closest \in kept
        /\ flist' = H(x).flist
        /\ next_free_location' = H(x).next
        /\ heap_consumption' = new_heap_consumption(s.d \/ x)
        /\ cs_pool' = IF full THEN cs_pool ELSE [cs_pool EXCEPT ![H(x).new] = kept]
        /\ NextRecord(IF full THEN {} ELSE {H(x).new})
        /\ \/ /\ DeadEndAt(kept)
              /\ \/ full /\ chan2' = Returned(x)
                 \/ ~full /\ Len(Returned(x)) < PoolSize /\ chan2' = Append(Returned(x), H(x).new)
              /\ Len(chan3) < BatchSize
              /\ chan3' = Append(chan3, Record)
              /\ reported' = reported \cup {Record}
              /\ UNCHANGED stack
           \/ /\ ~DeadEndAt(kept)
              /\ chan2' = Returned(x)
              /\ stack' = stack \o Children(s.u, H(x).new, NewK(kept), full, NewCand(kept))
              /\ UNCHANGED <<chan3, reported>>
  BY Zenon DEF Process
<1>2. /\ TypeOK /\ BatchShape /\ pc = "process" /\ chan1 # <<>> /\ s # Terminator
      /\ UNCHANGED <<chan0, filter1>>
  BY DEF KernelInv, Process
<1>3. PlainBatch /\ chan0 = <<>> /\ chan1 \in Seq(SearchedEntry)
  <2>1. chan0 = <<>>
    BY <1>2 DEF BatchShape
  <2>2. ~LastBatch
    <3>1. ASSUME LastBatch PROVE FALSE
      <4>1. chan1 = <<Terminator>>
        BY <1>2, <2>1, <3>1, TerminatorPlace
      <4> QED BY <1>2, <4>1
    <3> QED BY <3>1
  <2> QED BY <1>2, <2>1, <2>2 DEF BatchShape, PlainBatch
<1>4. /\ s \in SearchedEntry /\ s = chan1[1] /\ chan1' \in Seq(SearchedEntry)
      /\ chan1' = Tail(chan1) /\ Len(chan1) \in Nat \ {0} /\ Len(chan1') = Len(chan1) - 1
      /\ \A i \in 1 .. Len(chan1) - 1 : chan1'[i] = chan1[i + 1]
  <2>1. chan1 \in Seq(SearchedEntry) /\ chan1 # <<>> /\ s = Head(chan1) /\ chan1' = Tail(chan1)
    BY <1>1, <1>2, <1>3 DEF NextRecord
  <2>2. Len(chan1) \in Nat \ {0}
    BY <2>1, EmptySeq
  <2> QED BY <2>1, <2>2, HeadTailProperties
<1>5. /\ s.u \in Nodes /\ s.c \in Locations /\ s.k \in 1 .. k /\ s.d \in BOOLEAN
      /\ s.closest \in Centres
  BY <1>4 DEF SearchedEntry
<1> DEFINE returned == Returned(x)
           address == Address(x)
           free == s.d \/ x
           h == H(x)
           new == h.new
           new_k == NewK(kept)
           n == Len(Pending)
           rest == StillTaken(returned)
<1>6. /\ InOrder(Pending, chan1, <<>>, stack) /\ stack \in Seq(StackEntry)
      /\ n \in Nat \ {0} /\ s = Pending[1]
  <2>1. InOrder(Pending, chan1, <<>>, stack) /\ stack \in Seq(StackEntry)
    BY <1>2, <1>3, PendingPlain DEF TypeOK
  <2>2. n = Len(chan1) + Len(<<>>) + Len(stack) /\ \A i \in 1 .. Len(chan1) : Pending[i] = chan1[i]
    BY <2>1 DEF InOrder
  <2>3. Len(stack) \in Nat /\ Len(<<>>) = 0
    BY <2>1
  <2> QED BY <1>4, <2>1, <2>2, <2>3
<1>7. free \in BOOLEAN /\ full \in BOOLEAN
  BY DEF max_heap_usage_reached
<1>8. /\ returned \in Seq(Locations) /\ DistinctSeq(returned)
      /\ ElementsOf(returned) \cap (Later(Pending) \cup {cs_0}) = {}
      /\ free => address \in Taken \ {cs_0}
      /\ rest = IF free THEN Taken \ {address} ELSE Taken
  <2>1. x => ~s.d /\ chan2 # <<>>
    BY <1>1
  <2>2. /\ x => returned = Tail(chan2) /\ address = Head(chan2)
        /\ ~x => returned = chan2 /\ address = s.c
        /\ free <=> s.d \/ x
    OBVIOUS
  <2>3. Len(Pending) \in Nat \ {0} /\ s = Pending[1]
    BY <1>6
  <2> HIDE DEF returned, address, free, s
  <2> QED BY <1>7, <2>1, <2>2, <2>3, Freed
<1>9. /\ full => new = cs_0
      /\ ~full => new \in Locations \ {0} /\ new \notin rest
      /\ Accounts(IF full THEN rest ELSE rest \cup {new}, flist', next_free_location', heap_consumption')
  <2>1. Accounts(Taken, flist, next_free_location, heap_consumption)
    BY DEF KernelInv
  <2>2. full <=> heap_consumption >= PoolSize - 4
    BY DEF max_heap_usage_reached
  <2>3. h = fused_kernel_conditional_free_malloc(address, free, full)
    OBVIOUS
  <2>4. /\ flist' = h.flist /\ next_free_location' = h.next
        /\ heap_consumption' = new_heap_consumption(free)
    BY <1>1
  <2> HIDE DEF full, address, free, rest, h
  <2>5. /\ full => h.new = cs_0
        /\ ~full => h.new \in Locations \ {0} /\ h.new \notin rest
        /\ Accounts(IF full THEN rest ELSE rest \cup {h.new},
                    h.flist, h.next, new_heap_consumption(free))
    BY ZenonT(60), <1>7, <1>8, <2>1, <2>2, <2>3, AllocatorStep
  <2> QED BY <2>4, <2>5
<1>10. (new \in Locations /\ new \notin Later(Pending)) \/ full
  BY <1>9 DEF StillTaken
<1>11. new \in Locations
  BY <1>9, PoolConstants
<1>12. /\ cs_pool' \in [Locations -> SUBSET Centres] /\ cs_pool'[cs_0] = Centres
       /\ full => cs_pool' = cs_pool
       /\ \A l \in Locations : l # new => cs_pool'[l] = cs_pool[l]
       /\ new_k \in 1 .. k /\ new_k = Cardinality(cs_pool'[new])
  <2>1. /\ cs_pool \in [Locations -> SUBSET Centres] /\ cs_pool[cs_0] = Centres
        /\ kept \in SUBSET Centres /\ kept # {}
    BY <1>1, <1>2, <1>5 DEF KernelInv, TypeOK
  <2>2. cs_pool' = IF full THEN cs_pool ELSE [cs_pool EXCEPT ![new] = kept]
    BY <1>1
  <2>3. new_k = IF full THEN k ELSE Cardinality(kept)
    OBVIOUS
  <2>4. k = Cardinality(Centres) /\ k \in 1 .. k /\ Cardinality(kept) \in 1 .. k
    BY <2>1, CentreCount DEF k
  <2>5. full => new = cs_0
    BY <1>9
  <2>6. ~full => new # cs_0
    BY <1>9 DEF StillTaken
  <2> HIDE DEF full, new, new_k
  <2>7. CASE full
    BY <2>1, <2>2, <2>3, <2>4, <2>5, <2>7
  <2>8. CASE ~full
    <3>1. cs_pool' = [cs_pool EXCEPT ![new] = kept] /\ new_k = Cardinality(kept) /\ new # cs_0
      BY <2>2, <2>3, <2>6, <2>8
    <3>2. cs_pool'[new] = kept /\ \A l \in Locations : l # new => cs_pool'[l] = cs_pool[l]
      BY <1>11, <2>1, <3>1
    <3> QED BY <1>11, <2>1, <2>4, <2>8, <3>1, <3>2, PoolConstants
  <2> QED BY <2>7, <2>8
<1>13. ASSUME stack' \in Seq(StackEntry), chan2' \in Seq(Locations), DistinctSeq(chan2'),
              chan3' \in Seq(DeadEnd \cup {Terminator}),
              LastFrees(Pending'), Intact(Pending', cs_pool'),
              InUse(Pending') \cup {cs_0} \cup ElementsOf(chan2')
                = IF full THEN rest ELSE rest \cup {new},
              (InUse(Pending') \cup {cs_0}) \cap ElementsOf(chan2') = {}
       PROVE  KernelInv'
  <2>1. Delayed' = ElementsOf(chan2') /\ InUse(Pending)' = InUse(Pending')
    BY DEF Delayed, ElementsOf, InUse
  <2>2. Taken' = IF full THEN rest ELSE rest \cup {new}
    BY <1>13, <2>1 DEF Taken, cs_0
  <2> HIDE DEF s, full, returned, address, free, new, new_k, n, rest, h
  <2>3. Accounts(Taken', flist', next_free_location', heap_consumption')
    BY <1>9, <2>2
  <2>4. Accounts(Taken, flist, next_free_location, heap_consumption)'
    BY <2>3 DEF Accounts, Chain, Through, Locations, cs_0
  <2>5. /\ flist' \in [Locations -> 0 .. PoolSize] /\ next_free_location' \in Locations
        /\ heap_consumption' \in 1 .. PoolSize - 4
    <3>1. /\ flist' \in [Locations -> 0 .. PoolSize] /\ heap_consumption' \in 1 .. PoolSize - 4
          /\ \E f : Chain(f, PoolSize - 1 - heap_consumption', flist', next_free_location')
      BY <2>3 DEF Accounts
    <3>2. 0 \in 0 .. (PoolSize - 1 - heap_consumption') - 1
      BY <3>1, PoolConstants
    <3> QED BY <3>1, <3>2 DEF Chain
  <2>6. stack' \in Seq(StackEntry) /\ chan0' = <<>>
    BY <1>2, <1>3, <1>13
  <2>7. InOrder(Pending', chan1', chan0', stack')
    BY <1>4, <2>6, EmptySeq, PendingNext
  <2>8. PlainBatch' /\ ~LastBatch'
    BY <1>4, <2>6, <2>7, EmptySeq DEF PlainBatch, LastBatch, InOrder
  <2>9. \/ chan1' = <<>> /\ pc' = "push" /\ read_counter' = 0 /\ stored' = {}
        \/ chan1' # <<>> /\ pc' = "process" /\ read_counter' = read_counter
    BY <1>1, <1>2 DEF NextRecord
  <2>10. BatchShape'
    BY <2>6, <2>8, <2>9, FilterAssumption DEF BatchShape
  <2>11. TypeOK'
    <3>1. chan1' \in Seq(SearchedEntry \cup {Terminator}) /\ chan0' \in Seq(StackEntry \cup {Terminator})
      BY <1>4, <2>6
    <3>2. read_counter' \in 0 .. BatchSize /\ pc' \in {"push", "search", "process", "finished"}
      BY <1>2, <2>9, FilterAssumption DEF TypeOK
    <3>3. centroid_buffer' \in [Centres -> SUBSET Nodes] /\ finished1' \in BOOLEAN
      BY <1>2 DEF TypeOK, filter1
    <3> QED BY <1>12, <1>13, <2>5, <2>6, <3>1, <3>2, <3>3 DEF TypeOK
  <2>12. ReturnedOnce'
    BY <1>13, <2>1 DEF ReturnedOnce, DistinctSeq, cs_0
  <2>13. FreedByLastUser' /\ CandidatesIntact' /\ (cs_pool[cs_0] = Centres)'
    BY <1>12, <1>13 DEF FreedByLastUser, LastFrees, CandidatesIntact, Intact, Holds, cs_0
  <2>14. PoolIvdep'
    <3> SUFFICES ASSUME pc' = "process", NEW i \in 1 .. Len(chan1')
                 PROVE  chan1'[i].c \notin stored'
      BY DEF PoolIvdep
    <3>1. stored' = stored \cup (IF full THEN {} ELSE {new})
      BY <1>1, <2>9 DEF NextRecord, full, new, h
    <3>2. /\ i + 1 \in 1 .. Len(chan1) /\ i + 1 \in 2 .. Len(Pending)
          /\ chan1'[i] = chan1[i + 1] /\ Pending[i + 1] = chan1[i + 1]
      <4>1. i + 1 \in 1 .. Len(chan1) /\ i + 1 # 1
        BY <1>4
      <4>2. Len(Pending) = Len(chan1) + Len(<<>>) + Len(stack) /\ Pending[i + 1] = chan1[i + 1]
        BY <1>6, <4>1 DEF InOrder
      <4>3. Len(<<>>) = 0 /\ Len(stack) \in Nat
        BY <1>6
      <4>4. chan1'[i] = chan1[i + 1]
        BY <1>4
      <4> QED BY <1>4, <4>1, <4>2, <4>3, <4>4
    <3>3. chan1[i + 1].c \in Later(Pending)
      BY <3>2, LaterMember
    <3>4. chan1[i + 1].c \notin stored
      <4>1. chan1[i + 1] # Terminator
        <5>1. chan1[i + 1] \in SearchedEntry
          BY <1>4, <3>2, <1>3
        <5> QED BY <5>1, TerminatorAssumption
      <4> QED BY <1>2, <3>2, <4>1 DEF KernelInv, PoolIvdep
    <3> QED BY <1>10, <3>1, <3>2, <3>3, <3>4
  <2> QED BY <2>4, <2>10, <2>11, <2>12, <2>13, <2>14 DEF KernelInv
<1>14. /\ LastFrees(Pending) /\ Intact(Pending, cs_pool)
       /\ \A y \in Later(Pending) : cs_pool'[y] = cs_pool[y]
  <2>1. Later(Pending) \subseteq Locations
    <3>1. Later(Pending) \subseteq InUse(Pending)
      BY <1>6, PendingForms, FirstRecord DEF KernelInv
    <3>2. InUse(Pending) \subseteq Locations
      BY DEF KernelInv, Accounts, Taken
    <3> QED BY <3>1, <3>2
  <2> HIDE DEF new, full
  <2> QED BY <1>10, <1>12, <2>1, PendingForms DEF KernelInv
<1> DEFINE kept1 == IF full THEN Centres ELSE kept
<1>17. /\ s.closest \in cs_pool[s.c] /\ kept1 \in (SUBSET cs_pool[s.c]) \cup {Centres}
       /\ s.closest \in kept1 /\ kept1 \in SUBSET Centres
       /\ new_k = Cardinality(kept1) /\ cs_pool'[new] = kept1
  <2>1. /\ cs_pool \in [Locations -> SUBSET Centres] /\ cs_pool[cs_0] = Centres
        /\ s.closest \in kept /\ kept \in SUBSET cs_pool[s.c]
    BY <1>1, <1>2 DEF KernelInv, TypeOK
  <2>2. /\ cs_pool' = IF full THEN cs_pool ELSE [cs_pool EXCEPT ![new] = kept]
        /\ new_k = IF full THEN k ELSE Cardinality(kept)
    BY <1>1
  <2>3. full => new = cs_0
    BY <1>9
  <2> HIDE DEF full, new, new_k, s
  <2>4. cs_pool[s.c] \in SUBSET Centres
    BY <1>5, <2>1
  <2>5. CASE full
    <3>1. kept1 = Centres /\ new_k = k /\ cs_pool' = cs_pool /\ new = cs_0
      BY <2>2, <2>3, <2>5
    <3>2. s.closest \in cs_pool[s.c] /\ s.closest \in Centres
      BY <1>5, <2>1
    <3> HIDE DEF kept1
    <3> QED BY <2>1, <3>1, <3>2 DEF k
  <2>6. CASE ~full
    <3>1. kept1 = kept /\ new_k = Cardinality(kept) /\ cs_pool' = [cs_pool EXCEPT ![new] = kept]
      BY <2>2, <2>6
    <3>2. cs_pool'[new] = kept
      BY <1>11, <2>1, <3>1
    <3> HIDE DEF kept1
    <3> QED BY <2>1, <2>4, <3>1, <3>2
  <2> QED BY <2>5, <2>6
<1>18. ASSUME \/ DeadEndMove(Pending, Pending', s.closest, kept1)
              \/ \E m : KidsMove(Pending, Pending', kept1, m)
       PROVE  ProcessMoves(Pending, Pending')
  <2> HIDE DEF kept1, s
  <2> QED BY <1>5, <1>6, <1>14, <1>17, <1>18 DEF ProcessMoves, n
<1>15. CASE DeadEndAt(kept)
  <2>0. Leaf(s.u) \/ Cardinality(kept1) = 1
    BY <1>15, <1>17
  <2>1. /\ chan3' = Append(chan3, Record) /\ stack' = stack
        /\ reported' = reported \cup {Record}
        /\ \/ full /\ chan2' = returned
           \/ ~full /\ chan2' = Append(returned, new)
    BY <1>1, <1>15
  <2>2. chan3' \in Seq(DeadEnd \cup {Terminator})
    <3>1. Record \in DeadEnd
      BY <1>5 DEF DeadEnd
    <3> HIDE DEF Record
    <3> QED BY <1>2, <2>1, <3>1 DEF TypeOK
  <2> HIDE DEF s, full, returned, address, free, new, new_k, rest, h, kept1
  <2>3. InOrder(Pending', chan1', <<>>, stack')
    BY <1>2, <1>3, <1>4, <1>6, <2>1, EmptySeq, PendingNext
  <2>4. /\ Len(Pending') = Len(Pending) - 1
        /\ \A i \in 1 .. Len(Pending') : Pending'[i] = Pending[i + 1]
    BY <1>2, <1>3, <1>4, <1>6, <2>1, <2>3, GoneFirst
  <2>9. ProcessMoves(Pending, Pending')
    <3>1. DeadEndMove(Pending, Pending', s.closest, kept1)
      BY <1>6, <2>0, <2>1, <2>4 DEF DeadEndMove
    <3> QED BY <1>18, <3>1
  <2> HIDE DEF n
  <2>5. InUse(Pending') = Later(Pending) /\ LastFrees(Pending')
    BY <1>6, <1>14, <2>4, DropRecord DEF n
  <2>6. Intact(Pending', cs_pool')
    <3>1. Len(Pending) \in Nat \ {0}
      BY <1>6 DEF n
    <3>2. \A i \in 1 .. Len(Pending') :
            \/ Holds(Pending'[i], cs_pool')
            \/ \E j \in 2 .. Len(Pending) : Pending'[i] = Pending[j]
      BY <2>4, <3>1
    <3>3. Len(Pending) \in Nat
      BY <3>1
    <3> DEFINE p == Pending
               q == Pending'
               pool == cs_pool'
    <3>4. /\ Len(p) \in Nat /\ Intact(p, cs_pool) /\ \A loc \in Later(p) : pool[loc] = cs_pool[loc]
          /\ \A i \in 1 .. Len(q) : Holds(q[i], pool) \/ \E j \in 2 .. Len(p) : q[i] = p[j]
      BY <1>14, <3>2, <3>3
    <3> HIDE DEF p, q, pool
    <3>5. Intact(q, pool)
      BY <3>4, IntactWrite
    <3> QED BY <3>5 DEF q, pool
  <2>7. CASE full
    <3>1. chan2' = returned
      BY <2>1, <2>7
    <3> QED BY <1>8, <1>13, <2>1, <2>2, <2>5, <2>6, <2>7, <2>9, <3>1, <1>6 DEF StillTaken, rest
  <2>8. CASE ~full
    <3>1. chan2' = Append(returned, new) /\ new \notin ElementsOf(returned)
      BY <1>9, <2>1, <2>8 DEF StillTaken, rest
    <3>2. /\ chan2' \in Seq(Locations) /\ DistinctSeq(chan2')
          /\ ElementsOf(chan2') = ElementsOf(returned) \cup {new}
      BY <1>8, <1>11, <3>1, DistinctAppend
    <3>3. new \notin Later(Pending) \cup {cs_0}
      BY <1>9, <2>8 DEF StillTaken, rest
    <3>4. InUse(Pending') \cup {cs_0} \cup ElementsOf(chan2') = rest \cup {new}
      BY <2>5, <3>2 DEF StillTaken, rest
    <3>5. (InUse(Pending') \cup {cs_0}) \cap ElementsOf(chan2') = {}
      BY <1>8, <2>5, <3>2, <3>3
    <3>6. stack' \in Seq(StackEntry)
      BY <1>6, <2>1
    <3> QED BY <1>13, <2>2, <2>5, <2>6, <2>8, <2>9, <3>2, <3>4, <3>5, <3>6
  <2> QED BY <2>7, <2>8
<1>16. CASE ~DeadEndAt(kept)
  <2> DEFINE r == [u |-> right[s.u], c |-> new, k |-> new_k, d |-> ~full, cand |-> kept1]
             l == [u |-> left[s.u], c |-> new, k |-> new_k, d |-> FALSE, cand |-> kept1]
             m == Len(chan1) - 1
  <2>0. ~(Leaf(s.u) \/ Cardinality(kept1) = 1)
    BY <1>16, <1>17
  <2>1. /\ stack' = stack \o <<r, l>> /\ chan2' = returned /\ chan3' = chan3
        /\ reported' = reported
    BY <1>1, <1>16 DEF Children
  <2>2. r \in StackEntry /\ l \in StackEntry
    <3>1. left[s.u] \in Nodes /\ right[s.u] \in Nodes
      BY <1>5, <1>16, FilterAssumption DEF Leaf
    <3> HIDE DEF s, new, new_k, full, kept1
    <3> QED BY <1>7, <1>11, <1>12, <1>17, <3>1 DEF StackEntry
  <2>3. /\ r.c = new /\ l.c = new /\ r.k = new_k /\ l.k = new_k /\ r.d = ~full /\ l.d = FALSE
        /\ r.u = right[s.u] /\ l.u = left[s.u] /\ r.cand = kept1 /\ l.cand = kept1
    OBVIOUS
  <2> HIDE DEF r, l, s, full, returned, address, free, new, new_k, rest, h, kept1
  <2>4. stack' \in Seq(StackEntry)
    <3>1. <<r, l>> \in Seq(StackEntry)
      BY <2>2
    <3> QED BY <1>6, <2>1, <3>1, ConcatProperties
  <2>5. InOrder(Pending', Tail(chan1), <<>>, stack \o <<r, l>>)
    BY <1>2, <1>3, <1>4, <2>1, <2>4, EmptySeq, PendingNext
  <2>6. /\ Len(Pending) \in Nat \ {0} /\ Len(Pending') = Len(Pending) + 1
        /\ m \in 0 .. Len(Pending) - 1
        /\ \A i \in 1 .. m : Pending'[i] = Pending[i + 1]
        /\ Pending'[m + 1] = l /\ Pending'[m + 2] = r
        /\ \A i \in m + 3 .. Len(Pending) + 1 : Pending'[i] = Pending[i - 1]
    BY SMTT(60), <1>2, <1>3, <1>6, <2>2, <2>5, PushedTwo
  <2>13. ProcessMoves(Pending, Pending')
    <3>1. KidsMove(Pending, Pending', kept1, m)
      BY <1>6, <1>17, <2>0, <2>1, <2>3, <2>6 DEF KidsMove
    <3> QED BY <1>18, <3>1
  <2> HIDE DEF m, n
  <2>7. (full => new = cs_0) /\ (~full => new \notin Later(Pending) \cup {cs_0})
    BY <1>9 DEF StillTaken, rest
  <2>8. InUse(Pending') = Later(Pending) \cup {new} /\ LastFrees(Pending')
    <3>1. /\ Pending'[m + 1].c = new /\ Pending'[m + 1].d = FALSE
          /\ Pending'[m + 2].c = new /\ Pending'[m + 2].d = ~full
      BY <2>3, <2>6
    <3>2. Inserted(Pending, Pending', m, new, full)
      BY <2>6, <3>1 DEF Inserted
    <3> QED BY <1>7, <1>14, <2>6, <2>7, <3>2, PutChildren
  <2>9. Intact(Pending', cs_pool')
    <3>1. ASSUME NEW i \in 1 .. Len(Pending')
          PROVE  \/ Holds(Pending'[i], cs_pool')
                 \/ \E j \in 2 .. Len(Pending) : Pending'[i] = Pending[j]
      <4>1. \/ i \in 1 .. m /\ i + 1 \in 2 .. Len(Pending)
            \/ i = m + 1 \/ i = m + 2
            \/ i \in m + 3 .. Len(Pending) + 1 /\ i - 1 \in 2 .. Len(Pending)
        BY <2>6
      <4> QED BY <1>17, <2>3, <2>6, <4>1 DEF Holds
    <3>2. Len(Pending) \in Nat
      BY <2>6
    <3>3. \A i \in 1 .. Len(Pending') :
            Holds(Pending'[i], cs_pool') \/ \E j \in 2 .. Len(Pending) : Pending'[i] = Pending[j]
      BY <3>1
    <3> DEFINE p == Pending
               q == Pending'
               pool == cs_pool'
    <3>4. /\ Len(p) \in Nat /\ Intact(p, cs_pool) /\ \A loc \in Later(p) : pool[loc] = cs_pool[loc]
          /\ \A i \in 1 .. Len(q) : Holds(q[i], pool) \/ \E j \in 2 .. Len(p) : q[i] = p[j]
      BY <1>14, <3>2, <3>3
    <3> HIDE DEF p, q, pool
    <3>5. Intact(q, pool)
      BY <3>4, IntactWrite
    <3> QED BY <3>5 DEF q, pool
  <2>10. InUse(Pending') \cup {cs_0} \cup ElementsOf(chan2') = IF full THEN rest ELSE rest \cup {new}
    BY <2>1, <2>7, <2>8 DEF StillTaken, rest
  <2>11. (InUse(Pending') \cup {cs_0}) \cap ElementsOf(chan2') = {}
    <3>1. ~full => new \notin ElementsOf(returned)
      BY <1>9 DEF StillTaken, rest
    <3> QED BY <1>8, <2>1, <2>7, <2>8, <3>1
  <2>12. chan3' \in Seq(DeadEnd \cup {Terminator})
    BY <1>2, <2>1 DEF TypeOK
  <2> QED BY <1>8, <1>13, <2>1, <2>4, <2>8, <2>9, <2>10, <2>11, <2>12, <2>13
<1> QED BY <1>15, <1>16

-----------------------------------------------------------------------------
(***************************************************************************)
(* The links of the free list.                                             *)
(***************************************************************************)

Links(g) ==
  g = [i \in 0 .. PoolSize |->
         IF i = 0 THEN next_free_location
         ELSE IF g[i - 1] \in Locations THEN flist[g[i - 1]] ELSE PoolSize]

LEMMA LinkIsLinks ==
  ASSUME NEW g, Links(g)
  PROVE  Links(link)
<1>1. link = CHOOSE f : Links(f)
  BY DEF link, Links
<1> QED BY <1>1

\* A set of indices that is not empty has a least element.
LEMMA LeastIndex ==
  ASSUME NEW D, NEW m \in Nat, D \subseteq 0 .. m, D # {}
  PROVE  \E i \in D : \A j \in D : ~(j < i)
<1> DEFINE S == 0 .. m
           T == {0 .. i : i \in D}
           R == StrictSubsetOrdering(S)
<1>1. IsWellFoundedOn(R, FiniteSubsetsOf(S))
  BY FS_StrictSubsetOrderingWellFounded
<1>2. T \subseteq FiniteSubsetsOf(S) /\ T # {}
  <2>1. ASSUME NEW i \in D PROVE 0 .. i \in FiniteSubsetsOf(S)
    BY FS_Interval DEF FiniteSubsetsOf
  <2> QED BY <2>1
<1>3. PICK U \in T : \A V \in T : ~(<<V, U>> \in R)
  <2> HIDE DEF T, R, S
  <2> QED BY <1>1, <1>2, WFMin
<1>4. PICK i \in D : U = 0 .. i
  OBVIOUS
<1>5. ASSUME NEW j \in D, j < i PROVE FALSE
  <2>1. i \in Nat /\ j \in Nat /\ i \in 0 .. m /\ j \in 0 .. m
    OBVIOUS
  <2>2. 0 .. j \subseteq 0 .. i /\ i \in 0 .. i /\ i \notin 0 .. j
    BY <1>5, <2>1
  <2>3. 0 .. j \subseteq S /\ 0 .. i \subseteq S
    BY <2>1
  <2>4. <<0 .. j, 0 .. i>> \in R
    BY <2>2, <2>3 DEF StrictSubsetOrdering
  <2> QED BY <1>3, <1>4, <2>4
<1> QED BY <1>5

\* There is only one such function: a least difference would be a difference before.
LEMMA LinksUnique ==
  ASSUME NEW f, NEW g, Links(f), Links(g)
  PROVE  f = g
<1> DEFINE D == {i \in 0 .. PoolSize : f[i] # g[i]}
<1> USE PoolConstants
<1>1. /\ \A i \in 0 .. PoolSize :
           f[i] = IF i = 0 THEN next_free_location
                  ELSE IF f[i - 1] \in Locations THEN flist[f[i - 1]] ELSE PoolSize
      /\ \A i \in 0 .. PoolSize :
           g[i] = IF i = 0 THEN next_free_location
                  ELSE IF g[i - 1] \in Locations THEN flist[g[i - 1]] ELSE PoolSize
  BY DEF Links
<1>2. ASSUME D # {} PROVE FALSE
  <2>1. PICK i \in D : \A j \in D : ~(j < i)
    <3>1. D \subseteq 0 .. PoolSize /\ PoolSize \in Nat
      OBVIOUS
    <3> HIDE DEF D
    <3> QED BY <1>2, <3>1, LeastIndex
  <2>3. i # 0
    BY <1>1
  <2>4. i - 1 \in 0 .. PoolSize /\ i - 1 < i
    BY <2>3
  <2>5. f[i - 1] = g[i - 1]
    BY <2>1, <2>4
  <2>6. f[i] = g[i]
    BY <1>1, <2>3, <2>5
  <2> QED BY <2>6
<1>3. \A i \in 0 .. PoolSize : f[i] = g[i]
  BY <1>2
<1> QED BY <1>3 DEF Links

\* The links lead through the locations that are not taken, and no others.
LEMMA FreeList ==
  ASSUME NEW taken, Accounts(taken, flist, next_free_location, heap_consumption)
  PROVE  FreeLocations = Locations \ (taken \cup {0})
<1> USE PoolConstants
<1> DEFINE m == PoolSize - 1 - heap_consumption
<1>1. m \in Nat \ {0} /\ m <= PoolSize
  BY DEF Accounts
<1>2. PICK f : /\ Chain(f, m, flist, next_free_location)
               /\ Through(f, m) = Locations \ (taken \cup {0})
  BY DEF Accounts
<1> HIDE DEF m
<1> DEFINE g == [i \in 0 .. PoolSize |-> IF i < m THEN f[i] ELSE PoolSize]
<1>3. ASSUME NEW i \in 0 .. PoolSize
      PROVE  g[i] = IF i = 0 THEN next_free_location
                    ELSE IF g[i - 1] \in Locations THEN flist[g[i - 1]] ELSE PoolSize
  <2>1. CASE i = 0
    BY <1>1, <1>2, <2>1 DEF Chain
  <2>2. CASE i \in 1 .. m
    <3>1. i - 1 \in 0 .. m - 1 /\ i - 1 \in 0 .. PoolSize /\ (i - 1) + 1 = i
      BY <1>1, <2>2
    <3>2. g[i - 1] = f[i - 1] /\ f[i - 1] \in Locations /\ flist[f[i - 1]] = f[i]
      BY <1>1, <1>2, <3>1 DEF Chain
    <3>3. g[i] = f[i]
      BY <1>1, <1>2, <2>2 DEF Chain
    <3> QED BY <2>2, <3>2, <3>3
  <2>3. CASE i > m
    <3>1. g[i - 1] = PoolSize /\ g[i] = PoolSize /\ PoolSize \notin Locations
      BY <1>1, <2>3
    <3> QED BY <1>1, <2>3, <3>1
  <2> QED BY <1>1, <2>1, <2>2, <2>3
<1>4. Links(g)
  <2> DEFINE e == [i \in 0 .. PoolSize |->
                     IF i = 0 THEN next_free_location
                     ELSE IF g[i - 1] \in Locations THEN flist[g[i - 1]] ELSE PoolSize]
  <2>1. \A i \in 0 .. PoolSize : g[i] = e[i]
    BY <1>3
  <2>2. g = e
    BY <2>1
  <2> QED BY <2>2 DEF Links
<1>5. link = g
  BY <1>4, LinkIsLinks, LinksUnique
<1>6. \A i \in 0 .. PoolSize : g[i] = IF i < m THEN f[i] ELSE PoolSize
  OBVIOUS
<1> HIDE DEF g
<1>7. ASSUME NEW x PROVE x \in FreeLocations <=> x \in Through(f, m)
  <2>1. ASSUME x \in FreeLocations PROVE x \in Through(f, m)
    <3>1. PICK i \in 0 .. PoolSize : x = g[i] /\ x \in Locations
      BY <1>5, <2>1 DEF FreeLocations
    <3>2. i < m /\ x = f[i]
      BY <1>6, <3>1
    <3>3. i \in 0 .. m - 1
      BY <1>1, <3>2
    <3> QED BY <1>1, <3>2, <3>3, ThroughMember
  <2>2. ASSUME x \in Through(f, m) PROVE x \in FreeLocations
    <3>1. PICK i \in 0 .. m - 1 : x = f[i]
      BY <1>1, <2>2, ThroughMember
    <3>2. i \in 0 .. PoolSize /\ x = g[i] /\ x \in Locations
      BY <1>1, <1>2, <1>6, <3>1 DEF Chain
    <3> QED BY <1>5, <3>2 DEF FreeLocations
  <2> QED BY <2>1, <2>2
<1> QED BY <1>2, <1>7

-----------------------------------------------------------------------------
(***************************************************************************)
(* The theorems.                                                           *)
(***************************************************************************)

\* Every step of the two kernels keeps the invariant, and is one of those moves.
LEMMA NextKernelInv ==
  ASSUME KernelInv, [Next]_vars
  PROVE  KernelInv' /\ (QuietMove \/ ProcessMoves(Pending, Pending'))
<1>1. CASE PushEntry
  BY <1>1, PushEntryStep
<1>2. CASE PushTerminator
  BY <1>2, PushTerminatorStep
<1>3. CASE Search
  BY <1>3, SearchStep
<1>4. CASE Process
  BY <1>4, ProcessStep
<1>5. CASE ProcessTerminator
  BY <1>5, ProcessTerminatorStep
<1>6. CASE Accumulate
  BY <1>6, AccumulateStep
<1>7. CASE UNCHANGED vars
  <2>1. UNCHANGED <<flist, next_free_location, heap_consumption, cs_pool, stack, read_counter, pc,
                    chan0, chan1, chan2, chan3, centroid_buffer, finished1, reported, stored>>
    BY <1>7 DEF vars, allocator, filter1, history
  <2>2. TypeOK' /\ BatchShape' /\ PoolIvdep'
    BY <2>1 DEF KernelInv, TypeOK, BatchShape, LastBatch, PlainBatch, PoolIvdep
  <2>3. SameRecords(Pending, Pending')
    BY <2>1 DEF SameRecords, Pending, Reversed
  <2>4. UNCHANGED <<allocator, cs_pool, chan2, reported>>
    BY <2>1 DEF allocator
  <2> QED BY <2>2, <2>3, <2>4, QuietStep
<1> QED BY <1>1, <1>2, <1>3, <1>4, <1>5, <1>6, <1>7 DEF Next, filter0Next

\* The kernels' inductive invariant holds in every reachable state, whatever the
\* tree, the candidates kept and the delay of chan2.
THEOREM KernelInvariant == Spec => []KernelInv
<1>1. KernelInv /\ [Next]_vars => KernelInv'
  BY NextKernelInv
<1> QED BY InitKernelInv, <1>1, PTL DEF Spec

\* The kernels' variables keep their types; the counter of the heap stays four
\* below the size of the pool, as the comparison in max_heap_usage_reached wants.
THEOREM KernelTypes == Spec => []TypeOK
<1>1. KernelInv => TypeOK
  BY DEF KernelInv
<1> QED BY KernelInvariant, <1>1, PTL

\* The "d" flags, set when two children are pushed, free each candidate set
\* exactly with the last record that uses it, and never the set of all centres.
THEOREM SetsFreedByLastUser == Spec => []FreedByLastUser
<1>1. KernelInv => FreedByLastUser
  BY DEF KernelInv
<1> QED BY KernelInvariant, <1>1, PTL

\* A record finds the candidates that were stored for it when it was pushed: no
\* other set, of the same size or not, has been written over them meanwhile.
THEOREM CandidatesStayIntact == Spec => []CandidatesIntact
<1>1. KernelInv => CandidatesIntact
  BY DEF KernelInv
<1> QED BY KernelInvariant, <1>1, PTL

\* The second loop's iterations are independent in cs_pool, as its ivdep pragma
\* promises the compiler.
THEOREM IterationsIndependent == Spec => []PoolIvdep
<1>1. KernelInv => PoolIvdep
  BY DEF KernelInv
<1> QED BY KernelInvariant, <1>1, PTL

\* heap_consumption is the number of locations that are not free.
THEOREM HeapIsAccounted == Spec => []HeapAccounted
<1>1. KernelInv => HeapAccounted
  <2> SUFFICES ASSUME KernelInv PROVE HeapAccounted
    OBVIOUS
  <2>1. heap_consumption = Cardinality(Taken)
    BY DEF KernelInv, Accounts
  <2>2. Taken = InUse(Pending) \cup Delayed \cup {cs_0}
    BY DEF Taken
  <2> QED BY <2>1, <2>2 DEF HeapAccounted
<1> QED BY KernelInvariant, <1>1, PTL

\* Every location of the pool is on the free list, waiting in chan2 once, in use,
\* or one of the two that are never handed out: nothing is freed twice, freed
\* while it is needed, or lost.
THEOREM PoolIsPartitioned == Spec => []PoolPartition
<1>1. KernelInv => PoolPartition
  <2> SUFFICES ASSUME KernelInv PROVE PoolPartition
    OBVIOUS
  <2> DEFINE used == InUse(Pending) \cup {cs_0}
  <2>1. FreeLocations = Locations \ (Taken \cup {0}) /\ Taken \subseteq Locations \ {0}
    BY FreeList DEF KernelInv, Accounts
  <2>2. Taken = used \cup Delayed /\ used \cap Delayed = {}
    BY DEF KernelInv, ReturnedOnce, Taken
  <2>3. Cardinality(Delayed) = Len(chan2)
    <3>1. chan2 \in Seq(Locations) /\ DistinctSeq(chan2) /\ Delayed = ElementsOf(chan2)
      BY DEF KernelInv, TypeOK, ReturnedOnce, DistinctSeq, Delayed, ElementsOf
    <3> QED BY <3>1, DistinctCardinality
  <2>4. 0 \in Locations
    BY PoolConstants
  <2> HIDE DEF used
  <2>5. /\ FreeLocations \cap (used \cup Delayed) = {} /\ used \cap Delayed = {}
        /\ FreeLocations \cup used \cup Delayed \cup {0} = Locations
    BY <2>1, <2>2, <2>4
  <2> QED BY <2>3, <2>5 DEF PoolPartition, used
<1> QED BY KernelInvariant, <1>1, PTL
=============================================================================
