---------------------------- MODULE FilterKernel ----------------------------
(***************************************************************************)
(* The two OpenCL kernels of the filtering algorithm and their channels.   *)
(* filter0 traverses the kd-tree with a stack in batches: it moves up to   *)
(* BatchSize stack entries into chan0 (loop over r_sp), finds the closest  *)
(* candidate of each and passes it on through chan1 (first for loop), then *)
(* prunes, allocates a candidate set, and pushes the children or reports a *)
(* dead end (second for loop).  filter1 consumes the reports from chan3.   *)
(*                                                                         *)
(* Candidate sets live in a pool with a free list.  The two children of a  *)
(* node share their parent's set; the one examined second frees it (d).  A *)
(* dead end's set is returned through chan2, which is read without         *)
(* blocking and with unknown delay.  When the pool runs short, children    *)
(* get the set of all centres, cs_0, which is never freed.                 *)
(*                                                                         *)
(* The geometry is abstract: any candidate may be the closest, and any     *)
(* candidates but the closest may be pruned (tooFar is false for a centre  *)
(* and itself).  The per-candidate iterations of a record are one step.    *)
(***************************************************************************)
EXTENDS Naturals, Sequences, FiniteSets

CONSTANTS
  Nodes, Root, Nil, left, right,   \* the tree, as the host has built it
  Centres,        \* the centre indices, k of them
  PoolSize,       \* CENTER_SET_POOL_SIZE
  BatchSize,      \* BATCH_SIZE, also the depth of chan0, chan1 and chan3
  Terminator      \* a record with ctrl = 0

\* A node has two children or none: buildkdTree makes only leaves and nodes with
\* both (KdTree).
ASSUME FilterAssumption ==
  /\ Root \in Nodes /\ Nil \notin Nodes
  /\ left \in [Nodes -> Nodes \cup {Nil}] /\ right \in [Nodes -> Nodes \cup {Nil}]
  /\ \A u \in Nodes : left[u] = Nil <=> right[u] = Nil
  /\ IsFiniteSet(Centres) /\ Centres # {}
  /\ PoolSize \in Nat /\ PoolSize > 4
  /\ BatchSize \in Nat \ {0}

Kids(u) == {left[u], right[u]} \ {Nil}

\* The nodes form trees: buildkdTree links a node from the one new node that it
\* makes of the two it has built before, and its recursion has begun at leaves,
\* so that what holds of a node whenever it holds of its kids holds of every node.
ASSUME TreeAssumption ==
  /\ \A u \in Nodes : left[u] # Nil => left[u] # right[u]
  /\ \A u, v \in Nodes : Kids(u) \cap Kids(v) # {} => u = v
  /\ \A S \in SUBSET Nodes : (\A u \in Nodes : Kids(u) \subseteq S => u \in S) => S = Nodes

VARIABLES
  flist, next_free_location, heap_consumption,   \* the allocator
  cs_pool,        \* [location -> the candidates stored there]
  stack,          \* the top is the last element; sp is its length
  read_counter,   \* records of the batch pushed so far
  pc,             \* the loop filter0 is in
  chan0, chan1, chan2, chan3,
  centroid_buffer,   \* [centre -> the nodes whose sums the entry holds]
  finished1,         \* filter1 has written its results
  reported,          \* history: every dead end sent to chan3
  stored             \* history: what this run of the second loop wrote to
                     \* cs_pool

allocator == <<flist, next_free_location, heap_consumption>>
history   == <<reported, stored>>
filter1   == <<centroid_buffer, finished1>>
vars == <<allocator, cs_pool, stack, read_counter, pc,
          chan0, chan1, chan2, chan3, filter1, history>>

Locations == 0 .. PoolSize - 1

k == Cardinality(Centres)

\* The location of the set of all centres: the first that kernel_malloc gives.
cs_0 == 1

\* An entry of the stack, and of chan0.  cand is a history of what was stored
\* for it at c, or was there already when c is cs_0.
StackEntry == [u : Nodes, c : Locations, k : 1 .. k, d : BOOLEAN, cand : SUBSET Centres]

\* A record of chan1, with the closest candidate, and one of chan3.
SearchedEntry == [u : Nodes, c : Locations, k : 1 .. k, d : BOOLEAN, cand : SUBSET Centres,
                  closest : Centres]
DeadEnd       == [u : Nodes, centre : Centres]

\* ctrl = 0 marks no record that holds a node.
ASSUME TerminatorAssumption == Terminator \notin StackEntry \cup SearchedEntry \cup DeadEnd

-----------------------------------------------------------------------------
(***************************************************************************)
(* The allocator.                                                          *)
(***************************************************************************)

\* kernel_init_allocator, and the kernel_malloc that gives cs_0.
AllocatorInit ==
  /\ flist = [i \in Locations |-> i + 1]
  /\ next_free_location = cs_0 + 1
  /\ heap_consumption = 1

\* A mutant: the allocator never reports the pool as nearly full.
max_heap_usage_never_reached == FALSE

max_heap_usage_reached == heap_consumption >= PoolSize - 4

\* A mutant: the free list does not move on to the next free location.
malloc_keep_head(address, free_first, heap_full) ==
  [flist |-> IF free_first THEN [flist EXCEPT ![address] = next_free_location] ELSE flist,
   next  |-> IF free_first /\ heap_full THEN address ELSE next_free_location,
   new   |-> CASE heap_full  -> cs_0
               [] free_first /\ ~heap_full -> address
               [] OTHER      -> next_free_location]

\* The effect on the free list and the location that the new set gets.
fused_kernel_conditional_free_malloc(address, free_first, heap_full) ==
  [flist |-> IF free_first THEN [flist EXCEPT ![address] = next_free_location] ELSE flist,
   next  |-> CASE free_first /\ heap_full   -> address
               [] ~free_first /\ ~heap_full -> flist[next_free_location]
               [] OTHER                     -> next_free_location,
   new   |-> CASE heap_full  -> cs_0
               [] free_first /\ ~heap_full -> address
               [] OTHER      -> next_free_location]

\* A mutant: a set that is reused in place is counted as a new one.
new_heap_consumption_every_malloc(freed) ==
  IF max_heap_usage_reached
    THEN IF freed THEN heap_consumption - 1 ELSE heap_consumption
    ELSE heap_consumption + 1

new_heap_consumption(freed) ==
  IF max_heap_usage_reached
    THEN IF freed THEN heap_consumption - 1 ELSE heap_consumption
    ELSE IF freed THEN heap_consumption ELSE heap_consumption + 1

Init ==
  /\ AllocatorInit
  /\ cs_pool = [l \in Locations |-> IF l = cs_0 THEN Centres ELSE {}]
  /\ stack = <<[u |-> Root, c |-> cs_0, k |-> k, d |-> FALSE, cand |-> Centres]>>
  /\ read_counter = 0
  /\ pc = "push"
  /\ chan0 = <<>> /\ chan1 = <<>> /\ chan2 = <<>> /\ chan3 = <<>>
  /\ centroid_buffer = [z \in Centres |-> {}]
  /\ finished1 = FALSE
  /\ reported = {} /\ stored = {}

-----------------------------------------------------------------------------
(***************************************************************************)
(* filter0.                                                                *)
(***************************************************************************)

\* A mutant: sp = r_sp is missing, so an entry read stays on the stack.
PushEntry_keep_sp ==
  /\ pc = "push"
  /\ stack # <<>>
  /\ Len(chan0) < BatchSize
  /\ chan0' = Append(chan0, stack[Len(stack)])
  /\ read_counter' = read_counter + 1
  /\ pc' = IF read_counter' < BatchSize THEN "push" ELSE "search"
  /\ UNCHANGED <<allocator, cs_pool, stack, chan1, chan2, chan3, filter1, history>>

\* The do loop: one entry of the stack goes into chan0.
PushEntry ==
  /\ pc = "push"
  /\ stack # <<>>
  /\ Len(chan0) < BatchSize
  /\ chan0' = Append(chan0, stack[Len(stack)])
  /\ stack' = SubSeq(stack, 1, Len(stack) - 1)
  /\ read_counter' = read_counter + 1
  /\ pc' = IF stack' # <<>> /\ read_counter' < BatchSize THEN "push" ELSE "search"
  /\ UNCHANGED <<allocator, cs_pool, chan1, chan2, chan3, filter1, history>>

\* With an empty stack the batch is the terminator alone.
PushTerminator ==
  /\ pc = "push"
  /\ stack = <<>>
  /\ Len(chan0) < BatchSize
  /\ chan0' = Append(chan0, Terminator)
  /\ read_counter' = read_counter + 1
  /\ pc' = "search"
  /\ UNCHANGED <<allocator, cs_pool, stack, chan1, chan2, chan3, filter1, history>>

\* The first for loop: a record leaves with its closest candidate.
Searched(s, closest) ==
  [u |-> s.u, c |-> s.c, k |-> s.k, d |-> s.d, cand |-> s.cand, closest |-> closest]

Search ==
  /\ pc = "search"
  /\ chan0 # <<>>
  /\ Len(chan1) < BatchSize
  /\ LET s == Head(chan0)
     IN  \/ s = Terminator /\ chan1' = Append(chan1, Terminator)
         \/ /\ s # Terminator
            /\ \E closest \in cs_pool[s.c] : chan1' = Append(chan1, Searched(s, closest))
  /\ chan0' = Tail(chan0)
  /\ pc' = IF chan0' = <<>> THEN "process" ELSE "search"
  /\ UNCHANGED <<allocator, cs_pool, stack, read_counter, chan2, chan3, filter1, history>>

\* After the last record of the batch the second loop ends; the history of
\* what it wrote starts afresh with the next.
NextRecord(writes) ==
  /\ chan1' = Tail(chan1)
  /\ IF chan1' = <<>>
       THEN pc' = "push" /\ read_counter' = 0 /\ stored' = {}
       ELSE /\ UNCHANGED <<pc, read_counter>>
            /\ stored' = stored \cup writes

\* The second for loop, for one record.  delivered says whether the read of
\* chan2 has found a set to free; it may find none although one was sent.
Leaf(u) == left[u] = Nil /\ right[u] = Nil

\* A mutant: the left child, examined first, frees the set.
Children_free_early(u, new_cs, new_k, heap_full, cand) ==
  <<[u |-> right[u], c |-> new_cs, k |-> new_k, d |-> FALSE, cand |-> cand],
    [u |-> left[u],  c |-> new_cs, k |-> new_k, d |-> ~heap_full, cand |-> cand]>>

\* A mutant: cs_0 is freed like any other set.
Children_free_cs_0(u, new_cs, new_k, heap_full, cand) ==
  <<[u |-> right[u], c |-> new_cs, k |-> new_k, d |-> TRUE, cand |-> cand],
    [u |-> left[u],  c |-> new_cs, k |-> new_k, d |-> FALSE, cand |-> cand]>>

\* A mutant: the right subtree is pushed twice.
Children_right_twice(u, new_cs, new_k, heap_full, cand) ==
  <<[u |-> right[u], c |-> new_cs, k |-> new_k, d |-> ~heap_full, cand |-> cand],
    [u |-> right[u], c |-> new_cs, k |-> new_k, d |-> FALSE, cand |-> cand]>>

\* The children's entries, with cand stored at new_cs: the right one is pushed
\* first and examined last.
Children(u, new_cs, new_k, heap_full, cand) ==
  <<[u |-> right[u], c |-> new_cs, k |-> new_k, d |-> ~heap_full, cand |-> cand],
    [u |-> left[u],  c |-> new_cs, k |-> new_k, d |-> FALSE, cand |-> cand]>>

Process ==
  /\ pc = "process"
  /\ chan1 # <<>>
  /\ Head(chan1) # Terminator
  /\ \E delivered \in BOOLEAN : \E kept \in SUBSET cs_pool[Head(chan1).c] :
       LET s          == Head(chan1)
           heap_full  == max_heap_usage_reached
           returned   == IF delivered THEN Tail(chan2) ELSE chan2
           to_delete  == IF delivered THEN Head(chan2) ELSE s.c
           free_first == s.d \/ delivered
           heap       == fused_kernel_conditional_free_malloc(to_delete, free_first, heap_full)
           new_k      == IF heap_full THEN k ELSE Cardinality(kept)
           new_cand   == IF heap_full THEN Centres ELSE kept
           deadend    == Leaf(s.u) \/ new_k = 1
       IN /\ delivered => ~s.d /\ chan2 # <<>>
          /\ s.closest \in kept
          /\ flist' = heap.flist
          /\ next_free_location' = heap.next
          /\ heap_consumption' = new_heap_consumption(free_first)
          /\ cs_pool' = IF heap_full THEN cs_pool ELSE [cs_pool EXCEPT ![heap.new] = kept]
          /\ NextRecord(IF heap_full THEN {} ELSE {heap.new})
          /\ \/ /\ deadend
                /\ \/ heap_full /\ chan2' = returned
                   \/ ~heap_full /\ Len(returned) < PoolSize /\ chan2' = Append(returned, heap.new)
                /\ Len(chan3) < BatchSize
                /\ chan3' = Append(chan3, [u |-> s.u, centre |-> s.closest])
                /\ reported' = reported \cup {[u |-> s.u, centre |-> s.closest]}
                /\ UNCHANGED stack
             \/ /\ ~deadend
                /\ chan2' = returned
                /\ stack' = stack \o Children(s.u, heap.new, new_k, heap_full, new_cand)
                /\ UNCHANGED <<chan3, reported>>
  /\ UNCHANGED <<chan0, filter1>>

\* A mutant: without "|| terminate_loop" the end is neither noticed nor passed on.
ProcessTerminator_dead_ends_only ==
  /\ pc = "process"
  /\ chan1 # <<>>
  /\ Head(chan1) = Terminator
  /\ chan1' = Tail(chan1)
  /\ read_counter' = 0
  /\ pc' = "push"
  /\ UNCHANGED <<allocator, cs_pool, stack, chan0, chan2, chan3, filter1, history>>

\* The record that ends the traversal is passed on to filter1.
ProcessTerminator ==
  /\ pc = "process"
  /\ chan1 # <<>>
  /\ Head(chan1) = Terminator
  /\ Len(chan3) < BatchSize
  /\ chan3' = Append(chan3, Terminator)
  /\ chan1' = Tail(chan1)
  /\ pc' = "finished"
  /\ UNCHANGED <<allocator, cs_pool, stack, read_counter, chan0, chan2, filter1, history>>

filter0Next ==
  PushEntry \/ PushTerminator \/ Search \/ Process \/ ProcessTerminator

-----------------------------------------------------------------------------
(***************************************************************************)
(* filter1.  The additions of the previous sums are commented out in the   *)
(* code: an entry holds the sums of the last record for its centre.        *)
(***************************************************************************)
Accumulate ==
  /\ ~finished1
  /\ chan3 # <<>>
  /\ chan3' = Tail(chan3)
  /\ IF Head(chan3) = Terminator
       THEN finished1' = TRUE /\ UNCHANGED centroid_buffer
       ELSE /\ centroid_buffer' =
                 [centroid_buffer EXCEPT ![Head(chan3).centre] = {Head(chan3).u}]
            /\ UNCHANGED finished1
  /\ UNCHANGED <<allocator, cs_pool, stack, read_counter, pc, chan0, chan1, chan2, history>>

Finished == pc = "finished" /\ finished1

Next == filter0Next \/ Accumulate \/ (Finished /\ UNCHANGED vars)

Spec == Init /\ [][Next]_vars

\* Both kernels are running hardware.  That chan2 delivers is not assumed.
FairSpec == Spec /\ WF_vars(filter0Next) /\ WF_vars(Accumulate)

-----------------------------------------------------------------------------
(***************************************************************************)
(* Properties.                                                             *)
(***************************************************************************)
Reversed(s) == [i \in 1 .. Len(s) |-> s[Len(s) + 1 - i]]

\* The records still to be processed, in the order in which they will be.  The
\* terminator is alone in its batch.
Pending ==
  (IF chan1 \o chan0 = <<Terminator>> THEN <<>> ELSE chan1 \o chan0) \o Reversed(stack)

InUse(s) == {s[i].c : i \in 1 .. Len(s)}

Delayed == {chan2[i] : i \in 1 .. Len(chan2)}

\* The locations that the free list leads to, in at most PoolSize links.
link[i \in 0 .. PoolSize] ==
  IF i = 0 THEN next_free_location
  ELSE IF link[i - 1] \in Locations THEN flist[link[i - 1]] ELSE PoolSize

FreeLocations == {link[i] : i \in 0 .. PoolSize} \cap Locations

TypeOK ==
  /\ flist \in [Locations -> 0 .. PoolSize]
  /\ next_free_location \in Locations
  /\ heap_consumption \in 1 .. PoolSize - 4
  /\ cs_pool \in [Locations -> SUBSET Centres]
  /\ stack \in Seq(StackEntry)
  /\ read_counter \in 0 .. BatchSize
  /\ pc \in {"push", "search", "process", "finished"}
  /\ chan0 \in Seq(StackEntry \cup {Terminator})
  /\ chan1 \in Seq(SearchedEntry \cup {Terminator})
  /\ chan2 \in Seq(Locations)
  /\ chan3 \in Seq(DeadEnd \cup {Terminator})
  /\ centroid_buffer \in [Centres -> SUBSET Nodes]
  /\ finished1 \in BOOLEAN

\* Every location is in exactly one place: on the free list, waiting in chan2
\* (once), used by a record that is still to be processed, reserved as cs_0, or
\* location 0, which the allocator never hands out.  Nothing is freed while it
\* is needed, freed twice, or lost.
PoolPartition ==
  LET used == InUse(Pending) \cup {cs_0}
  IN  /\ FreeLocations \cap (used \cup Delayed) = {}
      /\ used \cap Delayed = {}
      /\ Cardinality(Delayed) = Len(chan2)
      /\ FreeLocations \cup used \cup Delayed \cup {0} = Locations

\* heap_consumption, which decides when the pool is nearly full, counts the
\* locations that are not free, whatever the delay of chan2.
HeapAccounted ==
  heap_consumption = Cardinality(InUse(Pending) \cup Delayed \cup {cs_0})

\* A set in use is freed by exactly one record, the last that uses it; cs_0 is
\* freed by none.
FreedByLastUser ==
  LET p == Pending
  IN  \A i \in 1 .. Len(p) :
        IF p[i].c = cs_0 THEN ~p[i].d
        ELSE p[i].d <=> \A j \in i + 1 .. Len(p) : p[j].c # p[i].c

\* A pending record's candidates are those that were stored for it, or all the
\* centres where the pool was short: no later set has taken their place at its
\* location, and the k that the record carries is their number.
CandidatesIntact ==
  LET p == Pending
  IN  \A i \in 1 .. Len(p) : /\ cs_pool[p[i].c] = p[i].cand
                            /\ p[i].k = Cardinality(p[i].cand)

\* #pragma ivdep array(cs_pool): no record of the second loop reads a location
\* that an earlier record of the same run of the loop has written.
PoolIvdep ==
  pc = "process" =>
    \A i \in 1 .. Len(chan1) : chan1[i] # Terminator => chan1[i].c \notin stored

height[u \in Nodes] ==
  IF Leaf(u) THEN 0
  ELSE 1 + (IF height[left[u]] > height[right[u]] THEN height[left[u]] ELSE height[right[u]])

\* The kernel never compares sp with STACK_SIZE.  What it may need: one entry,
\* and BatchSize more for every level of the tree.
StackFits == Len(stack) <= 1 + BatchSize * height[Root]

leaves[u \in Nodes] ==
  IF Leaf(u) THEN {u} ELSE leaves[left[u]] \cup leaves[right[u]]

\* Every leaf of the tree is either still to be reached by exactly one pending
\* record, or reported to filter1 exactly once.
LeafOnce ==
  LET p == Pending
  IN  \A l \in leaves[Root] :
        LET pending == {i \in 1 .. Len(p) : l \in leaves[p[i].u]}
            done    == {r \in reported : l \in leaves[r.u]}
        IN  Cardinality(pending) + Cardinality(done) = 1

\* What filter1 has summed up for a centre is everything that was reported for
\* it: the centroid and the distortion it writes are those of all its points.
AllSumsKept ==
  Finished =>
    \A z \in Centres : centroid_buffer[z] = {r.u : r \in {q \in reported : q.centre = z}}

\* No channel that filter0 both fills and drains blocks it: both kernels end.
Terminates == <>Finished

Candidates(r) == [u |-> r.u, cand |-> cs_pool[r.c]]

Traversal == INSTANCE FilterTraversal WITH
  todo <- LET p == Pending IN {Candidates(p[i]) : i \in 1 .. Len(p)}, assigned <- reported

\* The kernels carry out the traversal: stack, batches, shared and recycled
\* candidate sets and the fallback set change nothing of what is examined.
ImplementsTraversal == Traversal!TraversalSpec
=============================================================================
