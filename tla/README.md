# TLA+ verification of FPGA-shared-mem

The repository puts an FPGA accelerator and the ARM host of a Cyclone V SoC into one virtual
address space: soft-logic bridges in the device walk the host's page table and access its memory
through the ACP, a hardware lock server lets both sides make atomic accesses, and a k-means
clustering kernel (the filtering algorithm) uses all of it. This directory holds the TLA+ modules
that model it, the TLC configurations that check them, and TLAPS proofs about them.

Run from this directory: `tlc -config <run>.cfg <module>` for a run of the tables below, and
`tlapm <module>.tla` for the proofs. `PROJECT.json` says which lines of the source each definition
stands for, and lists the hazards with the properties that watch them.

## 1. The system

| Part | Source | State it keeps | Operations | Talks to |
|---|---|---|---|---|
| Lock server | `rtl_src/lock_server/lock_server.vhd` | two request registers (host, device), one lock status, an Avalon handshake state | latch a request, serve a request, return the status | host and bridges, as their Avalon-MM slave |
| Host lock library | `svm_utils/svm_utils.hpp:570-643` | the mapped CSR pointers | `init_svm`, `acquire_lock`, `release_lock`, `svm_atomic_store` | the lock server's CSR page; shared memory |
| Atomic-add bridge | `rtl_src/host_memory_bridge_aa_32bit.vhd` | a 13-state FSM, latched operand, descriptor, sum and fault flag | one locked read-modify-write with a page walk | kernel (ivalid/iready), lock server (port 1), memory (port 0) |
| 512-bit load/store bridge | `rtl_src/host_memory_bridge_512bit_rw.vhd` | an input FSM, a start register, two page-walk stages and a data stage joined by FIFOs, the units' caches, a data FIFO | a stream of translated bursts | kernel, memory |
| 32-bit load/store bridges | `rtl_src/host_memory_bridge_32bit_*.vhd` | the same stages, without serialisation | single translated loads and stores | kernel, memory |
| DDR bridge | `rtl_src/ddr_memory_bridge_32bit.v` | none of its own (wraps a vendor unit) | local loads and stores | kernel, device DDR |
| AXI cache security bridge | `rtl_src/axi_cache_secruity_bridge/*.v` | CSRs for the AXI cache, protection and user signals, shadow registers | CSR read and write, override of AXI sideband signals | host (CSR), AXI between the FPGA and the ACP |
| SVM driver | `svm_driver/svm_driver.c` | one global result `foo` | sysfs show (TTBR0), store (enable SMP, flush L1, flush TLB) | the host utilities |
| Host SVM utilities | `svm_utils.hpp:60-567` | mapped registers, open files | ACP enable, TTBR0, TLB, L1 and L2 flush, software table walk, page listing | driver, AXI bridge, page tables, `/proc` |
| Filter kernels | `examples/filtering_algorithm/device/*.cl` | traversal stack, pool of centre sets with its free list, channels 0-3, centroid buffer | batch of tree nodes: search, prune, push or report; accumulate | 512-bit bridge, each other by channels |
| Host application | `examples/filtering_algorithm/host/src/*` | kd-tree, buffers, OpenCL objects and events | read files, build tree, set up OpenCL, launch the two kernels, read results, clean up | kernels, utilities, OpenCL runtime |
| No-SVM variant | `examples/filtering_algorithm_no_svm/*` | the same, the tree in an array | the same, and a copy of the tree to the device | OpenCL runtime |
| OpenCL helpers | `examples/common/src/AOCLUtils/*` | none | find platform and device, load the binary, report errors | host programs |
| Build scripts | `scripts/*.py`, `*.tcl`, `*.sh` | none | rewrite generated RTL and Qsys files | - |

### What is hard

* **Lock service.** Three clock or instruction streams meet in the server. A client learns of
  its grant by polling, and acts on the answer many cycles later. Requests are single-slot
  registers that later writes overwrite, and that a served request leaves on the same edge as a
  write may arrive. A bridge writes its request once and never repeats it. A host program can die,
  and a kernel reset resets a bridge but not the server. Data and lock commands travel on
  different paths, so their order is not given.
* **Load bridge.** Three units of unknown latency with FIFOs between them that must stay in step,
  back-pressure that reaches only some of the writers, caches and a TLB that outlive the page table
  they were filled from.
* **Filter kernels.** A centre set is shared by the two children of a node and freed by the
  second, its location is reused in place while other records of the batch are in flight, sets of
  dead ends are returned through a non-blocking channel with unknown delay, and a nearly full
  pool switches the algorithm to a fallback set that must never be freed. One kernel both fills
  and drains channels 0, 1 and 2: a full channel would block it for ever.
* **Tree.** A recursion in which every call narrows one shared bounding box and permutes one shared
  index array in place, with signed and unsigned comparisons and a threshold that need not be among
  the points.
* **Host programs.** Commands in two queues complete on their own; the two kernels wait for each
  other; an event variable is overwritten; any call can fail and sends the program through `cleanup`.
* **Platform.** The port is set up by seven writes while transactions may be offered; shadow
  registers protect the values but not the selects; the driver's one result word is everybody's;
  a cache line is cleaned and invalidated by two commands.

### What makes each part correct

* Lock server: a request that leaves its register was carried out or replaced by its own side;
  the lock passes from one side to the other only through the free state.
* Lock clients: the host and the device are never in their critical sections together; a client
  in its critical section is backed by the server; stores and adds are atomic; every operation
  is answered.
* Load bridge: every request is answered once, in order, with the words its program has at the
  virtual addresses asked for.
* Page functions: the frames reported of pages that pagemap lists are theirs; no file but `/dev/mem` stays open.
* Filter kernels: no two live owners of one pool location, no location lost or freed twice, the
  heap counter tells the truth, the fallback set survives, no internal channel deadlock, every
  leaf is accounted for exactly once.
* Tree: splits leave both sides nonempty, boxes hold their points, sums are exact, no point is lost,
  no node is used after it was deleted, and both programs have the same tree.
* Host programs: a call finds what it works on whatever failed before, kernels start on written inputs,
  results are read only after the read that delivers them, cleanup leaves nothing but the leaves of the tree and what it has no name for, every run ends.
* Platform: a kernel's transactions are coherent once the port is set up; the sideband signals of a
  transaction do not change while it waits; a flush is not reported failed when nothing came between.

### Modules and runs

| Modules | Part | Runs |
|---|---|---|
| `LockServer`, `SvmLock`, `AtomicCell`, `LockServerProofs`, `SvmLockProofs` | lock service (section 2) | `lock_clients`, `lock_shared`, `host_barrier`, `wait_counter` |
| `FilterTraversal`, `FilterKernel`, `MCFilterKernel`, `FilterKernelProofs`, `FilterTraversalProofs` | filter kernels (3) | `filter_kernels`, `filter_accumulate` |
| `KdTree`, `ArrayTree`, `MCKdTree`, `KdTreeProofs` | the trees of both host programs (4) | `kdtree` |
| `HostCalls`, `SvmHost`, `NoSvmHost`, `HostRun`, `HostRunProofs` | both host programs and the OpenCL runtime (5) | `host_run`, `host_events` |
| `PageTable`, `HostPages`, `LoadPort`, `LoadBridge`, `SharedMemory`, `MCSharedMemory`, `SharedMemoryProofs` | 512-bit bridge, translation, page functions (6) | `shared_memory` |
| `AxiBridge`, `SvmDriver`, `Platform`, `MCPlatform`, `PlatformProofs` | AXI bridge, driver, platform functions (7) | `platform` |
| `L2Flush` | `flush_L2_cacheline` (7) | `l2_flush` |

`host_barrier`, `wait_counter`, `filter_accumulate`, `host_events` and `l2_flush` end in a violation:
they show where the code does not do what it says (section 8). All others hold.

Operators whose names extend a definition by a fault (`LockStatusRead_any_status`,
`BuildRight_keep_hi`) are plausible mistakes; no specification uses them. With one of them in place
of the definition, the property listed with it in `PROJECT.json` is violated, which shows that the
property depends on the code.

### What is proved

A `...Proofs` module holds theorems that `tlapm` proves for every value of the constants that the
named assumptions allow. Each section below ends with them: what is proved, by which inductive
invariant, from which assumptions. Every invariant of a run that holds is proved, and so are the safety
parts of the three refinements: initial states map to initial states, and each step to a step or a
stutter. TLC has checked every inductive invariant on the instance of the runs, except those of the trees
and of the host programs: they say that numbers, boxes or chains of calls exist which are no variables of
the model, and TLC cannot enumerate those. TLC has checked what follows from them.

Left to TLC: every liveness property, with the fairness it needs (`AddAnswered`, `StoreAnswered`, both
`Terminates`, the fair halves of `ImplementsTraversal` and `ImplementsLoads`).

## 2. The lock service

### Modules

| Module | Models |
|---|---|
| `LockServer` | `lock_server.vhd`: a state machine of its own, with any bus traffic of any masters |
| `SvmLock` | host programs, atomic-add bridges, the server (EXTENDS `LockServer`), posted writes and the shared word |
| `AtomicCell` | the abstract specification: a word with atomic stores and adds |
| `LockServerProofs`, `SvmLockProofs` | the theorems |

**Server.** The four VHDL processes are clocked by one edge, so `ClockEdge` is the conjunction of
`slave_response_proc`, `read_request_proc` and `serve_request_proc`, each reading the state before
the edge as the VHDL signals do. `request_serviced`, `csr_waitrequest` and `csr_readdata` are the
concurrent assignments of those names. `bus` is the command the interconnect holds on the slave.

**Clients.** `pc` is a host's position in the functions of `svm_utils.hpp`, or the bridge's FSM
state. `LockCommand` is the command a client asserts in a state: the bridge's outputs to port 1, and
the `str` and `ldr` instructions of the host. `Clock` is one edge of the server together with what
the interconnect does on it: it lets the client whose command was accepted go on, and routes
readdatavalid to the client that read. All other actions are one host instruction or one
transition of `fsm_proc`.

| Action | Code |
|---|---|
| `HostStart`, command of `init` | `init_svm` |
| `CallAtomicStore`, commands of `acq_write` and `acq_read`, `AcquirePolled` | `acquire_lock` from `svm_atomic_store` |
| `StoreData` | `*addr = data` |
| commands of `rel_read` and `rel_write`, `ReleasePolled` | `release_lock` |
| `HostExit` | a program that ends or is killed between two instructions |
| `AcceptAdd`, `LockStatusRead`, `MemoryReadAccepted`, `DescriptorRead`, `DataRead`, `DataWritten`, `ResultTaken` | the branches of `fsm_proc` |
| `KernelReset` | `resetn` of the bridge; the server is reset only by the global reset (`iface.tcl`) |
| `Land` | a posted write reaches memory |

### Abstractions

* One shared word of `Modulus` values. The page walk is its control only: a descriptor leads on or is
  a page fault. Clients of different words would exclude each other all the same.
* The clock crossing between a bridge and the server keeps commands in order; it is collapsed, and a
  master goes on when the server accepts its command. A real bridge goes on when its crossing
  accepts, at most a few commands earlier, and its next command queues behind.
* Whether a data write may land after the lock release is a parameter: the clients in `Delayed`.
  With `Delayed = {}` the platform orders the two; the code does nothing to ensure it.
* The uninitialised counter of `acquire_lock` is an arbitrary choice between zero and not zero.
* `KernelReset` and `HostExit` happen only when no lock command or answer of the client is in
  flight. A reset in `s_done` does what `ResultTaken` does and is not listed again.
* The server's reset is its initial state only; `lock_status_reg` is never read and left out.

### Properties

* `OneServicePerCycle`: `request_serviced` is never high for both registers. If it were, one
  request would be dropped. Nothing in the VHDL says so explicitly; it follows from the two-cycle
  handshake.
* `NoRequestLost`: a request that leaves its register was carried out.
* `HandoverThroughFree`: the status changes owner only through the free state, on the owner's release.
* `MutualExclusion`, `CriticalIsGranted`: critical sections exclude each other and are backed by
  the server.
* `AddIsFresh`: the sum the bridge writes, or has posted, is made from what memory holds.
* `ImplementsAtomicCell`: `SvmLock` refines `AtomicCell`, each operation taking effect at its data
  write.
* `AddAnswered`, `StoreAnswered`: every operation is answered, unless the lock stays for ever with a
  side none of whose clients is using or returning it (`Leaked`: a killed program, a program that
  left `svm_atomic_store` early, a reset bridge), and for the host unless resets never end.
* `ReturnsWithoutLock`: a running program outside `svm_atomic_store` does not have the lock.

### Runs

| Run | Constants | Result |
|---|---|---|
| `lock_clients` | one host, one bridge, no delay, `Modulus` 3, fairness | holds |
| `lock_shared` | two hosts, two bridges, one of them delayed, `Modulus` 1 | holds |
| `host_barrier` | `Delayed = {h1}` | `AddIsFresh` violated |
| `wait_counter` | one host, one bridge | `ReturnsWithoutLock` violated |

The model needs no state bound: every counter is a value modulo `Modulus`. Three values tell a store
from an add and a lost update from a kept one; `lock_shared` asks nothing of the data and takes one
value. Two clients per side are enough to overwrite each other's requests. What `lock_clients` shows
of exclusion without delayed writes is proved for any. Its limits are real: with `Delayed = {b1}` TLC
refutes `AddIsFresh` (the bridge never looks at `avm_port0_writeack`, and its write and its release pass
different clock crossings), and with two bridges it refutes `MutualExclusion` (the server has one
device register and one device status, although `svm_system.tcl` connects any number of bridges).

**Fairness** (`lock_clients`). The server's clock runs (weak fairness of `Clock`); CPU instructions
and FSM transitions go on when they can (weak, per client); a posted write lands (weak). The
interconnect's arbiter gives equal shares to the two connections of the server's slave port
(`arbitrationPriority {1}` in `iface.tcl`), so a client that asks again and again is granted:
strong fairness of `Arbitrate`. Strong fairness matters because a polling client withdraws its
command between two reads. Nothing is assumed of program starts, exits, calls, kernel pushes and resets.
That the device is served first in `serve_request_proc` does not starve the host: the bridge has to
write its next request over the same slave port, and the host's waiting request is served on an
edge before that.

### Proofs

`LockServerProofs` is about the server under any traffic, for every set of masters. Served releases
are the crux: a release that can be served is served on the edge after it is written
(`ReleaseIsFresh`), because that is an accept cycle, in which no write is latched. So when the
status becomes free no write arrives, at most one register holds an acquire by the time the status is
free (`OneAcquirePerGrant`), and the two service signals exclude each other. `ServerInv` collects
the inductive parts. `ServerOneServicePerCycle` and `ServerLosesNoRequest` follow, and
`ServerHandsOverFree`: on an edge that changes the status from one side's, only the release of that
side can be served, since an acquire is not served while somebody has the lock.

`SvmLockProofs` first shows that the composition only uses the server within `ServerSpec`
(`SvmLockImplementsServer`), for any number of clients, so that the server's theorems carry over
(`SvmLockLosesNoRequest`, `SvmLockHandsOverFree`). For one client per side, the invariant `IInv` says that the bus and the
outstanding read match the control state of their client (`BusMatches`, `ReadMatches`), that from
the moment a client's acquire is in its register no release is in it (`Asked`), and that from the
moment an answer with its own status is on its way the status keeps naming its side (`Granted`).
`MutualExclusion` and `CriticalIsGranted` follow; neither is inductive, since neither knows of
answers in flight or of stale releases. The only assumptions are the named ones on the constants,
and `OneClientPerSide`, stated as a hypothesis; with two bridges `MutualExclusion` is false.

The second part of `SvmLockProofs` is about the word behind the lock, under a second hypothesis, `WritesInOrder`: no
client's data write is delayed behind its release. Without it both results are false, as
`host_barrier` shows. `CellInv` adds to `IInv` that the sum a bridge is about to write is that of the
word as it is (the critical sections exclude each other, and only they write), and that a bridge at work
has no page fault left over from an earlier operation. `AddsAreFresh` follows, and with it the
refinement (`StoresAndAddsAreAtomic`): a data write is the abstract store or add, all other
steps call, return, fail, abort or do nothing to the word.

Only model-checked: both liveness properties.

## 3. The filter kernels

### Modules

| Module | Models |
|---|---|
| `FilterTraversal` | the abstract specification: nodes to examine, each with its candidate centres, and subtrees assigned to a centre; no stack, pool, batch or channel |
| `FilterKernel` | `filter0` and `filter1` of `filter_stream_opt1.cl`, the allocator of `dyn_mem_alloc.cl`, channels 0 to 3 |
| `MCFilterKernel` | two small trees |
| `FilterKernelProofs`, `FilterTraversalProofs` | the theorems |

The kernels are the same in the no-SVM variant, which differs in how a node is read. That trees are as
assumed here, with either two children or none, is what `KdTree` shows.

| State | Code |
|---|---|
| `flist`, `next_free_location`, `heap_consumption`, `cs_pool` | the variables of those names; a location of `cs_pool` holds the set of candidates stored there |
| `stack`, `read_counter` | `stack` with `sp`; the top is the last element |
| `chan0` to `chan3` | the channels, bounded by their depths; the terminator is the record with `ctrl = 0` |
| `pc` | which of the three loops of `filter0` runs |
| `centroid_buffer`, `finished1` | `filter1` |
| `reported`, `stored` | history: the dead ends reported, and what the current run of the second loop wrote to the pool |
| `cand` of a record | history: the candidates that were stored for the record, which in the code only the pool has |

| Action | Code |
|---|---|
| `PushEntry`, `PushTerminator` | one iteration of the `do` loop over `r_sp` |
| `Search` | the iterations of the first `for` loop for one record |
| `Process` | the iterations of the second for one record: the read of channel 2, the fused free and malloc, the heap counter, pruning into the new set, and the push of the children or the report of a dead end |
| `ProcessTerminator` | the same for the terminating record |
| `Accumulate` | one iteration of `filter1` |

### Abstractions

* Geometry is a choice: any candidate may be the closest, and any candidates but the closest may be
  pruned. `tooFar` of a centre and itself compares zero with zero, so the closest is never pruned.
* A record's iterations over its candidates are one step, and the memories are sequentially
  consistent. The hardware overlaps iterations where `ivdep` allows it. For `cs_pool` the overlap is
  harmless, because no record reads what an earlier one wrote (`PoolIvdep`), nor does one record's
  new set destroy what it still reads of its own: survivors are written behind the read position. For
  `freelist` the pragma is wrong with batches of three and more: a record that frees a set while the pool
  is short writes a link (`dyn_mem_alloc.cl:43-47`) that a later record of the same loop follows
  (`:52-53`). What the overlap would do depends on the pipeline that the compiler makes, and is not modelled.
* The non-blocking read of channel 2 may find nothing although a set was sent.
* Records carry node addresses, since the bridge's answer is the node itself; centres have no
  width, and the centroid buffer starts with no sums.

### Properties

* `PoolPartition`: every pool location is in exactly one place: free, waiting in channel 2, used by a
  pending record, the set of all centres, or location 0, which is never handed out. It excludes
  use after free, double free and leaks.
* `HeapAccounted`: `heap_consumption` is the number of locations not free. The code keeps it by case
  analysis over two flags, in step with an allocator that never looks at it.
* `FreedByLastUser`: of the pending records that share a set, exactly the last to be processed frees
  it; nobody frees the set of all centres.
* `CandidatesIntact`: the set a pending record refers to is still the one that was stored for it, candidate
  for candidate, and as large as the record says.
* `PoolIvdep`: what the first pragma before the second loop asserts.
* `LeafOnce`: every leaf lies under exactly one pending record or one report.
* `StackFits`: the stack needs one entry and `BatchSize` more per level of the tree. With
  `STACK_SIZE` 1024 and `BATCH_SIZE` 128 that covers trees of height 7; the kernel has no check for
  deeper ones, and the model grows the stack without a limit.
* `ImplementsTraversal`: the kernels refine `FilterTraversal` and keep its fairness.
* `Terminates`: both kernels end.
* `AllSumsKept`: what `filter1` holds for a centre is everything reported for it.

### Runs

| Run | Constants | Result |
|---|---|---|
| `filter_kernels` | tree of 9 nodes and height 3, 3 centres, pool 7, batch 3, fairness (302,556 states) | holds |
| `filter_accumulate` | complete tree of 7 nodes, 2 centres, pool 7, batch 2 | `AllSumsKept` violated |

A pool of 7 is nearly full (`PoolSize - 4`) with three sets in use, so that traversals switch to
the set of all centres and back in the middle of a batch. The tree is complete to height two and goes
one level further on the left. A batch of three takes children of two nodes and splits a pair of
siblings, and the next one mixes nodes of different depth; a batch of two would only ever hold one
pair. Three centres allow pruning to two, which is neither
everything nor a dead end. No bound is added to the code's own: the tree is finite.

**Fairness.** Both kernels are hardware that runs when its channels allow:
weak fairness of `filter0Next` and of `Accumulate`. That channel 2 ever delivers is not assumed.

### Proofs

All invariants above are theorems, for every tree, pool, batch size and set of centres.

`FilterKernelProofs` is about the pool. Seen from the second loop the batch and the stack behind it are one
sequence, `Pending`: the moves through channels 0 and 1 do not change it, and `Process` takes its first
record and puts the children in the middle. `KernelInv` says what the channels hold in each loop
(`BatchShape`); that the free list is a chain without cycles through exactly the locations that no
pending record uses and that do not wait in channel 2 or hold the set of all centres, and that the heap
counter is the number of those taken (`Accounts`); that a set waits in channel 2 at most once, and
nobody uses it then (`ReturnedOnce`); and `FreedByLastUser`, `CandidatesIntact` and `PoolIvdep` as they
are. None of these is inductive alone: that a location handed out is fresh needs the chain, that the
chain stays one needs that nothing is freed twice, and that needs the last-user flags. `PoolPartition`
and `HeapAccounted` follow, since a list whose links form such a chain has one reading only.

`FilterTraversalProofs` is about the tree. The subtrees of two children have no node in common, so each
leaf is below exactly one pending or reported record (`Traced`, hence `LeavesReachedOnce`), and no two
records hold the same node. Then each step of the kernels is one of `FilterTraversal` or a stutter
(`KernelsTraverse`, the safety part of `ImplementsTraversal`).

Its last part proves `StackFits`. A level is given to each entry of the stack, at least the height
of its node and the same for all entries that one batch pushes, so that levels fall towards the
top. A batch takes `BatchSize` entries away or empties the stack, so that of a level above others
at most `BatchSize` entries are left.

Assumptions: `FilterAssumption` (nodes have two children or none, centres are finite and there is one, the
pool has more than four locations, as the source's threshold needs), `TreeAssumption` (children are
distinct, a node has one parent, and what holds of a node whenever it holds of its children holds of
all, which is what building from the leaves upwards gives), `TerminatorAssumption` (the record
with `ctrl = 0` is no record of a node). `KdTree` satisfies the first two, and TLC evaluates all of them. There
are no proofs by induction over a recursive definition: the leaves and the heights of subtrees, which the
model defines as recursive functions, are shown to exist as least relations, to which
the third part of `TreeAssumption` applies. `Terminates` is only model-checked, as is everything about
fairness.

## 4. The trees

### Modules

| Module | Models |
|---|---|
| `KdTree` | `read_data_points`, `compute_bounding_box`, `split_bounding_box`, `buildkdTree` and `deletekdTree` of the SVM program |
| `ArrayTree` | the same calls of the no-SVM program, which stores nodes as vectors in `tree_memory`; both run side by side on one file |
| `MCKdTree` | the coordinates |
| `KdTreeProofs` | the theorems |

The recursion is a stack `calls` of activation records with a position each: `Leaf`, `BuildLeft`,
`BuildRight` and `Join` are what a call does between two recursive calls, on the box (`bnd_lo`,
`bnd_hi`) and the array (`index_arr`) that all calls share. `split_bounding_box` is translated with
its two passes of Wirth's method, the clamped threshold, division that rounds towards zero, and
the lowest position at which `r` reads. `deletekdTree` keeps the subtrees still to be deleted in
`doomed`, in the order of the recursion. A file may be missing or short. The two programs use their
own copies of the same helpers; `ArrayTree` reuses the model of the one for the other, and models what
differs: the words of a node (`kdTree_t_2_vector` and back), the place at which it is
stored, and a parent that reads its children back. Integers are unbounded: the
overflow of `sum_sq` for large coordinates is not modelled.

### Properties

* `SplitSound`: both sides of a split are nonempty, it reads nothing outside its range, and the cut
  separates the points. `r >= br1` compares a signed with an unsigned number, and is true for `r = -1`.
* `BoxesHold`: the box stored in a node, by which the kernel prunes, contains every point below it.
* `SumsExact`: count, weighted centroid and sum of squares of a node are those of the points below it.
* `PointsKept`: in every state each point is in exactly one leaf or one range still to be built.
* `DeletedOnce`: no node is examined after it was deleted, or deleted twice.
* `SameTree`: the array holds the same tree under the same addresses, within its `2N` places, and the
  pointer that main hands to the kernel is the root.

### Run

`kdtree` (157,468 states) takes every file of four points in two dimensions with coordinates -2, 0 and 1,
and missing and short files. Four points are the least for which a side of a split is split again and
may be permuted twice; with three coordinates points coincide, lie on the cut, and have a middle that is
negative and rounds. Two dimensions let the longest edge change from call to call. Nothing waits, so no
fairness is stated.

### Proofs

`KdTreeProofs` proves all the invariants above, for every number of points and dimensions, every set of
coordinates and every data file. The only assumption is `KdTreeAssumption`: there are a point and a
dimension, and coordinates are integers.

* A pass of a split (`PassSorts`). `Pass` is a recursive function on the states of the loop. It has a
  value because `l` moves up (`LoopComputes`), and by the same measure what a turn keeps holds where the
  loop ends: the range is rearranged, what lies below `l` may stay on the left, what lies above `r` on the
  right. The second pass leaves alone what the first has arranged. With the clamped threshold the
  case distinction of `n_lo` gives at least one point to either side (`SplitIs`, hence `KdSplitSound`),
  and the unsigned comparison does no harm, since a point that is not above the threshold stops `r`.
* The calls (`CallsOK`): each call's range lies in the part for which the calls around it wait.
* The heap (`TreeOK`, `Heights`). A call on n points makes 2n - 1 nodes in postorder, so that the number
  of nodes there were when a call began says where its children are: the right child of a node is the
  node before it, the left child the one before the nodes of the right subtree. This bounds the heap
  (`KdTypeOK`) and makes a subtree an interval of addresses.
* The deletion (`DoomedOK`): the subtrees still to delete are intervals one behind the other, and the inner
  nodes outside them are gone. `KdDeletedOnce` follows.
* The boxes (`BoxInv`). Each call has a box of its own, which is the shared one while the call is the
  innermost, narrowed at its cut for the part it waits for; the range of the call and the leaves
  made since it began lie in that box. While the left part is built, the points of the right
  one lie above the cut, which is what makes the upper box right when `BuildRight` sets it. The stored
  `lv` and `hv` are what restores the caller's box. `KdBoxesHold` follows.
* The points (`KeptInv`): for every point, as many data are equal to it as leaves and positions still to be
  built together. A split maps the positions of its range one to one onto themselves. `KdPointsKept`.
* The sums (`SumsOK`): those of a node are those of its children. That they are the sums over the leaves
  needs that a fold over a finite set does not depend on the order (`SumExists`, `FoldIsSum`) and that
  the leaves of two children are disjoint. `KdSumsExact`.
* The array (`ArrayOK`): the words of a node read back as the node (`RoundTrip`), for every number of
  dimensions. `ArraySameTree`, and `ArrayTreeIsKdTree`: the program with the array takes the steps of the
  other, so that the other theorems hold of it as well.

`TypeOK`, `BoxesHold` and the rest are far from inductive: none knows where the nodes of an unfinished
call begin, or what box a call will go back to. Induction over the recursion is not needed: an interval
of addresses takes the place of a subtree, and where a minimum is needed (a loop, a fold, the leaves below
a node) the proof takes the least counterexample.

## 5. The host programs

### Modules

| Module | Models |
|---|---|
| `HostCalls` | the calls that programs are made of, and the helpers of AOCLUtils, each as a sequence of calls |
| `SvmHost`, `NoSvmHost` | `main`, `run` and `cleanup` of the two programs, as sequences of calls |
| `HostRun` | a program's run, its objects, events and memory, the two in-order queues and the kernels |
| `HostRunProofs` | the theorems |

A program is straight-line code but for its error exits, so it is a sequence of calls. Each says what
it creates or needs and what its failure does: `checkError` runs `cleanup` and exits, a
function returns false and `main` returns -1, the option parser exits, or nobody looks. What depends on the
environment (a nameless option, a short file of centres, which platform is found, which binary
exists and is readable, whether the driver is loaded) is a choice made at the start, `Settings`. `HostRun`
executes one call per step; `Fail` is every failure at every call. Meanwhile the
runtime starts a command when its queue has finished what precedes it and the events it waits for are
complete, and completes it any time later. `filter1` ends after `filter0` has sent its last record;
`filter0` can send all its records only while `filter1` runs, unless they fit in the channel (`fits`).

### Properties

* `CallsLegal`: whatever failed, a call's objects exist, a waited-for event was set and not released,
  and profiling times are asked for when the command has ended.
* `InputsWritten`: `filter0` runs on completely written inputs, in both programs, although no write blocks.
* `ResultsReady`: the centres and distortions that are printed have been read.
* `NoUseAfterFree`: in a run without failures `cleanup` frees nothing that a kernel or a transfer still
  uses, except what `host_events` shows. After a failure it may: the tree is freed under a running kernel.
* `CleanedUp`: no object of OpenCL and no memory survives the program, but for what it has no
  name for and, in the SVM program, the leaves of the tree: `deletekdTree` frees inner nodes only
  (`main.cpp:426-428`, `build_kdTree.cpp:105-118`, and `DeletedOnce` in section 4), so that `Svm_cleanup`
  releases `root`, the inner nodes, and never `leaves`; a run without failure leaves them allocated. Where
  `main` returns without `cleanup` there is nothing to clean up.
* `Terminates`: every run ends; the kernels are in different queues and do not wait for each other
  for ever.
* `AllDevicesFinished`: what the comment at the waits says (violated).

### Runs

`host_run` (46,230 states) runs both programs with two platforms, so that the search over platforms takes
its three outcomes; `host_events` the SVM program. Programs end, so deadlock is not checked; `Terminates`
says instead that nothing else stops them. **Fairness:** the host's thread is scheduled (`WF_vars(Host)`),
and runtime and device get on with some command that can go on (`WF_vars(Runtime)`); there are at most
eight commands of three steps each, so this starves none. Nothing is assumed of failures. The programs
are finite, and no bound is added.

### Proofs

All six invariants are theorems, for both programs, any number of platforms, every setting and every
failure. None is inductive: that a call finds its objects depends on all the calls before it.

What a program knows when it makes a call is a record (`Knowledge`): what there is for certain, what
there may be, the command of each event variable, how many commands were handed over, and which have
ended. What is certain and what may be are two sets, since nobody looks whether memory was there, and `cleanup`
releases what may not be there.
`Legal` says that a call finds what it works on, that its failure comes where `cleanup` releases
all that there may be, that a release takes nothing from a command at work, and that an enqueued
command is the next of the program's `Plan`. `After` says what is known after a call. `Leads(b, k, q, m)`: if `k` is
known, the calls `q` of program `b` are all legal, one after the other, and `m` is known after them. Chains are
composed as the code is: a rule for each kind of call, for calls one after the other, for
a call on each of several things (`Each`, `Repeat`), for each helper of AOCLUtils, for `init_opencl` and for
each part of `run`, up to `main` (`LeadsSvm`, `LeadsNoSvm`).

`HostInv` then says: while nothing has failed, what is known is so (`Matches`) and leads through the calls still
to make to an end at which the leaves of the SVM program and otherwise only arrays and a file are left (`Final`, `GoesOn`); after a failure, the calls to make are
releases that cover all that is held but `Leftover` (`CleansUp`); the commands are a prefix of the plan,
and a command is past "queued" only when those before it in its queue are complete (`QueuesInOrder`). The last
is what turns one wait into several ended commands (`EndedWith`): `read_centers` is complete when the event of
`read_distortion` is. `InputsWritten` follows from it alone, since the plans have the writes before
`filter0` in one queue.

Assumptions: `BuildsAssumption` and those of `HostCalls`; TLC evaluates them. Lists are
followed element by element with `UpTo`, which rests on the least element of a finite set of integers.
`Terminates` is only model-checked.

## 6. Shared memory

### Modules

| Module | Models |
|---|---|
| `PageTable` | the two-level tables and the address computations of the walk, shared by library and bridges |
| `HostPages` | `display_memory_layout`, `lookup_physical_address` and `manual_table_walk` |
| `LoadPort` | the abstract specification: requests answered in order with the words of the program |
| `LoadBridge` | `host_memory_bridge_512bit_rw.vhd` in the direction the kernels use, loads |
| `SharedMemory` | a program that looks at its pages and starts a kernel, and other programs after it |
| `MCSharedMemory` | two layouts, of four and of three pages, their tables, and the pages that pagemap lists |
| `SharedMemoryProofs` | the theorems |

`LoadBridge` has one action for each stage in which a word moves: `s_idle` takes a request, `s_input`
gives its words one by one to the first load unit and the delay FIFO, `read_pt_level1` passes a level-0
descriptor on to the second unit, `rw` a level-1 descriptor to the third, `shreg_proc` collects the words of an
answer and pushes it to the data FIFO, `rdreq_readdata` hands it to the kernel. Guards are the
stalls that the code wires up, and only those: a push into a full FIFO loses the word
(`Pushed`), because the second delay FIFO's `full` is open and the data FIFO stalls its unit at `almost_full`
only. The load units (`lsu_top`) are vendor IP; external here, a unit is an in-order queue of bounded
capacity with a cache that keeps everything it has read until it is flushed. `start_proc` is the register that
flushes them with the first two offers of a request after a reset. `Restart` ends a
program when nothing is on its way and starts another, with other tables, pages and data in the same
frames; a program that has ended while it looked at its pages is followed by another, too.

`HostPages` follows the page functions to every exit. `OpenFiles`, `ReadLine`, `ReadPage`, `Show` and `CloseFiles` are
`display_memory_layout`, `LookUp` is `lookup_physical_address`, and `Walk` is `manual_table_walk`, which may print
what `lookup_physical_address` has, too. What a page's entry in pagemap is depends on the page: the
tables translate it, and pagemap has its frame (`Listed`); or pagemap has something else (`Unlisted`), since the
page is absent, swapped or, as the comment at `svm_utils.hpp:104` says, mmap'ed. The code does not test the
present bit (`:148`, `:556`) and reports frame 0 or the bits of the swap entry. Beyond the end of pagemap
`read` returns 0, which is not taken for an error, and the variable keeps what it had (`Garbage`). `Walk` opens
`/dev/mem` for each of two tables and closes neither (`:79`); where that fails the program ends (`exited`).

### Properties

* `ImplementsLoads`: the bridge refines `LoadPort`, with liveness. The refinement mapping takes the words
  at a program's addresses from its own layout, not from the tables: the walk, the pairing of
  addresses with descriptors, stale caches, lost words and order are all in question.
* `PagesReported`: the first and the last frame printed for a region, where pagemap lists the page, and the
  physical address of a listed page, unless it is 0, are those of the program, although reads fail and loops are
  left by `goto` and `continue` and variables keep what an earlier region left. A walk of the tables finds every
  address that they translate. `maps` and `pagemap` are closed whenever the functions are left. The property says
  nothing of what is printed for other pages and for empty regions, which is not what memory has, and
  `/dev/mem` does stay open.

### Run

`shared_memory` (709,402 states): tables of two entries, pages of two words, requests of two words at 1 and 3,
so that both cross the end of a page and one of them the end of a table. The two layouts share frames and swap the
tables, so that a descriptor or a word of the last program would be noticed. Delay FIFOs are 2 deep
with units of 3, 1 and 2 words, and the data FIFO has 2 places and is almost full at 1: every stall happens. The
second unit holds no more words than the delay FIFO (`CapacityAssumption`, which the code needs and does
not ensure); `MaxPending` 4 requests fill the pipeline. Deadlock is checked. **Fairness:** the clocked stages go on
(weak fairness of their disjunction) and the kernel takes offered answers (weak, `Reply`), which is
what the valid/stall handshake of the compiler's units does. Nothing is assumed of requests or programs.

### Proofs

`PagesAreReported` proves `PagesReported`, for every layout, every choice of the pages that pagemap lists, every
content of `maps` and every failure of a file. The
invariant `PagesInv` relates the place in the functions to what was read so far (`Inspected`): in the loop
over a region of the program the frame of the first page is held from the second iteration on, and when the
region is shown that of the last page too, if pagemap lists them, although both variables keep what an earlier region left.

`BridgeInvariant` and `LoadsAreKept` are about the bridge. Number the words of the requests on their way.
`BridgeInv` says that the three units together hold consecutive words, from the one that the data
register waits for to the one that the first unit takes next (`Road`); that each delay FIFO is as long as
the results of its unit, and each result is that of the address beside it (`Carried`); that no
FIFO loses a word (`Room`); that what is complete or in the data register is what the program has there
(`Collected`); and that once the first request of a program is under way, which flushes the units, all that their
caches keep agrees with memory (`Fresh`). The refinement needs all of them: an answer is right because its words were next
in the road, and the road is not broken because no FIFO is out of step.
`LoadsAreKept` is the safety part of `ImplementsLoads`; that every request is answered stays with TLC.

Assumptions: `CapacityAssumption` (a unit holds no more than the delay FIFO beside it, and the data FIFO
stalls its unit before it is full: the FIFO of 512 bits is almost full at 14 of 16); `LayoutAssumption`
(the operating system's tables lead from each virtual address in the program's pages to a word of its own, and are
not in its pages), `RequestsAssumption` (requests lie in memory that every program has) and
`PagemapAssumption` (frames are aligned, and pagemap has room for their numbers below its flags).

## 7. The platform

### Modules

| Module | Models |
|---|---|
| `AxiBridge` | `axi_cache_security_bridge.v`: registers, shadow registers, multiplexers, one step per clock; the bus external |
| `SvmDriver` | `svm_driver.c`: load, unload, show and the three commands |
| `Platform` | `enable_f2h_acp`, `get_ttbr0`, `flush_TLB`, `flush_L1_cacheline`, of a program that runs kernels and of tools |
| `MCPlatform` | one program and one tool |
| `L2Flush` | `flush_L2_cacheline` and others that write to the line |
| `PlatformProofs` | the theorems |

`Cycle` is a clock edge of the bridge, with or without a write of a register by software. A master holds an
offered transaction until it is accepted, and offers one only while a kernel runs. `enable_f2h_acp` is a command to the
driver and seven writes (`AcpWrites`), between which the clock and other programs run. Opening the device
resets the bridge, since it configures the FPGA.

### Properties

* `StableWhileValid`: the signals of a waiting transaction do not change, although software writes registers
  meanwhile. Only the values are shadowed; the selects are not, and hold because software writes the
  select register only with 0.
* `AcpTransactions`: after an enable went through, transactions carry the coherent values until somebody
  begins to switch the port off. A program whose enable returned early, without the driver, runs its kernel
  all the same (`get_ttbr0` then gives 0); the property says nothing of it.
* `FlushReported`: "Flush failed" appears only if another command or a reload of the driver came in between.
* `WrittenBeforeInvalidated` (`l2_flush`): what the comment at `flush_L2_cacheline` says (violated).

### Run

`platform` (697,293 states) has one program at a time on the device, as the runtime allows, and one tool
that switches the port at most `MaxSwitches` = 2 times: once off and once on again between any two steps
of the other. Masters drive other values than the coherent ones, so that a wrong select would show. The
properties are safety properties, no fairness is stated. `l2_flush` allows `MaxWrites` = 3 writes.

### Proofs

`PlatformProofs` proves all three properties that hold, for any sets of main programs and tools, any
number of switches, and whatever the masters drive. The only assumption is `PlatformAssumption`,
that the mark for nobody is no program. `PlatformInv` has four parts beside the types. `DeviceHeld`: only
the program that has the device runs kernels, and without a kernel nothing is on the bus. `PortArmed`:
register 7 is 0, since all callers write 0 there, so that a signal is always its shadow register;
while a program arms the port nobody is switching it off, and the registers it has written so far hold
(`Written`); once armed, the registers and the shadow registers of both channels have the coherent
values. `FlushHeld`: the driver's word is that of the last flush until another command. The
crux of `CoherentOnceArmed` is the seventh write: no kernel runs yet, so no transaction freezes
the shadow registers, and the cycle that follows copies the six values at once.
`SignalsStable` needs of the invariant only that register 7 is 0, and that nothing waits on the bus when the
device is opened and the bridge reset.

## 8. Disagreements between code and documentation

1. `host_barrier`. `svm_atomic_store` has no barrier between the store and the release, and its asm
   has no memory clobber. The store goes to cacheable memory, the release to a device register.
2. `wait_counter`. `wait_cycles` is initialised in C++, but the asm takes it as an output-only
   operand.
3. `filter_accumulate`. The additions in `filter1` are commented out. The new centres and distortions
   are those of one subtree per centre, not of all its points.
4. `host_events`. Four reads store their events in one variable, so that "Wait for all devices to
   finish" waits for the last and the kernels only; the number of visited nodes and the profiling data are printed
   while their reads may be in flight.
5. `l2_flush`. The line is cleaned and invalidated by two commands. What is written in between is lost,
   although the comment says that the contents are written to memory before the line is invalidated.

## 9. Plan

What is left, in this order; each step leaves what precedes it unchanged.

1. `PruneMath`: `compute_distance`, `find_closest` and `tooFar`, with their shifts and widths, against exact
   arithmetic on small boxes; the choice in `Process` covers any outcome that keeps the closest centre.
2. The 32-bit bridges, on the stages of `LoadBridge`, with stores.

Liveness stays with TLC.

## 10. Not modelled

* 32-bit bridges: the stages of the 512-bit one, unused by the examples; what a store or a stall does there
  depends on the latency of vendor units. Stores of the 512-bit bridge (`READ = 0`): never instantiated.
  A reset with words in flight, after which the delay FIFOs, which have no reset, are out of step.
* Vendor IP (`lsu_top`, FIFO cores, clock crossings, the OpenCL runtime): not in the repository; modelled
  as external where the source uses it.
* `ddr_memory_bridge_32bit.v` and `buswidth_adaption.vhd`: wiring without control.
* The geometry of the kernels and their 8-bit and fixed-point arithmetic; integer overflow of the tree's sums.
* The no-SVM kernels, which differ from the modelled ones in how a node is read, and the build with
  `SHARED_PHYSICAL_MEMORY`.
* `basic.cpp`, `cmdparser.cpp`, `oclobject.cpp` and their headers: compiled by neither Makefile and called by
  nobody. `display_device_info` is never called; the formatting of `printError` changes nothing.
* Events that are overwritten are never released; the model keeps no count of references.
* Build scripts and `.tcl` files: text rewriting and structure. The connections they
  make are reflected in `SvmLock`.
* Kernel-side headers and emulation stubs, data files.
