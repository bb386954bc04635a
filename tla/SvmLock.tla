------------------------------ MODULE SvmLock -------------------------------
(***************************************************************************)
(* The host-device lock service in use: host programs that call init_svm   *)
(* and svm_atomic_store (svm_utils.hpp), device bridges that perform       *)
(* atomic adds (host_memory_bridge_aa_32bit.vhd), the lock server between  *)
(* them, and one shared word of memory at the address they all name.       *)
(*                                                                         *)
(* Hosts and bridges are independent: the CPU, the kernel clock domain and *)
(* the lock server's clock domain interleave step by step.  Two links are  *)
(* external and modelled by what the code relies on.  Lock commands travel *)
(* in order per master and one at a time over the server's slave port, and *)
(* a master goes on when its command is accepted.  Data writes are posted: *)
(* for a client in Delayed, nothing orders its data write before the lock  *)
(* release that follows it, because the host issues no barrier and the     *)
(* bridge does not wait for avm_port0_writeack.  With Delayed = {} the     *)
(* platform is assumed to order them.                                      *)
(***************************************************************************)
EXTENDS LockServer

CONSTANTS
  Hosts,        \* host programs (or threads) that use the SVM library
  Bridges,      \* instances of the atomic-add bridge in the device
  Delayed,      \* clients whose data writes may land after their release
  Modulus,      \* 2^32 in the hardware: the width of the shared word
  None          \* no value, no client

Clients == Hosts \cup Bridges

Word == 0 .. Modulus - 1

ASSUME SvmLockAssumption ==
  /\ Masters = Clients
  /\ Hosts \cap Bridges = {}
  /\ Delayed \subseteq Clients
  /\ Modulus \in Nat \ {0}
  /\ None \notin Clients \cup Nat

VARIABLES
  reader,      \* the client whose read returns with the next readdatavalid
  readdata,    \* [Clients -> a status on its way back to the client, or None]
  pc,          \* [Clients -> the instruction or the FSM state]
  operand,     \* [Clients -> data to store, or increment_reg]
  recv_data,   \* [Bridges -> readdata + increment, latched by response_proc]
  retval,      \* [Bridges -> 1 after a page fault]
  word,        \* the shared word, as memory holds it
  posted       \* [Clients -> a data write that memory has not seen, or None]

links   == <<reader, readdata>>
bridge  == <<recv_data, retval>>
memory  == <<word, posted>>

vars == <<server, links, pc, operand, bridge, memory>>

HostStates ==
  {"off", "init", "idle", "acq_write", "acq_read", "acq_wait",
   "store", "rel_read", "rel_wait", "rel_write"}

BridgeStates ==
  {"s_idle", "s_request_lock", "s_read_lock_status", "s_read_lock_status_done",
   "s_read_level0", "s_read_level0_done", "s_read_level1", "s_read_level1_done",
   "s_read_data", "s_read_data_done", "s_write_data", "s_release_lock", "s_done"}

NO_ACCESS     == 0
DEVICE_ACCESS == 1
HOST_ACCESS   == 2

Init ==
  /\ ServerInit
  /\ reader = None
  /\ readdata = [c \in Clients |-> None]
  /\ pc = [c \in Clients |-> IF c \in Hosts THEN "off" ELSE "s_idle"]
  /\ operand = [c \in Clients |-> 0]
  /\ recv_data = [b \in Bridges |-> 0]
  /\ retval = [b \in Bridges |-> 0]
  /\ word = 0
  /\ posted = [c \in Clients |-> None]

Goto(c, from, to) ==
  /\ pc[c] = from
  /\ pc' = [pc EXCEPT ![c] = to]

-----------------------------------------------------------------------------
(***************************************************************************)
(* The lock port.  LockCommand maps a client's control state to the        *)
(* command it asserts, Accepted to where it goes when waitrequest falls.   *)
(***************************************************************************)
Commanding == {"init", "acq_write", "acq_read", "rel_read", "rel_write",
               "s_request_lock", "s_read_lock_status", "s_release_lock"}

LockCommand_wrong_port(c) ==
  IF pc[c] = "rel_write" THEN WriteRequest(c, DevicePort, ReleaseCommand)
  ELSE IF pc[c] = "acq_write" THEN WriteRequest(c, HostPort, AcquireCommand)
  ELSE IF pc[c] = "init" THEN WriteRequest(c, HostPort, ReleaseCommand)
  ELSE IF pc[c] = "s_request_lock" THEN WriteRequest(c, DevicePort, AcquireCommand)
  ELSE IF pc[c] = "s_release_lock" THEN WriteRequest(c, DevicePort, ReleaseCommand)
  ELSE ReadRequest(c)

LockCommand(c) ==
  CASE pc[c] \in {"init", "rel_write"} -> WriteRequest(c, HostPort, ReleaseCommand)
    [] pc[c] = "acq_write"             -> WriteRequest(c, HostPort, AcquireCommand)
    [] pc[c] = "s_request_lock"        -> WriteRequest(c, DevicePort, AcquireCommand)
    [] pc[c] = "s_release_lock"        -> WriteRequest(c, DevicePort, ReleaseCommand)
    [] OTHER                           -> ReadRequest(c)

Accepted(c) ==
  CASE pc[c] = "init"               -> "idle"
    [] pc[c] = "acq_write"          -> "acq_read"
    [] pc[c] = "acq_read"           -> "acq_wait"
    [] pc[c] = "rel_read"           -> "rel_wait"
    [] pc[c] = "rel_write"          -> "idle"
    [] pc[c] = "s_request_lock"     -> "s_read_lock_status"
    [] pc[c] = "s_read_lock_status" -> "s_read_lock_status_done"
    [] pc[c] = "s_release_lock"     -> "s_done"

\* The arbiter of the slave port grants it to a client.
Arbitrate(c) ==
  /\ pc[c] \in Commanding
  /\ Drive(LockCommand(c))
  /\ UNCHANGED <<links, pc, operand, bridge, memory>>

\* An edge of the server's clock: the server itself, the command that is
\* accepted on this edge, and the read whose data are valid on this edge.
Clock ==
  /\ ClockEdge
  /\ IF csr_waitrequest
       THEN UNCHANGED pc /\ reader' = None
       ELSE /\ pc' = [pc EXCEPT ![bus.master] = Accepted(bus.master)]
            /\ reader' = IF csr_read THEN bus.master ELSE None
  /\ readdata' = IF read_request_reg
                   THEN [readdata EXCEPT ![reader] = csr_readdata] ELSE readdata
  /\ UNCHANGED <<operand, bridge, memory>>

-----------------------------------------------------------------------------
(***************************************************************************)
(* The memory port: data writes and the moment they become visible.        *)
(***************************************************************************)
WriteWord(c, value) ==
  IF c \in Delayed
    THEN /\ posted[c] = None
         /\ posted' = [posted EXCEPT ![c] = value]
         /\ UNCHANGED word
    ELSE word' = value /\ UNCHANGED posted

\* A posted write reaches memory.
Land(c) ==
  /\ posted[c] # None
  /\ word' = posted[c]
  /\ posted' = [posted EXCEPT ![c] = None]
  /\ UNCHANGED <<server, links, pc, operand, bridge>>

-----------------------------------------------------------------------------
(***************************************************************************)
(* The host.                                                               *)
(***************************************************************************)

\* A program starts, maps the CSR page and is about to write a release.
HostStart(h) ==
  /\ Goto(h, "off", "init")
  /\ UNCHANGED <<server, links, operand, bridge, memory>>

\* A program ends or is killed between two instructions.
HostExit(h) ==
  /\ pc[h] \notin {"off", "acq_wait", "rel_wait"}
  /\ bus # NoRequest => bus.master # h
  /\ pc' = [pc EXCEPT ![h] = "off"]
  /\ UNCHANGED <<server, links, operand, bridge, memory>>

\* svm_atomic_store(addr, data) is called and enters acquire_lock.
CallAtomicStore(h) ==
  /\ Goto(h, "idle", "acq_write")
  /\ \E data \in Word : operand' = [operand EXCEPT ![h] = data]
  /\ UNCHANGED <<server, links, bridge, memory>>

AcquirePolled_any_owner(h) ==
  /\ pc[h] = "acq_wait"
  /\ readdata[h] # None
  /\ readdata' = [readdata EXCEPT ![h] = None]
  /\ pc' = [pc EXCEPT ![h] = IF readdata[h] # NO_ACCESS THEN "store" ELSE "acq_read"]
  /\ UNCHANGED <<server, reader, operand, bridge, memory>>

\* acquire_lock polls until the status is HOST_ACCESS.  It then returns
\* wait_cycles, which the assembly increments but never initialises: the
\* register holds an arbitrary value, so the result may also be zero, and
\* svm_atomic_store then returns without storing or releasing.
AcquirePolled(h) ==
  /\ pc[h] = "acq_wait"
  /\ readdata[h] # None
  /\ readdata' = [readdata EXCEPT ![h] = None]
  /\ IF readdata[h] = HOST_ACCESS
       THEN \E wait_cycles_is_zero \in BOOLEAN :
              pc' = [pc EXCEPT ![h] = IF wait_cycles_is_zero THEN "idle" ELSE "store"]
       ELSE pc' = [pc EXCEPT ![h] = "acq_read"]
  /\ UNCHANGED <<server, reader, operand, bridge, memory>>

\* *addr = data
StoreData(h) ==
  /\ Goto(h, "store", "rel_read")
  /\ WriteWord(h, operand[h])
  /\ UNCHANGED <<server, links, operand, bridge>>

\* release_lock writes only if it reads that the host has the lock.
ReleasePolled(h) ==
  /\ pc[h] = "rel_wait"
  /\ readdata[h] # None
  /\ readdata' = [readdata EXCEPT ![h] = None]
  /\ pc' = [pc EXCEPT ![h] = IF readdata[h] = HOST_ACCESS THEN "rel_write" ELSE "idle"]
  /\ UNCHANGED <<server, reader, operand, bridge, memory>>

HostNext(h) ==
  \/ AcquirePolled(h)
  \/ StoreData(h)
  \/ ReleasePolled(h)

-----------------------------------------------------------------------------
(***************************************************************************)
(* The atomic-add bridge: the states of its FSM, in the order it takes     *)
(* them.                                                                   *)
(***************************************************************************)

\* ivalid: the kernel pushes an operation.
AcceptAdd(b) ==
  /\ Goto(b, "s_idle", "s_request_lock")
  /\ \E increment \in Word : operand' = [operand EXCEPT ![b] = increment]
  /\ retval' = [retval EXCEPT ![b] = 0]
  /\ UNCHANGED <<server, links, recv_data, memory>>

LockStatusRead_any_status(b) ==
  /\ Goto(b, "s_read_lock_status_done", "s_read_level0")
  /\ readdata[b] # None
  /\ readdata' = [readdata EXCEPT ![b] = None]
  /\ UNCHANGED <<server, reader, operand, bridge, memory>>

LockStatusRead(b) ==
  /\ pc[b] = "s_read_lock_status_done"
  /\ readdata[b] # None
  /\ readdata' = [readdata EXCEPT ![b] = None]
  /\ pc' = [pc EXCEPT ![b] = IF readdata[b] = DEVICE_ACCESS
                               THEN "s_read_level0" ELSE "s_read_lock_status"]
  /\ UNCHANGED <<server, reader, operand, bridge, memory>>

\* A read command is accepted on port 0 (waitrequest low).
MemoryReadAccepted(b) ==
  /\ \/ Goto(b, "s_read_level0", "s_read_level0_done")
     \/ Goto(b, "s_read_level1", "s_read_level1_done")
     \/ Goto(b, "s_read_data", "s_read_data_done")
  /\ UNCHANGED <<server, links, operand, bridge, memory>>

DescriptorRead_no_retval(b) ==
  /\ \/ Goto(b, "s_read_level0_done", "s_read_level1")
     \/ Goto(b, "s_read_level1_done", "s_read_data")
     \/ Goto(b, "s_read_level0_done", "s_release_lock")
     \/ Goto(b, "s_read_level1_done", "s_release_lock")
  /\ UNCHANGED <<server, links, operand, bridge, memory>>

\* A descriptor arrives: type "00" is a page fault, any other goes on.
DescriptorRead(b) ==
  /\ \/ /\ \/ Goto(b, "s_read_level0_done", "s_read_level1")
           \/ Goto(b, "s_read_level1_done", "s_read_data")
        /\ UNCHANGED retval
     \/ /\ \/ Goto(b, "s_read_level0_done", "s_release_lock")
           \/ Goto(b, "s_read_level1_done", "s_release_lock")
        /\ retval' = [retval EXCEPT ![b] = 1]
  /\ UNCHANGED <<server, links, operand, recv_data, memory>>

DataRead_too_wide(b) ==
  /\ Goto(b, "s_read_data_done", "s_write_data")
  /\ posted[b] = None
  /\ recv_data' = [recv_data EXCEPT ![b] = word + operand[b]]
  /\ UNCHANGED <<server, links, operand, retval, memory>>

\* The data arrive; response_proc latches the sum.  A bridge's own port
\* keeps its commands in order, so its previous write has landed.
DataRead(b) ==
  /\ Goto(b, "s_read_data_done", "s_write_data")
  /\ posted[b] = None
  /\ recv_data' = [recv_data EXCEPT ![b] = (word + operand[b]) % Modulus]
  /\ UNCHANGED <<server, links, operand, retval, memory>>

DataWritten_no_release(b) ==
  /\ Goto(b, "s_write_data", "s_done")
  /\ WriteWord(b, recv_data[b])
  /\ UNCHANGED <<server, links, operand, bridge>>

\* The write is accepted (waitrequest low); avm_port0_writeack is not used.
DataWritten(b) ==
  /\ Goto(b, "s_write_data", "s_release_lock")
  /\ WriteWord(b, recv_data[b])
  /\ UNCHANGED <<server, links, operand, bridge>>

\* The kernel takes the result (iready).
ResultTaken(b) ==
  /\ Goto(b, "s_done", "s_idle")
  /\ UNCHANGED <<server, links, operand, bridge, memory>>

\* kernel_reset reaches the bridge but not the lock server, which only the
\* global reset clears.  Bounded to states in which no lock command or
\* answer of the bridge is in flight; in s_done it does what ResultTaken does.
KernelReset(b) ==
  /\ pc[b] \notin {"s_idle", "s_read_lock_status_done", "s_done"}
  /\ bus # NoRequest => bus.master # b
  /\ pc' = [pc EXCEPT ![b] = "s_idle"]
  /\ UNCHANGED <<server, links, operand, bridge, memory>>

BridgeNext(b) ==
  \/ LockStatusRead(b)
  \/ MemoryReadAccepted(b)
  \/ DescriptorRead(b)
  \/ DataRead(b)
  \/ DataWritten(b)
  \/ ResultTaken(b)

-----------------------------------------------------------------------------
Next ==
  \/ Clock
  \/ \E c \in Clients : Arbitrate(c) \/ Land(c)
  \/ \E h \in Hosts : HostNext(h) \/ HostStart(h) \/ CallAtomicStore(h) \/ HostExit(h)
  \/ \E b \in Bridges : BridgeNext(b) \/ AcceptAdd(b) \/ KernelReset(b)

Spec == Init /\ [][Next]_vars

(***************************************************************************)
(* The clock runs, the CPU and the FSMs make progress, memory answers and  *)
(* drains.  The arbiter of the shared slave port gives every master equal  *)
(* shares (arbitrationPriority 1 on both connections), so a client that    *)
(* asks again and again is granted: strong fairness.  Nothing makes a      *)
(* program start, exit or call, a kernel push an add, or a reset happen.   *)
(***************************************************************************)
Fairness ==
  /\ WF_vars(Clock)
  /\ \A c \in Clients : SF_vars(Arbitrate(c)) /\ WF_vars(Land(c))
  /\ \A h \in Hosts : WF_vars(HostNext(h))
  /\ \A b \in Bridges : WF_vars(BridgeNext(b))

FairSpec == Spec /\ Fairness

-----------------------------------------------------------------------------
(***************************************************************************)
(* Properties.                                                             *)
(***************************************************************************)
TypeOK ==
  /\ ServerTypeOK
  /\ reader \in Clients \cup {None}
  /\ readdata \in [Clients -> {NO_ACCESS, DEVICE_ACCESS, HOST_ACCESS, None}]
  /\ pc \in [Clients -> HostStates \cup BridgeStates]
  /\ \A h \in Hosts : pc[h] \in HostStates
  /\ \A b \in Bridges : pc[b] \in BridgeStates
  /\ operand \in [Clients -> Word]
  /\ recv_data \in [Bridges -> Word]
  /\ retval \in [Bridges -> {0, 1}]
  /\ word \in Word
  /\ posted \in [Clients -> Word \cup {None}]

\* The states in which a client has seen the lock granted to its side and has
\* not yet begun to give it back.
Critical ==
  {"store", "rel_read", "rel_wait",
   "s_read_level0", "s_read_level0_done", "s_read_level1", "s_read_level1_done",
   "s_read_data", "s_read_data_done", "s_write_data"}

InCritical(c) == pc[c] \in Critical

\* No two clients are between their lock's grant and its release at once.  It
\* rests on the polled status still being true when the client acts on it.
MutualExclusion ==
  \A c, d \in Clients : c # d => ~(InCritical(c) /\ InCritical(d))

\* The side a client belongs to.
PortOf(c) == IF c \in Hosts THEN HostPort ELSE DevicePort

\* A client in its critical section is backed by the server: the status names
\* its side and no release of its side is pending, so that the grant cannot
\* be withdrawn under it.
CriticalIsGranted ==
  \A c \in Clients :
    InCritical(c) => /\ lock_status_register = Access(PortOf(c))
                     /\ lock_request_register[PortOf(c)] # "s_release"

\* The sum a bridge is about to write, or has posted, is made from the word
\* that memory holds now: no store has come between its read and its write.
AddIsFresh ==
  \A b \in Bridges :
    LET sum == (word + operand[b]) % Modulus
    IN  /\ pc[b] = "s_write_data" => recv_data[b] = sum
        /\ pc[b] \in {"s_release_lock", "s_done"} /\ posted[b] # None
             => posted[b] = sum

\* Side i has the lock, but none of its clients is inside its critical section
\* or giving the lock back: the grant has outlived the operation it was for.
Leaked(i) ==
  /\ lock_status_register = Access(i)
  /\ lock_request_register[i] # "s_release"
  /\ \A c \in Clients : PortOf(c) = i =>
       pc[c] \notin Critical \cup {"rel_write", "s_release_lock"}

\* A host program that is running and not inside svm_atomic_store does not
\* have the lock: acquire_lock's result never makes svm_atomic_store return
\* with it.
ReturnsWithoutLock ==
  (\E h \in Hosts : pc[h] = "idle") => ~Leaked(HostPort)

\* An add that the kernel pushes is answered, unless hosts that die, or return,
\* with the lock keep it for ever.  The bridge writes its request once and then
\* polls: the property says the request is neither lost nor starved.
AddAnswered ==
  <>[]Leaked(HostPort) \/
  \A b \in Bridges : (pc[b] = "s_request_lock") ~> (pc[b] \in {"s_done", "s_idle"})

\* The same for a host store (a killed program also stops waiting), unless
\* kernel resets never end, or the last one leaves the lock with a device
\* that is not used again.
ResetsEnd == <>[][\A b \in Bridges : ~KernelReset(b)]_vars

StoreAnswered ==
  ResetsEnd /\ ~<>[]Leaked(DevicePort) =>
    \A h \in Hosts : (pc[h] = "acq_write") ~> (pc[h] \in {"idle", "off"})

-----------------------------------------------------------------------------
(***************************************************************************)
(* The refinement of AtomicCell: an operation is pending until its data    *)
(* write, and done or failed until the client is ready for the next one.   *)
(***************************************************************************)
Phase(c) ==
  CASE pc[c] \in {"off", "init", "idle", "s_idle"}                 -> "idle"
    [] pc[c] \in {"rel_read", "rel_wait", "rel_write"}             -> "done"
    [] pc[c] \in {"s_release_lock", "s_done"} ->
         IF retval[c] = 1 THEN "failed" ELSE "done"
    [] OTHER                                                       -> "pending"

Cell == INSTANCE AtomicCell WITH
          Storers <- Hosts, Adders <- Bridges,
          cell <- word, phase <- [c \in Clients |-> Phase(c)], arg <- operand

\* Host stores and device adds are atomic: each of them happens at the instant
\* of its data write, whatever the steps of the other side in between.
ImplementsAtomicCell == Cell!CellSpec

-----------------------------------------------------------------------------
(***************************************************************************)
(* Why the lock excludes: the inductive strengthening of MutualExclusion   *)
(* for one client on each side.                                            *)
(***************************************************************************)

\* Each side of the lock has one client: the host program is single-threaded
\* and the device has one atomic-add bridge.
OneClientPerSide ==
  /\ \A g, h \in Hosts : g = h
  /\ \A a, b \in Bridges : a = b

Waiting == {"acq_wait", "rel_wait", "s_read_lock_status_done"}

\* The command on the bus is the one its master asserts now.
BusMatches ==
  bus # NoRequest =>
    /\ bus.master \in Clients
    /\ pc[bus.master] \in Commanding
    /\ bus = LockCommand(bus.master)

\* A read that is accepted answers the client that waits for it, once.
ReadMatches ==
  /\ read_request_reg <=> reader # None
  /\ reader # None => pc[reader] \in Waiting /\ readdata[reader] = None
  /\ \A c \in Clients : readdata[c] # None => pc[c] \in Waiting

\* c's acquire has reached its register, and c has asserted no release since.
Asked(c) ==
  \/ pc[c] \in Critical
               \cup {"acq_read", "acq_wait", "s_read_lock_status", "s_read_lock_status_done"}
  \/ /\ pc[c] \in {"acq_write", "s_request_lock"}
     /\ avalon_state = "s_write_request_accept"
     /\ bus # NoRequest
     /\ bus.master = c

\* A client knows it has the lock: it is in its critical section, or the
\* answer that lets it in is on its way.
Status(i) == IF i = HostPort THEN HOST_ACCESS ELSE DEVICE_ACCESS

Granted(c) == InCritical(c) \/ readdata[c] = Status(PortOf(c))

NoStaleGrant ==
  \A c \in Clients :
    /\ Asked(c) => lock_request_register[PortOf(c)] # "s_release"
    /\ Granted(c) => lock_status_register = Access(PortOf(c))

IInv ==
  /\ TypeOK
  /\ HandshakeOK
  /\ BusMatches
  /\ ReadMatches
  /\ NoStaleGrant
=============================================================================
