--------------------------- MODULE SvmLockProofs ----------------------------
(***************************************************************************)
(* Theorems about the host-device lock service, for every word size, every *)
(* choice of delayed clients, and one client on each side of the lock.     *)
(*                                                                         *)
(* The argument: a polled status is used after it was read, so it has to   *)
(* stay true until then.  Only a release in a side's own register takes    *)
(* the lock from it, only that side's client writes the register, and that *)
(* client asserts no release between its acquire and its critical section. *)
(* So from the moment the acquire has reached its register, no release is  *)
(* there (Asked), and a status that names the side keeps naming it until   *)
(* the client gives the lock back (Granted).                               *)
(***************************************************************************)
EXTENDS SvmLock, LockServerProofs

\* The actions of one client other than the arbitration of its commands.
LocalStep(c) ==
  \/ Land(c)
  \/ c \in Hosts /\ (HostNext(c) \/ HostStart(c) \/ CallAtomicStore(c) \/ HostExit(c))
  \/ c \in Bridges /\ (BridgeNext(c) \/ AcceptAdd(c) \/ KernelReset(c))

LEMMA NextSplit ==
  ASSUME [Next]_vars
  PROVE  \/ Clock
         \/ \E c \in Clients : Arbitrate(c)
         \/ \E c \in Clients : LocalStep(c)
         \/ UNCHANGED vars
  BY DEF Next, LocalStep, Clients

\* The clients drive only commands that the server's own specification lets
\* a master drive.
LEMMA LockCommandType ==
  ASSUME NEW c \in Clients
  PROVE  LockCommand(c) \in BusRequests
  BY SvmLockAssumption DEF LockCommand, BusRequests, Ports

\* A client's own steps leave the server and the order of reads alone.
LEMMA LocalStepFrame ==
  ASSUME NEW c \in Clients, LocalStep(c)
  PROVE  UNCHANGED <<server, reader>>
  BY DEF LocalStep, Land, HostNext, HostStart, CallAtomicStore, HostExit, AcquirePolled,
         StoreData, ReleasePolled, BridgeNext, AcceptAdd, KernelReset, LockStatusRead,
         MemoryReadAccepted, DescriptorRead, DataRead, DataWritten, ResultTaken, links

LEMMA ServerStep ==
  ASSUME [Next]_vars
  PROVE  [ServerNext]_server
<1>1. CASE Clock
  BY <1>1 DEF Clock, ServerNext
<1>2. ASSUME NEW c \in Clients, Arbitrate(c) PROVE [ServerNext]_server
  BY <1>2, LockCommandType DEF Arbitrate, ServerNext
<1>3. ASSUME NEW c \in Clients, LocalStep(c) PROVE [ServerNext]_server
  BY <1>3, LocalStepFrame DEF server, registers
<1>4. CASE UNCHANGED vars
  BY <1>4 DEF vars
<1> QED BY <1>1, <1>2, <1>3, <1>4, NextSplit

LEMMA InitServer == Init => ServerInit
  BY DEF Init

\* The clients use the lock server as its own specification allows, so its
\* theorems hold in the composition.
THEOREM SvmLockImplementsServer == Spec => ServerSpec
  BY InitServer, ServerStep, PTL DEF Spec, ServerSpec

\* In the composed system, too, no lock request is cleared without a grant.
THEOREM SvmLockLosesNoRequest == Spec => NoRequestLost
  BY SvmLockImplementsServer, ServerLosesNoRequest, PTL

\* Nor is the lock handed from a kernel to the host, or back, in one step, for all
\* that both sides poll and write at any time.
THEOREM SvmLockHandsOverFree == Spec => HandoverThroughFree
  BY SvmLockImplementsServer, ServerHandsOverFree, PTL

-----------------------------------------------------------------------------
(***************************************************************************)
(* Types.                                                                  *)
(***************************************************************************)
LEMMA WordArithmetic ==
  ASSUME NEW a \in Word, NEW b \in Word
  PROVE  0 \in Word /\ (a + b) % Modulus \in Word
  BY SvmLockAssumption DEF Word

LEMMA InitType == Init => TypeOK
<1> SUFFICES ASSUME Init PROVE TypeOK
  OBVIOUS
<1>1. ServerTypeOK
  BY InitServer, ServerInitInv DEF ServerInv
<1>2. 0 \in Word
  BY SvmLockAssumption DEF Word
<1> QED
  BY <1>1, <1>2, SvmLockAssumption DEF Init, TypeOK, Clients, HostStates, BridgeStates

LEMMA WriteWordType ==
  ASSUME TypeOK, NEW c \in Clients, NEW v \in Word, WriteWord(c, v)
  PROVE  word' \in Word /\ posted' \in [Clients -> Word \cup {None}]
  BY DEF WriteWord, TypeOK

LEMMA ClockType ==
  ASSUME IInv, Clock, ServerTypeOK'
  PROVE  TypeOK'
<1> USE DEF IInv, TypeOK
<1>1. reader' \in Clients \cup {None}
  BY DEF Clock, HandshakeOK, csr_waitrequest, csr_read, csr_write, ServerTypeOK, BusMatches
<1>2. readdata' \in [Clients -> {NO_ACCESS, DEVICE_ACCESS, HOST_ACCESS, None}]
  <2>1. csr_readdata \in {NO_ACCESS, DEVICE_ACCESS, HOST_ACCESS}
    BY DEF csr_readdata, ServerTypeOK, Statuses, NO_ACCESS, DEVICE_ACCESS, HOST_ACCESS
  <2> QED BY <2>1 DEF Clock, ReadMatches
<1>3. /\ pc' \in [Clients -> HostStates \cup BridgeStates]
      /\ \A h \in Hosts : pc'[h] \in HostStates
      /\ \A b \in Bridges : pc'[b] \in BridgeStates
  <2>1. CASE csr_waitrequest
    BY <2>1 DEF Clock
  <2>2. CASE ~csr_waitrequest
    <3>1. bus # NoRequest
      BY <2>2 DEF HandshakeOK, csr_waitrequest, csr_read, csr_write, ServerTypeOK
    <3>2. /\ bus.master \in Clients
          /\ pc[bus.master] \in Commanding
      BY <3>1 DEF BusMatches
    <3>3. /\ bus.master \in Hosts => Accepted(bus.master) \in HostStates
          /\ bus.master \in Bridges => Accepted(bus.master) \in BridgeStates
      BY <3>2 DEF Accepted, Commanding, HostStates, BridgeStates
    <3> QED BY <2>2, <3>2, <3>3, SvmLockAssumption DEF Clock, Clients
  <2> QED BY <2>1, <2>2
<1> QED
  BY <1>1, <1>2, <1>3 DEF Clock, bridge, memory

LEMMA HostType ==
  ASSUME TypeOK, NEW h \in Hosts,
         HostNext(h) \/ HostStart(h) \/ CallAtomicStore(h) \/ HostExit(h)
  PROVE  TypeOK'
<1> USE SvmLockAssumption DEF TypeOK, Clients, HostStates, BridgeStates, Goto, links, bridge, memory
<1>0. ServerTypeOK'
  BY LocalStepFrame DEF LocalStep, server, registers, ServerTypeOK
<1>1. CASE AcquirePolled(h)
  BY <1>0, <1>1 DEF AcquirePolled
<1>2. CASE StoreData(h)
  <2>1. word' \in Word /\ posted' \in [Clients -> Word \cup {None}]
    BY <1>2, WriteWordType DEF StoreData
  <2> QED BY <1>0, <1>2, <2>1 DEF StoreData
<1>3. CASE ReleasePolled(h)
  BY <1>0, <1>3 DEF ReleasePolled
<1>4. CASE HostStart(h)
  BY <1>0, <1>4 DEF HostStart
<1>5. CASE CallAtomicStore(h)
  BY <1>0, <1>5 DEF CallAtomicStore
<1>6. CASE HostExit(h)
  BY <1>0, <1>6 DEF HostExit
<1> QED BY <1>1, <1>2, <1>3, <1>4, <1>5, <1>6 DEF HostNext

LEMMA BridgeType ==
  ASSUME TypeOK, NEW b \in Bridges, BridgeNext(b) \/ AcceptAdd(b) \/ KernelReset(b)
  PROVE  TypeOK'
<1> USE SvmLockAssumption DEF TypeOK, Clients, HostStates, BridgeStates, Goto, links, bridge, memory
<1>0. ServerTypeOK'
  BY LocalStepFrame DEF LocalStep, server, registers, ServerTypeOK
<1>1. CASE LockStatusRead(b)
  BY <1>0, <1>1 DEF LockStatusRead
<1>2. CASE MemoryReadAccepted(b)
  BY <1>0, <1>2 DEF MemoryReadAccepted
<1>3. CASE DescriptorRead(b)
  BY <1>0, <1>3 DEF DescriptorRead
<1>4. CASE DataRead(b)
  BY <1>0, <1>4, WordArithmetic DEF DataRead
<1>5. CASE DataWritten(b)
  <2>1. word' \in Word /\ posted' \in [Clients -> Word \cup {None}]
    BY <1>5, WriteWordType DEF DataWritten
  <2> QED BY <1>0, <1>5, <2>1 DEF DataWritten
<1>6. CASE ResultTaken(b)
  BY <1>0, <1>6 DEF ResultTaken
<1>7. CASE AcceptAdd(b)
  BY <1>0, <1>7 DEF AcceptAdd
<1>8. CASE KernelReset(b)
  BY <1>0, <1>8 DEF KernelReset
<1> QED BY <1>1, <1>2, <1>3, <1>4, <1>5, <1>6, <1>7, <1>8 DEF BridgeNext

LEMMA TypeStep ==
  ASSUME IInv, [Next]_vars
  PROVE  TypeOK'
<1>0. ServerTypeOK'
  BY ServerStep, ServerTypeStep DEF IInv, TypeOK
<1>1. CASE Clock
  BY <1>0, <1>1, ClockType
<1>2. ASSUME NEW c \in Clients, Arbitrate(c) PROVE TypeOK'
  BY <1>0, <1>2 DEF Arbitrate, IInv, TypeOK, links, bridge, memory
<1>3. ASSUME NEW c \in Clients, LocalStep(c) PROVE TypeOK'
  <2>1. CASE Land(c)
    BY <1>0, <2>1 DEF Land, IInv, TypeOK, links, bridge
  <2> QED BY <1>3, <2>1, HostType, BridgeType DEF LocalStep, IInv
<1>4. CASE UNCHANGED vars
  BY <1>0, <1>4 DEF vars, links, bridge, memory, IInv, TypeOK
<1> QED BY <1>1, <1>2, <1>3, <1>4, NextSplit

-----------------------------------------------------------------------------
(***************************************************************************)
(* The bus and the reads in flight.                                        *)
(***************************************************************************)

\* What a client's own step does to the control states: it moves only that
\* client, which has no command on the bus; the client is not waiting for a
\* read, or consumes the one that has come back.
LEMMA LocalStepControl ==
  ASSUME IInv, NEW c \in Clients, LocalStep(c)
  PROVE  /\ \A d \in Clients : d # c => pc'[d] = pc[d] /\ readdata'[d] = readdata[d]
         /\ pc'[c] # pc[c] => (bus # NoRequest => bus.master # c)
         /\ pc'[c] # pc[c] => reader # c
         /\ pc'[c] # pc[c] => readdata'[c] = None
         /\ pc'[c] = pc[c] => readdata'[c] = readdata[c]
<1> USE SvmLockAssumption DEF IInv, TypeOK, Clients, Goto, links
<1>0. /\ bus # NoRequest /\ bus.master = c => pc[c] \in Commanding
      /\ reader = c => pc[c] \in Waiting /\ readdata[c] = None
      /\ readdata[c] # None => pc[c] \in Waiting
  BY DEF BusMatches, ReadMatches
<1>1. CASE Land(c)
  BY <1>1 DEF Land
<1>2. CASE c \in Hosts /\ (HostNext(c) \/ HostStart(c) \/ CallAtomicStore(c) \/ HostExit(c))
  BY <1>0, <1>2 DEF HostNext, HostStart, CallAtomicStore, HostExit, AcquirePolled,
     StoreData, ReleasePolled, Commanding, Waiting, HostStates
<1>3. CASE c \in Bridges /\ (BridgeNext(c) \/ AcceptAdd(c) \/ KernelReset(c))
  BY <1>0, <1>3 DEF BridgeNext, AcceptAdd, KernelReset, LockStatusRead, MemoryReadAccepted,
     DescriptorRead, DataRead, DataWritten, ResultTaken, Commanding, Waiting, BridgeStates
<1> QED BY <1>1, <1>2, <1>3 DEF LocalStep

LEMMA BusStep ==
  ASSUME IInv, [Next]_vars
  PROVE  BusMatches'
<1> USE DEF IInv, TypeOK, BusMatches
<1>1. CASE Clock
  <2>1. CASE csr_waitrequest
    BY <1>1, <2>1 DEF Clock, ClockEdge, LockCommand
  <2>2. CASE ~csr_waitrequest
    BY <1>1, <2>2 DEF Clock, ClockEdge
  <2> QED BY <2>1, <2>2
<1>2. ASSUME NEW c \in Clients, Arbitrate(c) PROVE BusMatches'
  <2>1. LockCommand(c).master = c
    BY DEF LockCommand, WriteRequest, ReadRequest
  <2> QED BY <1>2, <2>1 DEF Arbitrate, Drive, LockCommand
<1>3. ASSUME NEW c \in Clients, LocalStep(c) PROVE BusMatches'
  <2>1. UNCHANGED bus
    BY <1>3, LocalStepFrame DEF server
  <2>2. bus # NoRequest => pc'[bus.master] = pc[bus.master]
    BY <1>3, LocalStepControl
  <2> QED BY <2>1, <2>2 DEF LockCommand
<1>4. CASE UNCHANGED vars
  BY <1>4 DEF vars, server, LockCommand
<1> QED BY <1>1, <1>2, <1>3, <1>4, NextSplit

LEMMA ReadStep ==
  ASSUME IInv, [Next]_vars
  PROVE  ReadMatches'
<1> USE DEF IInv, TypeOK, ReadMatches
<1>1. CASE Clock
  <2> USE DEF Clock, ClockEdge, slave_response_proc, csr_waitrequest, ServerTypeOK
  <2>1. CASE csr_waitrequest
    <3>1. ~read_request_reg' /\ reader' = None
      BY <1>1, <2>1
    <3>2. \A c \in Clients : readdata'[c] # None => pc'[c] \in Waiting
      BY <1>1, <2>1
    <3> QED BY <3>1, <3>2
  <2>2. CASE ~csr_waitrequest
    <3>1. /\ bus # NoRequest
          /\ avalon_state = "s_read_request_accept" <=> csr_read
      BY <2>2 DEF HandshakeOK, csr_read, csr_write
    <3>2. /\ bus.master \in Clients
          /\ pc[bus.master] \in Commanding
          /\ bus = LockCommand(bus.master)
      BY <3>1 DEF BusMatches
    <3>3. csr_read => Accepted(bus.master) \in Waiting
      BY <3>1, <3>2 DEF csr_read, LockCommand, Accepted, Commanding, Waiting, WriteRequest
    <3>4. pc[bus.master] \notin Waiting /\ reader # bus.master
      BY <3>2, SvmLockAssumption DEF Commanding, Waiting
    <3>5. readdata'[bus.master] = None
      BY <1>1, <2>2, <3>2, <3>4
    <3>6. \A c \in Clients : c # bus.master =>
            pc'[c] = pc[c] /\ (readdata'[c] # None => pc[c] \in Waiting)
      BY <1>1, <2>2
    <3>7. pc'[bus.master] = Accepted(bus.master)
      BY <1>1, <2>2, <3>2
    <3>8. /\ read_request_reg' <=> csr_read
          /\ csr_read => reader' = bus.master
          /\ ~csr_read => reader' = None
      BY <1>1, <2>2, <3>1
    <3>9. \A c \in Clients : readdata'[c] # None => pc'[c] \in Waiting
      BY <3>5, <3>6
    <3>10. reader' # None => pc'[reader'] \in Waiting /\ readdata'[reader'] = None
      BY <3>3, <3>5, <3>7, <3>8
    <3>11. read_request_reg' <=> reader' # None
      BY <3>2, <3>8, SvmLockAssumption
    <3> QED BY <3>9, <3>10, <3>11
  <2> QED BY <2>1, <2>2
<1>2. ASSUME NEW c \in Clients, Arbitrate(c) PROVE ReadMatches'
  BY <1>2 DEF Arbitrate, Drive, registers, links
<1>3. ASSUME NEW c \in Clients, LocalStep(c) PROVE ReadMatches'
  <2>1. UNCHANGED <<read_request_reg, reader>>
    BY <1>3, LocalStepFrame DEF server, registers
  <2>2. \A d \in Clients : readdata'[d] # None => pc'[d] = pc[d] /\ readdata[d] # None
    BY <1>3, LocalStepControl
  <2>3. reader # None => pc'[reader] = pc[reader] /\ readdata'[reader] = readdata[reader]
    BY <1>3, LocalStepControl
  <2> QED BY <2>1, <2>2, <2>3
<1>4. CASE UNCHANGED vars
  BY <1>4 DEF vars, server, registers, links
<1> QED BY <1>1, <1>2, <1>3, <1>4, NextSplit

-----------------------------------------------------------------------------
(***************************************************************************)
(* The lock.                                                               *)
(***************************************************************************)

\* Only a client's own side is named by the writes it asserts, and only the
\* states outside Asked assert a release.
LEMMA WritePort ==
  ASSUME IInv, csr_write
  PROVE  /\ bus.master \in Clients
         /\ bus.address = PortOf(bus.master)
         /\ pc[bus.master] \in {"acq_write", "s_request_lock"} <=> bus.data = AcquireCommand
         /\ pc[bus.master] \in {"init", "rel_write", "s_release_lock"}
              <=> bus.data # AcquireCommand
<1>1. /\ bus.master \in Clients
      /\ pc[bus.master] \in Commanding
      /\ bus = LockCommand(bus.master)
  BY DEF csr_write, IInv, BusMatches
<1>2. /\ bus.master \in Hosts => pc[bus.master] \in HostStates
      /\ bus.master \in Bridges => pc[bus.master] \in BridgeStates
  BY DEF IInv, TypeOK
<1> QED
  BY <1>1, <1>2, SvmLockAssumption
  DEF csr_write, LockCommand, WriteRequest, ReadRequest, Commanding, HostStates,
      BridgeStates, Clients, PortOf, ReleaseCommand, AcquireCommand

\* While a side's client has asked, and not released, its grant stands.
LEMMA GrantStands ==
  ASSUME IInv, Clock, NEW c \in Clients, Asked(c),
         lock_status_register = Access(PortOf(c))
  PROVE  lock_status_register' = Access(PortOf(c))
  BY DEF Clock, ClockEdge, serve_request_proc, next_lock_status, IInv, NoStaleGrant, Access, PortOf,
         HostPort, DevicePort

LEMMA ClockAsked ==
  ASSUME OneClientPerSide, IInv, Clock, NEW c \in Clients, Asked(c)'
  PROVE  lock_request_register'[PortOf(c)] # "s_release"
<1> DEFINE i == PortOf(c)
<1>0. i \in Ports
  BY DEF PortOf, Ports
<1>1. CASE avalon_state = "s_idle" /\ csr_write
  <2>1. pc' = pc /\ bus' = bus
    BY <1>1 DEF Clock, ClockEdge, csr_waitrequest
  <2>2. lock_request_register' =
          [lock_request_register EXCEPT
             ![PortOf(bus.master)] = IF bus.data = AcquireCommand
                                       THEN "s_acquire" ELSE "s_release"]
    BY <1>1, WritePort DEF Clock, ClockEdge, read_request_proc
  <2>3. CASE bus.master = c
    <3>1. pc[c] \notin {"init", "rel_write", "s_release_lock"}
      BY <2>1 DEF Asked, Critical
    <3>2. bus.data = AcquireCommand
      BY <1>1, <2>3, <3>1, WritePort
    <3> QED BY <1>0, <2>2, <2>3, <3>2 DEF IInv, TypeOK, ServerTypeOK
  <2>4. CASE bus.master # c
    <3>1. PortOf(bus.master) # i
      BY <1>1, <2>4, WritePort DEF OneClientPerSide, PortOf, Clients, HostPort, DevicePort
    <3>2. Asked(c)
      BY <2>1, <2>4 DEF Asked
    <3> QED BY <1>0, <2>2, <3>1, <3>2 DEF IInv, NoStaleGrant, TypeOK, ServerTypeOK
  <2> QED BY <2>3, <2>4
<1>2. CASE ~(avalon_state = "s_idle" /\ csr_write)
  <2>1. lock_request_register'[i] \in {"s_norequest", lock_request_register[i]}
    BY <1>0, <1>2 DEF Clock, ClockEdge, read_request_proc
  <2>2. Asked(c)
    <3>1. CASE csr_waitrequest
      <4>1. pc' = pc /\ avalon_state' # "s_write_request_accept"
        BY <1>2, <3>1 DEF Clock, ClockEdge, slave_response_proc, csr_waitrequest
      <4> QED BY <4>1 DEF Asked
    <3>2. CASE ~csr_waitrequest
      <4>1. /\ bus' = NoRequest
            /\ pc' = [pc EXCEPT ![bus.master] = Accepted(bus.master)]
        BY <3>2 DEF Clock, ClockEdge
      <4>2. /\ bus # NoRequest
            /\ csr_write => avalon_state = "s_write_request_accept"
        BY <3>2 DEF IInv, TypeOK, ServerTypeOK, HandshakeOK, csr_waitrequest, csr_write, csr_read
      <4>3. CASE bus.master = c
        <5>1. pc[c] \in Commanding /\ bus = LockCommand(c)
          BY <4>2, <4>3 DEF IInv, BusMatches
        <5>2. pc'[c] = Accepted(c)
          BY <4>1, <4>3 DEF IInv, TypeOK
        <5>3. pc[c] \in {"acq_write", "s_request_lock"} => csr_write
          BY <4>2, <5>1 DEF csr_write, LockCommand, WriteRequest
        <5>4. pc[c] \in {"acq_write", "acq_read", "rel_read", "s_request_lock",
                         "s_read_lock_status"}
          BY <4>1, <5>1, <5>2 DEF Asked, Accepted, Commanding, Critical
        <5> QED BY <4>2, <4>3, <5>3, <5>4 DEF Asked, Critical
      <4>4. CASE bus.master # c
        <5>1. pc'[c] = pc[c]
          BY <4>1, <4>4 DEF IInv, TypeOK
        <5> QED BY <4>1, <5>1 DEF Asked
      <4> QED BY <4>3, <4>4
    <3> QED BY <3>1, <3>2
  <2> QED BY <2>1, <2>2 DEF IInv, NoStaleGrant
<1> QED BY <1>1, <1>2

LEMMA ClockGranted ==
  ASSUME IInv, Clock, NEW c \in Clients, Granted(c)'
  PROVE  lock_status_register' = Access(PortOf(c))
<1> USE DEF IInv, TypeOK
<1>1. CASE InCritical(c) \/ readdata[c] = Status(PortOf(c))
  <2>1. Granted(c)
    BY <1>1 DEF Granted
  <2>2. Asked(c)
    <3>1. readdata[c] # None => pc[c] \in Waiting
      BY DEF ReadMatches
    <3>2. Status(PortOf(c)) # None
      BY SvmLockAssumption DEF Status, HOST_ACCESS, DEVICE_ACCESS
    <3> QED BY <1>1, <3>1, <3>2 DEF Asked, InCritical, Critical, Waiting
  <2> QED BY <2>1, <2>2, GrantStands DEF NoStaleGrant
<1>2. CASE ~InCritical(c) /\ readdata[c] # Status(PortOf(c)) /\ InCritical(c)'
  \* An accepted command does not lead into the critical section.
  <2>1. pc'[c] # pc[c]
    BY <1>2 DEF InCritical
  <2>2. ~csr_waitrequest /\ pc'[c] = Accepted(c) /\ bus.master = c
    BY <2>1 DEF Clock
  <2>3. pc[c] \in Commanding
    BY <2>2 DEF HandshakeOK, BusMatches, csr_waitrequest, csr_write, csr_read, ServerTypeOK
  <2> QED BY <1>2, <2>2, <2>3 DEF Accepted, Commanding, InCritical, Critical
<1>3. CASE ~InCritical(c) /\ readdata[c] # Status(PortOf(c)) /\ ~InCritical(c)'
  \* The answer that grants the lock arrives on this edge.
  <2>1. readdata'[c] = Status(PortOf(c))
    BY <1>3 DEF Granted, InCritical
  <2>2. read_request_reg /\ reader = c /\ csr_readdata = Status(PortOf(c))
    BY <1>3, <2>1 DEF Clock
  <2>3. pc[c] \in Waiting
    BY <2>2, SvmLockAssumption DEF ReadMatches
  <2>4. Asked(c)
    BY <2>3 DEF Asked, Waiting, Critical
  <2>5. lock_status_register = Access(PortOf(c))
    BY <2>2 DEF csr_readdata, Status, Access, PortOf, HostPort, DevicePort, HOST_ACCESS,
       DEVICE_ACCESS, ServerTypeOK, Statuses
  <2> QED BY <2>4, <2>5, GrantStands
<1> QED BY <1>1, <1>2, <1>3

\* A client enters its critical section only on an answer that grants the lock.
LEMMA LocalGrant ==
  ASSUME IInv, NEW c \in Clients, LocalStep(c), pc'[c] # pc[c]
  PROVE  /\ InCritical(c)' => Granted(c)
         /\ Asked(c)' => Asked(c)
<1> USE SvmLockAssumption DEF IInv, TypeOK, Clients, Goto
<1>0. /\ bus # NoRequest => bus.master # c
      /\ UNCHANGED bus
  BY LocalStepControl, LocalStepFrame DEF server
<1>1. CASE Land(c)
  BY <1>1 DEF Land
<1>2. CASE c \in Hosts /\ (HostNext(c) \/ HostStart(c) \/ CallAtomicStore(c) \/ HostExit(c))
  BY <1>0, <1>2 DEF HostNext, HostStart, CallAtomicStore, HostExit, AcquirePolled,
     StoreData, ReleasePolled, Asked, Granted, InCritical, Critical, Status, PortOf
<1>3. CASE c \in Bridges /\ (BridgeNext(c) \/ AcceptAdd(c) \/ KernelReset(c))
  BY <1>0, <1>3 DEF BridgeNext, AcceptAdd, KernelReset, LockStatusRead, MemoryReadAccepted,
     DescriptorRead, DataRead, DataWritten, ResultTaken, Asked, Granted, InCritical,
     Critical, Status, PortOf, HostPort, DevicePort
<1> QED BY <1>1, <1>2, <1>3 DEF LocalStep

LEMMA GrantStep ==
  ASSUME OneClientPerSide, IInv, [Next]_vars
  PROVE  NoStaleGrant'
<1> USE DEF NoStaleGrant
<1>1. CASE Clock
  BY <1>1, ClockAsked, ClockGranted DEF PortOf
<1>2. ASSUME NEW d \in Clients, Arbitrate(d) PROVE NoStaleGrant'
  <2>1. UNCHANGED <<pc, readdata, registers>>
    BY <1>2 DEF Arbitrate, Drive, links
  <2>2. avalon_state # "s_write_request_accept"
    BY <1>2 DEF Arbitrate, Drive, IInv, HandshakeOK, csr_write
  <2> QED BY <2>1, <2>2 DEF IInv, Asked, Granted, InCritical, registers, PortOf
<1>3. ASSUME NEW d \in Clients, LocalStep(d) PROVE NoStaleGrant'
  <2>1. UNCHANGED <<avalon_state, lock_request_register, lock_status_register, bus>>
    BY <1>3, LocalStepFrame DEF server, registers
  <2> SUFFICES ASSUME NEW c \in Clients
               PROVE  /\ Asked(c)' => Asked(c)
                      /\ Granted(c)' => Granted(c)
    BY <2>1 DEF IInv, PortOf
  <2>2. CASE pc'[c] = pc[c]
    <3>1. readdata'[c] = readdata[c]
      BY <1>3, <2>2, LocalStepControl
    <3> QED BY <2>1, <2>2, <3>1 DEF Asked, Granted, InCritical, PortOf
  <2>3. CASE pc'[c] # pc[c]
    <3>1. c = d /\ readdata'[c] = None
      BY <1>3, <2>3, LocalStepControl
    <3>2. Status(PortOf(c)) # None
      BY SvmLockAssumption DEF Status, HOST_ACCESS, DEVICE_ACCESS
    <3> QED BY <1>3, <2>3, <3>1, <3>2, LocalGrant DEF Granted, PortOf
  <2> QED BY <2>2, <2>3
<1>4. CASE UNCHANGED vars
  BY <1>4 DEF vars, server, registers, links, IInv, Asked, Granted, InCritical, PortOf
<1> QED BY <1>1, <1>2, <1>3, <1>4, NextSplit

LEMMA InitIInv == Init => IInv
<1> SUFFICES ASSUME Init PROVE IInv
  OBVIOUS
<1>1. TypeOK
  BY InitType
<1>2. HandshakeOK /\ BusMatches
  BY DEF Init, ServerInit, HandshakeOK, BusMatches
<1>3. ReadMatches
  BY DEF Init, ServerInit, ReadMatches
<1>4. NoStaleGrant
  <2>1. \A i \in Ports : Status(i) # None
    BY SvmLockAssumption DEF Status, HOST_ACCESS, DEVICE_ACCESS
  <2> QED
    BY <2>1 DEF Init, ServerInit, NoStaleGrant, Asked, Granted, InCritical, Critical,
                PortOf, Ports
<1> QED BY <1>1, <1>2, <1>3, <1>4 DEF IInv

LEMMA IInvStep ==
  ASSUME OneClientPerSide, IInv, [Next]_vars
  PROVE  IInv'
<1>1. HandshakeOK'
  BY ServerStep, HandshakeStep DEF IInv, TypeOK
<1> QED BY <1>1, TypeStep, BusStep, ReadStep, GrantStep DEF IInv

\* The bus, the reads in flight and the grants stay consistent in every state.
THEOREM IInvariant == OneClientPerSide => (Spec => []IInv)
<1> SUFFICES ASSUME OneClientPerSide PROVE Spec => []IInv
  OBVIOUS
<1>1. IInv /\ [Next]_vars => IInv'
  BY IInvStep
<1> QED BY <1>1, InitIInv, PTL DEF Spec

\* Every variable keeps its type.
THEOREM TypeCorrect == OneClientPerSide => (Spec => []TypeOK)
<1>1. IInv => TypeOK
  BY DEF IInv
<1> QED BY <1>1, IInvariant, PTL

\* A client in its critical section has the lock, and no release of its side
\* is on the way to take it from it.
THEOREM CriticalSectionIsGranted == OneClientPerSide => (Spec => []CriticalIsGranted)
<1>1. IInv => CriticalIsGranted
  BY DEF IInv, NoStaleGrant, CriticalIsGranted, Asked, Granted, InCritical
<1> QED BY <1>1, IInvariant, PTL

\* The host and the device are never in their critical sections together.
THEOREM LockExcludes == OneClientPerSide => (Spec => []MutualExclusion)
<1> SUFFICES ASSUME OneClientPerSide PROVE Spec => []MutualExclusion
  OBVIOUS
<1>1. IInv => MutualExclusion
  <2> SUFFICES ASSUME IInv, NEW c \in Clients, NEW d \in Clients, c # d,
                      InCritical(c), InCritical(d)
               PROVE  FALSE
    BY DEF MutualExclusion
  <2>1. PortOf(c) # PortOf(d)
    BY SvmLockAssumption DEF OneClientPerSide, Clients, PortOf, HostPort, DevicePort
  <2>2. Access(PortOf(c)) = Access(PortOf(d))
    BY DEF IInv, NoStaleGrant, Granted
  <2> QED BY <2>1, <2>2 DEF Access, PortOf, HostPort, DevicePort
<1> QED BY <1>1, IInvariant, PTL

-----------------------------------------------------------------------------
(***************************************************************************)
(* The shared word behind the lock: with one client on each side and a     *)
(* platform that orders data writes before releases, stores and adds are   *)
(* atomic, for every word size.                                            *)
(*                                                                         *)
(* The argument: a bridge reads the word, and writes the sum, inside its   *)
(* critical section; a host stores inside its own, and the lock excludes   *)
(* the two.  So the sum a bridge is about to write is made from the word   *)
(* as it is (SumIsFresh), and its write is an atomic add.  Every other     *)
(* step calls, returns, fails, aborts or is invisible; the add's answer    *)
(* needs that a bridge still at work has no page fault left over from an   *)
(* earlier operation (RetvalClear).                                        *)
(***************************************************************************)

\* Nothing orders writes late: every data write is in memory at once.
WritesInOrder == Delayed = {}

IdleStates    == {"off", "init", "idle", "s_idle"}
ReleaseStates == {"rel_read", "rel_wait", "rel_write"}
AnswerStates  == {"s_release_lock", "s_done"}

NothingPosted == \A c \in Clients : posted[c] = None

SumIsFresh ==
  \A b \in Bridges : pc[b] = "s_write_data" => recv_data[b] = (word + operand[b]) % Modulus

RetvalClear ==
  \A b \in Bridges : pc[b] \notin IdleStates \cup AnswerStates => retval[b] = 0

CellInv == IInv /\ NothingPosted /\ SumIsFresh /\ RetvalClear

-----------------------------------------------------------------------------
\* What the control state of a client means for the word's users.
PhaseMap ==
  \A c \in Clients :
    /\ pc[c] \in IdleStates => Phase(c) = "idle"
    /\ pc[c] \in ReleaseStates => Phase(c) = "done"
    /\ pc[c] \in AnswerStates /\ retval[c] = 1 => Phase(c) = "failed"
    /\ pc[c] \in AnswerStates /\ retval[c] # 1 => Phase(c) = "done"
    /\ pc[c] \notin IdleStates \cup ReleaseStates \cup AnswerStates => Phase(c) = "pending"

LEMMA PhaseOf == PhaseMap
<1> SUFFICES ASSUME NEW c \in Clients
    PROVE  /\ pc[c] \in IdleStates => Phase(c) = "idle"
           /\ pc[c] \in ReleaseStates => Phase(c) = "done"
           /\ pc[c] \in AnswerStates /\ retval[c] = 1 => Phase(c) = "failed"
           /\ pc[c] \in AnswerStates /\ retval[c] # 1 => Phase(c) = "done"
           /\ pc[c] \notin IdleStates \cup ReleaseStates \cup AnswerStates => Phase(c) = "pending"
  BY DEF PhaseMap
<1>1. CASE pc[c] \in IdleStates
  <2>1. /\ pc[c] \notin ReleaseStates
        /\ pc[c] \notin AnswerStates
    BY <1>1 DEF IdleStates, ReleaseStates, AnswerStates
  <2> QED BY <1>1, <2>1, Zenon DEF Phase, IdleStates, ReleaseStates, AnswerStates
<1>2. CASE pc[c] \in ReleaseStates
  <2>1. pc[c] \notin IdleStates /\ pc[c] \notin AnswerStates
    BY <1>2 DEF IdleStates, ReleaseStates, AnswerStates
  <2> QED BY <1>2, <2>1, Zenon DEF Phase, IdleStates, ReleaseStates, AnswerStates
<1>3. CASE pc[c] \in AnswerStates
  <2>1. pc[c] \notin IdleStates /\ pc[c] \notin ReleaseStates
    BY <1>3 DEF IdleStates, ReleaseStates, AnswerStates
  <2> QED BY <1>3, <2>1, Zenon DEF Phase, IdleStates, ReleaseStates, AnswerStates
<1>4. CASE pc[c] \notin IdleStates \cup ReleaseStates \cup AnswerStates
  BY <1>4, Zenon DEF Phase, IdleStates, ReleaseStates, AnswerStates
<1> QED BY <1>1, <1>2, <1>3, <1>4

LEMMA PhaseOfNext == PhaseMap'
  BY PhaseOf, PTL

\* With writes in order a data write changes the word itself.
LEMMA WriteInOrder ==
  ASSUME WritesInOrder, NEW c \in Clients, NEW v, WriteWord(c, v)
  PROVE  word' = v /\ posted' = posted
  BY DEF WritesInOrder, WriteWord

\* What an edge of the server's clock does to a client: its command is
\* accepted, or nothing.
LEMMA ClockMoves ==
  ASSUME IInv, Clock, NEW c \in Clients, pc'[c] # pc[c]
  PROVE  /\ pc[c] \in Commanding
         /\ pc' = [pc EXCEPT ![c] = Accepted(c)]
  BY DEF Clock, IInv, TypeOK, ServerTypeOK, HandshakeOK, BusMatches, csr_waitrequest, csr_write,
         csr_read

-----------------------------------------------------------------------------
(***************************************************************************)
(* The word and the sums made from it.                                     *)
(***************************************************************************)

LEMMA NothingPostedStep ==
  ASSUME WritesInOrder, CellInv, [Next]_vars
  PROVE  NothingPosted'
<1> USE DEF CellInv, NothingPosted
<1>1. CASE Clock \/ (\E c \in Clients : Arbitrate(c)) \/ UNCHANGED vars
  BY <1>1 DEF Clock, Arbitrate, vars, memory
<1>2. ASSUME NEW c \in Clients, LocalStep(c) PROVE NothingPosted'
  <2>1. CASE Land(c)
    BY <2>1 DEF Land
  <2>2. ASSUME c \in Hosts, StoreData(c) PROVE NothingPosted'
    BY <2>2, WriteInOrder DEF StoreData
  <2>3. ASSUME c \in Bridges, DataWritten(c) PROVE NothingPosted'
    BY <2>3, WriteInOrder DEF DataWritten
  <2> QED
    BY <1>2, <2>1, <2>2, <2>3
    DEF LocalStep, HostNext, HostStart, CallAtomicStore, HostExit, AcquirePolled,
        ReleasePolled, BridgeNext, AcceptAdd, KernelReset, LockStatusRead,
        MemoryReadAccepted, DescriptorRead, DataRead, ResultTaken, memory
<1> QED BY <1>1, <1>2, NextSplit

\* Only a client in its critical section changes the word.
LEMMA WordChange ==
  ASSUME WritesInOrder, CellInv, NEW c \in Clients, LocalStep(c), word' # word
  PROVE  InCritical(c)
<1> USE DEF CellInv, NothingPosted
<1>1. CASE Land(c)
  BY <1>1 DEF Land
<1>2. ASSUME c \in Hosts, StoreData(c) PROVE InCritical(c)
  BY <1>2 DEF StoreData, Goto, InCritical, Critical
<1>3. ASSUME c \in Bridges, DataWritten(c) PROVE InCritical(c)
  BY <1>3 DEF DataWritten, Goto, InCritical, Critical
<1> QED
  BY <1>1, <1>2, <1>3
  DEF LocalStep, HostNext, HostStart, CallAtomicStore, HostExit, AcquirePolled,
      ReleasePolled, BridgeNext, AcceptAdd, KernelReset, LockStatusRead,
      MemoryReadAccepted, DescriptorRead, DataRead, ResultTaken, memory

LEMMA SumIsFreshStep ==
  ASSUME OneClientPerSide, WritesInOrder, CellInv, [Next]_vars
  PROVE  SumIsFresh'
<1> SUFFICES ASSUME NEW b \in Bridges, pc'[b] = "s_write_data"
             PROVE  recv_data'[b] = (word' + operand'[b]) % Modulus
  BY DEF SumIsFresh
<1> USE DEF Clients
<1>1. CASE Clock
  <2>1. pc[b] = "s_write_data"
    <3> SUFFICES ASSUME pc'[b] # pc[b] PROVE FALSE
      OBVIOUS
    <3>1. pc[b] \in Commanding /\ pc'[b] = Accepted(b)
      BY <1>1, ClockMoves DEF CellInv, IInv, TypeOK
    <3> QED BY <3>1 DEF Commanding, Accepted
  <2> QED BY <1>1, <2>1 DEF Clock, bridge, memory, CellInv, SumIsFresh
<1>2. ASSUME NEW c \in Clients, Arbitrate(c)
      PROVE  recv_data'[b] = (word' + operand'[b]) % Modulus
  BY <1>2 DEF Arbitrate, bridge, memory, CellInv, SumIsFresh
<1>3. ASSUME NEW c \in Clients, LocalStep(c)
      PROVE  recv_data'[b] = (word' + operand'[b]) % Modulus
  <2>1. CASE c = b
    <3>1. c \notin Hosts
      BY <2>1, SvmLockAssumption
    <3>2. CASE DataRead(b)
      BY <3>2 DEF DataRead, Goto, memory, CellInv, IInv, TypeOK
    <3>3. ASSUME ~DataRead(b) PROVE FALSE
      BY <1>3, <2>1, <3>1, <3>3
      DEF LocalStep, Land, BridgeNext, AcceptAdd, KernelReset, LockStatusRead,
          MemoryReadAccepted, DescriptorRead, DataWritten, ResultTaken, Goto,
          CellInv, NothingPosted, IInv, TypeOK
    <3> QED BY <3>2, <3>3
  <2>2. CASE c # b
    <3>1. pc[b] = "s_write_data"
      BY <1>3, <2>2, LocalStepControl DEF CellInv
    <3>2. c \in Hosts
      BY <2>2 DEF OneClientPerSide
    <3>3. word' = word
      <4> SUFFICES ASSUME word' # word PROVE FALSE
        OBVIOUS
      <4>1. InCritical(c) /\ InCritical(b)
        BY <1>3, <3>1, WordChange DEF InCritical, Critical
      <4>2. Access(PortOf(c)) = Access(PortOf(b))
        BY <4>1 DEF CellInv, IInv, NoStaleGrant, Granted
      <4> QED BY <3>2, <4>2, SvmLockAssumption DEF Access, PortOf, HostPort, DevicePort
    <3>4. recv_data' = recv_data /\ operand'[b] = operand[b]
      BY <1>3, <2>2, <3>2, SvmLockAssumption
      DEF LocalStep, Land, HostNext, HostStart, CallAtomicStore, HostExit, AcquirePolled,
          StoreData, ReleasePolled, bridge, CellInv, IInv, TypeOK
    <3> QED BY <3>1, <3>3, <3>4 DEF CellInv, SumIsFresh
  <2> QED BY <2>1, <2>2
<1>4. CASE UNCHANGED vars
  BY <1>4 DEF vars, bridge, memory, CellInv, SumIsFresh
<1> QED BY <1>1, <1>2, <1>3, <1>4, NextSplit

LEMMA RetvalClearStep ==
  ASSUME CellInv, [Next]_vars
  PROVE  RetvalClear'
<1> SUFFICES ASSUME NEW b \in Bridges, pc'[b] \notin IdleStates \cup AnswerStates
             PROVE  retval'[b] = 0
  BY DEF RetvalClear
<1> USE DEF Clients
<1>1. CASE Clock
  <2>1. pc[b] \notin IdleStates \cup AnswerStates
    <3>1. CASE pc'[b] = pc[b]
      BY <3>1
    <3>2. CASE pc'[b] # pc[b]
      <4>1. pc[b] \in Commanding /\ pc'[b] = Accepted(b)
        BY <1>1, <3>2, ClockMoves DEF CellInv, IInv, TypeOK
      <4> QED BY <4>1 DEF Commanding, Accepted, IdleStates, AnswerStates
    <3> QED BY <3>1, <3>2
  <2> QED BY <1>1, <2>1 DEF Clock, bridge, CellInv, RetvalClear
<1>2. ASSUME NEW c \in Clients, Arbitrate(c) PROVE retval'[b] = 0
  BY <1>2 DEF Arbitrate, bridge, CellInv, RetvalClear
<1>3. ASSUME NEW c \in Clients, LocalStep(c) PROVE retval'[b] = 0
  <2>1. CASE c = b
    <3> USE <1>3, <2>1, SvmLockAssumption
        DEF CellInv, RetvalClear, IInv, TypeOK, Goto, bridge, IdleStates, AnswerStates
    <3>1. CASE Land(b)
      BY <3>1 DEF Land
    <3>2. CASE AcceptAdd(b)
      BY <3>2 DEF AcceptAdd
    <3>3. CASE DescriptorRead(b)
      BY <3>3 DEF DescriptorRead
    <3> QED
      BY <3>1, <3>2, <3>3
      DEF LocalStep, BridgeNext, KernelReset, LockStatusRead, MemoryReadAccepted,
          DataRead, DataWritten, ResultTaken
  <2>2. CASE c # b
    <3>1. pc'[b] = pc[b]
      BY <1>3, <2>2, LocalStepControl DEF CellInv
    <3>2. retval'[b] = retval[b]
      BY <1>3, <2>2
      DEF LocalStep, Land, HostNext, HostStart, CallAtomicStore, HostExit, AcquirePolled,
          StoreData, ReleasePolled, BridgeNext, AcceptAdd, KernelReset, LockStatusRead,
          MemoryReadAccepted, DescriptorRead, DataRead, DataWritten, ResultTaken, bridge,
          CellInv, IInv, TypeOK
    <3> QED BY <3>1, <3>2 DEF CellInv, RetvalClear
  <2> QED BY <2>1, <2>2
<1>4. CASE UNCHANGED vars
  BY <1>4 DEF vars, bridge, CellInv, RetvalClear
<1> QED BY <1>1, <1>2, <1>3, <1>4, NextSplit

LEMMA CellInvStep ==
  ASSUME OneClientPerSide, WritesInOrder, CellInv, [Next]_vars
  PROVE  CellInv'
  BY IInvStep, NothingPostedStep, SumIsFreshStep, RetvalClearStep DEF CellInv

LEMMA CellInvInit == Init => CellInv
<1> SUFFICES ASSUME Init PROVE CellInv
  OBVIOUS
<1>1. NothingPosted /\ SumIsFresh /\ RetvalClear
  BY SvmLockAssumption DEF Init, NothingPosted, SumIsFresh, RetvalClear, Clients, IdleStates
<1> QED BY <1>1, InitIInv DEF CellInv

LEMMA CellInvariant == OneClientPerSide /\ WritesInOrder => (Spec => []CellInv)
<1> SUFFICES ASSUME OneClientPerSide, WritesInOrder PROVE Spec => []CellInv
  OBVIOUS
<1>1. CellInv /\ [Next]_vars => CellInv'
  BY CellInvStep
<1> QED BY <1>1, CellInvInit, PTL DEF Spec

\* No store comes between a bridge's read of the word and its write of the sum.
THEOREM AddsAreFresh == OneClientPerSide /\ WritesInOrder => (Spec => []AddIsFresh)
<1>1. CellInv => AddIsFresh
  BY DEF CellInv, NothingPosted, SumIsFresh, AddIsFresh, Clients
<1> QED BY <1>1, CellInvariant, PTL

-----------------------------------------------------------------------------
(***************************************************************************)
(* The refinement.                                                         *)
(***************************************************************************)

Phases == [c \in Clients |-> Phase(c)]

\* A step in which one client's phase moves, and nothing else that the users of
\* the word see, is invisible or one of the client's own steps.
LEMMA QuietStep ==
  ASSUME NEW c \in Clients,
         word' = word, operand' = operand,
         \A d \in Clients : d # c => Phase(d)' = Phase(d),
         \/ Phase(c)' = Phase(c)
         \/ Phase(c) \in {"done", "failed", "pending"} /\ Phase(c)' = "idle"
         \/ c \in Bridges /\ Phase(c) = "pending" /\ Phase(c)' = "failed"
  PROVE  [Cell!CellNext]_(Cell!cellVars)
<1>1. CASE Phase(c)' = Phase(c)
  <2>1. Phases' = Phases
    BY <1>1 DEF Phases
  <2> QED BY <2>1 DEF Cell!cellVars, Phases
<1>2. CASE Phase(c)' # Phase(c)
  <2>1. Phases' = [Phases EXCEPT ![c] = Phase(c)'] /\ Phases[c] = Phase(c)
    BY DEF Phases
  <2>2. Cell!Return(c) \/ Cell!Abort(c) \/ Cell!Fail(c)
    BY <1>2, <2>1 DEF Cell!Return, Cell!Abort, Cell!Fail, Cell!Move, Phases
  <2> QED BY <2>2 DEF Cell!CellNext, Cell!Users, Clients
<1> QED BY <1>1, <1>2

\* The phase of a client that does not move stays, if its answer does.
LEMMA PhaseFrame ==
  ASSUME NEW c \in Clients, pc'[c] = pc[c],
         pc[c] \in AnswerStates => retval'[c] = retval[c]
  PROVE  Phase(c)' = Phase(c)
<1>1. CASE pc[c] \in AnswerStates
  BY <1>1 DEF Phase, AnswerStates
<1>2. CASE pc[c] \notin AnswerStates
  BY <1>2 DEF Phase, AnswerStates
<1> QED BY <1>1, <1>2

\* An accepted command leaves its client's phase alone, or ends its operation.
LEMMA ClockSimulates ==
  ASSUME CellInv, Clock
  PROVE  [Cell!CellNext]_(Cell!cellVars)
<1>1. word' = word /\ operand' = operand /\ retval' = retval
  BY DEF Clock, memory, bridge
<1>2. CASE pc' = pc
  <2>1. Phases' = Phases
    BY <1>1, <1>2, PhaseFrame DEF Phases
  <2> QED BY <1>1, <2>1 DEF Cell!cellVars, Phases
<1>3. CASE pc' # pc
  <2>1. PICK c \in Clients : pc'[c] # pc[c]
    <3>1. pc \in [Clients -> HostStates \cup BridgeStates]
      BY DEF CellInv, IInv, TypeOK
    <3>2. pc' = pc \/ pc' = [pc EXCEPT ![bus.master] = Accepted(bus.master)]
      BY DEF Clock
    <3> QED BY <1>3, <3>1, <3>2
  <2>2. pc[c] \in Commanding /\ pc' = [pc EXCEPT ![c] = Accepted(c)]
    BY <2>1, ClockMoves DEF CellInv
  <2>3. pc'[c] = Accepted(c)
    BY <2>2 DEF CellInv, IInv, TypeOK
  <2>4. \A d \in Clients : d # c => Phase(d)' = Phase(d)
    BY <1>1, <2>2, PhaseFrame DEF CellInv, IInv, TypeOK
  <2>5. \/ Phase(c)' = Phase(c)
        \/ Phase(c) = "done" /\ Phase(c)' = "idle"
    <3>1. CASE pc[c] \in {"init", "rel_write"}
      <4>1. pc'[c] = "idle"
        BY <2>3, <3>1 DEF Accepted
      <4> QED BY <3>1, <4>1, PhaseOf, PhaseOfNext DEF PhaseMap, IdleStates, ReleaseStates
    <3>2. CASE pc[c] = "rel_read"
      <4>1. pc'[c] = "rel_wait"
        BY <2>3, <3>2 DEF Accepted
      <4> QED BY <3>2, <4>1, PhaseOf, PhaseOfNext DEF PhaseMap, ReleaseStates
    <3>3. CASE pc[c] = "s_release_lock"
      <4>1. pc'[c] = "s_done"
        BY <2>3, <3>3 DEF Accepted
      <4> QED BY <1>1, <3>3, <4>1, PhaseOf, PhaseOfNext DEF PhaseMap, AnswerStates
    <3>4. CASE pc[c] \in {"acq_write", "acq_read", "s_request_lock", "s_read_lock_status"}
      <4>1. pc'[c] \in {"acq_read", "acq_wait", "s_read_lock_status", "s_read_lock_status_done"}
        BY <2>3, <3>4 DEF Accepted
      <4> QED BY <3>4, <4>1, PhaseOf, PhaseOfNext
              DEF PhaseMap, IdleStates, ReleaseStates, AnswerStates
    <3> QED BY <2>2, <3>1, <3>2, <3>3, <3>4 DEF Commanding
  <2> QED BY <1>1, <2>4, <2>5, QuietStep
<1> QED BY <1>2, <1>3

\* A host's steps: the call, the store, and steps that the word does not see.
LEMMA HostSimulates ==
  ASSUME WritesInOrder, CellInv, NEW h \in Hosts, LocalStep(h),
         \A d \in Clients : d # h => Phase(d)' = Phase(d)
  PROVE  [Cell!CellNext]_(Cell!cellVars)
<1> USE DEF Clients, CellInv, IInv, TypeOK, Goto
<1>0. h \notin Bridges /\ pc[h] \in HostStates /\ pc[h] \notin AnswerStates
  BY SvmLockAssumption DEF HostStates, AnswerStates
<1>1. CASE StoreData(h)
  <2>1. word' = operand[h] /\ operand' = operand /\ pc[h] = "store" /\ pc'[h] = "rel_read"
    BY <1>1, WriteInOrder DEF StoreData
  <2>2. Phase(h) = "pending" /\ Phase(h)' = "done"
    BY <2>1, PhaseOf, PhaseOfNext DEF PhaseMap, IdleStates, ReleaseStates, AnswerStates
  <2>3. Phases' = [Phases EXCEPT ![h] = "done"] /\ Phases[h] = "pending"
    BY <2>2 DEF Phases
  <2>4. Cell!Apply(h)
    BY <2>1, <2>3 DEF Cell!Apply, Cell!Move, Phases
  <2> QED BY <2>4 DEF Cell!CellNext, Cell!Users
<1>2. CASE CallAtomicStore(h)
  <2>1. /\ pc[h] = "idle" /\ pc'[h] = "acq_write" /\ word' = word
        /\ \E v \in Word : operand' = [operand EXCEPT ![h] = v]
    BY <1>2 DEF CallAtomicStore, memory
  <2>2. Phase(h) = "idle" /\ Phase(h)' = "pending"
    BY <2>1, PhaseOf, PhaseOfNext DEF PhaseMap, IdleStates, ReleaseStates, AnswerStates
  <2>3. Phases' = [Phases EXCEPT ![h] = "pending"] /\ Phases[h] = "idle"
    BY <2>2 DEF Phases
  <2>4. Cell!Invoke(h)
    BY <2>1, <2>3 DEF Cell!Invoke, Cell!Move, Phases, Word
  <2> QED BY <2>4 DEF Cell!CellNext, Cell!Users
<1>3. CASE ~StoreData(h) /\ ~CallAtomicStore(h)
  <2>1. /\ word' = word /\ operand' = operand
        /\ \/ pc'[h] = pc[h]
           \/ pc'[h] \in IdleStates
           \/ pc[h] = "acq_wait" /\ pc'[h] \in {"store", "acq_read"}
           \/ pc[h] = "off" /\ pc'[h] = "init"
           \/ pc[h] = "rel_wait" /\ pc'[h] = "rel_write"
    BY <1>0, <1>3
    DEF LocalStep, Land, NothingPosted, HostNext, HostStart, HostExit, AcquirePolled,
        ReleasePolled, memory, IdleStates
  <2>2. \/ Phase(h)' = Phase(h)
        \/ Phase(h) \in {"done", "pending"} /\ Phase(h)' = "idle"
    <3>1. CASE pc'[h] = pc[h]
      BY <1>0, <3>1, PhaseFrame
    <3>2. CASE pc'[h] \in IdleStates
      BY <1>0, <3>2, PhaseOf, PhaseOfNext DEF PhaseMap
    <3>3. CASE pc[h] = "acq_wait" /\ pc'[h] \in {"store", "acq_read"}
      BY <3>3, PhaseOf, PhaseOfNext DEF PhaseMap, IdleStates, ReleaseStates, AnswerStates
    <3>4. CASE pc[h] = "off" /\ pc'[h] = "init"
      BY <3>4, PhaseOf, PhaseOfNext DEF PhaseMap, IdleStates
    <3>5. CASE pc[h] = "rel_wait" /\ pc'[h] = "rel_write"
      BY <3>5, PhaseOf, PhaseOfNext DEF PhaseMap, ReleaseStates
    <3> QED BY <2>1, <3>1, <3>2, <3>3, <3>4, <3>5
  <2> QED BY <2>1, <2>2, QuietStep
<1> QED BY <1>1, <1>2, <1>3

\* A bridge's steps: the push, the write, the page fault, and steps that the
\* word does not see.
LEMMA BridgeSimulates ==
  ASSUME WritesInOrder, CellInv, NEW b \in Bridges, LocalStep(b),
         \A d \in Clients : d # b => Phase(d)' = Phase(d)
  PROVE  [Cell!CellNext]_(Cell!cellVars)
<1> USE DEF Clients, CellInv, IInv, TypeOK, Goto
<1>0. b \notin Hosts /\ pc[b] \in BridgeStates /\ pc[b] \notin ReleaseStates
  BY SvmLockAssumption DEF BridgeStates, ReleaseStates
<1>1. CASE DataWritten(b)
  <2>1. /\ word' = recv_data[b] /\ operand' = operand /\ retval' = retval
        /\ pc[b] = "s_write_data" /\ pc'[b] = "s_release_lock"
    BY <1>1, WriteInOrder DEF DataWritten, bridge
  <2>2. word' = (word + operand[b]) % Modulus /\ retval'[b] = 0
    BY <2>1 DEF SumIsFresh, RetvalClear, IdleStates, AnswerStates
  <2>3. Phase(b) = "pending" /\ Phase(b)' = "done"
    BY <2>1, <2>2, PhaseOf, PhaseOfNext DEF PhaseMap, IdleStates, ReleaseStates, AnswerStates
  <2>4. Phases' = [Phases EXCEPT ![b] = "done"] /\ Phases[b] = "pending"
    BY <2>3 DEF Phases
  <2>5. Cell!Apply(b)
    BY <1>0, <2>1, <2>2, <2>4 DEF Cell!Apply, Cell!Move, Phases
  <2> QED BY <2>5 DEF Cell!CellNext, Cell!Users
<1>2. CASE AcceptAdd(b)
  <2>1. /\ pc[b] = "s_idle" /\ pc'[b] = "s_request_lock" /\ word' = word
        /\ \E v \in Word : operand' = [operand EXCEPT ![b] = v]
    BY <1>2 DEF AcceptAdd, memory
  <2>2. Phase(b) = "idle" /\ Phase(b)' = "pending"
    BY <2>1, PhaseOf, PhaseOfNext DEF PhaseMap, IdleStates, ReleaseStates, AnswerStates
  <2>3. Phases' = [Phases EXCEPT ![b] = "pending"] /\ Phases[b] = "idle"
    BY <2>2 DEF Phases
  <2>4. Cell!Invoke(b)
    BY <2>1, <2>3 DEF Cell!Invoke, Cell!Move, Phases, Word
  <2> QED BY <2>4 DEF Cell!CellNext, Cell!Users
<1>3. CASE ~DataWritten(b) /\ ~AcceptAdd(b)
  <2> DEFINE Working == BridgeStates \ {"s_idle", "s_release_lock", "s_done"}
  <2>1. /\ word' = word /\ operand' = operand
        /\ \/ pc'[b] = pc[b] /\ retval' = retval
           \/ pc'[b] = "s_idle"
           \/ pc[b] \in Working /\ pc'[b] \in Working
           \/ pc[b] \in Working /\ pc'[b] = "s_release_lock" /\ retval'[b] = 1
    BY <1>0, <1>3
    DEF LocalStep, Land, NothingPosted, BridgeNext, KernelReset, LockStatusRead,
        MemoryReadAccepted, DescriptorRead, DataRead, ResultTaken, memory, bridge, BridgeStates
  <2>2. \/ Phase(b)' = Phase(b)
        \/ Phase(b) \in {"done", "failed", "pending"} /\ Phase(b)' = "idle"
        \/ Phase(b) = "pending" /\ Phase(b)' = "failed"
    <3>1. CASE pc'[b] = pc[b] /\ retval' = retval
      BY <3>1, PhaseFrame
    <3>2. CASE pc'[b] = "s_idle"
      BY <3>2, PhaseOf, PhaseOfNext DEF PhaseMap, IdleStates
    <3>3. CASE pc[b] \in Working /\ pc'[b] \in Working
      BY <3>3, PhaseOf, PhaseOfNext
      DEF PhaseMap, IdleStates, ReleaseStates, AnswerStates, BridgeStates
    <3>4. CASE pc[b] \in Working /\ pc'[b] = "s_release_lock" /\ retval'[b] = 1
      BY <3>4, PhaseOf, PhaseOfNext
      DEF PhaseMap, IdleStates, ReleaseStates, AnswerStates, BridgeStates
    <3> QED BY <2>1, <3>1, <3>2, <3>3, <3>4
  <2> QED BY <2>1, <2>2, QuietStep
<1> QED BY <1>1, <1>2, <1>3

LEMMA CellStep ==
  ASSUME WritesInOrder, CellInv, [Next]_vars
  PROVE  [Cell!CellNext]_(Cell!cellVars)
<1>1. CASE Clock
  BY <1>1, ClockSimulates
<1>2. ASSUME pc' = pc, word' = word, operand' = operand, retval' = retval
      PROVE  [Cell!CellNext]_(Cell!cellVars)
  <2>1. Phases' = Phases
    BY <1>2, PhaseFrame DEF Phases
  <2> QED BY <1>2, <2>1 DEF Cell!cellVars, Phases
<1>3. CASE (\E c \in Clients : Arbitrate(c)) \/ UNCHANGED vars
  BY <1>2, <1>3 DEF Arbitrate, vars, memory, bridge
<1>4. ASSUME NEW c \in Clients, LocalStep(c) PROVE [Cell!CellNext]_(Cell!cellVars)
  <2>1. ASSUME NEW d \in Clients, d # c PROVE Phase(d)' = Phase(d)
    <3>1. pc'[d] = pc[d]
      BY <1>4, <2>1, LocalStepControl DEF CellInv
    <3>2. CASE d \in Bridges
      <4>1. retval'[d] = retval[d]
        BY <1>4, <2>1, <3>2
        DEF LocalStep, Land, HostNext, HostStart, CallAtomicStore, HostExit, AcquirePolled,
            StoreData, ReleasePolled, BridgeNext, AcceptAdd, KernelReset, LockStatusRead,
            MemoryReadAccepted, DescriptorRead, DataRead, DataWritten, ResultTaken, bridge,
            CellInv, IInv, TypeOK
      <4> QED BY <3>1, <4>1, PhaseFrame
    <3>3. CASE d \in Hosts
      <4>1. pc[d] \notin AnswerStates
        BY <3>3 DEF CellInv, IInv, TypeOK, HostStates, AnswerStates
      <4> QED BY <3>1, <4>1, PhaseFrame
    <3> QED BY <3>2, <3>3 DEF Clients
  <2> QED BY <1>4, <2>1, HostSimulates, BridgeSimulates DEF Clients
<1> QED BY <1>1, <1>3, <1>4, NextSplit

LEMMA CellStart == Init => Cell!CellInit
<1> SUFFICES ASSUME Init PROVE Cell!CellInit
  OBVIOUS
<1>1. \A c \in Clients : Phase(c) = "idle"
  BY PhaseOf DEF PhaseMap, Init, IdleStates
<1>2. word = 0 /\ operand = [c \in Clients |-> 0]
  BY DEF Init
<1> QED BY <1>1, <1>2 DEF Cell!CellInit, Cell!Users, Clients

\* A store and an add each take effect at one instant between their call and
\* their return, or not at all: the lock service implements the atomic word.
THEOREM StoresAndAddsAreAtomic ==
  OneClientPerSide /\ WritesInOrder => (Spec => ImplementsAtomicCell)
<1> SUFFICES ASSUME OneClientPerSide, WritesInOrder PROVE Spec => ImplementsAtomicCell
  OBVIOUS
<1>1. CellInv /\ [Next]_vars => [Cell!CellNext]_(Cell!cellVars)
  BY CellStep
<1> QED BY <1>1, CellStart, CellInvariant, PTL DEF Spec, ImplementsAtomicCell, Cell!CellSpec
=============================================================================
