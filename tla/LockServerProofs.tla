-------------------------- MODULE LockServerProofs --------------------------
(***************************************************************************)
(* Theorems about the lock server under arbitrary bus traffic, for every   *)
(* set of masters.                                                         *)
(*                                                                         *)
(* The argument: a release that can be served is served on the edge after  *)
(* it was written, because that edge is an accept cycle in which no other  *)
(* write intervenes (ReleaseIsFresh).  So when the status becomes free, no *)
(* write arrives on the same edge, and at most one register can hold an    *)
(* acquire; a second acquire is written two cycles later at the earliest,  *)
(* when the first is served already.  Hence the two request_serviced       *)
(* signals are never high together (OneServicePerCycle).                   *)
(***************************************************************************)
EXTENDS LockServer, TLAPS

\* Two registers never both ask for a free lock.
OneAcquirePerGrant ==
  lock_status_register = "s_noaccess" =>
    ~(lock_request_register[HostPort] = "s_acquire"
      /\ lock_request_register[DevicePort] = "s_acquire")

ServerInv ==
  /\ ServerTypeOK
  /\ HandshakeOK
  /\ ReleaseIsFresh
  /\ OneAcquirePerGrant

LEMMA BusRequestType ==
  ASSUME NEW r \in BusRequests
  PROVE  /\ r.op \in {"read", "write"}
         /\ r.op = "write" => r.address \in Ports /\ r.data \in {ReleaseCommand, AcquireCommand}
  BY DEF BusRequests, WriteRequest, ReadRequest

LEMMA ServerTypeStep == ServerTypeOK /\ [ServerNext]_server => ServerTypeOK'
<1> SUFFICES ASSUME ServerTypeOK, [ServerNext]_server PROVE ServerTypeOK'
  OBVIOUS
<1> USE DEF ServerTypeOK, Requests, Statuses, Ports, HostPort, DevicePort
<1>1. CASE ClockEdge
  <2>1. avalon_state' \in {"s_idle", "s_write_request_accept", "s_read_request_accept"}
    BY <1>1 DEF ClockEdge, slave_response_proc
  <2>2. lock_request_register' \in [Ports -> Requests]
    BY <1>1, BusRequestType DEF ClockEdge, read_request_proc, csr_write
  <2>3. lock_status_register' \in Statuses
    BY <1>1 DEF ClockEdge, serve_request_proc, next_lock_status
  <2>4. read_request_reg' \in BOOLEAN
    BY <1>1 DEF ClockEdge, slave_response_proc
  <2>5. bus' \in BusRequests \cup {NoRequest}
    BY <1>1 DEF ClockEdge
  <2> QED BY <2>1, <2>2, <2>3, <2>4, <2>5
<1>2. ASSUME NEW r \in BusRequests, Drive(r) PROVE ServerTypeOK'
  BY <1>2 DEF Drive, registers
<1>3. CASE UNCHANGED server
  BY <1>3 DEF server, registers
<1> QED BY <1>1, <1>2, <1>3 DEF ServerNext

\* The handshake, and what it means for a fresh release.
LEMMA HandshakeStep ==
  ASSUME ServerTypeOK, HandshakeOK, [ServerNext]_server
  PROVE  HandshakeOK'
<1> USE DEF HandshakeOK, csr_write, csr_read
<1>1. CASE ClockEdge
  BY <1>1 DEF ClockEdge, slave_response_proc, csr_waitrequest, ServerTypeOK
<1>2. ASSUME NEW r \in BusRequests, Drive(r) PROVE HandshakeOK'
  BY <1>2 DEF Drive, registers, ServerTypeOK
<1>3. CASE UNCHANGED server
  BY <1>3 DEF server, registers
<1> QED BY <1>1, <1>2, <1>3 DEF ServerNext

LEMMA ReleaseIsFreshStep ==
  ASSUME ServerTypeOK, HandshakeOK, ReleaseIsFresh, [ServerNext]_server
  PROVE  ReleaseIsFresh'
<1> USE DEF ReleaseIsFresh, ServerTypeOK, Requests, Statuses, Ports, HostPort,
            DevicePort, Access
<1>1. CASE ClockEdge
  <2> SUFFICES ASSUME NEW i \in Ports,
                      lock_request_register'[i] = "s_release",
                      lock_status_register' = Access(i)
               PROVE  avalon_state' = "s_write_request_accept"
    OBVIOUS
  <2>1. CASE avalon_state = "s_idle" /\ csr_write
    BY <1>1, <2>1 DEF ClockEdge, slave_response_proc
  <2>2. CASE ~(avalon_state = "s_idle" /\ csr_write)
    <3>1. lock_request_register[i] = "s_release" /\ ~request_serviced(i)
      BY <1>1, <2>2 DEF ClockEdge, read_request_proc
    <3>2. lock_status_register # Access(i)
      BY <3>1 DEF request_serviced
    <3>3. lock_status_register' # Access(i)
      BY <1>1, <3>1, <3>2 DEF ClockEdge, serve_request_proc, next_lock_status
    <3> QED BY <3>3
  <2> QED BY <2>1, <2>2
<1>2. ASSUME NEW r \in BusRequests, Drive(r) PROVE ReleaseIsFresh'
  BY <1>2 DEF Drive, registers
<1>3. CASE UNCHANGED server
  BY <1>3 DEF server, registers
<1> QED BY <1>1, <1>2, <1>3 DEF ServerNext

LEMMA OneAcquireStep ==
  ASSUME ServerInv, [ServerNext]_server
  PROVE  OneAcquirePerGrant'
<1> USE DEF ServerInv, OneAcquirePerGrant, ServerTypeOK, Requests, Statuses, Ports,
            HostPort, DevicePort
<1>1. CASE ClockEdge
  <2> SUFFICES ASSUME lock_status_register' = "s_noaccess",
                      lock_request_register'[HostPort] = "s_acquire",
                      lock_request_register'[DevicePort] = "s_acquire"
               PROVE  FALSE
    OBVIOUS
  <2>1. CASE lock_status_register = "s_noaccess"
    \* Nobody asked, or the status would have moved; one write adds one acquire.
    <3>1. \A i \in Ports : lock_request_register[i] # "s_acquire"
      BY <1>1, <2>1 DEF ClockEdge, serve_request_proc, next_lock_status
    <3> QED
      BY <1>1, <3>1 DEF ClockEdge, read_request_proc
  <2>2. CASE lock_status_register # "s_noaccess"
    \* The edge serves a fresh release, so no write changes its register.
    <3>1. PICK i \in Ports : lock_request_register[i] = "s_release"
                             /\ lock_status_register = Access(i)
      BY <1>1, <2>2 DEF ClockEdge, serve_request_proc, next_lock_status, Access
    <3>2. avalon_state = "s_write_request_accept"
      BY <3>1 DEF ReleaseIsFresh
    <3>3. lock_request_register'[i] # "s_acquire"
      BY <1>1, <3>1, <3>2 DEF ClockEdge, read_request_proc
    <3> QED BY <3>3
  <2> QED BY <2>1, <2>2
<1>2. ASSUME NEW r \in BusRequests, Drive(r) PROVE OneAcquirePerGrant'
  BY <1>2 DEF Drive, registers
<1>3. CASE UNCHANGED server
  BY <1>3 DEF server, registers
<1> QED BY <1>1, <1>2, <1>3 DEF ServerNext

LEMMA ServerInitInv == ServerInit => ServerInv
  BY DEF ServerInit, ServerInv, ServerTypeOK, HandshakeOK, ReleaseIsFresh,
         OneAcquirePerGrant, Requests, Statuses, Ports, HostPort, DevicePort

LEMMA ServerInvStep == ServerInv /\ [ServerNext]_server => ServerInv'
  BY ServerTypeStep, HandshakeStep, ReleaseIsFreshStep, OneAcquireStep DEF ServerInv

LEMMA ServerInvariant == ServerSpec => []ServerInv
  BY ServerInitInv, ServerInvStep, PTL DEF ServerSpec

\* The registers keep the types the VHDL declares.
THEOREM ServerTypeCorrect == ServerSpec => []ServerTypeOK
<1>1. ServerInv => ServerTypeOK
  BY DEF ServerInv
<1> QED BY <1>1, ServerInvariant, PTL

LEMMA InvImpliesOneService == ServerInv => OneServicePerCycle
  BY DEF ServerInv, ServerTypeOK, OneAcquirePerGrant, ReleaseIsFresh, OneServicePerCycle,
         request_serviced, Requests, Statuses, Ports, HostPort, DevicePort, Access

\* The two request_serviced signals of lock_server.vhd are never high in one
\* cycle, whatever the masters do on the bus.
THEOREM ServerOneServicePerCycle == ServerSpec => []OneServicePerCycle
  BY InvImpliesOneService, ServerInvariant, PTL

LEMMA StepServes ==
  ASSUME ServerInv, [ServerNext]_server
  PROVE  [ClearedMeansServed]_server
<1> USE DEF ServerInv, ServerTypeOK, Requests, Statuses, Ports, HostPort, DevicePort
<1>1. CASE ClockEdge
  <2> SUFFICES ASSUME NEW i \in Ports,
                      lock_request_register[i] # "s_norequest",
                      lock_request_register'[i] = "s_norequest"
               PROVE  lock_status_register' =
                        IF lock_request_register[i] = "s_acquire"
                          THEN Access(i) ELSE "s_noaccess"
    BY DEF ClearedMeansServed
  <2>1. request_serviced(i)
    BY <1>1, BusRequestType DEF ClockEdge, read_request_proc, csr_write
  <2>2. OneServicePerCycle
    BY InvImpliesOneService
  <2> QED
    BY <1>1, <2>1, <2>2
    DEF ClockEdge, serve_request_proc, next_lock_status, OneServicePerCycle, request_serviced, Access
<1>2. ASSUME NEW r \in BusRequests, Drive(r) PROVE [ClearedMeansServed]_server
  BY <1>2 DEF Drive, registers, ClearedMeansServed
<1>3. CASE UNCHANGED server
  BY <1>3
<1> QED BY <1>1, <1>2, <1>3 DEF ServerNext

\* No request is cleared from its register without having been granted.
THEOREM ServerLosesNoRequest == ServerSpec => NoRequestLost
<1>1. ServerInv /\ [ServerNext]_server => [ClearedMeansServed]_server
  BY StepServes
<1> QED BY <1>1, ServerInvariant, PTL DEF ServerSpec, NoRequestLost

LEMMA StepHandsOver ==
  ASSUME ServerTypeOK, [ServerNext]_server
  PROVE  [\A i \in Ports :
            lock_status_register = Access(i) /\ lock_status_register' # Access(i)
              => /\ lock_status_register' = "s_noaccess"
                 /\ lock_request_register[i] = "s_release"]_server
<1>1. CASE ClockEdge
  BY <1>1 DEF ClockEdge, serve_request_proc, next_lock_status, Access, Ports, HostPort, DevicePort
<1>2. ASSUME NEW r \in BusRequests, Drive(r) PROVE UNCHANGED lock_status_register
  BY <1>2 DEF Drive, registers
<1>3. CASE UNCHANGED server BY <1>3
<1> QED BY <1>1, <1>2, <1>3 DEF ServerNext

\* The lock passes from one side to the other only through a cycle in which nobody
\* has it, and by the release of the side that had it, whatever the masters do.
THEOREM ServerHandsOverFree == ServerSpec => HandoverThroughFree
<1>1. ServerTypeOK /\ [ServerNext]_server =>
        [\A i \in Ports :
            lock_status_register = Access(i) /\ lock_status_register' # Access(i)
              => /\ lock_status_register' = "s_noaccess"
                 /\ lock_request_register[i] = "s_release"]_server
  BY StepHandsOver
<1> QED BY <1>1, ServerTypeCorrect, PTL DEF ServerSpec, HandoverThroughFree
=============================================================================
