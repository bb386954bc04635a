----------------------------- MODULE LockServer -----------------------------
(***************************************************************************)
(* The lock server of the SVM infrastructure: a clocked Avalon-MM slave    *)
(* with one request register for the host (CSR word 0), one for the device *)
(* (CSR word 1) and one lock status register that both sides poll.  Its    *)
(* four VHDL processes are four operators; one action, ClockEdge, is the   *)
(* conjunction of the four, because they all fire on the same edge.        *)
(*                                                                         *)
(* The slave sees one command at a time: `bus' is the command the Avalon   *)
(* interconnect drives onto it, held until waitrequest falls.  The module  *)
(* is both a component (SvmLock drives the bus from the host software and  *)
(* the device bridges) and a specification of its own, in which any master *)
(* may drive any command.                                                  *)
(***************************************************************************)
EXTENDS Naturals

CONSTANTS
  Masters,     \* the Avalon masters that share the slave port
  NoRequest    \* the bus while no master drives it

ASSUME NoRequestAssumption ==
  NoRequest \notin [master : Masters, op : {"read", "write"}, address : Nat, data : Nat]

VARIABLES
  avalon_state,           \* the handshake state of slave_response_proc
  lock_request_register,  \* [Ports -> a request]
  lock_status_register,   \* who has been granted the lock
  read_request_reg,       \* readdatavalid, one cycle after a read is accepted
  bus                     \* the command driven onto the slave, or NoRequest

registers ==
  <<avalon_state, lock_request_register, lock_status_register, read_request_reg>>

server == <<registers, bus>>

(***************************************************************************)
(* The address map.  HostPort and DevicePort are the two CSR words that    *)
(* hold a request; a read returns the status whatever word it names, and   *)
(* the software and the bridges both name StatusWord.                      *)
(***************************************************************************)
HostPort   == 0
DevicePort == 1
Ports      == {HostPort, DevicePort}
StatusWord == 4

ReleaseCommand == 0
AcquireCommand == 1

Requests == {"s_norequest", "s_acquire", "s_release"}
Statuses == {"s_noaccess", "s_hostaccess", "s_deviceaccess"}

\* The status that records a grant to the side that owns request register i.
Access(i) == IF i = HostPort THEN "s_hostaccess" ELSE "s_deviceaccess"

WriteRequest(m, port, command) ==
  [master |-> m, op |-> "write", address |-> port, data |-> command]

ReadRequest(m) ==
  [master |-> m, op |-> "read", address |-> StatusWord, data |-> 0]

BusRequests ==
  {WriteRequest(m, port, command) :
     m \in Masters, port \in Ports, command \in {ReleaseCommand, AcquireCommand}}
  \cup {ReadRequest(m) : m \in Masters}

csr_write == bus # NoRequest /\ bus.op = "write"
csr_read  == bus # NoRequest /\ bus.op = "read"

csr_waitrequest == avalon_state = "s_idle"

\* The two status bits a read returns: bit 0 the device, bit 1 the host.
csr_readdata ==
  CASE lock_status_register = "s_noaccess"     -> 0
    [] lock_status_register = "s_deviceaccess" -> 1
    [] lock_status_register = "s_hostaccess"   -> 2

(***************************************************************************)
(* Operators named after a definition and a fault are plausible mistakes   *)
(* in it: they are used by no specification, only to see that a property   *)
(* notices when the definition is replaced by them.                        *)
(*                                                                         *)
(* The combinational signal that says the request in register i can be     *)
(* served now.  It is computed for each register on its own, apart from    *)
(* the priority chain that updates the status.                             *)
(***************************************************************************)
request_serviced_any_status(i) == lock_request_register[i] # "s_norequest"

request_serviced(i) ==
  \/ lock_request_register[i] = "s_acquire" /\ lock_status_register = "s_noaccess"
  \/ lock_request_register[i] = "s_release" /\ lock_status_register = Access(i)

\* The Avalon handshake: one accept cycle per command, then idle again.
slave_response_proc ==
  /\ avalon_state' =
       IF avalon_state # "s_idle" THEN "s_idle"
       ELSE IF csr_write THEN "s_write_request_accept"
       ELSE IF csr_read THEN "s_read_request_accept"
       ELSE "s_idle"
  /\ read_request_reg' = (avalon_state = "s_read_request_accept")

\* A write latches its request.  On every other edge, and only then, the
\* registers whose request is served are cleared.
read_request_proc ==
  lock_request_register' =
    IF avalon_state = "s_idle" /\ csr_write
      THEN [lock_request_register EXCEPT
              ![bus.address] = IF bus.data = AcquireCommand
                                 THEN "s_acquire" ELSE "s_release"]
      ELSE [i \in Ports |-> IF request_serviced(i)
                              THEN "s_norequest" ELSE lock_request_register[i]]

\* The priority chain: the device is served before the host.
next_lock_status ==
  IF lock_request_register[DevicePort] = "s_acquire"
     /\ lock_status_register = "s_noaccess"
    THEN "s_deviceaccess"
  ELSE IF lock_request_register[DevicePort] = "s_release"
          /\ lock_status_register = "s_deviceaccess"
    THEN "s_noaccess"
  ELSE IF lock_request_register[HostPort] = "s_acquire"
          /\ lock_status_register = "s_noaccess"
    THEN "s_hostaccess"
  ELSE IF lock_request_register[HostPort] = "s_release"
          /\ lock_status_register = "s_hostaccess"
    THEN "s_noaccess"
  ELSE lock_status_register

serve_request_proc_not_on_write ==
  lock_status_register' =
    IF avalon_state = "s_idle" /\ csr_write THEN lock_status_register ELSE next_lock_status

serve_request_proc_stealing ==
  lock_status_register' =
    IF lock_request_register[DevicePort] = "s_acquire" THEN "s_deviceaccess"
                                                       ELSE next_lock_status

serve_request_proc == lock_status_register' = next_lock_status

\* One rising edge.  The interconnect withdraws a command when it sees
\* waitrequest low, and holds it otherwise.
ClockEdge ==
  /\ slave_response_proc
  /\ read_request_proc
  /\ serve_request_proc
  /\ bus' = IF csr_waitrequest THEN bus ELSE NoRequest

\* The interconnect grants the idle slave port to a command.
Drive(request) ==
  /\ bus = NoRequest
  /\ bus' = request
  /\ UNCHANGED registers

\* The state after reset.
ServerInit ==
  /\ avalon_state = "s_idle"
  /\ lock_request_register = [i \in Ports |-> "s_norequest"]
  /\ lock_status_register = "s_noaccess"
  /\ read_request_reg = FALSE
  /\ bus = NoRequest

ServerNext == ClockEdge \/ \E request \in BusRequests : Drive(request)

ServerSpec == ServerInit /\ [][ServerNext]_server

-----------------------------------------------------------------------------
(***************************************************************************)
(* The types of the server's registers, as the VHDL declares them.         *)
(***************************************************************************)
ServerTypeOK ==
  /\ avalon_state \in {"s_idle", "s_write_request_accept", "s_read_request_accept"}
  /\ lock_request_register \in [Ports -> Requests]
  /\ lock_status_register \in Statuses
  /\ read_request_reg \in BOOLEAN
  /\ bus \in BusRequests \cup {NoRequest}

\* A command is accepted only while the interconnect still drives it.
HandshakeOK ==
  /\ avalon_state = "s_write_request_accept" => csr_write
  /\ avalon_state = "s_read_request_accept" => csr_read

\* A register that asks to release the lock its side holds does so in the
\* one cycle after the write: that cycle is an accept cycle, in which no
\* other write can overwrite it or hold back its clearing.
ReleaseIsFresh ==
  \A i \in Ports :
    lock_request_register[i] = "s_release" /\ lock_status_register = Access(i)
      => avalon_state = "s_write_request_accept"

\* The signal request_serviced is computed for each register independently,
\* but the status can serve only one of them.  Were both signals high in one
\* cycle, the loser's request would be cleared from its register without a
\* grant, and its owner, which writes the request once and then polls, would
\* wait for ever.  Nothing in the VHDL forbids the two signals explicitly:
\* it is the two-cycle Avalon handshake that keeps them apart.
OneServicePerCycle ==
  ~(request_serviced(HostPort) /\ request_serviced(DevicePort))

\* Every request that leaves its register unserved was overwritten by its own
\* side: a clearing edge always carries out what it clears.
ClearedMeansServed ==
  \A i \in Ports :
    lock_request_register[i] # "s_norequest" /\ lock_request_register'[i] = "s_norequest"
      => lock_status_register' = IF lock_request_register[i] = "s_acquire"
                                   THEN Access(i) ELSE "s_noaccess"

NoRequestLost == [][ClearedMeansServed]_server

\* The lock is never handed from one side to the other without a cycle in
\* which nobody has it, and it is taken away from a side only by that side's
\* own release.
HandoverThroughFree ==
  [][\A i \in Ports :
       lock_status_register = Access(i) /\ lock_status_register' # Access(i)
         => /\ lock_status_register' = "s_noaccess"
            /\ lock_request_register[i] = "s_release"]_server
=============================================================================
