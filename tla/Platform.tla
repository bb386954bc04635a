------------------------------ MODULE Platform ------------------------------
(***************************************************************************)
(* Programs that use the platform functions of svm_utils.hpp: they set up  *)
(* the coherency port through the AXI bridge and the driver, flush the TLB *)
(* and the L1 cache, and run kernels.  One program at a time has the       *)
(* device; to configure it resets the bridge.  Tools may call the library   *)
(* meanwhile.                                                              *)
(***************************************************************************)
EXTENDS AxiBridge, SvmDriver, Sequences

CONSTANTS
  Mains,          \* programs that run kernels
  Tools,          \* programs that only call the library
  Table,          \* the translation table of each main program
  MaxSwitches,    \* how often tools switch the port at most
  None

Programs == Mains \cup Tools

\* No program is called None.
ASSUME PlatformAssumption == None \notin Programs

VARIABLES
  pc,             \* what each program is doing: a function and its next step
  owner,          \* the program that has the device, or None
  switches,       \* how often tools have switched the port
  kernel,         \* whether the owner's kernel runs
  base,           \* the translation table for the owner's kernel
  armed,          \* "armed" when the owner's enable is through, "arming" before,
                  \* "no" once a call has meanwhile begun to switch the port off
  flusher         \* the program whose flush is the driver's last command

deviceVars == <<owner, kernel, base, armed, switches>>
vars == <<bridgeVars, driverVars, pc, deviceVars, flusher>>

Idle == <<"idle", 0>>

Init ==
  /\ BridgeInit /\ DriverInit
  /\ pc = [p \in Programs |-> Idle]
  /\ owner = None /\ kernel = FALSE /\ base = 0 /\ armed = "no" /\ switches = 0
  /\ flusher = None

At(p, function, step) == pc[p] = <<function, step>>
Goto(p, next) == pc' = [pc EXCEPT ![p] = next]

\* main goes on with get_ttbr0 after enable_f2h_acp, whatever came of it.
AfterEnable(p) == IF owner = p THEN <<"get_ttbr0", 0>> ELSE Idle

-----------------------------------------------------------------------------
(***************************************************************************)
(* enable_f2h_acp: a command to the driver, and seven writes to the bridge *)
(* one by one.                                                             *)
(***************************************************************************)

\* A mutant: arprot is written to the address that is not used.
AcpWrites_arprot_at_3(enable) ==
  IF enable THEN <<<<0, 15>>, <<1, 4>>, <<2, 1>>, <<4, 15>>, <<3, 4>>, <<6, 1>>, <<7, 0>>>>
  ELSE <<<<0, 1>>, <<1, 4>>, <<2, 0>>, <<4, 1>>, <<3, 4>>, <<6, 0>>, <<7, 0>>>>

\* The registers and their values.
AcpWrites(enable) ==
  IF enable THEN <<<<0, 15>>, <<1, 4>>, <<2, 1>>, <<4, 15>>, <<5, 4>>, <<6, 1>>, <<7, 0>>>>
  ELSE <<<<0, 1>>, <<1, 4>>, <<2, 0>>, <<4, 1>>, <<5, 4>>, <<6, 0>>, <<7, 0>>>>

\* A main program that has the device sets up the port; a tool may switch it.
CallEnable(p, function) ==
  /\ IF p \in Tools THEN At(p, "idle", 0) /\ switches < MaxSwitches
     ELSE At(p, "main", 0) /\ function = "enable"
  /\ switches' = switches + (IF p \in Tools THEN 1 ELSE 0)
  /\ Goto(p, <<function, 0>>)
  /\ armed' = CASE function = "disable" -> "no"
                [] owner = p /\ ~\E q \in Programs : pc[q][1] = "disable" -> "arming"
                [] OTHER -> armed
  /\ UNCHANGED <<bridgeVars, driverVars, owner, kernel, base, flusher>>

\* Without the driver the function returns.
EnableSmp(p) ==
  /\ At(p, "enable", 0) \/ At(p, "disable", 0)
  /\ IF driver = "in"
       THEN svm_driver_store(1) /\ flusher' = None /\ Goto(p, <<pc[p][1], 1>>)
       ELSE Goto(p, AfterEnable(p)) /\ UNCHANGED <<driverVars, flusher>>
  /\ UNCHANGED <<bridgeVars, deviceVars>>

WriteRegister(p) ==
  /\ pc[p][1] \in {"enable", "disable"} /\ pc[p][2] > 0
  /\ LET writes == AcpWrites(pc[p][1] = "enable")
         i      == pc[p][2]
     IN  /\ Cycle(WriteNext(writes[i][1], writes[i][2]), kernel)
         /\ Goto(p, IF i < Len(writes) THEN <<pc[p][1], i + 1>> ELSE AfterEnable(p))
         /\ armed' = IF i = Len(writes) /\ owner = p /\ armed = "arming" THEN "armed" ELSE armed
  /\ UNCHANGED <<driverVars, owner, kernel, base, switches, flusher>>

\* getvaddr cannot open or map the memory: the program ends, and loses the
\* device.
getvaddr_fails(p) ==
  /\ pc[p][1] \in {"enable", "disable"}
  /\ Goto(p, Idle)
  /\ IF owner = p THEN owner' = None /\ base' = 0 /\ armed' = "no"
     ELSE UNCHANGED <<owner, base, armed>>
  /\ UNCHANGED <<bridgeVars, driverVars, kernel, switches, flusher>>

-----------------------------------------------------------------------------
(***************************************************************************)
(* The other functions of the library.                                     *)
(***************************************************************************)

\* main takes the device, runs a kernel on it, and closes it.
OpenDevice(p) ==
  /\ p \in Mains /\ At(p, "idle", 0) /\ owner = None
  /\ owner' = p /\ base' = 0 /\ armed' = "no"
  /\ rst_n
  /\ Goto(p, <<"main", 0>>)
  /\ UNCHANGED <<driverVars, kernel, switches, flusher>>

\* Without the driver the table is 0, and main goes on.
get_ttbr0(p) ==
  /\ At(p, "get_ttbr0", 0)
  /\ base' = IF driver = "in" THEN svm_driver_show(Table[p]).TTBR0 ELSE 0
  /\ kernel' = TRUE
  /\ Goto(p, <<"kernel", 0>>)
  /\ UNCHANGED <<bridgeVars, driverVars, owner, armed, switches, flusher>>

CloseDevice(p) ==
  /\ At(p, "kernel", 0) /\ \A ch \in Channels : ~valid[ch]
  /\ owner' = None /\ kernel' = FALSE /\ base' = 0 /\ armed' = "no"
  /\ Goto(p, Idle)
  /\ UNCHANGED <<bridgeVars, driverVars, switches, flusher>>

flush_L1_cacheline(p) ==
  /\ p \in Tools /\ At(p, "idle", 0) /\ driver = "in"
  /\ svm_driver_store(2) /\ flusher' = None
  /\ UNCHANGED <<bridgeVars, pc, deviceVars>>

\* flush_TLB sends its command, and then asks for what the command left.
flush_TLB(p) ==
  /\ p \in Tools /\ At(p, "idle", 0) /\ driver = "in"
  /\ svm_driver_store(3) /\ flusher' = p
  /\ Goto(p, <<"flush_TLB", 1>>)
  /\ UNCHANGED <<bridgeVars, deviceVars>>

Flush_failed(p) == At(p, "flush_TLB", 1) /\ driver = "in" /\ svm_driver_show(0).foo # 18

flush_TLB_check(p) ==
  /\ At(p, "flush_TLB", 1)
  /\ Goto(p, Idle)
  /\ UNCHANGED <<bridgeVars, driverVars, deviceVars, flusher>>

-----------------------------------------------------------------------------
LoadDriver ==
  /\ svm_driver_init /\ flusher' = None
  /\ UNCHANGED <<bridgeVars, pc, deviceVars>>

UnloadDriver == svm_driver_cleanup /\ UNCHANGED <<bridgeVars, pc, deviceVars, flusher>>

Tick == Cycle(csr, kernel) /\ UNCHANGED <<driverVars, pc, deviceVars, flusher>>

Next ==
  \/ \E p \in Programs :
       \/ \E function \in {"enable", "disable"} : CallEnable(p, function)
       \/ EnableSmp(p) \/ WriteRegister(p) \/ getvaddr_fails(p)
       \/ OpenDevice(p) \/ get_ttbr0(p) \/ CloseDevice(p)
       \/ flush_L1_cacheline(p) \/ flush_TLB(p) \/ flush_TLB_check(p)
  \/ LoadDriver \/ UnloadDriver \/ Tick

Spec == Init /\ [][Next]_vars

-----------------------------------------------------------------------------
(***************************************************************************)
(* Properties.                                                             *)
(***************************************************************************)

\* The protocol of the bus: the signals of a transaction stay as they are until
\* it is accepted, although software may write the registers at any time.
StableWhileValid ==
  [][\A ch \in Channels : valid[ch] /\ ~ready[ch] /\ valid'[ch] => Out(ch)' = Out(ch)]_vars

\* What a kernel reads or writes after its program has set up the port goes
\* through the coherency port as cacheable, however the seven writes, the clock
\* and calls of other programs (except one that switches the port off) fall.
AcpTransactions ==
  armed = "armed" => \A ch \in Channels : valid[ch] => Out(ch) = [cache |-> 15, prot |-> 4, user |-> 1]

\* "Flush failed" is reported only if another program's command, or a new load
\* of the driver, came between the flush and the question.
FlushReported == \A p \in Programs : Flush_failed(p) => flusher # p
=============================================================================
