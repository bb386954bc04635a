--------------------------- MODULE PlatformProofs ---------------------------
(***************************************************************************)
(* Theorems about the coherency port and the driver, for every set of main *)
(* programs and of tools, every number of switches, and whatever the       *)
(* masters drive themselves.                                               *)
(*                                                                         *)
(* The argument.  No call ever writes another word than 0 to register 7,   *)
(* so that no signal is ever the master's own, and the signals of a        *)
(* channel are its shadow registers, which a waiting transaction freezes   *)
(* (StableWhileValid).  While a program arms the port nobody else switches *)
(* it off, so that each of its writes stays; nothing is on the bus, so     *)
(* that the cycle of its seventh write copies the other six to the shadow  *)
(* registers; from then on both hold the values of a coherent transaction, *)
(* whether a cycle copies them or not (AcpTransactions).                   *)
(***************************************************************************)
EXTENDS Platform, TLAPS

Enabling == AcpWrites(TRUE)

\* The first k registers of an enabling call hold its values.
Written(k) == \A j \in 1 .. 7 : j < k => csr[Enabling[j][1]] = Enabling[j][2]

Coherent(ch) == shadow[ch] = [cache |-> 15, prot |-> 4, user |-> 1]

PlatformTypeOK ==
  /\ csr \in [0 .. 7 -> Nat]
  /\ shadow \in [Channels -> [Signals -> Nat]]
  /\ valid \in [Channels -> BOOLEAN]
  /\ ready \in [Channels -> BOOLEAN]
  /\ pc \in [Programs -> {Idle, <<"main", 0>>, <<"get_ttbr0", 0>>, <<"kernel", 0>>, <<"flush_TLB", 1>>}
                         \cup ({"enable", "disable"} \X (0 .. 7))]
  /\ owner \in Programs \cup {None}
  /\ kernel \in BOOLEAN
  /\ armed \in {"no", "arming", "armed"}
  /\ flusher \in Programs \cup {None}

\* Only the program that has the device runs main, and a kernel runs while it
\* waits for one.  Without a kernel nothing is on the bus.
DeviceHeld ==
  /\ \A p \in Programs :
       /\ pc[p][1] \in {"main", "get_ttbr0", "kernel"} => owner = p
       /\ owner = p => pc[p][1] \in {"main", "enable", "get_ttbr0", "kernel"}
  /\ kernel => owner # None /\ pc[owner][1] = "kernel"
  /\ ~kernel => \A ch \in Channels : ~valid[ch]

\* How far the port is set up.
PortArmed ==
  /\ csr[7] = 0
  /\ armed # "no" => /\ owner # None
                     /\ \A q \in Programs : pc[q][1] # "disable"
  /\ armed = "arming" /\ owner # None /\ pc[owner][1] = "enable" => Written(pc[owner][2])
  /\ armed = "armed" => /\ pc[owner][1] \in {"get_ttbr0", "kernel"}
                        /\ Written(8)
                        /\ \A ch \in Channels : Coherent(ch)

\* The driver holds the word of the last flush until another command.
FlushHeld == flusher # None => foo = 18

PlatformInv == PlatformTypeOK /\ DeviceHeld /\ PortArmed /\ FlushHeld

-----------------------------------------------------------------------------
(***************************************************************************)
(* Lemmas about the writes and the signals.                                *)
(***************************************************************************)

\* The address of each signal's register, and its width.
LEMMA AddressOf ==
  /\ Address("aw", "cache") = 0 /\ Address("aw", "prot") = 1 /\ Address("aw", "user") = 2
  /\ Address("ar", "cache") = 4 /\ Address("ar", "prot") = 5 /\ Address("ar", "user") = 6
  BY DEF Address

LEMMA WidthOf == Width("cache") = 4 /\ Width("prot") = 3 /\ Width("user") = 5
  BY DEF Width

\* An enabling call writes six values and the selection, to seven registers.
LEMMA EnablingWrites ==
  /\ Len(Enabling) = 7
  /\ Enabling[1] = <<0, 15>> /\ Enabling[2] = <<1, 4>> /\ Enabling[3] = <<2, 1>>
  /\ Enabling[4] = <<4, 15>> /\ Enabling[5] = <<5, 4>> /\ Enabling[6] = <<6, 1>>
  /\ Enabling[7] = <<7, 0>>
  BY DEF Enabling, AcpWrites

\* They are seven different registers.
LEMMA EnablingRegisters ==
  /\ \A j \in 1 .. 7 : Enabling[j][1] \in 0 .. 7
  /\ \A i, j \in 1 .. 7 : Enabling[i][1] = Enabling[j][1] => i = j
<1>1. \A j \in 1 .. 7 : j \in {1, 2, 3, 4, 5, 6, 7}
  OBVIOUS
<1> QED BY <1>1, EnablingWrites

LEMMA DisablingWrites ==
  /\ Len(AcpWrites(FALSE)) = 7
  /\ AcpWrites(FALSE)[1] = <<0, 1>> /\ AcpWrites(FALSE)[2] = <<1, 4>>
  /\ AcpWrites(FALSE)[3] = <<2, 0>> /\ AcpWrites(FALSE)[4] = <<4, 1>>
  /\ AcpWrites(FALSE)[5] = <<5, 4>> /\ AcpWrites(FALSE)[6] = <<6, 0>>
  /\ AcpWrites(FALSE)[7] = <<7, 0>>
  BY DEF AcpWrites

\* Every write is of a word to a register that exists; the selection is only
\* ever written 0.
LEMMA WritesType ==
  ASSUME NEW enable \in BOOLEAN, NEW i \in 1 .. 7
  PROVE  /\ Len(AcpWrites(enable)) = 7
         /\ AcpWrites(enable)[i][1] \in (0 .. 7) \ {3}
         /\ AcpWrites(enable)[i][2] \in Nat
         /\ AcpWrites(enable)[i][1] = 7 => AcpWrites(enable)[i][2] = 0
<1> DEFINE legal(w) == /\ Len(w) = 7
                       /\ \A j \in 1 .. 7 : /\ w[j][1] \in (0 .. 7) \ {3}
                                            /\ w[j][2] \in Nat
                                            /\ w[j][1] = 7 => w[j][2] = 0
<1>1. legal(<<<<0, 15>>, <<1, 4>>, <<2, 1>>, <<4, 15>>, <<5, 4>>, <<6, 1>>, <<7, 0>>>>)
  OBVIOUS
<1>2. legal(<<<<0, 1>>, <<1, 4>>, <<2, 0>>, <<4, 1>>, <<5, 4>>, <<6, 0>>, <<7, 0>>>>)
  OBVIOUS
<1>3. legal(AcpWrites(enable))
  BY <1>1, <1>2, Zenon DEF AcpWrites
<1> QED BY <1>3

\* With 0 in register 7 a channel shows its shadow registers.
LEMMA OutIsShadow ==
  csr[7] = 0 => \A ch \in Channels : Out(ch) = [s \in Signals |-> shadow[ch][s]]
<1> SUFFICES ASSUME csr[7] = 0, NEW ch \in Channels
             PROVE  Out(ch) = [s \in Signals |-> shadow[ch][s]]
  OBVIOUS
<1>1. ASSUME NEW s \in Signals PROVE ~csr_mux_selects(ch, s)
  <2>1. Address(ch, s) \in {0, 1, 2, 4, 5, 6}
    BY AddressOf DEF Signals, Channels
  <2>2. 2 ^ 0 = 1 /\ 2 ^ 1 = 2 /\ 2 ^ 2 = 4 /\ 2 ^ 4 = 16 /\ 2 ^ 5 = 32 /\ 2 ^ 6 = 64
    OBVIOUS
  <2>3. 2 ^ Address(ch, s) \in {1, 2, 4, 16, 32, 64}
    BY <2>1, <2>2
  <2>4. ASSUME NEW m \in {1, 2, 4, 16, 32, 64} PROVE (0 \div m) % 2 # 1
    OBVIOUS
  <2> QED BY <2>3, <2>4 DEF csr_mux_selects
<1> QED BY <1>1 DEF Out

\* What a command leaves.
LEMMA StoreLeaves ==
  /\ svm_driver_store(1) => foo' = NSACR /\ UNCHANGED driver
  /\ svm_driver_store(2) => foo' = Garbage /\ UNCHANGED driver
  /\ svm_driver_store(3) => foo' = 18 /\ UNCHANGED driver
  BY DEF svm_driver_store

\* When the six values are in the registers an idle channel copies them.
LEMMA CopyIsCoherent ==
  ASSUME Written(7), NEW ch \in Channels, ~valid[ch]
  PROVE  ShadowNext(ch) = [cache |-> 15, prot |-> 4, user |-> 1]
<1>1. /\ csr[0] = 15 /\ csr[1] = 4 /\ csr[2] = 1
      /\ csr[4] = 15 /\ csr[5] = 4 /\ csr[6] = 1
  BY EnablingWrites DEF Written
<1>2. 15 % 2 ^ 4 = 15 /\ 4 % 2 ^ 3 = 4 /\ 1 % 2 ^ 5 = 1
  <2>1. 2 ^ 4 = 16 /\ 2 ^ 3 = 8 /\ 2 ^ 5 = 32
    OBVIOUS
  <2>2. 15 % 16 = 15 /\ 4 % 8 = 4 /\ 1 % 32 = 1
    OBVIOUS
  <2> QED BY <2>1, <2>2
<1>3. /\ csr[Address(ch, "cache")] % 2 ^ Width("cache") = 15
      /\ csr[Address(ch, "prot")] % 2 ^ Width("prot") = 4
      /\ csr[Address(ch, "user")] % 2 ^ Width("user") = 1
  <2>1. CASE ch = "aw"
    BY <1>1, <1>2, <2>1, AddressOf, WidthOf
  <2>2. CASE ch = "ar"
    BY <1>1, <1>2, <2>2, AddressOf, WidthOf
  <2> QED BY <2>1, <2>2 DEF Channels
<1>4. ShadowNext(ch) = [s \in Signals |-> csr[Address(ch, s)] % 2 ^ Width(s)]
  BY DEF ShadowNext
<1> QED BY <1>3, <1>4 DEF Signals

-----------------------------------------------------------------------------
(***************************************************************************)
(* What a cycle and a write of the bridge do.                              *)
(***************************************************************************)

LEMMA ShadowNextType ==
  ASSUME PlatformTypeOK, NEW ch \in Channels
  PROVE  ShadowNext(ch) \in [Signals -> Nat]
<1>1. ASSUME NEW s \in Signals PROVE csr[Address(ch, s)] % 2 ^ Width(s) \in Nat
  <2>1. Address(ch, s) \in 0 .. 7
    BY AddressOf DEF Signals, Channels
  <2>2. 2 ^ Width(s) \in {16, 8, 32}
    <3>1. 2 ^ 4 = 16 /\ 2 ^ 3 = 8 /\ 2 ^ 5 = 32
      OBVIOUS
    <3> QED BY <3>1, WidthOf DEF Signals
  <2>3. csr[Address(ch, s)] \in Nat
    BY <2>1 DEF PlatformTypeOK
  <2> QED BY <2>2, <2>3
<1>2. shadow[ch] \in [Signals -> Nat]
  BY DEF PlatformTypeOK
<1> QED BY <1>1, <1>2 DEF ShadowNext

\* A cycle keeps the types, offers nothing new without a kernel, and lets each
\* channel's shadow registers follow.
LEMMA CycleStep ==
  ASSUME PlatformTypeOK, NEW next, NEW active, Cycle(next, active)
  PROVE  /\ csr' = next
         /\ shadow' \in [Channels -> [Signals -> Nat]]
         /\ \A ch \in Channels : shadow'[ch] = ShadowNext(ch)
         /\ valid' \in [Channels -> BOOLEAN]
         /\ ready' \in [Channels -> BOOLEAN]
         /\ ~active /\ (\A ch \in Channels : ~valid[ch]) => \A ch \in Channels : ~valid'[ch]
<1>1. /\ csr' = next
      /\ shadow' = [ch \in Channels |-> ShadowNext(ch)]
      /\ valid' \in [Channels -> BOOLEAN]
      /\ ready' \in [Channels -> BOOLEAN]
      /\ \A ch \in Channels : valid'[ch] => active \/ (valid[ch] /\ ~ready[ch])
  BY DEF Cycle
<1> QED BY <1>1, ShadowNextType

\* What one of a call's seven writes does: a cycle in which its word goes to
\* its register.  The selection stays 0.
LEMMA WriteStep ==
  ASSUME PlatformTypeOK, DeviceHeld, PortArmed, NEW p \in Programs, WriteRegister(p)
  PROVE  LET w == AcpWrites(pc[p][1] = "enable")
             i == pc[p][2]
         IN /\ i \in 1 .. 7 /\ w[i][1] \in 0 .. 7
            /\ csr' = [csr EXCEPT ![w[i][1]] = w[i][2]]
            /\ csr' \in [0 .. 7 -> Nat]
            /\ csr'[7] = 0
            /\ pc[p] \in {"enable", "disable"} \X (1 .. 7)
            /\ pc' = [pc EXCEPT ![p] = IF i < 7 THEN <<pc[p][1], i + 1>> ELSE AfterEnable(p)]
            /\ armed' = IF i = 7 /\ owner = p /\ armed = "arming" THEN "armed" ELSE armed
            /\ UNCHANGED <<driverVars, owner, kernel, base, switches, flusher>>
<1> DEFINE w == AcpWrites(pc[p][1] = "enable")
           i == pc[p][2]
<1>1. pc[p] \in {"enable", "disable"} \X (1 .. 7)
  BY SMTT(60) DEF WriteRegister, PlatformTypeOK, Idle
<1>2. i \in 1 .. 7
  BY <1>1
<1>3. /\ Len(w) = 7 /\ w[i][1] \in (0 .. 7) \ {3} /\ w[i][2] \in Nat
      /\ w[i][1] = 7 => w[i][2] = 0
  <2>1. (pc[p][1] = "enable") \in BOOLEAN
    OBVIOUS
  <2> QED BY <1>2, <2>1, WritesType
<1>4. csr' = WriteNext(w[i][1], w[i][2])
  BY DEF WriteRegister, Cycle
<1>5. csr' = [csr EXCEPT ![w[i][1]] = w[i][2]]
  BY <1>3, <1>4 DEF WriteNext
<1> HIDE DEF w, i
<1>6. csr' \in [0 .. 7 -> Nat] /\ csr'[7] = 0
  BY <1>3, <1>5 DEF PlatformTypeOK, PortArmed
<1> QED BY <1>1, <1>2, <1>3, <1>5, <1>6 DEF WriteRegister, Goto, w, i

-----------------------------------------------------------------------------
(***************************************************************************)
(* The type invariant.                                                     *)
(***************************************************************************)

LEMMA PlatformTypeStep ==
  ASSUME PlatformTypeOK, DeviceHeld, PortArmed, [Next]_vars
  PROVE  PlatformTypeOK'
<1> USE DEF PlatformTypeOK, Goto, At, Idle
<1>1. ASSUME NEW p \in Programs, NEW function \in {"enable", "disable"}, CallEnable(p, function)
      PROVE  PlatformTypeOK'
  BY <1>1 DEF CallEnable, bridgeVars
<1>2. ASSUME NEW p \in Programs, EnableSmp(p) PROVE PlatformTypeOK'
  BY <1>2 DEF EnableSmp, AfterEnable, bridgeVars, deviceVars
<1>3. ASSUME NEW p \in Programs, WriteRegister(p) PROVE PlatformTypeOK'
  <2>1. /\ shadow' \in [Channels -> [Signals -> Nat]]
        /\ valid' \in [Channels -> BOOLEAN]
        /\ ready' \in [Channels -> BOOLEAN]
    BY <1>3, CycleStep DEF WriteRegister
  <2> HIDE DEF Goto, At, Idle
  <2>2. pc' \in [Programs -> {Idle, <<"main", 0>>, <<"get_ttbr0", 0>>, <<"kernel", 0>>, <<"flush_TLB", 1>>}
                             \cup ({"enable", "disable"} \X (0 .. 7))]
    BY <1>3, WriteStep DEF AfterEnable
  <2> QED BY <1>3, <2>1, <2>2, WriteStep
<1>4. ASSUME NEW p \in Programs, getvaddr_fails(p) PROVE PlatformTypeOK'
  BY <1>4 DEF getvaddr_fails, bridgeVars
<1>5. ASSUME NEW p \in Programs, OpenDevice(p) PROVE PlatformTypeOK'
  BY <1>5 DEF OpenDevice, rst_n
<1>6. ASSUME NEW p \in Programs, get_ttbr0(p) PROVE PlatformTypeOK'
  BY <1>6 DEF get_ttbr0, bridgeVars
<1>7. ASSUME NEW p \in Programs, CloseDevice(p) PROVE PlatformTypeOK'
  BY <1>7 DEF CloseDevice, bridgeVars
<1>8. ASSUME NEW p \in Programs, flush_L1_cacheline(p) PROVE PlatformTypeOK'
  BY <1>8 DEF flush_L1_cacheline, bridgeVars, deviceVars
<1>9. ASSUME NEW p \in Programs, flush_TLB(p) PROVE PlatformTypeOK'
  BY <1>9 DEF flush_TLB, bridgeVars, deviceVars
<1>10. ASSUME NEW p \in Programs, flush_TLB_check(p) PROVE PlatformTypeOK'
  BY <1>10 DEF flush_TLB_check, bridgeVars, deviceVars
<1>11. CASE LoadDriver
  BY <1>11 DEF LoadDriver, bridgeVars, deviceVars
<1>12. CASE UnloadDriver
  BY <1>12 DEF UnloadDriver, bridgeVars, deviceVars
<1>13. CASE Tick
  <2>1. /\ csr' = csr
        /\ shadow' \in [Channels -> [Signals -> Nat]]
        /\ valid' \in [Channels -> BOOLEAN]
        /\ ready' \in [Channels -> BOOLEAN]
    BY <1>13, CycleStep DEF Tick
  <2> QED BY <1>13, <2>1 DEF Tick, deviceVars
<1>14. CASE UNCHANGED vars
  BY <1>14 DEF vars, bridgeVars, deviceVars
<1> QED BY <1>1, <1>2, <1>3, <1>4, <1>5, <1>6, <1>7, <1>8, <1>9, <1>10, <1>11, <1>12, <1>13, <1>14
        DEF Next

-----------------------------------------------------------------------------
(***************************************************************************)
(* Who has the device.                                                     *)
(***************************************************************************)

LEMMA DeviceHeldStep ==
  ASSUME PlatformTypeOK, DeviceHeld, PortArmed, [Next]_vars
  PROVE  DeviceHeld'
<1> USE PlatformAssumption DEF PlatformTypeOK, DeviceHeld, Goto, At, Idle
<1>1. ASSUME NEW p \in Programs, NEW function \in {"enable", "disable"}, CallEnable(p, function)
      PROVE  DeviceHeld'
  BY <1>1 DEF CallEnable, bridgeVars, Programs
<1>2. ASSUME NEW p \in Programs, EnableSmp(p) PROVE DeviceHeld'
  BY <1>2 DEF EnableSmp, AfterEnable, bridgeVars, deviceVars
<1>3. ASSUME NEW p \in Programs, WriteRegister(p) PROVE DeviceHeld'
  <2>1. ~kernel => \A ch \in Channels : ~valid'[ch]
    BY <1>3, CycleStep DEF WriteRegister
  <2>2. /\ pc[p] \in {"enable", "disable"} \X (1 .. 7)
        /\ \/ pc' = [pc EXCEPT ![p] = <<pc[p][1], pc[p][2] + 1>>]
           \/ pc' = [pc EXCEPT ![p] = AfterEnable(p)]
        /\ UNCHANGED <<owner, kernel>>
    BY <1>3, WriteStep
  <2>3. CASE pc' = [pc EXCEPT ![p] = <<pc[p][1], pc[p][2] + 1>>]
    BY <2>1, <2>2, <2>3
  <2>4. CASE pc' = [pc EXCEPT ![p] = AfterEnable(p)]
    BY <2>1, <2>2, <2>4 DEF AfterEnable
  <2> QED BY <2>2, <2>3, <2>4
<1>4. ASSUME NEW p \in Programs, getvaddr_fails(p) PROVE DeviceHeld'
  BY <1>4 DEF getvaddr_fails, bridgeVars
<1>5. ASSUME NEW p \in Programs, OpenDevice(p) PROVE DeviceHeld'
  BY <1>5 DEF OpenDevice, rst_n
<1>6. ASSUME NEW p \in Programs, get_ttbr0(p) PROVE DeviceHeld'
  BY <1>6 DEF get_ttbr0, bridgeVars
<1>7. ASSUME NEW p \in Programs, CloseDevice(p) PROVE DeviceHeld'
  BY <1>7 DEF CloseDevice, bridgeVars
<1>8. ASSUME NEW p \in Programs, flush_L1_cacheline(p) PROVE DeviceHeld'
  BY <1>8 DEF flush_L1_cacheline, bridgeVars, deviceVars
<1>9. ASSUME NEW p \in Programs, flush_TLB(p) PROVE DeviceHeld'
  BY <1>9 DEF flush_TLB, bridgeVars, deviceVars
<1>10. ASSUME NEW p \in Programs, flush_TLB_check(p) PROVE DeviceHeld'
  BY <1>10 DEF flush_TLB_check, bridgeVars, deviceVars
<1>11. CASE LoadDriver
  BY <1>11 DEF LoadDriver, bridgeVars, deviceVars
<1>12. CASE UnloadDriver
  BY <1>12 DEF UnloadDriver, bridgeVars, deviceVars
<1>13. CASE Tick
  <2>1. ~kernel => \A ch \in Channels : ~valid'[ch]
    BY <1>13, CycleStep DEF Tick
  <2> QED BY <1>13, <2>1 DEF Tick, deviceVars
<1>14. CASE UNCHANGED vars
  BY <1>14 DEF vars, bridgeVars, deviceVars
<1> QED BY <1>1, <1>2, <1>3, <1>4, <1>5, <1>6, <1>7, <1>8, <1>9, <1>10, <1>11, <1>12, <1>13, <1>14
        DEF Next

-----------------------------------------------------------------------------
(***************************************************************************)
(* The port and the flushes.                                               *)
(***************************************************************************)

\* A step that leaves the registers and the port alone keeps how far it is
\* set up, unless the program that has the device begins to arm it or another
\* to switch it off.
LEMMA PortArmedFrame ==
  ASSUME PlatformTypeOK, DeviceHeld, PortArmed,
         UNCHANGED <<csr, shadow, owner, armed>>,
         \A q \in Programs : pc'[q][1] = "disable" => pc[q][1] = "disable",
         owner # None => \/ pc'[owner] = pc[owner]
                         \/ pc[owner][1] = "enable" /\ pc[owner][2] = 0 /\ pc'[owner][1] = "enable" /\ pc'[owner][2] = 1
                         \/ pc'[owner][1] \in {"get_ttbr0", "kernel"}
  PROVE  PortArmed'
<1>1. Written(0) /\ Written(1)
  BY EnablingWrites DEF Written
<1>2. \A k : Written(k) => Written(k)'
  BY DEF Written
<1>3. (armed = "arming" /\ owner # None /\ pc[owner][1] = "enable" => Written(pc[owner][2]))'
  <2> SUFFICES ASSUME armed = "arming", owner # None, pc'[owner][1] = "enable"
               PROVE  Written(pc[owner][2])'
    OBVIOUS
  <2>1. CASE pc'[owner] = pc[owner]
    BY <1>2, <2>1 DEF PortArmed, Written
  <2>2. CASE pc'[owner][2] = 1
    BY <1>1, <2>2 DEF Written
  <2> QED BY <2>1, <2>2
<1>4. (armed = "armed" => /\ pc[owner][1] \in {"get_ttbr0", "kernel"}
                          /\ Written(8)
                          /\ \A ch \in Channels : Coherent(ch))'
  BY <1>2 DEF PortArmed, Coherent
<1>5. (armed # "no" => \A q \in Programs : pc[q][1] # "disable")'
  BY DEF PortArmed
<1> QED BY <1>3, <1>4, <1>5 DEF PortArmed

\* A write of a program that enables the port.
LEMMA PortArmedWrite ==
  ASSUME PlatformTypeOK, DeviceHeld, PortArmed, NEW p \in Programs, WriteRegister(p)
  PROVE  PortArmed'
<1> PICK i \in 1 .. 7 : i = pc[p][2]
  BY WriteStep
<1> DEFINE w == AcpWrites(pc[p][1] = "enable")
<1>1. /\ w[i][1] \in 0 .. 7
      /\ csr' = [csr EXCEPT ![w[i][1]] = w[i][2]]
      /\ csr'[7] = 0
      /\ pc[p] \in {"enable", "disable"} \X (1 .. 7)
      /\ pc' = [pc EXCEPT ![p] = IF i < 7 THEN <<pc[p][1], i + 1>> ELSE AfterEnable(p)]
      /\ armed' = IF i = 7 /\ owner = p /\ armed = "arming" THEN "armed" ELSE armed
      /\ owner' = owner /\ kernel' = kernel
  BY WriteStep
<1>e. w = AcpWrites(pc[p][1] = "enable")
  OBVIOUS
<1> HIDE DEF w
<1>2. CASE armed = "no"
  BY <1>1, <1>2 DEF PortArmed
<1>3. CASE armed # "no"
  <2>1. pc[p][1] = "enable" /\ w = Enabling /\ pc[p][2] = i
    BY <1>1, <1>3, <1>e DEF PortArmed, Enabling
  <2>2. \A j \in 1 .. 7 : csr'[Enabling[j][1]] = IF j = i THEN Enabling[j][2] ELSE csr[Enabling[j][1]]
    BY <1>1, <2>1, EnablingRegisters DEF PlatformTypeOK
  \* Whatever of the values was there stays.
  <2>3. ASSUME NEW k \in 0 .. 8, Written(k) PROVE Written(k)' /\ (k = i => Written(k + 1)')
    <3>1. Written(k)'
      BY <2>2, <2>3 DEF Written
    <3>2. ASSUME k = i, NEW j \in 1 .. 7, j < k + 1 PROVE csr'[Enabling[j][1]] = Enabling[j][2]
      BY <1>1, <2>2, <2>3, <3>2 DEF Written
    <3> QED BY <3>1, <3>2 DEF Written
  <2>4. \A q \in Programs : pc'[q][1] # "disable"
    BY <1>1, <1>3, <2>1 DEF PortArmed, AfterEnable, Idle, PlatformTypeOK
  <2>5. CASE armed = "arming"
    <3>1. CASE owner = p
      <4>1. Written(i + 1)'
        <5>1. Written(i)
          BY <1>3, <2>1, <2>5, <3>1 DEF PortArmed
        <5> QED BY <2>3, <5>1
      <4>2. CASE i < 7
        <5>1. pc'[owner] = <<"enable", i + 1>> /\ armed' = "arming"
          BY <1>1, <2>1, <2>5, <3>1, <4>2 DEF PlatformTypeOK
        <5>2. Written(pc[owner][2])'
          BY <1>1, <4>1, <5>1 DEF Written
        <5> QED BY <1>1, <1>3, <2>4, <3>1, <5>1, <5>2 DEF PortArmed
      <4>3. CASE i = 7
        <5>1. Written(7)
          BY <2>1, <2>5, <3>1, <4>3 DEF PortArmed
        <5>2. \A ch \in Channels : ~valid[ch]
          BY <2>1, <3>1 DEF DeviceHeld
        <5>3. \A ch \in Channels : Coherent(ch)'
          BY <5>1, <5>2, CopyIsCoherent, CycleStep DEF WriteRegister, Coherent
        <5>4. armed' = "armed" /\ pc'[owner] = <<"get_ttbr0", 0>>
          BY <1>1, <2>5, <3>1, <4>3 DEF AfterEnable, PlatformTypeOK
        <5>5. Written(8)'
          BY <4>1, <4>3
        <5> QED BY <1>1, <1>3, <2>4, <5>3, <5>4, <5>5 DEF PortArmed
      <4> QED BY <1>1, <4>2, <4>3
    <3>2. CASE owner # p
      <4>1. owner # None => pc'[owner] = pc[owner]
        BY <1>1, <3>2 DEF PlatformTypeOK
      <4>2. armed' = armed /\ owner' = owner /\ csr'[7] = 0
        BY <1>1, <3>2
      <4>3. pc[owner][1] = "enable" => pc[owner][2] \in 0 .. 8
        BY <1>3 DEF PortArmed, PlatformTypeOK, Idle
      <4> QED BY <1>3, <2>3, <2>4, <2>5, <4>1, <4>2, <4>3 DEF PortArmed
    <3> QED BY <3>1, <3>2
  <2>6. CASE armed = "armed"
    <3>1. Written(7) /\ Written(8)'
      BY <2>3, <2>6 DEF PortArmed, Written
    <3>2. \A ch \in Channels : Coherent(ch)'
      BY <2>6, <3>1, CopyIsCoherent, CycleStep DEF WriteRegister, Coherent, PortArmed, ShadowNext
    <3>3. owner # p /\ armed' = armed
      BY <1>1, <2>1, <2>6 DEF PortArmed
    <3>4. pc'[owner] = pc[owner]
      BY <1>1, <3>3, <1>3 DEF PlatformTypeOK, PortArmed
    <3> QED BY <1>1, <1>3, <2>4, <2>6, <3>1, <3>2, <3>3, <3>4 DEF PortArmed
  <2> QED BY <1>3, <2>5, <2>6 DEF PlatformTypeOK
<1> QED BY <1>2, <1>3

LEMMA PortArmedStep ==
  ASSUME PlatformTypeOK, DeviceHeld, PortArmed, [Next]_vars
  PROVE  PortArmed'
<1> USE PlatformAssumption DEF Goto, At, Idle
<1>1. ASSUME NEW p \in Programs, NEW function \in {"enable", "disable"}, CallEnable(p, function)
      PROVE  PortArmed'
  <2>1. /\ csr' = csr /\ shadow' = shadow /\ owner' = owner
        /\ pc[p][1] \in {"idle", "main"}
        /\ pc' = [pc EXCEPT ![p] = <<function, 0>>]
    BY <1>1 DEF CallEnable, bridgeVars
  <2>2. CASE function = "disable"
    <3>1. owner # p
      BY <1>1, <2>2 DEF CallEnable, DeviceHeld
    <3>2. armed' = "no"
      BY <1>1, <2>2, <3>1, Zenon DEF CallEnable
    <3> QED BY <2>1, <3>2 DEF PortArmed
  <2>3. CASE function = "enable"
    <3>1. armed' = IF owner = p /\ ~(\E q \in Programs : pc[q][1] = "disable") THEN "arming" ELSE armed
      BY <1>1, <2>3 DEF CallEnable
    <3>2. CASE owner # p
      BY <2>1, <2>3, <3>1, <3>2, PortArmedFrame DEF PlatformTypeOK
    <3>3. CASE owner = p /\ \E q \in Programs : pc[q][1] = "disable"
      BY <2>1, <3>1, <3>3 DEF PortArmed
    <3>4. CASE owner = p /\ ~\E q \in Programs : pc[q][1] = "disable"
      BY <2>1, <2>3, <3>1, <3>4 DEF PortArmed, Written, PlatformTypeOK
    <3> QED BY <3>2, <3>3, <3>4
  <2> QED BY <2>2, <2>3
<1>2. ASSUME NEW p \in Programs, EnableSmp(p) PROVE PortArmed'
  <2>1. /\ UNCHANGED <<csr, shadow, owner, armed>>
        /\ pc[p] \in {<<"enable", 0>>, <<"disable", 0>>}
        /\ pc' = [pc EXCEPT ![p] = <<pc[p][1], 1>>] \/ pc' = [pc EXCEPT ![p] = AfterEnable(p)]
    BY <1>2 DEF EnableSmp, bridgeVars, deviceVars
  <2> QED BY <2>1, PortArmedFrame DEF AfterEnable, DeviceHeld, PlatformTypeOK
<1>3. ASSUME NEW p \in Programs, WriteRegister(p) PROVE PortArmed'
  BY <1>3, PortArmedWrite
<1>4. ASSUME NEW p \in Programs, getvaddr_fails(p) PROVE PortArmed'
  <2>1. /\ UNCHANGED <<csr, shadow>>
        /\ pc' = [pc EXCEPT ![p] = Idle]
        /\ IF owner = p THEN armed' = "no" ELSE UNCHANGED <<owner, armed>>
    BY <1>4 DEF getvaddr_fails, bridgeVars
  <2>2. CASE owner = p
    BY <2>1, <2>2 DEF PortArmed
  <2>3. CASE owner # p
    BY <2>1, <2>3, PortArmedFrame DEF PlatformTypeOK
  <2> QED BY <2>2, <2>3
<1>5. ASSUME NEW p \in Programs, OpenDevice(p) PROVE PortArmed'
  BY <1>5 DEF OpenDevice, rst_n, PortArmed
<1>6. ASSUME NEW p \in Programs, get_ttbr0(p) PROVE PortArmed'
  BY <1>6, PortArmedFrame DEF get_ttbr0, bridgeVars, PlatformTypeOK
<1>7. ASSUME NEW p \in Programs, CloseDevice(p) PROVE PortArmed'
  BY <1>7 DEF CloseDevice, bridgeVars, PortArmed
<1>8. ASSUME NEW p \in Programs, flush_L1_cacheline(p) PROVE PortArmed'
  BY <1>8, PortArmedFrame DEF flush_L1_cacheline, bridgeVars, deviceVars
<1>9. ASSUME NEW p \in Programs, flush_TLB(p) PROVE PortArmed'
  BY <1>9, PortArmedFrame DEF flush_TLB, bridgeVars, deviceVars, DeviceHeld, PlatformTypeOK
<1>10. ASSUME NEW p \in Programs, flush_TLB_check(p) PROVE PortArmed'
  BY <1>10, PortArmedFrame DEF flush_TLB_check, bridgeVars, deviceVars, DeviceHeld, PlatformTypeOK
<1>11. CASE LoadDriver
  BY <1>11, PortArmedFrame DEF LoadDriver, bridgeVars, deviceVars
<1>12. CASE UnloadDriver
  BY <1>12, PortArmedFrame DEF UnloadDriver, bridgeVars, deviceVars
<1>13. CASE Tick
  <2>1. UNCHANGED <<csr, pc, owner, armed>> /\ \A ch \in Channels : shadow'[ch] = ShadowNext(ch)
    BY <1>13, CycleStep DEF Tick, deviceVars
  <2>2. armed = "armed" => \A ch \in Channels : Coherent(ch)'
    <3>1. Written(8) => Written(7)
      BY DEF Written
    <3> QED BY <2>1, <3>1, CopyIsCoherent DEF Coherent, PortArmed, ShadowNext
  <2> QED BY <2>1, <2>2 DEF PortArmed, Written
<1>14. CASE UNCHANGED vars
  BY <1>14, PortArmedFrame DEF vars, bridgeVars, deviceVars
<1> QED BY <1>1, <1>2, <1>3, <1>4, <1>5, <1>6, <1>7, <1>8, <1>9, <1>10, <1>11, <1>12, <1>13, <1>14
        DEF Next

LEMMA FlushHeldStep ==
  ASSUME PlatformTypeOK, DeviceHeld, PortArmed, FlushHeld, [Next]_vars
  PROVE  FlushHeld'
<1> USE DEF FlushHeld
<1>1. ASSUME NEW p \in Programs, EnableSmp(p) PROVE FlushHeld'
  BY <1>1 DEF EnableSmp, driverVars
<1>2. ASSUME NEW p \in Programs, flush_L1_cacheline(p) PROVE FlushHeld'
  BY <1>2 DEF flush_L1_cacheline
<1>3. ASSUME NEW p \in Programs, flush_TLB(p) PROVE FlushHeld'
  BY <1>3, StoreLeaves DEF flush_TLB
<1>4. ASSUME NEW p \in Programs,
             \/ \E function \in {"enable", "disable"} : CallEnable(p, function)
             \/ WriteRegister(p) \/ getvaddr_fails(p) \/ OpenDevice(p) \/ get_ttbr0(p)
             \/ CloseDevice(p) \/ flush_TLB_check(p)
      PROVE  FlushHeld'
  BY <1>4 DEF CallEnable, WriteRegister, getvaddr_fails, OpenDevice, get_ttbr0,
              CloseDevice, flush_TLB_check, driverVars
<1>5. CASE LoadDriver
  BY <1>5 DEF LoadDriver
<1>6. CASE UnloadDriver
  BY <1>6 DEF UnloadDriver, svm_driver_cleanup
<1>7. CASE Tick \/ UNCHANGED vars
  BY <1>7 DEF Tick, vars, driverVars
<1> QED BY <1>1, <1>2, <1>3, <1>4, <1>5, <1>6, <1>7 DEF Next

-----------------------------------------------------------------------------
(***************************************************************************)
(* The theorems.                                                           *)
(***************************************************************************)

LEMMA PlatformInvInit == Init => PlatformInv
<1> SUFFICES ASSUME Init PROVE PlatformInv
  OBVIOUS
<1> USE DEF Init, BridgeInit, DriverInit, Idle
<1>1. PlatformTypeOK
  BY DEF PlatformTypeOK
<1>2. DeviceHeld
  BY PlatformAssumption DEF DeviceHeld
<1>3. PortArmed /\ FlushHeld
  BY DEF PortArmed, FlushHeld
<1> QED BY <1>1, <1>2, <1>3 DEF PlatformInv

\* The inductive invariant holds in every state the platform can be in.
THEOREM PlatformInvariant == Spec => []PlatformInv
<1>1. PlatformInv /\ [Next]_vars => PlatformInv'
  BY PlatformTypeStep, DeviceHeldStep, PortArmedStep, FlushHeldStep DEF PlatformInv
<1> QED BY <1>1, PlatformInvInit, PTL DEF Spec

\* Once a program's call that enables the port is through, and until another
\* call begins to switch it off, whatever its kernel offers to the processor is
\* a coherent transaction.
THEOREM CoherentOnceArmed == Spec => []AcpTransactions
<1>1. PlatformInv => AcpTransactions
  <2> SUFFICES ASSUME PlatformInv, armed = "armed", NEW ch \in Channels
               PROVE  Out(ch) = [cache |-> 15, prot |-> 4, user |-> 1]
    BY DEF AcpTransactions
  <2>1. csr[7] = 0 /\ shadow[ch] = [cache |-> 15, prot |-> 4, user |-> 1]
    BY DEF PlatformInv, PortArmed, Coherent
  <2> QED BY <2>1, OutIsShadow DEF Signals
<1> QED BY <1>1, PlatformInvariant, PTL

\* flush_TLB reports a failure only if another command came between.
THEOREM FlushReportsOthers == Spec => []FlushReported
<1>1. PlatformInv => FlushReported
  BY PlatformAssumption DEF PlatformInv, FlushHeld, FlushReported, Flush_failed, svm_driver_show
<1> QED BY <1>1, PlatformInvariant, PTL

\* The signals of a transaction that waits stay as they are, whatever software
\* writes to the bridge meanwhile.
THEOREM SignalsStable == Spec => StableWhileValid
<1>0. (csr[7] = 0 => \A ch \in Channels : Out(ch) = [s \in Signals |-> shadow[ch][s]])'
  BY OutIsShadow, PTL
<1>1. ASSUME PlatformInv, PlatformInv', Next,
             NEW ch \in Channels, valid[ch], ~ready[ch], valid'[ch]
      PROVE  Out(ch)' = Out(ch)
  <2>1. csr[7] = 0 /\ csr'[7] = 0
    BY <1>1 DEF PlatformInv, PortArmed
  <2>2. shadow'[ch] = shadow[ch]
    <3>1. ASSUME NEW p \in Programs, OpenDevice(p) PROVE FALSE
      BY <1>1, <3>1 DEF OpenDevice, rst_n
    <3>2. ASSUME NEW next, NEW active, Cycle(next, active) PROVE shadow'[ch] = shadow[ch]
      BY <1>1, <3>2, CycleStep DEF ShadowNext, PlatformInv
    <3>3. ASSUME NEW p \in Programs, WriteRegister(p) PROVE shadow'[ch] = shadow[ch]
      BY <3>2, <3>3 DEF WriteRegister
    <3>4. CASE Tick
      BY <3>2, <3>4 DEF Tick
    <3> QED BY <1>1, <3>1, <3>3, <3>4
            DEF Next, CallEnable, EnableSmp, getvaddr_fails, get_ttbr0, CloseDevice,
                flush_L1_cacheline, flush_TLB, flush_TLB_check, LoadDriver, UnloadDriver, bridgeVars
  <2>3. Out(ch) = [s \in Signals |-> shadow[ch][s]]
    BY <2>1, OutIsShadow
  <2>4. Out(ch)' = [s \in Signals |-> shadow'[ch][s]]
    BY <1>0, <2>1
  <2> QED BY <2>2, <2>3, <2>4
<1>2. PlatformInv /\ PlatformInv' /\ [Next]_vars
        => [\A ch \in Channels : valid[ch] /\ ~ready[ch] /\ valid'[ch] => Out(ch)' = Out(ch)]_vars
  BY <1>1
<1> QED BY <1>2, PlatformInvariant, PTL DEF Spec, StableWhileValid
=============================================================================
