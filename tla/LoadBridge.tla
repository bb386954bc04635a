----------------------------- MODULE LoadBridge -----------------------------
(***************************************************************************)
(* The 512-bit bridge for loads.  A request for consecutive words passes   *)
(* through three load units, one word after the other: the first reads the *)
(* word's descriptor of level 0, the second that of level 1, the third the *)
(* data; two FIFOs carry the parts of the address that the later units     *)
(* need, and the words of a request are collected for the answer.  An      *)
(* action is what happens in one cycle when a word moves; a unit holds     *)
(* what it has accepted for any number of cycles and gives it back in      *)
(* order.                                                                  *)
(***************************************************************************)
EXTENDS PageTable, Sequences

CONSTANTS
  Words,          \* ACTUAL_NUMBER_OF_32BIT_WORDS
  Addresses,      \* of physical memory
  Half,           \* the address at which the coherency port's window begins
  Capacity0, Capacity1, Capacity2,  \* what the load units hold
  DelayDepth,     \* the depth of the delay FIFOs
  AlmostFull, DataDepth,            \* of the data FIFO
  None

\* The second delay FIFO has nothing that stalls its writer.  The data FIFO is
\* almost full before it is full (14 of 16).
ASSUME CapacityAssumption ==
  /\ Words \in Nat \ {0} /\ Half \in Nat /\ Addresses \subseteq 0 .. Half - 1
  /\ {Capacity0, Capacity1, Capacity2, DelayDepth, AlmostFull, DataDepth} \subseteq Nat
  /\ Capacity1 <= DelayDepth /\ AlmostFull < DataDepth

VARIABLES
  memory,         \* physical memory
  ttbr0,          \* what the kernel passes with its requests
  state, counter, va_reg,
  r_start,        \* the position of the one in the register
  unit0, unit1, unit2,              \* results that the units hold
  cached0, cached1, cached2,        \* what their caches hold
  va1, va2,       \* the delay FIFOs
  read_data_shreg, ovalid_int,
  readdata        \* the data FIFO

bridgeVars == <<memory, ttbr0, state, counter, va_reg, r_start, unit0, unit1, unit2,
                cached0, cached1, cached2, va1, va2, read_data_shreg, ovalid_int, readdata>>

frontVars == <<state, counter, va_reg, r_start>>
backVars  == <<read_data_shreg, ovalid_int, readdata>>

Uncached == [a \in Addresses |-> None]

start == r_start \in {1, 2}

\* The units' requests go to the window of the coherency port.
acp(address)  == Half + (address % Half)
Port(address) == memory[address - Half]

\* A unit answers from its cache if it can; while it is flushed it cannot.
Lookup(cached, address) ==
  IF start \/ cached[address % Half] = None THEN Port(acp(address)) ELSE cached[address % Half]
Caches(cached, address) ==
  IF start THEN [Uncached EXCEPT ![address % Half] = Lookup(cached, address)]
  ELSE [cached EXCEPT ![address % Half] = Lookup(cached, address)]

-----------------------------------------------------------------------------
BridgeInit ==
  /\ state = "s_idle" /\ counter = 0 /\ va_reg = 0 /\ r_start = 0
  /\ unit0 = <<>> /\ unit1 = <<>> /\ unit2 = <<>>
  /\ cached0 = Uncached /\ cached1 = Uncached /\ cached2 = Uncached
  /\ va1 = <<>> /\ va2 = <<>>
  /\ read_data_shreg = <<>> /\ ovalid_int = FALSE /\ readdata = <<>>

\* A reset leaves what the units have cached.
Reset ==
  /\ state' = "s_idle" /\ r_start' = 0
  /\ unit0' = <<>> /\ unit1' = <<>> /\ unit2' = <<>>
  /\ read_data_shreg' = <<>> /\ ovalid_int' = FALSE /\ readdata' = <<>>
  /\ UNCHANGED <<counter, va_reg, cached0, cached1, cached2, va1, va2>>

\* A mutant: the units are never told to flush.
start_proc_none == r_start' = 3 /\ UNCHANGED <<cached0, cached1, cached2>>

\* The register moves with each cycle in which a request is offered; in its
\* second and third place it flushes the units.
start_proc ==
  /\ r_start' = IF r_start < 3 THEN r_start + 1 ELSE 3
  /\ IF r_start < 2 THEN cached0' = Uncached /\ cached1' = Uncached /\ cached2' = Uncached
     ELSE UNCHANGED <<cached0, cached1, cached2>>

\* The bridge takes a request.
s_idle(va) ==
  /\ state = "s_idle"
  /\ state' = "s_input" /\ counter' = 0 /\ va_reg' = va
  /\ start_proc
  /\ UNCHANGED <<memory, ttbr0, unit0, unit1, unit2, va1, va2, backVars>>

\* A request is offered while the bridge is busy.
Offered ==
  /\ state = "s_input" /\ r_start < 3
  /\ start_proc
  /\ UNCHANGED <<memory, ttbr0, state, counter, va_reg, unit0, unit1, unit2,
                 va1, va2, backVars>>

\* The first unit takes a word's address, and the delay FIFO with it.
s_input ==
  /\ state = "s_input" /\ Len(unit0) < Capacity0 /\ Len(va1) < DelayDepth
  /\ IF counter = Words - 1
       THEN state' = "s_idle" /\ UNCHANGED <<counter, va_reg>>
       ELSE counter' = counter + 1 /\ va_reg' = va_reg + 1 /\ UNCHANGED state
  /\ LET address == table0_desc_addr(va_reg, ttbr0)
     IN  unit0' = Append(unit0, Lookup(cached0, address)) /\ cached0' = Caches(cached0, address)
  /\ va1' = Append(va1, va_reg)
  /\ UNCHANGED <<memory, ttbr0, r_start, unit1, unit2, cached1, cached2, va2, backVars>>

\* A write to a full FIFO is lost.
Pushed(fifo, depth, x) == IF Len(fifo) < depth THEN Append(fifo, x) ELSE fifo

\* The second unit takes what the first has read.
read_pt_level1 ==
  /\ unit0 # <<>> /\ Len(unit1) < Capacity1
  /\ LET address == table1_desc_addr(Head(va1), Head(unit0))
     IN  unit1' = Append(unit1, Lookup(cached1, address)) /\ cached1' = Caches(cached1, address)
  /\ unit0' = Tail(unit0)
  /\ va2' = Pushed(va2, DelayDepth, Head(va1))
  /\ va1' = Tail(va1)
  /\ UNCHANGED <<memory, ttbr0, frontVars, unit2, cached0, cached2, backVars>>

\* The third unit takes what the second has read.
rw ==
  /\ unit1 # <<>> /\ Len(unit2) < Capacity2
  /\ LET address == data_addr(Head(va2), Head(unit1))
     IN  unit2' = Append(unit2, Lookup(cached2, address)) /\ cached2' = Caches(cached2, address)
  /\ unit1' = Tail(unit1)
  /\ va2' = Tail(va2)
  /\ UNCHANGED <<memory, ttbr0, frontVars, unit0, cached0, cached1, va1, backVars>>

\* Moves the data register into the data FIFO, one cycle after its last word.
wrreq_readdata ==
  /\ readdata' = IF ovalid_int THEN Pushed(readdata, DataDepth, read_data_shreg) ELSE readdata
  /\ ovalid_int' = FALSE

\* A word of data shifts into the register, unless the data FIFO is almost full.
shreg_proc ==
  /\ unit2 # <<>> /\ Len(readdata) < AlmostFull
  /\ LET words == (IF Len(read_data_shreg) = Words THEN <<>> ELSE read_data_shreg)
     IN  /\ read_data_shreg' = Append(words, Head(unit2))
         /\ ovalid_int' = (Len(words) = Words - 1)
  /\ readdata' = IF ovalid_int THEN Pushed(readdata, DataDepth, read_data_shreg) ELSE readdata
  /\ unit2' = Tail(unit2)
  /\ UNCHANGED <<memory, ttbr0, frontVars, unit0, unit1, cached0, cached1, cached2, va1, va2>>

\* A cycle in which no word of data arrives.
NoWord ==
  /\ ovalid_int
  /\ wrreq_readdata
  /\ UNCHANGED <<memory, ttbr0, frontVars, unit0, unit1, unit2,
                 cached0, cached1, cached2, va1, va2, read_data_shreg>>

\* The kernel takes an answer.
rdreq_readdata ==
  /\ readdata # <<>>
  /\ readdata' = Tail(readdata)
  /\ UNCHANGED <<memory, ttbr0, frontVars, unit0, unit1, unit2, cached0, cached1, cached2,
                 va1, va2, read_data_shreg, ovalid_int>>
=============================================================================
