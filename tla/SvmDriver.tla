----------------------------- MODULE SvmDriver -----------------------------
(***************************************************************************)
(* The kernel module svm_driver: a sysfs file through which programs set   *)
(* or read system registers of the processor.  A read or a write of the    *)
(* file is one call of show or store, atomic for the programs.             *)
(***************************************************************************)
EXTENDS Naturals

CONSTANTS
  NSACR,          \* what command 1 finds in the register it changes
  Garbage         \* what an uninitialised register holds

VARIABLES
  driver,         \* whether the module is loaded: "out" or "in"
  foo,            \* the one word that a command leaves for whoever reads next
  smp             \* whether the processor takes part in coherency

driverVars == <<driver, foo, smp>>

DriverInit == driver = "out" /\ foo = 0 /\ smp = FALSE

\* Registers the driver and then creates its file; if that fails it is
\* unregistered again, and the module is not loaded.
svm_driver_init ==
  /\ driver = "out"
  /\ driver' \in {"in", "out"}
  /\ foo' = 0
  /\ UNCHANGED smp

svm_driver_cleanup ==
  /\ driver = "in"
  /\ driver' = "out"
  /\ UNCHANGED <<foo, smp>>

\* A mutant: command 3 leaves no sign.
svm_driver_store_silent(command) ==
  /\ foo' = CASE command = 1 -> NSACR [] command = 2 -> Garbage [] command = 3 -> foo
  /\ smp' = (smp \/ command = 1)
  /\ UNCHANGED driver

\* Command 1 sets the SMP bit, 2 cleans a line of the L1 cache and stores a
\* register that it has not set, 3 invalidates the TLB.
svm_driver_store(command) ==
  /\ foo' = CASE command = 1 -> NSACR [] command = 2 -> Garbage [] command = 3 -> 18
  /\ smp' = (smp \/ command = 1)
  /\ UNCHANGED driver

\* What a program reads; the translation table is that of the program itself.
svm_driver_show(table) == [TTBR0 |-> table, foo |-> foo]
=============================================================================
