----------------------------- MODULE AtomicCell -----------------------------
(***************************************************************************)
(* What the lock service promises its users: a shared word on which a host *)
(* store and a device add each take effect at one instant between their    *)
(* call and their return, or not at all.  It says nothing of locks,        *)
(* registers, page tables or buses.                                        *)
(***************************************************************************)
EXTENDS Naturals

CONSTANTS
  Storers,   \* clients that store a value (svm_atomic_store)
  Adders,    \* clients that add to the word (host_memory_bridge_aa_32bit)
  Modulus    \* the word holds 0 .. Modulus - 1

VARIABLES
  cell,      \* the word
  phase,     \* [client -> where its operation is]
  arg        \* [client -> the value to store or to add]

cellVars == <<cell, phase, arg>>

Users == Storers \cup Adders

CellInit ==
  /\ cell = 0
  /\ phase = [c \in Users |-> "idle"]
  /\ arg = [c \in Users |-> 0]

Move(c, from, to) ==
  /\ phase[c] = from
  /\ phase' = [phase EXCEPT ![c] = to]

Invoke(c) ==
  /\ Move(c, "idle", "pending")
  /\ \E v \in 0 .. Modulus - 1 : arg' = [arg EXCEPT ![c] = v]
  /\ UNCHANGED cell

\* The one instant at which the operation happens.
Apply(c) ==
  /\ Move(c, "pending", "done")
  /\ cell' = IF c \in Storers THEN arg[c] ELSE (cell + arg[c]) % Modulus
  /\ UNCHANGED arg

\* An add that met a page fault reports it and leaves the word alone.
Fail(c) ==
  /\ c \in Adders
  /\ Move(c, "pending", "failed")
  /\ UNCHANGED <<cell, arg>>

Return(c) ==
  /\ Move(c, "done", "idle") \/ Move(c, "failed", "idle")
  /\ UNCHANGED <<cell, arg>>

\* The client's program ends, or its hardware is reset, before the operation.
Abort(c) ==
  /\ Move(c, "pending", "idle")
  /\ UNCHANGED <<cell, arg>>

CellNext ==
  \E c \in Users : Invoke(c) \/ Apply(c) \/ Fail(c) \/ Return(c) \/ Abort(c)

CellSpec == CellInit /\ [][CellNext]_cellVars
=============================================================================
