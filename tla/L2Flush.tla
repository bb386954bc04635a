------------------------------ MODULE L2Flush ------------------------------
(***************************************************************************)
(* A line of the processor's level 2 cache while flush_L2_cacheline works  *)
(* on it, and others (another core, a master behind the coherency port)    *)
(* write to it.                                                            *)
(***************************************************************************)
EXTENDS Naturals

CONSTANTS
  MaxWrites,      \* how often the others write
  NotCached

VARIABLES
  cache,          \* what the line holds, or NotCached
  memory,         \* what memory holds
  written,        \* what was written last
  pc              \* the next step of flush_L2_cacheline

vars == <<cache, memory, written, pc>>

Init ==
  /\ memory = 0 /\ written = 0
  /\ cache = NotCached
  /\ pc = "start"

\* The line is in memory, and then leaves the cache.
flush_L2_cacheline ==
  \/ /\ pc = "start"
     /\ pc' = "clean"
     /\ UNCHANGED <<cache, memory, written>>
  \/ /\ pc = "clean"
     /\ memory' = IF cache # NotCached THEN cache ELSE memory
     /\ pc' = "invalidate"
     /\ UNCHANGED <<cache, written>>
  \/ /\ pc = "invalidate"
     /\ cache' = NotCached
     /\ pc' = "start"
     /\ UNCHANGED <<memory, written>>

\* getvaddr ends the program before it can write to the cache's controller.
getvaddr_fails ==
  /\ pc \in {"clean", "invalidate"}
  /\ pc' = "start"
  /\ UNCHANGED <<cache, memory, written>>

Write ==
  /\ written < MaxWrites
  /\ written' = written + 1
  /\ cache' = written + 1
  /\ UNCHANGED <<memory, pc>>

\* The cache itself may fetch the line, or write it back and drop it.
Fetch == cache = NotCached /\ cache' = memory /\ UNCHANGED <<memory, written, pc>>
Evict == cache # NotCached /\ memory' = cache /\ cache' = NotCached /\ UNCHANGED <<written, pc>>

Next == flush_L2_cacheline \/ getvaddr_fails \/ Write \/ Fetch \/ Evict

Spec == Init /\ [][Next]_vars

\* "If the cacheline is modified (dirty), the entire contents of the cacheline
\* are written to system memory before the line is invalidated": without the
\* line in the cache, memory has what was written last.
WrittenBeforeInvalidated == cache = NotCached => memory = written
=============================================================================
