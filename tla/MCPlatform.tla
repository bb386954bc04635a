----------------------------- MODULE MCPlatform -----------------------------
(***************************************************************************)
(* A program that runs kernels, and a tool.                                *)
(***************************************************************************)
EXTENDS Platform

CONSTANTS main, tool

MCTable == [p \in {main} |-> 1]

\* What the FPGA's masters drive themselves.
MCOwn == [cache |-> 3, prot |-> 0, user |-> 0]
=============================================================================
