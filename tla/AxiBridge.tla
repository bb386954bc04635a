----------------------------- MODULE AxiBridge -----------------------------
(***************************************************************************)
(* The AXI cache security bridge.  It lies between the masters of the FPGA *)
(* and the processor's coherency port, and replaces the cache, prot and    *)
(* user signals of each transaction by those that software has set.        *)
(* One step is one clock cycle.                                            *)
(***************************************************************************)
EXTENDS Naturals

CONSTANT Own      \* the signals that the masters themselves drive

VARIABLES
  csr,            \* the registers that software writes, by address
  shadow,         \* what the channels use of them
  valid,          \* whether a transaction is offered on a channel
  ready           \* whether it is accepted in this cycle

bridgeVars == <<csr, shadow, valid, ready>>

Channels == {"aw", "ar"}
Signals  == {"cache", "prot", "user"}

\* The register of a channel's signal; its bit in register 7 selects the
\* master's own signal.
Address(ch, s) ==
  (IF ch = "aw" THEN 0 ELSE 4) + (CASE s = "cache" -> 0 [] s = "prot" -> 1 [] s = "user" -> 2)

\* The bits of a register that a channel has.
Width(s) == CASE s = "cache" -> 4 [] s = "prot" -> 3 [] s = "user" -> 5

csr_mux_selects(ch, s) == (csr[7] \div 2 ^ Address(ch, s)) % 2 = 1

\* The signals of the transaction that a channel offers to the processor.
Out(ch) == [s \in Signals |-> IF csr_mux_selects(ch, s) THEN Own[s] ELSE shadow[ch][s]]

BridgeInit ==
  /\ csr = [a \in 0 .. 7 |-> 0]
  /\ shadow = [ch \in Channels |-> [s \in Signals |-> 0]]
  /\ valid = [ch \in Channels |-> FALSE]
  /\ ready = [ch \in Channels |-> FALSE]

\* A mutant: the shadow registers follow also while a transaction waits.
ShadowNext_always(ch) == [s \in Signals |-> csr[Address(ch, s)] % 2 ^ Width(s)]

\* The shadow registers of a channel follow the registers while it is idle.
ShadowNext(ch) ==
  IF valid[ch] THEN shadow[ch] ELSE [s \in Signals |-> csr[Address(ch, s)] % 2 ^ Width(s)]

\* A write of a whole word; there is nothing at address 3.
WriteNext(address, word) == IF address = 3 THEN csr ELSE [csr EXCEPT ![address] = word]

\* A cycle, in which the registers become next.  A master that is active may
\* offer a transaction, and holds it until it is accepted.
Cycle(next, active) ==
  /\ csr' = next
  /\ shadow' = [ch \in Channels |-> ShadowNext(ch)]
  /\ valid' \in {v \in [Channels -> BOOLEAN] :
                   \A ch \in Channels : /\ valid[ch] /\ ~ready[ch] => v[ch]
                                        /\ v[ch] => active \/ (valid[ch] /\ ~ready[ch])}
  /\ ready' \in {r \in [Channels -> BOOLEAN] : \A ch \in Channels : r[ch] => valid'[ch]}

rst_n ==
  /\ csr' = [a \in 0 .. 7 |-> 0]
  /\ shadow' = [ch \in Channels |-> [s \in Signals |-> 0]]
  /\ valid' = [ch \in Channels |-> FALSE]
  /\ ready' = [ch \in Channels |-> FALSE]
=============================================================================
