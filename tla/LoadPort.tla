------------------------------ MODULE LoadPort ------------------------------
(***************************************************************************)
(* What a bridge for loads promises to the kernel that uses it: requests   *)
(* for the words at a virtual address are answered, in order, with what    *)
(* the host's program has there.                                           *)
(***************************************************************************)
EXTENDS Naturals, Sequences

CONSTANTS
  VA,             \* virtual addresses, by word
  Requests,       \* those at which the kernel's requests begin
  Words,          \* words in an answer
  Values,
  NoAnswer

VARIABLES
  content,        \* what the host's program has at its addresses
  pending,        \* the requests that are not answered
  answer          \* the last answer

vars == <<content, pending, answer>>

Init ==
  /\ content \in [VA -> Values]
  /\ pending = <<>>
  /\ answer = NoAnswer

Ask ==
  /\ \E va \in Requests : pending' = Append(pending, va)
  /\ UNCHANGED <<content, answer>>

Reply ==
  /\ pending # <<>>
  /\ answer' = [i \in 1 .. Words |-> content[Head(pending) + i - 1]]
  /\ pending' = Tail(pending)
  /\ UNCHANGED content

\* The program changes its memory, or another takes its place, when no request
\* is on its way.
Change ==
  /\ pending = <<>>
  /\ content' \in [VA -> Values]
  /\ answer' = NoAnswer
  /\ UNCHANGED pending

Next == Ask \/ Reply \/ Change

Spec == Init /\ [][Next]_vars /\ WF_vars(Reply)
=============================================================================
