------------------------------ MODULE CharStream ------------------------------
(***************************************************************************)
(* What a serial line promises: the characters come out in the order they  *)
(* went in, each once, and no more than Capacity are on their way.         *)
(***************************************************************************)
EXTENDS Naturals, Sequences

CONSTANTS
  Capacity,   \* characters the line can hold
  Length      \* characters anyone sends

VARIABLES
  sent,       \* how many have gone in; the i-th is called i
  received    \* what has come out

StreamInit == sent = 0 /\ received = <<>>

Send ==
  /\ sent' \in sent + 1 .. Length
  /\ sent' - Len(received) <= Capacity
  /\ UNCHANGED received

Receive ==
  /\ received' \in {received \o [i \in 1 .. k |-> Len(received) + i] : k \in 1 .. sent - Len(received)}
  /\ UNCHANGED sent

StreamSpec == StreamInit /\ [][Send \/ Receive]_<<sent, received>>
=============================================================================
