---------------------------- MODULE JtagProperties ----------------------------
(***************************************************************************)
(* What is asked of the driver of the JTAG UART.                           *)
(***************************************************************************)
EXTENDS JtagUart

Line == BufLen - 1 + FifoDepth

Printing == INSTANCE CharStream
            WITH Capacity <- Line, Length <- Printed, sent <- written, received <- shown

Typing == INSTANCE CharStream
          WITH Capacity <- Line, Length <- Typed, sent <- typed, received <- got

(* What the host sees is what has been written, whatever the interrupt     *)
(* does while write copies into the ring.                                  *)
PrintingSpec == Printing!StreamSpec

(* What the program reads is what the host has typed.                      *)
TypingSpec == Typing!StreamSpec

(* Characters do not wait in the ring while the interrupt that would send  *)
(* them is off, but for the time write takes to switch it on.              *)
SomeoneSends ==
  tx_in # tx_out /\ pc \notin {"room", "fill", "publish", "kick"} => "WE" \in irq_enable

(* The interrupt that receives is off only while the ring is full, or read *)
(* is about to switch it on.                                               *)
SomeoneReceives ==
  "RE" \notin irq_enable /\ Free > 0 =>
    done > 0 /\ pc \in {"look", "take", "release", "enable"}

(* The driver and the interrupt switch one another's interrupts on and off *)
(* in one word, irq_enable, and neither direction is left waiting for an   *)
(* interrupt that is off.                                                  *)
NobodyStranded == SomeoneSends /\ SomeoneReceives

(* TIOCSTIMEOUT with a time out of range means for ever, and so does a     *)
(* driver without a clock: the count of seconds never gets there.          *)
ForEver == timeout >= IntMax - 1 => ~Gone

Writing == pc \in {"room", "fill", "publish", "kick", "spin", "judge"}

(* Every character written reaches a host that stays.                      *)
AllShown == (connected /\ Len(shown) < written) ~> (Len(shown) = written \/ ~connected)

(* With a host that stays, printf comes back.                              *)
PrintfReturns == (connected /\ Writing) ~> (~Writing \/ ~connected)
=============================================================================
