------------------------------- MODULE JtagUart -------------------------------
(***************************************************************************)
(* The interrupt driven driver of the JTAG UART, through which every       *)
(* printf of main.c and usb.c goes: write, read, close and ioctl, its      *)
(* interrupt and its alarm, against the UART's two FIFOs and the host at   *)
(* the other end of the cable.                                             *)
(*                                                                         *)
(* The interrupt may come between any two accesses of the program to the   *)
(* driver's state.  The i-th character written is called i, and so is the  *)
(* i-th character the host types.                                          *)
(***************************************************************************)
EXTENDS Integers, Sequences, FiniteSets

CONSTANTS
  BufLen,          \* ALTERA_AVALON_JTAG_UART_BUF_LEN
  FifoDepth,       \* the UART's FIFOs
  WriteThreshold,  \* the UART asks for more when its FIFO holds no more than this
  DefaultTimeout,  \* ALTERA_AVALON_JTAG_UART_DEFAULT_TIMEOUT
  IntMax,          \* INT_MAX
  Ticks,           \* is there a system clock?  There is none on this board
  Calls,           \* the counts write and read are called with
  Printed, Typed,  \* bound: characters written, and typed by the host
  Leaves           \* may the host go away?

ASSUME JtagUartAssumption ==
  /\ BufLen \in Nat /\ BufLen > 1
  /\ FifoDepth \in Nat \ {0}
  /\ WriteThreshold \in Nat /\ WriteThreshold < FifoDepth
  /\ DefaultTimeout \in Nat \ {0} /\ IntMax \in Nat /\ DefaultTimeout < IntMax
  /\ Ticks \in BOOLEAN /\ Leaves \in BOOLEAN
  /\ Calls \subseteq Nat \ {0}
  /\ Printed \in Nat /\ Typed \in Nat

VARIABLES
  tx_in, tx_out, tx_buf,     \* the ring of characters to transmit
  rx_in, rx_out, rx_buf,     \* the ring of characters received
  irq_enable,                \* RE and WE, in the state and in the register
  host_inactive, timeout,    \* seconds without the host, and how many mean it has gone
  pc, block,                 \* where the program is, and its flags lack O_NONBLOCK
  count, done,               \* characters the call has left, and has done
  in, out, m,                \* its in, out and n
  answer,                    \* what the last call returned
  wfifo, rfifo,              \* the UART's FIFOs
  active, connected,         \* its AC bit, and the host
  written, shown,            \* history: characters accepted, and seen by the host
  typed, got                 \* history: characters typed, and read by the program

txVars == <<tx_in, tx_out, tx_buf, wfifo>>
rxVars == <<rx_in, rx_out, rx_buf, rfifo>>
timeVars == <<host_inactive, timeout, active>>
callVars == <<block, count, done, in, out, m, answer>>
streamVars == <<written, shown, typed, got>>
jtagVars == <<txVars, rxVars, timeVars, pc, callVars, irq_enable, connected, streamVars>>

Slots == 0 .. BufLen - 1
Answers == {"none", "some", "would block", "io error", "closed"}

JtagTypeOK ==
  /\ tx_in \in Slots /\ tx_out \in Slots /\ tx_buf \in [Slots -> 0 .. Printed]
  /\ rx_in \in Slots /\ rx_out \in Slots /\ rx_buf \in [Slots -> 0 .. Typed]
  /\ irq_enable \subseteq {"RE", "WE"}
  /\ host_inactive \in 0 .. IntMax /\ timeout \in 1 .. IntMax
  /\ pc \in {"idle", "room", "fill", "publish", "kick", "spin", "judge",
             "look", "take", "release", "listen", "enable", "drain"}
  /\ block \in BOOLEAN /\ count \in Nat /\ done \in Nat
  /\ in \in Slots /\ out \in Slots /\ m \in 0 .. BufLen
  /\ answer \in Answers
  /\ wfifo \in Seq(1 .. Printed) /\ Len(wfifo) <= FifoDepth
  /\ rfifo \in Seq(1 .. Typed) /\ Len(rfifo) <= FifoDepth
  /\ active \in BOOLEAN /\ connected \in BOOLEAN
  /\ written \in 0 .. Printed /\ shown \in Seq(1 .. Printed)
  /\ typed \in 0 .. Typed /\ got \in Seq(1 .. Typed)

(* altera_avalon_jtag_uart_init, and what the loader has left.             *)
JtagInit ==
  /\ tx_in = 0 /\ tx_out = 0 /\ tx_buf = [i \in Slots |-> 0]
  /\ rx_in = 0 /\ rx_out = 0 /\ rx_buf = [i \in Slots |-> 0]
  /\ irq_enable = {"RE"}
  /\ host_inactive = 0 /\ timeout = IF Ticks THEN DefaultTimeout ELSE IntMax
  /\ pc = "idle" /\ block = TRUE /\ count = 0 /\ done = 0
  /\ in = 0 /\ out = 0 /\ m = 0 /\ answer = "none"
  /\ wfifo = <<>> /\ rfifo = <<>> /\ active = FALSE /\ connected \in BOOLEAN
  /\ written = 0 /\ shown = <<>> /\ typed = 0 /\ got = <<>>

Smaller(a, b) == IF a < b THEN a ELSE b
Wrap(i) == i % BufLen
Used(i, o) == IF i >= o THEN i - o ELSE BufLen - o + i
Gone == host_inactive >= timeout

-----------------------------------------------------------------------------
(* altera_avalon_jtag_uart_write                                           *)

Call(label, c, b) ==
  /\ pc = "idle"
  /\ pc' = label /\ count' = c /\ block' = b
  /\ UNCHANGED <<done, in, out, m, answer, txVars, rxVars, timeVars, irq_enable, connected, streamVars>>

Write(c, b) == written + c <= Printed /\ Call("room", c, b)

(* Mutant: the character before out is not kept free when out is 0.        *)
RoomBehindWhole(i, o) == IF i < o THEN o - 1 - i ELSE BufLen - i

(* Mutant: it is kept free at the end of the array whatever out is.        *)
RoomBehindLess(i, o) == IF i < o THEN o - 1 - i ELSE BufLen - 1 - i

(* The room to the end of the array or to the character before out.        *)
RoomBehind(i, o) ==
  IF i < o THEN o - 1 - i ELSE IF o > 0 THEN BufLen - i ELSE BufLen - 1 - i

Room ==
  /\ pc = "room" /\ count > 0
  /\ in' = tx_in /\ out' = tx_out
  /\ m' = Smaller(RoomBehind(tx_in, tx_out), count)
  /\ pc' = IF m' = 0 THEN "kick" ELSE "fill"
  /\ UNCHANGED <<block, count, done, answer, txVars, rxVars, timeVars, irq_enable, connected,
                 streamVars>>

NothingLeft ==
  /\ pc = "room" /\ count = 0
  /\ pc' = "kick"
  /\ UNCHANGED <<callVars, txVars, rxVars, timeVars, irq_enable, connected, streamVars>>

Fill ==
  /\ pc = "fill"
  /\ tx_buf' = [i \in Slots |-> IF i \in in .. in + m - 1 THEN written + 1 + i - in ELSE tx_buf[i]]
  /\ count' = count - m /\ done' = done + m
  /\ pc' = "publish"
  /\ UNCHANGED <<block, in, out, m, answer, tx_in, tx_out, wfifo, rxVars, timeVars, irq_enable,
                 connected, streamVars>>

Publish ==
  /\ pc = "publish"
  /\ tx_in' = Wrap(in + m)
  /\ written' = written + m
  /\ pc' = "room"
  /\ UNCHANGED <<callVars, tx_out, tx_buf, wfifo, rxVars, timeVars, irq_enable, connected,
                 shown, typed, got>>

Return(code) ==
  /\ pc' = "idle"
  /\ answer' = code
  /\ block' = TRUE /\ count' = 0 /\ done' = 0 /\ in' = 0 /\ out' = 0 /\ m' = 0

Outcome == IF done > 0 THEN "some" ELSE IF block THEN "io error" ELSE "would block"

(* Mutant: no interrupt is asked for when everything found room.           *)
KickWhenFull ==
  /\ pc = "kick"
  /\ irq_enable' = IF count > 0 THEN irq_enable \cup {"WE"} ELSE irq_enable
  /\ IF count > 0 /\ block THEN pc' = "spin" /\ UNCHANGED callVars ELSE Return(Outcome)
  /\ UNCHANGED <<txVars, rxVars, timeVars, connected, streamVars>>

(* The transmit interrupt is switched on whether or not it was off.        *)
Kick ==
  /\ pc = "kick"
  /\ irq_enable' = irq_enable \cup {"WE"}
  /\ IF count > 0 /\ block THEN pc' = "spin" /\ UNCHANGED callVars ELSE Return(Outcome)
  /\ UNCHANGED <<txVars, rxVars, timeVars, connected, streamVars>>

Spin ==
  /\ pc = "spin" /\ (out # tx_out \/ Gone)
  /\ pc' = "judge"
  /\ UNCHANGED <<callVars, txVars, rxVars, timeVars, irq_enable, connected, streamVars>>

(* One missed second is enough to give up.                                 *)
Judge ==
  /\ pc = "judge"
  /\ IF host_inactive # 0 THEN Return(Outcome) ELSE pc' = "room" /\ UNCHANGED callVars
  /\ UNCHANGED <<txVars, rxVars, timeVars, irq_enable, connected, streamVars>>

-----------------------------------------------------------------------------
(* altera_avalon_jtag_uart_read                                            *)

Read(c, b) == Call("look", c, b)

(* What there is, to the end of the array.                                 *)
Look ==
  /\ pc = "look" /\ count > 0
  /\ in' = rx_in /\ out' = rx_out
  /\ m' = Smaller(IF rx_in >= rx_out THEN rx_in - rx_out ELSE BufLen - rx_out, count)
  /\ pc' = IF m' > 0 THEN "take" ELSE IF done = 0 /\ block THEN "listen" ELSE "enable"
  /\ UNCHANGED <<block, count, done, answer>>
  /\ UNCHANGED <<txVars, rxVars, timeVars, irq_enable, connected, streamVars>>

NoRoomLeft ==
  /\ pc = "look" /\ count = 0
  /\ pc' = "enable"
  /\ UNCHANGED <<callVars, txVars, rxVars, timeVars, irq_enable, connected, streamVars>>

Take ==
  /\ pc = "take"
  /\ got' = got \o [i \in 1 .. m |-> rx_buf[out + i - 1]]
  /\ count' = count - m /\ done' = done + m
  /\ pc' = "release"
  /\ UNCHANGED <<block, in, out, m, answer, txVars, rxVars, timeVars, irq_enable, connected,
                 written, shown, typed>>

(* Mutant: whatever has come meanwhile counts as read.                     *)
ReleaseAll ==
  /\ pc = "release"
  /\ rx_out' = rx_in
  /\ pc' = "look"
  /\ UNCHANGED <<callVars, txVars, rx_in, rx_buf, rfifo, timeVars, irq_enable, connected, streamVars>>

Release ==
  /\ pc = "release"
  /\ rx_out' = Wrap(out + m)
  /\ pc' = "look"
  /\ UNCHANGED <<callVars, txVars, rx_in, rx_buf, rfifo, timeVars, irq_enable, connected, streamVars>>

Listen ==
  /\ pc = "listen" /\ (in # rx_in \/ Gone)
  /\ pc' = IF in # rx_in THEN "look" ELSE "enable"
  /\ UNCHANGED <<callVars, txVars, rxVars, timeVars, irq_enable, connected, streamVars>>

(* Mutant: the receive interrupt stays as it is.                           *)
EnableNothing ==
  /\ pc = "enable"
  /\ Return(Outcome)
  /\ UNCHANGED <<irq_enable, txVars, rxVars, timeVars, connected, streamVars>>

(* There is room again once something has been read.                       *)
Enable ==
  /\ pc = "enable"
  /\ irq_enable' = IF done > 0 THEN irq_enable \cup {"RE"} ELSE irq_enable
  /\ Return(Outcome)
  /\ UNCHANGED <<txVars, rxVars, timeVars, connected, streamVars>>

-----------------------------------------------------------------------------
(* altera_avalon_jtag_uart_close and altera_avalon_jtag_uart_ioctl         *)

Close(b) == Call("drain", 0, b)

Drained ==
  /\ pc = "drain"
  /\ IF tx_out = tx_in \/ Gone THEN Return("closed") ELSE ~block /\ Return("would block")
  /\ UNCHANGED <<txVars, rxVars, timeVars, irq_enable, connected, streamVars>>

(* TIOCSTIMEOUT, refused without a clock.  TIOCGCONNECTED changes nothing. *)
SetTimeout(t) ==
  /\ pc = "idle" /\ timeout # IntMax
  /\ timeout' = IF t >= 2 /\ t < IntMax THEN t ELSE IntMax - 1
  /\ UNCHANGED <<host_inactive, active, pc, callVars, txVars, rxVars, irq_enable, connected,
                 streamVars>>

-----------------------------------------------------------------------------
(* altera_avalon_jtag_uart_irq: one turn of its loop.                      *)

ReadPending == "RE" \in irq_enable /\ rfifo # <<>>
WritePending == "WE" \in irq_enable /\ Len(wfifo) <= WriteThreshold

(* One slot stays free, so that a full ring does not look empty.           *)
Free == BufLen - 1 - Used(rx_in, rx_out)

(* Characters move from the FIFO to the ring while there are any and there *)
(* is room for them.  If some are left the interrupt goes off.             *)
Receive(k) ==
  /\ rx_buf' = [i \in Slots |-> IF Used(i, rx_in) < k THEN rfifo[Used(i, rx_in) + 1] ELSE rx_buf[i]]
  /\ rx_in' = Wrap(rx_in + k)
  /\ rfifo' = SubSeq(rfifo, k + 1, Len(rfifo))
  /\ UNCHANGED rx_out

(* Characters move from the ring to the FIFO.  If the ring is empty before *)
(* the FIFO is full the interrupt goes off.                                *)
Transmit(k) ==
  /\ wfifo' = wfifo \o [i \in 1 .. k |-> tx_buf[Wrap(tx_out + i - 1)]]
  /\ tx_out' = Wrap(tx_out + k)
  /\ UNCHANGED <<tx_in, tx_buf>>

Interrupt ==
  LET r == Smaller(Free, Len(rfifo))
      space == FifoDepth - Len(wfifo)
      w == Smaller(space, Used(tx_in, tx_out))
  IN /\ ReadPending \/ WritePending
     /\ IF ReadPending THEN Receive(r) ELSE UNCHANGED rxVars
     /\ IF WritePending THEN Transmit(w) ELSE UNCHANGED txVars
     /\ irq_enable' = irq_enable \ ((IF ReadPending /\ r < Len(rfifo) THEN {"RE"} ELSE {})
                                     \cup (IF WritePending /\ w < space THEN {"WE"} ELSE {}))
     /\ UNCHANGED <<pc, callVars, timeVars, connected, streamVars>>

(* altera_avalon_jtag_uart_timeout, once a second if there is a clock.     *)
Second ==
  /\ Ticks
  /\ active' = FALSE
  /\ host_inactive' = IF active THEN 0
                      ELSE IF host_inactive < IntMax - 2 THEN host_inactive + 1 ELSE host_inactive
  /\ UNCHANGED <<timeout, pc, callVars, txVars, rxVars, irq_enable, connected, streamVars>>

-----------------------------------------------------------------------------
(* The host.                                                               *)

Show ==
  /\ connected /\ wfifo # <<>>
  /\ shown' = Append(shown, Head(wfifo)) /\ wfifo' = Tail(wfifo)
  /\ active' = TRUE
  /\ UNCHANGED <<tx_in, tx_out, tx_buf, rxVars, host_inactive, timeout, pc, callVars, irq_enable,
                 connected, written, typed, got>>

Type ==
  /\ connected /\ typed < Typed /\ Len(rfifo) < FifoDepth
  /\ typed' = typed + 1 /\ rfifo' = Append(rfifo, typed + 1)
  /\ active' = TRUE
  /\ UNCHANGED <<rx_in, rx_out, rx_buf, txVars, host_inactive, timeout, pc, callVars, irq_enable,
                 connected, written, shown, got>>

(* A host that is there looks for characters now and then.                 *)
Ask ==
  /\ Ticks /\ connected
  /\ active' = TRUE
  /\ UNCHANGED <<host_inactive, timeout, pc, callVars, txVars, rxVars, irq_enable, connected,
                 streamVars>>

ComeOrGo ==
  /\ Leaves
  /\ connected' = ~connected
  /\ UNCHANGED <<timeVars, pc, callVars, txVars, rxVars, irq_enable, streamVars>>

Working ==
  \/ Room \/ NothingLeft \/ Fill \/ Publish \/ Kick \/ Spin \/ Judge
  \/ Look \/ NoRoomLeft \/ Take \/ Release \/ Listen \/ Enable
  \/ Drained

Request ==
  \/ \E c \in Calls, b \in BOOLEAN : Write(c, b) \/ Read(c, b)
  \/ \E b \in BOOLEAN : Close(b)
  \/ \E t \in 1 .. IntMax : SetTimeout(t)

JtagNext == Working \/ Request \/ Interrupt \/ Second \/ Show \/ Type \/ Ask \/ ComeOrGo

JtagSpec == JtagInit /\ [][JtagNext]_jtagVars

(* The processor runs, interrupts are served, and a host that stays takes  *)
(* what there is.                                                          *)
FairJtagSpec ==
  JtagSpec /\ WF_jtagVars(Working) /\ WF_jtagVars(Interrupt) /\ WF_jtagVars(Show)
=============================================================================
