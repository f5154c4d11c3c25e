-------------------------------- MODULE HpiBus --------------------------------
(***************************************************************************)
(* How the Nios II reaches the USB controller: io_handler.c writes one bit *)
(* after the other into five PIO registers, hpi_io_intf.sv copies them to  *)
(* the pins of the controller on every edge of Clk, and what the           *)
(* controller puts on OTG_DATA comes back through two registers.           *)
(*                                                                         *)
(* A step is an edge of Clk, on which the processor may make its next      *)
(* access to a PIO register if enough edges have passed since its last.    *)
(***************************************************************************)
EXTENDS Naturals, Sequences

CONSTANTS
  Ports, Words, None,
  Port0, Word0,   \* the 0 of IO_init and of the reset values
  GAP             \* edges of Clk at least between two accesses of the processor

Calls == [op : {"write"}, port : Ports, data : Words] \cup [op : {"read"}, port : Ports]
Init0 == [op |-> "init"]
Pins == [cs : 0 .. 1, r : 0 .. 1, w : 0 .. 1, addr : Ports, data : Words]

(* Nios II/e takes six edges and more for an instruction; three without an *)
(* access are enough.                                                      *)
ASSUME HpiAssumption ==
  /\ Port0 \in Ports /\ Word0 \in Words
  /\ None \notin Words \cup Calls \cup {Init0}
  /\ GAP \in Nat /\ GAP >= 3

VARIABLES
  call,      \* the call of io_handler.c in progress
  pc,        \* its next access
  gap,       \* edges since the last access, up to GAP
  temp,      \* temp of IO_read
  reply,     \* what the last IO_read returned
  pio,       \* the PIO registers cs, r, w, address and data
  otg,       \* OTG_CS_N, OTG_RD_N, OTG_WR_N, OTG_ADDR and tmp_data
  dataIn,    \* from_sw_data_in
  readdata,  \* the input register of the data PIO
  reg        \* the controller's registers

cpuVars == <<call, pc, gap, temp, reply, pio>>
busVars == <<cpuVars, otg, dataIn, readdata, reg>>

(* Mutant: IO_init leaves the read strobe as the reset has left it.        *)
IO_initNoRead == <<"cs=1", "w=1", "addr=0", "data=0">>

IO_init == <<"cs=1", "r=1", "w=1", "addr=0", "data=0">>

(* Mutant: the write strobe comes before the data.                         *)
IO_writeEarly == <<"cs=0", "addr", "w=0", "data", "w=1", "cs=1">>

IO_write == <<"cs=0", "addr", "data", "w=0", "w=1", "cs=1">>

(* Mutant: the strobe ends before the data are taken.                      *)
IO_readLate == <<"cs=0", "addr", "r=0", "r=1", "temp", "cs=1">>

IO_read == <<"cs=0", "addr", "r=0", "temp", "r=1", "cs=1">>

Program(c) ==
  CASE c.op = "init" -> IO_init [] c.op = "write" -> IO_write [] c.op = "read" -> IO_read

(* A store to one of the PIO registers.                                    *)
Stored(access) ==
  CASE access = "cs=0" -> [pio EXCEPT !.cs = 0]
    [] access = "cs=1" -> [pio EXCEPT !.cs = 1]
    [] access = "r=0" -> [pio EXCEPT !.r = 0]
    [] access = "r=1" -> [pio EXCEPT !.r = 1]
    [] access = "w=0" -> [pio EXCEPT !.w = 0]
    [] access = "w=1" -> [pio EXCEPT !.w = 1]
    [] access = "addr" -> [pio EXCEPT !.addr = call.port]
    [] access = "data" -> [pio EXCEPT !.data = call.data]
    [] access = "addr=0" -> [pio EXCEPT !.addr = Port0]
    [] access = "data=0" -> [pio EXCEPT !.data = Word0]
    [] access = "temp" -> pio

-----------------------------------------------------------------------------
(* The pins: an active strobe needs the chip select.                       *)
Reading(pins) == pins.cs = 0 /\ pins.r = 0
Writing(pins) == pins.cs = 0 /\ pins.w = 0

(* OTG_DATA: the interface drives it while OTG_WR_N is low, the controller *)
(* while it is read; None when nobody does, or both.                       *)
OtgData ==
  IF otg.w = 0
  THEN IF Reading(otg) THEN None ELSE otg.data
  ELSE IF Reading(otg) THEN reg[otg.addr] ELSE None

(* The controller takes a write, and moves on after a read, when the       *)
(* strobe ends; what two strobes at once do to the register is open.       *)
Strobe ==
  IF (Writing(otg) /\ ~Writing(otg')) \/ (Reading(otg) /\ ~Reading(otg'))
  THEN \E word \in Words :
         /\ reg' = [reg EXCEPT ![otg.addr] = word]
         /\ Writing(otg) /\ ~Reading(otg) => word = otg.data
  ELSE UNCHANGED reg

(* The registers between the processor and the pins on an edge of Clk.     *)
Pass ==
  /\ otg' = pio
  /\ dataIn' = OtgData
  /\ readdata' = dataIn
  /\ Strobe

(* An edge without an access of the processor.                             *)
Idle ==
  /\ Pass
  /\ gap' = IF gap < GAP THEN gap + 1 ELSE gap
  /\ UNCHANGED <<call, pc, temp, reply, pio>>

(* An edge with the next access of the call; the last one ends it.         *)
Step ==
  /\ call # None /\ gap = GAP
  /\ Pass
  /\ gap' = 0
  /\ pio' = Stored(Program(call)[pc])
  /\ temp' = IF Program(call)[pc] = "temp" THEN readdata ELSE temp
  /\ IF pc < Len(Program(call))
     THEN pc' = pc + 1 /\ UNCHANGED <<call, reply>>
     ELSE /\ pc' = 1 /\ call' = None
          /\ reply' = IF call.op = "read" THEN temp ELSE reply

(* usb.c or main.c calls.                                                  *)
Begin(c) ==
  /\ call = None
  /\ call' = c
  /\ temp' = None
  /\ UNCHANGED <<pc, gap, reply, pio, otg, dataIn, readdata, reg>>

(* The controller changes a register, at any time.                         *)
Change(p, w) ==
  /\ reg' = [reg EXCEPT ![p] = w]
  /\ UNCHANGED <<cpuVars, otg, dataIn, readdata>>

ResetPio == [cs |-> 0, r |-> 0, w |-> 0, addr |-> Port0, data |-> Word0]
ResetOtg == [cs |-> 1, r |-> 1, w |-> 1, addr |-> Port0, data |-> Word0]

BusInit ==
  /\ call = Init0 /\ pc = 1 /\ gap = 0 /\ temp = None /\ reply = None
  /\ pio = ResetPio /\ otg = ResetOtg /\ dataIn = None /\ readdata = None
  /\ reg \in [Ports -> Words]

(* KEY[0] pressed and released: main runs again from IO_init.              *)
PowerUp ==
  /\ call' = Init0 /\ pc' = 1 /\ gap' = 0 /\ temp' = None /\ reply' = None
  /\ pio' = ResetPio /\ otg' = ResetOtg /\ dataIn' = None /\ readdata' = None
  /\ reg' \in [Ports -> Words]

BusNext ==
  \/ Idle \/ Step \/ PowerUp
  \/ \E c \in Calls : Begin(c)
  \/ \E p \in Ports, w \in Words : Change(p, w)

BusSpec == BusInit /\ [][BusNext]_busVars

-----------------------------------------------------------------------------
BusTypeOK ==
  /\ call \in Calls \cup {Init0, None}
  /\ pc \in 1 .. 6
  /\ gap \in 0 .. GAP
  /\ temp \in Words \cup {None}
  /\ reply \in Words \cup {None}
  /\ pio \in Pins
  /\ otg \in Pins
  /\ dataIn \in Words \cup {None}
  /\ readdata \in Words \cup {None}
  /\ reg \in [Ports -> Words]

(* The processor and the controller never drive OTG_DATA together, except  *)
(* between a reset and the first store of IO_init: the PIO registers reset *)
(* to 0, which selects the controller and asserts both of its strobes.     *)
NoContention == call # Init0 => ~(otg.w = 0 /\ Reading(otg))

(* While a strobe is active, and on the edge that ends it, the address and *)
(* the data to be written do not move, although they travel by the same    *)
(* chain of registers as the strobe.                                       *)
SteadyUnderStrobe ==
  [][(Reading(otg) \/ Writing(otg)) /\ call # Init0 /\ call' # Init0
       => otg'.addr = otg.addr /\ (Writing(otg) => otg'.data = otg.data)]_busVars
=============================================================================
