------------------------------- MODULE HpiProofs -------------------------------
(***************************************************************************)
(* The bus between processor and USB controller, for any registers, any    *)
(* words and any pace of the processor that leaves GAP >= 3 edges between  *)
(* its accesses.                                                           *)
(*                                                                         *)
(* The inductive invariant says what the PIO registers hold before each    *)
(* access of each call (PioInv), that the pins are the PIO registers or,   *)
(* one edge after a store, what they were before it (PinsInv), and, for    *)
(* the refinement, how far the answer of a read has come (AnswerInv).      *)
(***************************************************************************)
EXTENDS HpiRefinement, TLAPS

LEMMA InitProgram ==
  /\ Len(Program(Init0)) = 5
  /\ Program(Init0)[1] = "cs=1" /\ Program(Init0)[2] = "r=1" /\ Program(Init0)[3] = "w=1"
  /\ Program(Init0)[4] = "addr=0" /\ Program(Init0)[5] = "data=0"
BY DEF Program, Init0, IO_init

LEMMA WriteProgram ==
  ASSUME NEW c, c.op = "write"
  PROVE  /\ Len(Program(c)) = 6
         /\ Program(c)[1] = "cs=0" /\ Program(c)[2] = "addr" /\ Program(c)[3] = "data"
         /\ Program(c)[4] = "w=0" /\ Program(c)[5] = "w=1" /\ Program(c)[6] = "cs=1"
BY DEF Program, IO_write

LEMMA ReadProgram ==
  ASSUME NEW c, c.op = "read"
  PROVE  /\ Len(Program(c)) = 6
         /\ Program(c)[1] = "cs=0" /\ Program(c)[2] = "addr" /\ Program(c)[3] = "r=0"
         /\ Program(c)[4] = "temp" /\ Program(c)[5] = "r=1" /\ Program(c)[6] = "cs=1"
BY DEF Program, IO_read

-----------------------------------------------------------------------------
(* The kinds of a state of the processor.                                  *)
Writes(c) == Made(c) /\ c.op = "write"
Reads(c) == Made(c) /\ c.op = "read"

(* The bits of the PIO registers before access p of call c.                *)
CS(c, p) == IF c = Init0 THEN IF p = 1 THEN 0 ELSE 1
            ELSE IF c = None \/ p = 1 THEN 1 ELSE 0
R(c, p) == IF c = Init0 THEN IF p <= 2 THEN 0 ELSE 1
           ELSE IF Reads(c) /\ p \in {4, 5} THEN 0 ELSE 1
W(c, p) == IF c = Init0 THEN IF p <= 3 THEN 0 ELSE 1
           ELSE IF Writes(c) /\ p = 5 THEN 0 ELSE 1

PioInv ==
  /\ call = None => pc = 1
  /\ call = Init0 => pc <= 5
  /\ pio.cs = CS(call, pc) /\ pio.r = R(call, pc) /\ pio.w = W(call, pc)
  /\ Made(call) /\ pc >= 3 => pio.addr = call.port
  /\ Writes(call) /\ pc >= 4 => pio.data = call.data

PinsInv ==
  /\ gap >= 1 => otg = pio
  /\ gap = 0 /\ pc = 1 => otg.r = 1 /\ otg.w = 1
  /\ gap = 0 /\ pc > 1 =>
       /\ otg.cs = CS(call, pc - 1) /\ otg.r = R(call, pc - 1) /\ otg.w = W(call, pc - 1)
       /\ Made(call) /\ pc >= 4 => otg.addr = call.port
       /\ Writes(call) /\ pc >= 5 => otg.data = call.data

BusInv == BusTypeOK /\ PioInv /\ PinsInv

LEMMA CallKinds ==
  ASSUME BusTypeOK
  PROVE  /\ \/ call = None \/ call = Init0
            \/ Writes(call) /\ call \in Calls /\ call.port \in Ports /\ call.data \in Words
            \/ Reads(call) /\ call \in Calls /\ call.port \in Ports
         /\ Init0 # None
BY HpiAssumption DEF BusTypeOK, Writes, Reads, Made, Calls

LEMMA BusStart == BusInit => BusInv
BY HpiAssumption DEF BusInit, BusInv, BusTypeOK, PioInv, PinsInv, ResetPio, ResetOtg, Pins,
   CS, R, W, Writes, Reads, Made, Init0

LEMMA PinsPass ==
  ASSUME BusTypeOK, Pass
  PROVE  /\ otg' \in Pins /\ otg' = pio
         /\ dataIn' \in Words \cup {None} /\ readdata' \in Words \cup {None}
         /\ reg' \in [Ports -> Words]
<1>1. otg' \in Pins /\ otg' = pio
  BY DEF Pass, BusTypeOK
<1>2. OtgData \in Words \cup {None}
  BY DEF OtgData, BusTypeOK, Pins
<1>3. reg' \in [Ports -> Words]
  BY DEF Pass, Strobe, BusTypeOK
<1> QED BY <1>1, <1>2, <1>3 DEF Pass, BusTypeOK

(* What a step of the processor does to its own state.                     *)
LEMMA StepCpu ==
  ASSUME BusInv, Step
  PROVE  /\ gap' = 0 /\ otg' = pio /\ otg = pio /\ call # None
         /\ call' \in {call, None}
         /\ call' = None <=> pc = Len(Program(call))
         /\ pc' = IF call' = None THEN 1 ELSE pc + 1
         /\ pio' = Stored(Program(call)[pc])
<1>1. call # None /\ gap = GAP /\ pc \in 1 .. Len(Program(call)) /\ Len(Program(call)) \in {5, 6}
  BY CallKinds, InitProgram, WriteProgram, ReadProgram
     DEF BusInv, BusTypeOK, PioInv, Step, Writes, Reads
<1>2. gap >= 1
  BY <1>1, HpiAssumption
<1>3. otg = pio /\ otg' = pio
  BY <1>2 DEF BusInv, PinsInv, Step, Pass
<1>4. /\ gap' = 0 /\ pio' = Stored(Program(call)[pc])
      /\ \/ pc < Len(Program(call)) /\ pc' = pc + 1 /\ call' = call
         \/ ~(pc < Len(Program(call))) /\ pc' = 1 /\ call' = None
  BY DEF Step
<1> QED BY <1>1, <1>3, <1>4

LEMMA StepBits ==
  ASSUME BusInv, Step
  PROVE  /\ PioInv' /\ PinsInv'
         /\ pio' \in Pins /\ pc' \in 1 .. 6
<1>1. /\ pio \in Pins /\ pc \in 1 .. 6 /\ pio.cs = CS(call, pc)
      /\ pio.r = R(call, pc) /\ pio.w = W(call, pc)
  BY DEF BusInv, BusTypeOK, PioInv
<1>2. CASE call = Init0
  <2>1. pc \in 1 .. 5
    BY <1>1, <1>2 DEF PioInv, BusInv
  <2>2. /\ pio' \in Pins
        /\ pio'.cs = CS(call', pc') /\ pio'.r = R(call', pc') /\ pio'.w = W(call', pc')
    BY <1>1, <1>2, <2>1, StepCpu, InitProgram, HpiAssumption
       DEF Stored, Pins, CS, R, W, Reads, Writes, Made
  <2>3. ~Made(call) /\ ~Made(call')
    BY <1>2, StepCpu DEF Made
  <2>4. pc' \in 1 .. 5
    BY <2>1, <1>2, StepCpu, InitProgram
  <2>5. PioInv'
    BY <2>2, <2>3, <2>4, StepCpu DEF PioInv, Writes
  <2>6. PinsInv'
    <3>1. CASE pc = 5
      BY <1>1, <1>2, <2>3, <3>1, StepCpu, InitProgram DEF PinsInv, Writes, Reads, R, W
    <3>2. CASE pc \in 1 .. 4
      BY <1>1, <1>2, <2>3, <3>2, StepCpu, InitProgram DEF PinsInv, Writes
    <3> QED BY <2>1, <3>1, <3>2
  <2> QED BY <2>2, <2>4, <2>5, <2>6
<1>3. ASSUME Made(call) PROVE PioInv' /\ PinsInv' /\ pio' \in Pins /\ pc' \in 1 .. 6
  <2> USE <1>3
  <2>1. call \in Calls /\ call.port \in Ports /\ (call.op = "write" => call.data \in Words)
        /\ call # Init0 /\ call # None /\ Init0 # None /\ Made(call)
    BY CallKinds DEF BusInv, Made, Writes, Reads
  <2>2. CASE call.op = "write"
    <3>1. CASE pc \in 1 .. 5
      <4>1. call' = call /\ pc' = pc + 1
        BY <2>2, <3>1, StepCpu, WriteProgram
      <4>2. /\ pio' \in Pins
            /\ pio'.cs = 0 /\ pio'.r = 1 /\ pio'.w = IF pc = 4 THEN 0 ELSE 1
            /\ pc >= 2 => pio'.addr = call.port
            /\ pc >= 3 => pio'.data = call.data
        BY <1>1, <2>1, <2>2, <3>1, StepCpu, WriteProgram
           DEF Stored, Pins, CS, R, W, Reads, Writes, BusInv, PioInv
      <4>3. PioInv'
        BY <2>1, <2>2, <3>1, <4>1, <4>2 DEF PioInv, CS, R, W, Reads, Writes, Made
      <4>4. PinsInv'
        BY <1>1, <2>1, <2>2, <3>1, <4>1, StepCpu DEF PinsInv, CS, R, W, Reads, Writes, BusInv, PioInv, Made
      <4> QED BY <3>1, <4>1, <4>2, <4>3, <4>4
    <3>2. CASE pc = 6
      <4>1. call' = None /\ pc' = 1
        BY <2>2, <3>2, StepCpu, WriteProgram
      <4>2. pio' \in Pins /\ pio'.cs = 1 /\ pio'.r = 1 /\ pio'.w = 1 /\ pio.r = 1 /\ pio.w = 1
        BY <1>1, <2>1, <2>2, <3>2, StepCpu, WriteProgram DEF Stored, Pins, R, W, Reads, Writes
      <4> QED BY <2>1, <4>1, <4>2, StepCpu DEF PioInv, PinsInv, CS, R, W, Reads, Writes, Made
    <3> QED BY <1>1, <3>1, <3>2
  <2>3. CASE call.op = "read"
    <3>1. CASE pc \in 1 .. 5
      <4>1. call' = call /\ pc' = pc + 1
        BY <2>3, <3>1, StepCpu, ReadProgram
      <4>2. /\ pio' \in Pins
            /\ pio'.cs = 0 /\ pio'.w = 1 /\ pio'.r = IF pc \in {3, 4} THEN 0 ELSE 1
            /\ pc >= 2 => pio'.addr = call.port
        BY <1>1, <2>1, <2>3, <3>1, StepCpu, ReadProgram
           DEF Stored, Pins, CS, R, W, Reads, Writes, BusInv, PioInv
      <4>3. PioInv'
        BY <2>1, <2>3, <3>1, <4>1, <4>2 DEF PioInv, CS, R, W, Reads, Writes, Made
      <4>4. PinsInv'
        BY <1>1, <2>1, <2>3, <3>1, <4>1, StepCpu DEF PinsInv, CS, R, W, Reads, Writes, BusInv, PioInv, Made
      <4> QED BY <3>1, <4>1, <4>2, <4>3, <4>4
    <3>2. CASE pc = 6
      <4>1. call' = None /\ pc' = 1
        BY <2>3, <3>2, StepCpu, ReadProgram
      <4>2. pio' \in Pins /\ pio'.cs = 1 /\ pio'.r = 1 /\ pio'.w = 1 /\ pio.r = 1 /\ pio.w = 1
        BY <1>1, <2>1, <2>3, <3>2, StepCpu, ReadProgram DEF Stored, Pins, R, W, Reads, Writes
      <4> QED BY <2>1, <4>1, <4>2, StepCpu DEF PioInv, PinsInv, CS, R, W, Reads, Writes, Made
    <3> QED BY <1>1, <3>1, <3>2
  <2> QED BY <2>1, <2>2, <2>3 DEF Calls
<1> QED BY <1>2, <1>3, StepCpu DEF Made

LEMMA StepType == ASSUME BusInv, Step PROVE BusTypeOK'
<1>1. /\ call' \in Calls \cup {Init0, None} /\ pc' \in 1 .. 6 /\ pio' \in Pins
      /\ gap' \in 0 .. GAP
  BY StepCpu, StepBits, HpiAssumption DEF BusInv, BusTypeOK
<1>2. temp' \in Words \cup {None} /\ reply' \in Words \cup {None}
  BY DEF Step, BusInv, BusTypeOK
<1> QED BY <1>1, <1>2, PinsPass DEF BusInv, BusTypeOK, Step

LEMMA BusStep == ASSUME BusInv, [BusNext]_busVars PROVE BusInv'
<1>1. CASE Step
  BY <1>1, StepType, StepBits DEF BusInv
<1>2. CASE Idle
  <2>1. /\ gap' = (IF gap < GAP THEN gap + 1 ELSE gap)
        /\ call' = call /\ pc' = pc /\ temp' = temp /\ reply' = reply /\ pio' = pio
        /\ otg' = pio
    BY <1>2 DEF Idle, Pass
  <2>2. gap' \in 1 .. GAP
    BY <2>1, HpiAssumption DEF BusInv, BusTypeOK
  <2>3. BusTypeOK'
    BY <1>2, <2>1, <2>2, PinsPass, HpiAssumption DEF BusInv, BusTypeOK, Idle
  <2>4. PioInv'
    BY <2>1 DEF BusInv, PioInv, Writes, Reads, Made, CS, R, W
  <2> QED BY <2>1, <2>2, <2>3, <2>4 DEF BusInv, PinsInv
<1>3. ASSUME NEW c \in Calls, Begin(c) PROVE BusInv'
  <2>1. /\ call = None /\ call' = c /\ temp' = None
        /\ UNCHANGED <<pc, gap, reply, pio, otg, dataIn, readdata, reg>>
    BY <1>3 DEF Begin
  <2>2. BusTypeOK'
    BY <2>1 DEF BusInv, BusTypeOK
  <2>3. pc = 1 /\ pio.cs = 1 /\ pio.r = 1 /\ pio.w = 1 /\ None # Init0
    BY <2>1, CallKinds DEF BusInv, PioInv, CS, R, W, Reads, Writes, Made
  <2>4. c # Init0
    BY DEF Calls, Init0
  <2>5. PioInv'
    BY <2>1, <2>3, <2>4 DEF PioInv, CS, R, W, Reads, Writes, Made
  <2>6. PinsInv'
    BY <2>1, <2>3 DEF BusInv, PinsInv
  <2> QED BY <2>2, <2>5, <2>6 DEF BusInv
<1>4. ASSUME NEW p \in Ports, NEW w \in Words, Change(p, w) PROVE BusInv'
  BY <1>4 DEF Change, cpuVars, BusInv, BusTypeOK, PioInv, PinsInv, CS, R, W, Reads, Writes, Made
<1>5. CASE PowerUp
  BY <1>5, HpiAssumption DEF PowerUp, BusInv, BusTypeOK, PioInv, PinsInv, ResetPio, ResetOtg, Pins,
     CS, R, W, Writes, Reads, Made, Init0
<1>6. CASE UNCHANGED busVars
  BY <1>6 DEF busVars, cpuVars, BusInv, BusTypeOK, PioInv, PinsInv, CS, R, W, Reads, Writes, Made
<1> QED BY <1>1, <1>2, <1>3, <1>4, <1>5, <1>6 DEF BusNext

(* BusInv holds of the bus: the theorems below are read off it.            *)
THEOREM BusInvariant == BusSpec => []BusInv
<1> QED BY BusStart, BusStep, PTL DEF BusSpec

(* BusTypeOK: every register and pin keeps its type.                       *)
THEOREM BusTypeCorrect == BusSpec => []BusTypeOK
<1> QED BY BusInvariant, PTL DEF BusInv

(* NoContention: of an IO_write only the write strobe, of an IO_read only  *)
(* the read strobe is ever low, on the pins as in the PIO registers.       *)
THEOREM BusNotFoughtOver == BusSpec => []NoContention
<1>1. ASSUME BusInv PROVE NoContention
  <2> SUFFICES ASSUME call # Init0, otg.w = 0, Reading(otg) PROVE FALSE
    BY DEF NoContention
  <2> QED BY <1>1, HpiAssumption DEF BusInv, BusTypeOK, PioInv, PinsInv, Reading, CS, R, W, Reads, Writes, Made
<1> QED BY <1>1, BusInvariant, PTL

(* SteadyUnderStrobe: the pins that name the register and carry the word   *)
(* stand still as long as a strobe is low and on the edge that raises it.  *)
THEOREM BusIsSteady == BusSpec => SteadyUnderStrobe
<1> DEFINE Steady ==
      (Reading(otg) \/ Writing(otg)) /\ call # Init0 /\ call' # Init0
        => otg'.addr = otg.addr /\ (Writing(otg) => otg'.data = otg.data)
<1>1. ASSUME BusInv, [BusNext]_busVars PROVE [Steady]_busVars
  <2> SUFFICES ASSUME Reading(otg) \/ Writing(otg), call # Init0, call' # Init0, otg' # otg
               PROVE  otg'.addr = otg.addr /\ (Writing(otg) => otg'.data = otg.data)
    OBVIOUS
  <2>1. otg' = pio
    BY <1>1 DEF BusNext, Idle, Step, Pass, Begin, Change, PowerUp, Init0, busVars
  <2>2. gap = 0 /\ pc > 1 /\ call # None
    BY <1>1, <2>1 DEF BusInv, BusTypeOK, PinsInv, PioInv, Reading, Writing
  <2>3. Made(call) /\ pc >= 5
    BY <1>1, <2>2 DEF BusInv, BusTypeOK, PinsInv, Reading, Writing, R, W, Made
  <2>4. Writing(otg) => Writes(call)
    BY <1>1, <2>2 DEF BusInv, BusTypeOK, PinsInv, Writing, W
  <2>5. otg.addr = call.port /\ pio.addr = call.port
    BY <1>1, <2>2, <2>3 DEF BusInv, BusTypeOK, PioInv, PinsInv
  <2>6. Writing(otg) => otg.data = call.data /\ pio.data = call.data
    BY <1>1, <2>2, <2>3, <2>4 DEF BusInv, BusTypeOK, PioInv, PinsInv
  <2> QED BY <2>1, <2>5, <2>6
<1> QED BY <1>1, BusInvariant, PTL DEF BusSpec, SteadyUnderStrobe

-----------------------------------------------------------------------------
(* The refinement.  A read has its answer three edges after its strobe;    *)
(* an access is made on the first edge after the store that ends it.       *)
AnswerInv ==
  /\ ~Made(call) => accesses = 0 /\ seen = {}
  /\ Made(call) =>
       /\ accesses = IF pc = 6 /\ gap >= 1 THEN 1 ELSE 0
       /\ accesses = 0 => reg[call.port] \in seen
  /\ Reads(call) =>
       /\ pc = 4 /\ gap >= 2 => dataIn \in seen
       /\ pc = 4 /\ gap >= 3 => readdata \in seen
       /\ pc \in {5, 6} => temp \in seen

HistInv == BusInv /\ AnswerInv

(* On which edges a strobe of a call ends.                                 *)
LEMMA StrobeOfCall ==
  ASSUME BusInv, Pass, Made(call)
  PROVE  /\ StrobeEnds <=> gap = 0 /\ pc = 6
         /\ StrobeEnds => /\ otg.addr = call.port
                          /\ Writing(otg) <=> call.op = "write"
                          /\ Reading(otg) <=> call.op = "read"
                          /\ call.op = "write" => otg.data = call.data
<1>1. /\ gap \in Nat /\ pc \in 1 .. 6 /\ otg' = pio /\ call # Init0 /\ call # None
      /\ call.op \in {"read", "write"}
  BY CallKinds DEF Made, Writes, Reads, Pass, BusInv, BusTypeOK
<1>2. CASE gap >= 1
  BY <1>1, <1>2 DEF BusInv, PinsInv, StrobeEnds
<1>3. CASE gap = 0 /\ pc = 1
  BY <1>1, <1>3 DEF BusInv, PinsInv, StrobeEnds, Reading, Writing
<1>4. CASE gap = 0 /\ pc > 1
  <2>1. /\ otg.cs = CS(call, pc - 1) /\ otg.r = R(call, pc - 1) /\ otg.w = W(call, pc - 1)
        /\ pio.cs = 0 /\ pio.r = R(call, pc) /\ pio.w = W(call, pc)
        /\ pc >= 4 => otg.addr = call.port
        /\ pc >= 5 /\ call.op = "write" => otg.data = call.data
    BY <1>1, <1>4 DEF BusInv, PinsInv, PioInv, CS, Writes
  <2>2. pc = 6 => otg.cs = 0
    BY <1>1, <2>1 DEF CS
  <2> QED BY <1>1, <1>4, <2>1, <2>2 DEF StrobeEnds, Reading, Writing, R, W, Reads, Writes
<1> QED BY <1>1, <1>2, <1>3, <1>4

Abstractly == [ \/ Abstract!Ready
                \/ \E c \in Abstract!Calls : Abstract!Call(c)
                \/ Abstract!Access \/ Abstract!Return
                \/ \E p \in Ports, w \in Words : Abstract!Change(p, w)
                \/ Abstract!PowerUp ]_(Abstract!portsVars)

LEMMA SameVariables ==
  ASSUME UNCHANGED <<reg, accesses, seen, reply, call>>
  PROVE  Abstractly
BY DEF Abstractly, Abstract!portsVars

LEMMA HistStart == HistInit => HistInv /\ Abstract!PortsInit
<1> SUFFICES ASSUME HistInit PROVE HistInv /\ Abstract!PortsInit
  OBVIOUS
<1>1. BusInv
  BY BusStart DEF HistInit
<1>2. ~Made(call) /\ ~Reads(call)
  BY DEF HistInit, BusInit, Made, Reads
<1> QED BY <1>1, <1>2 DEF HistInv, AnswerInv, HistInit, BusInit, Abstract!PortsInit, Init0, Abstract!Init0

LEMMA HistBegin ==
  ASSUME HistInv, HistNext, NEW c \in Calls, Begin(c)
  PROVE  AnswerInv' /\ Abstractly
<1>1. /\ call = None /\ call' = c /\ UNCHANGED <<pc, gap, reply, otg, reg, dataIn, readdata>>
      /\ pc = 1 /\ c.port \in Ports /\ c # None /\ c # Init0 /\ c \in Calls
  BY HpiAssumption DEF Begin, HistInv, BusInv, PioInv, Calls, Init0
<1>2. accesses' = 0 /\ seen' = {reg[c.port]} /\ reg' = reg /\ ~Made(call) /\ Made(call')
  BY <1>1 DEF HistNext, Made
<1>3. AnswerInv'
  BY <1>1, <1>2 DEF AnswerInv, Reads
<1>4. c \in Abstract!Calls
  BY DEF Calls, Abstract!Calls
<1>5. Abstract!Call(c)
  BY <1>1, <1>2 DEF Abstract!Call
<1> QED BY <1>3, <1>4, <1>5 DEF Abstractly

LEMMA HistChange ==
  ASSUME HistInv, HistNext, NEW p \in Ports, NEW w \in Words, Change(p, w)
  PROVE  AnswerInv' /\ Abstractly
<1>1. /\ UNCHANGED <<call, pc, gap, temp, reply, otg, dataIn, readdata>>
      /\ reg' = [reg EXCEPT ![p] = w] /\ reg \in [Ports -> Words]
  BY DEF Change, cpuVars, HistInv, BusInv, BusTypeOK
<1>2. ~StrobeEnds
  BY <1>1 DEF StrobeEnds, Writing, Reading
<1>3. CASE ~Made(call)
  <2>1. accesses' = 0 /\ seen' = {} /\ accesses = 0 /\ seen = {} /\ ~Made(call') /\ ~Reads(call')
    BY <1>1, <1>3 DEF HistNext, HistInv, AnswerInv, Made, Reads
  <2>2. Abstract!Change(p, w)
    BY <1>1, <1>3, <2>1 DEF Abstract!Change, Abstract!Calling, Made, Init0, Abstract!Init0
  <2> QED BY <2>1, <2>2 DEF AnswerInv, Abstractly
<1>4. CASE Made(call)
  <2>1. /\ accesses' = accesses /\ Made(call') /\ call # None /\ call.port \in Ports
        /\ seen' = IF accesses = 0 THEN seen \cup {reg'[call.port]} ELSE seen
    BY <1>1, <1>2, <1>4, CallKinds DEF HistNext, HistInv, BusInv, Made, Writes, Reads
  <2>2. reg'[call.port] = IF p = call.port THEN w ELSE reg[call.port]
    BY <1>1, <2>1
  <2>3. Abstract!Change(p, w)
    BY <1>1, <1>4, <2>1, <2>2 DEF Abstract!Change, Abstract!Calling, Made, Init0, Abstract!Init0, HistInv, AnswerInv
  <2>4. AnswerInv'
    BY <1>1, <1>4, <2>1 DEF HistInv, AnswerInv, Reads
  <2> QED BY <2>3, <2>4 DEF Abstractly
<1> QED BY <1>3, <1>4

LEMMA HistPowerUp ==
  ASSUME HistInv, HistNext, PowerUp
  PROVE  AnswerInv' /\ Abstractly
<1>1. ~Made(call') /\ ~Reads(call') /\ accesses' = 0 /\ seen' = {}
  BY DEF HistNext, PowerUp, Made, Reads
<1> QED BY <1>1 DEF AnswerInv, Abstractly, PowerUp, Abstract!PowerUp, Init0, Abstract!Init0

LEMMA HistStep ==
  ASSUME HistInv, HistNext, Step
  PROVE  AnswerInv' /\ Abstractly
<1>1. /\ BusInv /\ gap' = 0 /\ otg' = pio /\ otg = pio /\ gap = GAP /\ GAP >= 3 /\ pc \in 1 .. 6
      /\ call # None
      /\ call' \in {call, None}
      /\ pc' = IF call' = None THEN 1 ELSE pc + 1
      /\ call' = None <=> pc = Len(Program(call))
  BY StepCpu, HpiAssumption DEF HistInv, Step, BusInv, BusTypeOK
<1>2. ~StrobeEnds /\ UNCHANGED reg
  BY <1>1 DEF StrobeEnds, Writing, Reading, Step, Pass, Strobe
<1>3. CASE call = Init0
  <2>1. /\ ~Made(call) /\ ~Made(call') /\ ~Reads(call')
        /\ accesses' = 0 /\ seen' = {} /\ accesses = 0 /\ seen = {}
    BY <1>1, <1>3 DEF HistNext, HistInv, AnswerInv, Made, Reads
  <2>2. reply' = reply
    BY <1>3 DEF Step, Init0
  <2>3. call' = call => Abstractly
    BY <1>2, <2>1, <2>2, SameVariables
  <2>4. call' = None => Abstractly
    BY <1>2, <1>3, <2>1, <2>2 DEF Abstractly, Abstract!Ready, Init0, Abstract!Init0
  <2> QED BY <1>1, <2>1, <2>3, <2>4 DEF AnswerInv
<1>4. CASE Made(call)
  <2>1. /\ call \in Calls /\ Len(Program(call)) = 6 /\ call.op \in {"read", "write"}
        /\ call.port \in Ports
        /\ call.op = "read" => Reads(call) /\ Program(call)[4] = "temp" /\ Program(call)[5] # "temp"
    <3>1. call \in Calls /\ call.port \in Ports /\ call.op \in {"read", "write"}
      BY <1>1, <1>4, CallKinds DEF Writes, Reads, BusInv, Made
    <3>2. CASE call.op = "write"
      BY <3>1, <3>2, WriteProgram
    <3>3. CASE call.op = "read"
      BY <1>4, <3>1, <3>3, ReadProgram DEF Reads
    <3> QED BY <3>1, <3>2, <3>3
  <2>2. CASE pc = 6
    <3>1. call' = None /\ ~Made(call') /\ ~Reads(call') /\ accesses' = 0 /\ seen' = {} /\ accesses = 1
      <4>1. call' = None /\ ~Made(call') /\ ~Reads(call')
        BY <1>1, <2>1, <2>2 DEF Made, Reads
      <4>2. accesses' = 0 /\ seen' = {}
        BY <4>1 DEF HistNext
      <4>3. accesses = 1
        BY <1>1, <1>4, <2>2, HpiAssumption DEF HistInv, AnswerInv
      <4> QED BY <4>1, <4>2, <4>3
    <3>2. reply' = IF call.op = "read" THEN temp ELSE reply
      BY <2>1, <2>2 DEF Step
    <3>3. call.op = "read" => temp \in seen
      BY <2>1, <2>2 DEF HistInv, AnswerInv
    <3>4. Abstract!Return
      BY <1>1, <1>2, <1>4, <3>1, <3>2, <3>3 DEF Abstract!Return, Abstract!Calling, Made, Init0, Abstract!Init0
    <3> QED BY <3>1, <3>4 DEF AnswerInv, Abstractly
  <2>3. CASE pc # 6
    <3>1. /\ call' = call /\ pc' = pc + 1 /\ Made(call') /\ reply' = reply
          /\ accesses = 0 /\ accesses' = 0 /\ seen' = seen
      BY <1>1, <1>2, <1>4, <2>1, <2>3 DEF HistNext, HistInv, AnswerInv, Step, Made
    <3>2. Abstractly
      BY <1>2, <3>1, SameVariables
    <3>3. Reads(call) /\ pc' \in {5, 6} => temp' \in seen
      <4>1. CASE Reads(call) /\ pc = 4
        BY <1>1, <2>1, <4>1 DEF HistInv, AnswerInv, Step, Reads
      <4>2. CASE Reads(call) /\ pc = 5
        BY <1>1, <2>1, <4>2 DEF HistInv, AnswerInv, Step, Reads
      <4> QED BY <1>1, <3>1, <4>1, <4>2
    <3>4. AnswerInv'
      BY <1>1, <1>2, <1>4, <3>1, <3>3 DEF HistInv, AnswerInv, Reads
    <3> QED BY <3>2, <3>4
  <2> QED BY <2>2, <2>3
<1> QED BY <1>1, <1>3, <1>4 DEF Made

LEMMA HistIdle ==
  ASSUME HistInv, HistNext, Idle
  PROVE  AnswerInv' /\ Abstractly
<1>1. /\ BusInv /\ Pass /\ UNCHANGED <<call, pc, temp, reply, pio>>
      /\ gap \in 0 .. GAP /\ gap' = (IF gap < GAP THEN gap + 1 ELSE gap)
      /\ GAP \in Nat /\ GAP >= 3 /\ pc \in 1 .. 6
      /\ readdata' = dataIn /\ dataIn' = OtgData
  BY HpiAssumption DEF HistInv, Idle, Pass, BusInv, BusTypeOK
<1>2. PICK word \in Words :
        IF StrobeEnds
        THEN /\ reg' = [reg EXCEPT ![otg.addr] = word]
             /\ Writing(otg) /\ ~Reading(otg) => word = otg.data
        ELSE reg' = reg
  BY <1>1, HpiAssumption DEF Pass, Strobe, StrobeEnds
<1>3. reg \in [Ports -> Words] /\ otg.addr \in Ports
  BY <1>1 DEF BusInv, BusTypeOK, Pins
<1>4. CASE ~Made(call)
  <2>1. /\ ~Made(call') /\ ~Reads(call') /\ accesses' = 0 /\ seen' = {} /\ accesses = 0 /\ seen = {}
    BY <1>1, <1>4 DEF HistNext, HistInv, AnswerInv, Made, Reads
  <2>2. CASE StrobeEnds
    <3>1. Abstract!Change(otg.addr, word)
      BY <1>1, <1>2, <1>4, <2>1, <2>2 DEF Abstract!Change, Abstract!Calling, Made, Init0, Abstract!Init0
    <3> QED BY <1>3, <2>1, <3>1 DEF AnswerInv, Abstractly
  <2>3. CASE ~StrobeEnds
    BY <1>1, <1>2, <2>1, <2>3, SameVariables DEF AnswerInv
  <2> QED BY <2>2, <2>3
<1>5. CASE Made(call)
  <2>1. /\ Made(call') /\ call' = call /\ call \in Calls /\ call.port \in Ports
        /\ call.op \in {"read", "write"} /\ call # None
        /\ accesses' = IF StrobeEnds THEN accesses + 1 ELSE accesses
        /\ seen' = IF accesses' = 0 THEN seen \cup {reg'[call.port]} ELSE seen
        /\ StrobeEnds <=> gap = 0 /\ pc = 6
    BY <1>1, <1>5, CallKinds, StrobeOfCall DEF HistNext, Made, Writes, Reads, BusInv
  <2>2. CASE StrobeEnds
    <3>1. /\ gap = 0 /\ gap' = 1 /\ pc = 6 /\ accesses = 0 /\ accesses' = 1 /\ seen' = seen
      BY <1>1, <1>5, <2>1, <2>2 DEF HistInv, AnswerInv
    <3>2. reg' = [reg EXCEPT ![call.port] = word] /\ (call.op = "write" => word = call.data)
      BY <1>1, <1>2, <1>5, <2>1, <2>2, StrobeOfCall
    <3>3. Abstract!Access
      BY <1>1, <1>5, <2>1, <3>1, <3>2 DEF Abstract!Access, Abstract!Calling, Made, Init0, Abstract!Init0
    <3>4. AnswerInv'
      BY <1>1, <1>5, <2>1, <3>1 DEF HistInv, AnswerInv, Reads
    <3> QED BY <3>3, <3>4 DEF Abstractly
  <2>3. CASE ~StrobeEnds
    <3>1. reg' = reg /\ accesses' = accesses /\ seen' = seen
      BY <1>2, <1>5, <2>1, <2>3 DEF HistInv, AnswerInv
    <3>2. Abstractly
      BY <1>1, <3>1, SameVariables
    <3>3. accesses' = IF pc = 6 /\ gap' >= 1 THEN 1 ELSE 0
      BY <1>1, <1>5, <2>1, <2>3, <3>1 DEF HistInv, AnswerInv
    <3>4. Reads(call) /\ pc = 4 /\ gap >= 1 => OtgData \in seen
      <4> SUFFICES ASSUME Reads(call), pc = 4, gap >= 1 PROVE OtgData \in seen
        OBVIOUS
      <4>1. otg = pio /\ pio.cs = 0 /\ pio.r = 0 /\ pio.w = 1 /\ pio.addr = call.port
        BY <1>1, <1>5 DEF BusInv, PinsInv, PioInv, CS, R, W, Reads, Writes, Made
      <4>2. OtgData = reg[call.port]
        BY <4>1 DEF OtgData, Reading
      <4>3. accesses = 0
        BY <1>5 DEF HistInv, AnswerInv
      <4> QED BY <1>5, <4>2, <4>3 DEF HistInv, AnswerInv
    <3>5. ASSUME Reads(call), pc = 4
          PROVE  (gap' >= 2 => dataIn' \in seen') /\ (gap' >= 3 => readdata' \in seen')
      BY <1>1, <3>1, <3>4, <3>5 DEF HistInv, AnswerInv
    <3>6. Reads(call') <=> Reads(call)
      BY <2>1
    <3>7. accesses' = 0 => reg'[call.port] \in seen'
      BY <1>5, <3>1 DEF HistInv, AnswerInv
    <3>8. Reads(call) /\ pc \in {5, 6} => temp' \in seen'
      BY <1>1, <3>1 DEF HistInv, AnswerInv
    <3>9. AnswerInv'
      BY <1>1, <2>1, <3>3, <3>5, <3>6, <3>7, <3>8 DEF AnswerInv
    <3> QED BY <3>2, <3>9
  <2> QED BY <2>2, <2>3
<1> QED BY <1>4, <1>5

(* OneAccessPerCall: whatever the pace of the processor and whatever the   *)
(* controller does meanwhile, five stores and three registers amount to    *)
(* one access of the register the call names.                              *)
THEOREM BusImplementsPorts == HistSpec => OneAccessPerCall
<1>1. ASSUME HistInv, [HistNext]_histVars PROVE HistInv' /\ Abstractly
  <2>1. CASE UNCHANGED histVars
    <3>1. UNCHANGED <<reg, accesses, seen, reply, call, pc, gap, temp, dataIn, readdata, busVars>>
      BY <2>1 DEF histVars, busVars, cpuVars
    <3>2. BusInv'
      BY <1>1, <3>1, BusStep DEF HistInv
    <3>3. AnswerInv'
      BY <1>1, <3>1 DEF HistInv, AnswerInv, Made, Reads
    <3> QED BY <3>1, <3>2, <3>3, SameVariables DEF HistInv
  <2>2. CASE HistNext
    <3>1. BusNext
      BY <2>2 DEF HistNext
    <3>2. BusInv'
      BY <1>1, <3>1, BusStep DEF HistInv
    <3>3. AnswerInv' /\ Abstractly
      BY <1>1, <2>2, <3>1, HistIdle, HistStep, HistPowerUp, HistBegin, HistChange DEF BusNext
    <3> QED BY <3>2, <3>3 DEF HistInv
  <2> QED BY <1>1, <2>1, <2>2
<1>2. HistInit => HistInv /\ Abstract!PortsInit
  BY HistStart
<1> QED BY <1>1, <1>2, PTL DEF HistSpec, OneAccessPerCall, Abstract!PortsSpec, Abstractly
=============================================================================
