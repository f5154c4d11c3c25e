---------------------------- MODULE ClockDividers ----------------------------
(***************************************************************************)
(* The two clock dividers of lab8.sv: clkdiv clocks Pac-Man, ghostClk the  *)
(* ghosts.  Each is a register that Clk toggles when its counter is full.  *)
(***************************************************************************)
EXTENDS Integers

CONSTANTS
  PACFULL,     \* 200000: counter's last value
  GHOSTFULL    \* 262000: ghostCounter's last value

VARIABLES counter, clkdiv, ghostCounter, ghostClk

dividerVars == <<counter, clkdiv, ghostCounter, ghostClk>>

(* The counters are 18 bits wide.                                          *)
ASSUME DividerAssumption ==
  PACFULL \in 0 .. 2^18 - 1 /\ GHOSTFULL \in 0 .. 2^18 - 1

DividersTypeOK ==
  /\ counter \in 0 .. PACFULL /\ clkdiv \in BOOLEAN
  /\ ghostCounter \in 0 .. GHOSTFULL /\ ghostClk \in BOOLEAN

DividersInit ==
  counter = 0 /\ clkdiv = FALSE /\ ghostCounter = 0 /\ ghostClk = FALSE

(* Mutant: Reset_h does not clear the ghosts' counter.                     *)
ResetKeepsCount ==
  counter' = 0 /\ clkdiv' = FALSE /\ UNCHANGED ghostCounter /\ ghostClk' = FALSE

(* Reset_h.                                                                *)
DividersReset ==
  counter' = 0 /\ clkdiv' = FALSE /\ ghostCounter' = 0 /\ ghostClk' = FALSE

(* Mutant: the ghosts' counter is compared with > instead of >=.           *)
DivideLate ==
  /\ counter' = IF counter >= PACFULL THEN 0 ELSE counter + 1
  /\ clkdiv' = (clkdiv # (counter >= PACFULL))
  /\ ghostCounter' = IF ghostCounter > GHOSTFULL THEN 0 ELSE ghostCounter + 1
  /\ ghostClk' = (ghostClk # (ghostCounter > GHOSTFULL))

(* Mutant: the two limits are exchanged.                                   *)
DivideSwapped ==
  /\ counter' = IF counter >= GHOSTFULL THEN 0 ELSE counter + 1
  /\ clkdiv' = (clkdiv # (counter >= GHOSTFULL))
  /\ ghostCounter' = IF ghostCounter >= PACFULL THEN 0 ELSE ghostCounter + 1
  /\ ghostClk' = (ghostClk # (ghostCounter >= PACFULL))

(* One rising edge of Clk.                                                 *)
Divide ==
  /\ counter' = IF counter >= PACFULL THEN 0 ELSE counter + 1
  /\ clkdiv' = (clkdiv # (counter >= PACFULL))
  /\ ghostCounter' = IF ghostCounter >= GHOSTFULL THEN 0 ELSE ghostCounter + 1
  /\ ghostClk' = (ghostClk # (ghostCounter >= GHOSTFULL))

(* The edges Pac-Man and the ghosts react to.                              *)
PacRises == ~clkdiv /\ clkdiv'
GhostRises == ~ghostClk /\ ghostClk'
=============================================================================
