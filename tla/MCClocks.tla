------------------------------- MODULE MCClocks -------------------------------
(***************************************************************************)
(* The dividers alone, with counters of 12 and 16 for 200000 and 262000.   *)
(* What the properties rest on is the same for both pairs: the half        *)
(* periods are odd, coprime, and one is between one and two times the      *)
(* other; TLC checks it below for the numbers of the code.                 *)
(***************************************************************************)
EXTENDS ClockDividers

VARIABLES
  pacTicks,    \* ticks of Pac-Man since the ghosts' last tick, or "many"
  edges        \* edges of Clk since Reset_h, counted round Both

clockVars == <<counter, clkdiv, ghostCounter, ghostClk, pacTicks, edges>>

(* A period of either clock, times a half period of the other.             *)
Both == 2 * (PACFULL + 1) * (GHOSTFULL + 1)

SameKind(p, g) ==
  /\ p % 2 = 1 /\ g % 2 = 1 /\ p < g /\ g < 2 * p
  /\ \A d \in 2 .. p : p % d = 0 => g % d # 0

ASSUME ScaleAssumption ==
  SameKind(200001, 262001) /\ SameKind(PACFULL + 1, GHOSTFULL + 1)

ClocksInit == DividersInit /\ pacTicks = 0 /\ edges = 0

(* Three ticks are as good as any larger number.                           *)
Clock ==
  /\ Divide
  /\ pacTicks' = LET now == pacTicks + IF PacRises THEN 1 ELSE 0
                 IN  IF GhostRises THEN 0 ELSE IF now > 3 THEN 3 ELSE now
  /\ edges' = (edges + 1) % Both

PressReset == DividersReset /\ pacTicks' = 0 /\ edges' = 0

ClocksSpec == ClocksInit /\ [][Clock \/ PressReset]_clockVars /\ WF_clockVars(Clock)

-----------------------------------------------------------------------------
(* Ghosts are slower than Pac-Man, but not half as fast: he makes one or   *)
(* two steps for each of theirs, whatever phase the dividers have reached. *)
(* (The edge of the ghosts' own tick counts.)                              *)
OneOrTwoSteps ==
  [][GhostRises /\ ~PressReset
       => pacTicks + (IF PacRises THEN 1 ELSE 0) \in 1 .. 2]_clockVars

(* The two clocks rise on one edge of Clk just once in Both edges, half    *)
(* way round: after a reset for the first time 17.5 minutes later, and     *)
(* from then on every 35 minutes.  That edge is the only one that moves    *)
(* Pac-Man and a ghost at once, the one on which hitPacman can miss.       *)
RiseTogether ==
  [][(PacRises /\ GhostRises) <=> edges' = (PACFULL + 1) * (GHOSTFULL + 1)]_clockVars

(* Unless Reset_h comes again and again, both clocks keep rising, and they *)
(* keep rising on the same edge of Clk: nothing in lab8.sv keeps the       *)
(* dividers apart.                                                         *)
ClocksCoincide ==
  \/ []<><<PressReset>>_clockVars
  \/ []<><<Clock /\ PacRises /\ GhostRises>>_clockVars
=============================================================================
