------------------------------ MODULE TimedGame ------------------------------
(***************************************************************************)
(* lab8.sv with its clocks: Game driven by the dividers, so that an edge   *)
(* of Clk moves Pac-Man or the ghosts exactly when it raises their clock.  *)
(* The two counts of MCClocks go along; they only watch.                   *)
(***************************************************************************)
EXTENDS GameProperties, MCClocks

timedVars == <<gameVars, clockVars>>

TimedInit == GameInit /\ ClocksInit

TimedEdge ==
  /\ Clock
  /\ Registers
  /\ IF PacRises THEN PacEdge ELSE PacHolds
  /\ IF GhostRises THEN GhostEdge ELSE GhostsHold

TimedReset == PressReset /\ PushReset

TimedSpec == TimedInit /\ [][TimedEdge \/ TimedReset]_timedVars

-----------------------------------------------------------------------------
(* A ghost and Pac-Man come to overlap, past the distance at which         *)
(* hitPacman looks.                                                        *)
Slips == \E g \in Ghosts : ~Overlap(ghost[g], pacX, pacY) /\ Overlap(ghost'[g], pacX', pacY')

(* Of the edges of Clk that the dividers count between two resets, a ghost *)
(* can slip past hitPacman on one in Both only, the one half way round: in *)
(* the code 17.5 minutes after a reset and from then on every 35 minutes.  *)
(* It takes the dividers, the reset that sets both of them back, the maze  *)
(* and hitPacman's exact distance together.                                *)
SlipsOnceInBoth == [][Slips => edges' = (PACFULL + 1) * (GHOSTFULL + 1)]_timedVars
=============================================================================
