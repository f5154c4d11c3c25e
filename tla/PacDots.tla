------------------------------- MODULE PacDots -------------------------------
(***************************************************************************)
(* pacDot.sv, pacDotRow.sv and allPacDots.sv: one flag per cell of the     *)
(* board, clocked by Clk, set once Pac-Man stands on the cell's            *)
(* intersection and cleared by resetObjects.  Every cell has a flag,       *)
(* whether the level puts a dot there or not.                              *)
(***************************************************************************)
EXTENDS Maze

VARIABLE eaten     \* the cells whose pacDot is in state EATEN

DotsTypeOK == eaten \subseteq Board

DotsInit == eaten = {}

(* Mutant: the row and the column of the dot are swapped.                  *)
UnderPacSwapped(px, py) ==
  IF AtIntersection(px, py) THEN {<<Cell(py), Cell(px)>>} \cap Board ELSE {}

(* The cell whose pacDot sees dotX = pacX[9:5], dotY = pacY[9:5] and       *)
(* atIntersection; there are no dots outside the board.                    *)
UnderPac(px, py) ==
  IF AtIntersection(px, py) THEN {<<Cell(px), Cell(py)>>} \cap Board ELSE {}

(* One rising edge of Clk, with resetObjects low or high.                  *)
DotsEdge(reset, px, py) ==
  eaten' = IF reset THEN {} ELSE eaten \cup UnderPac(px, py)

(* stillHere and anyLeft for a level whose dots are dotStarts.             *)
StillHere(dotStarts) == dotStarts \ eaten
AnyDotsLeft(dotStarts) == StillHere(dotStarts) # {}
=============================================================================
