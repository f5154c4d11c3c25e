----------------------------- MODULE PacMotion -----------------------------
(***************************************************************************)
(* pac_motion.sv: Pac-Man's position and motion registers, clocked by      *)
(* frame_clk (clkdiv of lab8.sv), reset asynchronously by resetObjects.    *)
(* The walls are an input: lab8.sv feeds them from get_walls.sv, which     *)
(* follows the game state, so every operator takes the maze it sees.       *)
(***************************************************************************)
EXTENDS Maze

CONSTANT PacStart   \* the cell Pac-Man is reset to: (160, 160) = cell (5, 5)

VARIABLES
  pacX, pacY,       \* pac_X_Pos, pac_Y_Pos
  pacDir,           \* pac_X_Motion, pac_Y_Motion: one of five vectors
  lastTurn          \* last_X_Turn_Motion, last_Y_Turn_Motion

pacVars == <<pacX, pacY, pacDir, lastTurn>>

ASSUME PacStartAssumption == PacStart \in Board

(* The keycodes pac_motion distinguishes (A, D, W, S), named for the       *)
(* direction they command, and every other value of the 16-bit keycode,    *)
(* the Enter key that only control.sv looks at among them.                 *)
Keys == Dir \cup {"other"}

PacAtIntersection == AtIntersection(pacX, pacY)

PacTypeOK ==
  /\ pacX \in Coord
  /\ pacY \in Coord
  /\ pacDir \in Motion
  /\ lastTurn \in Motion

PacReset ==
  /\ pacX' = BLOCK * PacStart[1]
  /\ pacY' = BLOCK * PacStart[2]
  /\ pacDir' = "none"
  /\ lastTurn' = "none"

PacInit ==
  /\ pacX = BLOCK * PacStart[1]
  /\ pacY = BLOCK * PacStart[2]
  /\ pacDir = "none"
  /\ lastTurn = "none"

(* Mutant: the commanded turn is taken without looking at turn_blocked.    *)
MotionFinalUnblocked(key, free) ==
  IF PacAtIntersection
  THEN IF key \in Dir THEN key ELSE IF pacDir \in free THEN pacDir ELSE "none"
  ELSE IF key \in Dir /\ pacDir \in Dir /\ key = Opposite[pacDir] THEN key ELSE pacDir

(* X_motion_final, Y_motion_final: at an intersection the commanded turn   *)
(* if its side is free, otherwise straight on if that side is free, else   *)
(* stop; between intersections only a reversal is honoured.                *)
MotionFinal(key, free) ==
  IF PacAtIntersection
  THEN IF key \in Dir /\ key \in free THEN key
       ELSE IF pacDir \in free THEN pacDir ELSE "none"
  ELSE IF key \in Dir /\ pacDir \in Dir /\ key = Opposite[pacDir]
       THEN key ELSE pacDir

(* One rising edge of frame_clk.                                           *)
PacTick(key, maze) ==
  LET d == MotionFinal(key, Turns(maze, Cell(pacX), Cell(pacY)))
  IN  /\ pacDir' = d
      /\ pacX' = Move(pacX, DX(d))
      /\ pacY' = Move(pacY, DY(d))
      /\ lastTurn' = IF key \in Dir THEN key ELSE lastTurn
=============================================================================
