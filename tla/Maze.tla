-------------------------------- MODULE Maze --------------------------------
(***************************************************************************)
(* The board as check_walls.sv and check_walls_row.sv see it: N by N cells *)
(* of BLOCK by BLOCK pixels, numbered from 1, with the walls of the        *)
(* current level between them.  A coordinate is a register of WIDTH        *)
(* values (ten bits in the code); its upper bits, Cell, name a cell and    *)
(* its lower bits say how far the actor is on the way to the next one.     *)
(***************************************************************************)
EXTENDS Integers

CONSTANTS
  N,       \* cells on a side of the board (12)
  BLOCK,   \* pixels on a side of a cell (32: bits [4:0] of a coordinate)
  WIDTH    \* number of values of a coordinate register (2^10)

(* A coordinate has a sign bit when two of them are subtracted, so the     *)
(* board and its margin must fit in half of the register.                  *)
ASSUME BoardAssumption ==
  /\ N \in Nat \ {0}
  /\ BLOCK \in Nat /\ BLOCK >= 2
  /\ WIDTH \in Nat /\ WIDTH % 2 = 0 /\ 2 * BLOCK * (N + 1) <= WIDTH

Dir == {"L", "R", "U", "D"}
Motion == Dir \cup {"none"}

Opposite == [L |-> "R", R |-> "L", U |-> "D", D |-> "U"]

(* A motion register pair holds one of five vectors.                       *)
DX(d) == IF d = "L" THEN -1 ELSE IF d = "R" THEN 1 ELSE 0
DY(d) == IF d = "U" THEN -1 ELSE IF d = "D" THEN 1 ELSE 0

Coord == 0 .. WIDTH - 1
Cell(p) == p \div BLOCK
Aligned(p) == p % BLOCK = 0
AtIntersection(x, y) == Aligned(x) /\ Aligned(y)
Move(p, step) == (p + step) % WIDTH

Board == (1 .. N) \X (1 .. N)

-----------------------------------------------------------------------------
(* A maze is the set of its walls.  <<"v", r, c>> is bit c of row r of     *)
(* vert_walls, <<"h", r, c>> bit c of row r of horiz_walls; row and bit    *)
(* count from 0, so the cell (x, y) lies in row y - 1 between the vertical *)
(* walls x - 1 and x and between the horizontal rows y - 1 and y.          *)
WallPositions ==
  ({"v"} \X (0 .. N - 1) \X (0 .. N)) \cup ({"h"} \X (0 .. N) \X (0 .. N - 1))

Side(x, y) == [L |-> <<"v", y - 1, x - 1>>, R |-> <<"v", y - 1, x>>,
               U |-> <<"h", y - 1, x - 1>>, D |-> <<"h", y, x - 1>>]

(* outTurnL/R/U/D: the directions that are free at cell (x, y).  Outside   *)
(* the board the only way is back towards it, whatever the walls say; the  *)
(* row is looked at first.                                                 *)
Turns(maze, x, y) ==
  CASE y = 0                        -> {"D"}
    [] y > N                        -> {"U"}
    [] y \in 1 .. N /\ x = 0        -> {"R"}
    [] y \in 1 .. N /\ x > N        -> {"L"}
    [] y \in 1 .. N /\ x \in 1 .. N -> {d \in Dir : Side(x, y)[d] \notin maze}

(* The outer walls of a maze are complete.                                 *)
Enclosed(maze) ==
  \A i \in 0 .. N - 1 :
    {<<"v", i, 0>>, <<"v", i, N>>, <<"h", 0, i>>, <<"h", N, i>>} \subseteq maze

(* The one or two cells an actor is in: between two cells it is in both.   *)
CellsOf(x, y) ==
  {<<Cell(x), Cell(y)>>}
    \cup (IF Aligned(x) THEN {} ELSE {<<Cell(x) + 1, Cell(y)>>})
    \cup (IF Aligned(y) THEN {} ELSE {<<Cell(x), Cell(y) + 1>>})

(* An actor is on the track of a maze: on the board, never between cells   *)
(* on both axes, and between two cells only where no wall separates them   *)
(* and while moving along that axis.                                       *)
OnTrack(maze, x, y, d) ==
  /\ <<Cell(x), Cell(y)>> \in Board
  /\ ~Aligned(x) => /\ Aligned(y)
                    /\ d \in {"L", "R"}
                    /\ "R" \in Turns(maze, Cell(x), Cell(y))
  /\ ~Aligned(y) => /\ Aligned(x)
                    /\ d \in {"U", "D"}
                    /\ "D" \in Turns(maze, Cell(x), Cell(y))
=============================================================================
