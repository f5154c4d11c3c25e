-------------------------------- MODULE Picture --------------------------------
(***************************************************************************)
(* Color_Mapper.sv with its three picture memories: what the pixel under   *)
(* the beam shows.  Of a sprite's picture the rows and columns it uses are *)
(* kept and taken as filled; of a row of the walls, which level it is of,  *)
(* its number in that level's picture and whether a wall runs along it.    *)
(***************************************************************************)
EXTENDS Integers, Sequences

CONSTANTS
  Columns, Lines,   \* where the beam is looked at
  Places,           \* the columns and rows where Pac-Man and a ghost may be
  Levels            \* the levels of control.sv

ASSUME PictureAssumption ==
  /\ Columns \subseteq 0 .. 799 /\ Lines \subseteq 0 .. 524 /\ 0 \in Columns \cap Lines
  /\ 32 \in Places /\ Places \subseteq 32 .. 384
  /\ 1 \in Levels /\ Levels \subseteq {1, 2}

VARIABLES DrawX, DrawY, ball, Direction, ghost, level, hasDot

Spots == Places \X Places

shownVars == <<ball, Direction, ghost, level, hasDot>>
pictureVars == <<DrawX, DrawY, shownVars>>

PictureInit ==
  /\ DrawX = 0 /\ DrawY = 0
  /\ ball = <<32, 32>> /\ Direction = 0 /\ ghost = <<32, 32>> /\ level = 1 /\ hasDot = FALSE

(* The one of all that comes after it, or the first after the last.        *)
Following(a, b, all) ==
  IF \E c \in all : c > a THEN b > a /\ \A c \in all : c <= a \/ c >= b ELSE \A c \in all : b <= c

(* The beam goes along the line, and at its end on to the next.            *)
BeamMoves ==
  /\ \E x \in Columns : Following(DrawX, x, Columns) /\ DrawX' = x
  /\ IF DrawX' > DrawX THEN UNCHANGED DrawY
                       ELSE \E y \in Lines : Following(DrawY, y, Lines) /\ DrawY' = y
  /\ UNCHANGED shownVars

(* What it shows may change at any time.                                   *)
ActorsMove ==
  /\ \/ ball' \in Spots /\ Direction' \in 0 .. 3 /\ UNCHANGED <<ghost, level, hasDot>>
     \/ ghost' \in Spots /\ UNCHANGED <<ball, Direction, level, hasDot>>
     \/ level' \in Levels /\ hasDot' \in BOOLEAN /\ UNCHANGED <<ball, Direction, ghost>>
  /\ UNCHANGED <<DrawX, DrawY>>

PictureNext == BeamMoves \/ ActorsMove
PictureSpec == PictureInit /\ [][PictureNext]_pictureVars

Ten(n) == n % 1024   \* ten bits

-----------------------------------------------------------------------------
(* spriteData: 160 rows in the last places of 256, so five pictures from   *)
(* row 96 on: 0 to 3 are Pac-Man by direction, 4 is the ghost.             *)
PictureRows == <<6 .. 26, 6 .. 26, 6 .. 25, 6 .. 25, 5 .. 26>>
PictureColumns == <<5 .. 28, 3 .. 26, 3 .. 28, 3 .. 28, 3 .. 28>>

InPicture(k, row, column) ==
  row \in PictureRows[k + 1] /\ column \in PictureColumns[k + 1]

Lit(row, column) ==
  row >= 96 /\ InPicture((row - 96) \div 32, (row - 96) % 32, column)

(* The square around an actor: 33 by 33 pixels, in unsigned comparisons.   *)
InSquare(p) ==
  /\ DrawX >= Ten(p[1] - 16) /\ DrawX <= Ten(p[1] + 16)
  /\ DrawY >= Ten(p[2] - 16) /\ DrawY <= Ten(p[2] + 16)

Column(p) == Ten((DrawX - p[1]) + 16)

(* Mutant: the pictures are taken to begin at row 112.                     *)
RowLow(p, first) == ((DrawY - p[2]) + 32 + first) % 256

(* The row of the picture, in eight bits: the 33rd is the next picture's   *)
(* first, or, after the last picture, row 0.                               *)
Row(p, first) == ((DrawY - p[2]) + 16 + first) % 256

(* The 33rd column has no bit in the memory: it may show anything.         *)
Shows(p, first) ==
  InSquare(p) /\ (Lit(Row(p, first), Column(p)) \/ Column(p) = 32)

PacShows == Shows(ball, 96 + 32 * Direction)
GhostShows == Shows(ghost, 224)

-----------------------------------------------------------------------------
(* The dots.                                                               *)
xp2 == Ten((DrawX + 2) - 32)
yp2 == Ten((DrawY + 2) - 32)

(* Mutant: the right border is the board's, not the last dot's.            *)
dot_onWide ==
  /\ DrawX > 0 /\ DrawY > 16 /\ DrawX < 416 /\ DrawY <= 416 /\ hasDot
  /\ xp2 % 32 <= 3 /\ yp2 % 32 <= 3

dot_on ==
  /\ DrawX > 16 /\ DrawY > 16 /\ DrawX < 410 /\ DrawY <= 400 /\ hasDot
  /\ xp2 % 32 <= 3 /\ yp2 % 32 <= 3

(* The cell whose dot is looked up.                                        *)
DotCell == <<(xp2 \div 32) + 1, (yp2 \div 32) + 1>>

-----------------------------------------------------------------------------
(* wallData: 402 rows for each level in the last places of 1024, so level  *)
(* 1 has rows 220 to 621, level 2 the rest, and those before are blank.    *)
WallRow(a) ==
  CASE a < 220          -> <<0, 0>>
    [] a \in 220 .. 621 -> <<1, a - 220>>
    [] a > 621          -> <<2, a - 622>>

(* The rows of either picture along which walls run.                       *)
Along(row) == row[1] # 0 /\ row[2] >= 14 /\ (row[2] - 14) % 32 <= 3

wall_on == DrawX < 416 /\ DrawY <= 400

(* Mutant: the picture of level 2 is taken to begin 400 rows after the     *)
(* first, as its board would.                                              *)
wall_addrLow == IF level = 1 THEN Ten(DrawY + 220) ELSE Ten(DrawY + 220 + 400)

wall_addr == IF level = 1 THEN Ten(DrawY + 220) ELSE Ten(DrawY + 224 + 400)

-----------------------------------------------------------------------------
(* The walls shown are those of the level, and a wall that runs along the  *)
(* screen lies where pac_motion.sv and ghost_motion.sv have it: between    *)
(* two rows of cells, clear of the 22 lines the pictures of actors in them *)
(* may take (ActorsWhole), and on the middle of the 10 in between.  (Level *)
(* 2 is drawn two lines higher than level 1.)  Only the address after the  *)
(* last row of level 2 comes round to a blank one.                         *)
WallsOfTheLevel ==
  wall_on =>
    /\ WallRow(wall_addr)[1] = level \/ (level = 2 /\ DrawY = 400 /\ wall_addr = 0)
    /\ Along(WallRow(wall_addr)) => DrawY % 32 \in 11 .. 20
    /\ DrawY < 400 /\ DrawY % 32 = 15 => Along(WallRow(wall_addr))

(* An actor shows every pixel of its own picture, in its place, and none   *)
(* beside it, though the address of the row has eight bits and the five    *)
(* pictures follow each other without a gap; only the column that is not   *)
(* in the memory may show anything.                                        *)
Whole(shows, p, k) ==
  DrawX - p[1] # 16 => (shows <=> InPicture(k, (DrawY - p[2]) + 16, (DrawX - p[1]) + 16))

ActorsWhole == Whole(PacShows, ball, Direction) /\ Whole(GhostShows, ghost, 4)

(* A dot lies in the middle of its own cell, two pixels around the place   *)
(* where pac_motion.sv stops Pac-Man to eat it, and inside the board.      *)
DotsInTheirCells ==
  dot_on => /\ DotCell \in (1 .. 12) \X (1 .. 12)
            /\ DrawX - 32 * DotCell[1] \in -2 .. 1 /\ DrawY - 32 * DotCell[2] \in -2 .. 1
=============================================================================
