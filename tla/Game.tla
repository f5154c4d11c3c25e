-------------------------------- MODULE Game --------------------------------
(***************************************************************************)
(* The game part of lab8.sv: control, Pac-Man, the ghosts and the dots.    *)
(*                                                                         *)
(* A step is one rising edge of the 50 MHz Clk.  control and the dots are  *)
(* clocked by it; Pac-Man and the ghosts are clocked by clkdiv and         *)
(* ghostClk, registers that the same edge may raise, so that a step moves  *)
(* neither, one or all of them.  The dividers have coprime periods and     *)
(* nothing keeps them apart, hence every combination is allowed here.      *)
(* resetObjects = resetAll | Reset_h resets Pac-Man, the ghosts and the    *)
(* dots asynchronously: as soon as an edge raises resetAll they are reset. *)
(***************************************************************************)
EXTENDS Control, PacMotion, GhostMotion, PacDots

CONSTANTS
  PreWalls,     \* defaultVert and defaultHoriz of get_walls.sv
  LevelWalls,   \* <<lvl1vert and lvl1horiz, lvl2vert and lvl2horiz>>
  LevelDots,    \* <<lvl1Dots, lvl2Dots>> of getDotStarts.sv
  Pen           \* the cells PreWalls leave the ghosts to wander in

gameVars == <<state, resetAll, pacX, pacY, pacDir, lastTurn, ghost, eaten>>

(* get_walls: the maze the actors see in state s.                          *)
Walls(s) == IF isPre(s) THEN PreWalls ELSE LevelWalls[level(s)]

(* getDotStarts: the dots of the level shown in state s.                   *)
DotStarts(s) == LevelDots[level(s)]

pacManDied == \E g \in Ghosts : HitPacman(ghost[g], pacX, pacY)
anyDotsLeft == AnyDotsLeft(DotStarts(state))

-----------------------------------------------------------------------------
(* What the tables of get_walls.sv and getDotStarts.sv must satisfy.       *)

ASSUME MazeAssumption ==
  /\ PreWalls \subseteq WallPositions
  /\ LevelWalls \in [1 .. 2 -> SUBSET WallPositions]
  /\ LevelDots \in [1 .. 2 -> SUBSET Board]
  /\ Enclosed(PreWalls)
  /\ \A i \in 1 .. 2 : Enclosed(LevelWalls[i])

(* "ghosts stay in center and pacman can't move"                           *)
ASSUME PreAssumption ==
  /\ Turns(PreWalls, PacStart[1], PacStart[2]) = {}
  /\ GhostStart \in Pen /\ Pen \subseteq Board
  /\ \A c \in Pen :
       /\ Turns(PreWalls, c[1], c[2]) # {}
       /\ \A d \in Turns(PreWalls, c[1], c[2]) : <<c[1] + DX(d), c[2] + DY(d)>> \in Pen

(* In a level the cells of the pen have no exit, and the cell above one is *)
(* in the pen or has an exit.                                              *)
ASSUME LevelAssumption ==
  \A i \in 1 .. 2, c \in Pen :
    /\ Turns(LevelWalls[i], c[1], c[2]) = {}
    /\ c[2] > 1
    /\ <<c[1], c[2] - 1>> \in Pen \/ Turns(LevelWalls[i], c[1], c[2] - 1) # {}

(* Some cell boundary separates Pac-Man's start from the pen.              *)
ASSUME ApartAssumption ==
  \/ \A c \in Pen : c[1] > PacStart[1]
  \/ \A c \in Pen : c[2] > PacStart[2]

-----------------------------------------------------------------------------
GameInit == ControlInit /\ PacInit /\ GhostInit /\ DotsInit

(* The registers Clk drives.  A dot's flag is held clear while resetAll is *)
(* high, before or after the edge.                                         *)
Registers ==
  /\ ControlEdge(pacManDied, anyDotsLeft)
  /\ DotsEdge(resetAll \/ resetAll', pacX, pacY)

(* Pac-Man after an edge that raises clkdiv.  The state register and the   *)
(* keycode port are registers of Clk and may change on that edge too; it   *)
(* is a race whether pac_motion then samples the walls of the old or of    *)
(* the new state, and whether it samples the key control.sv has just read  *)
(* or the next one.  No key is bound to last, so his is any key at all.    *)
PacEdge ==
  IF resetAll' THEN PacReset
  ELSE \E key \in Keys, s \in {state, state'} : PacTick(key, Walls(s))

PacHolds == IF resetAll' THEN PacReset ELSE UNCHANGED pacVars

(* The ghosts after an edge that raises ghostClk, with the same race, and  *)
(* one on Pac-Man's position when he moves on that edge.                   *)
GhostEdge ==
  IF resetAll' THEN GhostReset
  ELSE \E s \in {state, state'}, p \in {<<pacX, pacY>>, <<pacX', pacY'>>},
          words \in [Ghosts -> RandomWord] :
         GhostTick(Walls(s), p[1], p[2], words)

GhostsHold == IF resetAll' THEN GhostReset ELSE UNCHANGED ghost

ClkEdge == Registers /\ PacHolds /\ GhostsHold
ClkEdgePac == Registers /\ PacEdge /\ GhostsHold
ClkEdgeGhosts == Registers /\ PacHolds /\ GhostEdge
ClkEdgeBoth == Registers /\ PacEdge /\ GhostEdge

(* KEY[0], the asynchronous Reset_h, pressed and released.                 *)
PushReset ==
  /\ ControlReset
  /\ PacReset
  /\ GhostReset
  /\ eaten' = {}

GameNext == ClkEdge \/ ClkEdgePac \/ ClkEdgeGhosts \/ ClkEdgeBoth \/ PushReset

GameSpec == GameInit /\ [][GameNext]_gameVars
=============================================================================
