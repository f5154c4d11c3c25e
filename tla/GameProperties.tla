--------------------------- MODULE GameProperties ---------------------------
(***************************************************************************)
(* What the game of Game.tla promises.                                     *)
(***************************************************************************)
EXTENDS Game

(* The type of every register of the game.                                 *)
GameTypeOK == ControlTypeOK /\ PacTypeOK /\ GhostTypeOK /\ DotsTypeOK

PacHome ==
  /\ pacX = BLOCK * PacStart[1]
  /\ pacY = BLOCK * PacStart[2]
  /\ pacDir = "none"

InPen(s) == CellsOf(s.x, s.y) \subseteq Pen

(* While the game waits for Enter, Pac-Man stands at his start, the ghosts *)
(* are in the pen, no dot but the one under Pac-Man is eaten, and no ghost *)
(* can hit him, so a level that was beaten is not taken back: the comment  *)
(* "ghosts stay in center and pacman can't move" of get_walls.sv, across   *)
(* every race between the edge that changes the state and the two clocks.  *)
WaitingAtHome ==
  state \in Waiting =>
    /\ PacHome
    /\ \A g \in Ghosts : InPen(ghost[g])
    /\ eaten \subseteq {PacStart}
    /\ ~pacManDied

(* The edge that raises resetAll leaves every register it resets in its    *)
(* reset value, even when that edge also raises clkdiv or ghostClk, and    *)
(* resetAll is never high while a level is played.                         *)
ResetClean ==
  resetAll =>
    /\ state \in Waiting
    /\ PacHome /\ lastTurn = "none"
    /\ \A g \in Ghosts : ghost[g] = HomeGhost
    /\ eaten = {}

(* Pac-Man never enters a wall: pac_motion.sv looks at the walls only at   *)
(* an intersection, and the walls change with the state of the game.       *)
PacOnTrack == OnTrack(Walls(state), pacX, pacY, pacDir)

(* A ghost is on the board and between two cells on one axis only.  It     *)
(* crosses a wall of the current maze in two cases: on its way between two *)
(* cells of the pen when the level started, or going up out of the pen     *)
(* (the "no options, go up" branch of ghost_motion.sv).                    *)
GhostOnTrack(maze, s) ==
  LET free == Turns(maze, Cell(s.x), Cell(s.y))
      below == <<Cell(s.x), Cell(s.y) + 1>>
  IN  /\ <<Cell(s.x), Cell(s.y)>> \in Board
      /\ ~Aligned(s.x) => /\ Aligned(s.y)
                          /\ s.dir \in {"L", "R"}
                          /\ "R" \in free \/ InPen(s)
      /\ ~Aligned(s.y) => /\ Aligned(s.x)
                          /\ s.dir \in {"U", "D"}
                          /\ "D" \in free \/ InPen(s) \/ (s.dir = "U" /\ below \in Pen)

GhostsOnTrack == \A g \in Ghosts : GhostOnTrack(Walls(state), ghost[g])

(* A dot Pac-Man passes is eaten: between two cells he has eaten the dot   *)
(* of one of them at least, though the dots are clocked by Clk and he by   *)
(* clkdiv.  Only the dot he starts on can be missed, when the edge that    *)
(* starts the level ends the reset of the dots and moves him off as well.  *)
NoDotSkipped ==
  ~AtIntersection(pacX, pacY) => CellsOf(pacX, pacY) \cap (eaten \cup {PacStart}) # {}

(* Pac-Man only gets to cells with a dot of the level: none of the cells   *)
(* without one (the pen is among them) is on his way.                      *)
OverDots == CellsOf(pacX, pacY) \subseteq DotStarts(state)

(* What the tables of the walls and of the dots owe each other for that:   *)
(* in both levels no free side leads out of the dots, and he starts there. *)
Closed(maze, area) ==
  \A c \in area, d \in Dir :
    d \in Turns(maze, c[1], c[2]) => <<c[1] + DX(d), c[2] + DY(d)>> \in area

DotsClosed ==
  \A i \in 1 .. 2 : PacStart \in LevelDots[i] /\ Closed(LevelWalls[i], LevelDots[i])

-----------------------------------------------------------------------------
(* The game without its pixels: Pac-Man stands in a cell or is on his way  *)
(* between two.                                                            *)
PacCells == CellsOf(pacX, pacY)
cellVars == <<state, PacCells, eaten>>

Neighbours(maze, c) == {<<c[1] + DX(d), c[2] + DY(d)>> : d \in Turns(maze, c[1], c[2])}

(* He sets out for a neighbouring cell, gets there, or turns back.         *)
Walks(maze, from, to) ==
  \/ to = from
  \/ \E c \in from : \E d \in Neighbours(maze, c) :
       \/ from = {c} /\ to = {c, d}
       \/ from = {c, d} /\ to \in {{c}, {d}}

AllHome == PacCells' = {PacStart} /\ eaten' \subseteq {PacStart}

CellInit == state = "NEWGAME" /\ PacCells = {PacStart} /\ eaten = {}

PlayOn ==
  /\ state \in Playing /\ state' = state
  /\ Walks(LevelWalls[level(state)], PacCells, PacCells')
  /\ eaten' = eaten \cup {c \in PacCells : PacCells = {c}}
ClearLevel ==
  /\ state \in Playing /\ DotStarts(state) \subseteq eaten
  /\ state' = AfterClear[state] /\ AllHome
WaitForEnter == state \in Waiting /\ state' = state /\ AllHome
BeginLevel ==
  /\ state \in Waiting /\ state' = AfterEnter[state]
  /\ PacCells = {PacStart} /\ Walks(LevelWalls[level(state')], PacCells, PacCells')
  /\ eaten' \subseteq {PacStart}
Restart == state' = "NEWGAME" /\ AllHome

(* The game on cells: a walk through the maze of the level that eats the   *)
(* dots of the cells it comes through, all of them before the level is     *)
(* cleared, and starts afresh from the same cell, which he may leave on    *)
(* the very edge that starts the level; for all that Game does with        *)
(* pixels, three clocks and their races, and a reset one period long.      *)
CellNext == PlayOn \/ ClearLevel \/ WaitForEnter \/ BeginLevel \/ Restart

CellSpec == CellInit /\ [][CellNext]_cellVars

-----------------------------------------------------------------------------
Overlap(s, px, py) == AbsDiff(s.x, px) < COLLIDE /\ AbsDiff(s.y, py) < COLLIDE

(* hitPacman only sees Pac-Man at a distance of exactly collisionDist, yet *)
(* he and a ghost can slip past that distance and overlap only on an edge  *)
(* that moves both of them.                                                *)
OverlapOnlyWhenBothMove ==
  [][\A g \in Ghosts :
       ~Overlap(ghost[g], pacX, pacY) /\ Overlap(ghost'[g], pacX', pacY')
         => <<pacX, pacY>> # <<pacX', pacY'>> /\ ghost[g] # ghost'[g]]_gameVars

(* During a level a ghost that has left the pen stays out of it; only the  *)
(* reset at its end takes the ghost back.                                  *)
NoWayBackToPen ==
  [][\A g \in Ghosts :
       InPen(ghost'[g]) => InPen(ghost[g]) \/ state' \in Waiting]_gameVars

(* Every ghost gets out of the pen of a level, unless the level ends       *)
(* first.                                                                  *)
GhostsLeavePen ==
  \A g \in Ghosts : state \in Playing ~> (~InPen(ghost[g]) \/ state \in Waiting)
=============================================================================
