-------------------------------- MODULE MCRom --------------------------------
(***************************************************************************)
(* The game with the registers and the tables of the code: 12 by 12 cells  *)
(* of 32 by 32 pixels, ten-bit coordinates, the real mazes.  Its whole     *)
(* state space is out of reach (a set of dots for every trail), so each    *)
(* behaviour is about one actor, which takes its own steps of Game while   *)
(* the others stand; checking it also evaluates the assumptions of Game on *)
(* the real tables.                                                        *)
(***************************************************************************)
EXTENDS GameProperties, Sequences

VARIABLE subject   \* which actor this behaviour is about

romVars == <<subject, gameVars>>

-----------------------------------------------------------------------------
(* The tables of get_walls.sv and getDotStarts.sv.  A table is a sequence  *)
(* of rows, written as in the source; bit 0 of a row is its leftmost bit   *)
(* because check_walls.sv and allPacDots.sv number the vectors upwards.    *)
Bits(word, width) == {c \in 0 .. width - 1 : (word \div 2 ^ (width - 1 - c)) % 2 = 1}

VertWalls(rows) ==
  UNION {{<<"v", r - 1, c>> : c \in Bits(rows[r], 13)} : r \in DOMAIN rows}

HorizWalls(rows) ==
  UNION {{<<"h", r - 1, c>> : c \in Bits(rows[r], 12)} : r \in DOMAIN rows}

DotCells(rows) ==
  UNION {{<<c + 1, r>> : c \in Bits(rows[r], 12)} : r \in DOMAIN rows}

defaultVert ==
  <<\h1fff, \h1fff, \h1fff, \h1fff, \h1fff, \h1fbf,
    \h1fbf, \h1fff, \h1fff, \h1fff, \h1fff, \h1fff>>

defaultHoriz ==
  <<\hfff, \hfff, \hfff, \hfff, \hfff, \hfff, \hf9f,
    \hfff, \hfff, \hfff, \hfff, \hfff, \hfff>>

lvl1vert ==
  <<\h1843, \h1fff, \h1803, \h1953, \h1b1b, \h18e3,
    \h1bfb, \h1b1b, \h1843, \h1a0b, \h1953, \h1803>>

lvl1horiz ==
  <<\hfff, \h294, \h294, \h264, \h696, \h666, \h666,
    \h060, \h666, \h294, \h462, \h39c, \hfff>>

lvl2vert ==
  <<\h1041, \h1eef, \h1001, \h1151, \h1319, \h10e1,
    \h13f9, \h1319, \h1041, \h1209, \h1151, \h1001>>

lvl2horiz ==
  <<\hfff, \h59a, \h59a, \h666, \he97, \he67, \he67,
    \h060, \he67, \h696, \hc63, \h79e, \hfff>>

lvl1Dots ==
  <<\h7fe, \h56a, \h7fe, \h7fe, \h1f8, \h79e,
    \h198, \h1f8, \h7fe, \h7fe, \h7fe, \h7fe>>

(* Mutant: level 2 still has the dots of level 1.                          *)
lvl2DotsOfLvl1 == lvl1Dots

lvl2Dots ==
  <<\hfff, \ha65, \hfff, \hfff, \h1f8, \hf9f,
    \h198, \h1f8, \hfff, \hfff, \hfff, \hfff>>

(* What get_walls outputs when isPre is high, and for levels 1 and 2; what *)
(* getDotStarts outputs for levels 1 and 2.                                *)
RomPreWalls == VertWalls(defaultVert) \cup HorizWalls(defaultHoriz)
RomLevelWalls ==
  <<VertWalls(lvl1vert) \cup HorizWalls(lvl1horiz),
    VertWalls(lvl2vert) \cup HorizWalls(lvl2horiz)>>
RomLevelDots == <<DotCells(lvl1Dots), DotCells(lvl2Dots)>>

-----------------------------------------------------------------------------

MCPacStart == <<5, 5>>
MCGhostStart == <<6, 6>>
MCPen == {6, 7} \X {6, 7}
(* A name for each table, so that TLC builds it once.                      *)
MCPreWalls == RomPreWalls
MCLevelWalls == RomLevelWalls
MCLevelDots == RomLevelDots

-----------------------------------------------------------------------------
(* Pac-Man alone, in either level, any key at any tick.           *)
PacAloneInit ==
  PacInit /\ state \in Playing /\ resetAll = FALSE /\ GhostInit /\ DotsInit

PacAloneNext ==
  /\ \E key \in Keys : PacTick(key, Walls(state))
  /\ UNCHANGED <<state, resetAll, ghost, eaten>>

Step(c, d) == <<c[1] + DX(d), c[2] + DY(d)>>

(* The cells a walk of 4 * N steps from Pac-Man's start can reach; that    *)
(* is all of them when none is open to a further step.                     *)
Reachable(maze) ==
  LET grow[n \in Nat] ==
        IF n = 0 THEN {PacStart}
        ELSE LET seen == grow[n - 1]
                 next == UNION {{Step(c, d) : d \in Turns(maze, c[1], c[2])} : c \in seen}
             IN  IF next \subseteq seen THEN seen ELSE seen \cup next
  IN  grow[4 * N]

ReachableInLevel == <<Reachable(LevelWalls[1]), Reachable(LevelWalls[2])>>

(* Both levels can be won: the cells Pac-Man can walk to are those with a  *)
(* dot of the level, each of them and no others (the tables of             *)
(* get_walls.sv and getDotStarts.sv agree).                                *)
Winnable ==
  LET reach == ReachableInLevel[level(state)]
  IN  subject = "pacman" =>
        DotStarts(state) = reach /\ Closed(LevelWalls[level(state)], reach)

-----------------------------------------------------------------------------
(* One ghost without Pac-Man's interference: he may be seen anywhere, and  *)
(* what the ghost makes of him is the sign of two differences, so he is    *)
(* put at the corners, the middle and the edges of the board.  The game is *)
(* new, or a level has just been beaten; the next one starts at any        *)
(* moment.                                                                 *)
Places == {32 * k : k \in {1, 6, 12}}

GhostAloneInit ==
  PacInit /\ state \in Waiting /\ resetAll = TRUE /\ GhostInit /\ DotsInit

StartLevel ==
  /\ Wait(TRUE)
  /\ UNCHANGED <<pacX, pacY, pacDir, lastTurn, ghost, eaten>>

(* Between two cells a ghost looks at neither Pac-Man nor the words, and   *)
(* one choice of them stands for all.                                      *)
Choices ==
  IF \E g \in Ghosts : AtIntersection(ghost[g].x, ghost[g].y)
  THEN Places \X Places \X [Ghosts -> RandomWord]
  ELSE {<<32, 32, [g \in Ghosts |-> CHOOSE word \in RandomWord : TRUE]>>}

Roam ==
  /\ \E c \in Choices : GhostTick(Walls(state), c[1], c[2], c[3])
  /\ UNCHANGED <<state, resetAll, pacX, pacY, pacDir, lastTurn, eaten>>

-----------------------------------------------------------------------------
RomInit ==
  \/ subject = "pacman" /\ PacAloneInit
  \/ subject = "ghost" /\ GhostAloneInit

About(actor, step) == subject = actor /\ step /\ UNCHANGED subject

RomNext ==
  \/ About("pacman", PacAloneNext)
  \/ About("ghost", StartLevel)
  \/ About("ghost", Roam)

RomSpec == RomInit /\ [][RomNext]_romVars /\ WF_romVars(About("ghost", Roam))

(* With the real mazes and registers the ghost gets out of the pen of      *)
(* either level, wherever Pac-Man is and whatever the random words say: no *)
(* choice of ghost_motion.sv can keep it turning about inside for ever.    *)
OutOfRealPen == subject = "ghost" => GhostsLeavePen
=============================================================================
