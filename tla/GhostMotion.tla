----------------------------- MODULE GhostMotion -----------------------------
(***************************************************************************)
(* ghost_motion.sv: the ghosts.  lab8.sv instantiates four, all clocked by *)
(* ghostClk and all reset by resetObjects to the same cell, so one rising  *)
(* edge moves every ghost.  Pac-Man's position and the walls are inputs.   *)
(***************************************************************************)
EXTENDS Maze

CONSTANTS
  Ghosts,       \* the instances: orange, blue, red, pink
  GhostStart,   \* ghostStart of lab8.sv: the cell (6, 6)
  COLLIDE,      \* collisionDist (16)
  RANDFIELDS    \* two-bit fields of a randomness word (8)

VARIABLE
  ghost         \* per instance: position, motion and counter_rand

ASSUME GhostAssumption ==
  /\ GhostStart \in Board
  /\ COLLIDE \in Nat \ {0} /\ COLLIDE < BLOCK
  /\ RANDFIELDS \in Nat \ {0}

GhostState == [x : Coord, y : Coord, dir : Motion, rand : 0 .. RANDFIELDS - 1]

GhostTypeOK == ghost \in [Ghosts -> GhostState]

(* What software last wrote to a randomness port.                          *)
RandomWord == [0 .. RANDFIELDS - 1 -> 0 .. 3]

HomeGhost == [x |-> BLOCK * GhostStart[1], y |-> BLOCK * GhostStart[2],
              dir |-> "none", rand |-> 0]

GhostInit == ghost = [g \in Ghosts |-> HomeGhost]

GhostReset == ghost' = [g \in Ghosts |-> HomeGhost]

-----------------------------------------------------------------------------
(* The arithmetic of the registers: a difference wraps, its top bit is its *)
(* sign, and its magnitude is read off the difference that has none.       *)
Sub(a, b) == (a - b) % WIDTH
Negative(a) == a >= WIDTH \div 2
AbsDiff(a, b) == IF Negative(Sub(a, b)) THEN Sub(b, a) ELSE Sub(a, b)

(* Mutant: the width of the other axis is not looked at.                   *)
HitPacmanFace(s, px, py) ==
  \/ AbsDiff(s.x, px) = COLLIDE /\ AbsDiff(s.y, py) = 0
  \/ AbsDiff(s.y, py) = COLLIDE /\ AbsDiff(s.x, px) = 0

(* hitPacman: one distance is exactly collisionDist and the other less.    *)
HitPacman(s, px, py) ==
  LET hitX == Sub(AbsDiff(s.x, px), COLLIDE)
      hitY == Sub(AbsDiff(s.y, py), COLLIDE)
  IN  \/ hitX = 0 /\ Negative(hitY)
      \/ hitY = 0 /\ Negative(hitX)

(* tooFarDown, tooFarRight, tooFarUp, tooFarLeft: Pac-Man lies in          *)
(* direction d of the ghost.                                               *)
Towards(d, s, px, py) ==
  LET cmpX == Sub(s.x, px)
      cmpY == Sub(s.y, py)
  IN  CASE d = "L" -> ~Negative(cmpX) /\ cmpX # 0
        [] d = "R" -> Negative(cmpX)
        [] d = "U" -> ~Negative(cmpY) /\ cmpY # 0
        [] d = "D" -> Negative(cmpY)

-----------------------------------------------------------------------------
(* The choice at a cell with two exits.  One of them, the pivot, is        *)
(* compared with the motion: a ghost moving against it has come in by it.  *)
(* It goes back where it came from when the random number is 3.            *)
Pivot(free) == IF "D" \in free THEN "D" ELSE IF "U" \in free THEN "U" ELSE "R"

TurnOfTwo(free, dir, rand) ==
  IF (dir = Opposite[Pivot(free)]) = (rand = 3)
  THEN Pivot(free)
  ELSE CHOOSE d \in free : d # Pivot(free)

(* Mutant: the cases for no exit down and for no exit up are exchanged.    *)
PreferencesSwapped(free) ==
  CASE free = {"L", "R", "U"} -> <<"D", "L", "R">>
    [] free = {"L", "R", "D"} -> <<"U", "L", "R">>
    [] free = {"L", "U", "D"} -> <<"L", "U", "D">>
    [] free = {"R", "U", "D"} -> <<"R", "U", "D">>

(* At three exits: the first of the two preferred directions that leads    *)
(* towards Pac-Man, else the third.                                        *)
Preferences(free) ==
  CASE free = {"L", "R", "U"} -> <<"U", "L", "R">>
    [] free = {"L", "R", "D"} -> <<"D", "L", "R">>
    [] free = {"L", "U", "D"} -> <<"L", "U", "D">>
    [] free = {"R", "U", "D"} -> <<"R", "U", "D">>

TurnOfThree(free, s, px, py) ==
  LET pref == Preferences(free)
  IN  IF Towards(pref[1], s, px, py) THEN pref[1]
      ELSE IF Towards(pref[2], s, px, py) THEN pref[2] ELSE pref[3]

(* Mutant: the branch for two exits forgets which way the ghost came.      *)
GhostTurnForward(free, s, px, py, rand) ==
  CASE free = {}                         -> "U"
    [] \E d \in Dir : free = {d}        -> CHOOSE d \in free : TRUE
    [] \E d \in Dir : free = Dir \ {d}  -> TurnOfThree(free, s, px, py)
    [] free = Dir                        -> <<"L", "R", "U", "D">>[rand + 1]
    [] OTHER                             -> IF rand = 3 THEN "U" ELSE Pivot(free)

(* Mutant: with no exit the ghost stays.                                   *)
GhostTurnStay(free, s, px, py, rand) ==
  CASE free = {}                         -> "none"
    [] \E d \in Dir : free = {d}        -> CHOOSE d \in free : TRUE
    [] \E d \in Dir : free = Dir \ {d}  -> TurnOfThree(free, s, px, py)
    [] free = Dir                        -> <<"L", "R", "U", "D">>[rand + 1]
    [] OTHER                             -> TurnOfTwo(free, s.dir, rand)

(* X_Turn_Motion, Y_Turn_Motion: the case over {turnL, turnR, turnU,       *)
(* turnD}.  With no exit at all the ghost goes up, through the wall.       *)
GhostTurn(free, s, px, py, rand) ==
  CASE free = {}                         -> "U"
    [] \E d \in Dir : free = {d}        -> CHOOSE d \in free : TRUE
    [] \E d \in Dir : free = Dir \ {d}  -> TurnOfThree(free, s, px, py)
    [] free = Dir                        -> <<"L", "R", "U", "D">>[rand + 1]
    [] OTHER                             -> TurnOfTwo(free, s.dir, rand)

(* One rising edge of ghostClk for the ghost in state s: at an             *)
(* intersection it takes the turn and advances counter_rand, elsewhere it  *)
(* keeps moving.                                                           *)
NextGhost(s, maze, px, py, word) ==
  LET free == Turns(maze, Cell(s.x), Cell(s.y))
      here == AtIntersection(s.x, s.y)
      d == IF here THEN GhostTurn(free, s, px, py, word[s.rand]) ELSE s.dir
  IN  [x |-> Move(s.x, DX(d)), y |-> Move(s.y, DY(d)), dir |-> d,
       rand |-> IF here THEN (s.rand + 1) % RANDFIELDS ELSE s.rand]

GhostTick(maze, px, py, words) ==
  ghost' = [g \in Ghosts |-> NextGhost(ghost[g], maze, px, py, words[g])]
=============================================================================
