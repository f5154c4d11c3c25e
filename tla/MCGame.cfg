SPECIFICATION GameSpec
CONSTANTS
  N = 3
  BLOCK = 4
  WIDTH = 32
  COLLIDE = 2
  RANDFIELDS = 1
  Ghosts = {orange}
  PacStart <- MCPacStart
  GhostStart <- MCGhostStart
  Pen <- MCPen
  PreWalls <- MCPreWalls
  LevelWalls <- MCLevelWalls
  LevelDots <- MCLevelDots
INVARIANTS
  WaitingAtHome
PROPERTIES
  CellSpec
  OverlapOnlyWhenBothMove
CHECK_DEADLOCK TRUE
