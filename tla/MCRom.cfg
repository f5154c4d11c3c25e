SPECIFICATION RomSpec
CONSTANTS
  N = 12
  BLOCK = 32
  WIDTH = 1024
  COLLIDE = 16
  RANDFIELDS = 2
  Ghosts = {orange}
  PacStart <- MCPacStart
  GhostStart <- MCGhostStart
  Pen <- MCPen
  PreWalls <- MCPreWalls
  LevelWalls <- MCLevelWalls
  LevelDots <- MCLevelDots
INVARIANTS
  PacOnTrack
  Winnable
  OverDots
  GhostsOnTrack
PROPERTIES
  NoWayBackToPen
  OutOfRealPen
