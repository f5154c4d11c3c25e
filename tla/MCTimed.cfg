SPECIFICATION TimedSpec
CONSTANTS
  N = 2
  BLOCK = 4
  WIDTH = 24
  COLLIDE = 2
  RANDFIELDS = 1
  Ghosts = {orange}
  PacStart <- MCPacStart
  GhostStart <- MCGhostStart
  Pen <- MCPen
  PreWalls <- MCPreWalls
  LevelWalls <- MCLevelWalls
  LevelDots <- MCLevelDots
  PACFULL = 2
  GHOSTFULL = 4
PROPERTIES
  SlipsOnceInBoth
