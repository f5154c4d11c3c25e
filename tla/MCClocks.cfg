SPECIFICATION ClocksSpec
CONSTANTS
  PACFULL = 12
  GHOSTFULL = 16
PROPERTIES
  OneOrTwoSteps
  RiseTogether
  ClocksCoincide
