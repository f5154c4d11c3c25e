SPECIFICATION HistSpec
CONSTANTS
  Ports = {data, mailbox}
  Words = {zero, one}
  None = none
  Port0 = data
  Word0 = zero
  GAP = 3
INVARIANTS
  NoContention
PROPERTIES
  SteadyUnderStrobe
  OneAccessPerCall
