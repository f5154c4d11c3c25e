SPECIFICATION MCSpec
CONSTANTS
  MaxFd = 5
  Devices = {null, uart}
  DevNull = null
  Uart = uart
  FileSystems = {fs}
  Alarms = {a, b}
  Period = 6
  Delays = {0, 1, 2, 3, 4}
  NIrq = 2
  Routines = {r, s}
  Modulus = 64
  US = 10
  Rate = 2
  Seconds = {0, 1, 3}
  LastSet = 12
  Uptime = 40
  LargestInt = 127
  Million = 2
  Frequency = 100
  Times = {0, 1, 2, 7, 24, 25, 26, 49, 50, 51, 76, 123, 124, 128, 175, 200, 201, 254, 255}
  Words = {0, 65793}
INVARIANTS StreamsStay ServedRight
PROPERTIES LockKeepsOut CountsDown FirstIsServed StoresArrive KeepsTime TakesItsTurns
           CallComplete
CHECK_DEADLOCK FALSE
