SPECIFICATION FileSpec
CONSTANTS
  MaxFd = 5
  Devices = {null, uart}
  DevNull = null
  Uart = uart
  FileSystems = {fs}
PROPERTIES LockIsExclusive
CHECK_DEADLOCK FALSE
