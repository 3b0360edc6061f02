SPECIFICATION BootSpec
CONSTANTS
  p1 = p1
  s1 = s1
  child = child
  kFull = kFull
  kFirst = kFirst
  NoDev = NoDev
  NoKey = NoKey
  Procs = {p1, s1, child}
  Pid1 = p1
  Clone = child
  NumVols = 2
  Keys <- MCKeys
  ConsolePw = kFirst
  Opens <- MCOpens
  LVs = {}
  Rootish = {1, 2}
  Mountable = {1, 2}
  CONSOLE = FALSE
  BLKID = FALSE
  DirtyHeap = FALSE
  MaxAttempts = 1
  NET = TRUE
  TOR = TRUE
  DHCP = TRUE
  VLAN = TRUE
  Faults = {"heap_lock"}
CHECK_DEADLOCK FALSE
PROPERTIES
  EndsOnceBegun
