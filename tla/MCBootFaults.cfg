SPECIFICATION BootSafety
CONSTANTS
  p1 = p1
  s1 = s1
  child = child
  kFull = kFull
  kFirst = kFirst
  NoDev = NoDev
  NoKey = NoKey
  Procs = {p1, s1, child}
  Pid1 = p1
  Clone = child
  NumVols = 2
  Keys <- MCKeys
  ConsolePw = kFirst
  Opens <- MCOpens
  LVs = {}
  Rootish = {1, 2}
  Mountable = {1, 2}
  CONSOLE = FALSE
  BLKID = TRUE
  DirtyHeap = TRUE
  MaxAttempts = 1
  NET = TRUE
  TOR = TRUE
  DHCP = FALSE
  VLAN = TRUE
  Faults = {"exec", "regfree", "heap_lock", "pid_file", "cmdline"}
CHECK_DEADLOCK FALSE
INVARIANTS
  WipeOnlyUnlocked
  PowerOffLocked
  
  RobustInv
PROPERTIES
  ImplementsStages
