SPECIFICATION UnlockSpec
CONSTANTS
  p1 = p1
  s1 = s1
  s2 = s2
  kFull = kFull
  kFirst = kFirst
  kConsole = kConsole
  rootLV = rootLV
  NoDev = NoDev
  NoKey = NoKey
  Procs = {p1, s1}
  Pid1 = p1
  NumVols = 2
  Keys <- MCKeys
  ConsolePw = kConsole
  Opens <- MCOpens
  LVs = {rootLV}
  Rootish <- MCRootish
  Mountable <- MCMountable
  CONSOLE = TRUE
  BLKID = TRUE
  DirtyHeap = TRUE
  MaxAttempts = 2
PROPERTIES
  EveryKeyAnswered
