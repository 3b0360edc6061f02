SPECIFICATION CallsSpec
CONSTANTS
  N = 4
  MaxOpen = 2
  disk1 = disk1
  disk2 = disk2
  md1 = md1
  md2 = md2
  uuidA = uuidA
  uuidB = uuidB
  uuidV = uuidV
  uuidW = uuidW
  None = None
  Disks = {disk1, disk2}
  Arrays <- TwoArrays
  Md <- TwoMds
  Volumes <- TwoVolumes
  MaxAttempts = 2
  MaxFds = 6
  NMounts = 4
  Outer <- Nested
  a = a
  b = b
  Sep = Sep
  ListChars = {a, b}
  MaxText = 5
  Bits = {0, 1}
  KeyLen = 3
  Open = Open
  Close = Close
  LF = LF
  NULL = NULL
  RecordChars = {a, b}
  MaxItems = 2
  MaxName = 2
  MaxList = 1
  Block = 2
  x = x
  y = y
  NL = NL
  NUL = NUL
  EOF = EOF
  Chars = {x, y}
  MaxTyped = 5
  MaxKey = 6
CHECK_DEADLOCK FALSE
INVARIANTS
  CallsInv
  ForeignKept
  SweptClean
  OwnedButLinks
  FirstIsRight
  StopsAtFailure
  LeakBounded
  LeftInUse
  IsSplit
  RoundTrip
  KeyIsLine
PROPERTIES
  KeysAnswered
  ImplementsHead
  Descrambled
  PromptAnswered
