SPECIFICATION ConsoleSpec
CONSTANTS
  Pid1 = Pid1
  Child = Child
  None = None
  NET = TRUE
  TOR = TRUE
  DHCP = TRUE
  CONSOLE = TRUE
  DEBUG = TRUE
  ExecFails = FALSE
  MaxAttempts = 2
CHECK_DEADLOCK FALSE
INVARIANTS
  DropEchoes
