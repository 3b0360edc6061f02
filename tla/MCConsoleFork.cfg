SPECIFICATION ConsoleSpec
CONSTANTS
  Pid1 = Pid1
  Child = Child
  None = None
  NET = TRUE
  TOR = TRUE
  DHCP = TRUE
  CONSOLE = TRUE
  DEBUG = FALSE
  ExecFails = TRUE
  MaxAttempts = 2
CHECK_DEADLOCK FALSE
INVARIANTS
  PromptSeen
  CommandsQuiet
  HideUndone
  ConsoleInv
