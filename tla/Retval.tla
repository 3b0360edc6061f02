------------------------------- MODULE Retval -------------------------------
(***************************************************************************)
(* The return values of init (error.h).  The C code keeps them in one int  *)
(* with one bit per error and combines them with |= and &; here a value is *)
(* the set of its bits: {} is 0, |= is \cup, a test with & is \in.         *)
(***************************************************************************)

RetvalFlags ==
  {"ROOT", "MAPPER", "SYSFS", "LVM", "REGEX", "ACTION", "DECRYPT",
   "CONSOLE_DONE", "NET", "SERIAL", "MDEV", "SSH", "VLAN", "SWITCH", "TOR",
   "EXEC", "SHUTDOWN"}

Retvals == SUBSET RetvalFlags

Success == {}

\* The -1 of a failed system call that reaches an int of flags: every bit set.
MinusOne == RetvalFlags
=============================================================================
