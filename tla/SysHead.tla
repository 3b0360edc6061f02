------------------------------ MODULE SysHead -------------------------------
(***************************************************************************)
(* The system mounts as the rest of init sees them (and as module Boot has *)
(* them): whether /sys, the head of the list, is mounted, and the result   *)
(* of mount_sys and of umount_sys.                                         *)
(***************************************************************************)

VARIABLES
  stage,  \* "setup", "failed", "up", "clean" or "dirty"
  sysfs   \* /sys is mounted

HeadInit == stage = "setup" /\ sysfs = FALSE

\* The result of mount_sys says nothing of /sys.
Setup ==
  /\ stage = "setup"
  /\ stage' \in {"up", "failed"}
  /\ sysfs' \in BOOLEAN

\* umount_sys succeeds exactly if it unmounts /sys.
Teardown ==
  /\ stage = "up"
  /\ \/ sysfs /\ sysfs' = FALSE /\ stage' = "clean"
     \/ stage' = "dirty" /\ UNCHANGED sysfs

HeadSpec == HeadInit /\ [][Setup \/ Teardown]_<<stage, sysfs>>

=============================================================================
