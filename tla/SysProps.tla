------------------------------ MODULE SysProps ------------------------------
(***************************************************************************)
(* The properties of the system mounts.                                    *)
(***************************************************************************)
EXTENDS SysMounts

\* The variables have their types.
SysTypeOK ==
  /\ sysPc   \in {"mount", "failed", "running", "seek", "umount", "search", "done"}
  /\ iter \in 0..NMounts
  /\ prev \in 0..NMounts
  /\ ret  \in {0, -1, MDEV_FAIL}
  /\ {dirs, mounted, busy, refused} \subseteq SUBSET FsMounts

\* What umount_sys leaves mounted was in use when its turn came, or holds
\* something that was: no mount stays because what it holds was not yet
\* unmounted ("Dismount the devices in the reverse order in which they were
\* mounted").
LeftInUse ==
  sysPc = "done" => \A e \in mounted : e \in refused \/ Within(e) # {}

\* The rest of init may think of the list as of its head.
HeadStage ==
  CASE sysPc = "mount"                 -> "setup"
    [] sysPc = "failed"                -> "failed"
    [] sysPc = "done" /\ ret = 0       -> "clean"
    [] sysPc = "done" /\ ret # 0       -> "dirty"
    [] OTHER                           -> "up"
HeadSysfs == sysPc # "mount" /\ 1 \in mounted

SysHeadView == INSTANCE SysHead WITH stage <- HeadStage, sysfs <- HeadSysfs

\* The walks over the list implement that view, whatever fails on the way: in
\* particular umount_sys returns 0 exactly if it unmounted /sys.
ImplementsHead == SysHeadView!HeadSpec

-----------------------------------------------------------------------------

\* What has had its turn is unmounted, or there is a reason for it.
Left(es) == \A e \in mounted \cap es : e \in refused \/ Within(e) # {}

\* The inductive invariant: the walk forwards finds the last entry, the search
\* for an entry's predecessor starts before it and never passes it, and so the
\* entries have their turns from the last one to the first.
TurnsTaken ==
  /\ sysPc = "seek" /\ iter # 0 => iter \in FsMounts
  /\ sysPc = "seek" /\ iter = 0 => prev = NMounts
  /\ sysPc = "umount" => iter \in FsMounts /\ Left(iter + 1..NMounts)
  /\ sysPc = "search" =>
       /\ iter \in FsMounts /\ prev \in FsMounts /\ iter < prev
       /\ Left(prev..NMounts)
  /\ sysPc = "done" => Left(FsMounts)

SysInv == SysTypeOK /\ TurnsTaken

=============================================================================
