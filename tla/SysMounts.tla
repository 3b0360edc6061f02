----------------------------- MODULE SysMounts ------------------------------
(***************************************************************************)
(* The system mounts (mount.c): mount_sys mounts the list of file systems  *)
(* of the configuration (/sys, /proc, /dev/pts) and runs mdev, umount_sys  *)
(* unmounts it before the new root takes over.                             *)
(*                                                                         *)
(* In between, other processes use the mounts; an ssh session outlives its *)
(* dropbear, and with it the terminal that it holds open in /dev/pts.      *)
(***************************************************************************)
EXTENDS Integers

CONSTANTS
  NMounts,  \* the entries of gac_sys_fs_mount are 1..NMounts, in order
  Outer     \* the entry in whose mount an entry's mount point lies, or 0

FsMounts == 1..NMounts

\* What lies in a mount comes after it in the list.
ASSUME SysMountsAssumption ==
  /\ NMounts \in Nat \ {0}
  /\ Outer \in [FsMounts -> 0..NMounts]
  /\ \A e \in FsMounts : Outer[e] < e

MDEV_FAIL == 1024

VARIABLES
  sysPc,    \* "mount", "failed", "running", "seek", "umount", "search", "done"
  iter,     \* ps_sys_fs_iter: the entry that is looked at, or NULL (0)
  prev,     \* ps_sys_fs_prev
  ret,      \* i_retval
  dirs,     \* the mount points that exist
  mounted,  \* the entries that are mounted
  busy,     \* the mounts that some other process uses
  refused   \* the mounts that umount2 refused because of that

sysVars == <<sysPc, iter, prev, ret, dirs, mounted, busy, refused>>

SysInit ==
  /\ sysPc = "mount" /\ iter = 1 /\ prev = 0 /\ ret = 0
  /\ dirs \in SUBSET FsMounts
  /\ mounted = {} /\ busy = {} /\ refused = {}

Within(e) == {f \in mounted : Outer[f] = e}

\* The list can be followed in one direction only.
NextOf(e) == IF e < NMounts THEN e + 1 ELSE 0

-----------------------------------------------------------------------------
(* mount_sys.                                                              *)

\* A mount point that is missing is created, where that is possible; each
\* mount overwrites the result of the one before.
MountEntry ==
  /\ sysPc = "mount" /\ iter \in FsMounts
  /\ dirs' \in {dirs, dirs \cup {iter}}
  /\ \/ /\ iter \in dirs'
        /\ mounted' = mounted \cup {iter}
        /\ ret' = 0
     \/ ret' = -1 /\ UNCHANGED mounted
  /\ iter' = NextOf(iter)
  /\ UNCHANGED <<sysPc, prev, busy, refused>>

\* mdev fills /dev; main goes on if the result is 0.
RunMdev ==
  /\ sysPc = "mount" /\ iter = 0
  /\ \/ UNCHANGED ret
     \/ ret' = IF ret = 0 THEN MDEV_FAIL ELSE ret   \* -1 has all bits set
  /\ sysPc' = IF ret' = 0 THEN "running" ELSE "failed"
  /\ UNCHANGED <<iter, prev, dirs, mounted, busy, refused>>

-----------------------------------------------------------------------------
(* Others, at any time.                                                    *)

Use(e) ==
  /\ e \in mounted
  /\ busy' = busy \cup {e}
  /\ UNCHANGED <<sysPc, iter, prev, ret, dirs, mounted, refused>>

Release(e) ==
  /\ busy' = busy \ {e}
  /\ UNCHANGED <<sysPc, iter, prev, ret, dirs, mounted, refused>>

-----------------------------------------------------------------------------
(* umount_sys.                                                             *)

BeginUmount ==
  /\ sysPc = "running"
  /\ sysPc' = "seek" /\ iter' = 1
  /\ UNCHANGED <<prev, ret, dirs, mounted, busy, refused>>

\* "Find the last device in the list."
SeekLast ==
  /\ sysPc = "seek"
  /\ \/ iter # 0 /\ prev' = iter /\ iter' = NextOf(iter) /\ UNCHANGED sysPc
     \/ iter = 0 /\ iter' = prev /\ sysPc' = "umount" /\ UNCHANGED prev
  /\ UNCHANGED <<ret, dirs, mounted, busy, refused>>

\* "We're at the head, so quit."  (MUTANT: at the entry behind it.)
BehindHead == iter = NextOf(1)
AtHead == iter = 1

\* umount2 refuses what is not mounted, is in use, or holds another mount.
UmountEntry ==
  /\ sysPc = "umount"
  /\ \/ /\ iter \in mounted \ busy /\ Within(iter) = {}
        /\ mounted' = mounted \ {iter}
        /\ ret' = 0
        /\ UNCHANGED refused
     \/ /\ ~(iter \in mounted \ busy /\ Within(iter) = {})
        /\ ret' = -1
        /\ refused' = refused \cup ({iter} \cap busy)
        /\ UNCHANGED mounted
  /\ \/ AtHead /\ sysPc' = "done" /\ UNCHANGED <<iter, prev>>
     \/ ~AtHead /\ sysPc' = "search" /\ prev' = iter /\ iter' = 1
  /\ UNCHANGED <<dirs, busy>>

\* "Find the previous device in the list": from the head on, the entry before
\* the last one.  (MUTANT: no further than the head.)
FoundAtOnce == TRUE
FoundPrevious == NextOf(iter) = prev

SearchPrevious ==
  /\ sysPc = "search" /\ iter # 0
  /\ \/ FoundPrevious /\ sysPc' = "umount" /\ UNCHANGED iter
     \/ ~FoundPrevious /\ iter' = NextOf(iter) /\ UNCHANGED sysPc
  /\ UNCHANGED <<prev, ret, dirs, mounted, busy, refused>>

-----------------------------------------------------------------------------

SysNext ==
  \/ MountEntry \/ RunMdev
  \/ \E e \in FsMounts : Use(e) \/ Release(e)
  \/ BeginUmount \/ SeekLast \/ UmountEntry \/ SearchPrevious

SysSpec == SysInit /\ [][SysNext]_sysVars

=============================================================================
