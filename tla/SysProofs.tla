----------------------------- MODULE SysProofs ------------------------------
(***************************************************************************)
(* Proofs about the system mounts, for every list of file systems.         *)
(*                                                                         *)
(* The argument: the search from the head for the entry before the last    *)
(* one starts before it and stops there, so umount_sys goes backwards      *)
(* through the list.  What lies in a mount comes after it in the list, so  *)
(* all of it has had its turn when umount_sys comes to the mount.          *)
(***************************************************************************)
EXTENDS SysProps, TLAPS

USE SysMountsAssumption

-----------------------------------------------------------------------------
(* The inductive invariant.                                                *)

LEMMA SysInvInit == SysInit => SysInv
BY DEF SysInit, SysInv, SysTypeOK, TurnsTaken, FsMounts

LEMMA SysTypeKept ==
  ASSUME SysInv, [SysNext]_sysVars
  PROVE  SysTypeOK'
<1> USE DEF SysInv, SysTypeOK, TurnsTaken, FsMounts, NextOf
<1>1. CASE MountEntry
  BY <1>1 DEF MountEntry
<1>2. CASE RunMdev
  BY <1>2 DEF RunMdev
<1>3. CASE \E e \in FsMounts : Use(e) \/ Release(e)
  BY <1>3 DEF Use, Release
<1>4. CASE BeginUmount
  BY <1>4 DEF BeginUmount
<1>5. CASE SeekLast
  BY <1>5 DEF SeekLast
<1>6. CASE UmountEntry
  BY <1>6 DEF UmountEntry
<1>7. CASE SearchPrevious
  BY <1>7 DEF SearchPrevious
<1>8. CASE UNCHANGED sysVars
  BY <1>8 DEF sysVars
<1> QED
  BY <1>1, <1>2, <1>3, <1>4, <1>5, <1>6, <1>7, <1>8 DEF SysNext

\* The reason for which an entry stays mounted holds after its turn, and does
\* not go away with the turns of the entries before it.
LEMMA UmountGivesReason ==
  ASSUME SysInv, UmountEntry, NEW e \in mounted', e >= iter
  PROVE  e \in refused' \/ Within(e)' # {}
<1> USE DEF SysInv, SysTypeOK, TurnsTaken, FsMounts
<1>1. iter \in 1..NMounts /\ Left(iter + 1..NMounts)
  BY DEF UmountEntry
<1>2. e \in mounted /\ e \in 1..NMounts
  BY DEF UmountEntry
<1>3. CASE e = iter
  <2>1. mounted' = mounted /\ refused' = refused \cup ({iter} \cap busy)
    BY <1>1, <1>3 DEF UmountEntry
  <2>2. iter \in busy \/ Within(iter) # {}
    BY <1>1, <1>2, <1>3, <2>1 DEF UmountEntry
  <2> QED
    BY <1>3, <2>1, <2>2 DEF Within
<1>4. CASE e # iter
  <2>1. e \in iter + 1..NMounts
    BY <1>1, <1>2, <1>4
  <2>2. e \in refused \/ Within(e) # {}
    BY <1>1, <1>2, <2>1 DEF Left
  <2>3. refused \subseteq refused'
    BY DEF UmountEntry
  <2>4. ASSUME NEW f \in Within(e) PROVE f \in mounted'
    <3>1. f \in 1..NMounts /\ e < f /\ f \in mounted
      BY <1>2, <2>4 DEF Within
    <3> QED
      BY <1>1, <2>1, <3>1 DEF UmountEntry
  <2> QED
    BY <2>2, <2>3, <2>4 DEF Within
<1> QED
  BY <1>3, <1>4

LEMMA SysTurnsKept ==
  ASSUME SysInv, [SysNext]_sysVars
  PROVE  TurnsTaken'
<1> USE DEF SysInv, SysTypeOK, TurnsTaken, FsMounts, NextOf
<1>1. CASE MountEntry
  BY <1>1 DEF MountEntry
<1>2. CASE RunMdev
  BY <1>2 DEF RunMdev
<1>3. CASE \E e \in FsMounts : Use(e) \/ Release(e)
  BY <1>3 DEF Use, Release, Left, Within
<1>4. CASE BeginUmount
  BY <1>4 DEF BeginUmount
<1>5. CASE SeekLast
  <2>1. CASE iter # 0
    BY <1>5, <2>1 DEF SeekLast
  <2>2. CASE iter = 0
    BY <1>5, <2>2 DEF SeekLast, Left
  <2> QED
    BY <2>1, <2>2
<1>6. CASE UmountEntry
  <2>1. \A e \in mounted' : e >= iter => e \in refused' \/ Within(e)' # {}
    BY <1>6, UmountGivesReason
  <2>2. iter \in 1..NMounts
    BY <1>6 DEF UmountEntry
  <2>3. CASE iter = 1
    <3>1. sysPc' = "done" /\ iter' = iter
      BY <1>6, <2>3 DEF UmountEntry, AtHead
    <3>2. Left(1..NMounts)'
      BY <2>1, <2>3 DEF Left
    <3> QED
      BY <3>1, <3>2
  <2>4. CASE iter # 1
    <3>1. sysPc' = "search" /\ prev' = iter /\ iter' = 1
      BY <1>6, <2>4 DEF UmountEntry, AtHead
    <3>2. Left(prev..NMounts)'
      BY <2>1, <2>2, <3>1 DEF Left
    <3> QED
      BY <2>2, <2>4, <3>1, <3>2
  <2> QED
    BY <2>3, <2>4
<1>7. CASE SearchPrevious
  <2>1. /\ iter \in 1..NMounts /\ prev \in 1..NMounts /\ iter < prev
        /\ Left(prev..NMounts)
        /\ UNCHANGED <<prev, mounted, refused>>
    BY <1>7 DEF SearchPrevious
  <2>2. Left(prev..NMounts)'
    BY <2>1 DEF Left, Within
  <2>3. NextOf(iter) = iter + 1
    BY <2>1
  <2>4. CASE iter + 1 = prev
    <3>1. sysPc' = "umount" /\ iter' = iter
      BY <1>7, <2>3, <2>4 DEF SearchPrevious, FoundPrevious
    <3>2. Left(iter + 1..NMounts)'
      BY <2>1, <2>2, <2>4, <3>1
    <3> QED
      BY <2>1, <3>1, <3>2
  <2>5. CASE iter + 1 # prev
    <3>1. sysPc' = "search" /\ iter' = iter + 1
      BY <1>7, <2>3, <2>5 DEF SearchPrevious, FoundPrevious
    <3> QED
      BY <2>1, <2>2, <2>5, <3>1
  <2> QED
    BY <2>4, <2>5
<1>8. CASE UNCHANGED sysVars
  BY <1>8 DEF sysVars, Left, Within
<1> QED
  BY <1>1, <1>2, <1>3, <1>4, <1>5, <1>6, <1>7, <1>8 DEF SysNext

\* The inductive invariant holds of every list and every failure.
THEOREM SysInvariant == SysSpec => []SysInv
<1>1. SysInv /\ [SysNext]_sysVars => SysInv'
  BY SysTypeKept, SysTurnsKept DEF SysInv
<1> QED
  BY SysInvInit, <1>1, PTL DEF SysSpec

\* The variables of mount_sys and umount_sys have their types.
THEOREM SysTypeCorrect == SysSpec => []SysTypeOK
<1>1. SysInv => SysTypeOK
  BY DEF SysInv
<1> QED
  BY SysInvariant, <1>1, PTL

\* What umount_sys leaves mounted was in use, or holds something that was.
THEOREM LeavesOnlyInUse == SysSpec => []LeftInUse
<1>1. SysInv => LeftInUse
  BY DEF SysInv, SysTypeOK, TurnsTaken, LeftInUse, Left
<1> QED
  BY SysInvariant, <1>1, PTL

-----------------------------------------------------------------------------
(* The view of the rest of init.                                           *)

LEMMA HeadInits == SysInit => SysHeadView!HeadInit
BY DEF SysInit, SysHeadView!HeadInit, HeadStage, HeadSysfs

\* The turn of /sys is the last one: with it the list is done.
LEMMA UmountIsTeardown ==
  ASSUME SysInv, UmountEntry
  PROVE  SysHeadView!Teardown \/ UNCHANGED <<HeadStage, HeadSysfs>>
<1> USE DEF SysInv, SysTypeOK, TurnsTaken, FsMounts
<1>1. sysPc = "umount" /\ iter \in 1..NMounts
  BY DEF UmountEntry
<1>2. HeadStage = "up" /\ HeadSysfs = (1 \in mounted)
  BY <1>1 DEF HeadStage, HeadSysfs
<1>3. CASE iter # 1
  <2>1. sysPc' = "search" /\ (1 \in mounted' <=> 1 \in mounted)
    BY <1>1, <1>3 DEF UmountEntry, AtHead
  <2> QED
    BY <1>1, <2>1 DEF HeadStage, HeadSysfs
<1>4. CASE iter = 1
  <2>1. sysPc' = "done"
    BY <1>1, <1>4 DEF UmountEntry, AtHead
  <2>2. CASE ret' = 0
    <3>1. 1 \in mounted /\ 1 \notin mounted'
      BY <1>4, <2>2 DEF UmountEntry
    <3>2. HeadStage' = "clean"
      BY <2>1, <2>2 DEF HeadStage
    <3>3. HeadSysfs /\ HeadSysfs' = FALSE
      BY <1>1, <2>1, <3>1 DEF HeadSysfs
    <3> QED
      BY <1>2, <3>2, <3>3 DEF SysHeadView!Teardown
  <2>3. CASE ret' # 0
    <3>1. mounted' = mounted
      BY <2>3 DEF UmountEntry
    <3>2. HeadStage' = "dirty"
      BY <2>1, <2>3 DEF HeadStage
    <3>3. HeadSysfs' = HeadSysfs
      BY <1>1, <2>1, <3>1 DEF HeadSysfs
    <3> QED
      BY <1>2, <3>2, <3>3 DEF SysHeadView!Teardown
  <2> QED
    BY <2>2, <2>3
<1> QED
  BY <1>3, <1>4

LEMMA SysStepIsHeadStep ==
  ASSUME SysInv, [SysNext]_sysVars
  PROVE  [SysHeadView!Setup \/ SysHeadView!Teardown]_<<HeadStage, HeadSysfs>>
<1> USE DEF HeadStage, HeadSysfs
<1>1. CASE MountEntry
  BY <1>1 DEF MountEntry
<1>2. CASE RunMdev
  BY <1>2 DEF RunMdev, SysHeadView!Setup
<1>3. CASE \E e \in FsMounts : Use(e) \/ Release(e)
  BY <1>3 DEF Use, Release
<1>4. CASE BeginUmount \/ SeekLast \/ SearchPrevious
  BY <1>4 DEF BeginUmount, SeekLast, SearchPrevious
<1>5. CASE UmountEntry
  BY <1>5, UmountIsTeardown
<1>6. CASE UNCHANGED sysVars
  BY <1>6 DEF sysVars
<1> QED
  BY <1>1, <1>2, <1>3, <1>4, <1>5, <1>6 DEF SysNext

\* The lists are walked so that the rest of init may think of their head only.
THEOREM SysImplementsHead == SysSpec => ImplementsHead
<1>1. SysInv /\ [SysNext]_sysVars
        => [SysHeadView!Setup \/ SysHeadView!Teardown]_<<HeadStage, HeadSysfs>>
  BY SysStepIsHeadStep
<1> QED
  BY HeadInits, SysInvariant, <1>1, PTL
  DEF SysSpec, ImplementsHead, SysHeadView!HeadSpec

=============================================================================
