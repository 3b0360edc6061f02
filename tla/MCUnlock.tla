------------------------------ MODULE MCUnlock ------------------------------
(***************************************************************************)
(* Unlock on small instances: two volumes and one logical volume, the keys *)
(* of an operator who knows both passphrases, of one who knows only the    *)
(* first volume's, and the console password.                               *)
(***************************************************************************)
EXTENDS UnlockProps

CONSTANTS p1, s1, s2, kFull, kFirst, kConsole, rootLV

MCKeys == {kFull, kFirst, kConsole}
MCOpens == [k \in MCKeys |->
              CASE k = kFull -> Vols [] k = kFirst -> {1} [] OTHER -> {}]

\* crypt-root<dev>: the second volume's own name matches ".*-root", and so
\* does the logical volume's; only the latter holds a file system.
MCRootish == {2, rootLV}
MCMountable == {rootLV}
=============================================================================
