------------------------------- MODULE MCBoot -------------------------------
(***************************************************************************)
(* Boot on a small instance: pid 1, one ssh session and the child that may *)
(* be left over from starting tor; two volumes, one of them the root.      *)
(***************************************************************************)
EXTENDS BootProps

CONSTANTS p1, s1, child, kFull, kFirst

MCKeys == {kFull, kFirst}
MCOpens == [k \in MCKeys |-> IF k = kFull THEN Vols ELSE {1}]
=============================================================================
