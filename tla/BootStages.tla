----------------------------- MODULE BootStages -----------------------------
(***************************************************************************)
(* What one boot of the initrd promises: the host leaves the initrd        *)
(* unlocked, into the real init, or else it restarts; it is powered off    *)
(* only while locked, unless somebody could not read the order to shut     *)
(* down; and no ending is followed by another.                             *)
(***************************************************************************)
VARIABLES
  phase,  \* "locked", "unlocked", or how the boot ended
  blind   \* an order to shut down was not read by somebody who looked for it

StagesInit == phase = "locked" /\ blind = FALSE

Unlocks == phase = "locked" /\ phase' = "unlocked"
Boots == phase = "unlocked" /\ phase' = "booted"
PowersOff == (phase = "locked" \/ (blind /\ phase = "unlocked")) /\ phase' = "off"
GivesUp == phase \in {"locked", "unlocked"} /\ phase' \in {"restart", "panic"}
GoesBlind == phase \in {"locked", "unlocked"} /\ blind' = TRUE /\ UNCHANGED phase

StagesNext ==
  \/ (Unlocks \/ Boots \/ PowersOff \/ GivesUp) /\ UNCHANGED blind
  \/ GoesBlind

StagesSpec == StagesInit /\ [][StagesNext]_<<phase, blind>>
=============================================================================
