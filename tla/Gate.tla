-------------------------------- MODULE Gate --------------------------------
(***************************************************************************)
(* What the challenge promises, without program counters, keys or error    *)
(* codes: the encrypted volumes are a gate that is opened volume by        *)
(* volume, in order, by one process.  The first process to open a volume   *)
(* holds the gate; when it lets go, nobody can hold it again before the    *)
(* next boot; only the holder of the fully open gate mounts the root.      *)
(***************************************************************************)
EXTENDS Integers

CONSTANTS Openers, NumVols, RootDevs, NoDev

VARIABLES
  opened,   \* the volumes that are open
  holder,   \* the process that holds the gate: a set of at most one
  mounted   \* the device mounted as the root, or NoDev

gateVars == <<opened, holder, mounted>>

GateInit ==
  /\ opened  = {}
  /\ holder  = {}
  /\ mounted = NoDev

Take(p) ==
  /\ opened = {}
  /\ opened' = {1}
  /\ holder' = {p}
  /\ UNCHANGED mounted

Extend(v) ==
  /\ holder # {}
  /\ opened = 1..(v - 1)
  /\ opened' = 1..v
  /\ UNCHANGED <<holder, mounted>>

MountRoot ==
  /\ holder # {}
  /\ opened = 1..NumVols
  /\ mounted = NoDev
  /\ mounted' \in RootDevs
  /\ UNCHANGED <<opened, holder>>

LetGo ==
  /\ holder' = {}
  /\ UNCHANGED <<opened, mounted>>

GateNext ==
  \/ \E p \in Openers : Take(p)
  \/ \E v \in 2..NumVols : Extend(v)
  \/ MountRoot
  \/ LetGo

GateSpec == GateInit /\ [][GateNext]_gateVars
=============================================================================
