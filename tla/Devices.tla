------------------------------ MODULE Devices ------------------------------
(***************************************************************************)
(* Finding block devices by their UUID in a BLKID build (mount.c):         *)
(* mount_probe_uuid_blk, which scans /dev, and its two users: mount_mds,   *)
(* which assembles the arrays of the host, and the loop of mount_decrypt   *)
(* over the encrypted volumes, which may lie on those arrays.              *)
(*                                                                         *)
(* Other entries of /dev than block devices are passed over and left out.  *)
(* mdadm, blkid and dm-crypt are external; what they may do is what their  *)
(* callers can see of them.                                                *)
(***************************************************************************)
EXTENDS Integers, Sequences, FiniteSets

CONSTANTS
  Disks,        \* the block devices that mdev finds
  Arrays,       \* md_arrays: the UUID of each array's members, in order
  Md,           \* the device that each array becomes
  Volumes,      \* luks_vols: the UUIDs of the volumes, in order
  MaxAttempts,  \* CONFIG_MAX_ATTEMPTS
  MaxFds,       \* directories the process can open before it runs out
  None          \* NULL; for a device: it has no UUID

Elems(s) == {s[i] : i \in 1..Len(s)}
Devs  == Disks \cup Elems(Md)
Uuids == Elems(Arrays) \cup Elems(Volumes)

ASSUME DevicesAssumption ==
  /\ IsFiniteSet(Disks)
  /\ Arrays \in Seq(Uuids) /\ Volumes \in Seq(Uuids)
  /\ Md \in Seq(Elems(Md)) /\ Len(Md) = Len(Arrays)
  /\ None \notin Uuids /\ None \notin Devs
  /\ MaxAttempts \in Nat \ {0} /\ MaxFds \in Nat

VARIABLES
  uuid,      \* what a probe finds on each device; fixed
  readable,  \* the devices that can be probed; fixed
  devs,      \* the block devices in /dev
  job,       \* "mds", "vols", or how this ended
  k,         \* the array or the volume that is looked at
  phase,     \* "key", "next", "scan" or "use"
  dir,       \* ps_dir: /dev could be opened
  unread,    \* entries that readdir has yet to return
  ptr,       \* pc_uuid_iter: NULL, or the device whose probe it points into
  list,      \* ppc_blk_list_out, without the NULL behind it
  fds,       \* directories that were opened and never closed
  tries,     \* keys that were tried
  assembled  \* the arrays that mdadm has started

fixedVars == <<uuid, readable>>
scanVars  == <<dir, unread, ptr, list, fds>>
jobVars   == <<devs, job, k, tries, assembled>>
devicesVars == <<fixedVars, scanVars, jobVars, phase>>

DevicesInit ==
  /\ uuid \in [Devs -> Uuids \cup {None}]
  /\ readable \in {r \in SUBSET Devs : Elems(Md) \subseteq r}
  /\ devs = Disks
  /\ job = "mds" /\ k = 1 /\ phase = "next"
  /\ dir = FALSE /\ unread = {} /\ ptr = None /\ list = << >>
  /\ fds = 0 /\ tries = 0 /\ assembled = {}

Wanted == IF job = "mds" THEN Arrays[k] ELSE Volumes[k]
Listed == IF job = "mds" THEN Arrays ELSE Volumes

-----------------------------------------------------------------------------
(* mount_probe_uuid_blk.                                                   *)

\* The scan of /dev begins with nothing found and no UUID read.  The
\* directory that it opens is never closed: when no descriptor is left, there
\* is nothing to read.
\* (MUTANT: it is opened twice.)
OpenTwice ==
  /\ dir' = (fds + 1 < MaxFds)
  /\ fds' = IF dir' THEN fds + 2 ELSE fds
  /\ unread' = IF dir' THEN devs ELSE {}
OpenDev ==
  /\ dir' = (fds < MaxFds)
  /\ fds' = IF dir' THEN fds + 1 ELSE fds
  /\ unread' = IF dir' THEN devs ELSE {}

\* (MUTANT: the pointer of the last scan is kept.)
KeepPointer == UNCHANGED ptr
ResetPointer == ptr' = None

Scan ==
  /\ job \in {"mds", "vols"} /\ phase = "next" /\ k <= Len(Listed)
  /\ phase' = "scan"
  /\ OpenDev
  /\ ResetPointer
  /\ list' = << >>
  /\ UNCHANGED <<fixedVars, jobVars>>

\* A device without a UUID leaves the pointer where it was, in the probe of
\* another device.
Looked(d) == IF uuid[d] # None THEN d ELSE ptr

\* What the pointer says of the wanted UUID.  A probe that was freed may still
\* hold its UUID or have been overwritten by something else.
Says(p, d) ==
  IF p = None THEN {FALSE}
  ELSE IF p = d THEN {uuid[p] = Wanted}
  ELSE {uuid[p] = Wanted, FALSE}

\* One entry of /dev.
Probe ==
  /\ phase = "scan"
  /\ \E d \in unread :
       /\ unread' = unread \ {d}
       /\ ptr' = IF d \in readable THEN Looked(d) ELSE ptr
       /\ \E match \in IF d \in readable THEN Says(ptr', d) ELSE {FALSE} :
            list' = IF match THEN Append(list, d) ELSE list
  /\ UNCHANGED <<fixedVars, jobVars, phase, dir, fds>>

Found ==
  /\ phase = "scan" /\ unread = {}
  /\ phase' = "use"
  /\ UNCHANGED <<fixedVars, jobVars, scanVars>>

-----------------------------------------------------------------------------
(* mount_mds.                                                              *)

\* mdadm is given the first two slots of the list, found or not.  It starts
\* an array of which it is given one member or two, and it refuses a device
\* that is none.
Member(d) == uuid[d] = Arrays[k]
MayAssemble ==
  /\ list # << >>
  /\ \A i \in 1..Len(list) : i <= 2 => Member(list[i])

Assemble ==
  /\ job = "mds" /\ phase = "use"
  /\ MayAssemble
  /\ assembled' = assembled \cup {k}
  /\ devs' = devs \cup {Md[k]}
  /\ k' = k + 1
  /\ phase' = "next"
  /\ UNCHANGED <<fixedVars, scanVars, job, tries>>

\* "There was a problem": the loop ends, and the result is 0 as before.
\* (MUTANT: it goes on.)
AssembleFailsOn ==
  /\ job = "mds" /\ phase = "use"
  /\ k' = k + 1
  /\ phase' = "next"
  /\ UNCHANGED <<fixedVars, scanVars, job, devs, tries, assembled>>
AssembleFails ==
  /\ job = "mds" /\ phase = "use"
  /\ job' = "vols" /\ k' = 1
  /\ phase' = "key"
  /\ UNCHANGED <<fixedVars, scanVars, devs, tries, assembled>>

\* A list without a device has one slot, its NULL; the second is read anyway.
BeyondList ==
  /\ job = "mds" /\ phase = "use" /\ list = << >>
  /\ job' = "crashed"
  /\ phase' = "next"
  /\ UNCHANGED <<fixedVars, scanVars, devs, k, tries, assembled>>

ArraysDone ==
  /\ job = "mds" /\ phase = "next" /\ k > Len(Arrays)
  /\ job' = "vols" /\ k' = 1
  /\ phase' = "key"
  /\ UNCHANGED <<fixedVars, scanVars, devs, tries, assembled>>

-----------------------------------------------------------------------------
(* The loop of mount_decrypt, in the loop of prompt_decrypt.               *)

\* console_prompt_string returns: the operator typed a key, or there is no
\* more to type.
TypeKey ==
  /\ job = "vols" /\ phase = "key"
  /\ phase' = "next"
  /\ UNCHANGED <<fixedVars, scanVars, jobVars>>

\* No device: "continue", with the same volume.
TryAgain ==
  /\ job = "vols" /\ phase = "use" /\ list = << >>
  /\ phase' = "next"
  /\ UNCHANGED <<fixedVars, scanVars, jobVars>>

\* The first device is opened, if it is the volume and the key is right.
Opens ==
  /\ job = "vols" /\ phase = "use" /\ list # << >>
  /\ uuid[list[1]] = Volumes[k]
  /\ k' = k + 1
  /\ phase' = "next"
  /\ UNCHANGED <<fixedVars, scanVars, devs, job, tries, assembled>>

\* ... or it is not, and the operator is asked for another key or not.
KeyFails ==
  /\ job = "vols" /\ phase = "use" /\ list # << >>
  /\ tries' = tries + 1
  /\ job' = IF tries' < MaxAttempts THEN "vols" ELSE "failed"
  /\ k' = 1
  /\ phase' = IF job' = "vols" THEN "key" ELSE "next"
  /\ UNCHANGED <<fixedVars, scanVars, devs, assembled>>

VolumesDone ==
  /\ job = "vols" /\ phase = "next" /\ k > Len(Volumes)
  /\ job' = "open"
  /\ UNCHANGED <<fixedVars, scanVars, devs, k, phase, tries, assembled>>

-----------------------------------------------------------------------------

ScanStep == Scan \/ Probe \/ Found
MdsStep  == Assemble \/ AssembleFails \/ BeyondList \/ ArraysDone
VolStep  == TryAgain \/ Opens \/ KeyFails \/ VolumesDone
DevicesStep == ScanStep \/ MdsStep \/ VolStep
DevicesNext == DevicesStep \/ TypeKey

\* The program goes on; nothing makes the operator type.
DevicesSafety == DevicesInit /\ [][DevicesNext]_devicesVars
DevicesSpec == DevicesSafety /\ WF_devicesVars(DevicesStep)

=============================================================================
