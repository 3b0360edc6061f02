------------------------------- MODULE Unlock -------------------------------
(***************************************************************************)
(* The passphrase challenge of init: prompt_decrypt (crysco.c) and what it *)
(* calls in mount.c (mount_decrypt, mount_probe_lvm, mount_probe_root).    *)
(*                                                                         *)
(* The challenge runs in several processes at once: in pid 1 on the        *)
(* console and in every /init that an ssh login execs (image/etc/profile). *)
(* They share nothing but the kernel: the device-mapper table, the LVM     *)
(* nodes and the mount table.  One action is one visible call to the       *)
(* kernel together with the straight-line code around it.                  *)
(***************************************************************************)
EXTENDS Integers, FiniteSets, Retval

CONSTANTS
  Procs,        \* the processes that may run the challenge
  Pid1,         \* the one of them that is init
  NumVols,      \* number of entries of luks_vols
  Keys,         \* the key strings somebody may type
  ConsolePw,    \* the key that is sys_console_pw
  Opens,        \* Opens[k]: the volumes whose LUKS header accepts key k
  LVs,          \* logical volumes inside the encrypted volumes
  Rootish,      \* mapper entries whose name matches ".*-root"
  Mountable,    \* mapper entries that hold one of the sys_fs_types
  NoDev,        \* no device
  NoKey,        \* no key buffer
  CONSOLE,      \* build flags
  BLKID,
  DirtyHeap,    \* what config_split_string_array leaves after the last entry
                \* of a list (it writes no NULL there): TRUE for garbage
  MaxAttempts   \* CONFIG_MAX_ATTEMPTS

Vols == 1..NumVols
MapperEntries == Vols \cup LVs
Remote == Procs \ {Pid1}

ASSUME ProcsAssumption == Pid1 \in Procs
ASSUME NumVolsAssumption == NumVols \in Nat \ {0}
ASSUME MaxAttemptsAssumption == MaxAttempts \in Nat \ {0}
ASSUME KeysAssumption ==
  /\ ConsolePw \in Keys
  /\ NoKey \notin Keys
  /\ Opens \in [Keys -> SUBSET Vols]
ASSUME DevicesAssumption ==
  /\ NoDev \notin MapperEntries
  /\ Rootish \subseteq MapperEntries
ASSUME FlagsAssumption == {CONSOLE, BLKID, DirtyHeap} \subseteq BOOLEAN

VARIABLES
  pc,       \* where each process is
  att,      \* i_key_attempts
  key,      \* pc_key_buffer
  vol,      \* ps_luks_vol_iter, as a position in the list
  ret,      \* i_retval of the last mount_decrypt / mount_probe_root
  disk,     \* what the backing device of each volume is; fixed after setup
  active,   \* volumes with an active dm-crypt mapping
  lvs,      \* logical volumes with a node in /dev/mapper
  rootfs    \* the mapper entry mounted on sys_mpoint_root, or NoDev

localVars  == <<pc, att, key, vol, ret>>
kernelVars == <<disk, active, lvs, rootfs>>
unlockVars == <<localVars, kernelVars>>

-----------------------------------------------------------------------------

UnlockInit ==
  /\ pc     = [p \in Procs |-> "idle"]
  /\ att    = [p \in Procs |-> 0]
  /\ key    = [p \in Procs |-> NoKey]
  /\ vol    = [p \in Procs |-> 1]
  /\ ret    = [p \in Procs |-> Success]
  /\ disk   \in [Vols -> {"luks", "foreign", "absent"}]
  /\ active = {}
  /\ lvs    = {}
  /\ rootfs = NoDev

\* prompt_decrypt is entered; CONFIG_MAX_ATTEMPTS > 0, so it prompts.
Begin(p) ==
  /\ pc[p] = "idle"
  /\ pc' = [pc EXCEPT ![p] = "prompt"]
  /\ UNCHANGED <<att, key, vol, ret, kernelVars>>

\* The loop condition fails after n attempts.
Exhausted(n) == n >= MaxAttempts

\* The test that ends the prompt loop early.
Breaks(r) ==
  \/ r = Success
  \/ "ROOT" \in r
  \/ "MAPPER" \in r
  \/ CONSOLE /\ r = {"CONSOLE_DONE"}

\* The end of one turn of the prompt loop with i_retval r: the key buffer is
\* freed, and the loop breaks, counts a failed attempt or is exhausted.
EndTurn(p, r) ==
  /\ ret' = [ret EXCEPT ![p] = r]
  /\ key' = [key EXCEPT ![p] = NoKey]
  /\ vol' = [vol EXCEPT ![p] = 1]
  /\ att' = [att EXCEPT ![p] = IF Breaks(r) THEN @ ELSE @ + 1]
  /\ pc'  = [pc EXCEPT ![p] = IF Breaks(r) \/ Exhausted(att[p] + 1)
                                THEN "returned" ELSE "prompt"]

\* console_prompt_string returns k and mount_decrypt begins: the console
\* password starts a shell, any other key goes to the first volume.
EnterKey(p, k) ==
  /\ pc[p] = "prompt"
  /\ key' = [key EXCEPT ![p] = k]
  /\ pc'  = [pc EXCEPT ![p] = IF CONSOLE /\ k = ConsolePw THEN "shell"
                                                          ELSE "probe"]
  /\ UNCHANGED <<att, vol, ret, kernelVars>>

\* The shell exits with status 0 (any other status respawns it).
ShellExit(p) ==
  /\ pc[p] = "shell"
  /\ EndTurn(p, {"CONSOLE_DONE"})
  /\ UNCHANGED kernelVars

\* The outcome of looking for volume v and opening its LUKS header: crypt_init
\* fails without the device, crypt_load without a header; a BLKID build that
\* finds no device of that UUID goes on with the same volume.
\* (MUTANT: every build does.)
HeaderAgain(v) == CASE disk[v] = "luks"   -> "loaded"
                    [] disk[v] = "absent" -> "again"
                    [] OTHER              -> "failed"
Header(v) == CASE disk[v] = "luks"            -> "loaded"
               [] disk[v] = "absent" /\ BLKID -> "again"
               [] OTHER                       -> "failed"

\* One turn of the loop of mount_decrypt, up to crypt_activate_by_passphrase.
Probe(p) ==
  /\ pc[p] = "probe"
  /\ UNCHANGED kernelVars
  /\ \/ /\ Header(vol[p]) = "loaded"
        /\ pc' = [pc EXCEPT ![p] = "activate"]
        /\ UNCHANGED <<att, key, vol, ret>>
     \/ Header(vol[p]) = "failed" /\ EndTurn(p, {"DECRYPT"})
     \/ Header(vol[p]) = "again" /\ UNCHANGED localVars

\* crypt_activate_by_passphrase creates the mapping of volume v, unless one of
\* that name exists (whoever made it) or key k does not fit.
\* (MUTANTS: the mapping is made again; an existing one is taken for success.)
ActivatesAgain(v, k) == v \in Opens[k]
ActivatesEither(v, k) == v \in active \/ v \in Opens[k]
Activates(v, k) == v \notin active /\ v \in Opens[k]

\* The rest of the turn: on success the loop goes on to the next volume.
Activate(p) ==
  /\ pc[p] = "activate"
  /\ UNCHANGED <<disk, lvs, rootfs>>
  /\ \/ /\ Activates(vol[p], key[p])
        /\ active' = active \cup {vol[p]}
        /\ vol' = [vol EXCEPT ![p] = @ + 1]
        /\ pc'  = [pc EXCEPT ![p] = IF vol[p] = NumVols THEN "lvm" ELSE "probe"]
        /\ UNCHANGED <<att, key, ret>>
     \/ /\ ~Activates(vol[p], key[p])
        /\ EndTurn(p, {"DECRYPT"})
        /\ UNCHANGED active

\* mount_probe_lvm: vgscan, then vgchange.  prompt_decrypt drops its result,
\* so a scan that failed is one that made fewer nodes.
ProbeLvm(p) ==
  /\ pc[p] = "lvm"
  /\ \E found \in SUBSET LVs : lvs' = lvs \cup found
  /\ pc' = [pc EXCEPT ![p] = "root"]
  /\ UNCHANGED <<att, key, vol, ret, disk, active, rootfs>>

\* The entries of /dev/mapper that mount_probe_root may pick: it takes the
\* first match of a readdir, in whatever order that returns them.
RootCandidates == (active \cup lvs) \cap Rootish

\* mount(2) of one candidate with each of sys_fs_types in turn.
MountSucceeds(dev) == dev \in Mountable /\ rootfs # dev

\* What mount_probe_root returns when it has no root, or none that mounts.
\* (MUTANT: the last i_retval, an initial 0 when nothing was tried.)
RootUnset == Success
RootFailed == {"ROOT"}

\* mount_probe_root.
ProbeRoot(p) ==
  /\ pc[p] = "root"
  /\ UNCHANGED <<disk, active, lvs>>
  /\ \/ \E dev \in RootCandidates :
          \/ MountSucceeds(dev) /\ rootfs' = dev /\ EndTurn(p, Success)
          \/ ~MountSucceeds(dev) /\ UNCHANGED rootfs /\ EndTurn(p, RootFailed)
     \/ /\ RootCandidates = {}
        /\ EndTurn(p, RootFailed)
        /\ UNCHANGED rootfs
     \/ \* regcomp or opendir failed.
        /\ \E r \in {{"REGEX"}, {"MAPPER"}} : EndTurn(p, r)
        /\ UNCHANGED rootfs
     \/ \* No type mounts, and the loop over sys_fs_types runs off its end.
        /\ DirtyHeap
        /\ \E dev \in RootCandidates : ~MountSucceeds(dev)
        /\ pc' = [pc EXCEPT ![p] = "crashed"]
        /\ UNCHANGED <<att, key, vol, ret, rootfs>>

\* A process that is gone; the record of its locals is reset.
Vanish(p) ==
  /\ pc'  = [pc  EXCEPT ![p] = "idle"]
  /\ att' = [att EXCEPT ![p] = 0]
  /\ key' = [key EXCEPT ![p] = NoKey]
  /\ vol' = [vol EXCEPT ![p] = 1]
  /\ ret' = [ret EXCEPT ![p] = Success]
  /\ UNCHANGED kernelVars

\* prompt_decrypt has returned in a sub-prompt and the process exits, or it
\* was killed by a fault of its own.
Leave(p) ==
  /\ p \in Remote
  /\ pc[p] \in {"returned", "crashed"}
  /\ Vanish(p)

\* The ssh session drops: its SIGHUP, which init does not handle, kills the
\* sub-prompt wherever it is.
Hangup(p) ==
  /\ p \in Remote
  /\ pc[p] # "idle"
  /\ Vanish(p)

-----------------------------------------------------------------------------

\* The steps the machine takes by itself, as opposed to an operator's.
Work(p) == Probe(p) \/ Activate(p) \/ ProbeLvm(p) \/ ProbeRoot(p)

\* The steps inside prompt_decrypt.
Challenge(p) ==
  \/ \E k \in Keys : EnterKey(p, k)
  \/ ShellExit(p)
  \/ Work(p)

UnlockStep(p) == Begin(p) \/ Challenge(p) \/ Leave(p) \/ Hangup(p)

UnlockNext == \E p \in Procs : UnlockStep(p)

UnlockSafety == UnlockInit /\ [][UnlockNext]_unlockVars

UnlockFairness == \A p \in Procs : WF_unlockVars(Work(p))

UnlockSpec == UnlockSafety /\ UnlockFairness

-----------------------------------------------------------------------------

Places == {"idle", "prompt", "shell", "probe", "activate", "lvm", "root",
           "returned", "crashed"}

\* The type invariant of the challenge.
UnlockTypeOK ==
  /\ pc     \in [Procs -> Places]
  /\ att    \in [Procs -> 0..MaxAttempts]
  /\ key    \in [Procs -> Keys \cup {NoKey}]
  /\ vol    \in [Procs -> 1..(NumVols + 1)]
  /\ ret    \in [Procs -> Retvals]
  /\ disk   \in [Vols -> {"luks", "foreign", "absent"}]
  /\ active \in SUBSET Vols
  /\ lvs    \in SUBSET LVs
  /\ rootfs \in MapperEntries \cup {NoDev}

\* p has unlocked the host: every volume has accepted its key, and it is on
\* its way to mounting the root or has done so.
Succeeded(p) == pc[p] = "returned" /\ ret[p] = Success
Winner(p) == pc[p] \in {"lvm", "root"} \/ Succeeded(p)

\* The volumes that p's current call of mount_decrypt has activated.
Held(p) ==
  IF pc[p] \in {"probe", "activate"} THEN 1..(vol[p] - 1)
  ELSE IF Winner(p) THEN Vols ELSE {}

\* Some volume is open but no process is on its way with it: whoever opened
\* it failed at a later volume, failed to mount the root, or was hung up.
Stranded == active # {} /\ \A p \in Procs : Held(p) = {}
=============================================================================
