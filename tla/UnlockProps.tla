---------------------------- MODULE UnlockProps -----------------------------
(***************************************************************************)
(* The properties of the challenge, and the abstract gate it implements.   *)
(***************************************************************************)
EXTENDS Unlock

\* Volumes are opened in the order of luks_vols: the open ones are always the
\* first n of the list (mount_decrypt stops at the first volume that fails).
OpenPrefix == \E n \in 0..NumVols : active = 1..n

\* At most one process ever stands past mount_decrypt, so at most one goes on
\* to mount the root and to end the boot, however the prompts interleave.
OneWinner == \A p, q \in Procs : Winner(p) /\ Winner(q) => p = q

\* prompt_decrypt returns 0 only when every volume is open and a root file
\* system is mounted (its callers take 0 as the order to leave the initrd).
SuccessMeansMounted ==
  \A p \in Procs : Succeeded(p) => active = Vols /\ rootfs # NoDev

\* Whoever goes on to mount the root has typed a key that every volume accepts:
\* nothing lets two operators, or two attempts, contribute a volume each.
OneKeyOpensAll ==
  \A p \in Procs : pc[p] \in {"lvm", "root"} => Opens[key[p]] = Vols

\* Once a volume was opened and its opener gave up or went away, no later
\* attempt of anybody opens another volume or mounts the root: the existing
\* mapping makes crypt_activate_by_passphrase fail at the first volume.
StrandedForever ==
  [][Stranded => Stranded' /\ UNCHANGED <<active, rootfs>>]_unlockVars

\* Every key that is entered gets its verdict: mount_decrypt and the probes
\* after it come back.  (Not in a BLKID build: see the run that shows it.)
Working(p) == pc[p] \in {"probe", "activate", "lvm", "root"}
EveryKeyAnswered == \A p \in Procs : Working(p) ~> ~Working(p)

\* The steps p has to take at most before the verdict: two for each volume that
\* is to come, one for LVM, one for the root.
StepsLeft(p) ==
  CASE pc[p] = "probe"    -> 2 * (NumVols - vol[p]) + 4
    [] pc[p] = "activate" -> 2 * (NumVols - vol[p]) + 3
    [] pc[p] = "lvm"      -> 2
    [] pc[p] = "root"     -> 1
    [] OTHER              -> 0

\* A BLKID build looks for a missing device again.
Waits(p) == pc[p] = "probe" /\ Header(vol[p]) = "again"

\* What makes every key answered, but for fairness: each step of the machine for
\* a key takes it closer to its verdict, unless it waits for a device, and no
\* step of another process takes it back.
KeyAdvances ==
  [][\A p \in Procs :
       /\ Work(p) /\ ~Waits(p) => StepsLeft(p)' < StepsLeft(p)
       /\ Working(p) => \/ StepsLeft(p)' < StepsLeft(p)
                        \/ UNCHANGED <<pc[p], att[p], key[p], vol[p], ret[p]>>]_unlockVars

-----------------------------------------------------------------------------

\* The gate behind the challenge.
Holder == {p \in Procs : Held(p) # {}}

G == INSTANCE Gate WITH
       Openers <- Procs, RootDevs <- MapperEntries,
       opened <- active, holder <- Holder, mounted <- rootfs

\* The challenge implements the gate.
ImplementsGate == G!GateSpec
-----------------------------------------------------------------------------

\* The inductive invariant behind the safety properties, in named parts.

\* Only a prompt_decrypt that has returned has used up its attempts.
AttemptsLeft == \A p \in Procs : pc[p] # "returned" => att[p] < MaxAttempts

\* A process that is not inside mount_decrypt starts at the first volume.
VolPlaced ==
  \A p \in Procs :
    /\ pc[p] \in {"idle", "prompt", "shell"} => vol[p] = 1
    /\ pc[p] \in {"probe", "activate"} => vol[p] \in Vols

\* What a process holds is all that is open, so two cannot both hold some.
HeldIsActive ==
  /\ \A p \in Procs : Held(p) # {} => active = Held(p)
  /\ \A p, q \in Procs : Held(p) # {} /\ Held(q) # {} => p = q

\* What a process holds has accepted the key in its buffer.
HeldByKey ==
  \A p \in Procs : Working(p) => key[p] \in Keys /\ Held(p) \subseteq Opens[key[p]]

\* The root is mounted by the process that opened all volumes, after that.
MountedLast ==
  /\ rootfs # NoDev => active = Vols
  /\ \A p \in Procs : pc[p] \in {"lvm", "root"} => rootfs = NoDev
  /\ \A p \in Procs : Succeeded(p) => rootfs # NoDev

\* All the parts: an invariant that every step of every process preserves.
UnlockInv ==
  /\ UnlockTypeOK
  /\ AttemptsLeft
  /\ OpenPrefix
  /\ VolPlaced
  /\ HeldIsActive
  /\ HeldByKey
  /\ MountedLast
=============================================================================
