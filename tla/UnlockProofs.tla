---------------------------- MODULE UnlockProofs ----------------------------
(***************************************************************************)
(* Proofs about the challenge, for any set of processes, any number of     *)
(* volumes, any keys and any build flags.                                  *)
(*                                                                         *)
(* The argument: to the kernel state a step is one of four things (lemma   *)
(* StepEffect), and UnlockInv, the inductive invariant of UnlockProps,     *)
(* survives each of the four.                                              *)
(***************************************************************************)
EXTENDS UnlockProps, TLAPS

USE ProcsAssumption, NumVolsAssumption, MaxAttemptsAssumption,
    KeysAssumption, DevicesAssumption, FlagsAssumption

-----------------------------------------------------------------------------
(* Type correctness.  The types alone are not inductive: that the attempts *)
(* and the volume stay in bounds rests on AttemptsLeft and VolPlaced.      *)

TypeInv == UnlockTypeOK /\ AttemptsLeft /\ VolPlaced

\* The end of a turn with any return value respects the types.
LEMMA EndTurnType ==
  ASSUME NEW p \in Procs, NEW r \in Retvals, TypeInv,
         pc[p] # "returned", EndTurn(p, r), UNCHANGED <<disk, active, lvs>>,
         rootfs' \in MapperEntries \cup {NoDev}
  PROVE  TypeInv'
<1> USE DEF TypeInv, UnlockTypeOK, AttemptsLeft, EndTurn, Exhausted, VolPlaced, Vols
<1>1. att[p] \in 0..(MaxAttempts - 1)
  OBVIOUS
<1>2. att' \in [Procs -> 0..MaxAttempts]
  BY <1>1
<1>3. pc' \in [Procs -> Places]
  BY DEF Places
<1>4. AttemptsLeft'
  BY <1>1, <1>2, <1>3
<1>5. vol' \in [Procs -> 1..(NumVols + 1)]
  OBVIOUS
<1>6. VolPlaced'
  BY <1>3, <1>5
<1> QED
  BY <1>2, <1>3, <1>4, <1>5, <1>6

\* A process that vanishes leaves well-typed locals.
LEMMA VanishType ==
  ASSUME NEW p \in Procs, TypeInv, Vanish(p)
  PROVE  TypeInv'
<1> USE DEF TypeInv, UnlockTypeOK, AttemptsLeft, VolPlaced, Vanish, kernelVars
<1>1. pc' \in [Procs -> Places] /\ att' \in [Procs -> 0..MaxAttempts]
  BY DEF Places
<1>2. AttemptsLeft'
  BY <1>1
<1>3. vol' \in [Procs -> 1..(NumVols + 1)] /\ ret' \in [Procs -> Retvals]
  BY DEF Success, Retvals
<1>4. VolPlaced'
  BY <1>1, <1>3
<1> QED
  BY <1>1, <1>2, <1>3, <1>4

\* A step that only moves p on, short of returning, respects the types.
LEMMA MoveType ==
  ASSUME NEW p \in Procs, NEW place \in Places \ {"returned"}, TypeInv,
         pc[p] # "returned", pc' = [pc EXCEPT ![p] = place],
         UNCHANGED <<att, ret, disk, rootfs>>,
         key' \in [Procs -> Keys \cup {NoKey}],
         vol' \in [Procs -> 1..(NumVols + 1)],
         \A q \in Procs \ {p} : vol'[q] = vol[q],
         place \in {"idle", "prompt", "shell"} => vol'[p] = 1,
         place \in {"probe", "activate"} => vol'[p] \in Vols,
         active' \subseteq Vols, lvs' \subseteq LVs
  PROVE  TypeInv'
<1> USE DEF TypeInv, UnlockTypeOK, AttemptsLeft, VolPlaced
<1>1. pc' \in [Procs -> Places]
  OBVIOUS
<1>2. AttemptsLeft' /\ VolPlaced'
  BY <1>1
<1> QED
  BY <1>1, <1>2

\* One step of one process respects the types.
LEMMA StepType ==
  ASSUME NEW p \in Procs, TypeInv, UnlockStep(p)
  PROVE  TypeInv'
<1> USE DEF localVars, kernelVars
<1>a. VolPlaced /\ 1 \in Vols
  BY DEF TypeInv, Vols
<1>0. /\ {"idle", "prompt", "shell", "probe", "activate", "lvm", "root", "crashed"}
           \subseteq Places \ {"returned"}
      /\ {{"CONSOLE_DONE"}, {"DECRYPT"}, {"ROOT"}, {"REGEX"}, {"MAPPER"}, Success}
           \subseteq Retvals
      /\ key \in [Procs -> Keys \cup {NoKey}]
      /\ vol \in [Procs -> 1..(NumVols + 1)]
      /\ active \subseteq Vols /\ lvs \subseteq LVs
      /\ rootfs \in MapperEntries \cup {NoDev}
  BY DEF Places, Retvals, RetvalFlags, Success, TypeInv, UnlockTypeOK
<1>1. CASE Begin(p)
  BY <1>0, <1>a, <1>1, MoveType DEF Begin, VolPlaced
<1>2. ASSUME NEW k \in Keys, EnterKey(p, k) PROVE TypeInv'
  BY <1>0, <1>a, <1>2, MoveType DEF EnterKey, VolPlaced
<1>3. CASE ShellExit(p)
  BY <1>0, <1>3, EndTurnType DEF ShellExit
<1>4. CASE Probe(p)
  <2>1. CASE pc' = [pc EXCEPT ![p] = "activate"] /\ UNCHANGED <<att, key, vol, ret>>
    BY <1>0, <1>a, <1>4, <2>1, MoveType DEF Probe, VolPlaced
  <2>2. CASE EndTurn(p, {"DECRYPT"})
    BY <1>0, <1>4, <2>2, EndTurnType DEF Probe
  <2>3. CASE UNCHANGED localVars
    BY <1>4, <2>3 DEF Probe, TypeInv, UnlockTypeOK, AttemptsLeft, VolPlaced
  <2> QED
    BY <1>4, <2>1, <2>2, <2>3 DEF Probe
<1>5. CASE Activate(p)
  <2>1. CASE EndTurn(p, {"DECRYPT"}) /\ UNCHANGED active
    BY <1>0, <1>5, <2>1, EndTurnType DEF Activate, Activates
  <2>2. CASE ~(EndTurn(p, {"DECRYPT"}) /\ UNCHANGED active)
    <3>1. vol[p] \in Vols
      BY <1>a, <1>5 DEF Activate, Activates, VolPlaced
    <3>2. /\ vol' = [vol EXCEPT ![p] = vol[p] + 1]
          /\ active' = active \cup {vol[p]}
      BY <1>5, <2>2 DEF Activate, Activates
    <3>3. /\ vol' \in [Procs -> 1..(NumVols + 1)]
          /\ \A q \in Procs \ {p} : vol'[q] = vol[q]
          /\ vol'[p] = vol[p] + 1
          /\ active' \subseteq Vols
      <4>1. vol[p] + 1 \in 1..(NumVols + 1)
        BY <3>1 DEF Vols
      <4>2. active' \subseteq Vols
        BY <1>0, <3>1, <3>2
      <4> QED
        BY <1>0, <3>2, <4>1, <4>2
    <3>4. PICK place \in {"lvm", "probe"} :
            /\ pc' = [pc EXCEPT ![p] = place]
            /\ place = "probe" => vol[p] # NumVols
      BY <1>5, <2>2 DEF Activate, Activates
    <3>5. place = "probe" => vol'[p] \in Vols
      BY <3>1, <3>3, <3>4 DEF Vols
    <3> QED
      BY <1>0, <1>5, <2>2, <3>3, <3>4, <3>5, MoveType DEF Activate, Activates
  <2> QED
    BY <2>1, <2>2
<1>6. CASE ProbeLvm(p)
  <2>1. lvs' \subseteq LVs
    BY <1>0, <1>6 DEF ProbeLvm
  <2> QED
    BY <1>0, <1>6, <2>1, MoveType DEF ProbeLvm
<1>7. CASE ProbeRoot(p)
  <2>1. RootCandidates \subseteq MapperEntries
    BY <1>0 DEF RootCandidates, MapperEntries
  <2>2. CASE /\ rootfs' \in MapperEntries \cup {NoDev}
             /\ \E r \in {{"ROOT"}, {"REGEX"}, {"MAPPER"}, Success} : EndTurn(p, r)
    BY <1>0, <1>7, <2>2, EndTurnType DEF ProbeRoot, RootFailed
  <2>3. CASE pc' = [pc EXCEPT ![p] = "crashed"] /\ UNCHANGED <<att, key, vol, ret, rootfs>>
    BY <1>0, <1>7, <2>3, MoveType DEF ProbeRoot, RootFailed
  <2> QED
    BY <1>0, <1>7, <2>1, <2>2, <2>3 DEF ProbeRoot, RootFailed
<1>8. CASE Leave(p) \/ Hangup(p)
  BY <1>8, VanishType DEF Leave, Hangup
<1> QED
  BY <1>1, <1>2, <1>3, <1>4, <1>5, <1>6, <1>7, <1>8
  DEF UnlockStep, Challenge, Work

\* The initial states are well typed.
LEMMA InitType == UnlockInit => TypeInv
BY DEF UnlockInit, TypeInv, UnlockTypeOK, AttemptsLeft, VolPlaced, Places, Success, Retvals, Vols

\* Type correctness: every state the challenge reaches has the types of
\* UnlockTypeOK; i_key_attempts in particular never passes CONFIG_MAX_ATTEMPTS.
THEOREM TypeCorrect == UnlockSafety => []UnlockTypeOK
<1>1. TypeInv /\ [UnlockNext]_unlockVars => TypeInv'
  <2>1. TypeInv /\ UNCHANGED unlockVars => TypeInv'
    BY DEF TypeInv, UnlockTypeOK, AttemptsLeft, VolPlaced, unlockVars, localVars, kernelVars
  <2> QED
    BY <2>1, StepType DEF UnlockNext
<1>2. TypeInv => UnlockTypeOK
  BY DEF TypeInv
<1> QED
  BY InitType, <1>1, <1>2, PTL DEF UnlockSafety

-----------------------------------------------------------------------------
(* What a step of p is to the rest of the system.                          *)

\* The processes other than p keep their locals.
OthersRest(p) ==
  \A q \in Procs \ {p} :
    pc'[q] = pc[q] /\ key'[q] = key[q] /\ vol'[q] = vol[q] /\ ret'[q] = ret[q]

\* p goes on, holding what it held.
KeepsHold(p) ==
  /\ UNCHANGED <<active, rootfs>>
  /\ Held(p)' = Held(p)
  /\ ~Succeeded(p)'
  /\ Working(p)' => \/ Held(p) = {} /\ key'[p] \in Keys
                    \/ Working(p) /\ key'[p] = key[p]
  /\ pc'[p] \in {"lvm", "root"} => pc[p] \in {"lvm", "root"}

\* p fails or goes away, and holds nothing any more.
DropsHold(p) ==
  /\ UNCHANGED <<active, rootfs>>
  /\ ~Working(p)' /\ ~Succeeded(p)'

\* p opens its current volume.
OpensVolume(p) ==
  /\ pc[p] = "activate" /\ vol[p] \notin active /\ vol[p] \in Opens[key[p]]
  /\ active' = active \cup {vol[p]}
  /\ UNCHANGED rootfs
  /\ Held(p)' = 1..vol[p]
  /\ Working(p)' /\ key'[p] = key[p]
  /\ pc'[p] \in {"lvm", "root"} => vol[p] = NumVols

\* p mounts the root and returns 0.
MountsRoot(p) ==
  /\ pc[p] = "root"
  /\ UNCHANGED active
  /\ rootfs' \in MapperEntries
  /\ pc'[p] = "returned" /\ ret'[p] = Success

\* A turn that ends with an error drops the hold.
LEMMA FailedTurn ==
  ASSUME NEW p \in Procs, NEW r, r # Success, TypeInv,
         EndTurn(p, r), UNCHANGED <<active, rootfs>>
  PROVE  OthersRest(p) /\ DropsHold(p)
BY DEF TypeInv, UnlockTypeOK, EndTurn, OthersRest, DropsHold, Working, Succeeded

\* Every step is one of the four.
LEMMA StepEffect ==
  ASSUME NEW p \in Procs, TypeInv, UnlockStep(p)
  PROVE  /\ OthersRest(p)
         /\ KeepsHold(p) \/ DropsHold(p) \/ OpensVolume(p) \/ MountsRoot(p)
<1> USE DEF localVars, kernelVars
<1>t. /\ pc \in [Procs -> Places] /\ key \in [Procs -> Keys \cup {NoKey}]
      /\ vol \in [Procs -> 1..(NumVols + 1)] /\ ret \in [Procs -> Retvals]
      /\ VolPlaced
  BY DEF TypeInv, UnlockTypeOK
<1>e. 1..0 = {} /\ {"CONSOLE_DONE"} # Success /\ {"DECRYPT"} # Success
      /\ {"ROOT"} # Success /\ {"REGEX"} # Success /\ {"MAPPER"} # Success
  BY DEF Success
<1>1. CASE Begin(p)
  BY <1>1, <1>t DEF Begin, OthersRest, KeepsHold, Held, Winner, Succeeded, Working
<1>2. ASSUME NEW k \in Keys, EnterKey(p, k) PROVE OthersRest(p) /\ KeepsHold(p)
  <2>1. vol[p] = 1 /\ vol' = vol
    BY <1>2, <1>t DEF EnterKey, VolPlaced
  <2>2. Held(p) = {} /\ Held(p)' = {}
    BY <1>2, <1>t, <1>e, <2>1 DEF EnterKey, Held, Winner, Succeeded
  <2> QED
    BY <1>2, <1>t, <2>1, <2>2 DEF EnterKey, OthersRest, KeepsHold, Succeeded, Working
<1>3. CASE ShellExit(p)
  BY <1>3, <1>e, FailedTurn DEF ShellExit
<1>4. CASE Probe(p)
  <2>1. CASE pc' = [pc EXCEPT ![p] = "activate"] /\ UNCHANGED <<att, key, vol, ret>>
    BY <1>4, <2>1, <1>t DEF Probe, OthersRest, KeepsHold, Held, Winner, Succeeded, Working
  <2>2. CASE EndTurn(p, {"DECRYPT"})
    BY <1>4, <2>2, <1>e, FailedTurn DEF Probe
  <2>3. CASE UNCHANGED localVars
    BY <1>4, <2>3, <1>t DEF Probe, OthersRest, KeepsHold, Held, Winner, Succeeded, Working
  <2> QED
    BY <1>4, <2>1, <2>2, <2>3 DEF Probe
<1>5. CASE Activate(p)
  <2>1. CASE EndTurn(p, {"DECRYPT"}) /\ UNCHANGED active
    BY <1>5, <2>1, <1>e, FailedTurn DEF Activate, Activates
  <2>2. CASE ~(EndTurn(p, {"DECRYPT"}) /\ UNCHANGED active)
    <3>1. /\ vol[p] \in Vols /\ vol[p] \notin active /\ vol[p] \in Opens[key[p]]
          /\ vol' = [vol EXCEPT ![p] = vol[p] + 1]
          /\ active' = active \cup {vol[p]}
          /\ pc'  = [pc EXCEPT ![p] = IF vol[p] = NumVols THEN "lvm" ELSE "probe"]
          /\ UNCHANGED <<att, key, ret, rootfs>>
      BY <1>5, <2>2, <1>t DEF Activate, Activates, VolPlaced
    <3>2. vol'[p] - 1 = vol[p]
      BY <3>1, <1>t DEF Vols
    <3>3. Held(p)' = 1..vol[p]
      BY <3>1, <3>2, <1>t DEF Held, Winner, Vols
    <3> QED
      BY <1>5, <1>t, <3>1, <3>3 DEF Activate, Activates, OthersRest, OpensVolume, Working
  <2> QED
    BY <2>1, <2>2
<1>6. CASE ProbeLvm(p)
  BY <1>6, <1>t DEF ProbeLvm, OthersRest, KeepsHold, Held, Winner, Succeeded, Working
<1>7. CASE ProbeRoot(p)
  <2>1. CASE UNCHANGED rootfs /\ \E r \in {{"ROOT"}, {"REGEX"}, {"MAPPER"}} : EndTurn(p, r)
    BY <1>7, <2>1, <1>e, FailedTurn DEF ProbeRoot, RootFailed
  <2>2. CASE pc' = [pc EXCEPT ![p] = "crashed"] /\ UNCHANGED <<att, key, vol, ret, rootfs>>
    BY <1>7, <2>2, <1>t DEF ProbeRoot, RootFailed, OthersRest, DropsHold, Working, Succeeded
  <2>3. CASE \E dev \in RootCandidates : rootfs' = dev /\ EndTurn(p, Success)
    <3>1. RootCandidates \subseteq MapperEntries
      BY DEF RootCandidates, TypeInv, UnlockTypeOK, MapperEntries
    <3>2. OthersRest(p) /\ MountsRoot(p)
      BY <1>7, <2>3, <3>1, <1>t DEF ProbeRoot, RootFailed, EndTurn, Breaks, OthersRest, MountsRoot
    <3> QED
      BY <3>2
  <2> QED
    BY <1>7, <2>1, <2>2, <2>3 DEF ProbeRoot, RootFailed
<1>8. CASE Leave(p) \/ Hangup(p)
  BY <1>8, <1>t DEF Leave, Hangup, Vanish, OthersRest, DropsHold, Working, Succeeded
<1> QED
  BY <1>1, <1>2, <1>3, <1>4, <1>5, <1>6, <1>7, <1>8
  DEF UnlockStep, Challenge, Work

-----------------------------------------------------------------------------
(* The inductive invariant.                                                *)

\* The challenge starts in UnlockInv.
LEMMA InitInv == UnlockInit => UnlockInv
<1> SUFFICES ASSUME UnlockInit PROVE UnlockInv
  OBVIOUS
<1>1. TypeInv
  BY InitType
<1>2. \A p \in Procs : Held(p) = {} /\ ~Working(p) /\ ~Succeeded(p) /\ pc[p] = "idle"
  BY DEF UnlockInit, Held, Winner, Succeeded, Working
<1>3. OpenPrefix
  <2>1. 0 \in 0..NumVols /\ active = 1..0
    BY DEF UnlockInit
  <2> QED
    BY <2>1 DEF OpenPrefix
<1> QED
  BY <1>1, <1>2, <1>3
  DEF UnlockInit, UnlockInv, TypeInv, HeldIsActive, HeldByKey, MountedLast

\* A prefix of the volumes without volume 1 is empty.
LEMMA PrefixEmpty == OpenPrefix /\ 1 \notin active => active = {}
BY DEF OpenPrefix

\* The process about to open a volume holds exactly the volumes before it.
LEMMA OpenerHoldsAll ==
  ASSUME NEW p \in Procs, UnlockInv, OpensVolume(p)
  PROVE  /\ vol[p] \in Vols /\ active = 1..(vol[p] - 1) /\ Held(p) = active
         /\ active' = 1..vol[p]
         /\ \A q \in Procs \ {p} : Held(q) = {}
<1>1. vol[p] \in Vols /\ Held(p) = 1..(vol[p] - 1) /\ vol[p] \notin active
  BY DEF UnlockInv, VolPlaced, OpensVolume, Held
<1>2. active = Held(p)
  <2>1. CASE vol[p] = 1
    BY <1>1, <2>1, PrefixEmpty DEF UnlockInv
  <2>2. CASE vol[p] # 1
    <3>1. 1 \in Held(p)
      BY <1>1, <2>2 DEF Vols
    <3> QED
      BY <3>1 DEF UnlockInv, HeldIsActive
  <2> QED
    BY <2>1, <2>2
<1>3. active' = 1..vol[p]
  BY <1>1, <1>2 DEF OpensVolume, Vols
<1>4. ASSUME NEW q \in Procs \ {p}, Held(q) # {} PROVE FALSE
  <2>1. Held(q) = active /\ Held(p) = {}
    BY <1>4 DEF UnlockInv, HeldIsActive
  <2> QED
    BY <1>2, <1>4, <2>1
<1> QED
  BY <1>1, <1>2, <1>3, <1>4

\* Rest means: the others hold, work and have succeeded as before.
LEMMA OthersSame ==
  ASSUME NEW p \in Procs, OthersRest(p), NEW q \in Procs \ {p}
  PROVE  /\ Held(q)' = Held(q)
         /\ Working(q)' = Working(q)
         /\ Succeeded(q)' = Succeeded(q)
         /\ pc'[q] = pc[q] /\ key'[q] = key[q]
BY DEF OthersRest, Held, Winner, Working, Succeeded

\* A step that opens nothing and mounts nothing preserves the invariant.
LEMMA QuietInv ==
  ASSUME NEW p \in Procs, UnlockInv, TypeInv', OthersRest(p),
         KeepsHold(p) \/ DropsHold(p)
  PROVE  UnlockInv'
<1>1. UNCHANGED <<active, rootfs>>
  BY DEF KeepsHold, DropsHold
<1>2. Held(p)' = {} \/ Held(p)' = Held(p)
  BY DEF KeepsHold, DropsHold, Held, Winner, Working, Succeeded
<1>3. OpenPrefix'
  BY <1>1 DEF UnlockInv, OpenPrefix
<1>4. HeldIsActive'
  BY <1>1, <1>2, OthersSame DEF UnlockInv, HeldIsActive
<1>5. HeldByKey'
  <2>1. ASSUME Working(p)' PROVE key'[p] \in Keys /\ Held(p)' \subseteq Opens[key'[p]]
    BY <2>1, <1>2 DEF KeepsHold, DropsHold, UnlockInv, HeldByKey
  <2> QED
    BY <2>1, OthersSame DEF UnlockInv, HeldByKey
<1>6. MountedLast'
  <2>1. pc'[p] \in {"lvm", "root"} => rootfs' = NoDev
    BY <1>1 DEF KeepsHold, DropsHold, Working, UnlockInv, MountedLast
  <2>2. ~Succeeded(p)'
    BY DEF KeepsHold, DropsHold
  <2> QED
    BY <1>1, <2>1, <2>2, OthersSame DEF UnlockInv, MountedLast
<1> QED
  BY <1>3, <1>4, <1>5, <1>6 DEF UnlockInv, TypeInv

\* Opening a volume preserves the invariant: only its holder can do so.
LEMMA OpenInv ==
  ASSUME NEW p \in Procs, UnlockInv, TypeInv', OthersRest(p), OpensVolume(p)
  PROVE  UnlockInv'
<1>1. /\ vol[p] \in Vols /\ active = 1..(vol[p] - 1) /\ Held(p) = active
      /\ active' = 1..vol[p] /\ Held(p)' = active'
      /\ \A q \in Procs \ {p} : Held(q)' = {}
  BY OpenerHoldsAll, OthersSame DEF OpensVolume
<1>2. rootfs = NoDev /\ rootfs' = NoDev
  <2>1. vol[p] \notin active
    BY DEF OpensVolume
  <2> QED
    BY <1>1, <2>1 DEF UnlockInv, MountedLast, OpensVolume
<1>3. OpenPrefix'
  BY <1>1, <1>2 DEF OpenPrefix, Vols
<1>4. HeldIsActive'
  BY <1>1 DEF HeldIsActive
<1>5. HeldByKey'
  <2>1. key'[p] \in Keys /\ Held(p)' \subseteq Opens[key'[p]]
    BY <1>1 DEF OpensVolume, UnlockInv, HeldByKey, Working
  <2> QED
    BY <1>1, <2>1, OthersSame DEF UnlockInv, HeldByKey
<1>6. MountedLast'
  <2>1. ~Succeeded(p)'
    BY DEF OpensVolume, Working, Succeeded
  <2> QED
    BY <1>2, <2>1, OthersSame DEF UnlockInv, MountedLast
<1> QED
  BY <1>3, <1>4, <1>5, <1>6 DEF UnlockInv, TypeInv

\* Mounting the root preserves the invariant: its holder opened every volume.
LEMMA MountInv ==
  ASSUME NEW p \in Procs, UnlockInv, TypeInv', OthersRest(p), MountsRoot(p)
  PROVE  UnlockInv'
<1>1. Held(p) = Vols /\ Held(p)' = Vols /\ 1 \in Vols
  BY DEF MountsRoot, Held, Winner, Succeeded, Vols
<1>2. active = Vols /\ active' = Vols
  BY <1>1 DEF UnlockInv, HeldIsActive, MountsRoot
<1>3. OpenPrefix'
  BY <1>2 DEF OpenPrefix, Vols
<1>4. HeldIsActive'
  BY <1>1, <1>2, OthersSame DEF UnlockInv, HeldIsActive
<1>5. key[p] \in Keys /\ Opens[key[p]] = Vols
  BY <1>1 DEF UnlockInv, HeldByKey, Working, MountsRoot
<1>6. HeldByKey'
  BY OthersSame DEF UnlockInv, HeldByKey, Working, MountsRoot
<1>7. MountedLast'
  <2>1. rootfs' # NoDev
    BY DEF MountsRoot
  <2>2. \A q \in Procs : pc'[q] \notin {"lvm", "root"}
    <3>1. ASSUME NEW q \in Procs \ {p}, pc[q] \in {"lvm", "root"} PROVE FALSE
      BY <1>1, <3>1 DEF UnlockInv, HeldIsActive, Held, Winner
    <3> QED
      BY <3>1, OthersSame DEF MountsRoot
  <2> QED
    BY <1>2, <2>1, <2>2 DEF MountedLast
<1> QED
  BY <1>3, <1>4, <1>5, <1>6, <1>7 DEF UnlockInv, TypeInv

\* One step of one process preserves the invariant.
LEMMA StepInv ==
  ASSUME NEW p \in Procs, UnlockInv, UnlockStep(p)
  PROVE  UnlockInv'
<1>1. TypeInv /\ TypeInv'
  BY StepType DEF UnlockInv, TypeInv
<1> QED
  BY <1>1, StepEffect, QuietInv, OpenInv, MountInv

\* A stuttering step preserves the invariant.
LEMMA StutterInv == UnlockInv /\ UNCHANGED unlockVars => UnlockInv'
<1> SUFFICES ASSUME UnlockInv, UNCHANGED unlockVars PROVE UnlockInv'
  OBVIOUS
<1> USE DEF unlockVars, localVars, kernelVars
<1>1. UnlockTypeOK' /\ AttemptsLeft' /\ VolPlaced'
  BY DEF UnlockInv, UnlockTypeOK, AttemptsLeft, VolPlaced
<1>2. OpenPrefix'
  BY DEF UnlockInv, OpenPrefix
<1>3. \A p \in Procs : /\ Held(p)' = Held(p) /\ Working(p)' = Working(p)
                       /\ Succeeded(p)' = Succeeded(p)
  BY DEF Held, Winner, Succeeded, Working
<1>4. HeldIsActive' /\ HeldByKey' /\ MountedLast'
  BY <1>3 DEF UnlockInv, HeldIsActive, HeldByKey, MountedLast
<1> QED
  BY <1>1, <1>2, <1>4 DEF UnlockInv

\* The inductive invariant holds in every state of the challenge.
THEOREM Invariant == UnlockSafety => []UnlockInv
<1>1. UnlockInv /\ [UnlockNext]_unlockVars => UnlockInv'
  BY StepInv, StutterInv DEF UnlockNext
<1> QED
  BY InitInv, <1>1, PTL DEF UnlockSafety

-----------------------------------------------------------------------------
(* What follows.                                                           *)

\* Volumes are opened in the order of luks_vols.
THEOREM InOrder == UnlockSafety => []OpenPrefix
<1>1. UnlockInv => OpenPrefix
  BY DEF UnlockInv
<1> QED
  BY Invariant, <1>1, PTL

\* No two processes ever stand past mount_decrypt, however many prompts race.
THEOREM AtMostOneWinner == UnlockSafety => []OneWinner
<1>1. UnlockInv => OneWinner
  <2>1. \A p \in Procs : Winner(p) => Held(p) # {}
    BY DEF Held, Winner, Succeeded, Vols
  <2> QED
    BY <2>1 DEF UnlockInv, HeldIsActive, OneWinner
<1> QED
  BY Invariant, <1>1, PTL

\* A prompt_decrypt that returned 0 left every volume open and a root mounted.
THEOREM SuccessIsReal == UnlockSafety => []SuccessMeansMounted
<1>1. UnlockInv => SuccessMeansMounted
  <2>1. ASSUME NEW p \in Procs, Succeeded(p), UnlockInv PROVE active = Vols
    <3>1. Held(p) = Vols /\ 1 \in Vols
      BY <2>1 DEF Held, Winner, Succeeded, Vols
    <3> QED
      BY <2>1, <3>1 DEF UnlockInv, HeldIsActive
  <2> QED
    BY <2>1 DEF SuccessMeansMounted, UnlockInv, MountedLast
<1> QED
  BY Invariant, <1>1, PTL

\* Whoever goes on to mount the root typed a key that every volume accepts.
THEOREM OneKeyMounts == UnlockSafety => []OneKeyOpensAll
<1>1. UnlockInv => OneKeyOpensAll
  <2>1. ASSUME UnlockInv, NEW p \in Procs, pc[p] \in {"lvm", "root"}
        PROVE  Opens[key[p]] = Vols
    <3>1. key[p] \in Keys /\ Vols \subseteq Opens[key[p]]
      BY <2>1 DEF UnlockInv, HeldByKey, Working, Held, Winner
    <3> QED
      BY <3>1
  <2> QED
    BY <2>1 DEF OneKeyOpensAll
<1> QED
  BY Invariant, <1>1, PTL

\* A process that steps in a stranded host neither opens nor mounts anything.
LEMMA StrandedStep ==
  ASSUME NEW p \in Procs, UnlockInv, Stranded, UnlockStep(p)
  PROVE  Stranded' /\ UNCHANGED <<active, rootfs>>
<1>1. /\ OthersRest(p)
      /\ KeepsHold(p) \/ DropsHold(p) \/ OpensVolume(p) \/ MountsRoot(p)
  BY StepEffect DEF UnlockInv, TypeInv
<1>2. ~OpensVolume(p)
  BY OpenerHoldsAll DEF Stranded
<1>3. ~MountsRoot(p)
  BY DEF Stranded, MountsRoot, Held, Winner, Vols
<1>4. UNCHANGED <<active, rootfs>> /\ Held(p)' = {}
  BY <1>1, <1>2, <1>3
  DEF Stranded, KeepsHold, DropsHold, Held, Winner, Working, Succeeded
<1> QED
  BY <1>1, <1>4, OthersSame DEF Stranded

\* A host whose opener gave up stays as it is until the next boot.
THEOREM StrandedStays == UnlockSafety => StrandedForever
<1>1. UnlockInv /\ Stranded /\ [UnlockNext]_unlockVars
        => Stranded' /\ UNCHANGED <<active, rootfs>>
  <2>1. Stranded /\ UNCHANGED unlockVars => Stranded' /\ UNCHANGED <<active, rootfs>>
    BY DEF Stranded, Held, Winner, Succeeded, unlockVars, localVars, kernelVars
  <2> QED
    BY <2>1, StrandedStep DEF UnlockNext
<1> QED
  BY Invariant, <1>1, PTL DEF UnlockSafety, StrandedForever

-----------------------------------------------------------------------------
(* Every step for a key is one step less.                                  *)

LEMMA StepsCounted ==
  ASSUME UnlockInv, NEW p \in Procs
  PROVE  /\ StepsLeft(p) \in 0..2 * NumVols + 2
         /\ Working(p) => StepsLeft(p) >= 1
<1>1. vol[p] \in 1..NumVols + 1 /\ NumVols \in Nat \ {0}
  BY DEF UnlockInv, UnlockTypeOK
<1>2. CASE pc[p] \in {"probe", "activate"}
  <2>1. vol[p] \in 1..NumVols
    BY <1>2 DEF UnlockInv, VolPlaced, Vols
  <2> QED
    BY <1>1, <1>2, <2>1 DEF StepsLeft
<1>3. CASE pc[p] \notin {"probe", "activate"}
  BY <1>1, <1>3 DEF StepsLeft, Working
<1> QED
  BY <1>2, <1>3

\* A step for a key counts.
LEMMA WorkCounts ==
  ASSUME UnlockInv, NEW p \in Procs, Work(p), ~Waits(p)
  PROVE  StepsLeft(p)' < StepsLeft(p)
<1>1. /\ pc \in [Procs -> Places] /\ vol \in [Procs -> 1..NumVols + 1]
      /\ NumVols \in Nat \ {0}
  BY DEF UnlockInv, UnlockTypeOK
<1>2. Working(p) /\ StepsLeft(p) \in Nat /\ StepsLeft(p) >= 1
  <2>1. Working(p)
    BY DEF Work, Probe, Activate, ProbeLvm, ProbeRoot, Working
  <2> QED
    BY <2>1, StepsCounted
<1>3. ASSUME ~Working(p)' PROVE StepsLeft(p)' < StepsLeft(p)
  <2>1. StepsLeft(p)' = 0
    BY <1>3 DEF Working, StepsLeft
  <2> QED
    BY <1>2, <2>1
<1>4. ASSUME NEW r, EndTurn(p, r) PROVE ~Working(p)'
  BY <1>1, <1>4 DEF EndTurn, Working
<1>5. CASE Probe(p)
  <2>1. CASE \E r : EndTurn(p, r)
    BY <2>1, <1>3, <1>4
  <2>2. CASE pc[p] = "probe" /\ pc' = [pc EXCEPT ![p] = "activate"] /\ vol' = vol
    <3>1. StepsLeft(p) = 2 * (NumVols - vol[p]) + 4
      BY <2>2 DEF StepsLeft
    <3>2. StepsLeft(p)' = 2 * (NumVols - vol[p]) + 3
      BY <1>1, <2>2 DEF StepsLeft
    <3> QED
      BY <1>1, <3>1, <3>2
  <2> QED
    BY <1>5, <2>1, <2>2 DEF Probe, Waits
<1>6. CASE Activate(p)
  <2>1. CASE \E r : EndTurn(p, r)
    BY <2>1, <1>3, <1>4
  <2>2. CASE /\ pc[p] = "activate" /\ vol' = [vol EXCEPT ![p] = vol[p] + 1]
             /\ pc' = [pc EXCEPT ![p] = IF vol[p] = NumVols THEN "lvm" ELSE "probe"]
    <3>0. vol[p] \in 1..NumVols
      BY <2>2 DEF UnlockInv, VolPlaced, Vols
    <3>1. StepsLeft(p) = 2 * (NumVols - vol[p]) + 3
      BY <2>2 DEF StepsLeft
    <3>2. StepsLeft(p)' = IF vol[p] = NumVols THEN 2
                          ELSE 2 * (NumVols - (vol[p] + 1)) + 4
      BY <1>1, <2>2 DEF StepsLeft
    <3> QED
      BY <1>1, <3>0, <3>1, <3>2
  <2> QED
    BY <1>6, <2>1, <2>2 DEF Activate
<1>7. CASE ProbeLvm(p)
  BY <1>1, <1>7 DEF ProbeLvm, StepsLeft
<1>8. CASE ProbeRoot(p)
  <2>1. CASE \E r : EndTurn(p, r)
    BY <2>1, <1>3, <1>4
  <2>2. CASE pc' = [pc EXCEPT ![p] = "crashed"]
    BY <1>1, <1>3, <2>2 DEF Working
  <2> QED
    BY <1>8, <2>1, <2>2 DEF ProbeRoot
<1> QED
  BY <1>5, <1>6, <1>7, <1>8 DEF Work

\* Other steps leave the key alone or take it away.
LEMMA OthersCount ==
  ASSUME UnlockInv, NEW q \in Procs, UnlockStep(q), NEW p \in Procs, Working(p)
  PROVE  \/ StepsLeft(p)' < StepsLeft(p)
         \/ UNCHANGED <<pc[p], att[p], key[p], vol[p], ret[p]>>
<1>1. /\ pc \in [Procs -> Places] /\ att \in [Procs -> 0..MaxAttempts]
      /\ key \in [Procs -> Keys \cup {NoKey}] /\ vol \in [Procs -> 1..NumVols + 1]
      /\ ret \in [Procs -> Retvals]
  BY DEF UnlockInv, UnlockTypeOK
<1>2. CASE q # p
  <2>1. ASSUME NEW r, EndTurn(q, r)
        PROVE  UNCHANGED <<pc[p], att[p], key[p], vol[p], ret[p]>>
    BY <1>1, <1>2, <2>1 DEF EndTurn
  <2>2. CASE Begin(q) \/ Leave(q) \/ Hangup(q) \/ \E k \in Keys : EnterKey(q, k)
    BY <1>1, <1>2, <2>2 DEF Begin, Leave, Hangup, Vanish, EnterKey
  <2>3. CASE ShellExit(q)
    BY <2>1, <2>3 DEF ShellExit
  <2>4. CASE Probe(q)
    BY <1>1, <1>2, <2>1, <2>4 DEF Probe, localVars
  <2>5. CASE Activate(q)
    BY <1>1, <1>2, <2>1, <2>5 DEF Activate
  <2>6. CASE ProbeLvm(q)
    BY <1>1, <1>2, <2>6 DEF ProbeLvm
  <2>7. CASE ProbeRoot(q)
    BY <1>1, <1>2, <2>1, <2>7 DEF ProbeRoot
  <2> QED
    BY <2>2, <2>3, <2>4, <2>5, <2>6, <2>7 DEF UnlockStep, Challenge, Work
<1>3. CASE q = p
  <2>1. StepsLeft(p) \in Nat /\ StepsLeft(p) >= 1
    BY StepsCounted
  <2>2. CASE Work(p) /\ ~Waits(p)
    BY <2>2, WorkCounts
  <2>3. CASE Work(p) /\ Waits(p)
    BY <2>3 DEF Waits, Work, Probe, Activate, ProbeLvm, ProbeRoot, localVars
  <2>4. CASE Hangup(p)
    <3>1. pc'[p] = "idle"
      BY <1>1, <2>4 DEF Hangup, Vanish
    <3>2. StepsLeft(p)' = 0
      BY <3>1 DEF StepsLeft
    <3> QED
      BY <2>1, <3>2
  <2>5. ~(Begin(p) \/ Leave(p) \/ ShellExit(p) \/ \E k \in Keys : EnterKey(p, k))
    BY DEF Working, Begin, Leave, ShellExit, EnterKey
  <2> QED
    BY <1>3, <2>2, <2>3, <2>4, <2>5 DEF UnlockStep, Challenge
<1> QED
  BY <1>2, <1>3

\* A key is answered after at most two steps for each volume and two more, of
\* which none is undone by another process, unless a device is waited for: of
\* EveryKeyAnswered what is left is that these steps are taken.
THEOREM KeysAdvance ==
  UnlockSafety =>
    KeyAdvances /\ [](\A p \in Procs : StepsLeft(p) \in 0..2 * NumVols + 2)
<1> DEFINE Advances ==
      \A p \in Procs :
        /\ Work(p) /\ ~Waits(p) => StepsLeft(p)' < StepsLeft(p)
        /\ Working(p) => \/ StepsLeft(p)' < StepsLeft(p)
                         \/ UNCHANGED <<pc[p], att[p], key[p], vol[p], ret[p]>>
<1>1. UnlockInv /\ [UnlockNext]_unlockVars => [Advances]_unlockVars
  BY WorkCounts, OthersCount DEF UnlockNext
<1>2. UnlockInv => \A p \in Procs : StepsLeft(p) \in 0..2 * NumVols + 2
  BY StepsCounted
<1> QED
  BY Invariant, <1>1, <1>2, PTL DEF UnlockSafety, KeyAdvances

-----------------------------------------------------------------------------
(* The challenge implements the gate.                                      *)

\* One step of one process is a step of the gate or leaves it alone.
LEMMA StepGate ==
  ASSUME NEW p \in Procs, UnlockInv, UnlockStep(p)
  PROVE  G!GateNext \/ UNCHANGED <<active, Holder, rootfs>>
<1>1. /\ OthersRest(p)
      /\ KeepsHold(p) \/ DropsHold(p) \/ OpensVolume(p) \/ MountsRoot(p)
  BY StepEffect DEF UnlockInv, TypeInv
<1>2. \A q \in Procs \ {p} : Held(q)' = Held(q)
  BY <1>1, OthersSame
<1>3. Holder \subseteq {p} \/ p \notin Holder
  BY DEF Holder, UnlockInv, HeldIsActive
<1>4. CASE KeepsHold(p)
  BY <1>2, <1>4 DEF KeepsHold, Holder
<1>5. CASE DropsHold(p)
  <2>1. UNCHANGED <<active, rootfs>> /\ Held(p)' = {}
    BY <1>5 DEF DropsHold, Held, Winner, Working, Succeeded
  <2>2. Holder' = Holder \ {p}
    BY <1>2, <2>1 DEF Holder
  <2>3. Holder' = {} \/ Holder' = Holder
    BY <1>3, <2>2
  <2> QED
    BY <2>1, <2>3 DEF G!GateNext, G!LetGo
<1>6. CASE OpensVolume(p)
  <2>1. /\ vol[p] \in Vols /\ active = 1..(vol[p] - 1) /\ Held(p) = active
        /\ active' = 1..vol[p] /\ Held(p)' = active'
        /\ \A q \in Procs \ {p} : Held(q) = {}
        /\ UNCHANGED rootfs
    BY <1>6, OpenerHoldsAll DEF OpensVolume
  <2>2. Holder' = {p}
    <3>1. 1 \in Held(p)'
      BY <2>1 DEF Vols
    <3> QED
      BY <1>2, <2>1, <3>1 DEF Holder
  <2>3. CASE vol[p] = 1
    <3>1. active = {} /\ active' = {1}
      BY <2>1, <2>3
    <3> QED
      BY <2>1, <2>2, <3>1 DEF G!GateNext, G!Take
  <2>4. CASE vol[p] # 1
    <3>1. vol[p] \in 2..NumVols /\ 1 \in Held(p)
      BY <2>1, <2>4 DEF Vols
    <3>2. Holder = {p}
      BY <2>1, <3>1 DEF Holder
    <3>3. G!Extend(vol[p])
      BY <2>1, <2>2, <3>2 DEF G!Extend
    <3> QED
      BY <3>1, <3>3 DEF G!GateNext
  <2> QED
    BY <2>3, <2>4
<1>7. CASE MountsRoot(p)
  <2>1. Held(p) = Vols /\ Held(p)' = Vols /\ Vols # {}
    BY <1>7 DEF MountsRoot, Held, Winner, Succeeded, Vols
  <2>2. p \in Holder /\ Holder' = Holder
    BY <1>2, <2>1 DEF Holder
  <2>3. active = 1..NumVols /\ rootfs = NoDev
    BY <1>7, <2>1 DEF UnlockInv, HeldIsActive, MountedLast, MountsRoot, Vols
  <2> QED
    BY <1>7, <2>2, <2>3 DEF MountsRoot, G!GateNext, G!MountRoot
<1> QED
  BY <1>1, <1>4, <1>5, <1>6, <1>7

\* The challenge, whatever its processes do, is a gate: one holder at a time,
\* volumes in order, the root last, and no second holder after a let go.
THEOREM GateImplemented == UnlockSafety => ImplementsGate
<1>1. UnlockInit => G!GateInit
  BY DEF UnlockInit, G!GateInit, Holder, Held, Winner, Succeeded
<1>2. UnlockInv /\ [UnlockNext]_unlockVars => [G!GateNext]_(G!gateVars)
  <2>1. UNCHANGED unlockVars => UNCHANGED <<active, Holder, rootfs>>
    BY DEF Holder, Held, Winner, Succeeded, unlockVars, localVars, kernelVars
  <2> QED
    BY <2>1, StepGate DEF UnlockNext, G!gateVars
<1> QED
  BY Invariant, <1>1, <1>2, PTL DEF UnlockSafety, ImplementsGate, G!GateSpec
=============================================================================
