----------------------------- MODULE BootProofs -----------------------------
(***************************************************************************)
(* Proofs about one boot, for any number of ssh sessions and volumes, any  *)
(* keys and any build flags.                                               *)
(*                                                                         *)
(* The argument: a step of the boot is a step of the challenge or leaves   *)
(* it alone, so what UnlockProofs shows holds of the boot too.  On top of  *)
(* that, lemma CleanupEffect says what a step of cleanup_system may do,    *)
(* and the invariants of BootProps survive it and the steps of main, of    *)
(* the sub-prompts and of the daemons.                                     *)
(***************************************************************************)
EXTENDS BootProps, UnlockProofs

USE ProcsAssumption, NumVolsAssumption, KeysAssumption, DevicesAssumption,
    FlagsAssumption, BootAssumption

-----------------------------------------------------------------------------
(* The challenge within the boot.                                          *)

\* Every step of the boot is one of the challenge or none of its business.
LEMMA BootStepUnlock == BootNext => UnlockNext \/ UNCHANGED unlockVars
<1>0. Pid1 \in Procs /\ Remote \subseteq Procs
  BY DEF Remote
<1>1. ASSUME MainStep PROVE UnlockNext \/ UNCHANGED unlockVars
  BY <1>0, <1>1 DEF MainStep, MountSys, SetupNetwork, StartSsh, StartTor, Act,
     MainCleanup, MainChallenge, UnlockNext, UnlockStep
<1>2. ASSUME NEW p \in Remote, SubPrompt(p) PROVE UnlockNext
  BY <1>0, <1>2 DEF SubPrompt, UnlockNext, UnlockStep
<1> QED
  BY <1>1, <1>2 DEF BootNext, Handle, CleanupStep, DaemonWrites, DaemonDies

\* The boot only ever uses the challenge as module Unlock describes it, so
\* each theorem about the challenge is one about the boot.
THEOREM BootUnlocks == BootSafety => UnlockSafety
<1>1. BootInit => UnlockInit
  BY DEF BootInit
<1>2. [BootNext]_bootVars => [UnlockNext]_unlockVars
  BY BootStepUnlock DEF bootVars
<1> QED
  BY <1>1, <1>2, PTL DEF BootSafety, UnlockSafety

\* A root that is mounted stays mounted, and the return values of the
\* challenge never carry the order to power off.
CleanRets == \A p \in Procs : "SHUTDOWN" \notin ret[p]

LEMMA EndTurnClean ==
  ASSUME NEW p \in Procs, NEW r, "SHUTDOWN" \notin r,
         ret \in [Procs -> Retvals], CleanRets, EndTurn(p, r)
  PROVE  CleanRets'
BY DEF EndTurn, CleanRets

LEMMA StepRest ==
  ASSUME NEW p \in Procs, UnlockInv, CleanRets, UnlockStep(p)
  PROVE  CleanRets' /\ (rootfs # NoDev => rootfs' # NoDev)
<1>1. ret \in [Procs -> Retvals]
  BY DEF UnlockInv, UnlockTypeOK
<1>2. CleanRets'
  <2> USE <1>1, EndTurnClean DEF localVars, kernelVars
  <2>0. /\ "SHUTDOWN" \notin Success /\ "SHUTDOWN" \notin {"CONSOLE_DONE"}
        /\ "SHUTDOWN" \notin {"DECRYPT"} /\ "SHUTDOWN" \notin {"ROOT"}
        /\ "SHUTDOWN" \notin {"REGEX"} /\ "SHUTDOWN" \notin {"MAPPER"}
    BY DEF Success
  <2>1. CASE Begin(p) \/ (\E k \in Keys : EnterKey(p, k)) \/ ProbeLvm(p)
    BY <2>1 DEF Begin, EnterKey, ProbeLvm, CleanRets
  <2>2. CASE ShellExit(p)
    BY <2>0, <2>2 DEF ShellExit
  <2>3. CASE Probe(p)
    BY <2>0, <2>3 DEF Probe, CleanRets
  <2>4. CASE Activate(p)
    BY <2>0, <2>4 DEF Activate, CleanRets
  <2>5. CASE ProbeRoot(p)
    BY <2>0, <2>5 DEF ProbeRoot, RootFailed, CleanRets
  <2>6. CASE Leave(p) \/ Hangup(p)
    BY <2>0, <2>6 DEF Leave, Hangup, Vanish, CleanRets
  <2> QED
    BY <2>1, <2>2, <2>3, <2>4, <2>5, <2>6 DEF UnlockStep, Challenge, Work
<1>3. rootfs # NoDev => rootfs' # NoDev
  <2>1. NoDev \notin MapperEntries
    OBVIOUS
  <2> QED
    BY <2>1, StepEffect
    DEF UnlockInv, TypeInv, KeepsHold, DropsHold, OpensVolume, MountsRoot
<1> QED
  BY <1>2, <1>3

\* What each step of the boot keeps of the challenge.
LEMMA BootStepRest ==
  ASSUME UnlockInv, CleanRets, BootNext
  PROVE  UnlockInv' /\ CleanRets' /\ (rootfs # NoDev => rootfs' # NoDev)
<1>1. CASE UNCHANGED unlockVars
  BY <1>1, StutterInv DEF unlockVars, localVars, kernelVars, CleanRets
<1>2. CASE UnlockNext
  BY <1>2, StepInv, StepRest DEF UnlockNext
<1> QED
  BY <1>1, <1>2, BootStepUnlock

-----------------------------------------------------------------------------
(* What a step of cleanup_system is to the rest of the boot.               *)

\* The stage that follows one that went well.
Follows(a, b) ==
  \/ a = "tor" /\ b = "ssh"
  \/ a = "ssh" /\ b = "net"
  \/ a = "net" /\ b = "umount"
  \/ a = "umount" /\ b \in {"poweroff", "switch"}
  \/ a = "switch" /\ b = "wipe"
  \/ a = "wipe" /\ b = "move"
  \/ a = "move" /\ b = "exec"

\* Frame f goes on to stage b with i_retval_in as it is.
Proceeds(f, b) ==
  /\ cpc' = [cpc EXCEPT ![f] = b]
  /\ UNCHANGED <<cret, machine>>
  /\ Follows(cpc[f], b)
  /\ b = "poweroff" => "SHUTDOWN" \in cret[f]
  /\ b = "switch" => "SHUTDOWN" \notin cret[f]
  /\ b = "wipe" => rootfs # NoDev
  /\ cpc[f] = "wipe" \/ wiped' = wiped

\* Frame f fails, or is back where it was called.
Retires(f) ==
  /\ \E s \in {"failed", "return", "idle"} : cpc' = [cpc EXCEPT ![f] = s]
  /\ \E r \in Retvals : cret' = [cret EXCEPT ![f] = r]
  /\ UNCHANGED <<machine, wiped>>
  /\ cpc'[f] = "idle" => f = "handler"

\* Frame f ends the boot.
Ends(f) ==
  /\ UNCHANGED <<cpc, cret, wiped>>
  /\ \/ machine' = "booted" /\ cpc[f] = "exec"
     \/ machine' = "off" /\ cpc[f] = "poweroff"
     \/ machine' = "restart"
     \/ machine' = "panic"

\* kill_pid_file leaves the daemon as it was, or signals one that is up.
LEMMA KillResult ==
  ASSUME NEW s, NEW k \in KillPidFile(s)
  PROVE  /\ k[2] \in {s, "signalled"}
         /\ k[1] /\ "pid_file" \notin Faults /\ s # "created" => k[2] = "signalled"
<1>1. k \in {<<TRUE, s>>, <<FALSE, s>>, <<TRUE, "signalled">>}
  <2>1. CASE s = "up"
    BY <2>1 DEF KillPidFile
  <2>2. CASE s \in {"created", "signalled"}
    BY <2>2 DEF KillPidFile
  <2>3. CASE s \notin {"up", "created", "signalled"}
    BY <2>3 DEF KillPidFile
  <2> QED
    BY <2>1, <2>2, <2>3
<1>2. k[2] \in {s, "signalled"}
  <2>1. CASE k = <<TRUE, s>>
    BY <2>1
  <2>2. CASE k = <<FALSE, s>>
    BY <2>2
  <2>3. CASE k = <<TRUE, "signalled">>
    BY <2>3
  <2> QED
    BY <1>1, <2>1, <2>2, <2>3
<1>3. ASSUME "pid_file" \notin Faults, s # "created", k[1]
      PROVE  k[2] = "signalled"
  <2>1. CASE s = "up"
    BY <1>3, <2>1 DEF KillPidFile
  <2>2. CASE s = "signalled"
    BY <1>2, <2>2
  <2>3. CASE s \notin {"up", "created", "signalled"}
    <3>1. k = <<FALSE, s>>
      BY <1>3, <2>3 DEF KillPidFile
    <3> QED
      BY <1>3, <3>1
  <2> QED
    BY <1>3, <2>1, <2>2, <2>3
<1> QED
  BY <1>3, <1>2

\* What any of the functions that stop daemon d may return.
StopResults(d) ==
  KillPidFile(daemon[d]) \cup {<<FALSE, k[2]>> : k \in KillPidFile(daemon[d])}

\* Their results are like those of kill_pid_file.
LEMMA StopResult ==
  ASSUME NEW d, NEW k \in StopResults(d)
  PROVE  /\ k[2] \in {daemon[d], "signalled"}
         /\ k[1] /\ "pid_file" \notin Faults /\ daemon[d] # "created" => k[2] = "signalled"
         /\ daemon[d] = "off" => k[2] = "off"
<1>1. ASSUME NEW j \in KillPidFile(daemon[d]), daemon[d] = "off" PROVE j[2] = "off"
  <2>1. j = <<FALSE, "off">> \/ j = <<TRUE, "off">>
    BY <1>1 DEF KillPidFile
  <2>2. CASE j = <<FALSE, "off">>
    BY <2>2
  <2>3. CASE j = <<TRUE, "off">>
    BY <2>3
  <2> QED
    BY <2>1, <2>2, <2>3
<1>2. CASE k \in KillPidFile(daemon[d])
  BY <1>1, <1>2, KillResult
<1>3. CASE k \notin KillPidFile(daemon[d])
  <2>1. PICK j \in KillPidFile(daemon[d]) : k = <<FALSE, j[2]>>
    BY <1>3 DEF StopResults
  <2>2. ~k[1] /\ k[2] = j[2]
    BY <2>1
  <2> QED
    BY <1>1, <2>1, <2>2, KillResult
<1> QED
  BY <1>2, <1>3

\* Every call of Stop is one with such results.
LEMMA StopCalls ==
  /\ \A d : KillPidFile(daemon[d]) \subseteq StopResults(d)
  /\ KillDhcp \subseteq StopResults("dhcp")
BY DEF StopResults, KillDhcp

\* A step of cleanup_system is one of these, and leaves the rest alone.
LEMMA CleanupEffect ==
  ASSUME NEW f \in Frames, InitTypeOK, CleanupStep(f)
  PROVE  /\ UNCHANGED <<unlockVars, cmdline, misread, mpc>>
         /\ machine = "running" /\ FrameRuns(f)
         /\ (\E b \in Stages : Proceeds(f, b)) \/ Retires(f) \/ Ends(f)
         /\ daemon' \in [Daemons -> DaemonStates]
         /\ {sig', sysfs', wiped'} \subseteq BOOLEAN
         /\ cpc[f] \notin {"idle", "stuck"}
         /\ UNCHANGED sig \/ \E d \in Daemons : daemon[d] = "created"
<1> USE DEF InitTypeOK
<1>0. UNCHANGED <<unlockVars, cmdline, misread, mpc>> /\ machine = "running" /\ FrameRuns(f)
  BY DEF CleanupStep, FrameRuns, MainRuns
<1>1. ASSUME NEW flag \in RetvalFlags, Fail(f, flag), UNCHANGED <<machine, wiped>>
      PROVE  Retires(f)
  BY <1>1 DEF Fail, Retires, Retvals
<1>2. {"TOR", "SSH", "NET", "SYSFS", "ROOT"} \subseteq RetvalFlags
  BY DEF RetvalFlags
<1>3. ASSUME NEW d \in Daemons, NEW flag \in RetvalFlags, NEW b \in Stages,
             NEW K \in SUBSET StopResults(d),
             Stop(f, d, K, flag, b), Follows(cpc[f], b),
             b \in {"ssh", "net", "umount"}
      PROVE  /\ Proceeds(f, b) \/ Retires(f)
             /\ daemon' \in [Daemons -> DaemonStates] /\ sig' \in BOOLEAN
             /\ UNCHANGED <<sysfs, wiped>>
             /\ UNCHANGED sig \/ \E e \in Daemons : daemon[e] = "created"
  <2>1. PICK k \in StopResults(d) :
               /\ daemon' = [daemon EXCEPT ![d] = k[2]]
               /\ IF k[1] THEN GoTo(f, b) ELSE Fail(f, flag)
    BY <1>3 DEF Stop
  <2>2. k[2] \in DaemonStates
    <3>1. daemon[d] \in DaemonStates
      OBVIOUS
    <3>2. k[2] \in {daemon[d], "signalled"}
      BY StopResult
    <3> QED
      BY <3>1, <3>2 DEF DaemonStates
  <2> QED
    BY <1>1, <1>3, <2>1, <2>2 DEF Stop, MayHitInit, GoTo, Proceeds
<1>4. CASE StopTor(f) \/ StopSsh(f) \/ StopNetwork(f)
  <2>1. {"ssh", "net", "umount"} \subseteq Stages /\ Daemons = {"tor", "ssh", "dhcp"}
    BY DEF Stages, Teardown, Daemons
  <2>2. CASE StopTor(f) \/ StopSsh(f) \/ (cpc[f] = "net" /\ Stop(f, "dhcp", KillDhcp, "NET", "umount"))
    BY <1>0, <1>2, <1>3, <2>1, <2>2, StopCalls DEF StopTor, StopSsh, Follows
  <2>3. CASE cpc[f] = "net" /\ GoTo(f, "umount") /\ UNCHANGED <<daemon, sig, sysfs, wiped, machine>>
    BY <1>0, <2>1, <2>3 DEF GoTo, Proceeds, Follows
  <2>4. CASE cpc[f] = "net" /\ Fail(f, "NET") /\ UNCHANGED <<daemon, sig, sysfs, wiped, machine>>
    BY <1>0, <1>1, <1>2, <2>4
  <2> QED
    BY <1>0, <1>4, <2>2, <2>3, <2>4 DEF StopNetwork
<1>5. CASE UmountSys(f)
  <2>1. {"poweroff", "switch"} \subseteq Stages
    BY DEF Stages, Teardown
  <2> QED
    BY <1>0, <1>1, <1>2, <1>5, <2>1 DEF UmountSys, GoTo, Proceeds, Follows
<1>6. ASSUME SwitchFails(f), UNCHANGED wiped PROVE Retires(f) \/ Ends(f)
  BY <1>1, <1>2, <1>6 DEF SwitchFails, Ends
<1>7. CASE CheckRoot(f) \/ Wipe(f) \/ MoveRoot(f)
  <2>1. {"wipe", "move", "exec"} \subseteq Stages
    BY DEF Stages, Teardown
  <2> QED
    BY <1>0, <1>6, <1>7, <2>1
    DEF CheckRoot, RootReady, Wipe, MoveRoot, GoTo, Proceeds, Follows
<1>8. CASE ExecInit(f) \/ Reboot(f) \/ Return(f)
  <2>1. \A r \in Retvals : cret = [cret EXCEPT ![f] = cret[f]] /\ cret[f] \in Retvals
    OBVIOUS
  <2> QED
    BY <1>0, <1>8, <2>1 DEF ExecInit, Reboot, Return, GoTo, Retires, Ends, Frames
<1> QED
  BY <1>0, <1>4, <1>5, <1>7, <1>8 DEF CleanupStep

-----------------------------------------------------------------------------
(* What a step of main is to the rest of the boot.                         *)

\* Somebody looks for the order to shut down, or nobody does.
Reads ==
  /\ misread' \in BOOLEAN
  /\ misread => misread'
  /\ misread' => misread \/ (cmdline = "shutdown" /\ "cmdline" \in Faults)

\* main calls cleanup_system, with 0 only after a challenge that succeeded,
\* and with the order to power off only when the kernel command line has it.
CallsCleanup ==
  /\ mpc' = "cleanup"
  /\ UNCHANGED <<unlockVars, misread, machine>>
  /\ \E r \in Retvals :
       /\ Cleanup("main", r)
       /\ r = {"SHUTDOWN"} => cmdline = "shutdown"
       /\ r = Success => Succeeded(Pid1)

\* main starts daemon d at the place where it does so in this build.
Launches(d) ==
  \/ d = "dhcp" /\ NET /\ DHCP
  \/ d = "ssh" /\ NET
  \/ d = "tor" /\ NET /\ TOR

\* An early failure calls cleanup_system with its error.
LEMMA EarlyFailCalls ==
  ASSUME NEW r \in Retvals, r # Success, r # {"SHUTDOWN"}, EarlyFail(r),
         UNCHANGED <<unlockVars, misread>>
  PROVE  /\ mpc' = "cleanup"
         /\ CallsCleanup \/ (UNCHANGED <<cpc, cret>> /\ machine' = "panic")
BY DEF EarlyFail, CallsCleanup

LEMMA MainEffect ==
  ASSUME InitTypeOK, UnlockInv, CleanRets, PlacesBuilt, MainStep
  PROVE  /\ MainRuns /\ mpc # "cleanup" /\ mpc' \in MainPlaces
         /\ UNCHANGED <<cmdline, sig, wiped>>
         /\ CallsCleanup \/ (UNCHANGED <<cpc, cret>> /\ machine' \in {"running", "panic"})
         /\ Reads
         /\ mpc' = "challenge" => mpc = "challenge" \/ cmdline = "prompt" \/ misread'
         /\ UNCHANGED unlockVars \/ (mpc = "challenge" /\ UNCHANGED <<initVars>>)
         /\ daemon' \in [Daemons -> DaemonStates]
         /\ \A d \in Daemons : daemon'[d] # "off" => daemon[d] # "off" \/ Launches(d)
         /\ \A d \in Daemons : daemon'[d] = "created" => daemon[d] = "created"
         /\ sysfs' \in BOOLEAN
         /\ PlacesBuilt'
<1> USE DEF InitTypeOK, MainRuns
<1>00. UNCHANGED misread => Reads
  BY DEF Reads
<1>0. /\ {{"SYSFS"}, {"NET"}, {"VLAN"}, MinusOne, {"SSH"}, {"REGEX"}, {"SHUTDOWN"}}
           \subseteq Retvals
      /\ {{"SYSFS"}, {"NET"}, {"VLAN"}, MinusOne, {"SSH"}, {"REGEX"}}
           \cap {Success, {"SHUTDOWN"}} = {}
      /\ {"SHUTDOWN"} # Success
  <2>1. "NET" \in MinusOne
    BY DEF MinusOne, RetvalFlags
  <2> QED
    BY <2>1 DEF Retvals, RetvalFlags, MinusOne, Success
<1>1. CASE MountSys
  BY <1>0, <1>00, <1>1, EarlyFailCalls DEF MountSys, Advance, EarlyFail, MainPlaces, PlacesBuilt
<1>2. CASE SetupNetwork
  <2>1. daemon' = daemon \/ (DHCP /\ daemon' = [daemon EXCEPT !["dhcp"] = "launched"])
    BY <1>2 DEF SetupNetwork
  <2>2. /\ daemon' \in [Daemons -> DaemonStates]
        /\ \A d \in Daemons : daemon'[d] # "off" => daemon[d] # "off" \/ Launches(d)
        /\ \A d \in Daemons : daemon'[d] = "created" => daemon[d] = "created"
    BY <1>2, <2>1 DEF SetupNetwork, PlacesBuilt, Launches, Daemons, DaemonStates
  <2> QED
    BY <1>0, <1>00, <1>2, <2>2, EarlyFailCalls
    DEF SetupNetwork, NetworkErrors, Advance, EarlyFail, MainPlaces, PlacesBuilt
<1>3. CASE StartSsh
  <2>1. /\ daemon' \in [Daemons -> DaemonStates]
        /\ \A d \in Daemons : daemon'[d] # "off" => daemon[d] # "off" \/ Launches(d)
        /\ \A d \in Daemons : daemon'[d] = "created" => daemon[d] = "created"
    BY <1>3 DEF StartSsh, PlacesBuilt, Launches, Daemons, DaemonStates
  <2> QED
    BY <1>0, <1>00, <1>3, <2>1, EarlyFailCalls
    DEF StartSsh, Advance, EarlyFail, MainPlaces, PlacesBuilt
<1>4. CASE StartTor
  <2>1. /\ daemon' \in [Daemons -> DaemonStates]
        /\ \A d \in Daemons : daemon'[d] # "off" => daemon[d] # "off" \/ Launches(d)
        /\ \A d \in Daemons : daemon'[d] = "created" => daemon[d] = "created"
    BY <1>4 DEF StartTor, PlacesBuilt, Launches, Daemons, DaemonStates
  <2> QED
    BY <1>00, <1>4, <2>1 DEF StartTor, Advance, MainPlaces, PlacesBuilt
<1>5. CASE Act
  <2>1. CASE mpc' = "cleanup"
    BY <1>0, <1>00, <1>5, <2>1 DEF Act, CallsCleanup, MainPlaces, PlacesBuilt
  <2>2. CASE mpc' = "challenge" /\ NoOrder /\ UNCHANGED <<cpc, cret>>
    <3>1. Reads
      BY <2>2 DEF NoOrder, Reads
    <3>2. cmdline = "prompt" \/ misread'
      BY <2>2 DEF NoOrder
    <3> QED
      BY <1>5, <2>2, <3>1, <3>2 DEF Act, MainPlaces, PlacesBuilt
  <2> QED
    BY <1>5, <2>1, <2>2 DEF Act
<1>6. CASE MainChallenge
  BY <1>00, <1>6 DEF MainChallenge, initVars, PlacesBuilt
<1>7. CASE MainCleanup
  <2>1. ret[Pid1] \in Retvals /\ ret[Pid1] # {"SHUTDOWN"}
    BY DEF UnlockInv, UnlockTypeOK, CleanRets
  <2> QED
    BY <1>00, <1>7, <2>1 DEF MainCleanup, CallsCleanup, Succeeded, MainPlaces, PlacesBuilt
<1> QED
  BY <1>1, <1>2, <1>3, <1>4, <1>5, <1>6, <1>7 DEF MainStep

-----------------------------------------------------------------------------
(* What the steps of the others are to the rest of the boot.               *)

\* A sub-prompt reports only a challenge that succeeded, and begins one only
\* when the kernel command line says so.
LEMMA SubPromptEffect ==
  ASSUME NEW p \in Remote, InitTypeOK, UnlockTypeOK, SubPrompt(p)
  PROVE  /\ OthersRun
         /\ UNCHANGED <<cmdline, mpc, cpc, cret, sysfs, wiped, machine>>
         /\ UnlockStep(p)
         /\ sig' \in BOOLEAN /\ (sig' => sig \/ (Succeeded(p) /\ Leave(p)))
         /\ Reads
         /\ pc[p] = "idle" => cmdline = "prompt" \/ misread'
         /\ daemon' \in [Daemons -> DaemonStates]
         /\ \A d \in Daemons : daemon'[d] \in {"off", daemon[d]}
<1> USE DEF InitTypeOK
<1>1. UnlockStep(p)
  BY DEF SubPrompt, UnlockStep
<1>2. CASE MayPrompt(p) /\ Begin(p)
           /\ UNCHANGED <<cmdline, mpc, cpc, cret, sig, daemon, sysfs, wiped, machine>>
  <2>1. Reads /\ (cmdline = "prompt" \/ misread')
    BY <1>2 DEF MayPrompt, NoOrder, Reads
  <2> QED
    BY <1>1, <1>2, <2>1 DEF SubPrompt
<1>3. CASE (Challenge(p) \/ (p # Clone /\ Hangup(p))) /\ UNCHANGED initVars
  <2>1. pc[p] # "idle"
    BY <1>3 DEF Challenge, EnterKey, ShellExit, Work, Probe, Activate, ProbeLvm, ProbeRoot, Hangup
  <2> QED
    BY <1>1, <1>3, <2>1 DEF SubPrompt, initVars, Reads
<1>4. CASE Leave(p) /\ sig' = (sig \/ Reports(p)) /\ CloneGone(p)
           /\ UNCHANGED <<cmdline, misread, mpc, cpc, cret, sysfs, wiped, machine>>
  <2>1. sig' \in BOOLEAN /\ (sig' => sig \/ (Succeeded(p) /\ Leave(p)))
    BY <1>4 DEF Reports, Succeeded
  <2>2. /\ daemon' \in [Daemons -> DaemonStates]
        /\ \A d \in Daemons : daemon'[d] \in {"off", daemon[d]}
    BY <1>4 DEF CloneGone, DaemonStates
  <2>3. pc[p] # "idle"
    BY <1>4 DEF Leave
  <2> QED
    BY <1>1, <1>4, <2>1, <2>2, <2>3 DEF SubPrompt, Reads
<1> QED
  BY <1>2, <1>3, <1>4 DEF SubPrompt

\* A daemon moves by itself, from a state in which it runs.
LEMMA DaemonEffect ==
  ASSUME NEW d \in Daemons, InitTypeOK, DaemonWrites(d) \/ DaemonDies(d)
  PROVE  /\ machine = "running"
         /\ UNCHANGED <<unlockVars, cmdline, misread, mpc, cpc, cret, sig, sysfs, wiped, machine>>
         /\ daemon[d] \in {"launched", "created", "up"}
         /\ \E s \in DaemonStates \ {"off"} :
              /\ daemon' = [daemon EXCEPT ![d] = s]
              /\ s = "created" => "pid_file" \in Faults
         /\ daemon' \in [Daemons -> DaemonStates]
BY DEF DaemonWrites, DaemonDies, InitTypeOK, DaemonStates

\* The handler starts.
LEMMA HandleEffect ==
  ASSUME InitTypeOK, Handle
  PROVE  /\ MainRuns /\ sig /\ sig' = FALSE
         /\ UNCHANGED <<unlockVars, cmdline, misread, mpc, daemon, sysfs, wiped, machine>>
         /\ \E s \in {FirstStop, "stuck"} : cpc' = [cpc EXCEPT !["handler"] = s]
         /\ cret' \in [Frames -> Retvals] /\ cret'["main"] = cret["main"]
         /\ cpc'["handler"] # "stuck" => cret'["handler"] = Success
<1>1. Success \in Retvals /\ FirstStop # "stuck"
  BY DEF Success, Retvals, FirstStop
<1> QED
  BY <1>1 DEF Handle, Cleanup, InitTypeOK, Frames

\* Every state has its types.
LEMMA InitTypeStep ==
  ASSUME InitTypeOK, UnlockInv, CleanRets, PlacesBuilt, BootNext
  PROVE  InitTypeOK' /\ PlacesBuilt'
<1> USE DEF InitTypeOK
<1>0. FirstStop \in Stages /\ {"failed", "return", "idle", "stuck"} \subseteq Stages
      /\ "cleanup" \in MainPlaces /\ {"restart", "off", "booted", "panic"} = Endings
  BY DEF FirstStop, Stages, Teardown, MainPlaces, Endings
<1>1. CASE MainStep
  <2>1. /\ mpc' \in MainPlaces /\ UNCHANGED <<cmdline, sig, wiped>> /\ Reads
        /\ CallsCleanup \/ (UNCHANGED <<cpc, cret>> /\ machine' \in {"running", "panic"})
        /\ daemon' \in [Daemons -> DaemonStates] /\ sysfs' \in BOOLEAN
        /\ PlacesBuilt'
    BY <1>1, MainEffect
  <2>2. CallsCleanup => cpc' \in [Frames -> Stages] /\ cret' \in [Frames -> Retvals]
                        /\ machine' = machine
    <3>1. ASSUME NEW r \in Retvals, Cleanup("main", r)
          PROVE  cpc' \in [Frames -> Stages] /\ cret' \in [Frames -> Retvals]
      <4>1. PICK s \in {FirstStop, "failed"} : cpc' = [cpc EXCEPT !["main"] = s]
        BY <3>1 DEF Cleanup
      <4>2. cret' = [cret EXCEPT !["main"] = r]
        BY <3>1 DEF Cleanup
      <4> QED
        BY <1>0, <4>1, <4>2
    <3> QED
      BY <3>1 DEF CallsCleanup
  <2> QED
    BY <1>0, <2>1, <2>2 DEF Reads
<1>2. CASE Handle
  <2>1. PICK s \in {FirstStop, "stuck"} : cpc' = [cpc EXCEPT !["handler"] = s]
    BY <1>2, HandleEffect
  <2>2. cpc' \in [Frames -> Stages] /\ cret' \in [Frames -> Retvals]
    BY <1>0, <1>2, <2>1, HandleEffect
  <2> QED
    BY <1>2, <2>2, HandleEffect DEF PlacesBuilt
<1>3. ASSUME NEW f \in Frames, CleanupStep(f) PROVE InitTypeOK' /\ PlacesBuilt'
  BY <1>0, <1>3, CleanupEffect DEF Proceeds, Retires, Ends, PlacesBuilt
<1>4. ASSUME NEW p \in Remote, SubPrompt(p) PROVE InitTypeOK' /\ PlacesBuilt'
  BY <1>4, SubPromptEffect DEF UnlockInv, PlacesBuilt, Reads
<1>5. ASSUME NEW d \in Daemons, DaemonWrites(d) \/ DaemonDies(d)
      PROVE  InitTypeOK' /\ PlacesBuilt'
  BY <1>5, DaemonEffect DEF PlacesBuilt
<1> QED
  BY <1>1, <1>2, <1>3, <1>4, <1>5 DEF BootNext

-----------------------------------------------------------------------------
(* The invariant that survives every fault.                                *)

\* Where Cleanup leaves the frame that calls it.
LEMMA CleanupStart ==
  ASSUME NEW f \in Frames, NEW r \in Retvals, InitTypeOK, Cleanup(f, r)
  PROVE  /\ cret' = [cret EXCEPT ![f] = r]
         /\ cpc'[f] \in {FirstStop, "failed"}
         /\ cpc'[f] \in Teardown => r \in {Success, {"SHUTDOWN"}}
         /\ \A g \in Frames \ {f} : cpc'[g] = cpc[g] /\ cret'[g] = cret[g]
         /\ cret'[f] = r
<1>1. "failed" \notin Teardown
  BY DEF Teardown
<1>2. cpc'[f] = IF r \in {Success, {"SHUTDOWN"}} THEN FirstStop ELSE "failed"
  BY DEF Cleanup, InitTypeOK
<1> QED
  BY <1>1, <1>2 DEF Cleanup, InitTypeOK

\* The first stage is none of the late ones.
LEMMA FirstStopEarly == FirstStop \in {"umount", "tor", "ssh"}
BY DEF FirstStop

\* A boot that is to power off stays locked.
LEMMA LockedStep == RobustInv /\ BootNext => LockedOnShutdown'
<1> SUFFICES ASSUME RobustInv, BootNext PROVE LockedOnShutdown'
  OBVIOUS
<1> USE DEF RobustInv, LockedOnShutdown
<1>0. CleanRets /\ CleanRets'
  BY BootStepRest DEF CleanRets
<1>1. ASSUME UNCHANGED <<cpc, cret, cmdline, mpc>>, machine' # "off" \/ machine' = machine,
             Reads, UNCHANGED unlockVars \/ cmdline = "prompt" \/ misread'
      PROVE  LockedOnShutdown'
  BY <1>0, <1>1 DEF CleanRets, Reads, unlockVars, localVars, kernelVars, Teardown, InitTypeOK
<1>2. ASSUME UNCHANGED <<unlockVars, cmdline, misread, machine>>,
             mpc' = "challenge" => mpc = "challenge",
             NEW f \in Frames,
             \A g \in Frames \ {f} : cpc'[g] = cpc[g] /\ cret'[g] = cret[g],
             cpc'[f] \in Teardown /\ "SHUTDOWN" \in cret'[f] => cmdline = "shutdown",
             cpc'[f] = "poweroff" => "SHUTDOWN" \in cret'[f]
      PROVE  LockedOnShutdown'
  BY <1>0, <1>2 DEF CleanRets, unlockVars, localVars, kernelVars, InitTypeOK
<1>3. CASE MainStep
  <2>1. /\ MainRuns /\ UNCHANGED <<cmdline>> /\ Reads
        /\ CallsCleanup \/ (UNCHANGED <<cpc, cret>> /\ machine' \in {"running", "panic"})
        /\ mpc' = "challenge" => mpc = "challenge" \/ cmdline = "prompt" \/ misread'
        /\ UNCHANGED unlockVars \/ (mpc = "challenge" /\ UNCHANGED initVars)
    BY <1>0, <1>3, MainEffect
  <2>2. CASE CallsCleanup
    <3>1. PICK r \in Retvals : Cleanup("main", r) /\ (r = {"SHUTDOWN"} => cmdline = "shutdown")
      BY <2>2 DEF CallsCleanup
    <3>2. "main" \in Frames /\ "SHUTDOWN" \notin Success
      BY DEF Frames, Success
    <3>3. UNCHANGED <<unlockVars, cmdline, misread, machine>> /\ mpc' = "cleanup"
      BY <2>1, <2>2 DEF CallsCleanup
    <3> QED
      BY <1>2, <2>1, <3>1, <3>2, <3>3, CleanupStart, FirstStopEarly
  <2>3. CASE UNCHANGED <<cpc, cret>> /\ machine' \in {"running", "panic"} /\ UNCHANGED unlockVars
    BY <1>0, <2>1, <2>3 DEF CleanRets, Reads, unlockVars, localVars, kernelVars, InitTypeOK
  <2>4. CASE mpc = "challenge" /\ UNCHANGED initVars
    BY <1>1, <2>1, <2>4 DEF initVars, InitTypeOK
  <2> QED
    BY <2>1, <2>2, <2>3, <2>4
<1>4. CASE Handle
  <2>1. "handler" \in Frames /\ "stuck" \notin Teardown /\ "SHUTDOWN" \notin Success
    BY DEF Frames, Teardown, Success
  <2>2. \A g \in Frames \ {"handler"} : cpc'[g] = cpc[g] /\ cret'[g] = cret[g]
    BY <1>4, HandleEffect DEF Frames, InitTypeOK
  <2>3. cpc'["handler"] \in {FirstStop, "stuck"}
    BY <1>4, <2>1, HandleEffect DEF InitTypeOK
  <2> QED
    BY <1>2, <1>4, <2>1, <2>2, <2>3, HandleEffect, FirstStopEarly
<1>5. ASSUME NEW f \in Frames, CleanupStep(f) PROVE LockedOnShutdown'
  <2>1. UNCHANGED <<unlockVars, cmdline, misread, mpc>>
    BY <1>5, CleanupEffect
  <2>2. CASE \E b \in Stages : Proceeds(f, b)
    BY <1>2, <2>1, <2>2 DEF Proceeds, Follows, Teardown, InitTypeOK
  <2>3. CASE Retires(f)
    <3>1. cpc'[f] \in {"failed", "return", "idle"}
      BY <2>3 DEF Retires, InitTypeOK
    <3>2. \A g \in Frames \ {f} : cpc'[g] = cpc[g] /\ cret'[g] = cret[g]
      BY <2>3 DEF Retires, InitTypeOK
    <3> QED
      BY <1>2, <2>1, <2>3, <3>1, <3>2 DEF Retires, Teardown
  <2>4. CASE Ends(f)
    <3>1. machine' = "off" => cmdline = "shutdown"
      BY <2>4 DEF Ends, Teardown
    <3> QED
      BY <1>0, <2>1, <2>4, <3>1 DEF CleanRets, unlockVars, localVars, kernelVars, Ends
  <2> QED
    BY <1>5, <2>2, <2>3, <2>4, CleanupEffect
<1>6. ASSUME NEW p \in Remote, SubPrompt(p) PROVE LockedOnShutdown'
  <2>1. /\ UNCHANGED <<cmdline, mpc, cpc, cret, machine>> /\ Reads
        /\ pc[p] = "idle" => cmdline = "prompt" \/ misread'
    BY <1>6, SubPromptEffect DEF UnlockInv
  <2>2. p \in Procs
    BY DEF Remote
  <2>3. cmdline = "prompt" \/ misread'
    BY <2>1, <2>2 DEF InitTypeOK, Reads
  <2> QED
    BY <1>1, <2>1, <2>3
<1>7. ASSUME NEW d \in Daemons, DaemonWrites(d) \/ DaemonDies(d) PROVE LockedOnShutdown'
  BY <1>1, <1>7, DaemonEffect DEF Reads, InitTypeOK
<1> QED
  BY <1>3, <1>4, <1>5, <1>6, <1>7 DEF BootNext

\* What comes after mount_switch_root's checks has a mounted root.
LEMMA RootStep == RobustInv /\ BootNext => RootWhenWiped'
<1> SUFFICES ASSUME RobustInv, BootNext PROVE RootWhenWiped'
  OBVIOUS
<1> USE DEF RobustInv, RootWhenWiped
<1>0. CleanRets /\ (rootfs # NoDev => rootfs' # NoDev)
  BY BootStepRest DEF CleanRets, LockedOnShutdown
<1>1. ASSUME UNCHANGED wiped, machine' # "booted" \/ machine' = machine,
             \A f \in Frames : cpc'[f] = cpc[f] \/ cpc'[f] \notin {"wipe", "move", "exec"}
      PROVE  RootWhenWiped'
  BY <1>0, <1>1
<1>2. CASE MainStep
  <2>1. UNCHANGED wiped /\ MainRuns
        /\ (CallsCleanup \/ (UNCHANGED <<cpc, cret>> /\ machine' \in {"running", "panic"}))
    BY <1>0, <1>2, MainEffect
  <2>2. CASE CallsCleanup
    <3>1. PICK r \in Retvals : Cleanup("main", r)
      BY <2>2 DEF CallsCleanup
    <3> QED
      BY <1>1, <2>1, <2>2, <3>1, CleanupStart, FirstStopEarly DEF CallsCleanup, Frames
  <2> QED
    BY <1>1, <2>1, <2>2
<1>3. CASE Handle
  <2>1. UNCHANGED <<wiped, machine>>
        /\ \E s \in {FirstStop, "stuck"} : cpc' = [cpc EXCEPT !["handler"] = s]
    BY <1>3, HandleEffect
  <2> QED
    BY <1>1, <2>1, FirstStopEarly DEF Frames, InitTypeOK
<1>4. ASSUME NEW f \in Frames, CleanupStep(f) PROVE RootWhenWiped'
  <2>1. CASE \E b \in Stages : Proceeds(f, b)
    <3>1. PICK b \in Stages : Proceeds(f, b)
      BY <2>1
    <3>2. \A g \in Frames : cpc'[g] = IF g = f THEN b ELSE cpc[g]
      BY <3>1 DEF Proceeds, InitTypeOK
    <3>3. b \in {"wipe", "move", "exec"} => rootfs # NoDev
      BY <3>1 DEF Proceeds, Follows
    <3>4. wiped' => wiped \/ rootfs # NoDev
      BY <3>1 DEF Proceeds
    <3> QED
      BY <1>0, <3>1, <3>2, <3>3, <3>4 DEF Proceeds
  <2>2. CASE Retires(f)
    BY <1>1, <2>2 DEF Retires, InitTypeOK
  <2>3. CASE Ends(f)
    BY <1>0, <2>3 DEF Ends
  <2> QED
    BY <1>4, <2>1, <2>2, <2>3, CleanupEffect
<1>5. ASSUME NEW p \in Remote, SubPrompt(p) PROVE RootWhenWiped'
  BY <1>1, <1>5, SubPromptEffect DEF UnlockInv
<1>6. ASSUME NEW d \in Daemons, DaemonWrites(d) \/ DaemonDies(d) PROVE RootWhenWiped'
  BY <1>1, <1>6, DaemonEffect
<1> QED
  BY <1>2, <1>3, <1>4, <1>5, <1>6 DEF BootNext

\* The boot starts in the invariant.
LEMMA RobustInit == BootInit => RobustInv
<1> SUFFICES ASSUME BootInit PROVE RobustInv
  OBVIOUS
<1>1. UnlockInv
  BY InitInv DEF BootInit
<1>2. InitTypeOK /\ PlacesBuilt
  BY DEF BootInit, InitTypeOK, PlacesBuilt, MainPlaces, Stages, DaemonStates, Success, Retvals
<1>3. LockedOnShutdown /\ RootWhenWiped
  BY DEF BootInit, UnlockInit, LockedOnShutdown, RootWhenWiped, Teardown, Success
<1> QED
  BY <1>1, <1>2, <1>3 DEF RobustInv

\* Stuttering keeps it.
LEMMA RobustStutter == RobustInv /\ UNCHANGED bootVars => RobustInv'
<1> SUFFICES ASSUME RobustInv, UNCHANGED bootVars PROVE RobustInv'
  OBVIOUS
<1> USE DEF RobustInv, bootVars, initVars
<1>1. UnlockInv'
  BY StutterInv
<1>2. InitTypeOK' /\ PlacesBuilt'
  BY DEF InitTypeOK, PlacesBuilt
<1>3. LockedOnShutdown' /\ RootWhenWiped'
  BY DEF LockedOnShutdown, RootWhenWiped, unlockVars, localVars, kernelVars
<1> QED
  BY <1>1, <1>2, <1>3

\* Every step keeps it.
LEMMA RobustStep == RobustInv /\ BootNext => RobustInv'
<1> SUFFICES ASSUME RobustInv, BootNext PROVE RobustInv'
  OBVIOUS
<1>1. CleanRets
  BY DEF RobustInv, LockedOnShutdown, CleanRets
<1>2. UnlockInv' /\ InitTypeOK' /\ PlacesBuilt'
  BY <1>1, BootStepRest, InitTypeStep DEF RobustInv
<1> QED
  BY <1>2, LockedStep, RootStep DEF RobustInv

\* The invariant holds in every state of a boot, whatever fails.
THEOREM RobustInvariant == BootSafety => []RobustInv
<1>1. RobustInv /\ [BootNext]_bootVars => RobustInv'
  BY RobustStep, RobustStutter
<1> QED
  BY RobustInit, <1>1, PTL DEF BootSafety

\* The types of a boot.
THEOREM BootTypeCorrect == BootSafety => []BootTypeOK
<1>1. RobustInv => BootTypeOK
  BY DEF RobustInv, UnlockInv, InitTypeOK, BootTypeOK
<1> QED
  BY RobustInvariant, <1>1, PTL

\* A boot with ifdy=shutdown opens nothing and never reaches the real init,
\* whatever fails but the reading of the command line.
THEOREM PowersOffLocked == BootSafety => []PowerOffLocked
<1>1. RobustInv => PowerOffLocked
  BY DEF RobustInv, LockedOnShutdown, RootWhenWiped, PowerOffLocked
<1> QED
  BY RobustInvariant, <1>1, PTL

\* mount_rmtree removes the files of the initrd only when every volume is open
\* and a root file system is mounted, whatever else goes wrong.
THEOREM WipesOnlyUnlocked == BootSafety => []WipeOnlyUnlocked
<1>1. RobustInv => WipeOnlyUnlocked
  BY DEF RobustInv, RootWhenWiped, UnlockInv, MountedLast, WipeOnlyUnlocked
<1> QED
  BY RobustInvariant, <1>1, PTL

\* One boot implements its abstraction: it leaves the initrd into the real init
\* only unlocked, is powered off only locked, or else after an order that was not
\* read, and ends once.
THEOREM StagesImplemented == BootSafety => ImplementsStages
<1> DEFINE Stutters == UNCHANGED <<Phase, misread>>
<1> USE DEF Phase
<1>1. BootInit => S!StagesInit
  BY DEF BootInit, UnlockInit, S!StagesInit
<1>2. ASSUME RobustInv, BootNext PROVE S!StagesNext \/ Stutters
  <2> USE DEF S!StagesNext, S!Unlocks, S!Boots, S!PowersOff, S!GivesUp, S!GoesBlind
  <2>0. CleanRets /\ InitTypeOK /\ UnlockInv /\ PlacesBuilt
    BY <1>2 DEF RobustInv, LockedOnShutdown, CleanRets
  <2>1. rootfs # NoDev => rootfs' # NoDev
    BY <1>2, <2>0, BootStepRest
  <2>2. ASSUME UNCHANGED <<machine, misread>>, machine = "running"
        PROVE  S!StagesNext \/ Stutters
    BY <2>1, <2>2
  <2>3. ASSUME machine = "running", machine' \in {"restart", "panic"}, UNCHANGED misread
        PROVE  S!StagesNext
    <3>1. machine' # "running" /\ Phase' = machine'
      BY <2>3
    <3>2. Phase \in {"locked", "unlocked"}
      BY <2>3
    <3> QED
      BY <2>3, <3>1, <3>2
  <2>4. ASSUME machine = "running", UNCHANGED <<machine, rootfs>>, Reads
        PROVE  S!StagesNext \/ Stutters
    <3>1. misread' = misread \/ misread' = TRUE
      BY <2>0, <2>4 DEF Reads, InitTypeOK
    <3>2. UNCHANGED Phase /\ Phase \in {"locked", "unlocked"}
      BY <2>4
    <3> QED
      BY <3>1, <3>2
  <2>5. CASE MainStep
    <3>1. /\ MainRuns /\ (CallsCleanup \/ machine' \in {"running", "panic"}) /\ Reads
          /\ UNCHANGED unlockVars \/ UNCHANGED initVars
      BY <2>0, <2>5, MainEffect
    <3>2. CASE UNCHANGED <<machine, unlockVars>>
      BY <2>4, <3>1, <3>2 DEF MainRuns, unlockVars, kernelVars
    <3>3. CASE UNCHANGED initVars
      BY <2>2, <3>1, <3>3 DEF MainRuns, initVars
    <3>4. CASE machine' = "panic"
      <4>1. UNCHANGED misread
        BY <2>5, <3>1, <3>4 DEF MainRuns, MainStep, MountSys, SetupNetwork, StartSsh, StartTor,
           Act, MainChallenge, MainCleanup, initVars
      <4> QED
        BY <2>3, <3>1, <3>4, <4>1 DEF MainRuns
    <3> QED
      BY <3>1, <3>2, <3>3, <3>4 DEF MainRuns, CallsCleanup
  <2>6. CASE Handle
    BY <2>0, <2>2, <2>6, HandleEffect DEF MainRuns
  <2>7. ASSUME NEW f \in Frames, CleanupStep(f) PROVE S!StagesNext \/ Stutters
    <3>1. machine = "running" /\ UNCHANGED <<unlockVars, cmdline, misread>>
          /\ (UNCHANGED machine \/ Ends(f))
      BY <2>0, <2>7, CleanupEffect DEF Proceeds, Retires
    <3>2. CASE Ends(f)
      <4>1. rootfs' = rootfs
        BY <3>1 DEF unlockVars, kernelVars
      <4>2. machine' = "booted" => rootfs # NoDev
        BY <1>2, <3>2 DEF Ends, RobustInv, RootWhenWiped
      <4>3. machine' = "off" => misread \/ rootfs = NoDev
        BY <1>2, <3>2 DEF Ends, RobustInv, LockedOnShutdown, Teardown
      <4>4. misread \in BOOLEAN
        BY <2>0 DEF InitTypeOK
      <4>5. machine' = "off" => S!PowersOff /\ UNCHANGED misread
        BY <3>1, <4>3, <4>4
      <4> QED
        BY <2>3, <3>1, <3>2, <4>1, <4>2, <4>5 DEF Ends
    <3> QED
      BY <2>2, <3>1, <3>2
  <2>8. ASSUME NEW p \in Remote, SubPrompt(p) PROVE S!StagesNext \/ Stutters
    <3>1. UNCHANGED machine /\ OthersRun /\ Reads
      BY <2>0, <2>8, SubPromptEffect DEF UnlockInv
    <3>2. UNCHANGED misread \/ (UNCHANGED rootfs /\ machine = "running")
      BY <2>8 DEF SubPrompt, initVars, MayPrompt, Begin, kernelVars
    <3>3. machine # "running" => Phase' = machine /\ Phase = machine
      BY <3>1
    <3> QED
      BY <2>2, <2>4, <3>1, <3>2, <3>3
  <2>9. ASSUME NEW d \in Daemons, DaemonWrites(d) \/ DaemonDies(d)
        PROVE  S!StagesNext \/ Stutters
    BY <2>0, <2>2, <2>9, DaemonEffect
  <2> QED
    BY <1>2, <2>5, <2>6, <2>7, <2>8, <2>9 DEF BootNext
<1>3. UNCHANGED bootVars => Stutters
  BY DEF bootVars, initVars, unlockVars, kernelVars
<1> QED
  BY RobustInvariant, <1>1, <1>2, <1>3, PTL DEF BootSafety, ImplementsStages, S!StagesSpec

-----------------------------------------------------------------------------
(* The invariant of a teardown that finds every pid file as it should be.  *)

\* Once nobody can succeed any more, nobody ever does.
LEMMA SpentStays == UnlockInv /\ Spent /\ BootNext => Spent'
<1> SUFFICES ASSUME UnlockInv, Spent, BootNext PROVE Spent'
  OBVIOUS
<1>1. CASE UNCHANGED unlockVars
  BY <1>1 DEF Spent, Held, Winner, Succeeded, unlockVars, localVars, kernelVars
<1>2. CASE UnlockNext
  <2>1. PICK p \in Procs : UnlockStep(p)
    BY <1>2 DEF UnlockNext
  <2>2. Stranded
    BY DEF Spent, Stranded, UnlockInv, MountedLast, Vols
  <2> QED
    BY <2>1, <2>2, StrandedStep DEF Stranded, Spent
<1> QED
  BY <1>1, <1>2, BootStepUnlock

\* The sub-prompt that unlocked the host is gone when it has reported.
LEMMA ReportSpends ==
  ASSUME NEW p \in Procs, UnlockInv, Succeeded(p), Leave(p)
  PROVE  Spent'
<1>1. Held(p) # {}
  BY DEF Held, Winner, Succeeded, Vols
<1>2. \A q \in Procs \ {p} : Held(q) = {}
  BY <1>1 DEF UnlockInv, HeldIsActive
<1>3. OthersRest(p) /\ Held(p)' = {} /\ rootfs' = rootfs
  BY DEF Leave, Vanish, OthersRest, Held, Winner, Succeeded, kernelVars, UnlockInv, UnlockTypeOK
<1>4. \A q \in Procs \ {p} : Held(q)' = {}
  BY <1>2, <1>3, OthersSame
<1> QED
  BY <1>3, <1>4 DEF Spent, UnlockInv, MountedLast

\* Who has succeeded holds the host, so nobody else has, and it is not spent.
LEMMA SucceedsAlone ==
  ASSUME NEW p \in Procs, NEW q \in Procs, UnlockInv, Succeeded(p)
  PROVE  ~Spent /\ (Succeeded(q) => p = q)
<1>1. Held(p) # {} /\ (Succeeded(q) => Held(q) # {})
  BY DEF Held, Winner, Succeeded, Vols
<1> QED
  BY <1>1 DEF UnlockInv, HeldIsActive, Spent

\* Pid files stay whole.
LEMMA PidFilesStep ==
  ASSUME "pid_file" \notin Faults, RobustInv, PidFilesWhole, BootNext
  PROVE  PidFilesWhole'
<1> USE DEF PidFilesWhole
<1>0. InitTypeOK /\ UnlockInv /\ PlacesBuilt /\ CleanRets
  BY DEF RobustInv, LockedOnShutdown, CleanRets
<1>1. CASE MainStep
  BY <1>0, <1>1, MainEffect
<1>2. CASE Handle
  BY <1>0, <1>2, HandleEffect
<1>3. ASSUME NEW f \in Frames, CleanupStep(f) PROVE PidFilesWhole'
  <2>1. CASE UNCHANGED daemon
    BY <2>1
  <2>2. ASSUME NEW d \in Daemons, NEW flag, NEW b,
               NEW K \in SUBSET StopResults(d), Stop(f, d, K, flag, b)
        PROVE  PidFilesWhole'
    <3>1. PICK k \in StopResults(d) : daemon' = [daemon EXCEPT ![d] = k[2]]
      BY <2>2 DEF Stop
    <3>2. k[2] \in {daemon[d], "signalled"}
      BY StopResult
    <3> QED
      BY <1>0, <3>1, <3>2 DEF InitTypeOK
  <2> QED
    BY <1>3, <2>1, <2>2, StopCalls DEF CleanupStep, StopTor, StopSsh, StopNetwork, UmountSys,
       CheckRoot, Wipe, MoveRoot, ExecInit, Reboot, Return, Daemons
<1>4. ASSUME NEW p \in Remote, SubPrompt(p) PROVE PidFilesWhole'
  BY <1>0, <1>4, SubPromptEffect DEF UnlockInv
<1>5. ASSUME NEW d \in Daemons, DaemonWrites(d) \/ DaemonDies(d) PROVE PidFilesWhole'
  BY <1>0, <1>5, DaemonEffect DEF InitTypeOK
<1> QED
  BY <1>1, <1>2, <1>3, <1>4, <1>5 DEF BootNext

\* Success is reported once.
LEMMA ReportedStep ==
  ASSUME RobustInv, PidFilesWhole, ReportedOnce, BootNext
  PROVE  ReportedOnce'
<1> USE DEF ReportedOnce
<1>0. InitTypeOK /\ UnlockInv /\ PlacesBuilt /\ CleanRets
  BY DEF RobustInv, LockedOnShutdown, CleanRets
<1>1. Spent => Spent'
  BY <1>0, SpentStays
<1>2. Pid1 \in Procs /\ Frames = {"main", "handler"}
      /\ "SHUTDOWN" \notin Success /\ "switch" \in Teardown
      /\ \A s \in {"failed", "return", "idle", "stuck"} : s \notin Teardown
  BY DEF Frames, Success, Teardown
<1>3. UNCHANGED unlockVars => Succeeded(Pid1)' = Succeeded(Pid1)
  BY DEF Succeeded, unlockVars, localVars
<1>4. CASE MainStep
  <2>1. /\ MainRuns /\ mpc # "cleanup" /\ UNCHANGED sig
        /\ CallsCleanup \/ (UNCHANGED <<cpc, cret>> /\ machine' \in {"running", "panic"})
    BY <1>0, <1>4, MainEffect
  <2>2. CASE CallsCleanup
    <3>1. PICK r \in Retvals : Cleanup("main", r) /\ (r = Success => Succeeded(Pid1))
      BY <2>2 DEF CallsCleanup
    <3>2. /\ cpc'["handler"] = "idle" /\ cpc'["main"] \in {FirstStop, "failed"}
          /\ cret'["main"] = r
          /\ cpc'["main"] \in Teardown => r \in {Success, {"SHUTDOWN"}}
      BY <1>0, <1>2, <2>1, <3>1, CleanupStart DEF MainRuns
    <3> QED
      BY <1>1, <1>2, <1>3, <2>1, <2>2, <3>1, <3>2, FirstStopEarly DEF CallsCleanup, MainRuns
  <2>3. CASE UNCHANGED <<cpc, cret>> /\ machine' \in {"running", "panic"}
    BY <1>1, <2>1, <2>3
  <2> QED
    BY <2>1, <2>2, <2>3
<1>5. CASE Handle
  <2>1. /\ MainRuns /\ sig /\ sig' = FALSE
        /\ UNCHANGED <<unlockVars, mpc, machine>>
        /\ cret'["main"] = cret["main"]
        /\ \E s \in {FirstStop, "stuck"} : cpc' = [cpc EXCEPT !["handler"] = s]
    BY <1>0, <1>5, HandleEffect
  <2>2. cpc'["main"] = cpc["main"] /\ cpc'["handler"] \in {FirstStop, "stuck"}
    BY <1>0, <2>1 DEF InitTypeOK, Frames
  <2> QED
    BY <1>1, <1>2, <1>3, <2>1, <2>2, FirstStopEarly DEF MainRuns
<1>6. ASSUME NEW f \in Frames, CleanupStep(f) PROVE ReportedOnce'
  <2>1. /\ UNCHANGED <<unlockVars, mpc>> /\ machine = "running"
        /\ cpc[f] \notin {"idle", "stuck"}
        /\ (\E b \in Stages : Proceeds(f, b)) \/ Retires(f) \/ Ends(f)
    BY <1>0, <1>6, CleanupEffect
  <2>2. UNCHANGED sig
    BY <1>0, <1>6, CleanupEffect DEF PidFilesWhole
  <2>3. CASE \E b \in Stages : Proceeds(f, b)
    <3>1. PICK b \in Stages : Proceeds(f, b)
      BY <2>3
    <3>2. /\ \A g \in Frames : cpc'[g] = IF g = f THEN b ELSE cpc[g]
          /\ UNCHANGED <<cret, machine>>
          /\ cpc[f] \in Teardown
          /\ b = "switch" => "SHUTDOWN" \notin cret[f]
          /\ b \in {"wipe", "move", "exec"} => cpc[f] \in {"switch", "wipe", "move"}
      BY <1>0, <3>1 DEF InitTypeOK, Proceeds, Follows, Teardown
    <3> QED
      BY <1>1, <1>2, <1>3, <2>1, <2>2, <3>2
  <2>4. CASE Retires(f)
    <3>1. /\ cpc'[f] \in {"failed", "return", "idle"}
          /\ \A g \in Frames \ {f} : cpc'[g] = cpc[g] /\ cret'[g] = cret[g]
          /\ UNCHANGED machine
      BY <1>0, <2>4 DEF Retires, InitTypeOK
    <3> QED
      BY <1>1, <1>2, <1>3, <2>1, <2>2, <3>1
  <2>5. CASE Ends(f)
    <3>1. machine' = "booted" => ~sig /\ (Spent \/ Succeeded(Pid1))
      <4>1. SUFFICES ASSUME cpc[f] = "exec" PROVE ~sig /\ (Spent \/ Succeeded(Pid1))
        BY <2>1, <2>5 DEF Ends
      <4>2. CASE f = "handler"
        BY <4>1, <4>2
      <4>3. CASE f = "main"
        <5>1. cret["main"] # {"SHUTDOWN"}
          BY <4>1, <4>3
        <5>2. Succeeded(Pid1)
          BY <4>1, <4>3, <5>1 DEF Teardown
        <5> QED
          BY <1>0, <1>2, <5>2, SucceedsAlone
      <4> QED
        BY <1>2, <4>2, <4>3
    <3> QED
      BY <1>1, <1>2, <1>3, <2>1, <2>2, <2>5, <3>1 DEF Ends
  <2> QED
    BY <2>1, <2>3, <2>4, <2>5
<1>7. ASSUME NEW p \in Remote, SubPrompt(p) PROVE ReportedOnce'
  <2>0. p \in Procs /\ p # Pid1
    BY DEF Remote
  <2>1. /\ UNCHANGED <<mpc, cpc, cret, machine>> /\ UnlockStep(p)
        /\ sig' => sig \/ (Succeeded(p) /\ Leave(p))
    BY <1>0, <1>7, SubPromptEffect DEF UnlockInv
  <2>2. Succeeded(Pid1)' = Succeeded(Pid1)
    BY <1>0, <1>2, <2>0, <2>1, StepEffect, OthersSame DEF UnlockInv, TypeInv
  <2>3. sig' => Spent'
    BY <1>0, <1>1, <2>0, <2>1, ReportSpends
  <2>4. Spent \/ Succeeded(Pid1) => ~Succeeded(p)
    BY <1>0, <1>2, <2>0, SucceedsAlone
  <2> QED
    BY <1>1, <2>1, <2>2, <2>3, <2>4
<1>8. ASSUME NEW d \in Daemons, DaemonWrites(d) \/ DaemonDies(d) PROVE ReportedOnce'
  BY <1>0, <1>1, <1>3, <1>8, DaemonEffect
<1> QED
  BY <1>4, <1>5, <1>6, <1>7, <1>8 DEF BootNext

\* What a step of cleanup_system does to the daemons and to /sys.
LEMMA CleanupStops ==
  ASSUME "pid_file" \notin Faults, InitTypeOK, PidFilesWhole, DaemonsBuilt,
         NEW f \in Frames, StoppedBy(cpc[f]), CleanupStep(f)
  PROVE  /\ \A d \in Daemons : Quiet(d) => Quiet(d)'
         /\ \A d \in Daemons : daemon[d] = "off" => daemon'[d] = "off"
         /\ ~sysfs => ~sysfs'
         /\ StoppedBy(cpc[f])'
<1> USE DEF InitTypeOK
<1>1. ASSUME UNCHANGED <<daemon, sysfs>>,
             cpc'[f] \notin Teardown
               \/ (cpc[f] \in {"switch", "wipe", "move", "exec", "poweroff"}
                   /\ cpc'[f] \in {"switch", "wipe", "move", "exec", "poweroff"})
      PROVE  StoppedBy(cpc[f])'
  BY <1>1 DEF StoppedBy, Quiet, Teardown
<1>2. {"failed", "return", "idle"} \cap Teardown = {}
      /\ Daemons = {"tor", "ssh", "dhcp"}
  BY DEF Teardown, Daemons
<1>3. ASSUME NEW d \in Daemons, NEW flag, NEW b,
             NEW K \in SUBSET StopResults(d), Stop(f, d, K, flag, b)
      PROVE  /\ UNCHANGED sysfs
             /\ \A e \in Daemons : Quiet(e) => Quiet(e)'
             /\ \A e \in Daemons : daemon[e] = "off" => daemon'[e] = "off"
             /\ cpc'[f] = "failed" \/ (cpc'[f] = b /\ Quiet(d)')
  <2>1. PICK k \in StopResults(d) :
               /\ daemon' = [daemon EXCEPT ![d] = k[2]]
               /\ IF k[1] THEN GoTo(f, b) ELSE Fail(f, flag)
    BY <1>3 DEF Stop
  <2>2. k[2] \in {daemon[d], "signalled"} /\ (k[1] => k[2] = "signalled")
    BY StopResult DEF PidFilesWhole
  <2>3. daemon[d] = "off" => k[2] = "off"
    BY StopResult
  <2>4. cpc'[f] = "failed" \/ (cpc'[f] = b /\ k[1])
    BY <2>1 DEF GoTo, Fail
  <2> QED
    BY <1>3, <2>1, <2>2, <2>3, <2>4 DEF Quiet, Stop
<1>4. CASE StopTor(f) \/ StopSsh(f) \/ (cpc[f] = "net" /\ Stop(f, "dhcp", KillDhcp, "NET", "umount"))
  <2>1. CASE StopTor(f)
    BY <1>2, <1>3, <2>1, StopCalls DEF StopTor, StoppedBy
  <2>2. CASE StopSsh(f)
    BY <1>2, <1>3, <2>2, StopCalls DEF StopSsh, StoppedBy, Teardown
  <2>3. CASE cpc[f] = "net" /\ Stop(f, "dhcp", KillDhcp, "NET", "umount")
    BY <1>2, <1>3, <2>3, StopCalls DEF StoppedBy, Teardown
  <2> QED
    BY <1>4, <2>1, <2>2, <2>3
<1>5. CASE cpc[f] = "net" /\ UNCHANGED <<daemon, sysfs>>
           /\ (Fail(f, "NET") \/ (~DHCP /\ GoTo(f, "umount")))
  <2>1. ~DHCP => Quiet("dhcp")'
    BY <1>5 DEF DaemonsBuilt, Quiet
  <2>2. cpc'[f] = "failed" \/ (~DHCP /\ cpc'[f] = "umount")
    BY <1>5 DEF Fail, GoTo
  <2>3. Quiet("tor")' /\ Quiet("ssh")'
    BY <1>5 DEF StoppedBy, Quiet, Teardown
  <2>4. StoppedBy(cpc[f])'
    BY <1>2, <2>1, <2>2, <2>3 DEF StoppedBy
  <2> QED
    BY <1>5, <2>4 DEF Quiet
<1>6. CASE UmountSys(f)
  <2>1. UNCHANGED daemon /\ (cpc'[f] = "failed" \/ ~sysfs') /\ (~sysfs => ~sysfs')
    BY <1>6 DEF UmountSys, Fail
  <2>2. Quiet("tor")' /\ Quiet("ssh")' /\ Quiet("dhcp")'
    BY <1>6, <2>1 DEF UmountSys, StoppedBy, Quiet, Teardown
  <2> QED
    BY <1>2, <2>1, <2>2 DEF StoppedBy, Quiet
<1>7. CASE CheckRoot(f) \/ Wipe(f) \/ MoveRoot(f)
  <2>1. UNCHANGED <<daemon, sysfs>>
    BY <1>7 DEF CheckRoot, Wipe, MoveRoot
  <2>2. \/ cpc'[f] = "failed"
        \/ cpc[f] \in {"switch", "wipe", "move"} /\ cpc'[f] \in {"switch", "wipe", "move", "exec"}
    BY <1>7 DEF CheckRoot, Wipe, MoveRoot, SwitchFails, Fail, GoTo
  <2> QED
    BY <1>1, <1>2, <2>1, <2>2 DEF Quiet
<1>8. CASE ExecInit(f) \/ Reboot(f) \/ Return(f)
  <2>1. UNCHANGED <<daemon, sysfs>>
    BY <1>8 DEF ExecInit, Reboot, Return
  <2>2. \/ cpc'[f] \in {"failed", "return", "idle"}
        \/ cpc[f] \in {"exec", "poweroff"} /\ cpc'[f] = cpc[f]
    BY <1>8 DEF ExecInit, Reboot, Return, GoTo
  <2> QED
    BY <1>1, <1>2, <2>1, <2>2 DEF Quiet
<1> QED
  BY <1>4, <1>5, <1>6, <1>7, <1>8 DEF CleanupStep, StopNetwork

\* The stages before the one at which a build begins are about nothing.
LEMMA FirstStopStopped == DaemonsBuilt => StoppedBy(FirstStop)
BY DEF DaemonsBuilt, StoppedBy, FirstStop, Quiet, Teardown

\* A teardown goes on to the next stage only when this one is dealt with.
LEMMA StoppedStep ==
  ASSUME "pid_file" \notin Faults, OrderlyInv, BootNext
  PROVE  DaemonsBuilt' /\ StoppedSoFar' /\ HandoverQuiet'
<1>0. /\ InitTypeOK /\ UnlockInv /\ PlacesBuilt /\ CleanRets
      /\ PidFilesWhole /\ DaemonsBuilt
      /\ Daemons = {"tor", "ssh", "dhcp"} /\ Frames = {"main", "handler"}
  BY DEF OrderlyInv, RobustInv, LockedOnShutdown, CleanRets, Daemons, Frames
<1>1. ASSUME \A d \in Daemons : Quiet(d) => Quiet(d)', ~sysfs => ~sysfs',
             \A f \in Frames : cpc'[f] = cpc[f] \/ StoppedBy(cpc[f])'
      PROVE  StoppedSoFar'
  <2>1. ASSUME NEW f \in Frames, cpc'[f] = cpc[f] PROVE StoppedBy(cpc[f])'
    <3>1. StoppedBy(cpc[f])
      BY DEF OrderlyInv, StoppedSoFar
    <3> QED
      BY <1>1, <2>1, <3>1 DEF StoppedBy, Daemons
  <2> QED
    BY <1>1, <2>1 DEF StoppedSoFar
<1>2. ASSUME \A d \in Daemons : Quiet(d) => Quiet(d)', ~sysfs => ~sysfs',
             machine' \in {"booted", "off"} => machine' = machine
      PROVE  HandoverQuiet'
  BY <1>2 DEF OrderlyInv, HandoverQuiet, Quiet
<1>3. CASE MainStep
  <2>1. /\ MainRuns /\ mpc # "cleanup"
        /\ CallsCleanup \/ (UNCHANGED <<cpc, cret>> /\ machine' \in {"running", "panic"})
        /\ \A d \in Daemons : daemon'[d] # "off" => daemon[d] # "off" \/ Launches(d)
    BY <1>0, <1>3, MainEffect
  <2>2. DaemonsBuilt'
    BY <1>0, <2>1 DEF DaemonsBuilt, Launches
  <2>3. cpc["main"] \notin Teardown /\ cpc["handler"] = "idle"
    BY <2>1 DEF OrderlyInv, ReportedOnce, MainRuns
  <2>4. HandoverQuiet'
    BY <2>1 DEF HandoverQuiet, MainRuns, CallsCleanup
  <2>5. \A stage : stage \notin Teardown => StoppedBy(stage)'
    BY DEF StoppedBy
  <2>6. "idle" \notin Teardown /\ "failed" \notin Teardown
    BY DEF Teardown
  <2>7. CASE CallsCleanup
    <3>1. cpc'["handler"] = "idle" /\ cpc'["main"] \in {FirstStop, "failed"}
      BY <1>0, <2>3, <2>7, CleanupStart DEF CallsCleanup
    <3>2. StoppedBy(FirstStop)'
      BY <2>2 DEF DaemonsBuilt, StoppedBy, FirstStop, Quiet, Teardown
    <3>3. StoppedBy(cpc["main"])' /\ StoppedBy(cpc["handler"])'
      BY <2>6, <3>1, <3>2 DEF StoppedBy
    <3> QED
      BY <1>0, <2>2, <2>4, <3>3 DEF StoppedSoFar
  <2>8. CASE UNCHANGED cpc
    <3>1. StoppedBy(cpc["main"])' /\ StoppedBy(cpc["handler"])'
      BY <2>3, <2>6, <2>8 DEF StoppedBy
    <3> QED
      BY <1>0, <2>2, <2>4, <3>1 DEF StoppedSoFar
  <2> QED
    BY <2>1, <2>7, <2>8
<1>4. CASE Handle
  <2>1. /\ UNCHANGED <<daemon, sysfs, machine>>
        /\ cpc'["handler"] \in {FirstStop, "stuck"} /\ cpc'["main"] = cpc["main"]
    BY <1>0, <1>4, HandleEffect DEF InitTypeOK
  <2>2. DaemonsBuilt' /\ \A d \in Daemons : Quiet(d) => Quiet(d)'
    BY <1>0, <2>1 DEF DaemonsBuilt, Quiet
  <2>3. StoppedBy(cpc["handler"])'
    BY <1>0, <2>1, FirstStopStopped DEF StoppedBy, Quiet, Teardown
  <2>4. StoppedSoFar'
    BY <1>0, <1>1, <2>1, <2>2, <2>3
  <2> QED
    BY <1>2, <2>1, <2>2, <2>4
<1>5. ASSUME NEW f \in Frames, CleanupStep(f)
      PROVE  DaemonsBuilt' /\ StoppedSoFar' /\ HandoverQuiet'
  <2>1. /\ \A d \in Daemons : Quiet(d) => Quiet(d)'
        /\ \A d \in Daemons : daemon[d] = "off" => daemon'[d] = "off"
        /\ ~sysfs => ~sysfs'
        /\ StoppedBy(cpc[f])'
    BY <1>0, <1>5, CleanupStops DEF OrderlyInv, StoppedSoFar
  <2>2. \A g \in Frames \ {f} : cpc'[g] = cpc[g]
    BY <1>0, <1>5, CleanupEffect DEF InitTypeOK, Proceeds, Retires, Ends
  <2>3. StoppedSoFar'
    BY <1>1, <2>1, <2>2
  <2>4. HandoverQuiet'
    <3>1. CASE machine' \in {"booted", "off"} => machine' = machine
      BY <1>2, <2>1, <3>1
    <3>2. CASE Ends(f) /\ machine' \in {"booted", "off"}
      <4>1. cpc'[f] \in {"exec", "poweroff"}
        BY <3>2 DEF Ends
      <4>2. Quiet("tor")' /\ Quiet("ssh")' /\ Quiet("dhcp")' /\ ~sysfs'
        BY <2>1, <4>1 DEF StoppedBy, Teardown
      <4> QED
        BY <1>0, <4>2 DEF HandoverQuiet, Quiet
    <3> QED
      BY <1>0, <1>5, <3>1, <3>2, CleanupEffect DEF Proceeds, Retires
  <2>5. DaemonsBuilt'
    BY <1>0, <2>1 DEF DaemonsBuilt
  <2> QED
    BY <2>3, <2>4, <2>5
<1>6. ASSUME NEW p \in Remote, SubPrompt(p)
      PROVE  DaemonsBuilt' /\ StoppedSoFar' /\ HandoverQuiet'
  <2>1. /\ UNCHANGED <<cpc, sysfs, machine>>
        /\ \A d \in Daemons : daemon'[d] \in {"off", daemon[d]}
    BY <1>0, <1>6, SubPromptEffect DEF UnlockInv
  <2>2. DaemonsBuilt' /\ \A d \in Daemons : Quiet(d) => Quiet(d)'
    BY <1>0, <2>1 DEF DaemonsBuilt, Quiet
  <2>3. StoppedSoFar'
    BY <1>1, <2>1, <2>2
  <2> QED
    BY <1>2, <2>1, <2>2, <2>3
<1>7. ASSUME NEW d \in Daemons, DaemonWrites(d) \/ DaemonDies(d)
      PROVE  DaemonsBuilt' /\ StoppedSoFar' /\ HandoverQuiet'
  <2>1. /\ UNCHANGED <<cpc, sysfs, machine>> /\ ~Quiet(d)
        /\ \A e \in Daemons \ {d} : daemon'[e] = daemon[e]
        /\ daemon[d] # "off"
    BY <1>0, <1>7, DaemonEffect DEF InitTypeOK, Quiet
  <2>2. DaemonsBuilt' /\ \A e \in Daemons : Quiet(e) => Quiet(e)'
    BY <1>0, <2>1 DEF DaemonsBuilt, Quiet
  <2>3. StoppedSoFar'
    BY <1>1, <2>1, <2>2
  <2> QED
    BY <1>2, <2>1, <2>2, <2>3
<1> QED
  BY <1>3, <1>4, <1>5, <1>6, <1>7 DEF BootNext

\* The invariant of an orderly teardown.
THEOREM OrderlyInvariant ==
  ASSUME "pid_file" \notin Faults
  PROVE  BootSafety => []OrderlyInv
<1>1. BootInit => OrderlyInv
  BY RobustInit DEF BootInit, OrderlyInv, PidFilesWhole, ReportedOnce, DaemonsBuilt,
     StoppedSoFar, StoppedBy, HandoverQuiet, Teardown, Frames, Daemons
<1>2. OrderlyInv /\ BootNext => OrderlyInv'
  BY RobustStep, PidFilesStep, ReportedStep, StoppedStep DEF OrderlyInv
<1>3. OrderlyInv /\ UNCHANGED bootVars => OrderlyInv'
  <2> SUFFICES ASSUME OrderlyInv, UNCHANGED bootVars PROVE OrderlyInv'
    OBVIOUS
  <2> USE DEF OrderlyInv, bootVars, initVars
  <2>1. RobustInv'
    BY RobustStutter
  <2>2. ReportedOnce'
    BY DEF ReportedOnce, Spent, Held, Winner, Succeeded, unlockVars, localVars, kernelVars
  <2>3. PidFilesWhole' /\ DaemonsBuilt' /\ StoppedSoFar' /\ HandoverQuiet'
    BY DEF PidFilesWhole, DaemonsBuilt, StoppedSoFar, StoppedBy, HandoverQuiet, Quiet
  <2> QED
    BY <2>1, <2>2, <2>3
<1> QED
  BY <1>1, <1>2, <1>3, PTL DEF BootSafety

\* mount_switch_root is only ever called with the root mounted.
THEOREM SwitchesFindRoot ==
  ASSUME "pid_file" \notin Faults
  PROVE  BootSafety => []SwitchFindsRoot
<1>1. OrderlyInv => SwitchFindsRoot
  <2> SUFFICES ASSUME OrderlyInv, NEW f \in Frames, cpc[f] = "switch"
               PROVE  rootfs # NoDev
    BY DEF SwitchFindsRoot
  <2> USE DEF OrderlyInv, ReportedOnce
  <2>1. CASE f = "handler"
    BY <2>1 DEF Spent
  <2>2. CASE f = "main"
    <3>1. Succeeded(Pid1)
      BY <2>2 DEF Teardown
    <3> QED
      BY <3>1 DEF RobustInv, UnlockInv, MountedLast
  <2> QED
    BY <2>1, <2>2 DEF Frames
<1> QED
  BY OrderlyInvariant, <1>1, PTL

\* The handler and main never both tear the system down, but when main powers
\* off while a sub-prompt that missed the order unlocks the host.
THEOREM TearsDownOnce ==
  ASSUME "pid_file" \notin Faults
  PROVE  BootSafety => []OneTeardown
<1>1. OrderlyInv => OneTeardown
  <2> SUFFICES ASSUME OrderlyInv, \A f \in Frames : cpc[f] \in Teardown
               PROVE  misread /\ cret["main"] = {"SHUTDOWN"}
    BY DEF OneTeardown
  <2>1. Spent /\ (Succeeded(Pid1) \/ (cret["main"] = {"SHUTDOWN"} /\ cmdline = "shutdown"))
    BY DEF OrderlyInv, ReportedOnce, RobustInv, LockedOnShutdown, Frames, Teardown
  <2>2. ~Succeeded(Pid1)
    BY <2>1, SucceedsAlone DEF OrderlyInv, RobustInv
  <2>3. rootfs # NoDev => cmdline # "shutdown" \/ misread
    BY DEF OrderlyInv, RobustInv, LockedOnShutdown
  <2> QED
    BY <2>1, <2>2, <2>3 DEF Spent
<1> QED
  BY OrderlyInvariant, <1>1, PTL

\* Neither the real init nor the power switch takes over from live daemons.
THEOREM HandsOverQuietly ==
  ASSUME "pid_file" \notin Faults
  PROVE  BootSafety => []HandoverQuiet
<1>1. OrderlyInv => HandoverQuiet
  BY DEF OrderlyInv
<1> QED
  BY OrderlyInvariant, <1>1, PTL

\* The real init never receives the SIGTERM of a left-over sub-prompt.
THEOREM SignalsInitOnly ==
  ASSUME "pid_file" \notin Faults
  PROVE  BootSafety => []NoStraySignal
<1>1. OrderlyInv => NoStraySignal
  BY DEF OrderlyInv, ReportedOnce, NoStraySignal
<1> QED
  BY OrderlyInvariant, <1>1, PTL

-----------------------------------------------------------------------------
(* What pid 1 dies of.                                                     *)

\* The boot starts in it.
LEMMA DeathsInit == BootInit => DeathsKnown /\ PanicKnown
BY DEF BootInit, UnlockInit, DeathsKnown, PanicKnown, Frames

\* The challenge of one process kills nobody when the lists end in NULL.
LEMMA NoCrash ==
  ASSUME ~DirtyHeap, NEW p \in Procs, UnlockTypeOK,
         \A q \in Procs : pc[q] # "crashed", UnlockStep(p)
  PROVE  \A q \in Procs : pc'[q] # "crashed"
<1>1. PICK place \in Places \ {"crashed"} : pc' = pc \/ pc' = [pc EXCEPT ![p] = place]
  <2>1. ASSUME NEW r, EndTurn(p, r)
        PROVE  \E s \in {"returned", "prompt"} : pc' = [pc EXCEPT ![p] = s]
    BY <2>1 DEF EndTurn
  <2>2. {"idle", "prompt", "shell", "probe", "activate", "lvm", "root", "returned"}
          \subseteq Places \ {"crashed"}
    BY DEF Places
  <2> USE <2>1, <2>2
  <2>3. CASE Begin(p) \/ (\E k \in Keys : EnterKey(p, k)) \/ ProbeLvm(p)
    BY <2>3 DEF Begin, EnterKey, ProbeLvm
  <2>4. CASE ShellExit(p) \/ Probe(p)
    BY <2>4 DEF ShellExit, Probe, localVars
  <2>5. CASE Activate(p)
    BY <2>5 DEF Activate
  <2>6. CASE ProbeRoot(p)
    BY <2>6 DEF ProbeRoot
  <2>7. CASE Leave(p) \/ Hangup(p)
    BY <2>7 DEF Leave, Hangup, Vanish
  <2> QED
    BY <2>3, <2>4, <2>5, <2>6, <2>7 DEF UnlockStep, Challenge, Work
<1> QED
  BY <1>1 DEF UnlockTypeOK

\* Every step keeps it.
LEMMA DeathsStep == RobustInv /\ DeathsKnown /\ BootNext => DeathsKnown'
<1> SUFFICES ASSUME RobustInv, DeathsKnown, BootNext PROVE DeathsKnown'
  OBVIOUS
<1> USE DEF DeathsKnown
<1>0. InitTypeOK /\ UnlockInv /\ UnlockTypeOK /\ PlacesBuilt /\ CleanRets
      /\ Frames = {"main", "handler"} /\ cpc \in [Frames -> Stages]
  BY DEF RobustInv, UnlockInv, LockedOnShutdown, CleanRets, Frames, InitTypeOK
<1>1. \A p \in Procs : pc'[p] = "crashed" => DirtyHeap
  <2>1. CASE DirtyHeap
    BY <2>1
  <2>2. CASE ~DirtyHeap
    BY <1>0, <2>2, BootStepUnlock, NoCrash DEF UnlockNext, unlockVars, localVars
  <2> QED
    BY <2>1, <2>2
<1>2. ASSUME wiped' = wiped, mpc' # "cleanup" => mpc # "cleanup" /\ cpc'["main"] = cpc["main"],
             \A f \in Frames : cpc'[f] = cpc[f] \/ cpc'[f] \notin {"move", "exec", "return"}
      PROVE  DeathsKnown'
  BY <1>1, <1>2
<1>3. CASE MainStep
  <2>1. /\ UNCHANGED wiped /\ mpc # "cleanup"
        /\ CallsCleanup \/ UNCHANGED cpc
    BY <1>0, <1>3, MainEffect
  <2>2. CASE CallsCleanup
    <3>1. \A f \in Frames : cpc'[f] = cpc[f] \/ cpc'[f] \in {FirstStop, "failed"}
      BY <1>0, <2>2, CleanupStart DEF CallsCleanup
    <3> QED
      BY <1>2, <2>1, <2>2, <3>1, FirstStopEarly DEF CallsCleanup
  <2> QED
    BY <1>2, <2>1, <2>2
<1>4. CASE Handle
  <2>1. UNCHANGED <<wiped, mpc>> /\ \E s \in {FirstStop, "stuck"} : cpc' = [cpc EXCEPT !["handler"] = s]
    BY <1>0, <1>4, HandleEffect
  <2> QED
    BY <1>0, <1>2, <2>1, FirstStopEarly
<1>5. ASSUME NEW f \in Frames, CleanupStep(f) PROVE DeathsKnown'
  <2>1. /\ \A g \in Frames \ {f} : cpc'[g] = cpc[g]
        /\ UNCHANGED mpc /\ cpc[f] # "idle" /\ (wiped => wiped')
    <3>1. wiped => wiped'
      BY <1>5 DEF CleanupStep, StopTor, StopSsh, StopNetwork, Stop, UmountSys, CheckRoot, Wipe,
         MoveRoot, ExecInit, Reboot, Return
    <3> QED
      BY <1>0, <1>5, <3>1, CleanupEffect DEF Proceeds, Retires, Ends
  <2>2. mpc' # "cleanup" => cpc'["main"] = "idle"
    <3>1. CASE f = "main"
      BY <2>1, <3>1
    <3>2. CASE f = "handler"
      BY <1>0, <2>1, <3>2
    <3> QED
      BY <1>0, <3>1, <3>2
  <2>3. \/ cpc'[f] \notin {"move", "exec", "return"}
        \/ cpc'[f] = cpc[f]
        \/ cpc'[f] = "move" /\ wiped'
        \/ cpc'[f] = "exec" /\ cpc[f] = "move"
        \/ cpc'[f] = "return" /\ cpc[f] = "exec" /\ ("exec" \in Faults \/ DirtyHeap)
    <3>1. CASE StopTor(f) \/ StopSsh(f) \/ StopNetwork(f)
      BY <1>0, <3>1 DEF StopTor, StopSsh, StopNetwork, Stop, GoTo, Fail
    <3>2. CASE UmountSys(f) \/ CheckRoot(f)
      BY <1>0, <3>2 DEF UmountSys, CheckRoot, SwitchFails, GoTo, Fail
    <3>3. CASE Wipe(f) \/ MoveRoot(f)
      BY <1>0, <3>3 DEF Wipe, MoveRoot, SwitchFails, GoTo, Fail
    <3>4. CASE ExecInit(f) \/ Reboot(f) \/ Return(f)
      BY <1>0, <3>4 DEF ExecInit, Reboot, Return, GoTo
    <3> QED
      BY <1>5, <3>1, <3>2, <3>3, <3>4 DEF CleanupStep
  <2> QED
    BY <1>1, <2>1, <2>2, <2>3
<1>6. ASSUME NEW p \in Remote, SubPrompt(p) PROVE DeathsKnown'
  BY <1>0, <1>2, <1>6, SubPromptEffect
<1>7. ASSUME NEW d \in Daemons, DaemonWrites(d) \/ DaemonDies(d) PROVE DeathsKnown'
  BY <1>0, <1>2, <1>7, DaemonEffect
<1> QED
  BY <1>3, <1>4, <1>5, <1>6, <1>7 DEF BootNext

\* A step that kills pid 1 is one of those that PanicKnown names.
LEMMA PanicStep ==
  ASSUME RobustInv, DeathsKnown, BootNext, machine' = "panic", machine # "panic"
  PROVE  PanicKnown'
<1> USE DEF PanicKnown
<1>0. InitTypeOK /\ UnlockInv /\ UnlockTypeOK /\ PlacesBuilt /\ CleanRets
      /\ Pid1 \in Procs /\ Frames = {"main", "handler"}
  BY DEF RobustInv, UnlockInv, LockedOnShutdown, CleanRets, Frames
<1>1. CASE MainStep
  <2>1. mpc # "cleanup" /\ cpc["main"] = "idle"
    BY <1>0, <1>1, MainEffect DEF DeathsKnown
  <2>2. ASSUME NEW r, EarlyFail(r) PROVE PanicKnown'
    BY <2>1, <2>2 DEF EarlyFail
  <2>3. CASE MountSys
    BY <2>2, <2>3 DEF MountSys, Advance
  <2>4. CASE SetupNetwork \/ StartSsh
    BY <2>2, <2>4 DEF SetupNetwork, StartSsh, Advance
  <2>5. CASE StartTor
    BY <2>5 DEF StartTor, Advance
  <2>6. CASE MainCleanup
    BY <1>0, <2>6 DEF MainCleanup, DeathsKnown, unlockVars, localVars
  <2>7. ~Act /\ ~MainChallenge
    BY DEF Act, MainChallenge, initVars
  <2> QED
    BY <1>1, <2>3, <2>4, <2>5, <2>6, <2>7 DEF MainStep
<1>2. ASSUME NEW f \in Frames, CleanupStep(f) PROVE PanicKnown'
  <2>1. ASSUME SwitchFails(f), cpc[f] \in {"switch", "move"} PROVE PanicKnown'
    BY <1>2, <2>1 DEF SwitchFails
  <2>2. CASE CheckRoot(f) \/ MoveRoot(f)
    BY <2>1, <2>2 DEF CheckRoot, MoveRoot
  <2>3. CASE ExecInit(f)
    BY <2>3 DEF ExecInit
  <2>4. CASE Return(f)
    BY <2>4 DEF Return, DeathsKnown
  <2>5. ~StopTor(f) /\ ~StopSsh(f) /\ ~StopNetwork(f) /\ ~UmountSys(f) /\ ~Wipe(f) /\ ~Reboot(f)
    BY DEF StopTor, StopSsh, StopNetwork, Stop, UmountSys, Wipe, Reboot
  <2> QED
    BY <1>2, <2>2, <2>3, <2>4, <2>5 DEF CleanupStep
<1>3. ~Handle
  BY DEF Handle
<1>4. \A p \in Remote : ~SubPrompt(p)
  BY DEF SubPrompt, initVars
<1>5. \A d \in Daemons : ~DaemonWrites(d) /\ ~DaemonDies(d)
  BY DEF DaemonWrites, DaemonDies
<1> QED
  BY <1>1, <1>2, <1>3, <1>4, <1>5 DEF BootNext

\* Nothing happens after a panic.
LEMMA PanicIsLast == BootNext => machine # "panic"
BY DEF BootNext, MainStep, MountSys, SetupNetwork, StartSsh, StartTor, Act, MainChallenge,
   MainCleanup, MainRuns, Handle, CleanupStep, FrameRuns, SubPrompt, OthersRun,
   DaemonWrites, DaemonDies

\* pid 1 dies of what PanicKnown lists and of nothing else, in any build and
\* whatever fails: every other error reboots.
THEOREM PanicsAreKnown == BootSafety => []PanicKnown
<1>1. RobustInv /\ DeathsKnown /\ PanicKnown /\ [BootNext]_bootVars => DeathsKnown' /\ PanicKnown'
  <2>1. DeathsKnown /\ PanicKnown /\ UNCHANGED bootVars => DeathsKnown' /\ PanicKnown'
    BY DEF DeathsKnown, PanicKnown, bootVars, initVars, unlockVars, localVars
  <2>2. RobustInv /\ DeathsKnown /\ BootNext => PanicKnown'
    <3>1. machine' # "panic" => PanicKnown'
      BY DEF PanicKnown
    <3> QED
      BY <3>1, PanicStep, PanicIsLast
  <2> QED
    BY <2>1, <2>2, DeathsStep
<1> QED
  BY RobustInvariant, DeathsInit, <1>1, PTL DEF BootSafety

-----------------------------------------------------------------------------
(* Every step of cleanup_system is one stage further.                      *)

\* Frame f takes a step and the machine still runs.
LEMMA CleanupGoesDown ==
  ASSUME NEW f \in Frames, InitTypeOK, CleanupStep(f), machine' = "running"
  PROVE  StagesLeft(f)' < StagesLeft(f)
<1>1. cpc \in [Frames -> Stages]
  BY DEF InitTypeOK
<1>2. ASSUME NEW flag, Fail(f, flag) PROVE cpc'[f] = "failed"
  BY <1>1, <1>2 DEF Fail
<1>3. ASSUME NEW s, GoTo(f, s) PROVE cpc'[f] = s
  BY <1>1, <1>3 DEF GoTo
<1>4. CASE StopTor(f)
  <2>1. cpc[f] = "tor" /\ cpc'[f] \in {"ssh", "failed"}
    BY <1>2, <1>3, <1>4 DEF StopTor, Stop
  <2> QED
    BY <2>1 DEF StagesLeft
<1>5. CASE StopSsh(f)
  <2>1. cpc[f] = "ssh" /\ cpc'[f] \in {"net", "failed"}
    BY <1>2, <1>3, <1>5 DEF StopSsh, Stop
  <2> QED
    BY <2>1 DEF StagesLeft
<1>6. CASE StopNetwork(f)
  <2>1. cpc[f] = "net" /\ cpc'[f] \in {"umount", "failed"}
    BY <1>2, <1>3, <1>6 DEF StopNetwork, Stop
  <2> QED
    BY <2>1 DEF StagesLeft
<1>7. CASE UmountSys(f)
  <2>1. cpc[f] = "umount" /\ cpc'[f] \in {"poweroff", "switch", "failed"}
    BY <1>2, <1>3, <1>7 DEF UmountSys
  <2> QED
    BY <2>1 DEF StagesLeft
<1>8. ASSUME SwitchFails(f) PROVE cpc'[f] = "failed"
  BY <1>2, <1>8 DEF SwitchFails
<1>9. CASE CheckRoot(f)
  <2>1. cpc[f] = "switch" /\ cpc'[f] \in {"wipe", "failed"}
    BY <1>3, <1>8, <1>9 DEF CheckRoot
  <2> QED
    BY <2>1 DEF StagesLeft
<1>10. CASE Wipe(f)
  <2>1. cpc[f] = "wipe" /\ cpc'[f] = "move"
    BY <1>3, <1>10 DEF Wipe
  <2> QED
    BY <2>1 DEF StagesLeft
<1>11. CASE MoveRoot(f)
  <2>1. cpc[f] = "move" /\ cpc'[f] \in {"exec", "failed"}
    BY <1>3, <1>8, <1>11 DEF MoveRoot
  <2> QED
    BY <2>1 DEF StagesLeft
<1>12. CASE ExecInit(f)
  <2>1. cpc[f] = "exec" /\ cpc'[f] = "return"
    BY <1>3, <1>12 DEF ExecInit
  <2> QED
    BY <2>1 DEF StagesLeft
<1>13. ~Reboot(f)
  BY DEF Reboot
<1>14. CASE Return(f)
  <2>1. cpc[f] = "return" /\ cpc'[f] = "idle"
    BY <1>1, <1>14 DEF Return
  <2> QED
    BY <2>1 DEF StagesLeft
<1> QED
  BY <1>4, <1>5, <1>6, <1>7, <1>9, <1>10, <1>11, <1>12, <1>13, <1>14 DEF CleanupStep

\* The frame that does not step stays where it is, or begins.
LEMMA OtherFrame ==
  ASSUME NEW f \in Frames, RobustInv, TeardownStands, BootNext, ~CleanupStep(f), Begun(f)
  PROVE  UNCHANGED cpc[f]
<1>0. InitTypeOK /\ UnlockInv /\ UnlockTypeOK /\ PlacesBuilt /\ CleanRets
  BY DEF RobustInv, UnlockInv, LockedOnShutdown, CleanRets
<1>1. CASE MainStep
  <2>1. mpc # "cleanup" /\ (CallsCleanup \/ UNCHANGED cpc)
    BY <1>0, <1>1, MainEffect
  <2>2. f = "handler"
    BY <2>1 DEF TeardownStands, Begun, Frames
  <2>3. \A r : Cleanup("main", r) => cpc'["handler"] = cpc["handler"]
    BY <1>0 DEF Cleanup, InitTypeOK, Frames
  <2> QED
    BY <2>1, <2>2, <2>3 DEF CallsCleanup
<1>2. CASE Handle
  <2>1. PICK s \in {FirstStop, "stuck"} : cpc' = [cpc EXCEPT !["handler"] = s]
    BY <1>0, <1>2, HandleEffect
  <2>2. cpc["handler"] = "idle"
    BY <1>2 DEF Handle, MainRuns
  <2>3. f = "main"
    BY <2>2 DEF Begun, Frames
  <2> QED
    BY <1>0, <2>1, <2>3 DEF InitTypeOK, Frames
<1>3. ASSUME NEW g \in Frames, CleanupStep(g) PROVE UNCHANGED cpc[f]
  <2>1. g # f
    BY <1>3
  <2>2. \E s : cpc' = [cpc EXCEPT ![g] = s] \/ cpc' = cpc
    BY <1>0, <1>3, CleanupEffect DEF Proceeds, Retires, Ends
  <2> QED
    BY <1>0, <2>1, <2>2 DEF InitTypeOK
<1>4. ASSUME NEW p \in Remote, SubPrompt(p) PROVE UNCHANGED cpc[f]
  BY <1>0, <1>4, SubPromptEffect
<1>5. ASSUME NEW d \in Daemons, DaemonWrites(d) \/ DaemonDies(d) PROVE UNCHANGED cpc[f]
  BY <1>0, <1>5, DaemonEffect
<1> QED
  BY <1>1, <1>2, <1>3, <1>4, <1>5 DEF BootNext

\* When main does not call cleanup_system it does not say that it did, unless
\* it dies on the way.
LEMMA MainOnItsWay ==
  ASSUME InitTypeOK, MainStep, UNCHANGED cpc, mpc' = "cleanup", ~CallsCleanup,
         UnlockInv, CleanRets, PlacesBuilt
  PROVE  machine' = "panic"
<1>1. /\ {{"SYSFS"}, {"NET"}, {"VLAN"}, MinusOne, {"SSH"}, {"REGEX"}, {"SHUTDOWN"}}
           \subseteq Retvals
      /\ {{"SYSFS"}, {"NET"}, {"VLAN"}, MinusOne, {"SSH"}, {"REGEX"}}
           \cap {Success, {"SHUTDOWN"}} = {}
      /\ {"SHUTDOWN"} # Success
  <2>1. "NET" \in MinusOne
    BY DEF MinusOne, RetvalFlags
  <2> QED
    BY <2>1 DEF Retvals, RetvalFlags, MinusOne, Success
<1>2. CASE MountSys
  BY <1>1, <1>2, EarlyFailCalls DEF MountSys, Advance
<1>3. CASE SetupNetwork
  BY <1>1, <1>3, EarlyFailCalls DEF SetupNetwork, NetworkErrors, Advance
<1>4. CASE StartSsh
  BY <1>1, <1>4, EarlyFailCalls DEF StartSsh, Advance
<1>5. CASE StartTor
  BY <1>5 DEF StartTor, Advance
<1>6. CASE Act
  BY <1>1, <1>6 DEF Act, CallsCleanup
<1>7. CASE MainChallenge
  BY <1>7 DEF MainChallenge, initVars
<1>8. CASE MainCleanup
  <2>1. ret[Pid1] \in Retvals /\ ret[Pid1] # {"SHUTDOWN"}
    BY DEF UnlockInv, UnlockTypeOK, CleanRets
  <2> QED
    BY <1>8, <2>1 DEF MainCleanup, CallsCleanup, Succeeded
<1> QED
  BY <1>2, <1>3, <1>4, <1>5, <1>6, <1>7, <1>8 DEF MainStep

LEMMA StandsStep ==
  ASSUME "exec" \notin Faults, "heap_lock" \notin Faults, ~DirtyHeap,
         RobustInv, TeardownStands, BootNext
  PROVE  TeardownStands'
<1> USE DEF TeardownStands
<1>0. /\ InitTypeOK /\ UnlockInv /\ UnlockTypeOK /\ PlacesBuilt /\ CleanRets
      /\ cpc \in [Frames -> Stages] /\ Frames = {"main", "handler"}
      /\ FirstStop \notin {"idle", "return", "stuck"}
  BY DEF RobustInv, UnlockInv, LockedOnShutdown, CleanRets, InitTypeOK, Frames, FirstStop
<1>1. CASE MainStep
  <2>1. mpc # "cleanup" /\ (CallsCleanup \/ UNCHANGED cpc)
    BY <1>0, <1>1, MainEffect
  <2>2. CASE CallsCleanup
    <3>1. cpc'["main"] \in {FirstStop, "failed"} /\ cpc'["handler"] = cpc["handler"]
      BY <1>0, <2>2, CleanupStart DEF CallsCleanup
    <3> QED
      BY <1>0, <2>2, <3>1 DEF CallsCleanup
  <2>3. CASE UNCHANGED cpc /\ ~CallsCleanup
    BY <1>0, <1>1, <2>1, <2>3, MainOnItsWay
  <2> QED
    BY <2>1, <2>2, <2>3
<1>2. CASE Handle
  <2>1. cpc' = [cpc EXCEPT !["handler"] = FirstStop]
    <3>1. \A r : Cleanup("handler", r) /\ r = Success
                   => cpc' = [cpc EXCEPT !["handler"] = FirstStop]
      BY DEF Cleanup
    <3> QED
      BY <1>2, <3>1 DEF Handle
  <2> QED
    BY <1>0, <1>2, <2>1 DEF Handle
<1>3. ASSUME NEW f \in Frames, CleanupStep(f) PROVE TeardownStands'
  <2>1. /\ UNCHANGED mpc /\ machine = "running" /\ cpc[f] \notin {"idle", "stuck", "return"}
        /\ \A g \in Frames \ {f} : cpc'[g] = cpc[g]
    BY <1>0, <1>3, CleanupEffect DEF Proceeds, Retires, Ends
  <2>2. cpc'[f] \notin {"idle", "return", "stuck"}
    <3>1. CASE StopTor(f) \/ StopSsh(f) \/ StopNetwork(f)
      BY <1>0, <3>1 DEF StopTor, StopSsh, StopNetwork, Stop, GoTo, Fail
    <3>2. CASE UmountSys(f) \/ CheckRoot(f) \/ Wipe(f) \/ MoveRoot(f)
      BY <1>0, <3>2 DEF UmountSys, CheckRoot, Wipe, MoveRoot, SwitchFails, GoTo, Fail
    <3>3. CASE ExecInit(f) \/ Reboot(f) \/ Return(f)
      BY <2>1, <3>3 DEF ExecInit, Reboot, Return
    <3> QED
      BY <1>3, <3>1, <3>2, <3>3 DEF CleanupStep
  <2> QED
    BY <1>0, <2>1, <2>2
<1>4. ASSUME NEW p \in Remote, SubPrompt(p) PROVE TeardownStands'
  BY <1>0, <1>4, SubPromptEffect
<1>5. ASSUME NEW d \in Daemons, DaemonWrites(d) \/ DaemonDies(d) PROVE TeardownStands'
  BY <1>0, <1>5, DaemonEffect
<1> QED
  BY <1>1, <1>2, <1>3, <1>4, <1>5 DEF BootNext

\* A signal is pending until the handler begins.
LEMMA SignalStays ==
  ASSUME "heap_lock" \notin Faults, RobustInv, BootNext, sig
  PROVE  sig' \/ Begun("handler")'
<1>0. InitTypeOK /\ UnlockInv /\ UnlockTypeOK /\ PlacesBuilt /\ CleanRets
  BY DEF RobustInv, UnlockInv, LockedOnShutdown, CleanRets
<1>1. CASE MainStep
  BY <1>0, <1>1, MainEffect
<1>2. CASE Handle
  <2>1. cpc' = [cpc EXCEPT !["handler"] = FirstStop]
    <3>1. \A r : Cleanup("handler", r) /\ r = Success
                   => cpc' = [cpc EXCEPT !["handler"] = FirstStop]
      BY DEF Cleanup
    <3> QED
      BY <1>2, <3>1 DEF Handle
  <2>2. FirstStop \notin {"idle", "stuck"}
    BY DEF FirstStop
  <2> QED
    BY <1>0, <2>1, <2>2 DEF Begun, InitTypeOK, Frames
<1>3. ASSUME NEW f \in Frames, CleanupStep(f) PROVE sig'
  BY <1>3 DEF CleanupStep, StopTor, StopSsh, StopNetwork, Stop, UmountSys, CheckRoot,
              Wipe, MoveRoot, ExecInit, Reboot, Return
<1>4. ASSUME NEW p \in Remote, SubPrompt(p) PROVE sig'
  BY <1>4 DEF SubPrompt, initVars
<1>5. ASSUME NEW d \in Daemons, DaemonWrites(d) \/ DaemonDies(d) PROVE sig'
  BY <1>0, <1>5, DaemonEffect
<1> QED
  BY <1>1, <1>2, <1>3, <1>4, <1>5 DEF BootNext

\* A teardown that began ends the boot after at most nine steps of its own: none
\* is undone or repeated, whatever daemons, sub-prompts and the other frame do,
\* and a signal that was sent begins one.  Of EndsOnceBegun what is left is that
\* pid 1 is scheduled.  Without a return from a failing execv and without the
\* allocator's lock: with them the runs show that a boot need not end.
THEOREM TeardownGoesOn ==
  ASSUME "exec" \notin Faults, "heap_lock" \notin Faults, ~DirtyHeap
  PROVE  BootSafety => TeardownAdvances /\ []TeardownStands
<1> DEFINE Advances ==
      /\ \A f \in Frames :
           /\ CleanupStep(f) => machine' # "running" \/ StagesLeft(f)' < StagesLeft(f)
           /\ Begun(f) =>
                \/ machine' # "running"
                \/ Begun(f)' /\ (StagesLeft(f)' < StagesLeft(f) \/ UNCHANGED cpc[f])
      /\ sig => machine' # "running" \/ sig' \/ Begun("handler")'
<1>1. BootInit => TeardownStands
  BY DEF BootInit, TeardownStands, Frames
<1>2. RobustInv /\ TeardownStands /\ [BootNext]_bootVars => TeardownStands'
  <2>1. TeardownStands /\ UNCHANGED bootVars => TeardownStands'
    BY DEF TeardownStands, bootVars, initVars
  <2> QED
    BY <2>1, StandsStep
<1>3. RobustInv /\ TeardownStands /\ [BootNext]_bootVars => [Advances]_bootVars
  <2> SUFFICES ASSUME RobustInv, TeardownStands, BootNext PROVE Advances
    OBVIOUS
  <2>1. InitTypeOK /\ InitTypeOK' /\ TeardownStands'
    BY RobustStep, StandsStep DEF RobustInv
  <2>2. ASSUME NEW f \in Frames, CleanupStep(f)
        PROVE  machine' # "running" \/ StagesLeft(f)' < StagesLeft(f)
    <3>1. CASE machine' = "running"
      BY <2>1, <2>2, <3>1, CleanupGoesDown
    <3> QED
      BY <3>1
  <2>3. ASSUME NEW f \in Frames, Begun(f)
        PROVE  \/ machine' # "running"
               \/ Begun(f)' /\ (StagesLeft(f)' < StagesLeft(f) \/ UNCHANGED cpc[f])
    <3>1. CASE ~CleanupStep(f)
      <4>1. UNCHANGED cpc[f]
        BY <2>3, <3>1, OtherFrame
      <4> QED
        BY <2>3, <4>1 DEF Begun
    <3>2. CASE CleanupStep(f) /\ machine' = "running"
      <4>1. StagesLeft(f)' < StagesLeft(f)
        BY <2>2, <3>2
      <4>2. cpc'[f] # "idle"
        <5>1. cpc'[f] = "idle" => cpc[f] = "return"
          BY <2>1, <3>2 DEF CleanupStep, StopTor, StopSsh, StopNetwork, Stop, UmountSys,
             CheckRoot, Wipe, MoveRoot, SwitchFails, ExecInit, Reboot, Return, GoTo, Fail,
             InitTypeOK
        <5> QED
          BY <5>1 DEF TeardownStands
      <4>3. Begun(f)'
        BY <2>1, <4>2 DEF Begun, TeardownStands
      <4> QED
        BY <4>1, <4>3
    <3> QED
      BY <3>1, <3>2
  <2>4. sig => machine' # "running" \/ sig' \/ Begun("handler")'
    BY SignalStays
  <2> QED
    BY <2>2, <2>3, <2>4
<1> QED
  BY RobustInvariant, <1>1, <1>2, <1>3, PTL DEF BootSafety, TeardownAdvances

=============================================================================
