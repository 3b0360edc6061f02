----------------------------- MODULE BootProps ------------------------------
(***************************************************************************)
(* The properties of one boot, and the abstract boot it implements.        *)
(***************************************************************************)
EXTENDS Boot, UnlockProps

MainPlaces == {"sys", "net", "ssh", "tor", "regex", "challenge", "cleanup"}
Teardown == {"tor", "ssh", "net", "umount", "poweroff", "switch", "wipe",
             "move", "exec"}
Stages == Teardown \cup {"idle", "failed", "return", "stuck"}
DaemonStates == {"off", "launched", "created", "up", "dead", "signalled", "clone"}
Endings == {"restart", "off", "booted", "panic"}

\* The variables of the boot have their types.
InitTypeOK ==
  /\ cmdline \in {"prompt", "shutdown"}
  /\ mpc     \in MainPlaces
  /\ cpc     \in [Frames -> Stages]
  /\ cret    \in [Frames -> Retvals]
  /\ daemon  \in [Daemons -> DaemonStates]
  /\ {misread, sig, sysfs, wiped} \subseteq BOOLEAN
  /\ machine \in Endings \cup {"running"}

\* The type invariant of a boot.
BootTypeOK == UnlockTypeOK /\ InitTypeOK

\* A teardown that reaches mount_switch_root finds the root mounted: every way
\* into cleanup_system with 0, main's own and the signal's, has unlocked it.
SwitchFindsRoot == \A f \in Frames : cpc[f] = "switch" => rootfs # NoDev

\* The handler never tears the system down in the middle of main's teardown:
\* daemons are not stopped nor the root switched by both.  But a sub-prompt that
\* missed the order may unlock the host and interrupt main as it powers off.
OneTeardown ==
  (\A f \in Frames : cpc[f] \in Teardown) => misread /\ cret["main"] = {"SHUTDOWN"}

\* Neither the real init nor the power switch takes over while a daemon that
\* the initrd started still runs unsignalled, or /sys is still mounted.
HandoverQuiet ==
  machine \in {"booted", "off"} =>
    ~sysfs /\ \A d \in Daemons : daemon[d] \in {"off", "signalled"}

\* A boot with ifdy=shutdown ends with the volumes as they were: nobody,
\* locally or over ssh, unlocks them while init powers the machine off, unless
\* somebody could not read the command line (init.c:198-206 goes on to prompt).
PowerOffLocked ==
  cmdline = "shutdown" /\ ~misread => active = {} /\ machine # "booted"

\* The real init never receives the SIGTERM of a left-over sub-prompt, and is
\* not started with one pending.
NoStraySignal == machine = "booted" => ~sig

\* The initrd's files are removed only when every volume is open and a root
\* file system is mounted.
WipeOnlyUnlocked == wiped => active = Vols /\ rootfs # NoDev

\* A boot that fails reboots the machine: pid 1 never exits or dies.
FailureReboots == machine # "panic"

\* pid 1 dies of nothing else than this: of the read behind an empty list of an
\* array's members (mount.c:367); of regfree on a regex that was never compiled
\* (init.c:247); of a list that ends in garbage, where it is walked or freed
\* (config.c:44); or of an execv of the real init that failed, which ends in an
\* exit of main (mount.c:873) with the files of the initrd already removed.
\* Every other error, of any step before or after the challenge, reboots.
PanicKnown ==
  machine = "panic" =>
    \/ BLKID /\ mpc = "sys"
    \/ "regfree" \in Faults /\ mpc = "cleanup" /\ cpc["main"] = "idle"
    \/ DirtyHeap /\ \/ mpc = "tor"
                    \/ mpc = "challenge" /\ pc[Pid1] = "crashed"
                    \/ \E f \in Frames : cpc[f] \in {"switch", "move", "exec"}
    \/ ("exec" \in Faults \/ DirtyHeap) /\ wiped /\ cpc["main"] = "return"

\* Once a sub-prompt has signalled init, or main has begun to clean up, the
\* machine leaves the initrd one way or another.
EndsOnceBegun == (sig \/ mpc = "cleanup") ~> machine # "running"

\* The steps that frame f of cleanup_system has to take at most.
StagesLeft(f) ==
  CASE cpc[f] = "tor"    -> 9
    [] cpc[f] = "ssh"    -> 8
    [] cpc[f] = "net"    -> 7
    [] cpc[f] = "umount" -> 6
    [] cpc[f] = "switch" -> 5
    [] cpc[f] = "wipe"   -> 4
    [] cpc[f] = "move"   -> 3
    [] cpc[f] = "exec"   -> 2
    [] cpc[f] \in {"poweroff", "failed", "return"} -> 1
    [] OTHER             -> 0
Begun(f) == cpc[f] \notin {"idle", "stuck"}

\* What makes it so, but for fairness: a step of cleanup_system ends the boot or
\* is one stage further, nobody else takes it back or makes it stop, and a signal
\* is not lost before it begins.
TeardownAdvances ==
  [][/\ \A f \in Frames :
          /\ CleanupStep(f) => machine' # "running" \/ StagesLeft(f)' < StagesLeft(f)
          /\ Begun(f) =>
               \/ machine' # "running"
               \/ Begun(f)' /\ (StagesLeft(f)' < StagesLeft(f) \/ UNCHANGED cpc[f])
     /\ sig => machine' # "running" \/ sig' \/ Begun("handler")']_bootVars

\* main is in cleanup_system exactly from when it calls it to the end, and
\* neither frame is stuck or back from it.
TeardownStands ==
  /\ mpc # "cleanup" => cpc["main"] = "idle"
  /\ mpc = "cleanup" /\ machine = "running" => cpc["main"] # "idle"
  /\ \A f \in Frames : cpc[f] \notin {"return", "stuck"}

-----------------------------------------------------------------------------

\* The phase of a boot.
Phase == IF machine # "running" THEN machine
         ELSE IF rootfs # NoDev THEN "unlocked" ELSE "locked"

S == INSTANCE BootStages WITH phase <- Phase, blind <- misread

\* The boot implements its abstraction.
ImplementsStages == S!StagesSpec

-----------------------------------------------------------------------------

\* The inductive invariants behind these properties.

\* A boot that is to power off unlocks nothing, if it can read that it is, and
\* only such a boot powers off.
LockedOnShutdown ==
  /\ misread => cmdline = "shutdown" /\ "cmdline" \in Faults
  /\ cmdline = "shutdown" /\ ~misread =>
       /\ mpc # "challenge" /\ active = {} /\ rootfs = NoDev
       /\ \A p \in Procs : pc[p] = "idle"
  /\ \A p \in Procs : "SHUTDOWN" \notin ret[p]
  /\ \A f \in Frames :
       /\ cpc[f] \in Teardown /\ "SHUTDOWN" \in cret[f] => cmdline = "shutdown"
       /\ cpc[f] = "poweroff" => "SHUTDOWN" \in cret[f]
  /\ machine = "off" => cmdline = "shutdown"

\* What comes after the checks of mount_switch_root has a mounted root.
RootWhenWiped ==
  /\ \A f \in Frames : cpc[f] \in {"wipe", "move", "exec"} => rootfs # NoDev
  /\ wiped \/ machine = "booted" => rootfs # NoDev

\* Which places of main a build has.
PlacesBuilt ==
  /\ mpc \in {"net", "ssh", "tor"} => NET
  /\ mpc = "tor" => TOR

\* What has already happened to pid 1 when it dies: cleanup_system returns only
\* from a failing execv, which comes after the wipe; before the end of main's
\* early places nobody tears anything down; and only garbage kills a challenge.
DeathsKnown ==
  /\ \A f \in Frames :
       /\ cpc[f] \in {"move", "exec", "return"} => wiped
       /\ cpc[f] = "return" => "exec" \in Faults \/ DirtyHeap
  /\ \A p \in Procs : pc[p] = "crashed" => DirtyHeap
  /\ mpc # "cleanup" => cpc["main"] = "idle"

\* What the rare faults cannot break.
RobustInv == UnlockInv /\ InitTypeOK /\ PlacesBuilt /\ LockedOnShutdown /\ RootWhenWiped

\* The process that unlocked the host has reported and is gone.
Spent == rootfs # NoDev /\ \A p \in Procs : Held(p) = {}

\* Success is reported once: by a signal after which nobody can succeed, or
\* by pid 1 to itself.
ReportedOnce ==
  /\ sig \/ cpc["handler"] # "idle" => Spent
  /\ cpc["handler"] # "idle" => ~sig
  /\ cpc["main"] \in Teardown =>
       /\ mpc = "cleanup"
       /\ cret["main"] = Success => Succeeded(Pid1)
       /\ cret["main"] \in {Success, {"SHUTDOWN"}}
  /\ \A f \in Frames :
       cpc[f] \in {"switch", "wipe", "move", "exec"} => "SHUTDOWN" \notin cret[f]
  /\ machine = "booted" => ~sig /\ (Spent \/ Succeeded(Pid1))

\* The daemons of a build.
DaemonsBuilt ==
  /\ daemon["tor"] # "off" => NET /\ TOR
  /\ daemon["ssh"] # "off" => NET
  /\ daemon["dhcp"] # "off" => NET /\ DHCP

\* Who is at a stage has dealt with what the stages before it are about.
Quiet(d) == daemon[d] \in {"off", "signalled"}
StoppedBy(stage) ==
  /\ stage \in Teardown \ {"tor"} => Quiet("tor")
  /\ stage \in Teardown \ {"tor", "ssh"} => Quiet("ssh")
  /\ stage \in Teardown \ {"tor", "ssh", "net"} => Quiet("dhcp")
  /\ stage \in Teardown \ {"tor", "ssh", "net", "umount"} => ~sysfs
StoppedSoFar == \A f \in Frames : StoppedBy(cpc[f])

\* No pid file is there but empty.
PidFilesWhole == \A d \in Daemons : daemon[d] # "created"

\* What holds of a teardown that finds every pid file as it should be.
OrderlyInv ==
  /\ RobustInv
  /\ PidFilesWhole
  /\ ReportedOnce
  /\ DaemonsBuilt
  /\ StoppedSoFar
  /\ HandoverQuiet
=============================================================================
