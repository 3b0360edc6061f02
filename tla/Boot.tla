-------------------------------- MODULE Boot --------------------------------
(***************************************************************************)
(* One boot of the initrd: main, signal_handler and cleanup_system (init.c) *)
(* with mount_switch_root (mount.c) and kill_pid_file (util.c), around the *)
(* challenge of module Unlock.                                             *)
(*                                                                         *)
(* pid 1 has two frames: main, and the handler of the SIGTERM that a       *)
(* sub-prompt sends when it has unlocked the host.  The handler may start  *)
(* wherever main is, main waits while it runs, and both may be inside      *)
(* cleanup_system.                                                         *)
(***************************************************************************)
EXTENDS Unlock

CONSTANTS
  NET, TOR, DHCP, VLAN,  \* build flags; all but NET count in a NET build only
  Clone,           \* the child of fork_exec when its execv of tor fails: it
                   \* returns into main and is one more prompt on the console
  Faults           \* which of the rare faults below may happen

FaultNames ==
  {"exec",       \* execv of /sbin/init fails
   "regfree",    \* regfree of a regex_t never compiled goes wrong
   "heap_lock",  \* the handler's calloc finds the heap locked by main
   "cmdline",    \* /proc/cmdline is not there to be opened, or not read
   "pid_file"}   \* a pid file is read before it is written, or not at all

ASSUME BootAssumption ==
  /\ {NET, TOR, DHCP, VLAN} \subseteq BOOLEAN
  /\ Clone \in Remote
  /\ Faults \subseteq FaultNames

Daemons == {"tor", "ssh", "dhcp"}
Frames == {"main", "handler"}

VARIABLES
  cmdline,  \* the imperative of the kernel command line; fixed by the loader
  misread,  \* history only: somebody took an order to shut down for none
  mpc,      \* where main is
  cpc,      \* where each frame is in cleanup_system
  cret,     \* i_retval_in of each frame
  sig,      \* a SIGTERM to pid 1 is pending
  daemon,   \* each daemon and its pid file
  sysfs,    \* /sys, the head of sys_fs_mount, is mounted
  wiped,    \* mount_rmtree has removed the files of the initrd
  machine   \* "running", or how this boot ended

initVars == <<cmdline, misread, mpc, cpc, cret, sig, daemon, sysfs, wiped, machine>>
bootVars == <<unlockVars, initVars>>

BootInit ==
  /\ UnlockInit
  /\ cmdline \in {"prompt", "shutdown"}
  /\ misread = FALSE
  /\ mpc     = "sys"
  /\ cpc     = [f \in Frames |-> "idle"]
  /\ cret    = [f \in Frames |-> Success]
  /\ sig     = FALSE
  /\ daemon  = [d \in Daemons |-> "off"]
  /\ sysfs   = FALSE
  /\ wiped   = FALSE
  /\ machine = "running"

\* main runs: the machine does, and no handler has interrupted it.
MainRuns == machine = "running" /\ cpc["handler"] = "idle"

-----------------------------------------------------------------------------
(* The beginning of cleanup_system.                                        *)

FirstStop == IF ~NET THEN "umount" ELSE IF TOR THEN "tor" ELSE "ssh"

\* Frame f calls cleanup_system( r ).
Cleanup(f, r) ==
  /\ cret' = [cret EXCEPT ![f] = r]
  /\ cpc'  = [cpc EXCEPT ![f] = IF r \in {Success, {"SHUTDOWN"}}
                                  THEN FirstStop ELSE "failed"]

-----------------------------------------------------------------------------
(* main, before and around the challenge.                                  *)

Advance(place) ==
  /\ mpc' = place
  /\ UNCHANGED <<cpc, cret, machine>>

\* goto main_cleanup with i_retval r before the regex is compiled: regfree
\* works on what the stack holds, and a fault of pid 1 is a kernel panic.
EarlyFail(r) ==
  /\ mpc' = "cleanup"
  /\ \/ Cleanup("main", r) /\ UNCHANGED machine
     \/ "regfree" \in Faults /\ machine' = "panic" /\ UNCHANGED <<cpc, cret>>

\* mount_sys reports its last mount and mdev; /sys is mounted first.
\* mount_mds, which follows, returns 0 whatever mdadm does.  Where it looks for
\* the members of an array it may read behind their list (BeyondList of module
\* Devices), and that is the end of pid 1.
MountSys ==
  /\ MainRuns /\ mpc = "sys"
  /\ sysfs' \in BOOLEAN
  /\ \/ Advance(IF NET THEN "net" ELSE "regex")
     \/ EarlyFail({"SYSFS"})
     \/ BLKID /\ machine' = "panic" /\ UNCHANGED <<mpc, cpc, cret>>
  /\ UNCHANGED <<unlockVars, cmdline, misread, sig, daemon, wiped>>

\* What setup_network returns when it fails: without DHCP the -1 of the ioctl
\* that sets the address or the route goes into the flags as it is.
NetworkErrors ==
  {{"NET"}} \cup (IF VLAN THEN {{"VLAN"}} ELSE {})
            \cup (IF DHCP THEN {} ELSE {MinusOne})

SetupNetwork ==
  /\ MainRuns /\ mpc = "net"
  /\ \/ /\ Advance("ssh")
        /\ daemon' = [daemon EXCEPT !["dhcp"] = IF DHCP THEN "launched" ELSE @]
     \/ /\ \E r \in NetworkErrors : EarlyFail(r)
        /\ UNCHANGED daemon
  /\ UNCHANGED <<unlockVars, cmdline, misread, sig, sysfs, wiped>>

StartSsh ==
  /\ MainRuns /\ mpc = "ssh"
  /\ \/ /\ Advance(IF TOR THEN "tor" ELSE "regex")
        /\ daemon' = [daemon EXCEPT !["ssh"] = "launched"]
     \/ EarlyFail({"SSH"}) /\ UNCHANGED daemon
  /\ UNCHANGED <<unlockVars, cmdline, misread, sig, sysfs, wiped>>

\* network_start_tor returns 0 whether fork and execv work or not, unless
\* freeing its argument list, which ends in garbage on a dirty heap, is fatal.
StartTor ==
  /\ MainRuns /\ mpc = "tor"
  /\ \/ Advance("regex")
     \/ DirtyHeap /\ machine' = "panic" /\ UNCHANGED <<mpc, cpc, cret>>
  /\ daemon' \in {[daemon EXCEPT !["tor"] = s] : s \in {"launched", "off", "clone"}}
  /\ UNCHANGED <<unlockVars, cmdline, misread, sig, sysfs, wiped>>

\* A process finds no order to shut down on the kernel command line: there is
\* none, or ac_cmdline stays empty because the file could not be opened or read,
\* which is not reported.
NoOrder ==
  /\ cmdline = "prompt" \/ "cmdline" \in Faults
  /\ misread' = IF cmdline = "shutdown" THEN TRUE ELSE misread

\* regcomp, then the imperative of the kernel command line.
Act ==
  /\ MainRuns /\ mpc = "regex"
  /\ UNCHANGED machine
  /\ \/ mpc' = "cleanup" /\ Cleanup("main", {"REGEX"}) /\ UNCHANGED misread
     \/ /\ cmdline = "shutdown"
        /\ mpc' = "cleanup" /\ Cleanup("main", {"SHUTDOWN"})
        /\ UNCHANGED misread
     \/ /\ NoOrder
        /\ mpc' = "challenge" /\ UNCHANGED <<cpc, cret>>
  /\ UNCHANGED <<unlockVars, cmdline, sig, daemon, sysfs, wiped>>

\* prompt_decrypt runs in pid 1.
MainChallenge ==
  /\ MainRuns /\ mpc = "challenge"
  /\ Begin(Pid1) \/ Challenge(Pid1)
  /\ UNCHANGED initVars

\* prompt_decrypt has returned, and main calls cleanup_system; or it died.
MainCleanup ==
  /\ MainRuns /\ mpc = "challenge"
  /\ \/ /\ pc[Pid1] = "returned"
        /\ mpc' = "cleanup" /\ Cleanup("main", ret[Pid1])
        /\ UNCHANGED machine
     \/ /\ pc[Pid1] = "crashed"
        /\ machine' = "panic"
        /\ UNCHANGED <<mpc, cpc, cret>>
  /\ UNCHANGED <<unlockVars, cmdline, misread, sig, daemon, sysfs, wiped>>

-----------------------------------------------------------------------------
(* The other processes.                                                    *)

\* Prompts of other processes outlive the exec of the real init.
OthersRun == machine \in {"running", "booted"}

\* A process starts a challenge: an ssh login execs /init, also one that
\* outlives the daemon which accepted it, and the child that could not exec tor
\* goes on in main.  Both read the command line as main does.
\* (MUTANT: the sub-prompts do not look at it.)
MayPromptAnyway(p) ==
  /\ machine = "running"
  /\ UNCHANGED misread
  /\ IF p = Clone THEN daemon["tor"] = "clone"
                  ELSE daemon["ssh"] # "off"
MayPrompt(p) ==
  /\ machine = "running"
  /\ NoOrder
  /\ IF p = Clone THEN daemon["tor"] = "clone"
                  ELSE daemon["ssh"] # "off"

\* The last action of a process that leaves the record of a clone.
CloneGone(p) ==
  daemon' = [daemon EXCEPT !["tor"] = IF p = Clone THEN "off" ELSE @]

\* What a sub-prompt does in and after the challenge: with i_retval 0 it
\* sends SIGTERM to init before it exits.  (MUTANT: whatever i_retval is.)
ReportsAlways(p) == pc[p] = "returned"
Reports(p) == pc[p] = "returned" /\ ret[p] = Success

SubPrompt(p) ==
  /\ OthersRun
  /\ \/ /\ MayPrompt(p) /\ Begin(p)
        /\ UNCHANGED <<cmdline, mpc, cpc, cret, sig, daemon, sysfs, wiped, machine>>
     \/ /\ Challenge(p) \/ (p # Clone /\ Hangup(p))
        /\ UNCHANGED initVars
     \/ /\ Leave(p)
        /\ sig' = (sig \/ Reports(p))
        /\ CloneGone(p)
        /\ UNCHANGED <<cmdline, misread, mpc, cpc, cret, sysfs, wiped, machine>>

\* A daemon writes its pid file, after creating it.
DaemonWrites(d) ==
  /\ machine = "running"
  /\ \/ /\ daemon[d] = "launched"
        /\ daemon' = [daemon EXCEPT ![d] =
             IF "pid_file" \in Faults THEN "created" ELSE "up"]
     \/ /\ daemon[d] = "created"
        /\ daemon' = [daemon EXCEPT ![d] = "up"]
  /\ UNCHANGED <<unlockVars, cmdline, misread, mpc, cpc, cret, sig, sysfs, wiped, machine>>

\* A daemon dies and leaves its pid file.
DaemonDies(d) ==
  /\ machine = "running"
  /\ daemon[d] = "up"
  /\ daemon' = [daemon EXCEPT ![d] = "dead"]
  /\ UNCHANGED <<unlockVars, cmdline, misread, mpc, cpc, cret, sig, sysfs, wiped, machine>>

-----------------------------------------------------------------------------
(* The rest of cleanup_system.                                             *)

FrameRuns(f) == IF f = "main" THEN MainRuns ELSE machine = "running"

GoTo(f, stage) ==
  /\ cpc' = [cpc EXCEPT ![f] = stage]
  /\ UNCHANGED cret

\* goto boot_failed with i_retval_in |= flag.  (MUTANT: it stays what it was.)
FailSilently(f, flag) ==
  GoTo(f, IF cret[f] = Success THEN "return" ELSE "failed")
Fail(f, flag) ==
  /\ cpc'  = [cpc EXCEPT ![f] = "failed"]
  /\ cret' = [cret EXCEPT ![f] = @ \cup {flag}]

\* kill_pid_file: the pairs of its result and of what becomes of the daemon.
\* No pid file and no such process are errors; a file that cannot be read is
\* not, and of an empty one the buffer's garbage is taken for the pid.
\* (MUTANT: its errors are not reported.)
KillQuietly(s) == {<<TRUE, IF s = "up" THEN "signalled" ELSE s>>}
KillPidFile(s) ==
  (CASE s = "up" -> {<<TRUE, "signalled">>}
     [] s = "created" -> {<<TRUE, s>>, <<FALSE, s>>}
     [] s = "signalled" -> {<<TRUE, s>>, <<FALSE, s>>}
     [] OTHER -> {<<FALSE, s>>})
  \cup (IF "pid_file" \in Faults THEN {<<TRUE, s>>} ELSE {})

\* atoi of garbage may yield 0, and kill( 0, SIGTERM ) reaches pid 1 itself.
MayHitInit(s) == s = "created"

\* Frame f calls a function that stops daemon d, with one of these results.
Stop(f, d, results, flag, next) ==
  /\ \E k \in results :
       /\ daemon' = [daemon EXCEPT ![d] = k[2]]
       /\ IF k[1] THEN GoTo(f, next) ELSE Fail(f, flag)
  /\ \/ UNCHANGED sig
     \/ MayHitInit(daemon[d]) /\ sig' = TRUE
  /\ UNCHANGED <<sysfs, wiped, machine>>

StopTor(f) ==
  cpc[f] = "tor" /\ Stop(f, "tor", KillPidFile(daemon["tor"]), "TOR", "ssh")

StopSsh(f) ==
  cpc[f] = "ssh" /\ Stop(f, "ssh", KillPidFile(daemon["ssh"]), "SSH", "net")

\* With a VLAN, stop_network may fail when the daemon has been stopped.
KillDhcp ==
  KillPidFile(daemon["dhcp"])
  \cup (IF VLAN THEN {<<FALSE, k[2]>> : k \in KillPidFile(daemon["dhcp"])} ELSE {})

\* stop_network; it also fails when it has no socket.
StopNetwork(f) ==
  /\ cpc[f] = "net"
  /\ \/ DHCP /\ Stop(f, "dhcp", KillDhcp, "NET", "umount")
     \/ /\ ~DHCP /\ GoTo(f, "umount")
        /\ UNCHANGED <<daemon, sig, sysfs, wiped, machine>>
     \/ Fail(f, "NET") /\ UNCHANGED <<daemon, sig, sysfs, wiped, machine>>

\* umount_sys reports its last umount2, that of /sys.
UmountSys(f) ==
  /\ cpc[f] = "umount"
  /\ \/ /\ sysfs /\ sysfs' = FALSE
        /\ GoTo(f, IF "SHUTDOWN" \in cret[f] THEN "poweroff" ELSE "switch")
     \/ Fail(f, "SYSFS") /\ UNCHANGED sysfs
  /\ UNCHANGED <<daemon, sig, wiped, machine>>

\* An error of mount_switch_root.  It frees its argument list, which ends in
\* garbage when the heap is dirty.
SwitchFails(f) ==
  \/ Fail(f, "ROOT") /\ UNCHANGED machine
  \/ DirtyHeap /\ machine' = "panic" /\ UNCHANGED <<cpc, cret>>

\* The checks of mount_switch_root: another file system is mounted on the new
\* root, and /init is still there.  Its chdir may fail in spite of them, and so
\* does an initrd that is neither ramfs nor tmpfs.  (MUTANT: /init alone.)
InitThere == ~wiped
RootReady == rootfs # NoDev /\ ~wiped

CheckRoot(f) ==
  /\ cpc[f] = "switch"
  /\ \/ RootReady /\ GoTo(f, "wipe") /\ UNCHANGED machine
     \/ SwitchFails(f)
  /\ UNCHANGED <<daemon, sig, sysfs, wiped>>

Wipe(f) ==
  /\ cpc[f] = "wipe"
  /\ wiped' = TRUE
  /\ GoTo(f, "move")
  /\ UNCHANGED <<daemon, sig, sysfs, machine>>

\* MS_MOVE, chroot and chdir.
MoveRoot(f) ==
  /\ cpc[f] = "move"
  /\ \/ GoTo(f, "exec") /\ UNCHANGED machine
     \/ SwitchFails(f)
  /\ UNCHANGED <<daemon, sig, sysfs, wiped>>

\* execv of the real init.  When it fails, mount_switch_root returns 0.
ExecInit(f) ==
  /\ cpc[f] = "exec"
  /\ \/ machine' = "booted" /\ UNCHANGED <<cpc, cret>>
     \/ /\ "exec" \in Faults \/ DirtyHeap
        /\ GoTo(f, "return")
        /\ UNCHANGED machine
     \/ DirtyHeap /\ machine' = "panic" /\ UNCHANGED <<cpc, cret>>
  /\ UNCHANGED <<daemon, sig, sysfs, wiped>>

\* reboot( 2 ), by the imperative or because of an error.
Reboot(f) ==
  /\ \/ cpc[f] = "poweroff" /\ machine' = "off"
     \/ cpc[f] = "failed" /\ machine' = "restart"
  /\ UNCHANGED <<cpc, cret, daemon, sig, sysfs, wiped>>

\* cleanup_system returns with i_retval_in 0: main exits, which the kernel
\* answers with a panic; the handler returns to where main was.
Return(f) ==
  /\ cpc[f] = "return"
  /\ \/ f = "main" /\ machine' = "panic" /\ UNCHANGED cpc
     \/ f = "handler" /\ cpc' = [cpc EXCEPT ![f] = "idle"] /\ UNCHANGED machine
  /\ UNCHANGED <<cret, daemon, sig, sysfs, wiped>>

CleanupStep(f) ==
  /\ FrameRuns(f)
  /\ \/ StopTor(f) \/ StopSsh(f) \/ StopNetwork(f) \/ UmountSys(f)
     \/ CheckRoot(f) \/ Wipe(f) \/ MoveRoot(f) \/ ExecInit(f)
     \/ Reboot(f) \/ Return(f)
  /\ UNCHANGED <<unlockVars, cmdline, misread, mpc>>

-----------------------------------------------------------------------------

\* SIGTERM is delivered: the handler calls cleanup_system( 0 ), whose first
\* calloc never returns if main was interrupted inside the allocator.
Handle ==
  /\ MainRuns /\ sig
  /\ sig' = FALSE
  /\ \/ Cleanup("handler", Success)
     \/ /\ "heap_lock" \in Faults
        /\ cpc' = [cpc EXCEPT !["handler"] = "stuck"]
        /\ UNCHANGED cret
  /\ UNCHANGED <<unlockVars, cmdline, misread, mpc, daemon, sysfs, wiped, machine>>

MainStep ==
  \/ MountSys \/ SetupNetwork \/ StartSsh \/ StartTor \/ Act
  \/ MainChallenge \/ MainCleanup

BootNext ==
  \/ MainStep
  \/ Handle
  \/ \E f \in Frames : CleanupStep(f)
  \/ \E p \in Remote : SubPrompt(p)
  \/ \E d \in Daemons : DaemonWrites(d) \/ DaemonDies(d)

BootSafety == BootInit /\ [][BootNext]_bootVars

\* pid 1 is scheduled, and signals are delivered.
BootFairness ==
  /\ WF_bootVars(Handle)
  /\ WF_bootVars(\E f \in Frames : CleanupStep(f))

BootSpec == BootSafety /\ BootFairness
=============================================================================
