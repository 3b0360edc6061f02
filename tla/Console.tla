------------------------------ MODULE Console -------------------------------
(***************************************************************************)
(* The console (console.c): hiding the output of the programs that init    *)
(* runs, and switching the terminal's echo off around a passphrase.        *)
(*                                                                         *)
(* Its users are pid 1 and the child that fork_exec leaves behind when the *)
(* execv of tor fails.  The terminal and its echo flag are shared; what    *)
(* console.c saves to undo its doings is each process' own (static)        *)
(* memory, which the child inherits as it is.  The rest of init is reduced *)
(* to the order in which it reaches the console.                           *)
(***************************************************************************)
EXTENDS Integers

CONSTANTS
  Pid1, Child,                     \* the two users of the console
  NET, TOR, DHCP, CONSOLE, DEBUG,   \* build flags; the Makefile sets ERRORS
                                    \* together with DEBUG
  ExecFails,                        \* execv of tor may fail
  MaxAttempts,                      \* CONFIG_MAX_ATTEMPTS
  None                              \* nothing saved: -1, or NULL

Users == {Pid1, Child}

\* The programs that are run hidden, in the order of their calls.
SetupCommands == {"mdev", "mdadm", "dhcp", "ssh", "tor"}
Commands == SetupCommands \cup {"vgscan", "vgchange"}

ASSUME ConsoleAssumption ==
  /\ Pid1 # Child
  /\ {NET, TOR, DHCP, CONSOLE, DEBUG, ExecFails} \subseteq BOOLEAN
  /\ MaxAttempts \in Nat \ {0}
  /\ None \notin BOOLEAN /\ None \notin {"tty", "null", "remote"} \cup Users

VARIABLES
  place,    \* where each user is
  running,  \* the command at its place has been started
  tries,    \* i_key_attempts
  out,      \* what stdout and stderr, which go together, are
  orig,     \* gi_stdout_orig and gi_stderr_orig
  term,     \* gps_term_echo, by its ECHO flag
  echo,     \* the ECHO flag of the terminal
  devnull,  \* /dev/null can be opened; fixed
  opener,   \* who has opened the volumes, or None: nobody else will
  sig,      \* a SIGTERM to pid 1 is pending
  ended     \* "no", or how the initrd ended

userVars == <<place, running, tries>>
outVars  == <<out, orig>>
echoVars == <<term, echo>>
bootVars == <<opener, sig, ended>>
consoleVars == <<userVars, outVars, echoVars, devnull, bootVars>>

ConsoleInit ==
  /\ place   = [p \in Users |-> IF p = Pid1 THEN "mdev" ELSE "absent"]
  /\ running = [p \in Users |-> FALSE]
  /\ tries   = [p \in Users |-> 0]
  /\ out     = [p \in Users |-> "tty"]
  /\ orig    = [p \in Users |-> None]
  /\ term    = [p \in Users |-> None]
  /\ echo    = TRUE
  /\ devnull \in BOOLEAN
  /\ opener  = None
  /\ sig     = FALSE
  /\ ended   = "no"

GoTo(p, there) ==
  /\ place'   = [place EXCEPT ![p] = there]
  /\ running' = [running EXCEPT ![p] = FALSE]
  /\ UNCHANGED tries

-----------------------------------------------------------------------------
(* console_hide and console_show.                                          *)

\* Only what is not hidden is saved and redirected; dup2 of a descriptor that
\* could not be opened fails and leaves things as they are.
\* (MUTANTS: the test is the wrong way round; the save is overwritten.)
HideInverted(p) ==
  IF orig[p] = None
    THEN UNCHANGED outVars
    ELSE /\ orig' = [orig EXCEPT ![p] = out[p]]
         /\ out'  = [out EXCEPT ![p] = IF devnull THEN "null" ELSE @]
HideAgain(p) ==
  /\ orig' = [orig EXCEPT ![p] = out[p]]
  /\ out'  = [out EXCEPT ![p] = IF devnull THEN "null" ELSE @]
Hide(p) ==
  IF orig[p] # None
    THEN UNCHANGED outVars
    ELSE /\ orig' = [orig EXCEPT ![p] = out[p]]
         /\ out'  = [out EXCEPT ![p] = IF devnull THEN "null" ELSE @]

Show(p) ==
  IF orig[p] = None
    THEN UNCHANGED outVars
    ELSE /\ out'  = [out EXCEPT ![p] = orig[p]]
         /\ orig' = [orig EXCEPT ![p] = None]

-----------------------------------------------------------------------------
(* The programs that init runs.                                            *)

\* What mount_sys and mount_mds lead to.
AfterArrays == IF ~NET THEN "prompt" ELSE IF DHCP THEN "dhcp" ELSE "ssh"

\* Where a command that went well leads; mdadm runs once for each array.
Onward(c) ==
  CASE c \in {"mdev", "mdadm"} -> {"mdadm", AfterArrays}
    [] c = "dhcp"     -> {"ssh"}
    [] c = "ssh"      -> {IF TOR THEN "tor" ELSE "prompt"}
    [] c = "tor"      -> {"prompt"}
    [] c = "vgscan"   -> {"vgchange"}
    [] c = "vgchange" -> {"root"}

\* Where one that failed leads: a failing mdadm is no error, and the result
\* of mount_probe_lvm is dropped.  fork_exec of tor cannot fail.
OnError(c) ==
  CASE c \in {"mdev", "dhcp", "ssh"} -> {"failed"}
    [] c = "mdadm"                   -> {AfterArrays}
    [] c \in {"vgscan", "vgchange"}  -> {"root"}
    [] c = "tor"                     -> {}

\* A program is started.  Only builds without ERRORS hide its output.
Start(p) ==
  /\ place[p] \in Commands /\ ~running[p]
  /\ running' = [running EXCEPT ![p] = TRUE]
  /\ IF DEBUG THEN UNCHANGED outVars ELSE Hide(p)
  /\ UNCHANGED <<place, tries, echoVars, devnull, bootVars>>

\* It ends well; or it fails, and the jump over console_show is taken.
\* (MUTANT: the jump is always taken.)
FinishHidden(p) ==
  /\ place[p] \in Commands /\ running[p]
  /\ \E c \in Onward(place[p]) \cup OnError(place[p]) : GoTo(p, c)
  /\ UNCHANGED <<outVars, echoVars, devnull, bootVars>>
Finish(p) ==
  /\ place[p] \in Commands /\ running[p]
  /\ \/ /\ \E c \in Onward(place[p]) : GoTo(p, c)
        /\ IF DEBUG THEN UNCHANGED outVars ELSE Show(p)
     \/ /\ \E c \in OnError(place[p]) : GoTo(p, c)
        /\ UNCHANGED outVars
  /\ UNCHANGED <<echoVars, devnull, bootVars>>

\* fork_exec of tor: the child whose execv fails goes on where pid 1 is, with
\* a copy of all that console.c keeps.
Fork ==
  /\ ExecFails
  /\ place[Pid1] = "tor" /\ running[Pid1] /\ place[Child] = "absent"
  /\ place'   = [place EXCEPT ![Child] = "tor"]
  /\ running' = [running EXCEPT ![Child] = TRUE]
  /\ out'     = [out EXCEPT ![Child] = out[Pid1]]
  /\ orig'    = [orig EXCEPT ![Child] = orig[Pid1]]
  /\ term'    = [term EXCEPT ![Child] = term[Pid1]]
  /\ UNCHANGED <<tries, echo, devnull, bootVars>>

\* A mount of mount_sys, or setup_network before dhcp is run, fails: main goes
\* to cleanup_system from wherever it would run the next program.
SetupFails ==
  /\ place[Pid1] \in SetupCommands \cap {"mdadm", AfterArrays} /\ ~running[Pid1]
  /\ GoTo(Pid1, "failed")
  /\ UNCHANGED <<outVars, echoVars, devnull, bootVars>>

\* main never calls prompt_decrypt: the regex of the imperative does not compile,
\* or the imperative is to shut down.
TurnsAway ==
  /\ place[Pid1] = "prompt" /\ tries[Pid1] = 0
  /\ GoTo(Pid1, "failed")
  /\ UNCHANGED <<outVars, echoVars, devnull, bootVars>>

-----------------------------------------------------------------------------
(* The prompt.                                                             *)

\* console_echo_off: save the terminal's mode ...
SaveMode(p) ==
  /\ place[p] = "prompt"
  /\ GoTo(p, "quiet")
  /\ term' = [term EXCEPT ![p] = IF @ = None THEN echo ELSE @]
  /\ UNCHANGED <<echo, outVars, devnull, bootVars>>

\* ... and switch echo off.  (MUTANT: it stays as it was saved.)
EchoKept(p) ==
  /\ place[p] = "quiet"
  /\ GoTo(p, "read")
  /\ UNCHANGED <<echoVars, outVars, devnull, bootVars>>
EchoOff(p) ==
  /\ place[p] = "quiet"
  /\ GoTo(p, "read")
  /\ echo' = FALSE
  /\ UNCHANGED <<term, outVars, devnull, bootVars>>

\* The key has been read; console_echo_on restores what was saved.
\* (MUTANT: it does not.)
EchoForgotten(p) ==
  /\ place[p] = "read"
  /\ GoTo(p, "typed")
  /\ UNCHANGED <<echoVars, outVars, devnull, bootVars>>
EchoOn(p) ==
  /\ place[p] = "read"
  /\ GoTo(p, "typed")
  /\ echo' = term[p]
  /\ term' = [term EXCEPT ![p] = None]
  /\ UNCHANGED <<outVars, devnull, bootVars>>

\* The attempt that uses up the last one.
LastTry(p) == tries[p] + 1 = MaxAttempts

\* prompt_decrypt returns an error: init reboots, the child exits.
GivesUp(p) == IF p = Pid1 THEN "failed" ELSE "gone"

\* An error that does not break the loop costs an attempt, and the prompt comes
\* again while there are attempts left.
TriesAgain(p) ==
  /\ place' = [place EXCEPT ![p] = IF LastTry(p) THEN GivesUp(p) ELSE "prompt"]
  /\ tries' = [tries EXCEPT ![p] = @ + 1]
  /\ UNCHANGED running

\* The key opens the volumes, if nobody has; it is the console password; or
\* it fails.
Decrypt(p) ==
  /\ place[p] = "typed"
  /\ \/ /\ opener = None /\ opener' = p
        /\ GoTo(p, "vgscan")
     \/ /\ CONSOLE /\ GoTo(p, "shell")
        /\ UNCHANGED opener
     \/ TriesAgain(p) /\ UNCHANGED opener
  /\ UNCHANGED <<outVars, echoVars, devnull, sig, ended>>

\* console_shell returns.
LeaveShell(p) ==
  /\ place[p] = "shell"
  /\ GoTo(p, GivesUp(p))
  /\ UNCHANGED <<outVars, echoVars, devnull, bootVars>>

\* mount_probe_root; the child reports a mounted root to pid 1 and exits.  Of its
\* errors a regcomp that fails does not break the loop.
MountRoot(p) ==
  /\ place[p] = "root"
  /\ \/ GoTo(p, GivesUp(p)) /\ UNCHANGED sig
     \/ TriesAgain(p) /\ UNCHANGED sig
     \/ p = Pid1 /\ GoTo(p, "cleanup") /\ UNCHANGED sig
     \/ p = Child /\ GoTo(p, "gone") /\ sig' = TRUE
  /\ UNCHANGED <<outVars, echoVars, devnull, opener, ended>>

-----------------------------------------------------------------------------
(* The end of the initrd.                                                  *)

\* A sub-prompt, whose terminal is another one, unlocks the host.
RemoteUnlock ==
  /\ NET /\ place[Pid1] \notin {"mdev", "mdadm", "dhcp", "ssh"}
  /\ opener = None
  /\ opener' = "remote" /\ sig' = TRUE
  /\ UNCHANGED <<userVars, outVars, echoVars, devnull, ended>>

\* signal_handler: cleanup_system( 0 ) takes over wherever main is, and main,
\* interrupted for good, leaves the console as it was.
Handle ==
  /\ sig /\ sig' = FALSE
  /\ GoTo(Pid1, "cleanup")
  /\ UNCHANGED <<outVars, echoVars, devnull, opener, ended>>

\* cleanup_system ends with the real init, or it fails.
CleanUp ==
  /\ place[Pid1] = "cleanup"
  /\ \/ ended' = "booted" /\ UNCHANGED userVars
     \/ GoTo(Pid1, "failed") /\ UNCHANGED ended
  /\ UNCHANGED <<outVars, echoVars, devnull, opener, sig>>

\* boot_failed: reboot, after a shell on the console in a DEBUG build.
BootFailed ==
  /\ \/ /\ place[Pid1] = "failed"
        /\ IF DEBUG /\ CONSOLE
             THEN GoTo(Pid1, "drop") /\ UNCHANGED ended
             ELSE ended' = "restart" /\ UNCHANGED userVars
     \/ /\ place[Pid1] = "drop"
        /\ ended' = "restart" /\ UNCHANGED userVars
  /\ UNCHANGED <<outVars, echoVars, devnull, opener, sig>>

UserStep(p) ==
  \/ Start(p) \/ Finish(p)
  \/ SaveMode(p) \/ EchoOff(p) \/ EchoOn(p) \/ Decrypt(p)
  \/ LeaveShell(p) \/ MountRoot(p)

ConsoleNext ==
  /\ ended = "no"
  /\ \/ \E p \in Users : UserStep(p)
     \/ Fork \/ SetupFails \/ TurnsAway
     \/ RemoteUnlock \/ Handle \/ CleanUp \/ BootFailed

ConsoleSpec == ConsoleInit /\ [][ConsoleNext]_consoleVars
=============================================================================
