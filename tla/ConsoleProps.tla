---------------------------- MODULE ConsoleProps ----------------------------
(***************************************************************************)
(* The properties of the console.                                          *)
(***************************************************************************)
EXTENDS Console

PromptPlaces == {"prompt", "quiet", "read", "typed", "shell"}
ScanPlaces == {"vgscan", "vgchange", "root"}
ConsolePlaces == Commands \cup PromptPlaces
                   \cup {"absent", "root", "cleanup", "failed", "drop", "gone"}

\* The variables have their types.
ConsoleTypeOK ==
  /\ place   \in [Users -> ConsolePlaces]
  /\ running \in [Users -> BOOLEAN]
  /\ tries   \in [Users -> 0..MaxAttempts]
  /\ out     \in [Users -> {"tty", "null"}]
  /\ orig    \in [Users -> {"tty", "null", None}]
  /\ term    \in [Users -> BOOLEAN \cup {None}]
  /\ {echo, devnull, sig} \subseteq BOOLEAN
  /\ opener  \in Users \cup {"remote", None}
  /\ ended   \in {"no", "booted", "restart"}

\* While a key is read the terminal does not echo it (console_echo_off in
\* prompt_decrypt).
KeyUnseen == \A p \in Users : place[p] = "read" => ~echo

\* The shell that the console password starts has a terminal that echoes, as
\* prompt_decrypt restores it before it looks at the key.
ShellEchoes == \A p \in Users : place[p] = "shell" => echo

\* So has the shell of a failed boot (prompt_decrypt: "Echo in case we drop to
\* console or something").
DropEchoes == place[Pid1] = "drop" => echo

\* In a NET build nobody is prompted with the output hidden whose key could still
\* unlock the host: an mdadm that failed under console_hide is undone by the
\* programs that follow it.  A vgscan that failed is not, and the one who opened
\* the volumes is prompted again if the regex of mount_probe_root does not compile
\* (mount.c:475, crysco.c:50): it is the only prompt that may be hidden.
PromptSeen ==
  NET => \A p \in Users :
           place[p] \in PromptPlaces /\ out[p] = "null" => opener = p

\* Where /dev/null can be opened, a release build shows nothing of what the
\* programs that init runs print.
CommandsQuiet ==
  devnull /\ ~DEBUG => \A p \in Users : running[p] => out[p] = "null"

\* Output that is hidden can be shown again: what is saved is the terminal,
\* however often console_hide was called, and in the child of a fork too.
HideUndone == \A p \in Users : out[p] = "null" => orig[p] = "tty"

-----------------------------------------------------------------------------

\* The inductive invariants behind these properties.

\* What is saved is the terminal, and it is saved where it is redirected.
HiddenIsSaved ==
  \A p \in Users : /\ orig[p] \in {"tty", None}
                   /\ DEBUG => orig[p] = None
                   /\ orig[p] = None => out[p] = "tty"
                   /\ orig[p] # None /\ devnull => out[p] = "null"

\* In a NET build every way to the prompt leads through a console_show, but for
\* the way back to it of the one who opened the volumes.
ShownAtPrompt ==
  /\ NET => \A p \in Users :
       /\ place[p] \in PromptPlaces => orig[p] = None \/ opener = p
       /\ place[p] = "tor" /\ ~running[p] => orig[p] = None
  /\ \A p \in Users : place[p] \in ScanPlaces => opener = p

\* A running program is hidden, and it is one of those that init runs.
RunsHidden ==
  \A p \in Users :
    running[p] => place[p] \in Commands /\ (devnull /\ ~DEBUG => out[p] = "null")

\* As long as pid 1 is alone, the terminal does not echo while pid 1 reads a key,
\* and it does, with nothing left to restore, at every other place of the setup,
\* of the prompt and of what follows an accepted key.  What is said of the places
\* after that (cleanup_system, the shell of a failed boot) is nothing: the signal
\* takes pid 1 there out of the middle of reading a key (DropEchoes).
AloneOnTerminal ==
  /\ place[Child] = "absent"
  /\ term[Pid1] \in {TRUE, None}
  /\ place[Pid1] = "read" => ~echo
  /\ place[Pid1] \in {"quiet", "read"} => term[Pid1] = TRUE
  /\ place[Pid1] \in Commands \cup {"prompt", "quiet", "typed", "shell", "root"} => echo
  /\ place[Pid1] \in Commands \cup {"prompt", "typed", "shell", "root"} => term[Pid1] = None

\* Only who has left the prompt for good has used up the attempts, and there
\* is a saved mode while a key is read.
PromptLocals ==
  \A p \in Users :
    /\ place[p] \in Commands \cup PromptPlaces \cup {"absent", "root"} => tries[p] < MaxAttempts
    /\ place[p] \in {"quiet", "read"} => term[p] \in BOOLEAN

ConsoleInv ==
  /\ ConsoleTypeOK
  /\ PromptLocals
  /\ HiddenIsSaved
  /\ ShownAtPrompt
  /\ RunsHidden
=============================================================================
