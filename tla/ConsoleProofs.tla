--------------------------- MODULE ConsoleProofs ----------------------------
(***************************************************************************)
(* Proofs about the console, for every build of init.                      *)
(*                                                                         *)
(* The argument: a step goes somewhere without the console, starts or ends *)
(* a program, copies a user, or switches echo; what it does to the output  *)
(* and to the echo is looked at separately.                                *)
(***************************************************************************)
EXTENDS ConsoleProps, TLAPS

USE ConsoleAssumption

-----------------------------------------------------------------------------
(* Hidden output.                                                          *)

OutInv == HiddenIsSaved /\ ShownAtPrompt /\ RunsHidden

\* Where a program leads when it ends.
LEMMA CommandLeads ==
  ASSUME NEW c \in Commands
  PROVE  /\ Onward(c) \subseteq ConsolePlaces /\ OnError(c) \subseteq ConsolePlaces
         /\ (Onward(c) \cup OnError(c)) \cap {"quiet", "read"} = {}
         /\ c \in SetupCommands => (Onward(c) \cup OnError(c)) \cap ScanPlaces = {}
         /\ c \in ScanPlaces \/ c \in SetupCommands
         /\ NET => OnError(c) \cap (PromptPlaces \cup {"tor"}) = {}
  BY DEF Commands, SetupCommands, Onward, OnError, AfterArrays, ConsolePlaces,
         PromptPlaces, ScanPlaces

\* A user moves, and whatever ran at its place has ended.
Moved(p, there) ==
  /\ place'   = [place EXCEPT ![p] = there]
  /\ running' = [running EXCEPT ![p] = FALSE]

\* Such a move respects the types and touches no other user.
LEMMA MovedUsers ==
  ASSUME NEW p \in Users, NEW there, ConsoleTypeOK, Moved(p, there)
  PROVE  /\ there \in ConsolePlaces => place' \in [Users -> ConsolePlaces]
         /\ running' \in [Users -> BOOLEAN]
         /\ place'[p] = there /\ ~running'[p]
         /\ \A q \in Users \ {p} : place'[q] = place[q] /\ running'[q] = running[q]
  BY DEF ConsoleTypeOK, Moved

\* Who has opened the volumes has done so for good.
OpenerStays == \A q \in Users : opener = q => opener' = q

\* One that moves with its output as it was, and to the prompt only unhidden or
\* when it has opened the volumes, keeps the invariant.
LEMMA MovedOut ==
  ASSUME NEW p \in Users, NEW there, ConsoleTypeOK, OutInv, Moved(p, there),
         UNCHANGED <<outVars, devnull>>, OpenerStays,
         NET /\ there \in PromptPlaces => orig[p] = None \/ opener' = p,
         NET /\ there = "tor" => orig[p] = None,
         there \in ScanPlaces => opener' = p
  PROVE  OutInv'
<1>1. /\ place'[p] = there /\ ~running'[p]
      /\ \A q \in Users \ {p} : place'[q] = place[q] /\ running'[q] = running[q]
  BY MovedUsers
<1>2. HiddenIsSaved'
  BY DEF OutInv, HiddenIsSaved, outVars
<1>3. ShownAtPrompt'
  BY <1>1 DEF OutInv, ShownAtPrompt, OpenerStays, outVars
<1>4. RunsHidden'
  BY <1>1 DEF OutInv, RunsHidden, outVars
<1> QED
  BY <1>2, <1>3, <1>4 DEF OutInv

\* console_hide respects the types, saves what it redirects, and touches
\* nobody else's output.
LEMMA HideOut ==
  ASSUME NEW p \in Users, ~DEBUG, ConsoleTypeOK, HiddenIsSaved, Hide(p), devnull' = devnull
  PROVE  /\ out' \in [Users -> {"tty", "null"}] /\ orig' \in [Users -> {"tty", "null", None}]
         /\ HiddenIsSaved'
         /\ orig[p] = None /\ devnull => out'[p] = "null"
         /\ \A q \in Users \ {p} : orig'[q] = orig[q] /\ out'[q] = out[q]
  BY DEF ConsoleTypeOK, HiddenIsSaved, Hide, outVars

\* console_show does too, and leaves nothing saved.
LEMMA ShowOut ==
  ASSUME NEW p \in Users, ConsoleTypeOK, HiddenIsSaved, Show(p), devnull' = devnull
  PROVE  /\ out' \in [Users -> {"tty", "null"}] /\ orig' \in [Users -> {"tty", "null", None}]
         /\ HiddenIsSaved'
         /\ orig'[p] = None
         /\ \A q \in Users \ {p} : orig'[q] = orig[q] /\ out'[q] = out[q]
  BY DEF ConsoleTypeOK, HiddenIsSaved, Show, outVars
-----------------------------------------------------------------------------
(* Each action.                                                            *)

\* A program is started.
LEMMA StartStep ==
  ASSUME NEW p \in Users, ConsoleInv, Start(p)
  PROVE  ConsoleInv'
<1> USE DEF ConsoleInv
<1>1. /\ running' = [running EXCEPT ![p] = TRUE] /\ place' = place
      /\ place[p] \in Commands /\ devnull' = devnull
      /\ UNCHANGED <<tries, echoVars, bootVars>>
  BY DEF Start
<1>2. /\ out' \in [Users -> {"tty", "null"}] /\ orig' \in [Users -> {"tty", "null", None}]
      /\ HiddenIsSaved'
      /\ devnull /\ ~DEBUG => out'[p] = "null"
      /\ \A q \in Users \ {p} : orig'[q] = orig[q] /\ out'[q] = out[q]
  <2>1. CASE DEBUG
    BY <1>1, <2>1 DEF Start, outVars, HiddenIsSaved, ConsoleTypeOK
  <2>2. CASE ~DEBUG
    <3>1. Hide(p)
      BY <2>2 DEF Start
    <3>2. orig[p] # None /\ devnull => out'[p] = "null"
      BY <3>1 DEF Hide, outVars, HiddenIsSaved
    <3> QED
      BY <1>1, <2>2, <3>1, <3>2, HideOut
  <2> QED
    BY <2>1, <2>2
<1>3. ConsoleTypeOK'
  BY <1>1, <1>2 DEF ConsoleTypeOK, echoVars, bootVars
<1>4. ShownAtPrompt'
  BY <1>1, <1>2 DEF ShownAtPrompt, ConsoleTypeOK, Commands, SetupCommands, PromptPlaces, bootVars
<1>5. RunsHidden'
  BY <1>1, <1>2 DEF RunsHidden, ConsoleTypeOK
<1>6. PromptLocals'
  BY <1>1 DEF PromptLocals, echoVars
<1> QED
  BY <1>2, <1>3, <1>4, <1>5, <1>6

\* A program ends, well or not.
LEMMA FinishStep ==
  ASSUME NEW p \in Users, ConsoleInv, Finish(p)
  PROVE  ConsoleInv'
<1> USE DEF ConsoleInv
<1>1. PICK c \in Onward(place[p]) \cup OnError(place[p]) :
        /\ GoTo(p, c)
        /\ UNCHANGED <<echoVars, devnull, bootVars>>
        /\ \/ c \in Onward(place[p]) /\ ~DEBUG /\ Show(p)
           \/ c \in Onward(place[p]) /\ DEBUG /\ UNCHANGED outVars
           \/ c \in OnError(place[p]) /\ UNCHANGED outVars
  BY DEF Finish
<1>2. place[p] \in Commands /\ running[p]
  BY DEF Finish
<1>3. c \in ConsolePlaces /\ Moved(p, c) /\ tries' = tries
  BY <1>1, <1>2, CommandLeads DEF GoTo, Moved
<1>6. PromptLocals'
  <2>1. /\ place'[p] = c
        /\ \A q \in Users \ {p} : place'[q] = place[q]
    BY <1>3, MovedUsers
  <2> QED
    BY <1>1, <1>2, <1>3, <2>1, CommandLeads DEF PromptLocals, echoVars
<1>7. OpenerStays /\ (c \in ScanPlaces => opener' = p)
  <2>1. c \in ScanPlaces => place[p] \in ScanPlaces
    BY <1>1, <1>2, CommandLeads
  <2> QED
    BY <1>1, <2>1 DEF OpenerStays, ShownAtPrompt, bootVars
<1>4. CASE UNCHANGED outVars
  <2>1. NET /\ c \in PromptPlaces \cup {"tor"} => orig[p] = None
    <3>1. CASE c \in OnError(place[p])
      BY <1>2, <3>1, CommandLeads
    <3>2. CASE DEBUG
      BY <3>2 DEF OutInv, HiddenIsSaved
    <3>3. CASE Show(p)
      BY <1>4, <3>3 DEF Show, outVars, ConsoleTypeOK, OutInv, HiddenIsSaved
    <3> QED
      BY <1>1, <3>1, <3>2, <3>3
  <2>2. OutInv'
    BY <1>1, <1>3, <1>4, <1>7, <2>1, MovedOut DEF OutInv
  <2>3. ConsoleTypeOK'
    BY <1>1, <1>3, <1>4, MovedUsers DEF ConsoleTypeOK, outVars, echoVars, bootVars
  <2> QED
    BY <1>6, <2>2, <2>3 DEF OutInv
<1>5. CASE Show(p)
  <2>1. /\ out' \in [Users -> {"tty", "null"}] /\ orig' \in [Users -> {"tty", "null", None}]
        /\ HiddenIsSaved' /\ orig'[p] = None
        /\ \A q \in Users \ {p} : orig'[q] = orig[q] /\ out'[q] = out[q]
    BY <1>1, <1>5, ShowOut
  <2>2. /\ place' \in [Users -> ConsolePlaces] /\ running' \in [Users -> BOOLEAN]
        /\ place'[p] = c /\ ~running'[p]
        /\ \A q \in Users \ {p} : place'[q] = place[q] /\ running'[q] = running[q]
    BY <1>3, MovedUsers
  <2>3. ConsoleTypeOK'
    BY <1>1, <1>3, <2>1, <2>2 DEF ConsoleTypeOK, echoVars, bootVars
  <2>4. ShownAtPrompt'
    BY <1>7, <2>1, <2>2 DEF ShownAtPrompt, OpenerStays
  <2>5. RunsHidden'
    BY <1>1, <2>1, <2>2 DEF RunsHidden
  <2> QED
    BY <1>6, <2>1, <2>3, <2>4, <2>5
<1> QED
  BY <1>1, <1>4, <1>5

\* The child is a copy of pid 1 in the middle of starting tor.
LEMMA ForkStep == ConsoleInv /\ Fork => ConsoleInv'
<1> SUFFICES ASSUME ConsoleInv, Fork PROVE ConsoleInv'
  OBVIOUS
<1> USE DEF ConsoleInv, Fork
<1>1. ConsoleTypeOK'
  BY DEF ConsoleTypeOK, Users, ConsolePlaces, Commands, SetupCommands, bootVars
<1>2. PromptLocals'
  BY DEF PromptLocals, ConsoleTypeOK, Users
<1>3. HiddenIsSaved'
  BY DEF HiddenIsSaved, ConsoleTypeOK, Users
<1>4. ShownAtPrompt'
  BY DEF ShownAtPrompt, ScanPlaces, PromptPlaces, ConsoleTypeOK, Users, bootVars
<1>5. RunsHidden'
  BY DEF RunsHidden, ConsoleTypeOK, Users
<1> QED
  BY <1>1, <1>2, <1>3, <1>4, <1>5

\* The steps of the prompt, and of what follows it, move a user on, or back
\* to the prompt with one attempt less, and leave the output alone.
MovesOn(p, there) ==
  /\ Moved(p, there) /\ UNCHANGED <<outVars, devnull>>
  /\ there \in ConsolePlaces \ {"tor", "absent", "vgchange", "root"}
  /\ there \notin SetupCommands
  /\ there \in PromptPlaces => place[p] \in PromptPlaces \cup {"root"}
  /\ there = "vgscan" => place[p] \in PromptPlaces /\ opener' = p
  /\ \/ tries' = tries
     \/ /\ place[p] \in PromptPlaces \cup {"root"}
        /\ tries' = [tries EXCEPT ![p] = @ + 1]
        /\ there \in PromptPlaces \cup {"vgscan"} => tries[p] + 1 # MaxAttempts
  /\ term' \in [Users -> BOOLEAN \cup {None}]
  /\ there \in {"quiet", "read"} => term'[p] \in BOOLEAN
  /\ \A q \in Users \ {p} : term'[q] = term[q]
  /\ {echo', sig'} \subseteq BOOLEAN
  /\ opener' \in Users \cup {"remote", None} /\ OpenerStays
  /\ ended' \in {"no", "booted", "restart"}

\* Such steps keep the invariant.
LEMMA MovesOnInv ==
  ASSUME NEW p \in Users, NEW there, ConsoleInv, MovesOn(p, there)
  PROVE  ConsoleInv'
<1> USE DEF ConsoleInv, MovesOn
<1>1. /\ place' \in [Users -> ConsolePlaces] /\ running' \in [Users -> BOOLEAN]
      /\ place'[p] = there
      /\ \A q \in Users \ {p} : place'[q] = place[q]
  BY MovedUsers
<1>2. tries' \in [Users -> 0..MaxAttempts] /\ PromptLocals'
  BY <1>1 DEF PromptLocals, ConsoleTypeOK, Commands, SetupCommands
<1>3. ~running[p] \/ place[p] \in Commands
  BY DEF RunsHidden
<1>4. NET /\ there \in PromptPlaces => orig[p] = None \/ opener' = p
  BY DEF ShownAtPrompt, ScanPlaces, OpenerStays
<1>5. OutInv'
  BY <1>4, MovedOut DEF OutInv, ScanPlaces
<1>6. ConsoleTypeOK'
  BY <1>1, <1>2 DEF ConsoleTypeOK, outVars
<1> QED
  BY <1>2, <1>5, <1>6 DEF OutInv

\* Every step of the prompt is one.
LEMMA PromptSteps ==
  ASSUME ConsoleInv, NEW p \in Users,
         \/ SaveMode(p) \/ EchoOff(p) \/ EchoOn(p) \/ Decrypt(p)
         \/ LeaveShell(p) \/ MountRoot(p)
  PROVE  \E there : MovesOn(p, there)
<1> USE DEF ConsoleInv, GoTo, Moved, MovesOn, ConsoleTypeOK, ConsolePlaces, Commands,
            SetupCommands, PromptPlaces, ScanPlaces, OpenerStays, outVars, echoVars, bootVars,
            GivesUp
<1>1. CASE SaveMode(p)
  BY <1>1 DEF SaveMode
<1>2. CASE EchoOff(p)
  BY <1>2 DEF EchoOff, PromptLocals
<1>3. CASE EchoOn(p)
  <2>1. term[p] \in BOOLEAN
    BY <1>3 DEF EchoOn, PromptLocals
  <2>2. MovesOn(p, "typed")
    BY <1>3, <2>1 DEF EchoOn
  <2> QED
    BY <2>2
<1>4. ASSUME TriesAgain(p), place[p] \in {"typed", "root"}, ~running[p],
             UNCHANGED <<outVars, echoVars, devnull, opener, ended>>, sig' = sig
      PROVE  \E there : MovesOn(p, there)
  <2> DEFINE there == IF LastTry(p) THEN GivesUp(p) ELSE "prompt"
  <2>1. running' = [running EXCEPT ![p] = FALSE]
    BY <1>4 DEF TriesAgain
  <2>2. MovesOn(p, there)
    BY <1>4, <2>1 DEF TriesAgain, LastTry
  <2> QED
    BY <2>2
<1>5. place[p] \in {"typed", "root"} => ~running[p]
  BY DEF RunsHidden
<1>6. CASE Decrypt(p)
  <2>1. CASE opener = None /\ opener' = p /\ GoTo(p, "vgscan")
    BY <1>6, <2>1 DEF Decrypt
  <2>2. CASE GoTo(p, "shell") /\ UNCHANGED opener
    BY <1>6, <2>2 DEF Decrypt
  <2>3. CASE TriesAgain(p) /\ UNCHANGED opener
    BY <1>4, <1>5, <1>6, <2>3 DEF Decrypt
  <2> QED
    BY <1>6, <2>1, <2>2, <2>3 DEF Decrypt
<1>7. CASE LeaveShell(p)
  BY <1>7 DEF LeaveShell
<1>8. CASE MountRoot(p)
  <2>1. CASE TriesAgain(p) /\ UNCHANGED sig
    BY <1>4, <1>5, <1>8, <2>1 DEF MountRoot
  <2>2. CASE GoTo(p, GivesUp(p)) /\ UNCHANGED sig
    <3>1. MovesOn(p, GivesUp(p))
      BY <1>8, <2>2 DEF MountRoot
    <3> QED
      BY <3>1
  <2>3. CASE p = Pid1 /\ GoTo(p, "cleanup") /\ UNCHANGED sig
    <3>1. MovesOn(p, "cleanup")
      BY <1>8, <2>3 DEF MountRoot
    <3> QED
      BY <3>1
  <2>4. CASE p = Child /\ GoTo(p, "gone") /\ sig' = TRUE
    <3>1. MovesOn(p, "gone")
      BY <1>8, <2>4 DEF MountRoot
    <3> QED
      BY <3>1
  <2> QED
    BY <1>8, <2>1, <2>2, <2>3, <2>4 DEF MountRoot
<1> QED
  BY <1>1, <1>2, <1>3, <1>6, <1>7, <1>8

\* So is every step of the end of the initrd, or it changes no user.
LEMMA EndSteps ==
  ASSUME ConsoleInv, SetupFails \/ TurnsAway \/ Handle \/ CleanUp \/ BootFailed \/ RemoteUnlock
  PROVE  \/ \E there : MovesOn(Pid1, there)
         \/ /\ UNCHANGED <<userVars, outVars, echoVars, devnull>>
            /\ sig' \in BOOLEAN /\ OpenerStays /\ opener' \in Users \cup {"remote", None}
            /\ ended' \in {"no", "booted", "restart"}
<1> USE DEF ConsoleInv, GoTo, Moved, MovesOn, ConsoleTypeOK, ConsolePlaces, Commands,
            SetupCommands, PromptPlaces, ScanPlaces, OpenerStays, Users, outVars, echoVars,
            bootVars
<1>1. CASE SetupFails \/ TurnsAway
  <2>1. MovesOn(Pid1, "failed")
    BY <1>1 DEF SetupFails, TurnsAway
  <2> QED
    BY <2>1
<1>2. CASE Handle
  <2>1. MovesOn(Pid1, "cleanup")
    BY <1>2 DEF Handle
  <2> QED
    BY <2>1
<1>3. CASE CleanUp
  <2>1. CASE GoTo(Pid1, "failed") /\ UNCHANGED ended
    <3>1. MovesOn(Pid1, "failed")
      BY <1>3, <2>1 DEF CleanUp
    <3> QED
      BY <3>1
  <2> QED
    BY <1>3, <2>1 DEF CleanUp
<1>4. CASE BootFailed
  <2>1. CASE GoTo(Pid1, "drop") /\ UNCHANGED ended
    <3>1. MovesOn(Pid1, "drop")
      BY <1>4, <2>1 DEF BootFailed
    <3> QED
      BY <3>1
  <2> QED
    BY <1>4, <2>1 DEF BootFailed
<1>5. CASE RemoteUnlock
  BY <1>5 DEF RemoteUnlock
<1> QED
  BY <1>1, <1>2, <1>3, <1>4, <1>5

\* What changes no user keeps the invariant.
LEMMA IdleInv ==
  ASSUME ConsoleInv, UNCHANGED <<userVars, outVars, echoVars, devnull>>,
         sig' \in BOOLEAN, OpenerStays, opener' \in Users \cup {"remote", None}, ended' \in {"no", "booted", "restart"}
  PROVE  ConsoleInv'
<1> USE DEF ConsoleInv, userVars, outVars, echoVars
<1>1. ConsoleTypeOK'
  BY DEF ConsoleTypeOK
<1>2. PromptLocals' /\ HiddenIsSaved' /\ ShownAtPrompt' /\ RunsHidden'
  BY DEF PromptLocals, HiddenIsSaved, ShownAtPrompt, RunsHidden, OpenerStays
<1> QED
  BY <1>1, <1>2

\* What holds of the console in every build, with or without the child.
THEOREM ConsoleInvariant == ConsoleSpec => []ConsoleInv
<1>1. ConsoleInit => ConsoleInv
  <2> SUFFICES ASSUME ConsoleInit PROVE ConsoleInv
    OBVIOUS
  <2> USE DEF ConsoleInit
  <2>1. ConsoleTypeOK
    <3>1. /\ place \in [Users -> ConsolePlaces]
          /\ running \in [Users -> BOOLEAN]
          /\ tries \in [Users -> 0..MaxAttempts]
      BY DEF ConsolePlaces, Commands, SetupCommands
    <3>2. /\ out \in [Users -> {"tty", "null"}]
          /\ orig \in [Users -> {"tty", "null", None}]
          /\ term \in [Users -> BOOLEAN \cup {None}]
      OBVIOUS
    <3>3. /\ {echo, devnull, sig} \subseteq BOOLEAN /\ opener = None
          /\ ended \in {"no", "booted", "restart"}
      OBVIOUS
    <3> QED
      BY <3>1, <3>2, <3>3 DEF ConsoleTypeOK
  <2>2. PromptLocals /\ RunsHidden
    BY DEF PromptLocals, RunsHidden
  <2>3. HiddenIsSaved /\ ShownAtPrompt
    BY DEF HiddenIsSaved, ShownAtPrompt, ScanPlaces
  <2> QED
    BY <2>1, <2>2, <2>3 DEF ConsoleInv
<1>2. ConsoleInv /\ [ConsoleNext]_consoleVars => ConsoleInv'
  <2> SUFFICES ASSUME ConsoleInv, [ConsoleNext]_consoleVars PROVE ConsoleInv'
    OBVIOUS
  <2>1. ASSUME NEW p \in Users, UserStep(p) PROVE ConsoleInv'
    <3>1. CASE Start(p) \/ Finish(p)
      BY <3>1, StartStep, FinishStep
    <3>2. CASE ~ (Start(p) \/ Finish(p))
      BY <2>1, <3>2, PromptSteps, MovesOnInv DEF UserStep
    <3> QED
      BY <3>1, <3>2
  <2>2. CASE SetupFails \/ TurnsAway \/ Handle \/ CleanUp \/ BootFailed \/ RemoteUnlock
    BY <2>2, EndSteps, MovesOnInv, IdleInv DEF Users
  <2>3. CASE UNCHANGED consoleVars
    BY <2>3, IdleInv DEF ConsoleInv, ConsoleTypeOK, OpenerStays, consoleVars, bootVars
  <2> QED
    BY <2>1, <2>2, <2>3, ForkStep DEF ConsoleNext
<1> QED
  BY <1>1, <1>2, PTL DEF ConsoleSpec

\* The variables of the console have their types.
THEOREM ConsoleTypeCorrect == ConsoleSpec => []ConsoleTypeOK
<1>1. ConsoleInv => ConsoleTypeOK
  BY DEF ConsoleInv
<1> QED
  BY ConsoleInvariant, <1>1, PTL

\* In a NET build nobody is prompted with the output hidden but the one who has
\* opened the volumes.
THEOREM PromptIsSeen == ConsoleSpec => []PromptSeen
<1>1. ConsoleInv => PromptSeen
  BY DEF ConsoleInv, HiddenIsSaved, ShownAtPrompt, RunsHidden, PromptSeen, PromptPlaces,
         Commands, SetupCommands
<1> QED
  BY <1>1, ConsoleInvariant, PTL

\* A release build shows nothing of what the programs that init runs print.
THEOREM CommandsAreQuiet == ConsoleSpec => []CommandsQuiet
<1>1. ConsoleInv => CommandsQuiet
  BY DEF ConsoleInv, RunsHidden, CommandsQuiet
<1> QED
  BY <1>1, ConsoleInvariant, PTL

\* Hidden output can always be shown again.
THEOREM HideIsUndone == ConsoleSpec => []HideUndone
<1>1. ConsoleInv => HideUndone
  BY DEF ConsoleInv, HiddenIsSaved, HideUndone
<1> QED
  BY <1>1, ConsoleInvariant, PTL

-----------------------------------------------------------------------------
(* Echo, as long as pid 1 is alone: execv of tor works.                    *)

\* No step brings the child about, and none of pid 1's breaks the invariant.
LEMMA AloneStep ==
  ASSUME ~ExecFails, ConsoleTypeOK, AloneOnTerminal, ConsoleNext
  PROVE  AloneOnTerminal'
<1> USE DEF AloneOnTerminal, GoTo, echoVars, SetupCommands, Commands, ConsoleTypeOK
<1>1. ~Fork /\ \A p \in Users : UserStep(p) => p = Pid1
  BY DEF Fork, UserStep, Start, Finish, SaveMode, EchoOff, EchoOn, Decrypt,
         LeaveShell, MountRoot, Users
<1>2. CASE Start(Pid1)
  BY <1>2 DEF Start, Users
<1>3. CASE Finish(Pid1)
  BY <1>3 DEF Finish, Onward, OnError, AfterArrays, Users
<1>4. CASE SaveMode(Pid1)
  BY <1>4 DEF SaveMode, Users
<1>5. CASE EchoOff(Pid1)
  BY <1>5 DEF EchoOff, Users
<1>6. CASE EchoOn(Pid1)
  BY <1>6 DEF EchoOn, Users
<1>7. CASE Decrypt(Pid1)
  BY <1>7 DEF Decrypt, TriesAgain, Users, GivesUp
<1>8. CASE LeaveShell(Pid1) \/ MountRoot(Pid1)
  BY <1>8 DEF LeaveShell, MountRoot, TriesAgain, Users, GivesUp
<1>9. CASE SetupFails \/ TurnsAway \/ Handle \/ CleanUp \/ BootFailed \/ RemoteUnlock
  <2>1. CASE UNCHANGED <<userVars, echoVars>>
    BY <2>1 DEF userVars
  <2>2. CASE \E there \in {"failed", "cleanup", "drop"} :
               GoTo(Pid1, there) /\ UNCHANGED echoVars
    BY <2>2 DEF Users
  <2> QED
    BY <1>9, <2>1, <2>2 DEF SetupFails, TurnsAway, Handle, CleanUp, BootFailed, RemoteUnlock
<1> QED
  BY <1>1, <1>2, <1>3, <1>4, <1>5, <1>6, <1>7, <1>8, <1>9 DEF ConsoleNext, UserStep

\* When nothing else uses the terminal, its echo follows the prompt.
THEOREM EchoFollowsPrompt ==
  ASSUME ~ExecFails
  PROVE  ConsoleSpec => []AloneOnTerminal
<1>1. ConsoleInit => AloneOnTerminal
  BY DEF ConsoleInit, AloneOnTerminal, Users, SetupCommands
<1>2. ConsoleInv /\ AloneOnTerminal /\ [ConsoleNext]_consoleVars => AloneOnTerminal'
  <2> SUFFICES ASSUME ConsoleInv, AloneOnTerminal, [ConsoleNext]_consoleVars
               PROVE  AloneOnTerminal'
    OBVIOUS
  <2>1. CASE ConsoleNext
    BY <2>1, AloneStep DEF ConsoleInv
  <2>2. CASE UNCHANGED consoleVars
    BY <2>2 DEF consoleVars, userVars, echoVars, AloneOnTerminal
  <2> QED
    BY <2>1, <2>2
<1> QED
  BY <1>1, <1>2, ConsoleInvariant, PTL DEF ConsoleSpec

\* No key is echoed while it is typed.
THEOREM KeysUnseen ==
  ASSUME ~ExecFails
  PROVE  ConsoleSpec => []KeyUnseen
<1>1. AloneOnTerminal => KeyUnseen
  BY DEF AloneOnTerminal, KeyUnseen, Users
<1> QED
  BY <1>1, EchoFollowsPrompt, PTL

\* The shell behind the console password echoes.
THEOREM ShellsEcho ==
  ASSUME ~ExecFails
  PROVE  ConsoleSpec => []ShellEchoes
<1>1. AloneOnTerminal => ShellEchoes
  BY DEF AloneOnTerminal, ShellEchoes, Users
<1> QED
  BY <1>1, EchoFollowsPrompt, PTL

=============================================================================
