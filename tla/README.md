# A verification development for initrd-crypt

`initrd-crypt` builds an initial ramdisk whose only program of its own is
`/init` (`src/src/init/*.c`, about 2000 lines of C). It runs as pid 1, brings
up mounts, RAID arrays, network and ssh, asks for the passphrase of the
encrypted volumes on the console and over ssh, mounts the root and hands the
machine to the real init. This directory holds TLA+ modules that model that
program, the TLC configurations that check them, and TLAPS proofs about them.
Paths below are relative to the repository (`src/`).

## 1. Inventory

| component | source | state it keeps | operations |
|---|---|---|---|
| passphrase challenge | `crysco.c`, `mount.c:158-278, 409-580` | attempts, key buffer, position in `luks_vols`; in the kernel: dm-crypt mappings, LVM nodes, the root mount | `prompt_decrypt`, `mount_decrypt`, `mount_probe_lvm`, `mount_probe_root` |
| boot control | `init.c` | where pid 1 is, `i_retval`, pending SIGTERM | `main`, `signal_handler`, `cleanup_system` |
| switch root | `mount.c:650-882` | the file tree, current root | `mount_chown_root`, `mount_rmtree`, `mount_switch_root` |
| system mounts, md | `mount.c:6-154, 282-407` | mount table, arrays | `mount_sys`, `umount_sys`, `mount_mds` |
| network, daemons | `network.c`, `util.c` | interfaces, VLAN, daemons and pid files | `setup_network`, `stop_network`, `network_start_*`, `network_stop_*`, `fork_exec`, `kill_pid_file` |
| console | `console.c` | saved descriptors, saved terminal mode | `console_hide/show`, `console_echo_off/on`, `console_shell`, `console_prompt_string` |
| configuration | `config.c`, `*.m4` | none (pure) | `config_descramble_string`, `config_split_string_array`, `config_split_string_holders` and their `free` |
| UUID probing | `mount.c:582-645` | list of devices (BLKID builds) | `mount_probe_uuid_blk` |
| return values | `error.h` | flags in an int | `ERROR_*` macros |

How they interact. `main` in pid 1 calls everything in one sequence. Every ssh
login `exec`s `/init` (`image/etc/profile`), which skips the setup because it
is not pid 1 and runs the challenge too: a *sub-prompt*. When a sub-prompt
succeeds it sends SIGTERM to pid 1, whose handler runs `cleanup_system( 0 )`
wherever `main` happens to be. The processes share no memory; they meet in the
kernel: the device-mapper table, the mount table, signals and pid files. If
`execv` of tor fails, the forked child returns into `main` and is one more
prompt, on the console (`util.c:43-46`).

What is hard: prompts that race to activate the same volumes; failures between
two volumes; a session that is hung up half way; a SIGTERM at any point of
`main`; daemons that have not written, or have left behind, their pid files;
error paths that skip the reboot; and a build whose lists are not terminated.

What makes it correct, by component:

* challenge: one winner; volumes opened in order, with one key; 0 only with a
  mounted root; every key answered; a failed unlock changes nothing further;
* boot control: the initrd is deleted only when unlocked; one teardown; every
  daemon stopped before the handover; no stray signal to the real init; a
  failed boot reboots, and what kills pid 1 is known; power off only while
  locked; what began to end, ends;
* console: a key is never echoed, a shell always echoes, and the first prompt
  is visible whatever failed under `console_hide` before it;
* console input: a key is a line as it was typed, whatever was typed ahead, and
  none is read from a terminal that has closed;
* switch root: deletion stays in the initrd's own file system, and leaves
  nothing there that could go; what is given to root is all that can be;
* system mounts: what is left mounted was in use, and `umount_sys` reports
  success exactly if `/sys` is unmounted;
* UUID probing: the first device of a list is the wanted one in spite of a
  stale pointer; a failing mdadm is the last; what leaks is bounded;
* configuration: texts come back as they were before `xor.sh`, are cut at
  their separators, and records are read as they were written.

`PROJECT.json` lists the components with their status and every hazard with
its line and the properties about it.

## 2. Modules

| module | what it is |
|---|---|
| `Retval` | return values: the set of flags of `error.h` |
| `Unlock` | the challenge in any number of processes |
| `Gate` | abstract: a gate opened volume by volume by one holder |
| `UnlockProps` | properties of the challenge, its inductive invariant, the refinement of `Gate` |
| `UnlockProofs` | TLAPS proofs of all the safety properties of the challenge |
| `Boot` | composes `Unlock` with `main`, the handler, `cleanup_system`, switch root and the daemons |
| `BootStages` | abstract: the phases of a boot |
| `BootProps` | properties of a boot, its inductive invariants, the refinement of `BootStages` |
| `BootProofs` | TLAPS proofs of all the safety properties of a boot |
| `Console` | hiding output and switching echo, by pid 1 and the child left over from starting tor |
| `ConsoleProps`, `ConsoleProofs` | properties of the console, and their proofs |
| `TreeWalk` | `mount_rmtree` and `mount_chown_root`, node by node |
| `WalkProps`, `WalkProofs` | their properties, and the proofs |
| `Devices` | `mount_probe_uuid_blk` with its callers, `mount_mds` and the loop of `mount_decrypt` |
| `DevicesProps`, `DevicesProofs` | their properties, and the proofs |
| `SysMounts` | `mount_sys` and `umount_sys` over the whole list, and others that use the mounts |
| `SysHead` | abstract: the list as `Boot` sees it, by its head |
| `SysProps`, `SysProofs` | their properties, the refinement of `SysHead`, and the proofs |
| `SplitArray` | `config_split_string_array`, `config_free_string_array` |
| `SplitProps` | their properties |
| `Scramble` | `xor.sh` and `config_descramble_string` |
| `Holders` | `config_split_string_holders`, `config_free_string_holders` |
| `PromptString` | `console_prompt_string`, and the operator at the keyboard |
| `PromptProps` | their properties |
| `TextProofs` | TLAPS proofs about `SplitArray`, `Holders` and `PromptString` |
| `MCUnlock`, `MCBoot`, `MCConsole` | instances for TLC |
| `MCCalls` | the modules from `TreeWalk` on, one call at a time |
| `CallsProofs` | TLAPS proofs about `Scramble`, and of all calls together |

### Unlock

`pc[p]` is the place of process `p` in `prompt_decrypt` and its callees; `att`,
`key`, `vol` and `ret` are `i_key_attempts`, `pc_key_buffer`,
`ps_luks_vol_iter` and `i_retval`. One action is one visible kernel call with
the code around it, up to the next one:

| action | code |
|---|---|
| `Begin`, `EnterKey` | the prompt and the comparison with the console password |
| `ShellExit` | `console_shell` returned |
| `Probe` | `crypt_init` and `crypt_load` (or the BLKID `continue`) |
| `Activate` | `crypt_activate_by_passphrase`: an existing mapping is an error, a success moves to the next volume |
| `ProbeLvm` | `mount_probe_lvm`, whose result the caller drops |
| `ProbeRoot` | `mount_probe_root`: any matching mapper entry, as `readdir` orders them |
| `Leave`, `Hangup` | a sub-prompt exits, or its session drops |

`EndTurn` is what every failing path and the success share: free the buffer,
test for `break`, count the attempt. `disk` says of every volume whether its
device is absent, holds no LUKS header, or holds one; it does not change after
setup, because `/sbin/mdev -s` runs once and the hotplug registration is
commented out (`mount.c:123-135`).

### Boot

pid 1 has two frames, `main` and `handler`. `mpc` is the place of `main`; `cpc`
and `cret` are the place and `i_retval_in` of each frame in `cleanup_system`,
which both may be executing; `main` waits while the handler runs (`MainRuns`).
SIGTERM is blocked while its handler runs, so there is one handler frame.
`daemon[d]` is the life of a daemon and its pid file: `off`, `launched` (no
file yet), `created` (empty file), `up`, `dead` (stale file), `signalled`;
`clone` for the child that could not exec tor. `machine` is how the boot ended.
`Faults` names the rare outcomes that a run may switch on, so that the others
can show what holds without them: a failing exec of the real init, the regfree
of a never compiled regex, the allocator's lock in the handler, `/proc/cmdline`
that is not there or not read, and pid files read too early or not at all.

A session may begin its challenge at any time after ssh was started, also when
the daemon that accepted it was stopped.

When `/proc/cmdline` cannot be opened or read (`mount_sys` does not report a
`/proc` that it could not mount, and `umount_sys` takes `/proc` away), `main` goes
on with an empty `ac_cmdline`, in pid 1 as in a sub-prompt: on a boot with
`ifdy=shutdown` it prompts (`NoOrder`). `misread` is a history variable, read by no
guard: it remembers that somebody took an order to shut down for none, and the
properties that hold only for as long as nobody did say so by it. `BootStages` has
it as `blind`.

`MountSys` includes `mount_mds`, which in a BLKID build may end pid 1 by its read
behind an empty list (`BeyondList` of `Devices`). `CheckRoot` may fail whatever is
mounted: its `chdir` may, and so may the test for ramfs or tmpfs.

### Console

`out[p]` is what stdout and stderr of a user are; `orig`, `term` are what
`console.c` keeps in static memory (`gi_stdout_orig` and `gi_stderr_orig`, which
always change together, and the ECHO flag of `gps_term_echo`). They are per
process, and `Fork` copies them; `echo` is the flag of the one terminal. The
rest of init is only the order in which it gets to the console: `place[p]` with
`running[p]` for a program that has been started. `Onward` and `OnError` say
where a program leads when it ends well or not; in a release build the latter
is the jump over `console_show`. `SetupFails` and `TurnsAway` are the ways out of the
setup that start no program. `Handle` ends `main` where it is. Unlocking is reduced
to "somebody opens the volumes, once", which `Unlock` shows; `opener` is who it was.
`TriesAgain` is every error that does not break the loop of `prompt_decrypt`: a
wrong key, and a regex of `mount_probe_root` that does not compile.

### TreeWalk

A tree has the nodes `0..N`; `parent`, `kind`, `home` (the nodes on the initrd's
device) and `target` (the end of a link) do not change. The recursion is
`stack`, the directories that are open. `Call` is the first call, `Descend` one
entry of `readdir` with the call for it, `Leave` the end of a directory with its
`rmdir`. `Enter` is the body up to the recursion: the comparison of devices,
`chown` or `unlink`, and `opendir`, which fails when `MaxOpen` are open. The two
functions are copies of each other, and `walk` says which one runs.

### Devices

A BLKID build. `uuid` and `readable` say what a probe would find on each device.
A scan is `Scan` (the `opendir` that is never closed: `fds`), one `Probe` for each
entry of `/dev` in any order, and `Found`. `ptr` is `pc_uuid_iter`, as the device
whose probe it points into: `Says` lets the text of a probe that was freed be
what it was or anything else. `Assemble`, `AssembleFails`, `BeyondList` and
`ArraysDone` are `mount_mds`; an array that was assembled is a device for the
scans to come. `TypeKey` is the return of `console_prompt_string`, for which the
phase `"key"` waits; `TryAgain`, `Opens`, `KeyFails`, `VolumesDone` are the loop of
`mount_decrypt`, whose processes and keys are `Unlock`'s subject: here a key is
right for a device or it is not.

### SysMounts

`MountEntry` is a turn of the loop of `mount_sys` with its `stat`, `mkdir` and
`mount`, `RunMdev` its end. `iter` and `prev` are `ps_sys_fs_iter` and
`ps_sys_fs_prev`, and `NextOf` is `next`, the only way to follow the list:
`SeekLast` goes to its end, `UmountEntry` unmounts an entry, and `SearchPrevious`
is a turn of the search from the head for the entry before. `Use` and
`Release` are other processes. `Outer` says which mount points lie in which
mount. `SysHead` is the view that `Boot` has, a Boolean for `/sys` and a result;
`SysImplementsHead` justifies it.

### SplitArray, Scramble, Holders

One action is one turn of the loop of the function: `Grab` and `Separate` for a
character of a list, `DescrambleByte` for a byte, `BeginList`, `EndList` and
`AddChar` for a character of a record. `last` is the slot behind the last string,
which nothing assigns. A byte is the set of its bits. `live` of a holder says
whether its `pc_name` still points to the name: `realloc` is given another
pointer's block, so it may move the name away when it outgrows `Block`. A list in
a record is its text; what becomes of it is `SplitArray`'s.

### PromptString

`Type` and `Hangup` are the operator, at any time; `Prompt` is the call, `Read` and
`ReadEof` a turn of its loop. `got` counts what `getchar` has returned, so that
what is typed ahead is there for the next prompt. `size` is `i_key_buffer_size`.

### MCCalls

The last seven components are functions that run to their end by themselves, in
one process, and share no state. A behaviour of `CallsSpec` is one of them with
any of its inputs, while the others stand where they begin or have returned;
`call` says which. So each is explored as by a run of its own.

## 3. Runs

| run | shows |
|---|---|
| `unlock` | three racing prompts; all properties of the challenge, and the refinement of `Gate` |
| `unlock_blkid` | violation: a missing device in a BLKID build is an endless loop |
| `boot` | a boot with all daemons and no rare fault but an unreadable command line |
| `boot_faults` | what still holds with every rare fault, in a BLKID build; what pid 1 dies of |
| `boot_exec`, `boot_regfree` | violations of "reboot on failure" |
| `boot_lock` | violation: the handler may hang |
| `console` | a DEBUG build, pid 1 alone on the terminal: echo |
| `console_fork` | a release build with the left-over child: what is hidden and shown |
| `console_two` | violation: two prompts on one terminal echo a key |
| `console_drop` | violation: the shell of a failed boot does not echo |
| `calls` | the walks, the search for devices, the mounts, the texts and the prompt, each with every small input |

Bounds. Two volumes are enough for "failed at a later volume" and for two
attempts to contribute one volume each; three processes for two sub-prompts to
race with each other and with pid 1; two attempts for a retry after a failure
(one in the boot runs, where retries add nothing that `unlock` does not check).
The boot has one ssh session and the left-over child as sub-prompts, so every
kind of prompt races with every other. In the console two attempts give a
second prompt after a failed one, and mdadm runs any number of times.

In `calls`, five nodes and two descriptors make every shape that a walk tells
apart: a directory in a directory with something in it and beside it, a mount
below either, a link to any of them or to nowhere, and a directory that cannot
be opened above others. Two disks and two arrays give every scan a device
before and behind the wanted one, members and volumes that share a UUID, and an
array behind the one that fails; two volumes and two attempts give a second key, which
the operator may never type, after a volume was opened, and `MaxFds` is exactly what `LeakBounded` allows, so
that one leak more is seen. Four mounts are two with one in each. A text of
five characters has separators at its beginning, its end and in a row. Bytes of
two bits are enough because every operation is bit by bit; three of them and
every key have a NUL in the middle of a scrambled text. Two records with names
up to two characters have names that fit into a block and names that do not.
Five typed characters are a line, an empty one, and something typed ahead.
The proofs have none of these bounds.

The inductive invariants are checked by TLC too: `UnlockInv`, `RobustInv`,
`ConsoleInv`, and `CallsInv`, which is `WalkInv`, `DevicesInv`, `SysInv`,
`SplitInv`, `ScrambleInv`, `HoldersInv` and `PromptInv`. Type correctness is
their first part.

Fairness. `UnlockSpec` has weak fairness of the steps the machine takes by
itself once a key is entered (`Work`), not of anything an operator does.
`BootSpec` has weak fairness of signal delivery and of the steps of
`cleanup_system`: pid 1 is scheduled, and the calls it makes return. `main`'s
setup, the operators and the sub-prompts are not assumed fair. DEBUG builds,
which wait for a key in between, are not covered by the liveness properties.
`CallsSpec` has weak fairness of the search for devices (`DevicesStep`) and of
descrambling, which are sequential code that nothing makes wait, and of `Read`
and `ReadEof`: `getchar` returns what there is. What is typed is not fair:
neither `Type` nor `TypeKey` is in any of these, so `KeysAnswered` asks for an
answer to a key that was typed, not for the next key. The walks and the mounts
are not fair either; no liveness is claimed of them.

The boot and the console runs do not check for deadlock: a machine that is off
has stopped. Nor does `calls`: a function that has returned has stopped.

## 4. Proofs

Everything in the eight modules `*Proofs` is checked by TLAPS, for any number of
processes, volumes, keys, attempts, nodes, devices, mounts and characters, and
for every build flag. The assumptions are those named in the component modules,
which say that flags are Booleans, sentinels are not values, bounds are natural
numbers, `CONFIG_MAX_ATTEMPTS` and the number of volumes and mounts are
positive, `/dev` is finite, and (`SysMountsAssumption`) that what lies in a mount
comes after it in the list, as in `config.template.m4`.

*The challenge.* "At most one winner" is not inductive. What makes it true is
that a mapping that exists makes `crypt_activate_by_passphrase` fail: so
whoever opens volume *n* has opened all volumes before it in the same attempt.
`UnlockInv` says this as `HeldIsActive` (what a process holds, the volumes
before its position, is all that is open), together with `OpenPrefix`,
`HeldByKey` (all of them accepted the key in its buffer), `MountedLast` (the root
comes after the last volume), and the bounds `AttemptsLeft` and `VolPlaced` that
type correctness needs. The proof sorts the actions by what they do to the
kernel: lemma `StepEffect` shows that each keeps what its process holds, drops
it, opens a volume or mounts the root, and `UnlockInv` is shown for these four.
The refinement of `Gate` and `StrandedForever` follow step by step from it.

*The boot.* Every step of a boot is a step of the challenge or leaves it alone
(`BootUnlocks`), so the theorems about the challenge hold in every boot. A
second group of lemmas (`MainEffect`, `CleanupEffect`, `SubPromptEffect`,
`DaemonEffect`, `HandleEffect`) says what each part of init can change, and the
invariants are shown from those. There are three, by what they assume:

* `RobustInv`, with every fault: a shutdown boot unlocks nothing as long as
  everybody who looked could read the command line (`LockedOnShutdown`, whose
  premise is `~misread`), and what comes after the checks of
  `mount_switch_root` has a root (`RootWhenWiped`). It gives `PowerOffLocked`,
  `WipeOnlyUnlocked` and the refinement of `BootStages`.
* `OrderlyInv`, when every pid file is written and read as it should be:
  success is reported once (`ReportedOnce`: by a signal after which nobody can
  succeed any more, or by pid 1 to itself), and whoever is at a stage of the
  teardown has dealt with the stages before it (`StoppedSoFar`). It gives
  `SwitchFindsRoot`, `OneTeardown`, `HandoverQuiet` and `NoStraySignal`.
  `OneTeardown` has one exception, which `OrderlyInv` has too: a sub-prompt that
  could not read the order to shut down unlocks the host and interrupts main as
  it powers off.
* `DeathsKnown`, with every fault, on any heap and in a BLKID build: what has
  already happened when pid 1 dies. It gives `PanicKnown`, the list of what kills
  pid 1, and with it that every other failure reboots. `FailureReboots` itself,
  "pid 1 never dies", is only model-checked, in the run `boot` where nothing of
  that list can happen.

*The console.* `ConsoleInv` says what is saved while output is hidden
(`HiddenIsSaved`) and that in a NET build every way to the prompt passes a
`console_show` (`ShownAtPrompt`), with one exception: whoever opened the volumes
and is prompted again, because a regex of `mount_probe_root` did not compile, may
come from a vgscan that failed hidden. `AloneOnTerminal` ties echo to the places of
pid 1, up to where cleanup_system takes over; it
assumes that execv of tor works, and `console_two` shows that it must.

*The walks.* The open directories lead from "/" downwards (`StackLeadsDown`),
what is in a directory that was read to its end was looked at (`ReadToEnd`), and
what was looked at and is left has a reason (`LeftForAReason`): it is barred, is
being read, or holds something. `KeepsForeign` and `NothingForgotten` follow.

`SweptClean` and `OwnedButLinks` speak of the whole tree, and `Above` follows
parents up to "/". The prover has no induction rule, so both are shown by a
least or greatest counterexample, whose existence the library gives (`<` is
well founded on the natural numbers): lemma `AboveIs` shows that the recursive
function is well defined; `ReachedFromAbove` takes the highest node that was not
reached and finds that the directory above it was never read, so a barred node
is above it. `RmtreeSweeps` then takes the lowest of what is left below a node
that has no reason to be left: it was looked at, is not barred, and holds
nothing, so it would have been removed.

*The devices.* The pointer that a scan carries is stale only after it was fresh
(`PointerWasRead`), and when it was fresh and right its device was listed
(`YesIsListed`): so a wrong device can never be the first (`FirstAlwaysRight`).
`LeakCounted` counts the directories by arrays, keys and volumes, with the case
that a scan is repeated only if it could not open `/dev`. `AssembledSoFar` gives
`StopsThere`.

*The mounts.* What has had its turn in `umount_sys` is unmounted, or was in use,
or holds what was (`TurnsTaken`): what lies in it had its turn before, because the
search for the entry before starts in front of it and never passes it. The
refinement of `SysHead` follows step by step: the last turn is that of `/sys`, and
its result is the one that is returned.

*The lists.* `IsSplit` is its own invariant: there is a place in the text for every
string, such that the strings and one separator between two of them cover what
is behind. `StaysInText` says when the code leaves its text.

*The prompt.* The buffer is what `getchar` returned since the prompt, and has no end
in it (`ReadSoFar`); of a closed terminal no key is ever returned (`KeyIsTyped`).

*The records.* What a configuration says is a sequence of items, and its text is
one item after the other (`WrittenTo`, a recursive function that is shown to be
well defined). `SplitSoFar` says where the loop is in the text: in front of the
last holder's item everything is complete, and of that item a part of the name
or of the list is collected. Every step finds its character by the place of that
item in the text (`TextSaysItems`). `RecordsComeBack` is `RoundTrip`, for any
number of records of any length; `HoldersAssumption` asks that brackets, the end
of a line and NULL are distinct and not in a name or a list, which is what
"written as `name<list>`" means.

*Descrambling.* `ScrambleInv` says that the bytes that are done are those of the
plain text: xor with the same key byte twice gives the byte back (`XorUndone`).
`DescrambledAtEnd` is the safety half of `Descrambled`.

*The calls.* In `CallsSpec` a step is one of one call, and the others stand.
`CallsInvariant` puts the seven invariants together: an invariant of one call
speaks of its own variables only, so it is kept by what the others do.

*Progress.* Each of the liveness properties says that something ends. What makes
it end is a measure that every step brings down and that nobody else brings up,
and this can be proved, without fairness:

* `KeysAdvance`: a process that has a key has at most `2 * NumVols + 2` steps
  before its verdict (`StepsLeft`), each takes one off at least, and what the
  other processes do leaves its place alone. The only step that does not is the search for a missing
  device, which is the finding of `unlock_blkid`.
* `TeardownGoesOn`: a step of `cleanup_system` ends the boot or is a stage further,
  also when the handler interrupts it, and a signal is not lost. It assumes
  `"exec"` and `"heap_lock"` not in `Faults` and terminated lists; `boot_exec` and
  `boot_lock` show what happens otherwise.
* `SearchGoesOn`: with the descriptors that `LeakBounded` asks for (`EnoughFds`)
  and no volume missing, each step of the search is a try, a volume, a typed key
  or an entry of `/dev` further; tries and volumes are bounded, and `/dev` is finite.
* `PromptGoesOn`: each `getchar` takes one character, and an end of a line that is
  there stays ahead until the key is returned.

What is missing from these to the liveness properties is fairness alone: that a
process that can take its step does.

Only model-checked: the liveness properties `EveryKeyAnswered`, `EndsOnceBegun`,
`KeysAnswered`, `PromptAnswered` and `Descrambled`, because fairness and ENABLED
are out of the prover's reach. The four action properties of the paragraph
above are proved and in no run: their liveness properties are.

## 5. Findings

Each is a run that ends in a violation; `PROJECT.json` quotes the line of the
repository that says otherwise.

* `unlock_blkid`: in a BLKID build `mount_decrypt` loops for ever on a volume
  whose device is missing (`mount.c:203`).
* `boot_exec`: a failing execv of the real init counts as success; pid 1 exits
  and the kernel panics instead of a reboot (`mount.c:873`).
* `boot_regfree`: early errors free a regex that was never compiled
  (`init.c:247`).
* `boot_lock`: the signal handler allocates; interrupted inside the allocator,
  pid 1 hangs with the host unlocked (`init.c:115`).
* `console_two`: the child that could not exec tor shares the terminal with pid
  1, and their saved modes undo each other: a passphrase is echoed
  (`console.c:55`).
* `console_drop`: a remote unlock that fails to clean up drops to a shell
  without echo (`crysco.c:21`).

The properties of `calls` hold, and some are weaker than the code's comments
because of what it does; the difference is worth a look:

* `OwnedButLinks`: `chown` follows links, so a link itself, and what is in a
  directory that cannot be opened, keeps its owner ("chown *everything*",
  `mount.c:663`).
* `FirstIsRight` speaks of the first device only: behind it, devices without a
  UUID may be listed on the word of a freed probe (`mount.c:614`), and mdadm is
  given the second of the list.
* `StopsAtFailure` does not ask for the result of `mount_mds`: the flag that the
  error macro is given is 0 (`mount.c:384`). With an empty list its caller reads a
  slot behind the list (`mount.c:367`), which is the action `BeyondList`.
* `ImplementsHead` lets `mount_sys` succeed without `/sys`: its result is that of
  the last mount (`mount.c:87`).
* `RoundTrip` finds a name only if it fits into its block (`config.c:138`).
* Lists are not terminated (`config.c:44`): in `SplitArray` freeing one may run into
  what the heap holds, and `DirtyHeap` is what that means for `Unlock` and `Boot`.
* `KeyIsLine` and `PromptAnswered` say nothing of a prompt whose terminal closed
  before a line's end: it fills its buffer without end (`console.c:93`), and no
  text of the repository promises that it returns.

So are these of `boot` and `console`:

* `PowerOffLocked` and `OneTeardown` except a boot on which somebody could not read
  `/proc/cmdline` (`init.c:198`).
* `PromptSeen` excepts the prompt behind a failing vgscan (`error.h:74`), and
  `AloneOnTerminal` says nothing of what runs after the signal handler took over.
* `ImplementsStages` and `EndsOnceBegun` allow a reboot by pid 1, whose operator
  used up the attempts, in the middle of a remote unlock (`crysco.c:64`).

## 6. Not modelled, and why

* What DEBUG builds print, and their `getchar` before a reboot or a signal: a
  wait for an operator, which only the liveness properties would notice.
* Interfaces, addresses and routes: `setup_network` and `stop_network` are
  modelled by what they return and do to the DHCP daemon.
* `mount_mds` without BLKID, where the command line of mdadm is copied from the
  configuration: nothing is searched, and the result is 0 as well. How the
  command line is put together (`ac_command_mdadm`) is formatting.
* How mdadm, blkid and dm-crypt work: an array that is given one member or two
  may be assembled or not.
* The heap. What lies behind a list that is not terminated, and whether `realloc`
  moves a block, is a choice in the models.
* Records that are not written as `name<list>`: `Holders` reads what a
  configuration may say, well formed, with or without a line behind it.
* `mount_probe_boot` is a stub; hotplugging happens outside.
* Build-time generation (m4, Makefiles) and static files of the image.
* A return of `cleanup_system` into an interrupted `main` after a failed exec
  is in `Boot`, not in `Console`.

## 7. What is left

* The composition of `Unlock` with `Console`, which would show that the volumes
  are opened once, as `Console` has it, and of `Unlock` with `Devices`, where now
  each has its own view of the loop of `mount_decrypt`.
* The order of VLAN, interface, address and route in `setup_network`, and what
  `stop_network` undoes of it.
* The heap contents as state of their own: which of the unterminated lists are
  read to the end of their block in a given boot.
