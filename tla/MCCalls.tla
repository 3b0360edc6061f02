------------------------------ MODULE MCCalls -------------------------------
(***************************************************************************)
(* The functions that init calls one at a time and that share no state:    *)
(* the walks over the initrd, the search for devices, the system mounts,   *)
(* the texts of the configuration, and the prompt.  A behaviour is one     *)
(* call, or one pair of calls, with any input; the others have not been    *)
(* called, or have returned.                                               *)
(***************************************************************************)
EXTENDS WalkProps, DevicesProps, SysProps, SplitProps, Scramble, Holders,
        PromptProps

CONSTANTS disk1, disk2, md1, md2, uuidA, uuidB, uuidV, uuidW,
          a, b, x, y

\* The host: two arrays, and two volumes.
TwoArrays  == << uuidA, uuidB >>
TwoMds     == << md1, md2 >>
TwoVolumes == << uuidV, uuidW >>

\* /sys, something in it, /dev, and something in it.
Nested == << 0, 1, 0, 3 >>

VARIABLE call   \* what is called

callsVars == <<call, walkVars, devicesVars, sysVars, splitVars, scrambleVars,
               holdersVars, promptVars>>

\* The functions keep what they rely on: the inductive invariants, with the
\* types, of the walks, the search for devices, the mounts, the splitter of
\* lists, the descrambling, the splitter of records, and the prompt.
CallsInv ==
  WalkInv /\ DevicesInv /\ SysInv /\ SplitInv /\ ScrambleInv /\ HoldersInv /\ PromptInv

-----------------------------------------------------------------------------

\* What is not called stands at one of its initial states, or has returned
\* from a call with an empty text.
WalkAtRest ==
  /\ walk = "rmtree" /\ kind = [n \in Nodes |-> IF n = 0 THEN "dir" ELSE "file"]
  /\ parent = [n \in Nodes |-> 0] /\ home = Nodes /\ target = << >>
  /\ WalkInit
DevicesAtRest ==
  /\ uuid = [d \in Devs |-> None] /\ readable = Devs
  /\ DevicesInit
SysAtRest == dirs = {} /\ SysInit
SplitAtRest ==
  /\ text = << >> /\ at = 0 /\ strings = << >> /\ last = "null"
  /\ released = 0 /\ splitPc = "freed"
ScrambleAtRest ==
  /\ plain = << >> /\ gac_skey = [n \in 1..KeyLen |-> Bits]
  /\ ScrambleInit
HoldersAtRest ==
  /\ items = << >> /\ records = << >> /\ pos = 0 /\ holders = << >>
  /\ into = "name" /\ field = << >> /\ holdersPc = "freed"

CallsInit ==
  /\ call \in {"walk", "devices", "sys", "split", "scramble", "holders", "prompt"}
  /\ call # "walk"     => WalkAtRest
  /\ call # "devices"  => DevicesAtRest
  /\ call # "sys"      => SysAtRest
  /\ call # "split"    => SplitAtRest
  /\ call # "scramble" => ScrambleAtRest
  /\ call # "holders"  => HoldersAtRest
  /\ PromptInit
  /\ CASE call = "walk"     -> WalkInit
       [] call = "devices"  -> DevicesInit
       [] call = "sys"      -> SysInit
       [] call = "split"    -> SplitInit
       [] call = "scramble" -> ScrambleInit
       [] call = "holders"  -> HoldersInit
       [] call = "prompt"   -> TRUE

\* One of them takes a step of its own.
Others ==
  /\ UNCHANGED call
  /\ call # "walk"     => UNCHANGED walkVars
  /\ call # "devices"  => UNCHANGED devicesVars
  /\ call # "sys"      => UNCHANGED sysVars
  /\ call # "split"    => UNCHANGED splitVars
  /\ call # "scramble" => UNCHANGED scrambleVars
  /\ call # "holders"  => UNCHANGED holdersVars
  /\ call # "prompt"   => UNCHANGED promptVars

CallsNext ==
  \/ call = "walk"     /\ WalkNext       /\ Others
  \/ call = "devices"  /\ DevicesNext    /\ Others
  \/ call = "sys"      /\ SysNext        /\ Others
  \/ call = "split"    /\ SplitNext      /\ Others
  \/ call = "scramble" /\ DescrambleByte /\ Others
  \/ call = "holders"  /\ HoldersNext    /\ Others
  \/ call = "prompt"   /\ PromptNext     /\ Others

\* Fair is what is fair in each of them.
CallsSpec ==
  /\ CallsInit
  /\ [][CallsNext]_callsVars
  /\ WF_devicesVars(call = "devices" /\ DevicesStep)
  /\ WF_scrambleVars(call = "scramble" /\ DescrambleByte)
  /\ WF_promptVars(call = "prompt" /\ (Read \/ ReadEof))

=============================================================================
