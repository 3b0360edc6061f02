----------------------------- MODULE SplitArray -----------------------------
(***************************************************************************)
(* The lists in the configuration (config.c): config_split_string_array    *)
(* cuts a text at its separators, and config_free_string_array frees the   *)
(* list.  The devices of an array, the types of file systems and the       *)
(* command lines of tor and of switch_root are such lists, and all their   *)
(* users go through them up to the NULL behind the last string.            *)
(***************************************************************************)
EXTENDS Integers, Sequences

CONSTANTS
  ListChars,  \* what a text is made of, other than the separator
  Sep,        \* '|'
  MaxText     \* the length of the texts

ASSUME SplitAssumption == Sep \notin ListChars /\ MaxText \in Nat

Texts == UNION {[1..n -> ListChars \cup {Sep}] : n \in 0..MaxText}

VARIABLES
  text,      \* pc_string_in, without its NUL; fixed
  at,        \* characters of it that are behind
  strings,   \* what the slots of ppc_out hold, but for the last
  last,      \* the last slot: "null", or "unset" and never assigned
  released,  \* strings that are freed
  splitPc    \* "split", "free", "freed", "overrun" or "wild"

splitVars == <<text, at, strings, last, released, splitPc>>

\* calloc: an empty list is one NULL.
SplitInit ==
  /\ text \in Texts
  /\ at = 0 /\ strings = << >> /\ last = "null"
  /\ released = 0 /\ splitPc = "split"

-----------------------------------------------------------------------------
(* config_split_string_array.                                              *)

\* realloc makes room for one more slot and leaves in it what the heap had.
NewString(s) ==
  /\ strings' = Append(strings, s)
  /\ last' \in {"null", "unset"}

More(s) ==
  /\ strings # << >>
  /\ strings' = [strings EXCEPT ![Len(strings)] = Append(@, s)]
  /\ UNCHANGED last

\* A character other than the separator.
Grab ==
  /\ splitPc = "split" /\ at < Len(text) /\ text[at + 1] # Sep
  /\ IF strings = << >> THEN NewString(<< text[at + 1] >>) ELSE More(text[at + 1])
  /\ at' = at + 1
  /\ UNCHANGED <<text, released, splitPc>>

\* The separator begins a string with the character behind it, whatever that
\* is.  At the end it is the NUL, and the loop goes on behind the text.
\* (MUTANTS: the separator is stored; a character is lost.)
StoreSeparator ==
  /\ splitPc = "split" /\ at < Len(text) /\ text[at + 1] = Sep
  /\ NewString(<< Sep >>)
  /\ at' = at + 1
  /\ UNCHANGED <<text, released, splitPc>>
SkipOne ==
  /\ splitPc = "split" /\ at < Len(text) /\ text[at + 1] = Sep
  /\ NewString(IF at + 1 < Len(text) THEN << text[at + 2] >> ELSE << >>)
  /\ at' = at + 3
  /\ UNCHANGED <<text, released, splitPc>>
Separate ==
  /\ splitPc = "split" /\ at < Len(text) /\ text[at + 1] = Sep
  /\ NewString(IF at + 1 < Len(text) THEN << text[at + 2] >> ELSE << >>)
  /\ at' = at + 2
  /\ UNCHANGED <<text, released, splitPc>>

Return ==
  /\ splitPc = "split" /\ at = Len(text)
  /\ splitPc' = "free"
  /\ UNCHANGED <<text, at, strings, last, released>>

\* What lies behind the text is not the program's.
Overrun ==
  /\ splitPc = "split" /\ at > Len(text)
  /\ splitPc' = "overrun"
  /\ UNCHANGED <<text, at, strings, last, released>>

-----------------------------------------------------------------------------
(* config_free_string_array.                                               *)

FreeString ==
  /\ splitPc = "free" /\ released < Len(strings)
  /\ released' = released + 1
  /\ UNCHANGED <<text, at, strings, last, splitPc>>

\* A slot that was never assigned is taken for a string.
FreeEnd ==
  /\ splitPc = "free" /\ released = Len(strings)
  /\ splitPc' = IF last = "null" THEN "freed" ELSE "wild"
  /\ UNCHANGED <<text, at, strings, last, released>>

-----------------------------------------------------------------------------

SplitNext == Grab \/ Separate \/ Return \/ Overrun \/ FreeString \/ FreeEnd
SplitSpec == SplitInit /\ [][SplitNext]_splitVars

=============================================================================
