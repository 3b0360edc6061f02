----------------------------- MODULE SplitProps -----------------------------
(***************************************************************************)
(* The properties of the lists in the configuration.                       *)
(***************************************************************************)
EXTENDS SplitArray

\* The variables have their types.
SplitTypeOK ==
  /\ text \in Seq(ListChars \cup {Sep})
  /\ at \in 0..Len(text) + 1
  /\ strings \in Seq(Seq(ListChars \cup {Sep}))
  /\ last \in {"null", "unset"}
  /\ released \in 0..Len(strings)
  /\ splitPc \in {"split", "free", "freed", "overrun", "wild"}

\* Where a string of the list begins in the text.
Starts == [1..Len(strings) -> 1..Len(text)]

\* A string is the piece of the text from its start, and has a separator at
\* most as its first character.
IsPiece(s, from) ==
  /\ strings[s] # << >>
  /\ from[s] + Len(strings[s]) - 1 <= at
  /\ \A n \in 1..Len(strings[s]) :
       /\ strings[s][n] = text[from[s] + n - 1]
       /\ n > 1 => strings[s][n] # Sep

\* The pieces cover what is behind but for one separator between two of them,
\* and one before the first.
Covers(from) ==
  /\ strings = << >> => at = 0
  /\ strings # << >> =>
       /\ from[1] = 1 \/ (from[1] = 2 /\ text[1] = Sep)
       /\ from[Len(strings)] + Len(strings[Len(strings)]) - 1 = at
  /\ \A s \in 2..Len(strings) :
       /\ from[s] = from[s - 1] + Len(strings[s - 1]) + 1
       /\ text[from[s] - 1] = Sep

\* The list is the text cut at its separators, at every moment and for every
\* text that the code does not leave.
IsSplit ==
  at <= Len(text) =>
    \E from \in Starts :
      Covers(from) /\ \A s \in 1..Len(strings) : IsPiece(s, from)

\* The code leaves the text only behind a separator at its end.
LeavesOnlyBehindSep ==
  at > Len(text) => text # << >> /\ text[Len(text)] = Sep

-----------------------------------------------------------------------------

\* The inductive invariant.
SplitInv ==
  /\ SplitTypeOK
  /\ IsSplit
  /\ LeavesOnlyBehindSep
  /\ splitPc \in {"free", "freed", "wild"} => at = Len(text)

=============================================================================
