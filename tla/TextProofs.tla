----------------------------- MODULE TextProofs -----------------------------
(***************************************************************************)
(* Proofs about the functions that take a text apart: the lists and the    *)
(* records in the configuration, for every text, and the passphrase, for   *)
(* every input.                                                            *)
(*                                                                         *)
(* The list: the strings are pieces of the text that is behind, and a step *)
(* either makes the last piece longer by the next character or adds a      *)
(* piece behind the next separator.                                        *)
(*                                                                         *)
(* The passphrase: what is in the buffer is what getchar has returned      *)
(* since the prompt, end of file included; and once that was returned it   *)
(* is returned for ever, so a key that has an end is all typed.            *)
(*                                                                         *)
(* The records: the holders before the last one are those of the items     *)
(* whose records are behind.  What is written is defined by recursion over *)
(* the items; that the definition has a value, and that what is written of *)
(* fewer items is its beginning, is shown with the least counterexample.   *)
(***************************************************************************)
EXTENDS SplitProps, PromptProps, Holders, SequenceTheorems, WellFoundedInduction,
        TLAPS

USE SplitAssumption, PromptAssumption

-----------------------------------------------------------------------------
(* A list: config_split_string_array.                                      *)

LEMMA TextsAreSeqs == Texts \subseteq Seq(ListChars \cup {Sep})
BY DEF Texts

LEMMA SplitInvInit == SplitInit => SplitInv
<1> SUFFICES ASSUME SplitInit PROVE SplitInv
  OBVIOUS
<1>1. text \in Seq(ListChars \cup {Sep}) /\ Len(text) \in Nat
  BY TextsAreSeqs DEF SplitInit
<1>2. strings = << >> /\ Len(strings) = 0 /\ strings \in Seq(Seq(ListChars \cup {Sep}))
  BY DEF SplitInit
<1>3. SplitTypeOK
  BY <1>1, <1>2 DEF SplitInit, SplitTypeOK
<1>4. IsSplit
  <2> DEFINE from == [s \in 1..0 |-> 1]
  <2>1. from \in Starts
    BY <1>2 DEF Starts
  <2>2. Covers(from)
    BY <1>2 DEF SplitInit, Covers
  <2>3. \A s \in 1..Len(strings) : IsPiece(s, from)
    BY <1>2
  <2> HIDE DEF from
  <2> QED
    BY <2>1, <2>2, <2>3 DEF IsSplit
<1> QED
  BY <1>1, <1>3, <1>4 DEF SplitInv, LeavesOnlyBehindSep, SplitInit

LEMMA SingleSeq ==
  ASSUME NEW S, NEW e \in S
  PROVE  << e >> \in Seq(S) /\ Len(<< e >>) = 1 /\ << e >>[1] = e
OBVIOUS

\* A string is added behind the separator of the piece before, or first.
LEMMA PieceAdded ==
  ASSUME SplitInv, IsSplit, at < Len(text),
         NEW p \in 1..Len(text),
         strings' = Append(strings, << text[p] >>),
         text' = text, at' = p, at' <= Len(text),
         \/ p = at + 1 /\ strings = << >>
         \/ p = at + 2 /\ text[at + 1] = Sep
  PROVE  IsSplit'
<1>0. PICK n : n = Len(strings) + 1
  OBVIOUS
<1>1. /\ strings \in Seq(Seq(ListChars \cup {Sep})) /\ Len(strings) \in Nat
      /\ at \in Nat /\ Len(text) \in Nat
      /\ n = Len(strings) + 1
  BY <1>0 DEF SplitInv, SplitTypeOK
<1>2. PICK from \in Starts :
        Covers(from) /\ \A s \in 1..Len(strings) : IsPiece(s, from)
  BY <1>1 DEF IsSplit
<1>3. PICK x : x = << text[p] >>
  OBVIOUS
<1>4. x \in Seq(ListChars \cup {Sep}) /\ Len(x) = 1 /\ x[1] = text[p] /\ x # << >>
  <2>1. text[p] \in ListChars \cup {Sep}
    BY DEF SplitInv, SplitTypeOK
  <2> QED
    BY <1>3, <2>1, SingleSeq
<1>5. /\ Len(strings') = n /\ strings'[n] = x
      /\ \A s \in 1..Len(strings) : strings'[s] = strings[s]
  BY <1>1, <1>3, <1>4
<1>6. PICK to : to = [s \in 1..n |-> IF s = n THEN p ELSE from[s]]
  OBVIOUS
<1>7. to \in Starts'
  BY <1>1, <1>2, <1>5, <1>6 DEF Starts
<1>8. \A s \in 1..Len(strings) : to[s] = from[s] /\ s # n /\ s \in 1..n
  BY <1>1, <1>6
<1>9. to[n] = p /\ n \in 1..n
  BY <1>1, <1>6
<1>10. \A s \in 1..Len(strings) : from[s] \in 1..Len(text) /\ Len(strings[s]) \in Nat
  <2> SUFFICES ASSUME NEW s \in 1..Len(strings)
               PROVE  from[s] \in 1..Len(text) /\ Len(strings[s]) \in Nat
    OBVIOUS
  <2>1. strings[s] \in Seq(ListChars \cup {Sep})
    BY <1>1
  <2> QED
    BY <1>2, <2>1 DEF Starts
<1>11. \A s \in 1..Len(strings') : IsPiece(s, to)'
  <2>1. ASSUME NEW s \in 1..Len(strings) PROVE IsPiece(s, to)'
    <3>1. IsPiece(s, from) /\ strings'[s] = strings[s] /\ to[s] = from[s]
      BY <1>2, <1>5, <1>8
    <3>2. from[s] \in Nat /\ Len(strings[s]) \in Nat /\ at <= p
      BY <1>1, <1>10
    <3> QED
      BY <1>1, <3>1, <3>2 DEF IsPiece
  <2>2. IsPiece(n, to)'
    <3>1. strings'[n] # << >> /\ Len(strings'[n]) = 1 /\ strings'[n][1] = text[p]
      BY <1>4, <1>5
    <3>2. \A c \in 1..1 : c = 1
      OBVIOUS
    <3> QED
      BY <1>1, <1>9, <3>1, <3>2 DEF IsPiece
  <2>3. \A s \in 1..Len(strings') : s = n \/ s \in 1..Len(strings)
    BY <1>1, <1>5
  <2> QED
    BY <2>1, <2>2, <2>3
<1>12. Covers(to)'
  <2>1. strings' # << >>
    BY <1>1, <1>5
  <2>2. to[1] = 1 \/ (to[1] = 2 /\ text[1] = Sep)
    <3>1. CASE strings = << >>
      BY <1>1, <1>2, <1>9, <3>1 DEF Covers
    <3>2. CASE strings # << >>
      <4>1. 1 \in 1..Len(strings)
        BY <1>1, <3>2
      <4> QED
        BY <1>2, <1>8, <3>2, <4>1 DEF Covers
    <3> QED
      BY <3>1, <3>2
  <2>3. to[n] + Len(strings'[n]) - 1 = p
    BY <1>4, <1>5, <1>9
  <2>4. ASSUME NEW s \in 2..n
        PROVE  /\ to[s] = to[s - 1] + Len(strings'[s - 1]) + 1
               /\ text[to[s] - 1] = Sep
    <3>1. CASE s \in 2..Len(strings)
      <4>1. s \in 1..Len(strings) /\ s - 1 \in 1..Len(strings)
        BY <1>1, <3>1
      <4>2. from[s] = from[s - 1] + Len(strings[s - 1]) + 1 /\ text[from[s] - 1] = Sep
        BY <1>2, <3>1 DEF Covers
      <4> QED
        BY <1>5, <1>8, <4>1, <4>2
    <3>2. CASE s = n
      <4>1. strings # << >> /\ s - 1 = Len(strings) /\ s - 1 \in 1..Len(strings)
        BY <1>1, <3>2, <2>4
      <4>2. from[s - 1] + Len(strings[s - 1]) - 1 = at
        BY <1>2, <4>1 DEF Covers
      <4>3. from[s - 1] \in Nat /\ Len(strings[s - 1]) \in Nat
        BY <1>1, <1>10, <4>1
      <4>4. to[s] = at + 2 /\ text[at + 1] = Sep
        BY <1>9, <3>2, <4>1
      <4>5. to[s - 1] = from[s - 1] /\ strings'[s - 1] = strings[s - 1]
        BY <1>5, <1>8, <4>1
      <4>6. from[s - 1] + Len(strings[s - 1]) + 1 = at + 2
        <5>1. PICK f \in Nat, l \in Nat : f = from[s - 1] /\ l = Len(strings[s - 1])
          BY <4>3
        <5>2. f + l - 1 = at
          BY <4>2, <5>1
        <5>3. f + l + 1 = at + 2
          BY <1>1, <5>2
        <5> QED
          BY <5>1, <5>3
      <4>7. to[s] - 1 = at + 1
        BY <1>1, <4>4
      <4> QED
        BY <4>4, <4>5, <4>6, <4>7
    <3> QED
      BY <1>1, <3>1, <3>2
  <2> QED
    BY <1>5, <2>1, <2>2, <2>3, <2>4 DEF Covers
<1> QED
  BY <1>7, <1>11, <1>12 DEF IsSplit

\* The last string becomes longer by the next character.
LEMMA PieceGrows ==
  ASSUME SplitInv, IsSplit, at < Len(text), strings # << >>, text[at + 1] # Sep,
         strings' = [strings EXCEPT ![Len(strings)] = Append(@, text[at + 1])],
         text' = text, at' = at + 1
  PROVE  IsSplit'
<1>1. PICK n : n = Len(strings)
  OBVIOUS
<1>2. /\ strings \in Seq(Seq(ListChars \cup {Sep})) /\ n \in Nat /\ n \in 1..n
      /\ at \in Nat /\ Len(text) \in Nat /\ n = Len(strings)
  BY <1>1 DEF SplitInv, SplitTypeOK
<1>3. PICK from \in Starts :
        Covers(from) /\ \A s \in 1..n : IsPiece(s, from)
  BY <1>2 DEF IsSplit
<1>4. PICK x : x = Append(strings[n], text[at + 1])
  OBVIOUS
<1>5. \A s \in 1..n : from[s] \in 1..Len(text) /\ Len(strings[s]) \in Nat
  <2> SUFFICES ASSUME NEW s \in 1..n
               PROVE  from[s] \in 1..Len(text) /\ Len(strings[s]) \in Nat
    OBVIOUS
  <2>1. strings[s] \in Seq(ListChars \cup {Sep}) /\ s \in 1..Len(strings)
    BY <1>2
  <2> QED
    BY <1>3, <2>1 DEF Starts
<1>6. PICK m \in Nat : m = Len(strings[n])
  BY <1>2, <1>5
<1>7. /\ Len(x) = m + 1 /\ x[m + 1] = text[at + 1]
      /\ \A c \in 1..m : x[c] = strings[n][c]
  <2>1. strings[n] \in Seq(ListChars \cup {Sep}) /\ text[at + 1] \in ListChars \cup {Sep}
    BY <1>2 DEF SplitInv, SplitTypeOK
  <2> QED
    BY <1>4, <1>6, <2>1
<1>8. /\ Len(strings') = n /\ strings'[n] = x
      /\ \A s \in 1..n - 1 : strings'[s] = strings[s]
  BY <1>2, <1>4
<1>9. from \in Starts'
  BY <1>2, <1>3, <1>8 DEF Starts
<1>10. from[n] + m - 1 = at
  BY <1>2, <1>3, <1>6 DEF Covers
<1>11. \A s \in 1..Len(strings') : IsPiece(s, from)'
  <2>1. ASSUME NEW s \in 1..n - 1 PROVE IsPiece(s, from)'
    <3>1. IsPiece(s, from) /\ strings'[s] = strings[s]
      BY <1>2, <1>3, <1>8
    <3>2. from[s] \in Nat /\ Len(strings[s]) \in Nat
      BY <1>2, <1>5
    <3>3. from[s] + Len(strings[s]) - 1 <= at' /\ strings'[s] # << >>
      BY <1>2, <3>1, <3>2 DEF IsPiece
    <3>4. \A c \in 1..Len(strings'[s]) : /\ strings'[s][c] = text'[from[s] + c - 1]
                                         /\ c > 1 => strings'[s][c] # Sep
      BY <1>2, <3>1 DEF IsPiece
    <3> QED
      BY <3>1, <3>3, <3>4 DEF IsPiece
  <2>2. IsPiece(n, from)'
    <3>1. IsPiece(n, from) /\ from[n] \in Nat
      BY <1>2, <1>3, <1>5
    <3>2. x # << >> /\ Len(x) = m + 1
      BY <1>7
    <3>3. from[n] + Len(x) - 1 <= at + 1
      BY <1>2, <1>10, <3>1, <3>2
    <3>4. ASSUME NEW c \in 1..m + 1
          PROVE  x[c] = text[from[n] + c - 1] /\ (c > 1 => x[c] # Sep)
      <4>1. CASE c \in 1..m
        BY <1>6, <1>7, <3>1, <4>1 DEF IsPiece
      <4>2. CASE c = m + 1
        <5>1. from[n] + c - 1 = at + 1
          BY <1>2, <1>10, <3>1, <4>2
        <5> QED
          BY <1>7, <4>2, <5>1
      <4> QED
        BY <4>1, <4>2
    <3> QED
      BY <1>8, <3>2, <3>3, <3>4 DEF IsPiece
  <2>3. \A s \in 1..Len(strings') : s = n \/ s \in 1..n - 1
    BY <1>2, <1>8
  <2> QED
    BY <2>1, <2>2, <2>3
<1>12. Covers(from)'
  <2>1. strings' # << >>
    BY <1>2, <1>8
  <2>2. from[1] = 1 \/ (from[1] = 2 /\ text[1] = Sep)
    BY <1>3 DEF Covers
  <2>3. from[n] + Len(strings'[n]) - 1 = at + 1
    <3>1. PICK f \in Nat : f = from[n]
      BY <1>2, <1>5
    <3>2. f + (m + 1) - 1 = at + 1
      BY <1>2, <1>10, <3>1
    <3> QED
      BY <1>7, <1>8, <3>1, <3>2
  <2>4. ASSUME NEW s \in 2..n
        PROVE  /\ from[s] = from[s - 1] + Len(strings'[s - 1]) + 1
               /\ text[from[s] - 1] = Sep
    <3>1. s - 1 \in 1..n - 1
      BY <1>2
    <3> QED
      BY <1>2, <1>3, <1>8, <3>1 DEF Covers
  <2> QED
    BY <1>8, <2>1, <2>2, <2>3, <2>4 DEF Covers
<1> QED
  BY <1>9, <1>11, <1>12 DEF IsSplit

\* The types of a list that a string is added to, or whose last grows.
LEMMA ListTypes ==
  ASSUME NEW C, NEW s \in Seq(Seq(C)), NEW e \in C
  PROVE  /\ Append(s, << e >>) \in Seq(Seq(C))
         /\ Append(s, << >>) \in Seq(Seq(C))
         /\ s # << >> =>
              [s EXCEPT ![Len(s)] = Append(@, e)] \in Seq(Seq(C))
<1>1. << e >> \in Seq(C) /\ << >> \in Seq(C)
  BY SingleSeq
<1>2. ASSUME s # << >>
      PROVE  [s EXCEPT ![Len(s)] = Append(@, e)] \in Seq(Seq(C))
  <2>1. Len(s) \in 1..Len(s)
    BY <1>2
  <2>2. PICK x \in Seq(C) : x = Append(s[Len(s)], e)
    <3>1. PICK y \in Seq(C) : y = s[Len(s)]
      BY <2>1
    <3>2. Append(y, e) \in Seq(C)
      OBVIOUS
    <3> QED
      BY <3>1, <3>2
  <2>3. [s EXCEPT ![Len(s)] = x] \in Seq(Seq(C))
    BY <2>1
  <2> QED
    BY <2>2, <2>3
<1> QED
  BY <1>1, <1>2

LEMMA GrabKeeps == ASSUME SplitInv, Grab PROVE SplitInv'
<1>1. /\ text \in Seq(ListChars \cup {Sep}) /\ Len(text) \in Nat
      /\ strings \in Seq(Seq(ListChars \cup {Sep})) /\ at \in Nat
      /\ text' = text /\ at' = at + 1 /\ released' = released /\ splitPc' = splitPc /\ splitPc = "split"
      /\ at < Len(text) /\ text[at + 1] # Sep /\ text[at + 1] \in ListChars \cup {Sep}
      /\ released \in 0..Len(strings) /\ last \in {"null", "unset"}
  BY DEF Grab, SplitInv, SplitTypeOK
<1>2. IsSplit
  BY DEF SplitInv
<1>3. CASE strings = << >>
  <2>1. strings' = Append(strings, << text[at + 1] >>) /\ last' \in {"null", "unset"}
    BY <1>3 DEF Grab, NewString
  <2>2. strings' \in Seq(Seq(ListChars \cup {Sep}))
    BY <1>1, <2>1, ListTypes
  <2>3. released' \in 0..Len(strings')
    BY <1>1, <2>1
  <2>4. IsSplit'
    BY <1>1, <1>2, <1>3, <2>1, PieceAdded
  <2> QED
    BY <1>1, <2>1, <2>2, <2>3, <2>4 DEF SplitInv, SplitTypeOK, LeavesOnlyBehindSep
<1>4. CASE strings # << >>
  <2>1. /\ strings' = [strings EXCEPT ![Len(strings)] = Append(@, text[at + 1])]
        /\ last' = last
    BY <1>4 DEF Grab, More
  <2>2. strings' \in Seq(Seq(ListChars \cup {Sep}))
    BY <1>1, <1>4, <2>1, ListTypes
  <2>3. released' \in 0..Len(strings')
    BY <1>1, <2>1
  <2>4. IsSplit'
    BY <1>1, <1>2, <1>4, <2>1, PieceGrows
  <2> QED
    BY <1>1, <2>1, <2>2, <2>3, <2>4 DEF SplitInv, SplitTypeOK, LeavesOnlyBehindSep
<1> QED
  BY <1>3, <1>4

LEMMA SeparateKeeps == ASSUME SplitInv, Separate PROVE SplitInv'
<1>1. /\ text \in Seq(ListChars \cup {Sep}) /\ Len(text) \in Nat
      /\ strings \in Seq(Seq(ListChars \cup {Sep})) /\ at \in Nat
      /\ text' = text /\ at' = at + 2 /\ released' = released /\ splitPc' = splitPc /\ splitPc = "split"
      /\ at < Len(text) /\ text[at + 1] = Sep
      /\ released \in 0..Len(strings) /\ last' \in {"null", "unset"}
  BY DEF Separate, NewString, SplitInv, SplitTypeOK
<1>2. IsSplit
  BY DEF SplitInv
<1>3. CASE at + 1 < Len(text)
  <2>1. strings' = Append(strings, << text[at + 2] >>)
    BY <1>3 DEF Separate, NewString
  <2>2. text[at + 2] \in ListChars \cup {Sep} /\ at + 2 \in 1..Len(text)
    BY <1>1, <1>3
  <2>3. strings' \in Seq(Seq(ListChars \cup {Sep}))
    BY <1>1, <2>1, <2>2, ListTypes
  <2>4. released' \in 0..Len(strings')
    BY <1>1, <2>1
  <2>5. IsSplit'
    BY <1>1, <1>2, <2>1, <2>2, PieceAdded
  <2> QED
    BY <1>1, <2>2, <2>3, <2>4, <2>5 DEF SplitInv, SplitTypeOK, LeavesOnlyBehindSep
<1>4. CASE ~(at + 1 < Len(text))
  <2>1. strings' = Append(strings, << >>)
    BY <1>4 DEF Separate, NewString
  <2>2. Len(text) = at + 1
    BY <1>1, <1>4
  <2>3. strings' \in Seq(Seq(ListChars \cup {Sep}))
    BY <1>1, <2>1, ListTypes
  <2>4. released' \in 0..Len(strings')
    BY <1>1, <2>1
  <2>5. at' > Len(text') /\ text # << >> /\ text[Len(text)] = Sep
    BY <1>1, <2>2
  <2> QED
    BY <1>1, <2>2, <2>3, <2>4, <2>5
    DEF SplitInv, SplitTypeOK, IsSplit, LeavesOnlyBehindSep
<1> QED
  BY <1>3, <1>4

\* The steps that read and free the list leave it alone.
LEMMA OthersKeep ==
  ASSUME SplitInv,
         \/ Return \/ Overrun \/ FreeString \/ FreeEnd
         \/ UNCHANGED splitVars
  PROVE  SplitInv'
<1>1. text' = text /\ at' = at /\ strings' = strings /\ last' = last
  BY DEF Return, Overrun, FreeString, FreeEnd, splitVars
<1>2. IsSplit' /\ LeavesOnlyBehindSep'
  BY <1>1 DEF SplitInv, IsSplit, LeavesOnlyBehindSep, Starts, Covers, IsPiece
<1>3. Len(strings) \in Nat
  BY DEF SplitInv, SplitTypeOK
<1>4. SplitTypeOK'
  BY <1>1, <1>3
  DEF SplitInv, SplitTypeOK, Return, Overrun, FreeString, FreeEnd, splitVars
<1>5. splitPc' \in {"free", "freed", "wild"} => at' = Len(text')
  BY <1>1 DEF SplitInv, Return, Overrun, FreeString, FreeEnd, splitVars
<1> QED
  BY <1>2, <1>4, <1>5 DEF SplitInv

\* The inductive invariant holds of every text.
THEOREM SplitInvariant == SplitSpec => []SplitInv
<1>1. SplitInv /\ [SplitNext]_splitVars => SplitInv'
  BY GrabKeeps, SeparateKeeps, OthersKeep DEF SplitNext
<1> QED
  BY SplitInvInit, <1>1, PTL DEF SplitSpec

\* The variables have their types.
THEOREM SplitTypeCorrect == SplitSpec => []SplitTypeOK
<1>1. SplitInv => SplitTypeOK
  BY DEF SplitInv
<1> QED
  BY SplitInvariant, <1>1, PTL

\* The list is the text cut at its separators.
THEOREM CutsAtSeparators == SplitSpec => []IsSplit
<1>1. SplitInv => IsSplit
  BY DEF SplitInv
<1> QED
  BY SplitInvariant, <1>1, PTL

\* Only a separator at the end makes the code leave the text.
THEOREM StaysInText == SplitSpec => []LeavesOnlyBehindSep
<1>1. SplitInv => LeavesOnlyBehindSep
  BY DEF SplitInv
<1> QED
  BY SplitInvariant, <1>1, PTL

-----------------------------------------------------------------------------
(* The passphrase: console_prompt_string.                                  *)

LEMMA PromptInvInit == PromptInit => PromptInv
<1> SUFFICES ASSUME PromptInit PROVE PromptInv
  OBVIOUS
<1>1. /\ typed \in Seq(Chars \cup {NL, NUL}) /\ Len(typed) = 0
      /\ key \in Seq(Chars \cup {NL, NUL, EOF}) /\ Len(key) = 0
  BY DEF PromptInit
<1>2. closed = FALSE /\ got = 0 /\ pc = "busy" /\ start = 0 /\ size = 1
  BY DEF PromptInit
<1>3. PromptTypeOK
  <2>1. got \in 0..Len(typed) /\ start \in 0..got /\ size \in Nat
    BY <1>1, <1>2
  <2>2. closed \in BOOLEAN /\ pc \in {"busy", "reading", "returned"}
    BY <1>2
  <2> QED
    BY <1>1, <2>1, <2>2 DEF PromptTypeOK
<1>4. ReadSoFar /\ KeyIsLine
  BY <1>2 DEF ReadSoFar, KeyIsLine
<1> QED
  BY <1>1, <1>2, <1>3, <1>4 DEF PromptInv

\* Typing on does not change what was read.
LEMMA TypeKeeps ==
  ASSUME PromptInv, NEW c \in Chars \cup {NL, NUL}, Type(c)
  PROVE  PromptInv'
<1>1. /\ typed \in Seq(Chars \cup {NL, NUL}) /\ Len(typed) \in Nat
      /\ key \in Seq(Chars \cup {NL, NUL, EOF}) /\ Len(key) \in Nat
      /\ got \in 0..Len(typed) /\ start \in 0..got /\ ~closed
  BY DEF PromptInv, PromptTypeOK, Type
<1>2. /\ closed' = closed /\ got' = got /\ pc' = pc
      /\ start' = start /\ key' = key /\ size' = size
  BY DEF Type, bufferVars
<1>3. /\ typed' \in Seq(Chars \cup {NL, NUL}) /\ Len(typed') = Len(typed) + 1
      /\ \A n \in 1..Len(typed) : typed'[n] = typed[n]
  BY <1>1 DEF Type
<1>4. PromptTypeOK'
  BY <1>1, <1>2, <1>3 DEF PromptInv, PromptTypeOK
<1>5. ReadSoFar'
  <2> SUFFICES ASSUME pc = "reading"
               PROVE  /\ start + Len(key) = got
                      /\ \A n \in 1..Len(key) :
                           /\ key[n] = Stored(start + n)'
                           /\ key[n] # NUL
                           /\ n > 1 => key[n] # NL
    BY <1>2 DEF ReadSoFar
  <2>1. start + Len(key) = got
    BY <1>1 DEF PromptInv, ReadSoFar
  <2>2. ASSUME NEW n \in 1..Len(key)
        PROVE  Stored(start + n)' = Stored(start + n)
    <3>1. start + n \in 1..Len(typed)
      BY <1>1, <2>1
    <3> QED
      BY <1>1, <1>2, <1>3, <3>1 DEF Stored
  <2> QED
    BY <2>1, <2>2 DEF PromptInv, ReadSoFar
<1>6. KeyIsLine'
  <2> SUFFICES ASSUME pc = "returned" PROVE KeyIsLine'
    BY <1>2 DEF KeyIsLine
  <2>1. got = start + Len(key) + 1
    BY DEF PromptInv, KeyIsLine
  <2>2. got \in 1..Len(typed) /\ \A n \in 1..Len(key) : start + n \in 1..Len(typed)
    BY <1>1, <2>1
  <2>3. typed'[got] = typed[got]
        /\ \A n \in 1..Len(key) : typed'[start + n] = typed[start + n]
    BY <1>3, <2>2
  <2> QED
    BY <1>2, <2>3 DEF PromptInv, KeyIsLine
<1> QED
  BY <1>2, <1>4, <1>5, <1>6 DEF PromptInv

\* A character that does not end the key becomes its last.
LEMMA StoreKeeps ==
  ASSUME PromptInv, pc = "reading", NEW c \in Chars \cup {NL, NUL, EOF},
         ~Ends(c), Store(c), c = Stored(start + Len(key) + 1),
         \/ got < Len(typed) /\ got' = got + 1
         \/ closed /\ got = Len(typed) /\ got' = got,
         typed' = typed, closed' = closed, pc' = pc, start' = start
  PROVE  PromptInv'
<1>1. /\ typed \in Seq(Chars \cup {NL, NUL}) /\ Len(typed) \in Nat
      /\ key \in Seq(Chars \cup {NL, NUL, EOF}) /\ Len(key) \in Nat
      /\ got \in 0..Len(typed) /\ start \in 0..got /\ size = Len(key) + 1
  BY DEF PromptInv, PromptTypeOK
<1>2. /\ key' \in Seq(Chars \cup {NL, NUL, EOF}) /\ Len(key') = Len(key) + 1
      /\ key'[Len(key) + 1] = c
      /\ \A n \in 1..Len(key) : key'[n] = key[n]
      /\ size' = size + 1
  BY <1>1 DEF Store
<1>3. PromptTypeOK' /\ size' = Len(key') + 1
  BY <1>1, <1>2 DEF PromptInv, PromptTypeOK
<1>4. \/ start + Len(key) = got
      \/ closed /\ got = Len(typed) /\ start + Len(key) > got
  BY DEF PromptInv, ReadSoFar
<1>5. \/ start + Len(key') = got'
      \/ closed' /\ got' = Len(typed') /\ start + Len(key') > got'
  BY <1>1, <1>2, <1>4
<1>6. ASSUME NEW n \in 1..Len(key')
      PROVE  /\ key'[n] = Stored(start + n)'
             /\ key'[n] # NUL
             /\ n > 1 => key'[n] # NL
  <2>1. Stored(start + n)' = Stored(start + n)
    BY DEF Stored
  <2>2. CASE n \in 1..Len(key)
    BY <1>2, <2>1, <2>2 DEF PromptInv, ReadSoFar
  <2>3. CASE n = Len(key) + 1
    BY <1>1, <1>2, <2>1, <2>3 DEF Ends
  <2> QED
    BY <1>1, <1>2, <2>2, <2>3
<1> QED
  BY <1>3, <1>5, <1>6 DEF PromptInv, ReadSoFar, KeyIsLine

\* A key that has an end was read from what was typed only.
LEMMA ReadKeeps == ASSUME PromptInv, Read PROVE PromptInv'
<1>1. /\ typed \in Seq(Chars \cup {NL, NUL}) /\ Len(typed) \in Nat
      /\ Len(key) \in Nat /\ key \in Seq(Chars \cup {NL, NUL, EOF})
      /\ got \in 0..Len(typed) /\ start \in 0..got /\ size = Len(key) + 1
  BY DEF PromptInv, PromptTypeOK
<1>2. /\ pc = "reading" /\ got < Len(typed) /\ got' = got + 1
      /\ typed' = typed /\ closed' = closed
  BY DEF Read, lineVars
<1>3. start + Len(key) = got /\ typed[got + 1] \in Chars \cup {NL, NUL}
  BY <1>1, <1>2 DEF PromptInv, ReadSoFar
<1>4. CASE /\ Ends(typed[got + 1])
           /\ pc' = "returned"
           /\ UNCHANGED bufferVars
  <2>1. start' = start /\ key' = key /\ size' = size
    BY <1>4 DEF bufferVars
  <2>2. PromptTypeOK'
    BY <1>1, <1>2, <1>4, <2>1 DEF PromptInv, PromptTypeOK
  <2>3. typed[got + 1] = NUL \/ (typed[got + 1] = NL /\ key # << >>)
    BY <1>1, <1>4 DEF Ends
  <2>4. \A n \in 1..Len(key) : Stored(start + n) = typed[start + n]
    BY <1>1, <1>2, <1>3 DEF Stored
  <2>5. KeyIsLine'
    BY <1>1, <1>2, <1>3, <2>1, <2>3, <2>4 DEF PromptInv, ReadSoFar, KeyIsLine
  <2> QED
    BY <1>1, <1>4, <2>1, <2>2, <2>5 DEF PromptInv, ReadSoFar
<1>5. CASE /\ ~Ends(typed[got + 1])
           /\ Store(typed[got + 1])
           /\ UNCHANGED <<pc, start>>
  <2>1. typed[got + 1] = Stored(start + Len(key) + 1)
    BY <1>1, <1>2, <1>3 DEF Stored
  <2> QED
    BY <1>2, <1>3, <1>5, <2>1, StoreKeeps
<1> QED
  BY <1>4, <1>5 DEF Read

LEMMA ReadEofKeeps == ASSUME PromptInv, ReadEof PROVE PromptInv'
<1>1. /\ Len(typed) \in Nat /\ Len(key) \in Nat
      /\ got \in 0..Len(typed) /\ start \in 0..got /\ size = Len(key) + 1
  BY DEF PromptInv, PromptTypeOK
<1>2. /\ pc = "reading" /\ got = Len(typed) /\ closed /\ Store(EOF)
      /\ typed' = typed /\ closed' = closed /\ got' = got
      /\ pc' = pc /\ start' = start
  BY DEF ReadEof, lineVars
<1>3. start + Len(key) + 1 > Len(typed)
  BY <1>1, <1>2 DEF PromptInv, ReadSoFar
<1>4. EOF = Stored(start + Len(key) + 1) /\ ~Ends(EOF)
  BY <1>1, <1>3 DEF Stored, Ends
<1> QED
  BY <1>2, <1>4, StoreKeeps

LEMMA PromptKeeps ==
  ASSUME PromptInv, Hangup \/ Prompt \/ UNCHANGED promptVars
  PROVE  PromptInv'
<1>1. /\ Len(typed) \in Nat /\ got \in 0..Len(typed)
      /\ << >> \in Seq(Chars \cup {NL, NUL, EOF}) /\ Len(<< >>) = 0
  BY DEF PromptInv, PromptTypeOK
<1>2. CASE Hangup
  BY <1>2 DEF Hangup, bufferVars, PromptInv, PromptTypeOK, ReadSoFar, KeyIsLine, Stored
<1>3. CASE Prompt
  BY <1>1, <1>3 DEF Prompt, lineVars, PromptInv, PromptTypeOK, ReadSoFar, KeyIsLine
<1>4. CASE UNCHANGED promptVars
  BY <1>4 DEF promptVars, lineVars, bufferVars, PromptInv, PromptTypeOK, ReadSoFar,
              KeyIsLine, Stored
<1> QED
  BY <1>2, <1>3, <1>4

-----------------------------------------------------------------------------

\* The inductive invariant holds of every input.
THEOREM PromptInvariant == PromptSpec => []PromptInv
<1>1. PromptInv /\ [PromptNext]_promptVars => PromptInv'
  BY TypeKeeps, ReadKeeps, ReadEofKeeps, PromptKeeps DEF PromptNext
<1> QED
  BY PromptInvInit, <1>1, PTL DEF PromptSpec, PromptSafety

\* The variables have their types.
THEOREM PromptTypeCorrect == PromptSpec => []PromptTypeOK
<1>1. PromptInv => PromptTypeOK
  BY DEF PromptInv
<1> QED
  BY PromptInvariant, <1>1, PTL

\* A key is a line as it was typed, and no key is read from a closed terminal.
THEOREM KeyIsTyped == PromptSpec => []KeyIsLine
<1>1. PromptInv => KeyIsLine
  BY DEF PromptInv
<1> QED
  BY PromptInvariant, <1>1, PTL

\* The buffer always has room for what is written.
THEOREM StaysInBounds == PromptSpec => []InBounds
<1>1. PromptInv => InBounds
  BY DEF PromptInv, PromptTypeOK, InBounds
<1> QED
  BY PromptInvariant, <1>1, PTL

\* An end stays an end, and every character read is one less before it.
LEMMA EndStays ==
  ASSUME PromptInv, [PromptNext]_promptVars,
         NEW n \in 1..Len(typed), pc = "reading", EndsAt(n)
  PROVE  /\ pc' = "returned" \/ (pc' = "reading" /\ EndsAt(n)')
         /\ got' = got + 1 \/ UNCHANGED <<got, key>>
<1>1. /\ typed \in Seq(Chars \cup {NL, NUL}) /\ got \in 0..Len(typed)
      /\ Len(typed) \in Nat /\ n \in got + 1..Len(typed)
      /\ key \in Seq(Chars \cup {NL, NUL, EOF}) /\ Len(key) \in Nat
      /\ size = Len(key) + 1
  BY DEF PromptInv, PromptTypeOK, EndsAt
<1>2. CASE \E c \in Chars \cup {NL, NUL} : Type(c)
  <2>1. PICK c \in Chars \cup {NL, NUL} : Type(c)
    BY <1>2
  <2>2. /\ Len(typed') = Len(typed) + 1 /\ typed'[n] = typed[n]
        /\ UNCHANGED <<got, pc, key>>
    BY <1>1, <2>1 DEF Type, bufferVars
  <2> QED
    BY <1>1, <2>2 DEF EndsAt
<1>3. CASE Hangup \/ UNCHANGED promptVars
  BY <1>3 DEF Hangup, promptVars, lineVars, bufferVars, EndsAt
<1>4. CASE Read
  <2>1. got' = got + 1 /\ typed' = typed
    BY <1>4 DEF Read, lineVars
  <2>2. CASE Ends(typed[got + 1])
    BY <1>4, <2>1, <2>2 DEF Read
  <2>3. CASE ~Ends(typed[got + 1])
    <3>1. key' = Append(key, typed[got + 1]) /\ pc' = "reading"
      BY <1>4, <2>3 DEF Read, Store
    <3>2. n # got + 1
      <4>1. ASSUME n = got + 1 PROVE FALSE
        <5>1. key # << >> => size # 1
          BY <1>1
        <5> QED
          BY <1>1, <2>3, <4>1, <5>1 DEF EndsAt, Ends
      <4> QED
        BY <4>1
    <3>3. key' # << >>
      <4>1. Len(key') = Len(key) + 1
        BY <1>1, <3>1
      <4> QED
        BY <1>1, <4>1
    <3>4. n \in got' + 1..Len(typed')
      BY <1>1, <2>1, <3>2
    <3> QED
      BY <2>1, <3>1, <3>3, <3>4 DEF EndsAt
  <2> QED
    BY <2>2, <2>3
<1>5. ~ReadEof
  BY <1>1 DEF ReadEof
<1>6. ~Prompt
  BY DEF Prompt
<1> QED
  BY <1>2, <1>3, <1>4, <1>5, <1>6 DEF PromptNext

\* Once a key was typed to its end, what is typed behind it and a hangup change
\* nothing: as many characters later as are before the end, it is returned.  Of
\* PromptAnswered what is left is that getchar returns them.
THEOREM PromptGoesOn == PromptSpec => PromptAdvances
<1> DEFINE Advances ==
      \A n \in 1..Len(typed) :
        pc = "reading" /\ EndsAt(n) =>
          /\ pc' = "returned" \/ (pc' = "reading" /\ EndsAt(n)')
          /\ got' = got + 1 \/ UNCHANGED <<got, key>>
<1>1. PromptInv /\ [PromptNext]_promptVars => [Advances]_promptVars
  BY EndStays
<1> QED
  BY PromptInvariant, <1>1, PTL DEF PromptSpec, PromptSafety, PromptAdvances

-----------------------------------------------------------------------------
(* The records: config_split_string_holders.                               *)

USE HoldersAssumption

LEMMA LeastNumber ==
  ASSUME NEW S, S \subseteq Nat, S # {}
  PROVE  \E k \in S : \A l \in S : k <= l
<1>1. IsWellFoundedOn(OpToRel(<, Nat), Nat)
  BY NatLessThanWellFounded
<1>2. PICK k \in S : \A l \in S : ~(<<l, k>> \in OpToRel(<, Nat))
  BY <1>1, WFMin
<1>3. ASSUME NEW l \in S PROVE k <= l
  <2>1. ~(l < k)
    BY <1>2 DEF OpToRel
  <2>2. k \in Nat /\ l \in Nat
    OBVIOUS
  <2> QED
    BY <2>1, <2>2
<1> QED
  BY <1>3

\* WrittenTo is well defined: it is what its definition says.
LEMMA WrittenIs ==
  ASSUME NEW is \in Seq(Items)
  PROVE  WrittenTo(is) = [n \in 0..Len(is) |->
           IF n = 0 THEN << >>
           ELSE WrittenTo(is)[n - 1] \o is[n].name \o << Open >> \o is[n].list \o << Close >>]
<1> DEFINE Next(f, n) == f[n - 1] \o is[n].name \o << Open >> \o is[n].list \o << Close >>
           Is(f, m) == f = [n \in 0..m |-> IF n = 0 THEN << >> ELSE Next(f, n)]
<1>1. ASSUME NEW m \in Nat PROVE \E f : Is(f, m)
  <2> DEFINE Not == {k \in Nat : ~\E f : Is(f, k)}
  <2> SUFFICES ASSUME Not # {} PROVE FALSE
    OBVIOUS
  <2>1. PICK k \in Not : \A l \in Not : k <= l
    BY LeastNumber
  <2>2. CASE k = 0
    <3>1. Is([n \in 0..0 |-> << >>], 0)
      OBVIOUS
    <3> QED
      BY <2>1, <2>2, <3>1
  <2>3. CASE k # 0
    <3>1. k - 1 \in Nat /\ k \in Nat
      BY <2>1, <2>3
    <3>2. k - 1 \notin Not
      <4>1. ~(k <= k - 1)
        BY <3>1
      <4> HIDE DEF Not
      <4> QED
        BY <2>1, <4>1
    <3>3. PICK f : Is(f, k - 1)
      BY <3>1, <3>2
    <3> DEFINE g == [n \in 0..k |-> IF n = k THEN Next(f, k) ELSE f[n]]
    <3>4. ASSUME NEW n \in 0..k, n # 0
          PROVE  g[n - 1] = f[n - 1]
      <4>1. n - 1 \in 0..k /\ n - 1 # k
        BY <3>1, <3>4
      <4> QED
        BY <4>1
    <3>5. ASSUME NEW n \in 0..k
          PROVE  g[n] = IF n = 0 THEN << >> ELSE Next(g, n)
      <4>1. CASE n = k
        <5>1. g[n] = Next(f, n)
          BY <4>1
        <5>2. n # 0
          BY <2>3, <4>1
        <5> QED
          BY <3>4, <5>1, <5>2
      <4>2. CASE n # k
        <5>1. n \in 0..(k - 1) /\ g[n] = f[n]
          BY <3>1, <3>5, <4>2
        <5>2. f[n] = IF n = 0 THEN << >> ELSE Next(f, n)
          BY <3>3, <5>1
        <5> QED
          BY <3>4, <5>1, <5>2
      <4> QED
        BY <4>1, <4>2
    <3>6. Is(g, k)
      BY <3>5
    <3> QED
      BY <2>1, <3>6
  <2> QED
    BY <2>2, <2>3
<1>2. Len(is) \in Nat
  OBVIOUS
<1>3. \E f : Is(f, Len(is))
  BY <1>1, <1>2
<1> QED
  BY <1>3 DEF WrittenTo

-----------------------------------------------------------------------------
(* Where the characters of a record are.                                   *)

Text == RecordChars \cup {Open, Close, LF}

LEMMA Joined ==
  ASSUME NEW C, NEW s \in Seq(C), NEW t \in Seq(C)
  PROVE  /\ s \o t \in Seq(C)
         /\ Len(s \o t) = Len(s) + Len(t)
         /\ \A n \in 1..Len(s) : (s \o t)[n] = s[n]
         /\ \A n \in 1..Len(t) : (s \o t)[Len(s) + n] = t[n]
OBVIOUS

LEMMA OneChar ==
  ASSUME NEW C, NEW s \in Seq(C), NEW c \in C
  PROVE  /\ s \o << c >> \in Seq(C)
         /\ Len(s \o << c >>) = Len(s) + 1
         /\ \A n \in 1..Len(s) : (s \o << c >>)[n] = s[n]
         /\ (s \o << c >>)[Len(s) + 1] = c
<1>1. s \o << c >> = Append(s, c)
  BY AppendIsConcat
<1> QED
  BY <1>1

\* A record behind a text s: its name t, Open, its list u, Close.
RecordEnds(r, s, t, u) ==
  /\ r \in Seq(Text)
  /\ Len(r) = Len(s) + Len(t) + Len(u) + 2
  /\ \A n \in 1..Len(s) : r[n] = s[n]
  /\ \A n \in 1..Len(t) : r[Len(s) + n] = t[n]
  /\ r[Len(s) + Len(t) + 1] = Open
  /\ \A n \in 1..Len(u) : r[Len(s) + Len(t) + 1 + n] = u[n]
  /\ r[Len(s) + Len(t) + Len(u) + 2] = Close

LEMMA RecordBehind ==
  ASSUME NEW s \in Seq(Text), NEW t \in Seq(Text), NEW u \in Seq(Text)
  PROVE  RecordEnds(s \o t \o << Open >> \o u \o << Close >>, s, t, u)
<1> DEFINE st == s \o t
           sto == st \o << Open >>
           stou == sto \o u
           r == stou \o << Close >>
<1> Open \in Text /\ Close \in Text
  BY DEF Text
<1>0. Len(s) \in Nat /\ Len(t) \in Nat /\ Len(u) \in Nat
  OBVIOUS
<1>1. /\ st \in Seq(Text) /\ Len(st) = Len(s) + Len(t)
      /\ \A n \in 1..Len(s) : st[n] = s[n]
      /\ \A n \in 1..Len(t) : st[Len(s) + n] = t[n]
  BY Joined
<1> HIDE DEF st
<1>2. /\ sto \in Seq(Text) /\ Len(sto) = Len(st) + 1
      /\ \A n \in 1..Len(st) : sto[n] = st[n]
      /\ sto[Len(st) + 1] = Open
  <2>1. st \in Seq(Text)
    BY <1>1
  <2> QED
    BY <2>1, OneChar
<1> HIDE DEF sto
<1>3. /\ stou \in Seq(Text) /\ Len(stou) = Len(sto) + Len(u)
      /\ \A n \in 1..Len(sto) : stou[n] = sto[n]
      /\ \A n \in 1..Len(u) : stou[Len(sto) + n] = u[n]
  <2>1. sto \in Seq(Text)
    BY <1>2
  <2> QED
    BY <2>1, Joined
<1> HIDE DEF stou
<1>5. /\ r \in Seq(Text) /\ Len(r) = Len(stou) + 1
      /\ \A n \in 1..Len(stou) : r[n] = stou[n]
      /\ r[Len(stou) + 1] = Close
  <2>1. stou \in Seq(Text)
    BY <1>3
  <2> QED
    BY <2>1, OneChar
<1> HIDE DEF r
<1>4. s \o t \o << Open >> \o u \o << Close >> = r
  BY DEF r, stou, sto, st
<1>6. /\ Len(st) = Len(s) + Len(t) /\ Len(sto) = Len(s) + Len(t) + 1
      /\ Len(stou) = Len(s) + Len(t) + 1 + Len(u)
  BY <1>1, <1>2, <1>3
<1>7. ASSUME NEW n \in 1..Len(s) PROVE r[n] = s[n]
  <2>1. n \in 1..Len(st) /\ n \in 1..Len(sto) /\ n \in 1..Len(stou)
    BY <1>0, <1>6
  <2> QED
    BY <1>1, <1>2, <1>3, <1>5, <2>1
<1>8. ASSUME NEW n \in 1..Len(t) PROVE r[Len(s) + n] = t[n]
  <2>1. /\ Len(s) + n \in 1..Len(st) /\ Len(s) + n \in 1..Len(sto)
        /\ Len(s) + n \in 1..Len(stou)
    BY <1>0, <1>6
  <2> QED
    BY <1>1, <1>2, <1>3, <1>5, <2>1
<1>9. r[Len(s) + Len(t) + 1] = Open
  <2>1. /\ Len(s) + Len(t) + 1 = Len(st) + 1
        /\ Len(st) + 1 \in 1..Len(sto) /\ Len(st) + 1 \in 1..Len(stou)
    BY <1>0, <1>6
  <2> QED
    BY <1>2, <1>3, <1>5, <2>1
<1>10. ASSUME NEW n \in 1..Len(u) PROVE r[Len(s) + Len(t) + 1 + n] = u[n]
  <2>1. /\ Len(s) + Len(t) + 1 + n = Len(sto) + n
        /\ Len(sto) + n \in 1..Len(stou)
    BY <1>0, <1>6
  <2> QED
    BY <1>3, <1>5, <2>1
<1>11. Len(r) = Len(s) + Len(t) + Len(u) + 2 /\ Len(r) = Len(stou) + 1
  BY <1>0, <1>5, <1>6
<1> QED
  BY <1>4, <1>5, <1>7, <1>8, <1>9, <1>10, <1>11 DEF RecordEnds

LEMMA IsSeq ==
  ASSUME NEW C, NEW l \in Nat, NEW f \in [1..l -> C]
  PROVE  f \in Seq(C)
OBVIOUS

LEMMA ItemTypes ==
  ASSUME NEW is \in Seq(Items), NEW n \in 1..Len(is)
  PROVE  /\ is[n].name \in Seq(RecordChars) /\ is[n].list \in Seq(RecordChars)
         /\ is[n].name \in Seq(Text) /\ is[n].list \in Seq(Text)
<1>1. is[n] \in Items
  OBVIOUS
<1>2. is[n].name \in Words(MaxName) /\ is[n].list \in Words(MaxList)
  BY <1>1 DEF Items
<1>3. is[n].name \in Seq(RecordChars) /\ is[n].list \in Seq(RecordChars)
  <2>0. 0..MaxName \subseteq Nat /\ 0..MaxList \subseteq Nat
    OBVIOUS
  <2>1. PICK l \in 0..MaxName : is[n].name \in [1..l -> RecordChars]
    BY <1>2 DEF Words
  <2>2. PICK k \in 0..MaxList : is[n].list \in [1..k -> RecordChars]
    BY <1>2 DEF Words
  <2>3. l \in Nat /\ k \in Nat
    BY <2>0
  <2> QED
    BY <2>1, <2>2, <2>3, IsSeq
<1> QED
  BY <1>3 DEF Text

LEMMA WrittenStep ==
  ASSUME NEW is \in Seq(Items), NEW n \in 0..Len(is)
  PROVE  /\ n = 0 => WrittenTo(is)[n] = << >>
         /\ n # 0 => /\ n - 1 \in 0..Len(is) /\ n \in 1..Len(is)
                     /\ WrittenTo(is)[n] = WrittenTo(is)[n - 1] \o is[n].name
                                             \o << Open >> \o is[n].list \o << Close >>
<1>1. n # 0 => n - 1 \in 0..Len(is) /\ n \in 1..Len(is)
  OBVIOUS
<1> QED
  BY <1>1, WrittenIs

LEMMA WrittenType ==
  ASSUME NEW is \in Seq(Items), NEW m \in 0..Len(is)
  PROVE  WrittenTo(is)[m] \in Seq(Text)
<1> DEFINE Not == {k \in 0..Len(is) : WrittenTo(is)[k] \notin Seq(Text)}
<1> SUFFICES ASSUME Not # {} PROVE FALSE
  OBVIOUS
<1>1. Not \subseteq Nat
  OBVIOUS
<1>2. PICK k \in Not : \A l \in Not : k <= l
  BY <1>1, LeastNumber
<1>3. k # 0
  <2>1. << >> \in Seq(Text)
    OBVIOUS
  <2> QED
    BY <1>2, <2>1, WrittenStep
<1>4. /\ k - 1 \in 0..Len(is) /\ k \in 1..Len(is)
      /\ WrittenTo(is)[k] = WrittenTo(is)[k - 1] \o is[k].name
                              \o << Open >> \o is[k].list \o << Close >>
  BY <1>2, <1>3, WrittenStep
<1>5. WrittenTo(is)[k - 1] \in Seq(Text)
  <2>1. ~(k <= k - 1)
    BY <1>4
  <2> SUFFICES k - 1 \notin Not
    BY <1>4
  <2> HIDE DEF Not
  <2> QED
    BY <1>2, <2>1
<1>6. is[k].name \in Seq(Text) /\ is[k].list \in Seq(Text)
  BY <1>4, ItemTypes
<1>7. WrittenTo(is)[k] \in Seq(Text)
  BY <1>4, <1>5, <1>6, RecordBehind DEF RecordEnds
<1> QED
  BY <1>2, <1>7

\* The record of an item begins where those before it end.
LEMMA RecordAt ==
  ASSUME NEW is \in Seq(Items), NEW k \in 1..Len(is)
  PROVE  RecordEnds(WrittenTo(is)[k], WrittenTo(is)[k - 1], is[k].name, is[k].list)
<1>1. k - 1 \in 0..Len(is) /\ k \in 0..Len(is) /\ k # 0
  OBVIOUS
<1>2. WrittenTo(is)[k] = WrittenTo(is)[k - 1] \o is[k].name
                           \o << Open >> \o is[k].list \o << Close >>
  BY <1>1, WrittenStep
<1>3. WrittenTo(is)[k - 1] \in Seq(Text)
  BY <1>1, WrittenType
<1>4. is[k].name \in Seq(Text) /\ is[k].list \in Seq(Text)
  BY ItemTypes
<1> QED
  BY <1>2, <1>3, <1>4, RecordBehind

\* What is written of fewer items is the beginning.
LEMMA WrittenGrows ==
  ASSUME NEW is \in Seq(Items), NEW m \in 0..Len(is), NEW n \in 0..Len(is), m <= n
  PROVE  /\ Len(WrittenTo(is)[m]) <= Len(WrittenTo(is)[n])
         /\ \A i \in 1..Len(WrittenTo(is)[m]) : WrittenTo(is)[n][i] = WrittenTo(is)[m][i]
<1> DEFINE W == WrittenTo(is)
           Begins(k) == /\ Len(W[m]) <= Len(W[k])
                        /\ \A i \in 1..Len(W[m]) : W[k][i] = W[m][i]
           Not == {k \in m..Len(is) : ~Begins(k)}
<1> HIDE DEF W
<1> SUFFICES ASSUME Not # {} PROVE FALSE
  BY DEF W
<1>1. Not \subseteq Nat
  OBVIOUS
<1>2. PICK k \in Not : \A l \in Not : k <= l
  BY <1>1, LeastNumber
<1>3. Len(W[m]) \in Nat
  BY WrittenType DEF W
<1>4. k # m
  BY <1>2, <1>3
<1>5. k - 1 \in m..Len(is) /\ k \in 1..Len(is)
  BY <1>2, <1>4
<1> HIDE DEF Not
<1>6. Begins(k - 1)
  <2>1. ~(k <= k - 1)
    BY <1>5
  <2>2. k - 1 \notin Not
    BY <1>2, <2>1
  <2> QED
    BY <1>5, <2>2 DEF Not
<1>7. /\ Len(W[k - 1]) \in Nat
      /\ Len(W[k]) = Len(W[k - 1]) + Len(is[k].name) + Len(is[k].list) + 2
      /\ \A i \in 1..Len(W[k - 1]) : W[k][i] = W[k - 1][i]
  <2>1. k - 1 \in 0..Len(is)
    BY <1>5
  <2>2. W[k - 1] \in Seq(Text)
    BY <2>1, WrittenType DEF W
  <2>3. RecordEnds(W[k], W[k - 1], is[k].name, is[k].list)
    BY <1>5, RecordAt DEF W
  <2>4. Len(W[k - 1]) \in Nat
    BY <2>2
  <2> QED
    BY <2>3, <2>4 DEF RecordEnds
<1>8. Len(is[k].name) \in Nat /\ Len(is[k].list) \in Nat
  <2>1. is[k].name \in Seq(RecordChars) /\ is[k].list \in Seq(RecordChars)
    BY <1>5, ItemTypes
  <2> QED
    BY <2>1
<1>9. Begins(k)
  <2>1. Len(W[m]) <= Len(W[k - 1])
    BY <1>6
  <2>2. Len(W[m]) <= Len(W[k])
    <3> DEFINE x == Len(W[m])
               y == Len(W[k - 1])
               v == Len(is[k].name)
               z == Len(is[k].list)
               e == Len(W[k])
    <3>1. /\ x \in Nat /\ y \in Nat /\ v \in Nat /\ z \in Nat
          /\ x <= y /\ e = y + v + z + 2
      BY <1>3, <1>7, <1>8, <2>1
    <3> HIDE DEF x, y, v, z, e
    <3>2. x <= e
      BY <3>1
    <3> QED
      BY <3>2 DEF x, e
  <2>3. ASSUME NEW i \in 1..Len(W[m]) PROVE W[k][i] = W[m][i]
    <3>1. i \in 1..Len(W[k - 1])
      BY <1>3, <1>7, <2>1
    <3> QED
      BY <1>6, <1>7, <3>1
  <2> QED
    BY <2>2, <2>3
<1> QED
  BY <1>2, <1>9 DEF Not

-----------------------------------------------------------------------------
(* The text of the configuration.                                          *)

\* Where the record of the k-th item is, and what is behind it.
Base(k) == Len(WrittenTo(items)[k - 1])

RecordOf(k) ==
  LET b == Base(k)
      t == items[k].name
      u == items[k].list
      e == b + Len(t) + Len(u) + 2
  IN  /\ e <= Len(records)
      /\ \A n \in 1..Len(t) : At(b + n) = t[n]
      /\ At(b + Len(t) + 1) = Open
      /\ \A n \in 1..Len(u) : At(b + Len(t) + 1 + n) = u[n]
      /\ At(e) = Close
      /\ Len(WrittenTo(items)[k]) = e

LEMMA Sizes ==
  ASSUME HoldersTypeOK, NEW k \in 1..Len(items)
  PROVE  /\ Base(k) \in Nat /\ Len(records) \in Nat
         /\ items[k].name \in Seq(RecordChars) /\ items[k].list \in Seq(RecordChars)
         /\ Len(items[k].name) \in Nat /\ Len(items[k].list) \in Nat
<1>1. items \in Seq(Items) /\ Len(records) \in Nat
  BY DEF HoldersTypeOK
<1>2. k - 1 \in 0..Len(items)
  BY <1>1
<1>3. WrittenTo(items)[k - 1] \in Seq(Text)
  BY <1>1, <1>2, WrittenType
<1>4. items[k].name \in Seq(RecordChars) /\ items[k].list \in Seq(RecordChars)
  BY <1>1, ItemTypes
<1>5. Len(items[k].name) \in Nat /\ Len(items[k].list) \in Nat
  BY <1>4
<1> QED
  BY <1>1, <1>3, <1>4, <1>5 DEF Base

LEMMA RecordThere ==
  ASSUME HoldersTypeOK, TextSaysItems, NEW k \in 1..Len(items)
  PROVE  RecordOf(k)
<1> DEFINE b == Base(k)
           t == items[k].name
           u == items[k].list
           e == b + Len(t) + Len(u) + 2
           W == WrittenTo(items)
<1>1. items \in Seq(Items) /\ Len(items) \in 0..Len(items) /\ k \in 0..Len(items) /\ k <= Len(items)
  BY DEF HoldersTypeOK
<1>2. Len(t) \in Nat /\ Len(u) \in Nat /\ b \in Nat /\ Len(records) \in Nat
  BY Sizes
<1>3. RecordEnds(W[k], W[k - 1], t, u)
  BY <1>1, RecordAt
<1>4. /\ Len(W[k]) <= Len(W[Len(items)])
      /\ \A n \in 1..Len(W[k]) : W[Len(items)][n] = W[k][n]
  BY <1>1, WrittenGrows
<1>5. /\ Len(W[Len(items)]) <= Len(records)
      /\ \A n \in 1..Len(W[Len(items)]) : records[n] = W[Len(items)][n]
  BY DEF TextSaysItems, Written
<1>6. W[Len(items)] \in Seq(Text)
  BY <1>1, WrittenType
<1>7. b = Len(W[k - 1])
  BY DEF Base
<1> HIDE DEF W, b, t, u
<1>8. Len(W[k]) = e
  BY <1>3, <1>7 DEF RecordEnds
<1>9. Len(W[Len(items)]) \in Nat
  BY <1>6
<1>10. ASSUME NEW n \in 1..e PROVE At(n) = W[k][n]
  <2>1. n \in 1..Len(W[k]) /\ n \in 1..Len(W[Len(items)]) /\ n <= Len(records)
    BY <1>2, <1>4, <1>5, <1>8, <1>9
  <2> QED
    BY <1>4, <1>5, <2>1 DEF At
<1>11. e <= Len(records)
  BY <1>2, <1>4, <1>5, <1>8, <1>9
<1>12. \A n \in 1..Len(t) : At(b + n) = t[n]
  <2> SUFFICES ASSUME NEW n \in 1..Len(t) PROVE At(b + n) = t[n]
    OBVIOUS
  <2>1. b + n \in 1..e
    BY <1>2
  <2> QED
    BY <1>3, <1>7, <1>10, <2>1 DEF RecordEnds
<1>13. At(b + Len(t) + 1) = Open
  <2>1. b + Len(t) + 1 \in 1..e
    BY <1>2
  <2> QED
    BY <1>3, <1>7, <1>10, <2>1 DEF RecordEnds
<1>14. \A n \in 1..Len(u) : At(b + Len(t) + 1 + n) = u[n]
  <2> SUFFICES ASSUME NEW n \in 1..Len(u) PROVE At(b + Len(t) + 1 + n) = u[n]
    OBVIOUS
  <2>1. b + Len(t) + 1 + n \in 1..e
    BY <1>2
  <2> QED
    BY <1>3, <1>7, <1>10, <2>1 DEF RecordEnds
<1>15. At(e) = Close
  <2>1. e \in 1..e
    BY <1>2
  <2> QED
    BY <1>3, <1>7, <1>10, <2>1 DEF RecordEnds
<1> QED
  BY <1>8, <1>11, <1>12, <1>13, <1>14, <1>15 DEF RecordOf, W, b, t, u

\* Behind the last record the text or its line ends; behind another one the
\* next begins.
LEMMA WhatFollows ==
  ASSUME HoldersTypeOK, TextSaysItems, NEW k \in 1..Len(items)
  PROVE  At(Len(WrittenTo(items)[k]) + 1) \in {NULL, LF} <=> k = Len(items)
<1>1. CASE k = Len(items)
  BY <1>1 DEF TextSaysItems, Written
<1>2. CASE k # Len(items)
  <2>1. k + 1 \in 1..Len(items) /\ k + 1 - 1 = k
    BY <1>2 DEF HoldersTypeOK
  <2>2. RecordOf(k + 1) /\ Base(k + 1) = Len(WrittenTo(items)[k])
    BY <2>1, RecordThere DEF Base
  <2>3. items[k + 1].name \in Seq(RecordChars) /\ Base(k + 1) \in Nat
    BY <2>1, Sizes
  <2>4. At(Base(k + 1) + 1) \in RecordChars \cup {Open}
    <3>1. CASE Len(items[k + 1].name) = 0
      <4>1. Base(k + 1) + Len(items[k + 1].name) + 1 = Base(k + 1) + 1
        BY <2>3, <3>1
      <4> QED
        BY <2>2, <4>1 DEF RecordOf
    <3>2. CASE Len(items[k + 1].name) # 0
      <4>1. 1 \in 1..Len(items[k + 1].name)
        BY <2>3, <3>2
      <4>2. At(Base(k + 1) + 1) = items[k + 1].name[1]
        BY <2>2, <4>1 DEF RecordOf
      <4>3. items[k + 1].name[1] \in RecordChars
        BY <2>3, <4>1
      <4> QED
        BY <4>2, <4>3
    <3> QED
      BY <3>1, <3>2
  <2> QED
    BY <1>2, <2>2, <2>4
<1> QED
  BY <1>1, <1>2

-----------------------------------------------------------------------------
(* Where the splitter is.                                                  *)

Holder == [name : Seq(RecordChars), live : BOOLEAN, strings : {NULL} \cup Seq(RecordChars)]

LEMMA MadeIs ==
  ASSUME HoldersTypeOK
  PROVE  /\ NewHolder \in Holder
         /\ Made \in Seq(Holder) /\ Made # << >>
         /\ Last \in Nat /\ Last \in 1..Len(Made) /\ Made[Last] \in Holder
         /\ Len(Made) = Last
<1>1. NewHolder \in Holder
  BY DEF NewHolder, Holder
<1>2. holders \in Seq(Holder)
  BY DEF HoldersTypeOK, Holder
<1>3. Made \in Seq(Holder) /\ Made # << >>
  BY <1>1, <1>2 DEF Made
<1> QED
  BY <1>1, <1>3 DEF Last

\* A character is ahead only if there is an item.
LEMMA AheadIsItem ==
  ASSUME HoldersInv, holdersPc = "split", pos < Len(records) \/ At(pos + 1) # NULL
  PROVE  items # << >> /\ SplitSoFar /\ Last \in 1..Len(items)
<1>1. items # << >>
  BY DEF HoldersInv, HoldersTypeOK, TextSaysItems, At
<1>2. SplitSoFar /\ HoldersTypeOK
  BY <1>1 DEF HoldersInv
<1>3. Last <= Len(items)
  BY <1>2 DEF SplitSoFar
<1>4. Last \in Nat /\ 1 <= Last
  BY <1>2, MadeIs
<1>5. Len(items) \in Nat
  BY <1>2 DEF HoldersTypeOK
<1> QED
  BY <1>1, <1>2, <1>3, <1>4, <1>5

\* Characters of the last item that are behind, as SplitSoFar counts them.
InName == pos - Base(Last)
InList == InName - Len(items[Last].name) - 1

LEMMA Ahead ==
  ASSUME HoldersInv, SplitSoFar, Last \in 1..Len(items)
  PROVE  LET t == items[Last].name
             u == items[Last].list
         IN  /\ pos < Len(records)
             /\ into = "name" =>
                  /\ InName \in 0..Len(t) /\ Made[Last].name = SubSeq(t, 1, InName)
                  /\ InName < Len(t) => At(pos + 1) = t[InName + 1]
                                          /\ At(pos + 1) \in RecordChars
                  /\ InName = Len(t) => At(pos + 1) = Open
             /\ into = "list" =>
                  /\ InList \in 0..Len(u) /\ field = SubSeq(u, 1, InList)
                  /\ Made[Last].name = t
                  /\ InList < Len(u) => At(pos + 1) = u[InList + 1]
                                          /\ At(pos + 1) \in RecordChars
                  /\ InList = Len(u) => /\ At(pos + 1) = Close
                                        /\ pos + 1 = Len(WrittenTo(items)[Last])
<1> DEFINE t == items[Last].name
           u == items[Last].list
           b == Base(Last)
<1>1. RecordOf(Last)
  BY RecordThere DEF HoldersInv
<1>2. /\ b \in Nat /\ Len(t) \in Nat /\ Len(u) \in Nat
      /\ t \in Seq(RecordChars) /\ u \in Seq(RecordChars)
      /\ pos \in Nat /\ Len(records) \in Nat
  BY Sizes DEF HoldersInv, HoldersTypeOK
<1>3. b + Len(t) + Len(u) + 2 <= Len(records)
  BY <1>1 DEF RecordOf
<1>4. InName = pos - b /\ InList = pos - b - Len(t) - 1
  BY DEF InName, InList
<1> HIDE DEF t, u, b
<1>5. CASE into = "name"
  <2>1. InName \in 0..Len(t) /\ Made[Last].name = SubSeq(t, 1, InName)
    BY <1>5 DEF SplitSoFar, InName, Base, t
  <2>2. pos = b + InName
    BY <1>2, <1>4, <2>1
  <2>3. pos < Len(records)
    BY <1>2, <1>3, <2>1, <2>2
  <2>4. InName < Len(t) => At(pos + 1) = t[InName + 1] /\ At(pos + 1) \in RecordChars
    <3> SUFFICES ASSUME InName < Len(t)
                 PROVE  At(pos + 1) = t[InName + 1] /\ At(pos + 1) \in RecordChars
      OBVIOUS
    <3>1. InName + 1 \in 1..Len(t) /\ pos + 1 = b + (InName + 1)
      BY <1>2, <2>1, <2>2
    <3>2. At(b + (InName + 1)) = t[InName + 1]
      BY <1>1, <3>1 DEF RecordOf, b, t, u
    <3>3. t[InName + 1] \in RecordChars
      BY <1>2, <3>1
    <3> QED
      BY <3>1, <3>2, <3>3
  <2>5. InName = Len(t) => At(pos + 1) = Open
    BY <1>1, <1>2, <2>2 DEF RecordOf, b, t, u
  <2> QED
    BY <1>5, <2>1, <2>3, <2>4, <2>5 DEF t, u
<1>6. CASE into = "list"
  <2>1. /\ InList \in 0..Len(u) /\ field = SubSeq(u, 1, InList)
        /\ Made[Last].name = t
    BY <1>6 DEF SplitSoFar, InList, InName, Base, t, u
  <2>2. pos = b + Len(t) + 1 + InList
    BY <1>2, <1>4, <2>1
  <2>3. pos < Len(records)
    BY <1>2, <1>3, <2>1, <2>2
  <2>4. InList < Len(u) => At(pos + 1) = u[InList + 1] /\ At(pos + 1) \in RecordChars
    <3> SUFFICES ASSUME InList < Len(u)
                 PROVE  At(pos + 1) = u[InList + 1] /\ At(pos + 1) \in RecordChars
      OBVIOUS
    <3>0. InList \in Nat
      BY <2>1
    <3>1. InList + 1 \in 1..Len(u) /\ pos + 1 = b + Len(t) + 1 + (InList + 1)
      BY <1>2, <2>2, <3>0
    <3>2. At(b + Len(t) + 1 + (InList + 1)) = u[InList + 1]
      BY <1>1, <3>1 DEF RecordOf, b, t, u
    <3>3. u[InList + 1] \in RecordChars
      BY <1>2, <3>1
    <3> QED
      BY <3>1, <3>2, <3>3
  <2>5. InList = Len(u) => At(pos + 1) = Close /\ pos + 1 = Len(WrittenTo(items)[Last])
    <3> SUFFICES ASSUME InList = Len(u)
                 PROVE  At(pos + 1) = Close /\ pos + 1 = Len(WrittenTo(items)[Last])
      OBVIOUS
    <3>1. pos + 1 = b + Len(t) + Len(u) + 2
      BY <1>2, <2>2
    <3> QED
      BY <1>1, <3>1 DEF RecordOf, b, t, u
  <2> QED
    BY <1>6, <2>1, <2>3, <2>4, <2>5 DEF t, u
<1> QED
  BY <1>5, <1>6 DEF HoldersInv, HoldersTypeOK, t, u

-----------------------------------------------------------------------------
(* The steps.                                                              *)

\* A text of which one more character is behind.
LEMMA OneMore ==
  ASSUME NEW s \in Seq(RecordChars), NEW n \in Nat, n < Len(s)
  PROVE  /\ SubSeq(s, 1, n) \in Seq(RecordChars) /\ Len(SubSeq(s, 1, n)) = n
         /\ Append(SubSeq(s, 1, n), s[n + 1]) = SubSeq(s, 1, n + 1)
<1>1. 1 \in 1..Len(s) /\ n + 1 \in 1..Len(s) /\ (n + 1) - 1 = n
  OBVIOUS
<1>2. SubSeq(s, 1, n + 1) = SubSeq(s, 1, n) \o << s[n + 1] >>
  BY <1>1, SubSeqRecursiveSecond
<1>3. \A i \in 1..n : s[i] \in RecordChars
  OBVIOUS
<1>4. SubSeq(s, 1, n) \in Seq(RecordChars) /\ Len(SubSeq(s, 1, n)) = IF 1 <= n THEN n - 1 + 1 ELSE 0
  BY <1>3, SubSeqProperties
<1>5. s[n + 1] \in RecordChars
  BY <1>1
<1>6. Append(SubSeq(s, 1, n), s[n + 1]) = SubSeq(s, 1, n) \o << s[n + 1] >>
  BY <1>4, <1>5, AppendIsConcat
<1>7. (IF 1 <= n THEN n - 1 + 1 ELSE 0) = n
  OBVIOUS
<1> QED
  BY <1>2, <1>4, <1>6, <1>7

LEMMA HoldersInitially == HoldersInit => HoldersInv
<1> SUFFICES ASSUME HoldersInit PROVE HoldersInv
  OBVIOUS
<1>1. items \in Seq(Items)
  <2>1. PICK n \in 0..MaxItems : items \in [1..n -> Items]
    BY DEF HoldersInit
  <2>2. 0..MaxItems \subseteq Nat
    OBVIOUS
  <2> QED
    BY <2>1, <2>2, IsSeq
<1>2. Written(items) \in Seq(Text) /\ (items = << >> => Written(items) = << >>)
  <2>1. Len(items) \in 0..Len(items) /\ (items = << >> => Len(items) = 0)
    BY <1>1
  <2> QED
    BY <1>1, <2>1, WrittenType, WrittenStep DEF Written
<1>3. PICK rest \in {<< >>} \cup {<< LF >> \o w : w \in Words(1)} :
        records = Written(items) \o (IF items = << >> THEN << >> ELSE rest)
  BY DEF HoldersInit
<1> DEFINE behind == IF items = << >> THEN << >> ELSE rest
<1>4. behind \in Seq(Text) /\ (behind = << >> \/ (Len(behind) \in Nat \ {0} /\ behind[1] = LF))
  <2>1. << >> \in Seq(Text)
    OBVIOUS
  <2>2. ASSUME NEW w \in Words(1)
        PROVE  << LF >> \o w \in Seq(Text) /\ Len(<< LF >> \o w) \in Nat \ {0} /\ (<< LF >> \o w)[1] = LF
    <3>1. PICK l \in 0..1 : w \in [1..l -> RecordChars]
      BY DEF Words
    <3>2. w \in Seq(Text)
      <4>1. w \in [1..l -> Text] /\ l \in Nat
        BY <3>1 DEF Text
      <4> QED
        BY <4>1, IsSeq
    <3>3. << LF >> \in Seq(Text) /\ Len(<< LF >>) = 1 /\ << LF >>[1] = LF
      BY DEF Text
    <3> QED
      BY <3>2, <3>3, Joined
  <2> HIDE DEF behind
  <2>3. behind = << >> \/ \E w \in Words(1) : behind = << LF >> \o w
    BY <1>3 DEF behind
  <2>4. CASE behind = << >>
    <3>1. behind \in Seq(Text)
      BY <2>1, <2>4, Zenon
    <3> QED
      BY <2>4, <3>1
  <2>5. CASE \E w \in Words(1) : behind = << LF >> \o w
    <3>1. PICK w \in Words(1) : behind = << LF >> \o w
      BY <2>5
    <3> QED
      BY <2>2, <3>1
  <2> QED
    BY <2>3, <2>4, <2>5
<1>5. /\ records \in Seq(Text) /\ Len(records) = Len(Written(items)) + Len(behind)
      /\ \A n \in 1..Len(Written(items)) : records[n] = Written(items)[n]
      /\ \A n \in 1..Len(behind) : records[Len(Written(items)) + n] = behind[n]
  <2> HIDE DEF behind
  <2> QED
    BY <1>2, <1>3, <1>4, Joined DEF behind
<1>6. HoldersTypeOK
  <2>1. Text = RecordChars \cup {Open, Close, LF}
    BY DEF Text
  <2>2. << >> \in Seq([name : Seq(RecordChars), live : BOOLEAN,
                      strings : {NULL} \cup Seq(RecordChars)])
    OBVIOUS
  <2>3. << >> \in Seq(RecordChars)
    OBVIOUS
  <2>4. pos \in 0..Len(records)
    BY <1>5 DEF HoldersInit
  <2> QED
    BY <1>1, <1>5, <2>1, <2>2, <2>3, <2>4 DEF HoldersInit, HoldersTypeOK
<1>7. TextSaysItems
  <2>1. items = << >> => records = << >>
    <3>1. << >> \o << >> = << >>
      OBVIOUS
    <3> QED
      BY <1>2, <1>3, <3>1
  <2>2. Len(Written(items)) \in Nat
    BY <1>2
  <2>3. At(Len(Written(items)) + 1) \in {NULL, LF}
    <3>1. CASE behind = << >>
      <4>1. ~(Len(Written(items)) + 1 <= Len(records))
        BY <1>5, <2>2, <3>1
      <4> QED
        BY <4>1 DEF At
    <3>2. CASE Len(behind) \in Nat \ {0} /\ behind[1] = LF
      <4>1. Len(Written(items)) + 1 <= Len(records) /\ 1 \in 1..Len(behind)
        BY <1>5, <2>2, <3>2
      <4>2. records[Len(Written(items)) + 1] = LF
        BY <1>5, <3>2, <4>1
      <4> QED
        BY <4>1, <4>2 DEF At
    <3> QED
      BY <1>4, <3>1, <3>2
  <2>4. Len(Written(items)) <= Len(records)
    <3>1. Len(behind) \in Nat
      BY <1>4
    <3> HIDE DEF behind
    <3> QED
      BY <1>5, <2>2, <3>1
  <2> QED
    BY <1>5, <2>1, <2>3, <2>4 DEF TextSaysItems
<1>8. items # << >> => SplitSoFar
  <2> SUFFICES ASSUME items # << >> PROVE SplitSoFar
    OBVIOUS
  <2>1. Made = << NewHolder >> /\ Last = 1
    BY DEF HoldersInit, Made, Last
  <2>2. 1 \in 1..Len(items) /\ 0 \in 0..Len(items)
    BY <1>1
  <2>3. Len(WrittenTo(items)[Last - 1]) = 0
    <3>1. WrittenTo(items)[0] = << >>
      BY <1>1, <2>2, WrittenStep
    <3> QED
      BY <2>1, <3>1
  <2>4. items[1].name \in Seq(RecordChars)
    BY <1>1, <2>2, ItemTypes
  <2>5. SubSeq(items[1].name, 1, 0) = << >>
    BY SubSeqEmpty
  <2>6. Made[1].name = << >> /\ Made[1].live
    BY <2>1 DEF NewHolder
  <2>7. Len(items[1].name) \in Nat
    BY <2>4
  <2>8. pos - Len(WrittenTo(items)[Last - 1]) = 0
    BY <2>3 DEF HoldersInit
  <2>9. 1..Last - 1 = {} /\ Last <= Len(items) /\ KeptIfShort(Last)
    BY <2>1, <2>2, <2>6 DEF KeptIfShort
  <2> DEFINE j == pos - Len(WrittenTo(items)[Last - 1])
  <2>10. j \in 0..Len(items[Last].name) /\ Made[Last].name = SubSeq(items[Last].name, 1, j)
    <3>1. j = 0
      BY <2>8
    <3>2. Last = 1
      BY <2>1
    <3> HIDE DEF j
    <3>3. Made[Last].name = SubSeq(items[Last].name, 1, j)
      BY <2>5, <2>6, <3>1, <3>2, Zenon
    <3> QED
      BY <2>7, <3>1, <3>2, <3>3
  <2> QED
    BY <2>9, <2>10 DEF HoldersInit, SplitSoFar
<1> QED
  BY <1>6, <1>7, <1>8 DEF HoldersInit, HoldersInv

\* The text stays.
LEMMA TextStays ==
  ASSUME TextSaysItems, UNCHANGED <<items, records>>
  PROVE  TextSaysItems'
BY DEF TextSaysItems, At, Written

LEMMA BeginListKeeps == ASSUME HoldersInv, BeginList PROVE HoldersInv'
<1>1. /\ holdersPc = "split" /\ At(pos + 1) = Open
      /\ holders' = Made /\ into' = "list" /\ field' = << >> /\ pos' = pos + 1
      /\ items' = items /\ records' = records /\ holdersPc' = "split"
  BY DEF BeginList
<1>2. HoldersTypeOK /\ TextSaysItems
  BY DEF HoldersInv
<1>3. items # << >> /\ SplitSoFar /\ Last \in 1..Len(items)
  BY <1>1, AheadIsItem
<1> DEFINE t == items[Last].name
           u == items[Last].list
<1>4. pos < Len(records) /\ t \in Seq(RecordChars)
      /\ Len(t) \in Nat /\ Len(u) \in Nat /\ Base(Last) \in Nat /\ Len(records) \in Nat
  BY <1>2, <1>3, Sizes, Ahead
<1>5. into = "name" /\ InName = Len(t)
  <2>1. into \in {"name", "list"}
    BY <1>2 DEF HoldersTypeOK
  <2>2. into = "list" => InList \in 0..Len(u) /\ (InList < Len(u) => At(pos + 1) \in RecordChars)
                         /\ (InList = Len(u) => At(pos + 1) = Close)
    BY <1>3, Ahead
  <2>3. into = "name" => InName \in 0..Len(t) /\ (InName < Len(t) => At(pos + 1) \in RecordChars)
    BY <1>3, Ahead
  <2>4. Open \notin RecordChars /\ Open # Close
    OBVIOUS
  <2>5. into # "list"
    <3>1. InList \in 0..Len(u) => InList < Len(u) \/ InList = Len(u)
      BY <1>4
    <3> QED
      BY <1>1, <2>2, <2>4, <3>1
  <2>6. InName \in 0..Len(t) => InName < Len(t) \/ InName = Len(t)
    BY <1>4
  <2> QED
    BY <1>1, <2>1, <2>3, <2>4, <2>5, <2>6
<1>6. Made[Last].name = t
  <2>1. Made[Last].name = SubSeq(t, 1, Len(t))
    BY <1>3, <1>5, Ahead
  <2> QED
    BY <1>4, <2>1, SubSeqFull
<1>7. Made' = Made /\ Last' = Last
  BY <1>1, <1>2, MadeIs DEF Made, Last
<1>8. HoldersTypeOK'
  <2>1. holders' \in Seq(Holder) /\ field' \in Seq(RecordChars)
    BY <1>1, <1>2, MadeIs
  <2>2. pos' \in 0..Len(records)
    BY <1>1, <1>2, <1>4 DEF HoldersTypeOK
  <2> QED
    BY <1>1, <1>2, <2>1, <2>2 DEF HoldersTypeOK, Holder
<1>9. SplitSoFar'
  <2>1. \A n \in 1..Last - 1 : Complete(n)'
    BY <1>1, <1>3, <1>7 DEF SplitSoFar, Complete, KeptIfShort
  <2>2. KeptIfShort(Last)'
    BY <1>3, <1>7 DEF SplitSoFar, KeptIfShort
  <2> DEFINE l == (pos + 1) - Base(Last) - Len(t) - 1
  <2>3. l = 0
    <3>1. pos - Base(Last) = Len(t) /\ pos \in Nat
      BY <1>2, <1>5 DEF InName, HoldersTypeOK
    <3> QED
      BY <1>4, <3>1
  <2>4. l \in 0..Len(u) /\ << >> = SubSeq(u, 1, l)
    <3>1. SubSeq(u, 1, 0) = << >>
      BY SubSeqEmpty
    <3> HIDE DEF l
    <3> QED
      BY <1>4, <2>3, <3>1
  <2>5. Last <= Len(items)
    BY <1>3 DEF SplitSoFar
  <2> HIDE DEF l
  <2>6. l = pos' - Len(WrittenTo(items')[Last' - 1]) - Len(items'[Last'].name) - 1
    BY <1>1, <1>7 DEF l, Base
  <2> QED
    BY <1>1, <1>6, <1>7, <2>1, <2>2, <2>4, <2>5, <2>6 DEF SplitSoFar
<1>10. TextSaysItems'
  BY <1>1, <1>2, TextStays
<1> QED
  BY <1>1, <1>3, <1>8, <1>9, <1>10 DEF HoldersInv

LEMMA EndListKeeps == ASSUME HoldersInv, EndList PROVE HoldersInv'
<1>1. /\ holdersPc = "split" /\ At(pos + 1) = Close
      /\ into' = "name" /\ pos' = pos + 1
      /\ items' = items /\ records' = records /\ field' = field
  BY DEF EndList
<1>2. HoldersTypeOK /\ TextSaysItems
  BY DEF HoldersInv
<1>3. items # << >> /\ SplitSoFar /\ Last \in 1..Len(items)
  BY <1>1, AheadIsItem
<1> DEFINE t == items[Last].name
           u == items[Last].list
<1>4. pos < Len(records) /\ u \in Seq(RecordChars)
      /\ Len(t) \in Nat /\ Len(u) \in Nat /\ Len(records) \in Nat
  BY <1>2, <1>3, Sizes, Ahead
<1>5. into = "list" /\ InList = Len(u)
  <2>1. into \in {"name", "list"}
    BY <1>2 DEF HoldersTypeOK
  <2>2. into = "list" => InList \in 0..Len(u) /\ (InList < Len(u) => At(pos + 1) \in RecordChars)
    BY <1>3, Ahead
  <2>3. into = "name" => InName \in 0..Len(t) /\ (InName < Len(t) => At(pos + 1) \in RecordChars)
                         /\ (InName = Len(t) => At(pos + 1) = Open)
    BY <1>3, Ahead
  <2>4. Close \notin RecordChars /\ Open # Close
    OBVIOUS
  <2>5. into # "name"
    <3>1. InName \in 0..Len(t) => InName < Len(t) \/ InName = Len(t)
      BY <1>4
    <3> QED
      BY <1>1, <2>3, <2>4, <3>1
  <2>6. InList \in 0..Len(u) => InList < Len(u) \/ InList = Len(u)
    BY <1>4
  <2> QED
    BY <1>1, <2>1, <2>2, <2>4, <2>5, <2>6
<1>6. Made[Last].name = t /\ field = u /\ pos + 1 = Len(WrittenTo(items)[Last])
  <2>1. /\ Made[Last].name = t /\ field = SubSeq(u, 1, Len(u))
        /\ pos + 1 = Len(WrittenTo(items)[Last])
    BY <1>3, <1>5, Ahead
  <2> QED
    BY <1>4, <2>1, SubSeqFull
<1>7. /\ WithList \in Seq(Holder) /\ Len(WithList) = Last /\ WithList # << >>
      /\ \A n \in 1..Last - 1 : WithList[n] = Made[n]
      /\ WithList[Last] = [Made[Last] EXCEPT !.strings = field]
      /\ Last \in Nat \ {0}
  <2>1. Made \in Seq(Holder) /\ Last \in 1..Len(Made) /\ Made[Last] \in Holder /\ Len(Made) = Last
        /\ Last \in Nat
    BY <1>2, MadeIs
  <2>2. [Made[Last] EXCEPT !.strings = field] \in Holder
    BY <1>2, <2>1 DEF Holder, HoldersTypeOK
  <2>3. WithList = [Made EXCEPT ![Last] = [Made[Last] EXCEPT !.strings = field]]
    BY DEF WithList
  <2> QED
    BY <2>1, <2>2, <2>3
<1> DEFINE Whole(h, n) == /\ h[n].name = items[n].name /\ h[n].strings = items[n].list
                          /\ h[n].live \/ Block <= Len(h[n].name)
<1>8. \A n \in 1..Last : Whole(WithList, n)
  <2>1. ASSUME NEW n \in 1..Last - 1 PROVE Whole(WithList, n)
    BY <1>3, <1>7, <2>1 DEF SplitSoFar, Complete, KeptIfShort
  <2>2. Whole(WithList, Last)
    <3>1. Made[Last] \in Holder
      BY <1>2, MadeIs
    <3>2. /\ WithList[Last].name = Made[Last].name /\ WithList[Last].strings = field
          /\ WithList[Last].live = Made[Last].live
      BY <1>7, <3>1 DEF Holder
    <3>3. Made[Last].live \/ Block <= Len(Made[Last].name)
      BY <1>3 DEF SplitSoFar, KeptIfShort
    <3> QED
      BY <1>6, <3>2, <3>3
  <2>3. \A n \in 1..Last : n \in 1..Last - 1 \/ n = Last
    BY <1>7
  <2> QED
    BY <2>1, <2>2, <2>3
<1> HIDE DEF Whole
<1>9. pos' \in 0..Len(records)
  BY <1>1, <1>2, <1>4 DEF HoldersTypeOK
<1>10. TextSaysItems'
  BY <1>1, <1>2, TextStays
<1>11. At(pos + 2) \in {NULL, LF} <=> Last = Len(items)
  <2>1. pos + 2 = Len(WrittenTo(items)[Last]) + 1
    <3>1. pos + 2 = (pos + 1) + 1
      BY <1>2 DEF HoldersTypeOK
    <3> QED
      BY <1>6, <3>1
  <2> QED
    BY <1>2, <1>3, <2>1, WhatFollows
<1>12. CASE At(pos + 2) \in {NULL, LF}
  <2>1. holdersPc' = "used" /\ holders' = WithList
    BY <1>12 DEF EndList
  <2>2. HoldersTypeOK'
    BY <1>1, <1>2, <1>7, <1>9, <2>1 DEF HoldersTypeOK, Holder
  <2>3. Made' = WithList
    BY <1>7, <2>1 DEF Made
  <2>4. \A n \in 1..Len(items) : Complete(n)'
    BY <1>1, <1>8, <1>11, <1>12, <2>3 DEF Complete, KeptIfShort, Whole
  <2>5. Len(holders') = Len(items)
    BY <1>7, <1>11, <1>12, <2>1
  <2> QED
    BY <1>1, <1>10, <2>1, <2>2, <2>4, <2>5 DEF HoldersInv
<1>13. CASE At(pos + 2) \notin {NULL, LF}
  <2>1. holdersPc' = "split" /\ holders' = Append(WithList, NewHolder)
    BY <1>1, <1>13 DEF EndList
  <2>2. NewHolder \in Holder
    BY <1>2, MadeIs
  <2>3. /\ holders' \in Seq(Holder) /\ Len(holders') = Last + 1 /\ holders' # << >>
        /\ \A n \in 1..Last : holders'[n] = WithList[n]
        /\ holders'[Last + 1] = NewHolder
    BY <1>7, <2>1, <2>2
  <2>4. HoldersTypeOK'
    BY <1>1, <1>2, <1>9, <2>1, <2>3 DEF HoldersTypeOK, Holder
  <2>5. Made' = holders' /\ Last' = Last + 1
    BY <2>3 DEF Made, Last
  <2>6. \A n \in 1..Last : Complete(n)'
    BY <1>1, <1>8, <2>3, <2>5 DEF Complete, KeptIfShort, Whole
  <2>7. Last + 1 <= Len(items) /\ Last + 1 - 1 = Last /\ Last + 1 \in 1..Len(items)
    BY <1>2, <1>3, <1>7, <1>11, <1>13 DEF HoldersTypeOK
  <2>0. PICK k \in Nat : k = Last
    BY <1>7
  <2>8. KeptIfShort(k + 1)'
    BY <2>0, <2>3, <2>5 DEF KeptIfShort, NewHolder
  <2> DEFINE j == (pos + 1) - Len(WrittenTo(items)[Last])
  <2>9. j = 0
    <3>1. pos + 1 \in Int
      BY <1>2 DEF HoldersTypeOK
    <3> QED
      BY <1>6, <3>1
  <2>10. j \in 0..Len(items[Last + 1].name) /\ << >> = SubSeq(items[Last + 1].name, 1, j)
    <3>1. SubSeq(items[Last + 1].name, 1, 0) = << >>
      BY SubSeqEmpty
    <3>2. Len(items[Last + 1].name) \in Nat
      BY <1>2, <2>7, Sizes
    <3> HIDE DEF j
    <3> QED
      BY <2>9, <3>1, <3>2
  <2>11. Made'[Last + 1].name = << >>
    BY <2>3, <2>5 DEF NewHolder
  <2>12. SplitSoFar'
    <3>1. Last' = k + 1 /\ Last' - 1 = k /\ k + 1 <= Len(items)
      BY <2>0, <2>5, <2>7
    <3>2. \A n \in 1..k : Complete(n)'
      BY <2>0, <2>6
    <3>3. KeptIfShort(Last)'
      BY <2>8, <3>1 DEF KeptIfShort
    <3>4. j = pos' - Len(WrittenTo(items')[Last' - 1])
      BY <1>1, <2>0, <3>1
    <3>5. j \in 0..Len(items'[Last'].name) /\ Made'[Last'].name = SubSeq(items'[Last'].name, 1, j)
      BY <1>1, <2>0, <2>10, <2>11, <3>1
    <3> HIDE DEF j
    <3> QED
      BY <1>1, <3>1, <3>2, <3>3, <3>4, <3>5 DEF SplitSoFar
  <2> QED
    BY <1>1, <1>3, <1>10, <2>1, <2>4, <2>12 DEF HoldersInv
<1> QED
  BY <1>12, <1>13

LEMMA AddCharKeeps == ASSUME HoldersInv, AddChar PROVE HoldersInv'
<1>1. /\ holdersPc = "split" /\ pos < Len(records) /\ At(pos + 1) \notin {Open, Close}
      /\ into' = into /\ pos' = pos + 1
      /\ items' = items /\ records' = records /\ holdersPc' = "split"
  BY DEF AddChar
<1>2. HoldersTypeOK /\ TextSaysItems
  BY DEF HoldersInv
<1>3. items # << >> /\ SplitSoFar /\ Last \in 1..Len(items)
  BY <1>1, AheadIsItem
<1> DEFINE t == items[Last].name
           u == items[Last].list
<1>4. /\ t \in Seq(RecordChars) /\ u \in Seq(RecordChars)
      /\ Len(t) \in Nat /\ Len(u) \in Nat /\ Len(records) \in Nat
      /\ Base(Last) \in Nat /\ pos \in Nat /\ Last \in Nat
  BY <1>2, <1>3, Sizes, MadeIs DEF HoldersTypeOK
<1>5. pos' \in 0..Len(records) /\ TextSaysItems'
  BY <1>1, <1>2, <1>4, TextStays
<1>6. CASE into = "name" /\ AddToName(At(pos + 1)) /\ UNCHANGED field
  <2>1. InName \in 0..Len(t) /\ InName # Len(t)
    BY <1>1, <1>3, <1>6, Ahead
  <2>2. InName \in Nat /\ InName < Len(t)
    BY <1>4, <2>1
  <2>3. /\ At(pos + 1) = t[InName + 1] /\ At(pos + 1) \in RecordChars
        /\ Made[Last].name = SubSeq(t, 1, InName)
    BY <1>3, <1>6, <2>2, Ahead
  <2>4. /\ Len(Made[Last].name) = InName
        /\ Append(Made[Last].name, At(pos + 1)) = SubSeq(t, 1, InName + 1)
    BY <1>4, <2>2, <2>3, OneMore
  <2>5. PICK moves \in BOOLEAN :
          /\ moves => Len(Made[Last].name) + 2 > Block
          /\ holders' = [Made EXCEPT ![Last] = [name    |-> Append(@.name, At(pos + 1)),
                                                live    |-> @.live /\ ~moves,
                                                strings |-> @.strings]]
    BY <1>6 DEF AddToName
  <2>6. Made \in Seq(Holder) /\ Last \in 1..Len(Made) /\ Len(Made) = Last /\ Made[Last] \in Holder
    BY <1>2, MadeIs
  <2> DEFINE h == [name |-> Append(Made[Last].name, At(pos + 1)),
                   live |-> Made[Last].live /\ ~moves, strings |-> Made[Last].strings]
  <2>7. h \in Holder
    <3>1. Append(Made[Last].name, At(pos + 1)) \in Seq(RecordChars)
      <4>1. Made[Last].name \in Seq(RecordChars)
        BY <2>6 DEF Holder
      <4> QED
        BY <2>3, <4>1
    <3>2. Made[Last].strings \in {NULL} \cup Seq(RecordChars)
      BY <2>6 DEF Holder
    <3>3. (Made[Last].live /\ ~moves) \in BOOLEAN
      OBVIOUS
    <3> QED
      BY <3>1, <3>2, <3>3 DEF Holder
  <2>8. holders' = [Made EXCEPT ![Last] = h]
    BY <2>5, <2>6
  <2>9. /\ h.name = SubSeq(t, 1, InName + 1)
        /\ h.live \/ Block <= Len(h.name)
    <3>1. h.name = SubSeq(t, 1, InName + 1)
      BY <2>4
    <3>2. Len(h.name) = InName + 1
      <4>1. Made[Last].name \in Seq(RecordChars)
        BY <2>6 DEF Holder
      <4> QED
        BY <2>3, <2>4, <4>1
    <3>3. Made[Last].live \/ Block <= InName
      BY <1>3, <2>4 DEF SplitSoFar, KeptIfShort
    <3>4. moves => InName + 2 > Block
      BY <2>4, <2>5
    <3>5. Block \in Nat
      OBVIOUS
    <3>6. (~Made[Last].live \/ moves) => Block <= InName + 1
      BY <2>2, <3>3, <3>4, <3>5
    <3>7. h.live = (Made[Last].live /\ ~moves)
      OBVIOUS
    <3>8. h.live \/ Block <= InName + 1
      BY <3>6, <3>7, Zenon
    <3> HIDE DEF h
    <3> QED
      BY <3>1, <3>2, <3>8
  <2> HIDE DEF h
  <2>10. /\ holders' \in Seq(Holder) /\ Len(holders') = Last /\ holders' # << >>
         /\ holders'[Last] = h
         /\ \A n \in 1..Last - 1 : holders'[n] = Made[n]
    BY <1>4, <2>6, <2>7, <2>8
  <2>11. Made' = holders' /\ Last' = Last
    BY <2>10 DEF Made, Last
  <2>12. HoldersTypeOK'
    BY <1>1, <1>2, <1>5, <1>6, <2>10 DEF HoldersTypeOK, Holder
  <2>13. \A n \in 1..Last - 1 : Complete(n)'
    BY <1>1, <1>3, <2>10, <2>11 DEF SplitSoFar, Complete, KeptIfShort
  <2>14. KeptIfShort(Last)'
    BY <2>9, <2>10, <2>11 DEF KeptIfShort
  <2> DEFINE j == InName + 1
  <2>15. j \in 0..Len(t) /\ j = pos' - Len(WrittenTo(items')[Last' - 1])
    <3>1. j = (pos + 1) - Base(Last)
      BY <1>4 DEF InName
    <3>2. j \in 0..Len(t)
      BY <1>4, <2>2
    <3> QED
      BY <1>1, <2>11, <3>1, <3>2 DEF Base
  <2>16. Made'[Last'].name = SubSeq(t, 1, j)
    BY <2>9, <2>10, <2>11
  <2>17. Last <= Len(items)
    BY <1>3 DEF SplitSoFar
  <2> HIDE DEF j
  <2>18. SplitSoFar'
    BY <1>1, <1>6, <2>11, <2>13, <2>14, <2>15, <2>16, <2>17 DEF SplitSoFar
  <2> QED
    BY <1>1, <1>3, <1>5, <2>12, <2>18 DEF HoldersInv
<1>7. CASE into = "list" /\ field' = Append(field, At(pos + 1)) /\ UNCHANGED holders
  <2>1. InList \in 0..Len(u) /\ InList # Len(u)
    BY <1>1, <1>3, <1>7, Ahead
  <2>2. InList \in Nat /\ InList < Len(u)
    BY <1>4, <2>1
  <2>3. /\ At(pos + 1) = u[InList + 1] /\ At(pos + 1) \in RecordChars
        /\ field = SubSeq(u, 1, InList) /\ Made[Last].name = t
    BY <1>3, <1>7, <2>2, Ahead
  <2>4. field' = SubSeq(u, 1, InList + 1)
    BY <1>4, <1>7, <2>2, <2>3, OneMore
  <2>5. Made' = Made /\ Last' = Last
    BY <1>7 DEF Made, Last
  <2>6. field' \in Seq(RecordChars)
    BY <1>2, <1>7, <2>3 DEF HoldersTypeOK
  <2>7. HoldersTypeOK'
    BY <1>1, <1>2, <1>5, <1>7, <2>6 DEF HoldersTypeOK
  <2>8. (\A n \in 1..Last - 1 : Complete(n)') /\ KeptIfShort(Last)'
    BY <1>1, <1>3, <2>5 DEF SplitSoFar, Complete, KeptIfShort
  <2> DEFINE l == InList + 1
  <2>9. l \in 0..Len(u) /\ l = pos' - Len(WrittenTo(items')[Last' - 1]) - Len(items'[Last'].name) - 1
    <3>1. l = (pos + 1) - Base(Last) - Len(t) - 1
      BY <1>4 DEF InName, InList
    <3>2. l \in 0..Len(u)
      BY <1>4, <2>2
    <3> HIDE DEF l
    <3> QED
      BY <1>1, <2>5, <3>1, <3>2 DEF Base
  <2>10. Last <= Len(items)
    BY <1>3 DEF SplitSoFar
  <2> HIDE DEF l
  <2>11. field' = SubSeq(u, 1, l)
    BY <2>4 DEF l
  <2>12. SplitSoFar'
    BY <1>1, <1>7, <2>3, <2>5, <2>8, <2>9, <2>10, <2>11 DEF SplitSoFar
  <2> QED
    BY <1>1, <1>3, <1>5, <2>7, <2>12 DEF HoldersInv
<1> QED
  BY <1>6, <1>7 DEF AddChar

LEMMA TextEndsKeeps == ASSUME HoldersInv, TextEnds PROVE HoldersInv'
<1>1. /\ holdersPc = "split" /\ pos = Len(records) /\ holdersPc' = "used"
      /\ UNCHANGED <<items, records, pos, holders, into, field>>
  BY DEF TextEnds
<1>2. HoldersTypeOK /\ TextSaysItems
  BY DEF HoldersInv
<1>3. items = << >> /\ holders = << >>
  <2>1. items # << >> => FALSE
    <3> SUFFICES ASSUME items # << >> PROVE FALSE
      OBVIOUS
    <3>1. SplitSoFar /\ Last <= Len(items)
      BY <1>1 DEF HoldersInv, SplitSoFar
    <3>2. Last \in 1..Len(items)
      BY <1>2, <3>1, MadeIs DEF HoldersTypeOK
    <3>3. pos < Len(records)
      BY <3>1, <3>2, Ahead
    <3> QED
      BY <1>1, <1>2, <3>3 DEF HoldersTypeOK
  <2> QED
    BY <1>1, <2>1 DEF HoldersInv
<1>4. TextSaysItems'
  BY <1>1, <1>2, TextStays
<1>5. HoldersTypeOK'
  BY <1>1, <1>2 DEF HoldersTypeOK
<1>6. Len(holders') = Len(items') /\ 1..Len(items') = {}
  BY <1>1, <1>3
<1> QED
  BY <1>1, <1>4, <1>5, <1>6 DEF HoldersInv

LEMMA FreeHoldersKeeps == ASSUME HoldersInv, FreeHolders PROVE HoldersInv'
<1>1. TextSaysItems'
  BY TextStays DEF FreeHolders, HoldersInv
<1>2. HoldersTypeOK'
  <2>1. << >> \in Seq([name : Seq(RecordChars), live : BOOLEAN,
                      strings : {NULL} \cup Seq(RecordChars)])
    OBVIOUS
  <2> QED
    BY <2>1 DEF FreeHolders, HoldersInv, HoldersTypeOK
<1> QED
  BY <1>1, <1>2 DEF FreeHolders, HoldersInv

LEMMA HoldersKeep == HoldersInv /\ [HoldersNext]_holdersVars => HoldersInv'
<1> SUFFICES ASSUME HoldersInv, [HoldersNext]_holdersVars PROVE HoldersInv'
  OBVIOUS
<1>1. CASE UNCHANGED holdersVars
  <2>1. UNCHANGED <<items, records, pos, holders, into, field, holdersPc>>
    BY <1>1 DEF holdersVars
  <2>2. TextSaysItems' /\ HoldersTypeOK'
    BY <2>1, TextStays DEF HoldersInv, HoldersTypeOK
  <2>3. Made' = Made /\ Last' = Last
    BY <2>1 DEF Made, Last
  <2>4. SplitSoFar' <=> SplitSoFar
    BY <2>1, <2>3 DEF SplitSoFar, Complete, KeptIfShort
  <2>5. \A n : Complete(n)' <=> Complete(n)
    BY <2>1, <2>3 DEF Complete, KeptIfShort
  <2> QED
    BY <2>1, <2>2, <2>4, <2>5 DEF HoldersInv
<1> QED
  BY <1>1, BeginListKeeps, EndListKeeps, AddCharKeeps, TextEndsKeeps, FreeHoldersKeeps
     DEF HoldersNext

\* The inductive invariant of the splitter of records, for every configuration.
THEOREM HoldersInvariant == HoldersSpec => []HoldersInv
BY HoldersInitially, HoldersKeep, PTL DEF HoldersSpec

\* Type correctness of the splitter of records.
THEOREM HoldersTypeCorrect == HoldersSpec => []HoldersTypeOK
<1>1. HoldersInv => HoldersTypeOK
  BY DEF HoldersInv
<1> QED
  BY <1>1, HoldersInvariant, PTL

\* config_split_string_holders gives back the records that were written, each
\* with its name unless realloc moved it away, which it cannot do to a name
\* that fits into the smallest block.
THEOREM RecordsComeBack == HoldersSpec => []RoundTrip
<1>1. HoldersInv => RoundTrip
  <2> SUFFICES ASSUME HoldersInv, holdersPc = "used", NEW n \in 1..Len(items)
               PROVE  /\ holders[n].strings = items[n].list
                      /\ holders[n].live => holders[n].name = items[n].name
                      /\ Len(items[n].name) < Block => holders[n].live
    BY DEF RoundTrip, HoldersInv
  <2>1. Len(holders) = Len(items) /\ Complete(n)
    BY DEF HoldersInv
  <2>2. holders # << >>
    BY <2>1 DEF HoldersInv, HoldersTypeOK
  <2>3. Made = holders
    BY <2>2 DEF Made
  <2>4. Len(items[n].name) \in Nat
    BY Sizes DEF HoldersInv
  <2> QED
    BY <2>1, <2>3, <2>4 DEF Complete, KeptIfShort
<1> QED
  BY <1>1, HoldersInvariant, PTL

=============================================================================
