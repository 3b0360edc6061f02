---------------------------- MODULE PromptProps -----------------------------
(***************************************************************************)
(* The properties of reading a key.                                        *)
(***************************************************************************)
EXTENDS PromptString

\* The variables have their types.
PromptTypeOK ==
  /\ typed \in Seq(Chars \cup {NL, NUL})
  /\ closed \in BOOLEAN
  /\ got \in 0..Len(typed)
  /\ pc \in {"busy", "reading", "returned"}
  /\ start \in 0..got
  /\ key \in Seq(Chars \cup {NL, NUL, EOF})
  /\ size \in Nat

\* A key that is returned is what was typed since the prompt, up to its first
\* end: a NUL or a newline that is not its first character.  In particular
\* nothing that was typed ahead is lost or gets into the wrong key, a key is
\* never read from a closed terminal, and an empty line does not count as an
\* attempt; but it makes the next line begin with a newline.
KeyIsLine ==
  pc = "returned" =>
    /\ got = start + Len(key) + 1
    /\ typed[got] = NUL \/ (typed[got] = NL /\ key # << >>)
    /\ \A n \in 1..Len(key) : /\ key[n] = typed[start + n]
                              /\ key[n] # NUL
                              /\ n > 1 => key[n] # NL

\* The two writes of the loop, at the index and behind it, are inside of the
\* buffer as it is when they happen.
InBounds == pc = "reading" => Len(key) < size

\* There is an end to come, at the n-th character that was typed.
EndsAt(n) ==
  /\ n \in got + 1..Len(typed)
  /\ typed[n] = NUL \/ (typed[n] = NL /\ (n > got + 1 \/ key # << >>))
LineThere == \E n \in got + 1..Len(typed) : EndsAt(n)

\* Whoever types a key to its end is answered.
PromptAnswered == pc = "reading" /\ LineThere ~> pc = "returned"

\* What makes it so, but for fairness: an end to come stays one until the key is
\* returned, whatever is typed behind it and also when the terminal closes, and
\* every character that is read is one on the way to it.
PromptAdvances ==
  [][\A n \in 1..Len(typed) :
       pc = "reading" /\ EndsAt(n) =>
         /\ pc' = "returned" \/ (pc' = "reading" /\ EndsAt(n)')
         /\ got' = got + 1 \/ UNCHANGED <<got, key>>]_promptVars

-----------------------------------------------------------------------------

\* The inductive invariant: what is read so far.

\* What the n-th call of getchar returns.
Stored(n) == IF n <= Len(typed) THEN typed[n] ELSE EOF

ReadSoFar ==
  pc = "reading" =>
    /\ \/ start + Len(key) = got
       \/ closed /\ got = Len(typed) /\ start + Len(key) > got
    /\ \A n \in 1..Len(key) : /\ key[n] = Stored(start + n)
                              /\ key[n] # NUL
                              /\ n > 1 => key[n] # NL

PromptInv ==
  /\ PromptTypeOK
  /\ size = Len(key) + 1
  /\ ReadSoFar
  /\ KeyIsLine

=============================================================================
