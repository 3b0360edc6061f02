------------------------------ MODULE Scramble ------------------------------
(***************************************************************************)
(* The texts of the configuration in the binary: scripts/xor.sh scrambles  *)
(* them when init is built, config_descramble_string (config.c) undoes it. *)
(* A byte is the set of its bits that are 1.                               *)
(***************************************************************************)
EXTENDS Integers, Sequences

CONSTANTS
  Bits,   \* the bits of a byte
  KeyLen  \* the length of gac_skey

ASSUME ScrambleAssumption == KeyLen \in Nat

Bytes == SUBSET Bits
NulByte == {}

VARIABLES
  plain,     \* a text of the configuration; fixed
  gac_skey,  \* the bytes that "xor.sh -k" draws: 1 to 255; fixed
  gac,       \* the scrambled text in the binary, with the NUL of xor.sh
  i,         \* bytes that are descrambled
  pc_out     \* calloc'ed: what was not written is NUL

scrambleVars == <<plain, gac_skey, gac, i, pc_out>>

\* "$((... ^ ...))"
Xor(x, y) == (x \ y) \cup (y \ x)

\* "printf 0" comes last.
Scrambled(p, k) == Append([n \in DOMAIN p |-> Xor(p[n], k[n])], NulByte)

ScrambleInit ==
  /\ plain \in UNION {[1..n -> Bytes \ {NulByte}] : n \in 0..KeyLen}
  /\ gac_skey \in [1..KeyLen -> Bytes \ {NulByte}]
  /\ gac = Scrambled(plain, gac_skey)
  /\ i = 0
  /\ pc_out = [n \in 1..Len(plain) + 1 |-> NulByte]

-----------------------------------------------------------------------------
(* config_descramble_string.                                               *)

\* "~((x_in & y_in) | (~x_in & ~y_in))"
Descramble(x, y) ==
  Bits \ ((x \cap y) \cup ((Bits \ x) \cap (Bits \ y)))

\* The length comes with the text.  (MUTANT: its end is a NUL.)
ToDoUntilNul == gac[i + 1] # NulByte
ToDo == i < Len(plain)

DescrambleByte ==
  /\ ToDo
  /\ pc_out' = [pc_out EXCEPT ![i + 1] = Descramble(gac[i + 1], gac_skey[i + 1])]
  /\ i' = i + 1
  /\ UNCHANGED <<plain, gac_skey, gac>>

ScrambleSpec ==
  ScrambleInit /\ [][DescrambleByte]_scrambleVars /\ WF_scrambleVars(DescrambleByte)

-----------------------------------------------------------------------------

\* In the end there is what the configuration says, with a NUL behind it, also
\* when the scrambled text has a NUL in its middle because a byte of it equals
\* its byte of the key ("so that we don't have to rely on NULL termination in
\* XOR'ed strings").
Descrambled == <>[](pc_out = Append(plain, NulByte))

\* The inductive invariant: the first i bytes are what the configuration says,
\* the rest is as calloc left it.
ScrambleInv ==
  /\ Len(plain) <= KeyLen
  /\ plain \in [1..Len(plain) -> Bytes \ {NulByte}]
  /\ gac_skey \in [1..KeyLen -> Bytes \ {NulByte}]
  /\ gac = Scrambled(plain, gac_skey)
  /\ i \in 0..Len(plain)
  /\ pc_out = [n \in 1..Len(plain) + 1 |-> IF n <= i THEN plain[n] ELSE NulByte]

=============================================================================
