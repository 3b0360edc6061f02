---------------------------- MODULE CallsProofs -----------------------------
(***************************************************************************)
(* Proofs about the calls of MCCalls: the descrambling, whose invariant is *)
(* proved here, and all of them together.  A step of one call leaves the   *)
(* state of the others as it was, and what was not called stands at one of *)
(* its initial states or has returned from a call with an empty text; so   *)
(* each call keeps the invariant of its own module whichever was called.   *)
(***************************************************************************)
EXTENDS MCCalls, WalkProofs, DevicesProofs, SysProofs, TextProofs

-----------------------------------------------------------------------------
(* The descrambling.                                                       *)

\* The negated equivalence of config.c undoes the "^" of xor.sh, for every byte
\* of the text and every byte of the key.
LEMMA XorUndone ==
  ASSUME NEW p \in Bytes, NEW q \in Bytes
  PROVE  Descramble(Xor(p, q), q) = p
BY DEF Bytes, Descramble, Xor

LEMMA ScrambleInitially == ScrambleInit => ScrambleInv
<1> SUFFICES ASSUME ScrambleInit PROVE ScrambleInv
  OBVIOUS
<1>1. PICK n \in 0..KeyLen : plain \in [1..n -> Bytes \ {NulByte}]
  BY DEF ScrambleInit
<1>2. Len(plain) = n /\ n \in Nat /\ n <= KeyLen
  BY <1>1, ScrambleAssumption
<1>3. plain \in [1..Len(plain) -> Bytes \ {NulByte}]
  BY <1>1, <1>2
<1>4. pc_out = [m \in 1..Len(plain) + 1 |-> IF m <= i THEN plain[m] ELSE NulByte]
  <2>1. i = 0
    BY DEF ScrambleInit
  <2>2. \A m \in 1..Len(plain) + 1 : ~(m <= i)
    BY <2>1, <1>2
  <2> QED
    BY <2>2 DEF ScrambleInit
<1> QED
  BY <1>2, <1>3, <1>4 DEF ScrambleInit, ScrambleInv

\* What the first i steps wrote stays, and step i + 1 writes byte i + 1 of the
\* configuration.
LEMMA ByteKeeps ==
  ASSUME ScrambleInv, DescrambleByte
  PROVE  ScrambleInv'
<1> USE ScrambleAssumption
<1>1. plain \in [1..Len(plain) -> Bytes \ {NulByte}] /\ Len(plain) \in Nat
  <2>1. Len(plain) \in Nat
    BY DEF ScrambleInv
  <2> QED
    BY <2>1 DEF ScrambleInv
<1>2. i \in 0..Len(plain) /\ i < Len(plain) /\ i + 1 \in 1..Len(plain)
  BY <1>1 DEF ScrambleInv, DescrambleByte, ToDo
<1>3. plain[i + 1] \in Bytes /\ gac_skey[i + 1] \in Bytes
  BY <1>1, <1>2 DEF ScrambleInv
<1>4. gac[i + 1] = Xor(plain[i + 1], gac_skey[i + 1])
  <2>1. gac = Append([n \in 1..Len(plain) |-> Xor(plain[n], gac_skey[n])], NulByte)
    BY <1>1 DEF ScrambleInv, Scrambled
  <2> QED
    BY <1>1, <1>2, <2>1
<1>5. pc_out' = [pc_out EXCEPT ![i + 1] = plain[i + 1]]
  BY <1>3, <1>4, XorUndone DEF DescrambleByte
<1>6. /\ i' = i + 1
      /\ UNCHANGED <<plain, gac_skey, gac>>
  BY DEF DescrambleByte
<1>7. pc_out' = [n \in 1..Len(plain) + 1 |-> IF n <= i + 1 THEN plain[n] ELSE NulByte]
  <2>1. pc_out = [n \in 1..Len(plain) + 1 |-> IF n <= i THEN plain[n] ELSE NulByte]
    BY DEF ScrambleInv
  <2>2. DOMAIN pc_out = 1..Len(plain) + 1
    BY <2>1
  <2>3. pc_out' = [n \in 1..Len(plain) + 1 |-> IF n = i + 1 THEN plain[i + 1] ELSE pc_out[n]]
    BY <1>5, <2>2
  <2>4. ASSUME NEW n \in 1..Len(plain) + 1
        PROVE  (IF n = i + 1 THEN plain[i + 1] ELSE pc_out[n])
                 = (IF n <= i + 1 THEN plain[n] ELSE NulByte)
    BY <1>1, <1>2, <2>1
  <2> QED
    BY <2>3, <2>4
<1> QED
  BY <1>1, <1>2, <1>6, <1>7 DEF ScrambleInv, Scrambled

LEMMA ScrambleStepKeeps == ScrambleInv /\ [DescrambleByte]_scrambleVars => ScrambleInv'
<1>1. ASSUME ScrambleInv, UNCHANGED scrambleVars PROVE ScrambleInv'
  BY <1>1 DEF ScrambleInv, scrambleVars, Scrambled
<1> QED
  BY <1>1, ByteKeeps

\* The inductive invariant of the descrambling.
THEOREM ScrambleInvariant == ScrambleSpec => []ScrambleInv
<1>1. ScrambleInit => ScrambleInv
  BY ScrambleInitially
<1>2. ScrambleInv /\ [DescrambleByte]_scrambleVars => ScrambleInv'
  BY ScrambleStepKeeps
<1> QED
  BY <1>1, <1>2, PTL DEF ScrambleSpec

\* config_descramble_string: once it went through the length it was given, there
\* is what the configuration says, with a NUL behind it, for every text, every
\* key at least as long, and every width of a byte.
THEOREM DescrambledAtEnd ==
  ScrambleSpec => [](i = Len(plain) => pc_out = Append(plain, NulByte))
<1>1. ScrambleInv => (i = Len(plain) => pc_out = Append(plain, NulByte))
  <2> SUFFICES ASSUME ScrambleInv, i = Len(plain)
               PROVE  pc_out = Append(plain, NulByte)
    OBVIOUS
  <2>1. Len(plain) \in Nat /\ plain \in [1..Len(plain) -> Bytes \ {NulByte}]
    <3>1. Len(plain) \in Nat
      BY DEF ScrambleInv
    <3> QED
      BY <3>1 DEF ScrambleInv
  <2>2. pc_out = [n \in 1..Len(plain) + 1 |->
                    IF n <= Len(plain) THEN plain[n] ELSE NulByte]
    BY DEF ScrambleInv
  <2>3. Append(plain, NulByte) = [n \in 1..Len(plain) + 1 |->
                                    IF n <= Len(plain) THEN plain[n] ELSE NulByte]
    <3>1. Append(plain, NulByte) = [n \in 1..Len(plain) + 1 |->
                                     IF n = Len(plain) + 1 THEN NulByte ELSE plain[n]]
      <4>1. plain \in Seq(Bytes)
        BY <2>1
      <4>2. /\ Append(plain, NulByte) \in Seq(Bytes)
            /\ Len(Append(plain, NulByte)) = Len(plain) + 1
            /\ \A n \in 1..Len(plain) : Append(plain, NulByte)[n] = plain[n]
            /\ Append(plain, NulByte)[Len(plain) + 1] = NulByte
        BY <4>1, AppendProperties, NulByte \in Bytes DEF NulByte, Bytes
      <4>3. \A n \in 1..Len(plain) + 1 : n = Len(plain) + 1 \/ n \in 1..Len(plain)
        BY <2>1
      <4>4. DOMAIN Append(plain, NulByte) = 1..Len(plain) + 1
        BY <2>1, <4>2
      <4>5. Append(plain, NulByte)
              = [n \in DOMAIN Append(plain, NulByte) |-> Append(plain, NulByte)[n]]
        <5>1. \A s \in Seq(Bytes) : s \in [1..Len(s) -> Bytes]
          BY LenProperties
        <5>2. Append(plain, NulByte) \in [1..Len(Append(plain, NulByte)) -> Bytes]
          BY <4>2, <5>1
        <5> QED
          BY <5>2
      <4>6. \A n \in 1..Len(plain) + 1 :
              Append(plain, NulByte)[n] = (IF n = Len(plain) + 1 THEN NulByte ELSE plain[n])
        BY <2>1, <4>2, <4>3
      <4> QED
        BY <4>4, <4>5, <4>6
    <3>2. \A n \in 1..Len(plain) + 1 :
            (IF n = Len(plain) + 1 THEN NulByte ELSE plain[n])
              = (IF n <= Len(plain) THEN plain[n] ELSE NulByte)
      BY <2>1
    <3> QED
      BY <3>1, <3>2
  <2> QED
    BY <2>2, <2>3
<1> QED
  BY <1>1, ScrambleInvariant, PTL

-----------------------------------------------------------------------------
(* What is not called.                                                     *)

\* A list that was returned from an empty text has no strings.
LEMMA SplitRests == SplitAtRest => SplitInv
<1> SUFFICES ASSUME SplitAtRest PROVE SplitInv
  OBVIOUS
<1> USE DEF SplitAtRest
<1>1. SplitTypeOK
  BY DEF SplitTypeOK
<1>2. IsSplit
  <2>1. strings \in Starts
    BY DEF Starts
  <2>2. Covers(strings) /\ \A s \in 1..Len(strings) : IsPiece(s, strings)
    BY DEF Covers
  <2> QED
    BY <2>1, <2>2 DEF IsSplit
<1>3. LeavesOnlyBehindSep
  BY DEF LeavesOnlyBehindSep
<1> QED
  BY <1>1, <1>2, <1>3 DEF SplitInv

\* A list of records of which no text is left was freed with its holders.
LEMMA HoldersRest == HoldersAtRest => HoldersInv
<1> SUFFICES ASSUME HoldersAtRest PROVE HoldersInv
  OBVIOUS
<1> USE DEF HoldersAtRest
<1>1. HoldersTypeOK
  BY DEF HoldersTypeOK
<1>2. Written(items) = << >>
  <2>1. items \in Seq(Items) /\ 0 \in 0..Len(items) /\ Len(items) = 0
    BY DEF HoldersTypeOK
  <2> QED
    BY <2>1, WrittenStep DEF Written
<1>3. At(1) = NULL
  BY DEF At
<1>4. TextSaysItems
  BY <1>2, <1>3 DEF TextSaysItems
<1> QED
  BY <1>1, <1>4 DEF HoldersInv

-----------------------------------------------------------------------------
(* All of them.                                                            *)

LEMMA CallsInitially == CallsInit => CallsInv
<1> SUFFICES ASSUME CallsInit PROVE CallsInv
  OBVIOUS
<1>1. call \in {"walk", "devices", "sys", "split", "scramble", "holders", "prompt"}
  BY DEF CallsInit
<1>2. WalkInv
  BY <1>1, WalkInitially DEF CallsInit, WalkAtRest
<1>3. DevicesInv
  BY <1>1, DevicesInitially DEF CallsInit, DevicesAtRest
<1>4. SysInv
  BY <1>1, SysInvInit DEF CallsInit, SysAtRest
<1>5. SplitInv
  BY <1>1, SplitInvInit, SplitRests DEF CallsInit
<1>6. ScrambleInv
  BY <1>1, ScrambleInitially DEF CallsInit, ScrambleAtRest
<1>7. HoldersInv
  BY <1>1, HoldersInitially, HoldersRest DEF CallsInit
<1>8. PromptInv
  BY PromptInvInit DEF CallsInit
<1> QED
  BY <1>2, <1>3, <1>4, <1>5, <1>6, <1>7, <1>8 DEF CallsInv

\* A step of the whole is a step or a stutter of each.
LEMMA CallsSteps ==
  ASSUME [CallsNext]_callsVars
  PROVE  /\ [WalkNext]_walkVars
         /\ [DevicesNext]_devicesVars
         /\ [SysNext]_sysVars
         /\ [SplitNext]_splitVars
         /\ [DescrambleByte]_scrambleVars
         /\ [HoldersNext]_holdersVars
         /\ [PromptNext]_promptVars
<1>1. CASE CallsNext
  BY <1>1 DEF CallsNext, Others
<1>2. CASE UNCHANGED callsVars
  BY <1>2 DEF callsVars
<1> QED
  BY <1>1, <1>2

LEMMA CallsKeep == CallsInv /\ [CallsNext]_callsVars => CallsInv'
<1> SUFFICES ASSUME CallsInv, [CallsNext]_callsVars PROVE CallsInv'
  OBVIOUS
<1>1. WalkInv'
  BY CallsSteps, WalkStepKeeps DEF CallsInv
<1>2. DevicesInv'
  BY CallsSteps, DevicesStepKeeps DEF CallsInv
<1>3. SysInv'
  BY CallsSteps, SysTypeKept, SysTurnsKept DEF CallsInv, SysInv
<1>4. SplitInv'
  <2>1. SplitInv /\ [SplitNext]_splitVars
    BY CallsSteps DEF CallsInv
  <2> QED
    BY <2>1, GrabKeeps, SeparateKeeps, OthersKeep DEF SplitNext
<1>5. ScrambleInv'
  BY CallsSteps, ScrambleStepKeeps DEF CallsInv
<1>6. HoldersInv'
  BY CallsSteps, HoldersKeep DEF CallsInv
<1>7. PromptInv'
  <2>1. PromptInv /\ [PromptNext]_promptVars
    BY CallsSteps DEF CallsInv
  <2> QED
    BY <2>1, TypeKeeps, ReadKeeps, ReadEofKeeps, PromptKeeps DEF PromptNext
<1> QED
  BY <1>1, <1>2, <1>3, <1>4, <1>5, <1>6, <1>7 DEF CallsInv

\* The functions keep what they rely on, whichever of them is called: the
\* inductive invariant of each, for every initrd, host, list and text.
THEOREM CallsInvariant == CallsSpec => []CallsInv
BY CallsInitially, CallsKeep, PTL DEF CallsSpec

=============================================================================
