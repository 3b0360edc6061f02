------------------------------ MODULE Holders -------------------------------
(***************************************************************************)
(* The records of the configuration (config.c), written name<list> one     *)
(* after the other: config_split_string_holders makes a linked list of     *)
(* them, config_free_string_holders frees it.  The system mounts, the      *)
(* arrays and the encrypted volumes are such texts.                        *)
(*                                                                         *)
(* What config_split_string_array makes of a list is module SplitArray's;  *)
(* here a list is its text.                                                *)
(***************************************************************************)
EXTENDS Integers, Sequences

CONSTANTS
  RecordChars,  \* of names and lists
  Open, Close,  \* '<', '>'
  LF,           \* the byte 10
  MaxItems, MaxName, MaxList,
  Block,        \* the smallest block of the allocator, in characters
  NULL          \* NULL

ASSUME HoldersAssumption ==
  /\ {MaxItems, MaxName, MaxList, Block} \subseteq Nat
  /\ Open # Close /\ LF \notin {Open, Close} /\ RecordChars \cap {Open, Close, LF} = {}
  /\ NULL \notin RecordChars \cup {Open, Close, LF}

Words(n) == UNION {[1..l -> RecordChars] : l \in 0..n}
Items == [name : Words(MaxName), list : Words(MaxList)]

VARIABLES
  items,     \* what the configuration says; fixed
  records,   \* how it says it; fixed
  pos,       \* characters that are behind
  holders,   \* the list of struct string_holder
  into,      \* what pc_current_field collects: "name" or "list"
  field,     \* the list that is collected
  holdersPc  \* "split", "used" or "freed"

holdersVars == <<items, records, pos, holders, into, field, holdersPc>>

\* What is written of the first n items.
WrittenTo(is) ==
  LET W[n \in 0..Len(is)] ==
        IF n = 0 THEN << >>
        ELSE W[n - 1] \o is[n].name \o << Open >> \o is[n].list \o << Close >>
  IN  W
Written(is) == WrittenTo(is)[Len(is)]

\* A line may follow, which is not looked at.
HoldersInit ==
  /\ items \in UNION {[1..n -> Items] : n \in 0..MaxItems}
  /\ \E rest \in {<< >>} \cup {<< LF >> \o w : w \in Words(1)} :
       records = Written(items) \o (IF items = << >> THEN << >> ELSE rest)
  /\ pos = 0 /\ holders = << >> /\ into = "name" /\ field = << >>
  /\ holdersPc = "split"

-----------------------------------------------------------------------------
(* config_split_string_holders.                                            *)

At(n) == IF n <= Len(records) THEN records[n] ELSE NULL

\* A holder whose name is an empty string of its own.
NewHolder == [name |-> << >>, live |-> TRUE, strings |-> NULL]

\* The first holder is created when there is a character.
Made == IF holders = << >> THEN << NewHolder >> ELSE holders
Last == Len(Made)

BeginList ==
  /\ holdersPc = "split" /\ At(pos + 1) = Open
  /\ holders' = Made
  /\ into' = "list" /\ field' = << >>
  /\ pos' = pos + 1
  /\ UNCHANGED <<items, records, holdersPc>>

\* The list is split; another holder follows unless the text or its line ends.
\* (MUTANT: the next name goes to the holder before.)
WithList == [Made EXCEPT ![Last].strings = field]
EndListInPlace ==
  /\ holdersPc = "split" /\ At(pos + 1) = Close
  /\ holders' = WithList
  /\ holdersPc' = IF At(pos + 2) \in {NULL, LF} THEN "used" ELSE holdersPc
  /\ into' = "name"
  /\ pos' = pos + 1
  /\ UNCHANGED <<items, records, field>>
EndList ==
  /\ holdersPc = "split" /\ At(pos + 1) = Close
  /\ IF At(pos + 2) \in {NULL, LF}
       THEN holdersPc' = "used" /\ holders' = WithList
       ELSE holders' = Append(WithList, NewHolder) /\ UNCHANGED holdersPc
  /\ into' = "name"
  /\ pos' = pos + 1
  /\ UNCHANGED <<items, records, field>>

\* realloc moves a name that outgrows its block, or not; the holder keeps the
\* old pointer.
AddToName(c) ==
  \E moves \in BOOLEAN :
    /\ moves => Len(Made[Last].name) + 2 > Block
    /\ holders' = [Made EXCEPT ![Last] = [name    |-> Append(@.name, c),
                                          live    |-> @.live /\ ~moves,
                                          strings |-> @.strings]]

\* "Add the grabbed character to the current string."
AddChar ==
  /\ holdersPc = "split" /\ pos < Len(records) /\ At(pos + 1) \notin {Open, Close}
  /\ \/ into = "name" /\ AddToName(At(pos + 1)) /\ UNCHANGED field
     \/ into = "list" /\ field' = Append(field, At(pos + 1)) /\ UNCHANGED holders
  /\ pos' = pos + 1
  /\ UNCHANGED <<items, records, into, holdersPc>>

TextEnds ==
  /\ holdersPc = "split" /\ pos = Len(records)
  /\ holdersPc' = "used"
  /\ UNCHANGED <<items, records, pos, holders, into, field>>

\* config_free_string_holders: the holders, not what they point to.
FreeHolders ==
  /\ holdersPc = "used"
  /\ holdersPc' = "freed" /\ holders' = << >>
  /\ UNCHANGED <<items, records, pos, into, field>>

HoldersNext ==
  BeginList \/ EndList \/ AddChar \/ TextEnds \/ FreeHolders

HoldersSpec == HoldersInit /\ [][HoldersNext]_holdersVars

-----------------------------------------------------------------------------
(* Properties.                                                             *)

\* The list has what the configuration says, in its order, and nothing of the
\* line behind it.  Characters of a name are added "to the current string",
\* which realloc may move away from its holder: a name is certain to be found
\* only if it fits into the smallest block.
RoundTrip ==
  holdersPc = "used" =>
    /\ Len(holders) = Len(items)
    /\ \A n \in 1..Len(items) :
         /\ holders[n].strings = items[n].list
         /\ holders[n].live => holders[n].name = items[n].name
         /\ Len(items[n].name) < Block => holders[n].live

-----------------------------------------------------------------------------

\* The inductive invariant.

HoldersTypeOK ==
  /\ items \in Seq(Items)
  /\ records \in Seq(RecordChars \cup {Open, Close, LF})
  /\ pos \in 0..Len(records)
  /\ holders \in Seq([name : Seq(RecordChars), live : BOOLEAN,
                      strings : {NULL} \cup Seq(RecordChars)])
  /\ into \in {"name", "list"}
  /\ field \in Seq(RecordChars)
  /\ holdersPc \in {"split", "used", "freed"}

\* The text is the items, and at most a line behind them.
TextSaysItems ==
  LET w == Written(items)
  IN  /\ items = << >> => records = << >>
      /\ Len(w) <= Len(records)
      /\ \A n \in 1..Len(w) : records[n] = w[n]
      /\ At(Len(w) + 1) \in {NULL, LF}

\* A name that left its holder was too long for the smallest block.
KeptIfShort(n) == Made[n].live \/ Block <= Len(Made[n].name)

\* The n-th holder is complete.
Complete(n) ==
  /\ Made[n].name = items[n].name
  /\ Made[n].strings = items[n].list
  /\ KeptIfShort(n)

\* The holders before the last one are complete, and the last one has what is
\* behind of the last item, j characters of its name or of its list.
SplitSoFar ==
  LET item == items[Last]
      j == pos - Len(WrittenTo(items)[Last - 1])
      l == j - Len(item.name) - 1
  IN  /\ Last <= Len(items)
      /\ \A n \in 1..Last - 1 : Complete(n)
      /\ KeptIfShort(Last)
      /\ into = "name" => /\ j \in 0..Len(item.name)
                          /\ Made[Last].name = SubSeq(item.name, 1, j)
      /\ into = "list" => /\ Made[Last].name = item.name
                          /\ l \in 0..Len(item.list)
                          /\ field = SubSeq(item.list, 1, l)

HoldersInv ==
  /\ HoldersTypeOK
  /\ TextSaysItems
  /\ holdersPc = "split" => IF items = << >> THEN holders = << >> ELSE SplitSoFar
  /\ holdersPc = "used"  => /\ Len(holders) = Len(items)
                            /\ \A n \in 1..Len(items) : Complete(n)

=============================================================================
