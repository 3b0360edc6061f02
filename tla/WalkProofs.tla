---------------------------- MODULE WalkProofs -----------------------------
(***************************************************************************)
(* Proofs about the walks, for every tree and every number of descriptors. *)
(*                                                                         *)
(* The argument: the stack always leads from "/" downwards, so a node that *)
(* is not on it has been finished or was not reached, and what is removed  *)
(* is an entry of the last directory on the stack.  Hence a directory that *)
(* was left never changes again.                                           *)
(*                                                                         *)
(* What holds of the whole tree is shown by a counterexample with the      *)
(* least or the greatest number: a parent's number is below its entries'.  *)
(***************************************************************************)
EXTENDS WalkProps, SequenceTheorems, WellFoundedInduction, TLAPS

USE WalkAssumption

-----------------------------------------------------------------------------
(* The steps, in the four ways a call ends.                                *)

\* The function is called for n: for "/", or for an entry just returned.
Called(n) ==
  /\ UNCHANGED treeVars
  /\ started' = TRUE
  /\ \/ ~started /\ n = 0 /\ read' = read
     \/ /\ started
        /\ stack # << >>
        /\ n \in Entries(Here) \ read
        /\ read' = read \cup {n}

\* The four ways.
Foreign(n) == n \notin home /\ UNCHANGED <<stack, unopened, present, owned>>
Enters(n)  == /\ n \in home /\ kind[n] = "dir"
              /\ stack' = Append(stack, n)
              /\ UNCHANGED <<unopened, present>>
Refused(n) == /\ n \in home /\ kind[n] = "dir"
              /\ unopened' = unopened \cup {n}
              /\ UNCHANGED <<stack, present>>
Unlinks(n) == /\ n \in home /\ kind[n] # "dir"
              /\ present' = IF walk = "rmtree" THEN present \ {n} ELSE present
              /\ UNCHANGED <<stack, unopened>>
Gives(n)   == n \in home =>
                owned' = IF walk = "chown" THEN owned \cup Given(n) ELSE owned

LEMMA EnterSplits ==
  ASSUME NEW n \in Nodes, Enter(n)
  PROVE  (Foreign(n) \/ Enters(n) \/ Refused(n) \/ Unlinks(n)) /\ Gives(n)
<1>1. CASE ~Ours(n)
  BY <1>1 DEF Enter, Ours, Foreign, Gives
<1>2. CASE Ours(n) /\ kind[n] = "dir"
  BY <1>2 DEF Enter, Ours, OpenDir, Enters, Refused, Gives
<1>3. CASE Ours(n) /\ kind[n] # "dir"
  BY <1>3 DEF Enter, Ours, Unlinks, Gives
<1> QED
  BY <1>1, <1>2, <1>3

\* Who is called is in a directory that is being read.
LEMMA CalledFrom ==
  ASSUME NEW n \in Nodes, WalkInv, Called(n)
  PROVE  /\ n \in present
         /\ n \notin read /\ ~OnStack(n) /\ n \notin unopened
         /\ n \in read' \cup {0}
         /\ n = 0 => stack = << >> /\ read' = {} /\ ~started
         /\ n # 0 => /\ stack # << >> /\ parent[n] = Here /\ started
                     /\ Len(stack) \in 1..Len(stack) /\ Here \in Nodes
                     /\ OnStack(Here) /\ Opened(Here)
                     /\ read' = read \cup {n}
<1>1. CASE ~started /\ n = 0 /\ read' = read
  BY <1>1 DEF WalkInv, StackLeadsDown, ReadFromAbove, OnStack, WalkTypeOK
<1>2. CASE started /\ stack # << >> /\ n \in Entries(Here) \ read /\ read' = read \cup {n}
  <2>1. Len(stack) \in 1..Len(stack) /\ Here \in Nodes /\ OnStack(Here)
    BY <1>2 DEF WalkInv, WalkTypeOK, Here, OnStack
  <2>2. Opened(Here)
    BY <1>2, <2>1 DEF WalkInv, StackLeadsDown, Opened, Here
  <2>3. n # 0 /\ n \in present /\ n \notin read /\ parent[n] = Here
    BY <1>2 DEF Entries
  <2>4. ~OnStack(n)
    BY <2>3 DEF WalkInv, StackLeadsDown, OnStack
  <2>5. n \notin unopened
    BY <2>3 DEF WalkInv, ReadFromAbove
  <2> QED
    BY <1>2, <2>1, <2>2, <2>3, <2>4, <2>5
<1> QED
  BY <1>1, <1>2 DEF Called

-----------------------------------------------------------------------------
(* What does not depend on how the call ends.                              *)

LEMMA CalledTypes ==
  ASSUME NEW n \in Nodes, WalkInv, Called(n), Enter(n)
  PROVE  WalkTypeOK'
<1>1. Tree'
  BY DEF Called, treeVars, WalkInv, WalkTypeOK, Tree
<1>2. Given(n) \subseteq Nodes
  BY DEF Given, WalkInv, WalkTypeOK, Tree
<1>3. read' \subseteq Nodes /\ started' \in BOOLEAN
  BY CalledFrom DEF Called, WalkInv, WalkTypeOK
<1>4. owned' \subseteq Nodes
  <2>1. CASE n \notin home
    BY <2>1, EnterSplits DEF Foreign, Enters, Refused, Unlinks, WalkInv, WalkTypeOK
  <2>2. CASE n \in home
    <3>1. owned' = owned \/ owned' = owned \cup Given(n)
      BY <2>2, EnterSplits DEF Gives
    <3> QED
      BY <1>2, <3>1 DEF WalkInv, WalkTypeOK
  <2> QED
    BY <2>1, <2>2
<1>5. stack' \in Seq(Nodes)
  BY EnterSplits DEF Foreign, Enters, Refused, Unlinks, WalkInv, WalkTypeOK
<1>6. unopened' \subseteq Nodes /\ present' \subseteq Nodes
  BY EnterSplits DEF Foreign, Enters, Refused, Unlinks, WalkInv, WalkTypeOK
<1> QED
  BY <1>1, <1>3, <1>4, <1>5, <1>6 DEF WalkTypeOK

LEMMA CalledGives ==
  ASSUME NEW n \in Nodes, WalkInv, Called(n), Enter(n)
  PROVE  GivenWhenRead'
<1> SUFFICES ASSUME walk = "chown"
             PROVE  /\ present' = Nodes
                    /\ started' => 0 \in owned'
                    /\ \A m \in read' : m \in owned' \/ kind[m] = "link"
  BY DEF GivenWhenRead, Called, treeVars
<1>1. n \in home
  BY DEF WalkInv, WalkTypeOK, Tree
<1>2. owned' = owned \cup Given(n)
  BY <1>1, EnterSplits DEF Gives
<1>3. n \in owned' \/ kind[n] = "link"
  BY <1>2 DEF Given
<1>4. kind[0] # "link"
  BY DEF WalkInv, WalkTypeOK, Tree
<1>5. present' = present
  BY EnterSplits DEF Foreign, Enters, Refused, Unlinks
<1> QED
  BY <1>2, <1>3, <1>4, <1>5, CalledFrom DEF WalkInv, GivenWhenRead, Called

-----------------------------------------------------------------------------
(* A call that finds another file system, or no descriptor, or a file.     *)

\* As long as the stack stays, being on it does.
LEMMA SameStack ==
  ASSUME UNCHANGED stack
  PROVE  /\ Here' = Here
         /\ \A m \in Nodes : OnStack(m)' <=> OnStack(m)
  BY DEF Here, OnStack

\* Only directories that were opened stay so; a new one is what was called.
LEMMA OpenedSame ==
  ASSUME NEW n \in Nodes, WalkInv, Called(n), n \notin home \/ n \in unopened' \/ kind[n] # "dir",
         unopened \subseteq unopened', unopened' \subseteq unopened \cup {n}
  PROVE  \A d \in Nodes : Opened(d)' <=> Opened(d)
<1> SUFFICES ASSUME NEW d \in Nodes PROVE Opened(d)' <=> Opened(d)
  OBVIOUS
<1>1. /\ home' = home /\ kind' = kind /\ started' = TRUE
  BY DEF Called, treeVars
<1>2. CASE d = n
  <2>1. ~Opened(n)'
    BY <1>1 DEF Opened
  <2>2. ~Opened(n)
    BY CalledFrom DEF Opened
  <2> QED
    BY <1>2, <2>1, <2>2
<1>3. CASE d # n
  <2>1. (d \in read' <=> d \in read) /\ (d \in unopened' <=> d \in unopened)
    BY <1>3 DEF Called
  <2>2. d = 0 => (started <=> n # 0)
    BY <1>3, CalledFrom DEF Called
  <2>3. d \in read => started
    BY DEF WalkInv, ReadFromAbove
  <2>4. d = 0 => started
    BY <1>3, CalledFrom
  <2> QED
    BY <1>1, <2>1, <2>3, <2>4 DEF Opened
<1> QED
  BY <1>2, <1>3

LEMMA ForeignKeeps ==
  ASSUME NEW n \in Nodes, WalkInv, Called(n), Enter(n), Foreign(n)
  PROVE  WalkInv'
<1>1. WalkTypeOK' /\ GivenWhenRead'
  BY CalledTypes, CalledGives
<1>2. n # 0 /\ started
  BY CalledFrom DEF Foreign, WalkInv, WalkTypeOK, Tree
<1>3. /\ home' = home /\ kind' = kind /\ parent' = parent /\ walk' = walk
      /\ started' = TRUE /\ stack' = stack /\ present' = present
      /\ unopened' = unopened /\ read' = read \cup {n}
  BY <1>2, CalledFrom DEF Called, treeVars, Foreign
<1>4. \A d \in Nodes : (OnStack(d)' <=> OnStack(d)) /\ (Opened(d)' <=> Opened(d))
  BY <1>3, SameStack, OpenedSame DEF Foreign
<1>5. StackLeadsDown'
  BY <1>3 DEF WalkInv, StackLeadsDown
<1>6. ReadToEnd'
  BY <1>3, <1>4 DEF WalkInv, WalkTypeOK, Tree, ReadToEnd
<1>7. LeftForAReason'
  BY <1>3, <1>4 DEF WalkInv, WalkTypeOK, LeftForAReason, Barred, Entries, Foreign
<1>8. ReadFromAbove'
  BY <1>2, <1>3, <1>4, CalledFrom DEF WalkInv, WalkTypeOK, Tree, ReadFromAbove
<1>9. ForeignKept'
  BY <1>2, <1>3, CalledFrom DEF WalkInv, ForeignKept, Opened
<1> QED
  BY <1>1, <1>5, <1>6, <1>7, <1>8, <1>9 DEF WalkInv

LEMMA RefusedKeeps ==
  ASSUME NEW n \in Nodes, WalkInv, Called(n), Enter(n), Refused(n)
  PROVE  WalkInv'
<1>1. WalkTypeOK' /\ GivenWhenRead'
  BY CalledTypes, CalledGives
<1>2. /\ home' = home /\ kind' = kind /\ parent' = parent /\ walk' = walk
      /\ started' = TRUE /\ stack' = stack /\ present' = present
      /\ unopened' = unopened \cup {n}
      /\ read' \subseteq read \cup {n} /\ read \subseteq read'
      /\ n # 0 => read' = read \cup {n}
  BY CalledFrom DEF Called, treeVars, Refused
<1>3. \A d \in Nodes : (OnStack(d)' <=> OnStack(d)) /\ (Opened(d)' <=> Opened(d))
  BY <1>2, SameStack, OpenedSame DEF Refused
<1>4. ~OnStack(n) /\ (n = 0 => stack = << >> /\ read' = {} /\ ~started)
  BY CalledFrom
<1>5. StackLeadsDown'
  BY <1>2, <1>4 DEF WalkInv, StackLeadsDown, OnStack
<1>6. ReadToEnd'
  BY <1>2, <1>3 DEF WalkInv, WalkTypeOK, Tree, ReadToEnd
<1>7. LeftForAReason'
  BY <1>2, <1>3 DEF WalkInv, WalkTypeOK, LeftForAReason, Barred, Entries
<1>8. ReadFromAbove'
  <2>1. 0 \notin read' /\ unopened' \subseteq read' \cup {0}
    BY <1>2, <1>4 DEF WalkInv, ReadFromAbove
  <2>2. \A m \in read' : Opened(parent[m])
    <3>1. n # 0 => Opened(parent[n])
      BY CalledFrom
    <3>2. n = 0 => read' = {}
      BY <1>4
    <3> QED
      BY <1>2, <3>1, <3>2 DEF WalkInv, ReadFromAbove
  <2>3. \A m \in read' : parent[m] \in Nodes
    BY <1>1, <1>2 DEF WalkTypeOK, Tree
  <2> QED
    BY <1>2, <1>3, <2>1, <2>2, <2>3 DEF WalkInv, ReadFromAbove
<1>9. ForeignKept'
  BY <1>2, <1>4, CalledFrom DEF WalkInv, ForeignKept, Opened
<1> QED
  BY <1>1, <1>5, <1>6, <1>7, <1>8, <1>9 DEF WalkInv

LEMMA UnlinksKeeps ==
  ASSUME NEW n \in Nodes, WalkInv, Called(n), Enter(n), Unlinks(n)
  PROVE  WalkInv'
<1>1. WalkTypeOK' /\ GivenWhenRead'
  BY CalledTypes, CalledGives
<1>2. n # 0 /\ started
  BY CalledFrom DEF Unlinks, WalkInv, WalkTypeOK, Tree
<1>3. /\ home' = home /\ kind' = kind /\ parent' = parent /\ walk' = walk
      /\ started' = TRUE /\ stack' = stack
      /\ present' \subseteq present /\ present \ {n} \subseteq present'
      /\ walk # "rmtree" => present' = present
      /\ walk = "rmtree" => present' = present \ {n}
      /\ unopened' = unopened /\ read' = read \cup {n}
  BY <1>2, CalledFrom DEF Called, treeVars, Unlinks
<1>4. \A d \in Nodes : (OnStack(d)' <=> OnStack(d)) /\ (Opened(d)' <=> Opened(d))
  BY <1>3, SameStack, OpenedSame DEF Unlinks
<1>5. StackLeadsDown'
  BY <1>3, CalledFrom DEF WalkInv, StackLeadsDown, OnStack
<1>6. ReadToEnd'
  BY <1>3, <1>4 DEF WalkInv, WalkTypeOK, Tree, ReadToEnd
<1>7. LeftForAReason'
  <2> SUFFICES ASSUME walk = "rmtree", NEW m \in read', m \in present'
               PROVE  Barred(m)' \/ OnStack(m)' \/ Entries(m)' # {}
    BY <1>3 DEF LeftForAReason
  <2>1. m # n /\ m \in read /\ m \in present /\ m \in Nodes
    BY <1>3 DEF WalkInv, WalkTypeOK
  <2>2. CASE Barred(m) \/ OnStack(m)
    BY <1>3, <1>4, <2>1, <2>2 DEF Barred
  <2>3. CASE Entries(m) # {} /\ ~OnStack(m)
    <3>1. parent[n] # m
      BY <1>2, <2>3, CalledFrom
    <3> QED
      BY <1>3, <2>3, <3>1 DEF Entries
  <2> QED
    BY <2>1, <2>2, <2>3 DEF WalkInv, LeftForAReason
<1>8. ReadFromAbove'
  <2>1. \A m \in present' : parent[m] # n
    BY <1>3 DEF Unlinks, WalkInv, WalkTypeOK, Tree, ReadFromAbove
  <2>2. \A m \in read' : Opened(parent[m]) /\ parent[m] \in Nodes
    BY <1>2, <1>3, CalledFrom DEF WalkInv, ReadFromAbove, WalkTypeOK, Tree
  <2> QED
    BY <1>2, <1>3, <1>4, <2>1, <2>2 DEF WalkInv, ReadFromAbove
<1>9. ForeignKept'
  BY <1>2, <1>3, CalledFrom DEF WalkInv, ForeignKept, Opened, Unlinks
<1> QED
  BY <1>1, <1>5, <1>6, <1>7, <1>8, <1>9 DEF WalkInv

-----------------------------------------------------------------------------
(* A directory is opened, and one is left.                                 *)

LEMMA OpensKeeps ==
  ASSUME NEW n \in Nodes, WalkInv, Called(n), Enter(n), Enters(n)
  PROVE  WalkInv'
<1>1. WalkTypeOK' /\ GivenWhenRead'
  BY CalledTypes, CalledGives
<1>2. /\ home' = home /\ kind' = kind /\ parent' = parent /\ walk' = walk
      /\ started' = TRUE /\ present' = present /\ unopened' = unopened
      /\ read' \subseteq read \cup {n} /\ read \subseteq read'
      /\ n # 0 => read' = read \cup {n}
  BY CalledFrom DEF Called, treeVars, Enters
<1>3. /\ Len(stack') = Len(stack) + 1 /\ Len(stack) \in Nat
      /\ stack'[Len(stack) + 1] = n
      /\ \A i \in 1..Len(stack) : stack'[i] = stack[i]
  BY DEF Enters, WalkInv, WalkTypeOK
<1>4. \A m \in Nodes : OnStack(m)' <=> OnStack(m) \/ m = n
  BY <1>3 DEF OnStack
<1>5. /\ n = 0 => Len(stack) = 0 /\ read' = {} /\ ~started
      /\ n # 0 => Len(stack) > 0 /\ parent[n] = stack[Len(stack)] /\ started
      /\ n \in present /\ n \notin unopened /\ n \in read' \cup {0}
  BY CalledFrom, <1>3 DEF Here
<1>6. \A d \in Nodes \ {n} : Opened(d)' => Opened(d)
  BY <1>2, <1>5 DEF Opened
<1>7. \A d \in Nodes : Opened(d) => Opened(d)'
  BY <1>2 DEF Opened
<1>8. StackLeadsDown'
  <2>1. ASSUME NEW i \in 1..Len(stack')
        PROVE  /\ stack'[i] \in home' \cap present'
               /\ kind'[stack'[i]] = "dir"
               /\ stack'[i] \notin unopened'
               /\ IF i = 1 THEN stack'[i] = 0
                           ELSE stack'[i] \in read' /\ parent'[stack'[i]] = stack'[i - 1]
    <3>1. CASE i = Len(stack) + 1
      BY <1>2, <1>3, <1>5, <3>1 DEF Enters
    <3>2. CASE i \in 1..Len(stack)
      <4>1. i # 1 => i - 1 \in 1..Len(stack)
        BY <3>2
      <4> QED
        BY <1>2, <1>3, <3>2, <4>1 DEF WalkInv, StackLeadsDown
    <3> QED
      BY <1>3, <3>1, <3>2
  <2>2. ASSUME NEW i \in 1..Len(stack'), NEW j \in 1..Len(stack'), i < j
        PROVE  stack'[i] < stack'[j]
    <3>1. CASE j = Len(stack) + 1
      <4>1. i \in 1..Len(stack) /\ n # 0 /\ stack'[i] = stack[i]
        BY <1>3, <1>5, <2>2, <3>1
      <4>2. stack[i] \in Nodes /\ stack[Len(stack)] \in Nodes
        BY <4>1 DEF WalkInv, WalkTypeOK
      <4>3. i < Len(stack) => stack[i] < stack[Len(stack)]
        BY <4>1, <1>3 DEF WalkInv, StackLeadsDown
      <4>4. parent[n] < n
        BY <4>1 DEF WalkInv, WalkTypeOK, Tree
      <4> QED
        BY <1>3, <1>5, <3>1, <4>1, <4>2, <4>3, <4>4 DEF Nodes
    <3>2. CASE j \in 1..Len(stack)
      <4>1. i \in 1..Len(stack)
        BY <1>3, <2>2, <3>2
      <4> QED
        BY <1>3, <2>2, <3>2, <4>1 DEF WalkInv, StackLeadsDown
    <3> QED
      BY <1>3, <3>1, <3>2
  <2> QED
    BY <1>2, <2>1, <2>2 DEF StackLeadsDown
<1>9. ReadToEnd'
  BY <1>2, <1>4, <1>6 DEF WalkInv, WalkTypeOK, Tree, ReadToEnd
<1>10. LeftForAReason'
  BY <1>2, <1>4 DEF WalkInv, WalkTypeOK, LeftForAReason, Barred, Entries
<1>11. ReadFromAbove'
  <2>1. \A m \in read' : Opened(parent[m]) /\ parent[m] \in Nodes
    BY <1>2, <1>5, CalledFrom DEF WalkInv, ReadFromAbove, WalkTypeOK, Tree
  <2>2. 0 \notin read'
    BY <1>2, <1>5 DEF WalkInv, ReadFromAbove
  <2> QED
    BY <1>2, <1>7, <2>1, <2>2 DEF WalkInv, ReadFromAbove
<1>12. ForeignKept'
  BY <1>2, <1>5, CalledFrom DEF WalkInv, ForeignKept, Opened
<1> QED
  BY <1>1, <1>8, <1>9, <1>10, <1>11, <1>12 DEF WalkInv

LEMMA LeaveKeeps ==
  ASSUME WalkInv, Leave
  PROVE  WalkInv'
<1>0. PICK d \in Nodes : d = Here
  BY DEF Leave, Here, WalkInv, WalkTypeOK
<1>1. /\ home' = home /\ kind' = kind /\ parent' = parent /\ walk' = walk /\ target' = target
      /\ started' = started /\ unopened' = unopened /\ read' = read /\ owned' = owned
      /\ present' = Zapped(d) /\ Entries(d) \subseteq read
  BY <1>0 DEF Leave, treeVars
<1>2. /\ Len(stack) \in Nat \ {0}
      /\ stack' = SubSeq(stack, 1, Len(stack) - 1)
      /\ d = stack[Len(stack)] /\ d \in Nodes
  BY <1>0 DEF Leave, Here, WalkInv, WalkTypeOK
<1>3. /\ Len(stack') = Len(stack) - 1
      /\ \A i \in 1..Len(stack') : stack'[i] = stack[i] /\ i \in 1..Len(stack) /\ i < Len(stack)
      /\ stack' \in Seq(Nodes)
  <2>1. stack \in Seq(Nodes)
    BY DEF WalkInv, WalkTypeOK
  <2>2. \A i \in 1..(Len(stack) - 1) : stack[i] \in Nodes
    BY <1>2, <2>1
  <2>3. /\ stack' \in Seq(Nodes)
        /\ Len(stack') = IF 1 <= Len(stack) - 1 THEN Len(stack) - 1 - 1 + 1 ELSE 0
        /\ \A i \in 1..(Len(stack) - 1 - 1 + 1) : stack'[i] = stack[1 + i - 1]
    BY <1>2, <2>2, SubSeqProperties
  <2>4. Len(stack') = Len(stack) - 1
    <3>1. PICK l \in Nat \ {0} : l = Len(stack)
      BY <1>2
    <3>2. Len(stack') = IF 1 <= l - 1 THEN l - 1 - 1 + 1 ELSE 0
      BY <2>3, <3>1
    <3>3. (IF 1 <= l - 1 THEN l - 1 - 1 + 1 ELSE 0) = l - 1
      OBVIOUS
    <3> QED
      BY <3>1, <3>2, <3>3
  <2>5. ASSUME NEW i \in 1..Len(stack') PROVE i \in 1..(Len(stack) - 1 - 1 + 1) /\ 1 + i - 1 = i
    BY <1>2, <2>4
  <2>6. \A i \in 1..Len(stack') : stack'[i] = stack[i]
    BY <2>3, <2>5
  <2> QED
    BY <1>2, <2>3, <2>4, <2>6
<1>4. \A i \in 1..Len(stack') : stack[i] # d
  <2> SUFFICES ASSUME NEW i \in 1..Len(stack') PROVE stack[i] # d
    OBVIOUS
  <2>1. i \in 1..Len(stack) /\ Len(stack) \in 1..Len(stack) /\ i < Len(stack)
    BY <1>2, <1>3
  <2>2. stack[i] < stack[Len(stack)]
    BY <2>1 DEF WalkInv, StackLeadsDown
  <2>3. stack[i] \in Int /\ d \in Int
    BY <1>2, <2>1 DEF WalkInv, WalkTypeOK, Nodes
  <2> QED
    BY <1>2, <2>2, <2>3
<1>5. \A m \in Nodes : OnStack(m)' <=> OnStack(m) /\ m # d
  <2>1. ASSUME NEW m \in Nodes, OnStack(m)' PROVE OnStack(m) /\ m # d
    BY <1>3, <1>4, <2>1 DEF OnStack
  <2>2. ASSUME NEW m \in Nodes, OnStack(m), m # d PROVE OnStack(m)'
    BY <1>2, <1>3, <2>2 DEF OnStack
  <2> QED
    BY <2>1, <2>2
<1>6. /\ present' \subseteq present /\ present \ {d} \subseteq present'
      /\ d \notin present' => Entries(d) = {} /\ d # 0 /\ d \in home
      /\ walk = "rmtree" /\ d # 0 /\ Entries(d) = {} => d \notin present'
  <2>1. d \in home /\ d \in present
    BY <1>2 DEF WalkInv, StackLeadsDown
  <2> QED
    BY <1>1, <2>1 DEF Zapped
<1>7. WalkTypeOK'
  <2>1. Tree'
    BY <1>1 DEF WalkInv, WalkTypeOK, Tree
  <2> QED
    BY <1>1, <1>3, <1>6, <2>1 DEF WalkInv, WalkTypeOK
<1>8. \A m \in Nodes : Opened(m)' <=> Opened(m)
  BY <1>1 DEF Opened
<1>9. StackLeadsDown'
  <2>1. ASSUME NEW i \in 1..Len(stack')
        PROVE  /\ stack'[i] \in home' \cap present'
               /\ kind'[stack'[i]] = "dir"
               /\ stack'[i] \notin unopened'
               /\ IF i = 1 THEN stack'[i] = 0
                           ELSE stack'[i] \in read' /\ parent'[stack'[i]] = stack'[i - 1]
    <3>1. i # 1 => i - 1 \in 1..Len(stack')
      BY <1>3
    <3>2. stack[i] # d /\ stack'[i] = stack[i] /\ i \in 1..Len(stack)
      BY <1>3, <1>4
    <3> QED
      BY <1>1, <1>3, <1>6, <3>1, <3>2 DEF WalkInv, StackLeadsDown
  <2>2. \A i, j \in 1..Len(stack') : i < j => stack'[i] < stack'[j]
    BY <1>3 DEF WalkInv, StackLeadsDown
  <2>3. started'
    BY <1>1, <1>2 DEF WalkInv, StackLeadsDown
  <2> QED
    BY <2>1, <2>2, <2>3 DEF StackLeadsDown
<1>10. ReadToEnd'
  <2> SUFFICES ASSUME NEW n \in present', n # 0, Opened(parent[n]), ~OnStack(parent[n])'
               PROVE  n \in read
    BY <1>1, <1>7, <1>8 DEF ReadToEnd, WalkTypeOK, Tree
  <2>1. n \in present /\ parent[n] \in Nodes
    BY <1>1, <1>6, <1>7 DEF WalkTypeOK, Tree
  <2>2. CASE parent[n] = d
    BY <1>1, <2>1, <2>2 DEF Entries
  <2>3. CASE parent[n] # d
    BY <1>1, <1>5, <2>1, <2>3 DEF WalkInv, ReadToEnd
  <2> QED
    BY <2>2, <2>3
<1>11. LeftForAReason'
  <2> SUFFICES ASSUME walk = "rmtree", NEW m \in read, m \in present'
               PROVE  Barred(m) \/ OnStack(m)' \/ Entries(m)' # {}
    BY <1>1 DEF LeftForAReason, Barred
  <2>1. m \in present /\ m \in Nodes /\ m # 0
    BY <1>6 DEF WalkInv, WalkTypeOK, ReadFromAbove
  <2>2. CASE m = d
    <3>1. Entries(d) # {}
      BY <1>6, <2>1, <2>2
    <3>2. Entries(d)' = Entries(d)
      <4>1. parent[d] # d
        BY <2>1, <2>2 DEF WalkInv, WalkTypeOK, Tree, Nodes
      <4> QED
        BY <1>1, <1>6, <4>1 DEF Entries
    <3> QED
      BY <2>2, <3>1, <3>2
  <2>3. CASE m # d /\ OnStack(m)
    BY <1>5, <2>1, <2>3
  <2>4. CASE m # d /\ ~OnStack(m) /\ Entries(m) # {}
    <3>1. d # 0 => parent[d] # m
      <4>1. d # 0 => /\ Len(stack) # 1
                     /\ parent[d] = stack[Len(stack) - 1]
                     /\ Len(stack) - 1 \in 1..Len(stack)
        BY <1>2 DEF WalkInv, StackLeadsDown
      <4> QED
        BY <2>4, <4>1 DEF OnStack
    <3> QED
      BY <1>1, <1>6, <2>4, <3>1 DEF Entries
  <2> QED
    BY <2>1, <2>2, <2>3, <2>4 DEF WalkInv, LeftForAReason
<1>12. GivenWhenRead'
  BY <1>1 DEF WalkInv, GivenWhenRead, Zapped
<1>13. ReadFromAbove'
  <2>1. \A n \in present' : parent[n] \in present'
    <3> SUFFICES ASSUME NEW n \in present' PROVE parent[n] \in present'
      OBVIOUS
    <3>1. n \in present /\ parent[n] \in present
      BY <1>6 DEF WalkInv, ReadFromAbove
    <3>2. parent[n] = d /\ d # 0 => n \in Entries(d)
      BY <3>1 DEF Entries, WalkInv, WalkTypeOK, Tree
    <3> QED
      BY <1>6, <3>1, <3>2
  <2>2. \A m \in read : parent[m] \in Nodes
    BY DEF WalkInv, WalkTypeOK, Tree
  <2>3. started
    BY <1>2 DEF WalkInv, StackLeadsDown
  <2> QED
    BY <1>1, <1>6, <1>8, <2>1, <2>2, <2>3 DEF WalkInv, ReadFromAbove
<1>14. ForeignKept'
  BY <1>1, <1>6 DEF WalkInv, ForeignKept, WalkTypeOK
<1> QED
  BY <1>7, <1>9, <1>10, <1>11, <1>12, <1>13, <1>14 DEF WalkInv

-----------------------------------------------------------------------------
(* The results.                                                            *)

LEMMA WalkInitially == WalkInit => WalkInv
<1> SUFFICES ASSUME WalkInit PROVE WalkInv
  OBVIOUS
<1>1. WalkTypeOK
  <2>1. Tree
    BY DEF WalkInit
  <2>2. stack \in Seq(Nodes)
    BY DEF WalkInit
  <2> QED
    BY <2>1, <2>2 DEF WalkInit, WalkTypeOK
<1>2. StackLeadsDown
  BY DEF WalkInit, StackLeadsDown
<1>3. ReadToEnd /\ LeftForAReason /\ GivenWhenRead
  BY DEF WalkInit, ReadToEnd, Opened, LeftForAReason, GivenWhenRead
<1>4. ReadFromAbove /\ ForeignKept
  BY DEF WalkInit, Tree, ReadFromAbove, ForeignKept, Nodes
<1> QED
  BY <1>1, <1>2, <1>3, <1>4 DEF WalkInv

LEMMA WalkStepKeeps == WalkInv /\ [WalkNext]_walkVars => WalkInv'
<1> SUFFICES ASSUME WalkInv, [WalkNext]_walkVars PROVE WalkInv'
  OBVIOUS
<1>1. ASSUME NEW n \in Nodes, Called(n), Enter(n) PROVE WalkInv'
  BY <1>1, EnterSplits, ForeignKeeps, OpensKeeps, RefusedKeeps, UnlinksKeeps
<1>2. CASE Call
  <2>1. Called(0) /\ 0 \in Nodes /\ Enter(0)
    BY <1>2 DEF Call, Called, treeVars, Nodes
  <2> QED
    BY <1>1, <2>1
<1>3. CASE Descend
  <2>1. PICK n \in Entries(Here) \ read : read' = read \cup {n} /\ Enter(n)
    BY <1>3 DEF Descend
  <2>2. n \in Nodes
    BY DEF Entries, WalkInv, WalkTypeOK
  <2>3. started
    BY <1>3 DEF Descend, WalkInv, StackLeadsDown
  <2>4. Called(n)
    BY <1>3, <2>1, <2>3 DEF Descend, Called
  <2> QED
    BY <1>1, <2>1, <2>2, <2>4
<1>4. CASE Leave
  BY <1>4, LeaveKeeps
<1>5. CASE UNCHANGED walkVars
  <2>1. UNCHANGED <<walk, parent, kind, home, target, started, stack, read, unopened, present, owned>>
    BY <1>5 DEF walkVars, treeVars
  <2>2. WalkTypeOK' /\ StackLeadsDown' /\ ReadToEnd' /\ GivenWhenRead' /\ ForeignKept'
    BY <2>1 DEF WalkInv, WalkTypeOK, Tree, StackLeadsDown, ReadToEnd, Opened, OnStack,
                GivenWhenRead, ForeignKept
  <2>3. LeftForAReason' /\ ReadFromAbove'
    BY <2>1 DEF WalkInv, LeftForAReason, Barred, OnStack, Entries, ReadFromAbove, Opened
  <2> QED
    BY <2>2, <2>3 DEF WalkInv
<1> QED
  BY <1>2, <1>3, <1>4, <1>5 DEF WalkNext

\* The inductive invariant of both walks, for every tree and every number of
\* descriptors.
THEOREM WalkInvariant == WalkSpec => []WalkInv
BY WalkInitially, WalkStepKeeps, PTL DEF WalkSpec

\* Type correctness of the walks.
THEOREM WalkTypeCorrect == WalkSpec => []WalkTypeOK
<1>1. WalkInv => WalkTypeOK
  BY DEF WalkInv
<1> QED
  BY <1>1, WalkInvariant, PTL

\* mount_rmtree removes nothing of another file system and reads no directory
\* of one: the root that was just unlocked survives it.
THEOREM KeepsForeign == WalkSpec => []ForeignKept
<1>1. WalkInv => ForeignKept
  BY DEF WalkInv
<1> QED
  BY <1>1, WalkInvariant, PTL

\* When mount_rmtree has returned, every entry of a directory that was opened
\* is gone, on another file system, not to be opened, or not empty.
THEOREM NothingForgotten ==
  WalkSpec => [](Done /\ walk = "rmtree" =>
                     \A n \in present \ {0} :
                       Opened(parent[n]) => Barred(n) \/ Entries(n) # {})
<1>1. ASSUME WalkInv, Done, walk = "rmtree", NEW n \in present \ {0}, Opened(parent[n])
      PROVE  Barred(n) \/ Entries(n) # {}
  <2>1. \A m \in Nodes : ~OnStack(m)
    BY <1>1 DEF Done, OnStack
  <2>2. n \in Nodes /\ parent[n] \in Nodes
    BY <1>1 DEF WalkInv, WalkTypeOK, Tree
  <2>3. n \in read
    BY <1>1, <2>1, <2>2 DEF WalkInv, ReadToEnd
  <2> QED
    BY <1>1, <2>1, <2>2, <2>3 DEF WalkInv, LeftForAReason
<1>2. WalkInv => (Done /\ walk = "rmtree" =>
                    \A n \in present \ {0} :
                      Opened(parent[n]) => Barred(n) \/ Entries(n) # {})
  BY <1>1
<1> QED
  BY <1>2, WalkInvariant, PTL

-----------------------------------------------------------------------------
(* The directories above a node.  Induction over the tree is the least     *)
(* counterexample: an entry has a greater number than its directory.       *)

LEMMA LeastNode ==
  ASSUME NEW S, S \subseteq Nodes, S # {}
  PROVE  \E k \in S : \A l \in S : k <= l
<1>1. S \subseteq Nat
  BY DEF Nodes
<1>2. IsWellFoundedOn(OpToRel(<, Nat), Nat)
  BY NatLessThanWellFounded
<1>3. PICK k \in S : \A l \in S : ~(<<l, k>> \in OpToRel(<, Nat))
  BY <1>1, <1>2, WFMin
<1>4. ASSUME NEW l \in S PROVE k <= l
  <2>1. ~(l < k)
    BY <1>1, <1>3 DEF OpToRel
  <2> QED
    BY <1>1, <2>1
<1> QED
  BY <1>4

LEMMA GreatestNode ==
  ASSUME NEW S, S \subseteq Nodes, S # {}
  PROVE  \E k \in S : \A l \in S : l <= k
<1> DEFINE Turned == {N - k : k \in S}
<1>1. Turned \subseteq Nodes /\ Turned # {}
  BY DEF Nodes
<1>2. PICK j \in Turned : \A l \in Turned : j <= l
  BY <1>1, LeastNode
<1>3. PICK k \in S : j = N - k
  BY <1>2
<1>4. ASSUME NEW l \in S PROVE l <= k
  <2>1. N - k <= N - l
    BY <1>2, <1>3
  <2> QED
    BY <2>1 DEF Nodes
<1> QED
  BY <1>4

\* Above is well defined: it is what its definition says.
LEMMA AboveIs ==
  ASSUME Tree
  PROVE  Above = [n \in Nodes |-> IF n = 0 THEN {0} ELSE {n} \cup Above[parent[n]]]
<1> DEFINE Is(f, m) ==
      f = [n \in 0..m |-> IF n = 0 THEN {0} ELSE {n} \cup f[parent[n]]]
<1>1. ASSUME NEW m \in Nodes PROVE \E f : Is(f, m)
  <2> DEFINE Not == {k \in Nodes : ~\E f : Is(f, k)}
  <2> SUFFICES ASSUME Not # {} PROVE FALSE
    OBVIOUS
  <2>1. PICK k \in Not : \A l \in Not : k <= l
    BY LeastNode
  <2>2. CASE k = 0
    <3>1. Is([n \in 0..0 |-> {0}], 0)
      OBVIOUS
    <3> QED
      BY <2>1, <2>2, <3>1
  <2>3. CASE k # 0
    <3>1. k - 1 \in Nodes /\ k \in Nat
      BY <2>1, <2>3 DEF Nodes
    <3>2. k - 1 \notin Not
      <4>1. ~(k <= k - 1)
        BY <3>1
      <4> HIDE DEF Not
      <4> QED
        BY <2>1, <4>1
    <3>3. PICK f : Is(f, k - 1)
      BY <3>1, <3>2
    <3> DEFINE g == [n \in 0..k |-> IF n = k THEN {k} \cup f[parent[k]] ELSE f[n]]
    <3>4. ASSUME NEW n \in 0..k
          PROVE  g[n] = IF n = 0 THEN {0} ELSE {n} \cup g[parent[n]]
      <4>1. n # 0 => parent[n] \in 0..(k - 1) /\ parent[n] # k
        BY <3>1, <3>4 DEF Tree, Nodes
      <4>2. n # k => n \in 0..(k - 1)
        BY <3>1, <3>4
      <4>3. n # k => f[n] = IF n = 0 THEN {0} ELSE {n} \cup f[parent[n]]
        BY <3>3, <4>2
      <4>4. CASE n = k
        BY <2>3, <3>4, <4>1, <4>4
      <4>5. CASE n # k
        <5>1. g[n] = f[n]
          BY <3>4, <4>5
        <5>2. n # 0 => g[parent[n]] = f[parent[n]]
          <6>1. n # 0 => parent[n] \in 0..k
            BY <3>1, <4>1
          <6> QED
            BY <4>1, <6>1
        <5> QED
          BY <4>3, <4>5, <5>1, <5>2
      <4> QED
        BY <4>4, <4>5
    <3>5. Is(g, k)
      BY <3>4
    <3> QED
      BY <2>1, <3>5
  <2> QED
    BY <2>2, <2>3
<1>2. N \in Nodes
  BY DEF Nodes
<1>3. \E f : f = [n \in Nodes |-> IF n = 0 THEN {0} ELSE {n} \cup f[parent[n]]]
  BY <1>1, <1>2 DEF Nodes
<1> QED
  BY <1>3 DEF Above

LEMMA AboveStep ==
  ASSUME Tree, NEW n \in Nodes
  PROVE  /\ n = 0 => Above[n] = {0}
         /\ n # 0 => Above[n] = {n} \cup Above[parent[n]] /\ parent[n] \in Nodes /\ parent[n] < n
         /\ n \in Above[n]
<1>1. Above[n] = IF n = 0 THEN {0} ELSE {n} \cup Above[parent[n]]
  BY AboveIs
<1>2. n # 0 => parent[n] \in Nodes /\ parent[n] < n
  BY DEF Tree
<1> QED
  BY <1>1, <1>2

\* What holds of a node and, with an entry, of its directory holds of all above.
LEMMA AboveWithin ==
  ASSUME Tree, NEW S \in SUBSET Nodes, \A k \in S \ {0} : parent[k] \in S, NEW n \in S
  PROVE  Above[n] \subseteq S
<1> DEFINE Not == {k \in S : ~(Above[k] \subseteq S)}
<1> SUFFICES ASSUME Not # {} PROVE FALSE
  OBVIOUS
<1>1. PICK k \in Not : \A l \in Not : k <= l
  BY LeastNode
<1>2. k # 0 /\ k \in Nodes /\ k \in S
  BY <1>1, AboveStep
<1>3. /\ Above[k] = {k} \cup Above[parent[k]] /\ parent[k] < k
      /\ parent[k] \in S /\ parent[k] \in Nodes
  BY <1>2, AboveStep
<1>4. parent[k] \notin Not
  <2>1. ~(k <= parent[k])
    BY <1>2, <1>3 DEF Nodes
  <2> HIDE DEF Not
  <2> QED
    BY <1>1, <2>1
<1> QED
  BY <1>1, <1>2, <1>3, <1>4

\* With a node, its directory is above; all above has smaller numbers.
LEMMA AboveClosed ==
  ASSUME Tree, NEW n \in Nodes
  PROVE  /\ Above[n] \subseteq Nodes
         /\ \A m \in Above[n] : m <= n
         /\ \A m \in Above[n] \ {0} : parent[m] \in Above[n]
<1>1. ASSUME NEW k \in Nodes PROVE Above[k] \subseteq 0..k
  <2>1. 0..k \in SUBSET Nodes /\ k \in 0..k
    BY DEF Nodes
  <2>2. \A l \in (0..k) \ {0} : parent[l] \in 0..k
    <3> SUFFICES ASSUME NEW l \in 0..k, l # 0 PROVE parent[l] \in 0..k
      OBVIOUS
    <3>1. l \in Nodes /\ parent[l] \in Nodes /\ parent[l] < l
      BY AboveStep DEF Nodes
    <3> QED
      BY <3>1 DEF Nodes
  <2> QED
    BY <2>1, <2>2, AboveWithin
<1>2. \A m \in Above[n] \ {0} : parent[m] \in Above[n]
  <2> DEFINE Closed(k) == \A m \in Above[k] \ {0} : parent[m] \in Above[k]
             Not == {k \in Nodes : ~Closed(k)}
  <2> SUFFICES ASSUME Not # {} PROVE FALSE
    OBVIOUS
  <2>1. PICK k \in Not : \A l \in Not : k <= l
    BY LeastNode
  <2>2. k # 0
    BY <2>1, AboveStep
  <2>3. /\ Above[k] = {k} \cup Above[parent[k]] /\ parent[k] < k
        /\ parent[k] \in Nodes /\ parent[k] \in Above[parent[k]]
    BY <2>1, <2>2, AboveStep
  <2>4. parent[k] \notin Not
    <3>1. ~(k <= parent[k])
      BY <2>1, <2>3 DEF Nodes
    <3> HIDE DEF Not
    <3> QED
      BY <2>1, <3>1
  <2> QED
    BY <2>1, <2>3, <2>4
<1>3. Above[n] \subseteq 0..n
  BY <1>1
<1> QED
  BY <1>2, <1>3 DEF Nodes

-----------------------------------------------------------------------------
(* The result of the walks.                                                *)

\* When a walk has returned, a node was looked at unless something above it
\* kept the walk out.
LEMMA ReachedFromAbove ==
  ASSUME WalkInv, Done, NEW n \in present, \A m \in Above[n] \ {n} : ~Barred(m)
  PROVE  Above[n] \ {0} \subseteq read
<1>1. Tree /\ n \in Nodes /\ present \subseteq Nodes
  BY DEF WalkInv, WalkTypeOK
<1>2. Above[n] \subseteq present
  BY <1>1, AboveWithin DEF WalkInv, ReadFromAbove
<1> DEFINE Missed == (Above[n] \ {0}) \ read
<1> SUFFICES ASSUME Missed # {} PROVE FALSE
  OBVIOUS
<1>3. PICK k \in Missed : \A l \in Missed : k <= l
  BY <1>1, <1>2, LeastNode
<1>4. k \in Nodes /\ k # 0 /\ parent[k] \in Nodes /\ parent[k] < k /\ k <= n
  BY <1>1, <1>2, <1>3, AboveStep, AboveClosed
<1>5. parent[k] \in Above[n] /\ parent[k] # n
  BY <1>1, <1>3, <1>4, AboveClosed DEF Nodes
<1>6. parent[k] \notin Missed
  <2>1. ~(k <= parent[k])
    BY <1>4 DEF Nodes
  <2> HIDE DEF Missed
  <2> QED
    BY <1>3, <2>1
<1>7. parent[k] = 0 \/ parent[k] \in read
  BY <1>5, <1>6
<1>8. Opened(parent[k])
  <2>1. kind[parent[k]] = "dir"
    BY <1>1, <1>4 DEF Tree
  <2>2. ~Barred(parent[k])
    BY <1>5
  <2> QED
    BY <1>4, <1>7, <2>1, <2>2 DEF Opened, Done, Barred
<1>9. ~OnStack(parent[k])
  BY DEF Done, OnStack
<1>10. k \in present
  BY <1>2, <1>3
<1> QED
  BY <1>3, <1>4, <1>8, <1>9, <1>10 DEF WalkInv, ReadToEnd

LEMMA SweptWhenDone == WalkInv => SweptClean
<1> SUFFICES ASSUME WalkInv, Done, walk = "rmtree", NEW n \in present \ {0},
                    \A m \in Nodes : Barred(m) => m \notin Above[n] /\ n \notin Above[m]
             PROVE  FALSE
  BY DEF SweptClean
<1>1. Tree /\ n \in Nodes /\ present \subseteq Nodes
  BY DEF WalkInv, WalkTypeOK
<1>2. n \in read
  <2>1. \A m \in Above[n] \ {n} : ~Barred(m)
    BY <1>1, AboveClosed
  <2> QED
    BY <1>1, <2>1, ReachedFromAbove, AboveStep
<1> DEFINE Below == {d \in present : n \in Above[d]}
<1>3. \A d \in Below : d # 0 /\ d \in Nodes /\ ~Barred(d)
  BY <1>1, AboveStep
<1>4. Below \subseteq read
  <2> DEFINE Missed == Below \ read
  <2> SUFFICES ASSUME Missed # {} PROVE FALSE
    OBVIOUS
  <2>1. PICK d \in Missed : \A l \in Missed : d <= l
    BY <1>1, LeastNode
  <2>2. d \in Below /\ d # 0 /\ d \in Nodes /\ d \in present /\ d # n /\ d \notin read
    BY <1>2, <1>3, <2>1
  <2>3. /\ Above[d] = {d} \cup Above[parent[d]]
        /\ parent[d] \in Nodes /\ parent[d] < d
    BY <1>1, <2>2, AboveStep
  <2>4. parent[d] \in Below
    BY <2>2, <2>3 DEF WalkInv, ReadFromAbove
  <2>5. parent[d] \notin Missed
    <3>1. ~(d <= parent[d])
      BY <2>2, <2>3 DEF Nodes
    <3> HIDE DEF Missed
    <3> QED
      BY <2>1, <3>1
  <2>6. parent[d] \in read /\ ~Barred(parent[d])
    BY <1>3, <2>4, <2>5
  <2>7. Opened(parent[d]) /\ ~OnStack(parent[d])
    BY <1>1, <2>2, <2>6 DEF Opened, Barred, Done, OnStack, Tree
  <2> QED
    BY <2>2, <2>7 DEF WalkInv, ReadToEnd
<1>5. n \in Below
  BY <1>1, AboveStep
<1>6. PICK d \in Below : \A l \in Below : l <= d
  BY <1>1, <1>5, GreatestNode
<1>7. d \in read /\ d \in present /\ ~Barred(d) /\ ~OnStack(d) /\ d \in Nodes
  BY <1>3, <1>4, <1>6 DEF Done, OnStack
<1>8. PICK k \in present \ {0} : parent[k] = d
  BY <1>7 DEF WalkInv, LeftForAReason, Entries
<1>9. k \in Nodes /\ Above[k] = {k} \cup Above[d] /\ d < k
  BY <1>1, <1>8, AboveStep
<1>10. k \in Below
  BY <1>6, <1>8, <1>9
<1>11. ~(k <= d)
  BY <1>7, <1>9 DEF Nodes
<1> QED
  BY <1>6, <1>10, <1>11

LEMMA OwnedWhenDone == WalkInv => OwnedButLinks
<1> SUFFICES ASSUME WalkInv, Done, walk = "chown", NEW n \in Nodes,
                    \A m \in Above[n] \ {n} : m \notin unopened
             PROVE  n \in owned \/ kind[n] = "link"
  BY DEF OwnedButLinks
<1>1. Tree /\ n \in present /\ home = Nodes
  BY DEF WalkInv, WalkTypeOK, GivenWhenRead, Tree
<1>2. \A m \in Above[n] \ {n} : ~Barred(m)
  BY <1>1, AboveClosed DEF Barred
<1>3. n = 0 \/ n \in read
  BY <1>1, <1>2, ReachedFromAbove, AboveStep
<1> QED
  BY <1>3 DEF WalkInv, GivenWhenRead, Done

\* When mount_rmtree has returned, what is left of the initrd is what is above,
\* below or at something of another file system or a directory that could not
\* be opened: no tree is too deep and no order of readdir makes it forget.
THEOREM RmtreeSweeps == WalkSpec => []SweptClean
BY SweptWhenDone, WalkInvariant, PTL

\* When mount_chown_root has returned, all but the links is root's, or is below
\* a directory that could not be opened.
THEOREM ChownGivesAll == WalkSpec => []OwnedButLinks
BY OwnedWhenDone, WalkInvariant, PTL

=============================================================================
