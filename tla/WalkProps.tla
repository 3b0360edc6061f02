----------------------------- MODULE WalkProps ------------------------------
(***************************************************************************)
(* The properties of the walks over the initrd.                            *)
(***************************************************************************)
EXTENDS TreeWalk

\* The variables have their types.
WalkTypeOK ==
  /\ Tree
  /\ started \in BOOLEAN
  /\ stack \in Seq(Nodes)
  /\ {read, unopened, present, owned} \subseteq SUBSET Nodes

\* Nothing of another file system is removed, nor is a directory of one read:
\* mount_rmtree runs with the new root mounted below "/".
ForeignKept ==
  /\ Nodes \ home \subseteq present
  /\ \A n \in read : parent[n] \in home

\* A node and the directories above it.
Above[n \in Nodes] == IF n = 0 THEN {0} ELSE {n} \cup Above[parent[n]]
Barred(n) == n \notin home \/ n \in unopened

\* When mount_rmtree returns, all that is left of the initrd is "/", the way
\* to what is mounted, and what is in or above a directory that could not be
\* opened.
SweptClean ==
  Done /\ walk = "rmtree" =>
    \A n \in present \ {0} :
      \E m \in Nodes : Barred(m) /\ (m \in Above[n] \/ n \in Above[m])

\* When mount_chown_root returns ("chown *everything*"), all belongs to root but
\* the symbolic links, which chown follows, and what is in a directory that
\* could not be opened.
OwnedButLinks ==
  Done /\ walk = "chown" =>
    \A n \in Nodes : \/ n \in owned
                     \/ kind[n] = "link"
                     \/ \E m \in Above[n] \ {n} : m \in unopened

-----------------------------------------------------------------------------

\* The inductive invariant.

OnStack(n) == \E i \in 1..Len(stack) : stack[i] = n

\* The open directories lead from "/" downwards.
StackLeadsDown ==
  /\ \A i \in 1..Len(stack) :
       /\ stack[i] \in home \cap present
       /\ kind[stack[i]] = "dir"
       /\ stack[i] \notin unopened
       /\ IF i = 1 THEN stack[i] = 0
                   ELSE stack[i] \in read /\ parent[stack[i]] = stack[i - 1]
  /\ \A i, j \in 1..Len(stack) : i < j => stack[i] < stack[j]
  /\ stack # << >> => started

\* The directories that were opened: "/" and those that readdir returned.
Opened(d) ==
  /\ started /\ (d = 0 \/ d \in read)
  /\ d \in home \ unopened
  /\ kind[d] = "dir"

\* Everything in a directory that was read to its end has been looked at.
ReadToEnd ==
  \A n \in present \ {0} : Opened(parent[n]) /\ ~OnStack(parent[n]) => n \in read

\* What mount_rmtree looked at and left behind is on another file system,
\* could not be opened, is being read, or holds something itself.
LeftForAReason ==
  walk = "rmtree" =>
    \A n \in read \cap present : \/ Barred(n)
                                 \/ OnStack(n)
                                 \/ Entries(n) # {}

\* mount_chown_root gives away what it looks at, and removes nothing.
GivenWhenRead ==
  walk = "chown" =>
    /\ present = Nodes
    /\ started => 0 \in owned
    /\ \A n \in read : n \in owned \/ kind[n] = "link"

\* Nothing was looked at before its directory was opened, and nothing exists
\* in a directory that was removed.
ReadFromAbove ==
  /\ 0 \notin read
  /\ \A n \in read : Opened(parent[n])
  /\ \A n \in present : parent[n] \in present
  /\ unopened \subseteq read \cup {0}
  /\ 0 \in present
  /\ ~started => read = {} /\ unopened = {}

WalkInv ==
  /\ WalkTypeOK
  /\ StackLeadsDown
  /\ ReadToEnd
  /\ LeftForAReason
  /\ GivenWhenRead
  /\ ReadFromAbove
  /\ ForeignKept

=============================================================================
