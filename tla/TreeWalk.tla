------------------------------ MODULE TreeWalk ------------------------------
(***************************************************************************)
(* The two recursive walks over the initrd (mount.c): mount_chown_root,    *)
(* which main runs before anything is mounted, and mount_rmtree, with      *)
(* which mount_switch_root deletes the initrd under the mounted root.      *)
(*                                                                         *)
(* The functions are each other's copy, but for what they do to a node:    *)
(* one gives it to root on the way down, the other removes it on the way   *)
(* up.  The recursion is a stack of open directories; readdir returns      *)
(* their entries in any order, each once.                                  *)
(***************************************************************************)
EXTENDS Integers, Sequences

CONSTANTS
  N,        \* the nodes of the tree are 0..N; 0 is "/"
  MaxOpen   \* directories that can be open at a time: opendir fails beyond

ASSUME WalkAssumption == N \in Nat /\ MaxOpen \in Nat

Nodes == 0..N
Nowhere == N + 1   \* where a dangling link leads

VARIABLES
  walk,      \* which function runs; fixed
  parent,    \* the directory a node is an entry of; fixed
  kind,      \* S_ISDIR and, for chown, whether it is a symbolic link; fixed
  home,      \* the nodes whose st_dev is i_root_dev_in; fixed
  target,    \* what a symbolic link leads to in the end; fixed
  started,   \* the function was called
  stack,     \* the directories being read, the outermost first
  read,      \* the entries that readdir has returned
  unopened,  \* the directories that opendir refused
  present,   \* the nodes that exist
  owned      \* the nodes that belong to root

treeVars == <<walk, parent, kind, home, target>>
walkVars == <<treeVars, started, stack, read, unopened, present, owned>>

\* A tree: every directory has a smaller number than its entries.  "/" is a
\* directory of the initrd.  What is mounted holds nothing of the initrd, and
\* when the owners are changed nothing is mounted yet.  To mount_rmtree a link
\* is a file like others.
Tree ==
  /\ walk   \in {"chown", "rmtree"}
  /\ kind   \in [Nodes -> {"dir", "file", "link"}]
  /\ kind[0] = "dir"
  /\ parent \in [Nodes -> Nodes]
  /\ parent[0] = 0
  /\ \A n \in Nodes \ {0} : parent[n] < n /\ kind[parent[n]] = "dir"
  /\ home \in SUBSET Nodes
  /\ 0 \in home
  /\ \A n \in home : parent[n] \in home
  /\ walk = "chown" => home = Nodes
  /\ walk = "rmtree" => \A n \in Nodes : kind[n] # "link"
  /\ target \in [{n \in Nodes : kind[n] = "link"} ->
                   {n \in Nodes : kind[n] # "link"} \cup {Nowhere}]

\* The image is packed by whoever builds it: nothing belongs to root.
WalkInit ==
  /\ Tree
  /\ started  = FALSE
  /\ stack    = << >>
  /\ read     = {}
  /\ unopened = {}
  /\ present  = Nodes
  /\ owned    = {}

-----------------------------------------------------------------------------

\* The entries of a directory, "." and ".." aside.
Entries(d) == {n \in present \ {0} : parent[n] = d}

Here == stack[Len(stack)]

\* "Don't descend into other filesystems."  (MUTANT: not compared.)
OursUnchecked(n) == TRUE
Ours(n) == n \in home

\* What chown gives to root: it follows links.
\* (MUTANT: only directories.)
GivenDirs(n) == IF kind[n] = "dir" THEN {n} ELSE {}
Given(n) == IF kind[n] = "link" THEN {target[n]} \ {Nowhere} ELSE {n}

\* A directory is opened and read, unless there is no descriptor left.
OpenDir(d) ==
  IF Len(stack) < MaxOpen
    THEN stack' = Append(stack, d) /\ UNCHANGED unopened
    ELSE unopened' = unopened \cup {d} /\ UNCHANGED stack

\* The call of the function for a node.
Enter(n) ==
  IF ~Ours(n)
    THEN UNCHANGED <<stack, unopened, present, owned>>
    ELSE /\ owned' = IF walk = "chown" THEN owned \cup Given(n) ELSE owned
         /\ \/ /\ kind[n] = "dir"
               /\ OpenDir(n)
               /\ UNCHANGED present
            \/ /\ kind[n] # "dir"
               /\ present' = IF walk = "rmtree" THEN present \ {n} ELSE present
               /\ UNCHANGED <<stack, unopened>>

Call ==
  /\ ~started
  /\ started' = TRUE
  /\ Enter(0)
  /\ UNCHANGED <<treeVars, read>>

\* readdir returns an entry, and the function recurses.
Descend ==
  /\ stack # << >>
  /\ \E n \in Entries(Here) \ read :
       /\ read' = read \cup {n}
       /\ Enter(n)
  /\ UNCHANGED <<treeVars, started>>

\* rmdir removes a directory that is empty, and never "/".  (MUTANT: the call
\* is left out.)
NotZapped(d) == present
Zapped(d) ==
  IF walk = "rmtree" /\ d # 0 /\ Entries(d) = {} THEN present \ {d} ELSE present

\* The directory is read to its end.
Leave ==
  /\ stack # << >>
  /\ Entries(Here) \subseteq read
  /\ stack' = SubSeq(stack, 1, Len(stack) - 1)
  /\ present' = Zapped(Here)
  /\ UNCHANGED <<treeVars, started, read, unopened, owned>>

WalkNext == Call \/ Descend \/ Leave
WalkSpec == WalkInit /\ [][WalkNext]_walkVars

Done == started /\ stack = << >>

=============================================================================
