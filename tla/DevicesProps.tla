---------------------------- MODULE DevicesProps ----------------------------
(***************************************************************************)
(* The properties of the search for block devices.                         *)
(***************************************************************************)
EXTENDS Devices

\* The variables have their types.
DevicesTypeOK ==
  /\ uuid     \in [Devs -> Uuids \cup {None}]
  /\ readable \in SUBSET Devs
  /\ devs     \in SUBSET Devs
  /\ job      \in {"mds", "vols", "open", "failed", "crashed"}
  /\ k        \in Nat \ {0}
  /\ phase    \in {"key", "next", "scan", "use"}
  /\ dir      \in BOOLEAN
  /\ unread   \in SUBSET devs
  /\ ptr      \in Devs \cup {None}
  /\ list     \in Seq(Devs)
  /\ fds      \in Nat
  /\ tries    \in 0..MaxAttempts
  /\ assembled \in SUBSET (1..Len(Arrays))

Searching == job \in {"mds", "vols"} /\ phase \in {"scan", "use"}

\* The first device of a list has the wanted UUID, although the pointer to it
\* may be stale: it is the one that mount_decrypt opens.
FirstIsRight == Searching /\ list # << >> => uuid[list[1]] = Wanted

\* What is listed wrongly ("The device path(s) for the requested UUID") has no
\* UUID at all, never one of its own.
OthersHaveNone ==
  Searching => \A i \in 1..Len(list) : uuid[list[i]] \in {Wanted, None}

\* A device that was read and has the wanted UUID is listed, and none twice.
NoneMissed ==
  Searching =>
    /\ dir => \A d \in (devs \cap readable) \ unread :
                uuid[d] = Wanted => d \in Elems(list)
    /\ \A i, j \in 1..Len(list) : list[i] = list[j] => i = j

\* mount_mds returns 0 whatever fails, but a failure ends it: what is in /dev
\* are the arrays before the failing one and none behind it, and the arrays are
\* assembled in the order of the configuration.
UpTo(n) == assembled = 1..n /\ devs = Disks \cup {Md[j] : j \in 1..n}
StopsAtFailure == \E n \in 0..Len(Arrays) : UpTo(n)

\* The directories that stay open are bounded, as long as no volume is
\* missing: one for each array, and one for each volume and key.
There(u) == \E d \in devs \cap readable : uuid[d] = u
AllThere == \A v \in Elems(Volumes) : There(v)
LeakBounded ==
  job = "vols" /\ AllThere =>
    fds <= Len(Arrays) + (tries + 1) * Len(Volumes)

\* With that many descriptors and no volume missing, a key that was typed is
\* answered: all volumes are open, the tries are used up, or another key is
\* asked for.
KeysAnswered ==
  job = "vols" /\ phase # "key" /\ AllThere
    ~> phase = "key" \/ job \in {"open", "failed"}

\* The host is open or lost, or the search for its volumes is a step further:
\* another try, the next volume, the key typed, or less of /dev to read.
Further ==
  \/ job' \in {"open", "failed"}
  \/ job' = "vols" /\ tries' > tries
  \/ job' = "vols" /\ tries' = tries /\ k' > k
  \/ /\ job' = "vols" /\ tries' = tries /\ k' = k
     /\ \/ phase = "key" /\ phase' = "next"
        \/ phase = "next" /\ phase' = "scan"
        \/ phase = "scan" /\ phase' = "scan" /\ unread' \subseteq unread
                          /\ unread' # unread
        \/ phase = "scan" /\ phase' = "use"

\* What makes the keys answered, but for fairness: with the descriptors that
\* LeakBounded asks for, every step is one further, and "continue" with the same
\* volume is never taken.
EnoughFds == Len(Arrays) + MaxAttempts * Len(Volumes) <= MaxFds
SearchAdvances ==
  [][EnoughFds /\ job = "vols" /\ AllThere => Further /\ AllThere']_devicesVars

-----------------------------------------------------------------------------

\* The inductive invariant of a scan.

\* The pointer is into a device that has a UUID and was read in this scan.
PointerWasRead ==
  Searching /\ ptr # None =>
    /\ ptr \in (devs \cap readable) \ unread
    /\ uuid[ptr] # None

\* Where the pointer says yes, the list has a device.
YesIsListed == Searching /\ ptr # None /\ uuid[ptr] = Wanted => list # << >>

ListWasRead ==
  /\ Searching => /\ k <= Len(Listed)
                  /\ Elems(list) \subseteq (devs \cap readable) \ unread
  /\ job \notin {"mds", "vols"} => phase = "next"

TriesLeft == job \in {"mds", "vols"} => tries < MaxAttempts

DevicesInv ==
  /\ DevicesTypeOK
  /\ PointerWasRead
  /\ YesIsListed
  /\ ListWasRead
  /\ FirstIsRight
  /\ OthersHaveNone
  /\ NoneMissed
  /\ TriesLeft

\* The arrays before the one that is looked at are assembled.
AssembledSoFar == StopsAtFailure /\ (job = "mds" => UpTo(k - 1))

\* The directories opened so far: one for each scan that could open /dev, and
\* with every volume there a scan is repeated only if it could not.
Extra == IF phase \in {"scan", "use"} /\ dir THEN 1 ELSE 0

LeakCounted ==
  /\ phase = "use" => unread = {}
  /\ job \in {"mds", "vols"} => k <= Len(Listed) + 1
  /\ job = "mds" => fds <= k - 1 + Extra
  /\ job = "vols" /\ AllThere =>
       fds <= Len(Arrays) + tries * Len(Volumes) + (k - 1) + Extra

\* /dev cannot be opened only when no descriptor is left.
RefusedWhenFull == phase \in {"scan", "use"} /\ ~dir => fds >= MaxFds

=============================================================================
