--------------------------- MODULE DevicesProofs ----------------------------
(***************************************************************************)
(* Proofs about the search for block devices, for every host.              *)
(*                                                                         *)
(* The argument: the pointer that the scan carries from device to device   *)
(* is stale only after it was fresh, and when it was fresh and right its   *)
(* device was listed.  A wrong device can therefore never be the first.    *)
(***************************************************************************)
EXTENDS DevicesProps, TLAPS

USE DevicesAssumption

-----------------------------------------------------------------------------
(* One entry of /dev.                                                      *)

\* Appending to a list.
LEMMA Appended ==
  ASSUME NEW S, NEW s \in Seq(S), NEW e \in S
  PROVE  /\ Append(s, e) \in Seq(S)
         /\ Len(Append(s, e)) = Len(s) + 1 /\ Len(s) \in Nat
         /\ Append(s, e)[Len(s) + 1] = e
         /\ \A i \in 1..Len(s) : Append(s, e)[i] = s[i]
         /\ Elems(Append(s, e)) = Elems(s) \cup {e}
<1>1. /\ Append(s, e) \in Seq(S)
      /\ Len(Append(s, e)) = Len(s) + 1 /\ Len(s) \in Nat
      /\ Append(s, e)[Len(s) + 1] = e
      /\ \A i \in 1..Len(s) : Append(s, e)[i] = s[i]
  OBVIOUS
<1>2. ASSUME NEW x \in Elems(Append(s, e)) PROVE x \in Elems(s) \cup {e}
  BY <1>1, <1>2 DEF Elems
<1>3. ASSUME NEW x \in Elems(s) \cup {e} PROVE x \in Elems(Append(s, e))
  BY <1>1, <1>3 DEF Elems
<1> QED
  BY <1>1, <1>2, <1>3

\* A step of Probe in facts.
LEMMA ProbeFacts ==
  ASSUME DevicesInv, Probe
  PROVE  \E d \in unread :
           /\ d \in devs /\ d \in Devs /\ Searching
           /\ unread' = unread \ {d}
           /\ d \notin readable => ptr' = ptr /\ list' = list
           /\ d \in readable /\ uuid[d] = None => ptr' = ptr
           /\ d \in readable /\ uuid[d] # None => ptr' = d
           /\ \/ list' = list
              \/ /\ d \in readable
                 /\ list' = Append(list, d)
                 /\ ptr' # None /\ uuid[ptr'] = Wanted
           /\ d \in readable /\ uuid[d] = Wanted => list' = Append(list, d)
<1>1. PICK d \in unread :
         /\ unread' = unread \ {d}
         /\ ptr' = IF d \in readable THEN Looked(d) ELSE ptr
         /\ \E match \in IF d \in readable THEN Says(ptr', d) ELSE {FALSE} :
              list' = IF match THEN Append(list, d) ELSE list
  BY DEF Probe
<1>2. d \in devs /\ d \in Devs
  BY DEF DevicesInv, DevicesTypeOK
<1>3. Searching
  BY DEF Probe, DevicesInv, ListWasRead, Searching
<1>4. Wanted # None
  BY <1>3 DEF DevicesInv, DevicesTypeOK, ListWasRead, Searching, Wanted, Listed
<1>5. CASE d \notin readable
  BY <1>1, <1>2, <1>3, <1>5
<1>6. CASE d \in readable
  <2>1. ptr' = Looked(d)
    BY <1>1, <1>6
  <2>2. PICK match \in Says(ptr', d) : list' = IF match THEN Append(list, d) ELSE list
    BY <1>1, <1>6
  <2>3. match => ptr' # None /\ uuid[ptr'] = Wanted
    BY <2>2 DEF Says
  <2>4. uuid[d] = Wanted => match
    BY <1>2, <1>4, <2>1, <2>2 DEF Says, Looked
  <2> QED
    BY <1>1, <1>2, <1>3, <1>6, <2>1, <2>2, <2>3, <2>4 DEF Looked
<1> QED
  BY <1>5, <1>6

LEMMA ProbeKeeps ==
  ASSUME DevicesInv, Probe
  PROVE  DevicesInv'
<1>1. PICK d \in unread :
           /\ d \in devs /\ d \in Devs /\ Searching
           /\ unread' = unread \ {d}
           /\ d \notin readable => ptr' = ptr /\ list' = list
           /\ d \in readable /\ uuid[d] = None => ptr' = ptr
           /\ d \in readable /\ uuid[d] # None => ptr' = d
           /\ \/ list' = list
              \/ /\ d \in readable
                 /\ list' = Append(list, d)
                 /\ ptr' # None /\ uuid[ptr'] = Wanted
           /\ d \in readable /\ uuid[d] = Wanted => list' = Append(list, d)
  BY ProbeFacts
<1>2. UNCHANGED <<uuid, readable, devs, job, k, tries, assembled, phase, dir, fds>>
  BY DEF Probe, fixedVars, jobVars
<1>3. list \in Seq(Devs) /\ ptr \in Devs \cup {None} /\ Len(list) \in Nat
  BY DEF DevicesInv, DevicesTypeOK
<1>4. Wanted' = Wanted /\ (Searching' <=> Searching) /\ Listed' = Listed
  BY <1>2 DEF Wanted, Searching, Listed
<1>5. list' = Append(list, d) =>
        /\ list' \in Seq(Devs)
        /\ Len(list') = Len(list) + 1
        /\ list'[Len(list) + 1] = d
        /\ \A i \in 1..Len(list) : list'[i] = list[i]
        /\ Elems(list') = Elems(list) \cup {d}
  BY <1>1, <1>3, Appended
<1>6. DevicesTypeOK'
  BY <1>1, <1>2, <1>3, <1>5 DEF DevicesInv, DevicesTypeOK
<1>7. PointerWasRead'
  BY <1>1, <1>2, <1>4 DEF DevicesInv, PointerWasRead
<1>8. ListWasRead'
  BY <1>1, <1>2, <1>4, <1>5 DEF DevicesInv, ListWasRead
\* A pointer that says yes of another device was right when it was fresh.
<1>9. ptr' # None /\ uuid[ptr'] = Wanted => list' # << >> /\ (list # << >> \/ ptr' = d)
  <2>1. CASE ptr' = d
    <3>1. d # None
      BY <1>1
    <3> QED
      BY <1>1, <1>3, <1>5, <2>1, <3>1 DEF DevicesInv, YesIsListed
  <2>2. CASE ptr' # d
    <3>1. ptr' = ptr
      BY <1>1, <2>2
    <3>2. ptr' # None /\ uuid[ptr'] = Wanted => list # << >>
      BY <1>1, <3>1 DEF DevicesInv, YesIsListed
    <3> QED
      BY <1>1, <1>3, <1>5, <3>2
  <2> QED
    BY <2>1, <2>2
<1>10. YesIsListed'
  BY <1>2, <1>4, <1>9 DEF YesIsListed
<1>11. FirstIsRight'
  <2>1. CASE list' = list
    BY <1>2, <1>4, <2>1 DEF DevicesInv, FirstIsRight
  <2>2. CASE list' = Append(list, d) /\ list # << >>
    <3>1. list'[1] = list[1]
      BY <1>3, <1>5, <2>2
    <3> QED
      BY <1>1, <1>2, <1>4, <2>2, <3>1 DEF DevicesInv, FirstIsRight
  <2>3. CASE list' = Append(list, d) /\ list = << >> /\ list' # list
    <3>1. list'[1] = d
      BY <1>3, <1>5, <2>3
    <3>2. ptr' = d /\ uuid[ptr'] = Wanted
      BY <1>1, <1>9, <2>3
    <3> QED
      BY <1>2, <1>4, <3>1, <3>2 DEF FirstIsRight
  <2> QED
    BY <1>1, <2>1, <2>2, <2>3
<1>12. OthersHaveNone'
  <2>1. CASE list' = list
    BY <1>2, <1>4, <2>1 DEF DevicesInv, OthersHaveNone
  <2>2. CASE list' = Append(list, d) /\ list' # list
    <3>1. uuid[d] \in {Wanted, None}
      BY <1>1, <2>2
    <3> QED
      BY <1>1, <1>2, <1>3, <1>4, <1>5, <2>2, <3>1 DEF DevicesInv, OthersHaveNone
  <2> QED
    BY <1>1, <2>1, <2>2
<1>13. NoneMissed'
  <2>1. dir => \A e \in (devs \cap readable) \ unread' : uuid[e] = Wanted => e \in Elems(list')
    <3> SUFFICES ASSUME dir, NEW e \in (devs \cap readable) \ unread', uuid[e] = Wanted
                 PROVE  e \in Elems(list')
      OBVIOUS
    <3>1. CASE e = d
      BY <1>1, <1>5, <3>1
    <3>2. CASE e # d
      <4>1. e \in Elems(list)
        BY <1>1, <3>2 DEF DevicesInv, NoneMissed
      <4> QED
        BY <1>1, <1>5, <4>1
    <3> QED
      BY <3>1, <3>2
  <2>2. \A i \in 1..Len(list) : list[i] # d
    BY <1>1 DEF DevicesInv, ListWasRead, Elems
  <2>3. \A i, j \in 1..Len(list') : list'[i] = list'[j] => i = j
    <3>1. CASE list' = list
      BY <1>1, <3>1 DEF DevicesInv, NoneMissed
    <3>2. CASE list' = Append(list, d)
      <4>1. \A i, j \in 1..Len(list) : list[i] = list[j] => i = j
        BY <1>1 DEF DevicesInv, NoneMissed
      <4>2. \A i \in 1..Len(list') : i \in 1..Len(list) \/ i = Len(list) + 1
        BY <1>3, <1>5, <3>2
      <4> QED
        BY <1>5, <2>2, <3>2, <4>1, <4>2
    <3> QED
      BY <1>1, <3>1, <3>2
  <2> QED
    BY <1>2, <1>4, <2>1, <2>3 DEF NoneMissed
<1>14. TriesLeft'
  BY <1>2 DEF DevicesInv, TriesLeft
<1> QED
  BY <1>6, <1>7, <1>8, <1>10, <1>11, <1>12, <1>13, <1>14 DEF DevicesInv

-----------------------------------------------------------------------------
(* The other steps.                                                        *)

LEMMA ScanKeeps ==
  ASSUME DevicesInv, Scan
  PROVE  DevicesInv'
<1>1. /\ UNCHANGED <<uuid, readable, devs, job, k, tries, assembled>>
      /\ phase' = "scan" /\ job \in {"mds", "vols"} /\ k <= Len(Listed)
      /\ ptr' = None /\ list' = << >>
      /\ unread' = (IF dir' THEN devs ELSE {})
      /\ fds' = (IF dir' THEN fds + 1 ELSE fds)
      /\ dir' \in BOOLEAN
  BY DEF Scan, OpenDev, ResetPointer, fixedVars, jobVars
<1>2. Len(list') = 0 /\ list' \in Seq(Devs) /\ Elems(list') = {}
  BY <1>1 DEF Elems
<1>3. DevicesTypeOK'
  BY <1>1, <1>2 DEF DevicesInv, DevicesTypeOK
<1>4. PointerWasRead' /\ YesIsListed'
  BY <1>1 DEF PointerWasRead, YesIsListed
<1>5. ListWasRead'
  BY <1>1, <1>2 DEF ListWasRead, Listed
<1>6. FirstIsRight' /\ OthersHaveNone'
  BY <1>1, <1>2 DEF FirstIsRight, OthersHaveNone
<1>7. NoneMissed'
  BY <1>1, <1>2 DEF NoneMissed
<1>8. TriesLeft'
  BY <1>1 DEF DevicesInv, TriesLeft
<1> QED
  BY <1>3, <1>4, <1>5, <1>6, <1>7, <1>8 DEF DevicesInv

LEMMA FoundKeeps ==
  ASSUME DevicesInv, Found
  PROVE  DevicesInv'
<1>1. /\ UNCHANGED <<uuid, readable, devs, job, k, tries, assembled, dir, unread, ptr, list, fds>>
      /\ phase = "scan" /\ phase' = "use"
  BY DEF Found, fixedVars, jobVars, scanVars
<1>2. (Searching' <=> Searching) /\ Wanted' = Wanted /\ Listed' = Listed
  BY <1>1 DEF Searching, Wanted, Listed
<1>3. DevicesTypeOK'
  BY <1>1 DEF DevicesInv, DevicesTypeOK
<1>4. PointerWasRead' /\ YesIsListed'
  BY <1>1, <1>2 DEF DevicesInv, PointerWasRead, YesIsListed
<1>5. ListWasRead'
  BY <1>1, <1>2 DEF DevicesInv, ListWasRead
<1>6. FirstIsRight' /\ OthersHaveNone' /\ NoneMissed'
  BY <1>1, <1>2 DEF DevicesInv, FirstIsRight, OthersHaveNone, NoneMissed
<1>7. TriesLeft'
  BY <1>1 DEF DevicesInv, TriesLeft
<1> QED
  BY <1>3, <1>4, <1>5, <1>6, <1>7 DEF DevicesInv

\* Between two scans nothing is said of the list.
LEMMA BetweenScans ==
  ASSUME DevicesTypeOK', TriesLeft',
         phase' = "next" \/ (phase' = "key" /\ job' = "vols")
  PROVE  DevicesInv'
<1>1. ~Searching'
  BY DEF Searching
<1> QED
  BY <1>1 DEF DevicesInv, PointerWasRead, YesIsListed, ListWasRead, FirstIsRight,
              OthersHaveNone, NoneMissed

LEMMA UserKeeps ==
  ASSUME DevicesInv, MdsStep \/ VolStep \/ TypeKey
  PROVE  DevicesInv'
<1> USE DEF fixedVars, scanVars, jobVars
<1>0. DevicesTypeOK /\ TriesLeft
  BY DEF DevicesInv
<1>1. CASE Assemble
  <2>1. k \in 1..Len(Arrays)
    BY <1>0, <1>1 DEF Assemble, DevicesInv, DevicesTypeOK, ListWasRead, Searching, Listed
  <2>2. Md[k] \in Devs
    BY <2>1 DEF Devs, Elems
  <2> QED
    BY <1>0, <1>1, <2>1, <2>2, BetweenScans DEF Assemble, DevicesTypeOK, TriesLeft
<1>2. CASE AssembleFails
  BY <1>0, <1>2, BetweenScans DEF AssembleFails, DevicesTypeOK, TriesLeft
<1>3. CASE BeyondList
  BY <1>0, <1>3, BetweenScans DEF BeyondList, DevicesTypeOK, TriesLeft
<1>4. CASE ArraysDone
  BY <1>0, <1>4, BetweenScans DEF ArraysDone, DevicesTypeOK, TriesLeft
<1>5. CASE TryAgain
  BY <1>0, <1>5, BetweenScans DEF TryAgain, DevicesTypeOK, TriesLeft
<1>6. CASE Opens
  BY <1>0, <1>6, BetweenScans DEF Opens, DevicesTypeOK, TriesLeft
<1>7. CASE KeyFails
  <2>1. tries' \in 0..MaxAttempts /\ TriesLeft'
    BY <1>0, <1>7 DEF KeyFails, DevicesTypeOK, TriesLeft
  <2>2. DevicesTypeOK' /\ (phase' = "next" \/ (phase' = "key" /\ job' = "vols"))
    BY <1>0, <1>7, <2>1 DEF KeyFails, DevicesTypeOK
  <2> QED
    BY <2>1, <2>2, BetweenScans
<1>8. CASE VolumesDone
  BY <1>0, <1>8, BetweenScans DEF VolumesDone, DevicesTypeOK, TriesLeft
<1>9. CASE TypeKey
  BY <1>0, <1>9, BetweenScans DEF TypeKey, DevicesTypeOK, TriesLeft
<1> QED
  BY <1>1, <1>2, <1>3, <1>4, <1>5, <1>6, <1>7, <1>8, <1>9 DEF MdsStep, VolStep

-----------------------------------------------------------------------------
(* The directories that stay open.                                         *)

LEMMA LeakKept ==
  ASSUME DevicesInv, LeakCounted, DevicesNext
  PROVE  LeakCounted'
<1> USE DEF fixedVars, scanVars, jobVars
<1>1. /\ k \in Nat \ {0} /\ fds \in Nat /\ tries \in Nat
      /\ Len(Arrays) \in Nat /\ Len(Volumes) \in Nat
  BY DEF DevicesInv, DevicesTypeOK
<1>2. PICK all \in Nat : all = tries * Len(Volumes)
  BY <1>1
<1> DEFINE Same == UNCHANGED <<uuid, readable, devs>>
<1>3. Same => (AllThere' <=> AllThere)
  BY DEF AllThere, There
<1>4. CASE Scan
  <2>1. /\ Same /\ UNCHANGED <<job, k, tries>> /\ phase' = "scan" /\ phase = "next"
        /\ k <= Len(Listed) /\ Listed' = Listed
        /\ dir' \in BOOLEAN /\ fds' = (IF dir' THEN fds + 1 ELSE fds)
    BY <1>4 DEF Scan, OpenDev, Listed
  <2>2. Extra = 0 /\ Extra' = (IF dir' THEN 1 ELSE 0)
    BY <2>1 DEF Extra
  <2> QED
    BY <1>1, <1>2, <1>3, <2>1, <2>2 DEF LeakCounted
<1>5. CASE Probe \/ Found
  <2>1. /\ Same /\ UNCHANGED <<job, k, tries, fds, dir>>
        /\ phase' \in {"scan", "use"} /\ phase = "scan"
        /\ phase' = "use" => unread' = {}
    BY <1>5 DEF Probe, Found
  <2>2. Extra' = Extra /\ Listed' = Listed
    BY <2>1 DEF Extra, Listed
  <2> QED
    BY <1>1, <1>2, <1>3, <2>1, <2>2 DEF LeakCounted
<1>6. CASE Assemble
  <2>1. /\ job = "mds" /\ phase = "use" /\ phase' = "next"
        /\ UNCHANGED <<job, fds>> /\ k' = k + 1
    BY <1>6 DEF Assemble
  <2>2. Extra \in {0, 1} /\ Extra' = 0 /\ k <= Len(Listed) /\ Listed' = Listed
    BY <2>1 DEF Extra, Listed, DevicesInv, ListWasRead, Searching
  <2>3. fds' <= k' - 1
    BY <1>1, <2>1, <2>2 DEF LeakCounted
  <2> QED
    BY <1>1, <2>1, <2>2, <2>3 DEF LeakCounted, Listed
<1>7. CASE AssembleFails \/ ArraysDone
  <2>1. /\ job = "mds" /\ job' = "vols" /\ phase' = "key" /\ k' = 1
        /\ UNCHANGED <<fds, tries>> /\ phase \in {"use", "next"}
        /\ phase = "use" => k <= Len(Listed)
    BY <1>7 DEF AssembleFails, ArraysDone, DevicesInv, ListWasRead, Searching
  <2>2. /\ Extra' = 0 /\ Extra \in {0, 1} /\ (phase = "next" => Extra = 0)
        /\ Listed = Arrays /\ Listed' = Volumes
    BY <2>1 DEF Extra, Listed
  <2>3. fds <= Len(Arrays)
    BY <1>1, <2>1, <2>2 DEF LeakCounted
  <2>4. fds' <= Len(Arrays) + tries' * Len(Volumes) + (k' - 1) + Extra'
    <3>1. tries' * Len(Volumes) = all
      BY <1>2, <2>1
    <3>2. fds' <= Len(Arrays) + all + (k' - 1) + Extra'
      BY <1>1, <1>2, <2>1, <2>2, <2>3
    <3> QED
      BY <3>1, <3>2
  <2> QED
    BY <1>1, <2>1, <2>2, <2>4 DEF LeakCounted
<1>8. CASE BeyondList \/ VolumesDone
  BY <1>8 DEF BeyondList, VolumesDone, LeakCounted
<1>9. CASE TryAgain
  <2>1. /\ Same /\ UNCHANGED <<job, k, tries, fds>>
        /\ job = "vols" /\ phase = "use" /\ phase' = "next" /\ list = << >>
    BY <1>9 DEF TryAgain
  <2>2. Searching /\ k \in 1..Len(Volumes) /\ Wanted = Volumes[k] /\ unread = {}
    BY <1>1, <2>1 DEF Searching, DevicesInv, ListWasRead, Listed, Wanted, LeakCounted
  <2>3. ASSUME AllThere PROVE ~dir
    <3>1. PICK d \in devs \cap readable : uuid[d] = Wanted
      BY <2>2, <2>3 DEF AllThere, There, Elems
    <3>2. Elems(list) = {}
      BY <2>1 DEF Elems
    <3> QED
      BY <2>2, <3>1, <3>2 DEF DevicesInv, NoneMissed
  <2>4. Extra' = 0 /\ Listed' = Listed /\ (AllThere => Extra = 0)
    BY <2>1, <2>3 DEF Extra, Listed
  <2> QED
    BY <1>1, <1>2, <1>3, <2>1, <2>4 DEF LeakCounted
<1>10. CASE Opens
  <2>1. /\ Same /\ UNCHANGED <<job, tries, fds>> /\ k' = k + 1
        /\ job = "vols" /\ phase = "use" /\ phase' = "next"
    BY <1>10 DEF Opens
  <2>2. Extra \in {0, 1} /\ Extra' = 0 /\ k <= Len(Listed) /\ Listed' = Listed
    BY <2>1 DEF Extra, Listed, DevicesInv, ListWasRead, Searching
  <2> QED
    BY <1>1, <1>2, <1>3, <2>1, <2>2 DEF LeakCounted
<1>11. CASE KeyFails
  <2>1. /\ Same /\ fds' = fds /\ tries' = tries + 1 /\ k' = 1
        /\ job = "vols" /\ phase = "use" /\ phase' \in {"key", "next"} /\ job' # "mds"
    BY <1>11 DEF KeyFails
  <2>2. Extra \in {0, 1} /\ Extra' = 0 /\ k <= Len(Volumes) /\ (job' = "vols" => Listed' = Volumes)
    BY <2>1 DEF Extra, Listed, DevicesInv, ListWasRead, Searching
  <2>3. tries' * Len(Volumes) = all + Len(Volumes)
    BY <1>1, <1>2, <2>1
  <2>4. ASSUME AllThere PROVE fds' <= Len(Arrays) + tries' * Len(Volumes) + (k' - 1) + Extra'
    <3>1. fds <= Len(Arrays) + all + (k - 1) + Extra
      BY <1>2, <2>1, <2>4 DEF LeakCounted
    <3>2. fds' <= Len(Arrays) + (all + Len(Volumes)) + (k' - 1) + Extra'
      BY <1>1, <2>1, <2>2, <3>1
    <3> QED
      BY <2>3, <3>2
  <2> QED
    BY <1>1, <1>3, <2>1, <2>2, <2>4 DEF LeakCounted
<1>12. CASE TypeKey
  <2>1. /\ Same /\ UNCHANGED <<job, k, tries, fds>>
        /\ job = "vols" /\ phase = "key" /\ phase' = "next"
    BY <1>12 DEF TypeKey
  <2>2. Extra' = 0 /\ Extra = 0 /\ Listed' = Listed
    BY <2>1 DEF Extra, Listed
  <2> QED
    BY <1>1, <1>2, <1>3, <2>1, <2>2 DEF LeakCounted
<1> QED
  BY <1>4, <1>5, <1>6, <1>7, <1>8, <1>9, <1>10, <1>11, <1>12
     DEF DevicesNext, DevicesStep, ScanStep, MdsStep, VolStep

LEMMA LeakImplies ==
  ASSUME DevicesInv, LeakCounted
  PROVE  LeakBounded
<1> SUFFICES ASSUME job = "vols", AllThere
             PROVE  fds <= Len(Arrays) + (tries + 1) * Len(Volumes)
  BY DEF LeakBounded
<1>1. /\ k \in Nat \ {0} /\ fds \in Nat /\ tries \in Nat
      /\ Len(Arrays) \in Nat /\ Len(Volumes) \in Nat
  BY DEF DevicesInv, DevicesTypeOK
<1>2. PICK all \in Nat : all = tries * Len(Volumes)
  BY <1>1
<1>3. (tries + 1) * Len(Volumes) = all + Len(Volumes)
  BY <1>1, <1>2
<1>4. k - 1 + Extra <= Len(Volumes)
  BY <1>1 DEF LeakCounted, Listed, Extra, DevicesInv, ListWasRead, Searching
<1>5. fds <= Len(Arrays) + all + (k - 1) + Extra
  BY <1>2 DEF LeakCounted
<1>6. Extra \in {0, 1}
  BY DEF Extra
<1>7. fds <= Len(Arrays) + (all + Len(Volumes))
  BY <1>1, <1>4, <1>5, <1>6
<1> QED
  BY <1>3, <1>7

-----------------------------------------------------------------------------
(* The arrays.                                                             *)

LEMMA ArraysKept ==
  ASSUME DevicesInv, AssembledSoFar, [DevicesNext]_devicesVars
  PROVE  AssembledSoFar'
<1> USE DEF fixedVars, scanVars, jobVars
<1>1. k \in Nat \ {0} /\ Len(Arrays) \in Nat
  BY DEF DevicesInv, DevicesTypeOK
<1>2. ASSUME UNCHANGED <<devs, assembled>>, job' = job, k' = k
      PROVE  AssembledSoFar'
  BY <1>2 DEF AssembledSoFar, StopsAtFailure, UpTo
<1>3. ASSUME UNCHANGED <<devs, assembled>>, job' # "mds"
      PROVE  AssembledSoFar'
  BY <1>3 DEF AssembledSoFar, StopsAtFailure, UpTo
<1>4. CASE Assemble
  <2>1. /\ job = "mds" /\ UpTo(k - 1) /\ k' = k + 1
        /\ assembled' = assembled \cup {k} /\ devs' = devs \cup {Md[k]}
    BY <1>4 DEF Assemble, AssembledSoFar
  <2>2. k \in 1..Len(Arrays)
    BY <1>1, <1>4 DEF Assemble, DevicesInv, ListWasRead, Searching, Listed
  <2>3. 1..k = (1..k - 1) \cup {k}
    BY <1>1
  <2>4. {Md[j] : j \in 1..k} = {Md[j] : j \in 1..k - 1} \cup {Md[k]}
    BY <2>3
  <2>5. assembled' = 1..k /\ devs' = Disks \cup {Md[j] : j \in 1..k}
    BY <2>1, <2>3, <2>4 DEF UpTo
  <2>6. StopsAtFailure'
    BY <2>2, <2>5 DEF StopsAtFailure, UpTo
  <2>7. k' - 1 = k
    BY <1>1, <2>1
  <2>8. UpTo(k - 1)'
    BY <2>5, <2>7 DEF UpTo
  <2> QED
    BY <2>6, <2>8 DEF AssembledSoFar
<1>5. CASE AssembleFails \/ BeyondList \/ ArraysDone \/ VolumesDone
  BY <1>3, <1>5 DEF AssembleFails, BeyondList, ArraysDone, VolumesDone
<1>6. CASE TryAgain \/ TypeKey \/ ScanStep \/ UNCHANGED devicesVars
  BY <1>2, <1>6 DEF TryAgain, TypeKey, ScanStep, Scan, Probe, Found, devicesVars
<1>7. CASE Opens \/ KeyFails
  BY <1>3, <1>7 DEF Opens, KeyFails
<1> QED
  BY <1>4, <1>5, <1>6, <1>7 DEF DevicesNext, DevicesStep, MdsStep, VolStep

-----------------------------------------------------------------------------
(* The results.                                                            *)

LEMMA DevicesInitially == DevicesInit => DevicesInv
<1> SUFFICES ASSUME DevicesInit PROVE DevicesInv
  OBVIOUS
<1>1. DevicesTypeOK
  <2>1. list \in Seq(Devs)
    BY DEF DevicesInit
  <2>2. Disks \subseteq Devs
    BY DEF Devs
  <2>3. tries \in 0..MaxAttempts /\ k \in Nat \ {0} /\ fds \in Nat
    BY DEF DevicesInit
  <2> QED
    BY <2>1, <2>2, <2>3 DEF DevicesInit, DevicesTypeOK
<1>2. ~Searching /\ phase = "next"
  BY DEF DevicesInit, Searching
<1>3. TriesLeft
  BY DEF DevicesInit, TriesLeft
<1> QED
  BY <1>1, <1>2, <1>3 DEF DevicesInv, PointerWasRead, YesIsListed, ListWasRead,
              FirstIsRight, OthersHaveNone, NoneMissed

LEMMA DevicesStepKeeps == DevicesInv /\ [DevicesNext]_devicesVars => DevicesInv'
<1> SUFFICES ASSUME DevicesInv, [DevicesNext]_devicesVars PROVE DevicesInv'
  OBVIOUS
<1>1. CASE ScanStep
  BY <1>1, ScanKeeps, ProbeKeeps, FoundKeeps DEF ScanStep
<1>2. CASE MdsStep \/ VolStep \/ TypeKey
  BY <1>2, UserKeeps
<1>3. CASE UNCHANGED devicesVars
  <2>1. UNCHANGED <<uuid, readable, devs, job, k, tries, assembled, dir, unread, ptr, list, fds, phase>>
    BY <1>3 DEF devicesVars, fixedVars, jobVars, scanVars
  <2>2. (Searching' <=> Searching) /\ Wanted' = Wanted /\ Listed' = Listed
    BY <2>1 DEF Searching, Wanted, Listed
  <2>3. DevicesTypeOK' /\ PointerWasRead' /\ YesIsListed'
    BY <2>1, <2>2 DEF DevicesInv, DevicesTypeOK, PointerWasRead, YesIsListed
  <2>4. ListWasRead' /\ TriesLeft'
    BY <2>1, <2>2 DEF DevicesInv, ListWasRead, TriesLeft
  <2>5. FirstIsRight' /\ OthersHaveNone' /\ NoneMissed'
    BY <2>1, <2>2 DEF DevicesInv, FirstIsRight, OthersHaveNone, NoneMissed
  <2> QED
    BY <2>3, <2>4, <2>5 DEF DevicesInv
<1> QED
  BY <1>1, <1>2, <1>3 DEF DevicesNext, DevicesStep

\* The inductive invariant of the search, for any disks, arrays and volumes.
THEOREM DevicesInvariant == DevicesSafety => []DevicesInv
BY DevicesInitially, DevicesStepKeeps, PTL DEF DevicesSafety

\* Type correctness of the search.
THEOREM DevicesTypeCorrect == DevicesSafety => []DevicesTypeOK
<1>1. DevicesInv => DevicesTypeOK
  BY DEF DevicesInv
<1> QED
  BY <1>1, DevicesInvariant, PTL

\* mount_decrypt, which uses the first device of the list, is never given a
\* device without the UUID, stale pointer or not.
THEOREM FirstAlwaysRight == DevicesSafety => []FirstIsRight
<1>1. DevicesInv => FirstIsRight
  BY DEF DevicesInv
<1> QED
  BY <1>1, DevicesInvariant, PTL

\* A device with another UUID is never listed.
THEOREM NeverAnother == DevicesSafety => []OthersHaveNone
<1>1. DevicesInv => OthersHaveNone
  BY DEF DevicesInv
<1> QED
  BY <1>1, DevicesInvariant, PTL

\* No device with the UUID is overlooked, and none is listed twice.
THEOREM ScansAll == DevicesSafety => []NoneMissed
<1>1. DevicesInv => NoneMissed
  BY DEF DevicesInv
<1> QED
  BY <1>1, DevicesInvariant, PTL

\* mount_mds says 0 when mdadm failed, but the arrays of the host are then
\* exactly those before the failing one.
THEOREM StopsThere == DevicesSafety => []StopsAtFailure
<1>1. DevicesInit => AssembledSoFar
  <2> SUFFICES ASSUME DevicesInit PROVE AssembledSoFar
    OBVIOUS
  <2>1. 1..0 = {} /\ {Md[j] : j \in 1..0} = {} /\ Len(Arrays) \in Nat
    OBVIOUS
  <2>2. UpTo(0) /\ k - 1 = 0
    BY <2>1 DEF DevicesInit, UpTo
  <2> QED
    BY <2>1, <2>2 DEF AssembledSoFar, StopsAtFailure
<1>2. DevicesInv /\ AssembledSoFar /\ [DevicesNext]_devicesVars => AssembledSoFar'
  BY ArraysKept
<1>3. AssembledSoFar => StopsAtFailure
  BY DEF AssembledSoFar
<1> QED
  BY <1>1, <1>2, <1>3, DevicesInvariant, PTL DEF DevicesSafety

\* The count of the open directories holds of every step.
LEMMA LeakStep == DevicesInv /\ LeakCounted /\ [DevicesNext]_devicesVars => LeakCounted'
<1>1. ASSUME DevicesInv, LeakCounted, UNCHANGED devicesVars PROVE LeakCounted'
  <2>1. UNCHANGED <<uuid, readable, devs, job, k, tries, dir, unread, fds, phase>>
    BY <1>1 DEF devicesVars, fixedVars, jobVars, scanVars
  <2>2. (AllThere' <=> AllThere) /\ Extra' = Extra /\ Listed' = Listed
    BY <2>1 DEF AllThere, There, Extra, Listed
  <2> QED
    BY <1>1, <2>1, <2>2 DEF LeakCounted
<1> QED
  BY <1>1, LeakKept

LEMMA LeakInitially == DevicesInit => LeakCounted
BY DEF DevicesInit, LeakCounted, Extra, Listed

\* mount_probe_uuid_blk never closes /dev, yet as long as no volume is missing
\* the directories left open are bounded by the arrays and the keys tried.
THEOREM LeaksBounded == DevicesSafety => []LeakBounded
<1>1. DevicesInv /\ LeakCounted => LeakBounded
  BY LeakImplies
<1> QED
  BY <1>1, LeakInitially, LeakStep, DevicesInvariant, PTL DEF DevicesSafety

-----------------------------------------------------------------------------
(* Every step of the search is one further.                                *)

LEMMA RefusedKept ==
  DevicesInv /\ RefusedWhenFull /\ [DevicesNext]_devicesVars => RefusedWhenFull'
<1> SUFFICES ASSUME DevicesInv, RefusedWhenFull, [DevicesNext]_devicesVars
             PROVE  RefusedWhenFull'
  OBVIOUS
<1> USE DEF fixedVars, scanVars, jobVars, RefusedWhenFull
<1>1. fds \in Nat /\ MaxFds \in Nat
  BY DEF DevicesInv, DevicesTypeOK
<1>2. CASE Scan
  <2>1. dir' = (fds < MaxFds) /\ fds' = (IF dir' THEN fds + 1 ELSE fds)
    BY <1>2 DEF Scan, OpenDev
  <2>2. ~dir' => ~(fds < MaxFds) /\ fds' = fds
    BY <2>1, Zenon
  <2> QED
    BY <1>1, <2>2
<1>3. CASE Probe \/ Found
  BY <1>3 DEF Probe, Found
<1>4. CASE MdsStep \/ VolStep \/ TypeKey
  <2>1. phase' \in {"key", "next"}
    BY <1>4 DEF MdsStep, VolStep, Assemble, AssembleFails, BeyondList, ArraysDone,
                TypeKey, TryAgain, Opens, KeyFails, VolumesDone
  <2> QED
    BY <2>1
<1>5. CASE UNCHANGED devicesVars
  BY <1>5 DEF devicesVars
<1> QED
  BY <1>2, <1>3, <1>4, <1>5 DEF DevicesNext, DevicesStep, ScanStep

\* As many keys as were tried, and one more, need no more descriptors than all.
LEMMA OneMoreKey ==
  ASSUME NEW m \in Nat, NEW n \in Nat, NEW v \in Nat, m < n
  PROVE  (m + 1) * v <= n * v
<1>1. PICK d \in Nat : n = m + 1 + d
  <2>1. n - (m + 1) \in Nat /\ n = m + 1 + (n - (m + 1))
    OBVIOUS
  <2> QED
    BY <2>1
<1>2. n * v = (m + 1) * v + d * v
  BY <1>1
<1>3. d * v \in Nat /\ (m + 1) * v \in Nat
  OBVIOUS
<1> QED
  BY <1>2, <1>3

\* With every volume there and enough descriptors, no list is empty.
LEMMA NeverAgain ==
  ASSUME DevicesInv, LeakCounted, RefusedWhenFull, EnoughFds, AllThere
  PROVE  ~TryAgain
<1> SUFFICES ASSUME TryAgain PROVE FALSE
  OBVIOUS
<1>1. /\ k \in Nat \ {0} /\ fds \in Nat /\ tries \in Nat /\ MaxFds \in Nat
      /\ Len(Arrays) \in Nat /\ Len(Volumes) \in Nat /\ MaxAttempts \in Nat
  BY DEF DevicesInv, DevicesTypeOK
<1>2. job = "vols" /\ phase = "use" /\ list = << >>
  BY DEF TryAgain
<1>3. Searching /\ k \in 1..Len(Volumes) /\ Wanted = Volumes[k] /\ unread = {}
  BY <1>1, <1>2 DEF Searching, DevicesInv, ListWasRead, Listed, Wanted, LeakCounted
<1>4. ~dir
  <2>1. PICK d \in devs \cap readable : uuid[d] = Wanted
    BY <1>3 DEF AllThere, There, Elems
  <2>2. Elems(list) = {}
    BY <1>2 DEF Elems
  <2> QED
    BY <1>3, <2>1, <2>2 DEF DevicesInv, NoneMissed
<1>5. fds >= MaxFds
  BY <1>2, <1>4 DEF RefusedWhenFull
<1>6. fds <= Len(Arrays) + tries * Len(Volumes) + (k - 1)
  BY <1>1, <1>2, <1>4 DEF LeakCounted, Extra
<1>7. tries < MaxAttempts
  BY <1>2 DEF DevicesInv, TriesLeft
<1>8. PICK all \in Nat : all = tries * Len(Volumes)
  BY <1>1
<1>9. PICK most \in Nat : most = MaxAttempts * Len(Volumes)
  BY <1>1
<1>10. all + Len(Volumes) <= most
  <2>1. (tries + 1) * Len(Volumes) <= MaxAttempts * Len(Volumes)
    BY <1>1, <1>7, OneMoreKey
  <2>2. (tries + 1) * Len(Volumes) = all + Len(Volumes)
    BY <1>1, <1>8
  <2> QED
    BY <1>9, <2>1, <2>2
<1>11. fds <= Len(Arrays) + all + (k - 1) /\ Len(Arrays) + most <= MaxFds
  BY <1>6, <1>8, <1>9 DEF EnoughFds
<1> QED
  BY <1>1, <1>3, <1>5, <1>10, <1>11

LEMMA StepIsFurther ==
  ASSUME DevicesInv, LeakCounted, RefusedWhenFull, EnoughFds, AllThere,
         job = "vols", DevicesNext
  PROVE  Further /\ AllThere'
<1> USE DEF fixedVars, scanVars, jobVars
<1>0. k \in Nat \ {0} /\ tries \in Nat
  BY DEF DevicesInv, DevicesTypeOK
<1>1. UNCHANGED <<uuid, readable, devs>> => AllThere'
  BY DEF AllThere, There
<1>2. CASE Scan
  BY <1>1, <1>2 DEF Scan, Further
<1>3. CASE Probe
  <2>1. PICK d \in unread : unread' = unread \ {d}
    BY <1>3 DEF Probe
  <2>2. unread' \subseteq unread /\ unread' # unread
    BY <2>1
  <2> QED
    BY <1>1, <1>3, <2>2 DEF Probe, Further
<1>4. CASE Found
  BY <1>1, <1>4 DEF Found, Further
<1>5. CASE Opens
  BY <1>0, <1>1, <1>5 DEF Opens, Further
<1>6. CASE KeyFails
  BY <1>0, <1>1, <1>6 DEF KeyFails, Further
<1>7. CASE VolumesDone
  BY <1>1, <1>7 DEF VolumesDone, Further
<1>8. ~MdsStep
  BY DEF MdsStep, Assemble, AssembleFails, BeyondList, ArraysDone
<1>9. CASE TypeKey
  BY <1>1, <1>9 DEF TypeKey, Further
<1> QED
  BY <1>2, <1>3, <1>4, <1>5, <1>6, <1>7, <1>8, <1>9, NeverAgain
  DEF DevicesNext, DevicesStep, ScanStep, VolStep

\* With enough descriptors and no volume missing, each step of the loop of
\* mount_decrypt gets further: it is on another try, of which there are
\* CONFIG_MAX_ATTEMPTS, on the next volume, has its key, or has less of /dev to
\* read.  Of KeysAnswered what is left is that the steps are taken.
THEOREM SearchGoesOn ==
  DevicesSafety =>
    /\ SearchAdvances
    /\ [](job = "vols" => tries < MaxAttempts /\ k <= Len(Volumes) + 1)
<1>1. DevicesInit => RefusedWhenFull
  BY DEF DevicesInit, RefusedWhenFull
<1>2. DevicesInv /\ LeakCounted /\ RefusedWhenFull /\ [DevicesNext]_devicesVars
        => [EnoughFds /\ job = "vols" /\ AllThere => Further /\ AllThere']_devicesVars
  BY StepIsFurther
<1>3. DevicesInv /\ LeakCounted =>
        (job = "vols" => tries < MaxAttempts /\ k <= Len(Volumes) + 1)
  BY DEF DevicesInv, TriesLeft, LeakCounted, Listed
<1> QED
  BY <1>1, <1>2, <1>3, LeakInitially, LeakStep, RefusedKept, DevicesInvariant, PTL
  DEF DevicesSafety, SearchAdvances

=============================================================================
