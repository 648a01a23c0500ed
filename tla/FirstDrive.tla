------------------------------ MODULE FirstDrive ------------------------------
(***************************************************************************)
(* The first drive as its users see it through TapeLibraryController: the  *)
(* tape in it, the file system mounted from it, and the controller's       *)
(* record of the tape. load_tape, unload_tape, mount_ltfs and unmount_ltfs *)
(* are one step each here; TapeController has their commands. An mtx       *)
(* command that is refused counts as done: the call returns, and the       *)
(* record says what the call was for. Nothing here asks who holds the      *)
(* drive's lock, and neither do the callers in TapeSpanning and Restore.   *)
(***************************************************************************)

CONSTANTS
  Tapes,
  NoTape

ASSUME DriveAssumption == NoTape \notin Tapes

VARIABLES
  tape,     \* the tape in the drive
  fs,       \* the tape whose file system is at the mount point
  recorded, \* mounted_tape, the tape the controller takes to be in the drive
  doubt,    \* a command was refused or timed out since the last load that was done
  using,    \* users that rely on the tape they found or put there
  crossed,  \* users for whom others have moved or unmounted such a tape
  misled    \* users that a load or a mount returned to while the drive was in doubt

held  == <<tape, fs, recorded, doubt, crossed>>
drive == <<held, using, misled>>

DriveOK ==
  /\ tape \in Tapes \cup {NoTape}
  /\ fs \in {NoTape, tape}
  /\ recorded \in Tapes \cup {NoTape}
  /\ doubt \in BOOLEAN

\* What user u does is done behind the backs of the others.
Crosses(u) == crossed' = crossed \cup (using \ {u})

Records(t, unsure) == recorded' = t /\ doubt' = unsure

\* Mutant of Gets: the file system of the old tape is not unmounted.
KeepsMounted(t) == tape' = t /\ UNCHANGED fs

\* The drive gets tape t, or loses its own (NoTape): the file system is gone by then. A tape
\* that stays may lose it too.
Gets(t) == tape' = t /\ fs' \in (IF t = tape THEN {NoTape, fs} ELSE {NoTape})

\* A tape that is there already is left alone. When the unload of another tape or the load
\* is refused, the call returns just the same.
LoadReturns(u, t) ==
  IF tape = t THEN Records(t, FALSE) /\ UNCHANGED <<tape, fs, crossed>>
  ELSE /\ Crosses(u)
       /\ \/ Gets(t) /\ Records(t, FALSE)
          \/ (Gets(tape) \/ Gets(NoTape)) /\ Records(t, TRUE)

\* By the time the load fails the old tape may be out, or the new one in although its load
\* timed out; the record is the old one or none.
LoadRaises(u, t) ==
  \/ UNCHANGED held
  \/ /\ Crosses(u)
     /\ \E found \in {tape, NoTape, t} : Gets(found)
     /\ \E known \in {recorded, NoTape} : Records(known, known # NoTape)

\* Refused, the tape stays.
UnloadReturns(u) ==
  /\ Gets(NoTape) \/ Gets(tape)
  /\ Records(NoTape, FALSE)
  /\ Crosses(u)

\* The file system that is there is taken as it is, or that of the tape in the drive comes.
Mounts == tape' # NoTape /\ fs' = IF tape' = tape /\ fs # NoTape THEN fs ELSE tape'

\* mount_ltfs(t) loads the tape unless it is the recorded one, and mounts what is in the
\* drive. From then on u relies on it.
MountReturns(u, t) ==
  /\ \/ recorded = t /\ UNCHANGED <<tape, recorded, doubt>>
     \/ recorded # t /\ tape' = t /\ Records(t, FALSE)
     \/ recorded # t /\ tape # t /\ UNCHANGED tape /\ Records(t, TRUE)
  /\ Mounts
  /\ crossed' = (IF t \in {recorded, tape} THEN crossed ELSE crossed \cup using) \ {u}
  /\ using' = using \cup {u}
  /\ misled' = IF doubt' THEN misled \cup {u} ELSE misled \ {u}

\* It fails before, in or after the load.
MountRaises(u, t) ==
  IF recorded = t THEN UNCHANGED held ELSE LoadRaises(u, t) \/ LoadReturns(u, t)

\* unmount_ltfs unmounts whatever is there.
Unmounts(u) ==
  /\ fs' = NoTape
  /\ UNCHANGED <<tape, recorded, doubt>>
  /\ crossed' = (IF fs = NoTape THEN crossed ELSE crossed \cup using) \ {u}

\* u relies on the drive no more, and what happened to it meanwhile is over.
Leaves(u) == using' = using \ {u} /\ misled' = misled \ {u}

===============================================================================
