------------------------ MODULE ArchiveContentsProofs ------------------------
(* Proofs about ArchiveContents, for any sets, paths, contents and tapes, and *)
(* any number of jobs and of other events.                                    *)
EXTENDS ArchiveContents, TLAPS

-----------------------------------------------------------------------------
(* Types                                                                   *)

\* A job has a set, a mode and a tape; what is to be recorded is known; what is
\* planned is in the scan.
Shape ==
  /\ phase \in {"idle", "plan"} => planned = {}
  /\ phase # "idle" => job # <<>>
  /\ phase = "record" => copying # <<>> /\ copying[1] \in todo
  /\ \A p \in planned : scanned[p] # NoFile

Typed == TypeOK /\ Shape

LEMMA NothingTyped == Nothing \in Contents /\ Nothing \in OnTape
BY DEF Nothing, Contents, OnTape

LEMMA TypedInit == Init => Typed
<1> SUFFICES ASSUME Init PROVE Typed
  OBVIOUS
<1>1. ArchiveTypes
  <2>1. {[p \in Paths |-> c] : c \in Versions \cup {NoFile}} \subseteq Contents
    BY DEF Contents
  <2>q. QED
    BY <2>1, NothingTyped, ArchiveAssumption DEF Init, ArchiveTypes, ArchiveAssumption
<1>2. JobTypes
  <2>1. /\ job \in {<<>>} \cup (Sets \X {"full", "incremental"} \X Tapes)
        /\ copying \in {<<>>} \cup (Paths \X Versions)
        /\ processed \in BOOLEAN /\ errors \in BOOLEAN /\ cancelled \in BOOLEAN
        /\ away \in BOOLEAN
    BY DEF Init
  <2>2. /\ phase = "idle" /\ scanned \in Contents /\ unread = {} /\ planned = {} /\ todo = {}
        /\ tapeUsed = 0 /\ room = 0 /\ written = 0
    BY NothingTyped DEF Init
  <2>q. QED
    BY <2>1, <2>2 DEF JobTypes
<1>3. HistoryTypes /\ Shape
  BY DEF Init, HistoryTypes, Shape
<1>q. QED
  BY <1>1, <1>2, <1>3 DEF Typed, TypeOK

\* The parts of the running job.
LEMMA JobParts ==
  ASSUME Typed, phase # "idle"
  PROVE  /\ SetOf \in Sets /\ Tape \in Tapes
         /\ job \in Sets \X {"full", "incremental"} \X Tapes
BY DEF Typed, TypeOK, JobTypes, Shape, SetOf, Tape

\* A planned file has a content and a size.
LEMMA ListedTyped ==
  ASSUME Typed, NEW p \in planned
  PROVE  p \in Paths /\ scanned[p] \in Versions /\ Listed(p) \in Nat
BY ArchiveAssumption
DEF Typed, TypeOK, JobTypes, Shape, Contents, Listed, ArchiveAssumption

\* The file that a job may copy next.
LEMMA NextTyped ==
  ASSUME Typed, NEW p \in Paths, MayWrite(p)
  PROVE  /\ phase = "write" /\ p \in todo /\ p \in planned /\ written < room
         /\ Listed(p) \in Nat /\ Listed(p) <= room - written
         /\ source[SetOf][p] # NoFile => /\ source[SetOf][p] \in Versions
                                        /\ Size[source[SetOf][p]] \in Nat
<1>1. phase = "write" /\ p \in todo /\ p \in planned /\ written < room
      /\ Listed(p) <= room - written
  BY DEF MayWrite, NextFile, Fits, Typed, TypeOK, JobTypes
<1>q. QED
  BY <1>1, ListedTyped, JobParts, ArchiveAssumption
  DEF Typed, TypeOK, ArchiveTypes, Contents, ArchiveAssumption

\* What a job leaves when it ends.
LEMMA EndedTyped ==
  ASSUME JobEnds
  PROVE  JobTypes' /\ Shape'
<1>1. /\ job' \in {<<>>} \cup (Sets \X {"full", "incremental"} \X Tapes)
      /\ copying' \in {<<>>} \cup (Paths \X Versions)
      /\ processed' \in BOOLEAN /\ errors' \in BOOLEAN /\ cancelled' \in BOOLEAN
      /\ away' \in BOOLEAN
  BY DEF JobEnds, LeavesTape
<1>2. /\ phase' = "idle" /\ scanned' \in Contents /\ unread' = {} /\ planned' = {} /\ todo' = {}
      /\ tapeUsed' = 0 /\ room' = 0 /\ written' = 0
  BY NothingTyped DEF JobEnds, LeavesTape
<1>3. JobTypes'
  BY <1>1, <1>2 DEF JobTypes
<1>q. QED
  BY <1>2, <1>3 DEF Shape

LEMMA TypedStep == Typed /\ [Next]_vars => Typed'
<1> SUFFICES ASSUME Typed, [Next]_vars PROVE Typed'
  OBVIOUS
<1> USE DEF Typed, TypeOK, vars, jobVars, scan, result, load, rows, usage, history
<1>1. ASSUME NEW s \in Sets, NEW mode \in {"full", "incremental"}, NEW t \in Tapes,
             Start(s, mode, t)
      PROVE  Typed'
  <2>1. ArchiveTypes' /\ HistoryTypes'
    BY <1>1 DEF Start, ArchiveTypes, HistoryTypes
  <2>2. job' \in Sets \X {"full", "incremental"} \X Tapes
    BY <1>1 DEF Start
  <2>3. unread' \subseteq Paths
    BY <1>1, ArchiveAssumption DEF Start, ArchiveAssumption
  <2>4. JobTypes'
    BY <1>1, <2>2, <2>3 DEF Start, ArchiveTypes, JobTypes
  <2>5. Shape'
    BY <1>1, <2>2 DEF Start, Shape
  <2>q. QED
    BY <2>1, <2>4, <2>5
<1>2. ASSUME ScanEmpty PROVE Typed'
  <2>1. ArchiveTypes' /\ HistoryTypes'
    BY <1>2, NothingTyped, JobParts DEF ScanEmpty, ArchiveTypes, HistoryTypes, JobTypes
  <2>q. QED
    BY <1>2, <2>1, EndedTyped DEF ScanEmpty
<1>3. ASSUME Plan PROVE Typed'
  <2>1. ArchiveTypes'
    BY <1>3 DEF Plan, ArchiveTypes
  <2>2. JobTypes'
    BY <1>3 DEF Plan, ToBackup, Found, JobTypes, Shape
  <2>3. HistoryTypes' /\ Shape'
    BY <1>3 DEF Plan, ToBackup, Found, JobTypes, HistoryTypes, Shape
  <2>q. QED
    BY <2>1, <2>2, <2>3
<1>4. ASSUME Load PROVE Typed'
  <2>1. ArchiveTypes' /\ HistoryTypes' /\ Shape'
    BY <1>4 DEF Load, ArchiveTypes, HistoryTypes, Shape
  <2>2. tapeUsed' \in Nat /\ room' \in Int
    BY <1>4, ArchiveAssumption, JobParts DEF Load, ArchiveTypes, ArchiveAssumption
  <2>3. JobTypes'
    BY <1>4, <2>2 DEF Load, JobTypes
  <2>q. QED
    BY <2>1, <2>3
<1>5. ASSUME LoadFailed PROVE Typed'
  <2>1. ArchiveTypes' /\ HistoryTypes'
    BY <1>5, JobParts DEF LoadFailed, SaysUnused, ArchiveTypes, HistoryTypes
  <2>2. JobTypes' /\ Shape'
    BY <1>5 DEF LoadFailed, JobTypes, Shape
  <2>q. QED
    BY <2>1, <2>2
<1>6. ASSUME NEW p \in Paths, Copy(p) PROVE Typed'
  <2> DEFINE c == source[SetOf][p]
  <2>1. /\ c \in Versions /\ Size[c] \in Nat /\ Listed(p) \in Nat /\ p \in todo
        /\ phase = "write" /\ Tape \in Tapes
    BY <1>6, NextTyped, JobParts DEF Copy
  <2>2. [medium[Tape] EXCEPT ![p] = c] \in OnTape
    BY <2>1 DEF ArchiveTypes, OnTape
  <2>3. ArchiveTypes'
    BY <1>6, <2>2 DEF Copy, ArchiveTypes
  <2>4. copying' = <<p, c>> /\ copying' \in Paths \X Versions
    BY <1>6, <2>1 DEF Copy
  <2>5. JobTypes' /\ Shape'
    BY <1>6, <2>1, <2>4 DEF Copy, JobTypes, Shape
  <2>6. HistoryTypes'
    BY <1>6, <2>1 DEF Copy, Disturb, HistoryTypes
  <2>q. QED
    BY <2>3, <2>5, <2>6
<1>7. ASSUME NEW p \in Paths, CopyFailed(p) PROVE Typed'
  <2> DEFINE c == source[SetOf][p]
  <2>1. /\ phase = "write" /\ p \in planned /\ Tape \in Tapes
        /\ c # NoFile => c \in Versions /\ Size[c] \in Nat
    BY <1>7, NextTyped, JobParts DEF CopyFailed
  <2>2. ASSUME NEW left \in Versions \cup {NoFile, Partial}, NEW n \in Nat, Spoils(p, left, n)
        PROVE  /\ medium' \in [Tapes -> OnTape] /\ disturbed' \subseteq Tapes \X Paths
               /\ spent' \in [Tapes -> Nat] /\ drift' \in [Tapes -> Int]
    <3>1. [medium[Tape] EXCEPT ![p] = left] \in OnTape
      BY <2>1 DEF ArchiveTypes, OnTape
    <3>q. QED
      BY <2>1, <2>2, <3>1 DEF Spoils, Disturb, ArchiveTypes, HistoryTypes
  <2>3. /\ medium' \in [Tapes -> OnTape] /\ disturbed' \subseteq Tapes \X Paths
        /\ spent' \in [Tapes -> Nat] /\ drift' \in [Tapes -> Int]
    BY <1>7, <2>1, <2>2 DEF CopyFailed, ArchiveTypes, HistoryTypes
  <2>4. ArchiveTypes' /\ HistoryTypes'
    BY <1>7, <2>3 DEF CopyFailed, ArchiveTypes, HistoryTypes
  <2>5. JobTypes' /\ Shape'
    BY <1>7, <2>1 DEF CopyFailed, JobTypes, Shape
  <2>q. QED
    BY <2>4, <2>5
<1>t. ASSUME NEW p \in Paths, TooLarge(p) PROVE Typed'
  BY <1>t DEF TooLarge, ArchiveTypes, JobTypes, HistoryTypes, Shape
<1>8. ASSUME Record PROVE Typed'
  <2>0. copying \in Paths \X Versions /\ Listed(copying[1]) \in Nat
    BY <1>8, ListedTyped DEF Record, JobTypes, Shape
  <2>1. ArchiveTypes'
    BY <1>8, <2>0, JobParts DEF Record, Records, ArchiveTypes
  <2>2. JobTypes'
    BY <1>8, <2>0 DEF Record, JobTypes
  <2>3. HistoryTypes' /\ Shape'
    BY <1>8 DEF Record, HistoryTypes, Shape
  <2>q. QED
    BY <2>1, <2>2, <2>3
<1>r. ASSUME RecordFailed PROVE Typed'
  <2>0. Listed(copying[1]) \in Nat
    BY <1>r, ListedTyped DEF RecordFailed, JobTypes, Shape
  <2>1. ArchiveTypes' /\ HistoryTypes'
    BY <1>r, <2>0, JobParts DEF RecordFailed, ArchiveTypes, HistoryTypes
  <2>2. JobTypes' /\ Shape'
    BY <1>r DEF RecordFailed, JobTypes, Shape
  <2>q. QED
    BY <2>1, <2>2
<1>9. ASSUME Unload PROVE Typed'
  <2>0. phase = "write" /\ Tape \in Tapes /\ written \in Nat /\ tapeUsed \in Nat
    BY <1>9, JobParts DEF Unload, DoneWithTape, JobTypes
  <2>1. used' \in [Tapes -> Nat] /\ stale' \subseteq Tapes
    BY <1>9, <2>0 DEF Unload, SavesUsage, ArchiveTypes, HistoryTypes
  <2>2. ArchiveTypes' /\ HistoryTypes'
    BY <1>9, <2>1 DEF Unload, ArchiveTypes, HistoryTypes
  <2>3. away' \in BOOLEAN
    BY <1>9 DEF Unload, LeavesTape
  <2>4. tapeUsed' = 0 /\ room' = 0 /\ written' = 0
    BY <1>9 DEF Unload, LeavesTape
  <2>5. JobTypes' /\ Shape'
    BY <1>9, <2>0, <2>3, <2>4 DEF Unload, JobTypes, Shape
  <2>q. QED
    BY <2>2, <2>5
<1>x. ASSUME Raises PROVE Typed'
  <2>1. ArchiveTypes' /\ HistoryTypes'
    BY <1>x, JobParts DEF Raises, SavesUsage, ArchiveTypes, JobTypes, HistoryTypes
  <2>q. QED
    BY <1>x, <2>1, EndedTyped DEF Raises
<1>10. ASSUME Finish PROVE Typed'
  <2>0. Manifest \in Contents
    BY DEF Manifest, Contents, JobTypes
  <2>1. ArchiveTypes'
    BY <1>10, <2>0, JobParts DEF Finish, ArchiveTypes
  <2>2. \A q \in planned : <<SetOf, q, scanned[q]>> \in Sets \X Paths \X Versions
    BY <1>10, JobParts, ListedTyped DEF Finish
  <2>3. HistoryTypes'
    BY <1>10, <2>2 DEF Finish, HistoryTypes
  <2>q. QED
    BY <1>10, <2>1, <2>3, EndedTyped DEF Finish
<1>11. ASSUME Cancel PROVE Typed'
  <2>1. ArchiveTypes' /\ HistoryTypes'
    BY <1>11 DEF Cancel, ArchiveTypes, HistoryTypes
  <2>2. JobTypes' /\ Shape'
    BY <1>11 DEF Cancel, JobTypes, Shape
  <2>q. QED
    BY <2>1, <2>2
<1>12. ASSUME Crash PROVE Typed'
  <2>1. ArchiveTypes' /\ HistoryTypes'
    BY <1>12, JobParts DEF Crash, ArchiveTypes, HistoryTypes, JobTypes
  <2>q. QED
    BY <1>12, <2>1, EndedTyped DEF Crash
<1>13. ASSUME NEW s \in Sets, NEW p \in Paths, Edit(s, p) PROVE Typed'
  <2>1. PICK c \in Versions \cup {NoFile} : source' = [source EXCEPT ![s][p] = c]
    BY <1>13 DEF Edit
  <2>2. [source[s] EXCEPT ![p] = c] \in Contents
    BY <2>1 DEF ArchiveTypes, Contents
  <2>3. ArchiveTypes'
    BY <1>13, <2>1, <2>2 DEF Edit, ArchiveTypes
  <2>4. JobTypes' /\ Shape' /\ HistoryTypes'
    BY <1>13 DEF Edit, JobTypes, Shape, HistoryTypes
  <2>q. QED
    BY <2>3, <2>4
<1>14. ASSUME NEW t \in Tapes, Erase(t) PROVE Typed'
  <2>1. ArchiveTypes' /\ HistoryTypes'
    BY <1>14, NothingTyped DEF Erase, ArchiveTypes, HistoryTypes
  <2>2. away' \in BOOLEAN
    BY <1>14 DEF Erase, TakesDrive, JobTypes
  <2>3. JobTypes' /\ Shape'
    BY <1>14, <2>2 DEF Erase, JobTypes, Shape
  <2>q. QED
    BY <2>1, <2>3
<1>w. ASSUME NEW t \in Tapes, ResetRow(t) PROVE Typed'
  <2>1. ArchiveTypes' /\ HistoryTypes'
    BY <1>w DEF ResetRow, SaysUnused, ArchiveTypes, HistoryTypes
  <2>2. JobTypes' /\ Shape'
    BY <1>w DEF ResetRow, JobTypes, Shape
  <2>q. QED
    BY <2>1, <2>2
<1>15. ASSUME NEW t \in Tapes, RemoveTape(t) PROVE Typed'
  BY <1>15 DEF RemoveTape, ArchiveTypes, JobTypes, HistoryTypes, Shape
<1>16. ASSUME NEW t \in Tapes, AddTape(t) PROVE Typed'
  <2>1. ArchiveTypes' /\ HistoryTypes'
    BY <1>16 DEF AddTape, SaysUnused, ArchiveTypes, HistoryTypes
  <2>2. JobTypes' /\ Shape'
    BY <1>16 DEF AddTape, JobTypes, Shape
  <2>q. QED
    BY <2>1, <2>2
<1>17. ASSUME NEW t \in Tapes, Rescan(t) PROVE Typed'
  <2>1. PICK files \in SUBSET {p \in Paths : medium[t][p] # NoFile} :
          catalog' = {q \in catalog : q[4] # t}
                       \cup ({NoFile} \X files \X {NoFile} \X {t})
    BY <1>17 DEF Rescan
  <2>2. {NoFile} \X files \X {NoFile} \X {t} \subseteq Rescanned
    BY DEF Rescanned
  <2>3. ArchiveTypes'
    BY <1>17, <2>1, <2>2 DEF Rescan, ArchiveTypes
  <2>4. JobTypes' /\ Shape'
    BY <1>17 DEF Rescan, TakesDrive, JobTypes, Shape
  <2>5. \A q \in catalog : q[3] # NoFile =>
          <<q[1], q[2], q[3]>> \in Sets \X Paths \X Versions
    BY DEF ArchiveTypes, Records, Rescanned
  <2>6. HistoryTypes'
    BY <1>17, <2>5 DEF Rescan, HistoryTypes
  <2>q. QED
    BY <2>3, <2>4, <2>6
<1>u. CASE UNCHANGED vars
  BY <1>u DEF ArchiveTypes, JobTypes, HistoryTypes, Shape
<1>q. QED
  BY <1>1, <1>2, <1>3, <1>4, <1>5, <1>6, <1>7, <1>t, <1>8, <1>r, <1>9, <1>x, <1>10,
     <1>11, <1>12, <1>13, <1>14, <1>w, <1>15, <1>16, <1>17, <1>u
  DEF Next, JobStep, Environment

\* The kinds of the variables, with todo a part of planned and every planned path in
\* the scan (TypeOK of ArchiveContents), through crashes and changes of the inventory.
THEOREM TypeCorrect == Spec => []TypeOK
<1>1. Typed => TypeOK
  BY DEF Typed
<1>q. QED
  BY TypedInit, TypedStep, <1>1, PTL DEF Spec

-----------------------------------------------------------------------------
(* The catalog                                                             *)

\* Between the copy and its record, the tape has what will be recorded, unless it was taken
\* away or erased.
CopyIsOnTape ==
  phase = "record" => \/ medium[Tape][copying[1]] = copying[2]
                      \/ <<Tape, copying[1]>> \in disturbed

CatalogInv == CatalogIsTrue /\ CopyIsOnTape

\* A path that is written loses what the records say of it, and nothing else does.
LEMMA WrittenPath ==
  ASSUME Typed, CatalogIsTrue, phase # "idle", NEW p \in Paths, NEW c,
         catalog' = catalog, medium' = [medium EXCEPT ![Tape][p] = c],
         disturbed' = Disturb(Tape, p, c)
  PROVE  CatalogIsTrue'
<1> SUFFICES ASSUME NEW q \in catalog'
             PROVE  \/ medium'[q[4]][q[2]] # NoFile /\ q[3] \in {medium'[q[4]][q[2]], NoFile}
                    \/ <<q[4], q[2]>> \in disturbed'
  BY DEF CatalogIsTrue
<1>0. q \in catalog /\ q[4] \in Tapes /\ q[2] \in Paths /\ Tape \in Tapes /\ medium \in [Tapes -> OnTape]
  BY JobParts DEF Typed, TypeOK, ArchiveTypes, Records, Rescanned
<1>1. CASE q[4] = Tape /\ q[2] = p
  BY <1>0, <1>1 DEF CatalogIsTrue, Disturb, OnTape
<1>2. CASE ~(q[4] = Tape /\ q[2] = p)
  <2>1. medium'[q[4]][q[2]] = medium[q[4]][q[2]]
    BY <1>0, <1>2 DEF OnTape
  <2>q. QED
    BY <1>0, <2>1 DEF CatalogIsTrue, Disturb
<1>q. QED
  BY <1>1, <1>2

LEMMA CatalogStep == Typed /\ CatalogInv /\ [Next]_vars => CatalogInv'
<1> SUFFICES ASSUME Typed, CatalogInv, [Next]_vars PROVE CatalogInv'
  OBVIOUS
<1> USE DEF CatalogInv, Tape, vars, jobVars, scan, result, load, rows, usage, history
<1>s. ASSUME UNCHANGED <<catalog, medium, disturbed>>, UNCHANGED <<job, copying>>,
             phase' = phase \/ phase' # "record"
      PROVE  CatalogInv'
  BY <1>s DEF CatalogIsTrue, CopyIsOnTape
<1>e. ASSUME UNCHANGED <<catalog, medium, disturbed>>, JobEnds PROVE CatalogInv'
  BY <1>e DEF CatalogIsTrue, CopyIsOnTape, JobEnds
<1>u. CASE UNCHANGED vars
  BY <1>u, <1>s
<1>1. ASSUME NEW s \in Sets, NEW mode \in {"full", "incremental"}, NEW t \in Tapes,
             Start(s, mode, t)
      PROVE  CatalogInv'
  BY <1>1 DEF Start, CatalogIsTrue, CopyIsOnTape
<1>2. ASSUME ScanEmpty PROVE CatalogInv'
  BY <1>2, <1>e DEF ScanEmpty
<1>3. ASSUME Plan PROVE CatalogInv'
  BY <1>3, <1>s DEF Plan
<1>4. ASSUME Load PROVE CatalogInv'
  BY <1>4, <1>s DEF Load
<1>5. ASSUME LoadFailed PROVE CatalogInv'
  BY <1>5, <1>s DEF LoadFailed
<1>6. ASSUME NEW p \in Paths, Copy(p) PROVE CatalogInv'
  <2> DEFINE c == source[SetOf][p]
  <2>1. /\ catalog' = catalog /\ copying' = <<p, c>> /\ job' = job
        /\ phase = "write" /\ Tape \in Tapes
    BY <1>6, NextTyped, JobParts DEF Copy
  <2>2. CASE away
    BY <1>6, <2>1, <2>2 DEF Copy, CatalogIsTrue, CopyIsOnTape
  <2>3. CASE ~away
    <3>1. medium' = [medium EXCEPT ![Tape][p] = c] /\ disturbed' = Disturb(Tape, p, c)
      BY <1>6, <2>3 DEF Copy
    <3>2. CatalogIsTrue'
      BY <2>1, <3>1, WrittenPath
    <3>3. CopyIsOnTape'
      BY <2>1, <3>1 DEF CopyIsOnTape, Typed, TypeOK, ArchiveTypes, OnTape
    <3>q. QED
      BY <3>2, <3>3
  <2>q. QED
    BY <2>2, <2>3
<1>7. ASSUME NEW p \in Paths, CopyFailed(p) PROVE CatalogInv'
  <2>1. /\ catalog' = catalog /\ phase = "write" /\ phase' = "write"
        /\ UNCHANGED <<job, copying>>
    BY <1>7, NextTyped DEF CopyFailed
  <2>2. CASE UNCHANGED <<medium, disturbed>>
    BY <2>1, <2>2, <1>s
  <2>3. ASSUME NEW left, NEW n, Spoils(p, left, n) PROVE CatalogInv'
    BY <2>1, <2>3, WrittenPath DEF Spoils, CopyIsOnTape
  <2>q. QED
    BY <1>7, <2>2, <2>3 DEF CopyFailed
<1>t. ASSUME NEW p \in Paths, TooLarge(p) PROVE CatalogInv'
  BY <1>t, <1>s DEF TooLarge
<1>8. ASSUME Record PROVE CatalogInv'
  <2> DEFINE row == <<SetOf, copying[1], copying[2], Tape>>
  <2>1. /\ catalog' = catalog \cup {row} /\ phase = "record" /\ phase' = "write"
        /\ UNCHANGED <<medium, disturbed>>
    BY <1>8 DEF Record
  <2>2. row[2] = copying[1] /\ row[3] = copying[2] /\ row[4] = Tape
    OBVIOUS
  <2>3. copying[2] # NoFile
    BY <2>1, ArchiveAssumption DEF Typed, TypeOK, JobTypes, Shape, ArchiveAssumption
  <2>4. \/ medium[row[4]][row[2]] # NoFile /\ row[3] \in {medium[row[4]][row[2]], NoFile}
        \/ <<row[4], row[2]>> \in disturbed
    BY <2>1, <2>2, <2>3 DEF CopyIsOnTape
  <2>q. QED
    BY <2>1, <2>4 DEF CatalogIsTrue, CopyIsOnTape
<1>r. ASSUME RecordFailed PROVE CatalogInv'
  BY <1>r DEF RecordFailed, CatalogIsTrue, CopyIsOnTape
<1>9. ASSUME Unload PROVE CatalogInv'
  BY <1>9, <1>s DEF Unload
<1>x. ASSUME Raises PROVE CatalogInv'
  BY <1>x, <1>e DEF Raises
<1>10. ASSUME Finish PROVE CatalogInv'
  BY <1>10, <1>e DEF Finish
<1>11. ASSUME Cancel PROVE CatalogInv'
  BY <1>11, <1>s DEF Cancel
<1>12. ASSUME Crash PROVE CatalogInv'
  BY <1>12, <1>e DEF Crash
<1>13. ASSUME NEW s \in Sets, NEW p \in Paths, Edit(s, p) PROVE CatalogInv'
  BY <1>13, <1>s DEF Edit
<1>14. ASSUME NEW t \in Tapes, Erase(t) PROVE CatalogInv'
  <2>1. UNCHANGED <<catalog, job, copying, phase>>
    BY <1>14 DEF Erase
  <2>2. CASE UNCHANGED <<medium, disturbed>>
    BY <2>1, <2>2, <1>s
  <2>3. CASE /\ medium' = [medium EXCEPT ![t] = Nothing]
             /\ disturbed' = disturbed \cup ({t} \X {p \in Paths : medium[t][p] # NoFile})
    <3>1. ASSUME NEW u \in Tapes, NEW p \in Paths
          PROVE  \/ u # t /\ medium'[u][p] = medium[u][p]
                 \/ u = t /\ (medium[u][p] # NoFile => <<u, p>> \in disturbed')
      BY <2>3 DEF Typed, TypeOK, ArchiveTypes
    <3>2. disturbed \subseteq disturbed'
      BY <2>3
    <3>3. CatalogIsTrue'
      <4> SUFFICES ASSUME NEW q \in catalog'
                   PROVE  \/ /\ medium'[q[4]][q[2]] # NoFile
                             /\ q[3] \in {medium'[q[4]][q[2]], NoFile}
                          \/ <<q[4], q[2]>> \in disturbed'
        BY DEF CatalogIsTrue
      <4>1. q \in catalog /\ q[4] \in Tapes /\ q[2] \in Paths
        BY <2>1 DEF Typed, TypeOK, ArchiveTypes, Records, Rescanned
      <4>q. QED
        BY <3>1, <3>2, <4>1 DEF CatalogIsTrue
    <3>4. ASSUME phase = "record"
          PROVE  \/ medium'[Tape][copying[1]] = copying[2]
                 \/ <<Tape, copying[1]>> \in disturbed'
      <4>1. Tape \in Tapes /\ copying[1] \in Paths /\ copying[2] # NoFile
        BY <3>4, JobParts, ArchiveAssumption
        DEF Typed, TypeOK, JobTypes, Shape, ArchiveAssumption
      <4>q. QED
        BY <3>1, <3>2, <3>4, <4>1 DEF CopyIsOnTape
    <3>q. QED
      BY <2>1, <3>3, <3>4 DEF CopyIsOnTape
  <2>q. QED
    BY <1>14, <2>2, <2>3 DEF Erase
<1>w. ASSUME NEW t \in Tapes, ResetRow(t) PROVE CatalogInv'
  BY <1>w, <1>s DEF ResetRow
<1>15. ASSUME NEW t \in Tapes, RemoveTape(t) PROVE CatalogInv'
  BY <1>15, <1>s DEF RemoveTape
<1>16. ASSUME NEW t \in Tapes, AddTape(t) PROVE CatalogInv'
  BY <1>16, <1>s DEF AddTape
<1>17. ASSUME NEW t \in Tapes, Rescan(t) PROVE CatalogInv'
  <2>1. PICK files \in SUBSET {p \in Paths : medium[t][p] # NoFile} :
          catalog' = {q \in catalog : q[4] # t}
                       \cup ({NoFile} \X files \X {NoFile} \X {t})
    BY <1>17 DEF Rescan
  <2>2. /\ UNCHANGED <<medium, phase, job, copying>>
        /\ disturbed' = disturbed \ ({t} \X {p \in Paths : phase = "record" => copying[1] # p})
    BY <1>17 DEF Rescan
  <2>3. ASSUME NEW q \in catalog, q[4] # t
        PROVE  \/ medium[q[4]][q[2]] # NoFile /\ q[3] \in {medium[q[4]][q[2]], NoFile}
               \/ <<q[4], q[2]>> \in disturbed'
    BY <2>2, <2>3 DEF CatalogIsTrue
  <2>4. ASSUME NEW q \in {NoFile} \X files \X {NoFile} \X {t}
        PROVE  medium[q[4]][q[2]] # NoFile /\ q[3] \in {medium[q[4]][q[2]], NoFile}
    BY <2>1
  <2>q. QED
    BY <2>1, <2>2, <2>3, <2>4 DEF CatalogIsTrue, CopyIsOnTape
<1>q. QED
  BY <1>1, <1>2, <1>3, <1>4, <1>5, <1>6, <1>7, <1>t, <1>8, <1>r, <1>9, <1>x, <1>10,
     <1>11, <1>12, <1>13, <1>14, <1>w, <1>15, <1>16, <1>17, <1>u
  DEF Next, JobStep, Environment

\* CatalogIsTrue is an invariant: a row of archived_files tells the truth about its
\* tape, unless the path was overwritten or the tape erased, whenever a job stops.
THEOREM CatalogStaysTrue == Spec => []CatalogIsTrue
<1>1. Init => CatalogInv
  BY DEF Init, CatalogInv, CatalogIsTrue, CopyIsOnTape
<1>2. CatalogInv => CatalogIsTrue
  BY DEF CatalogInv
<1>q. QED
  BY TypedInit, TypedStep, CatalogStep, <1>1, <1>2, PTL DEF Spec

-----------------------------------------------------------------------------
(* Usage and capacity                                                      *)

\* What is on a tape, and will be in its usage when the job leaves it.
Uncounted(t) ==
  IF AtTape(t) THEN (IF phase = "record" THEN written + Listed(copying[1]) ELSE written) ELSE 0

\* What a tape's row says, and what the job at it believes, are right, and there is room for
\* what it writes.
RightUsage(t) ==
  /\ spent[t] - drift[t] = used[t] + Uncounted(t)
  /\ AtTape(t) => tapeUsed = used[t] /\ room <= Capacity - used[t]
  /\ spent[t] - drift[t] <= Capacity

UsageInv ==
  /\ \A t \in inventory \ stale : RightUsage(t)
  /\ phase \in {"idle", "plan", "load"} => written = 0

\* Whose row says nothing is used has what it says.
LEMMA UnusedIsRight ==
  ASSUME Typed, NEW t \in Tapes, SaysUnused(t), UNCHANGED <<spent, drift>>, t \notin stale',
         ~AtTape(t)'
  PROVE  RightUsage(t)'
<1>1. used'[t] = 0 /\ spent[t] = drift[t] /\ spent[t] \in Nat /\ drift[t] \in Int
  BY DEF SaysUnused, Typed, TypeOK, ArchiveTypes, HistoryTypes
<1>2. Capacity \in Nat
  BY ArchiveAssumption DEF ArchiveAssumption
<1>q. QED
  BY <1>1, <1>2 DEF RightUsage, Uncounted

\* Tapes that a step leaves alone.
LEMMA OtherTapes ==
  ASSUME NEW t \in Tapes, RightUsage(t),
         spent'[t] - drift'[t] = spent[t] - drift[t], used'[t] = used[t],
         ~AtTape(t), ~AtTape(t)'
  PROVE  RightUsage(t)'
BY DEF RightUsage, Uncounted

LEMMA UsageStep == Typed /\ UsageInv /\ [Next]_vars => UsageInv'
<1> SUFFICES ASSUME Typed, UsageInv, [Next]_vars PROVE UsageInv'
  OBVIOUS
<1>k. /\ used \in [Tapes -> Nat] /\ spent \in [Tapes -> Nat] /\ drift \in [Tapes -> Int]
      /\ holds \in [Tapes -> {0, Capacity}] /\ inventory \subseteq Tapes
      /\ written \in Nat /\ room \in Int /\ tapeUsed \in Nat /\ Capacity \in Nat
  BY ArchiveAssumption DEF Typed, TypeOK, ArchiveTypes, JobTypes, HistoryTypes,
                           ArchiveAssumption
<1> USE DEF UsageInv, AtTape, Tape, vars, jobVars, scan, result, load, rows, usage, history
<1>s. ASSUME UNCHANGED <<used, usage, written, copying, tapeUsed, room, job, scanned>>,
             inventory' \subseteq inventory,
             phase' = phase \/ {phase, phase'} \cap {"write", "record"} = {},
             phase' \in {"idle", "plan", "load"} => phase \in {"idle", "plan", "load"}
      PROVE  UsageInv'
  BY <1>s DEF RightUsage, Uncounted, Listed
<1>e. ASSUME UNCHANGED <<used, spent, drift, inventory>>, JobEnds, stale \subseteq stale',
             phase = "record" \/ (phase = "write" /\ written > 0) => Tape \in stale'
      PROVE  UsageInv'
  <2>1. written' = 0 /\ phase' = "idle"
    BY <1>e DEF JobEnds, LeavesTape
  <2>2. ASSUME NEW t \in inventory \ stale' PROVE RightUsage(t)'
    BY <1>k, <1>e, <2>1, <2>2 DEF RightUsage, Uncounted
  <2>q. QED
    BY <1>e, <2>1, <2>2
<1>m. ASSUME NEW p \in planned PROVE Listed(p) \in Nat
  BY ListedTyped, <1>m
<1>u. CASE UNCHANGED vars
  BY <1>u, <1>s
<1>1. ASSUME NEW s \in Sets, NEW mode \in {"full", "incremental"}, NEW t \in Tapes,
             Start(s, mode, t)
      PROVE  UsageInv'
  BY <1>1 DEF Start, RightUsage, Uncounted
<1>2. ASSUME ScanEmpty PROVE UsageInv'
  BY <1>2, <1>e DEF ScanEmpty
<1>3. ASSUME Plan PROVE UsageInv'
  BY <1>3, <1>s DEF Plan
<1>4. ASSUME Load PROVE UsageInv'
  <2>1. /\ UNCHANGED <<used, usage, written, inventory, job>> /\ phase = "load"
        /\ phase' = "write" /\ written = 0
        /\ Tape \in inventory => tapeUsed' = used[Tape] /\ room' = holds[Tape] - used[Tape]
    BY <1>4 DEF Load
  <2>2. ASSUME NEW t \in inventory \ stale PROVE RightUsage(t)'
    BY <1>k, <2>1, <2>2 DEF RightUsage, Uncounted
  <2>q. QED
    BY <2>1, <2>2
<1>5. ASSUME LoadFailed PROVE UsageInv'
  <2>1. /\ UNCHANGED <<spent, drift, inventory, job, written>> /\ phase = "load"
        /\ phase' = "final" /\ Tape \in Tapes
    BY <1>5, JobParts DEF LoadFailed
  <2>2. CASE UNCHANGED <<used, stale>>
    BY <1>k, <2>1, <2>2 DEF RightUsage, Uncounted
  <2>3. CASE SaysUnused(Tape)
    <3>1. ASSUME NEW t \in inventory \ stale', t # Tape PROVE RightUsage(t)'
      BY <1>k, <2>1, <2>3, <3>1, OtherTapes DEF SaysUnused
    <3>2. ASSUME Tape \in inventory \ stale' PROVE RightUsage(Tape)'
      BY <2>1, <2>3, <3>2, UnusedIsRight
    <3>q. QED
      BY <2>1, <3>1, <3>2
  <2>q. QED
    BY <1>5, <2>2, <2>3 DEF LoadFailed
<1>6. ASSUME NEW p \in Paths, Copy(p) PROVE UsageInv'
  <2> DEFINE c == source[SetOf][p]
  <2>1. /\ phase = "write" /\ phase' = "record" /\ Tape \in Tapes
        /\ copying' = <<p, c>> /\ c \in Versions
        /\ UNCHANGED <<used, inventory, written, tapeUsed, room, job, scanned>>
        /\ Listed(p) \in Nat /\ Listed(p) <= room - written /\ Size[c] \in Nat
    BY <1>6, NextTyped, JobParts DEF Copy
  <2>2. Listed(copying[1])' = Listed(p)
    BY <2>1 DEF Listed
  <2>3. CASE away
    <3>1. stale' = stale \cup {Tape} /\ UNCHANGED <<spent, drift>>
      BY <1>6, <2>3 DEF Copy
    <3>2. ASSUME NEW t \in inventory \ stale' PROVE RightUsage(t)'
      BY <1>k, <2>1, <3>1, <3>2, OtherTapes
    <3>q. QED
      BY <2>1, <3>2
  <2>4. CASE ~away
    <3>1. /\ spent' = [spent EXCEPT ![Tape] = @ + Size[c]]
          /\ drift' = [drift EXCEPT ![Tape] = @ + Size[c] - Listed(p)]
          /\ stale' = stale
      BY <1>6, <2>4 DEF Copy
    <3>2. ASSUME NEW t \in inventory \ stale, t # Tape PROVE RightUsage(t)'
      BY <1>k, <2>1, <3>1, <3>2, OtherTapes
    <3>3. ASSUME Tape \in inventory \ stale PROVE RightUsage(Tape)'
      <4>1. spent'[Tape] - drift'[Tape] = spent[Tape] - drift[Tape] + Listed(p)
        BY <1>k, <2>1, <3>1
      <4>2. /\ spent[Tape] - drift[Tape] = used[Tape] + written
            /\ tapeUsed = used[Tape] /\ room <= Capacity - used[Tape]
        BY <2>1, <3>3 DEF RightUsage, Uncounted
      <4>q. QED
        BY <1>k, <2>1, <2>2, <4>1, <4>2 DEF RightUsage, Uncounted
    <3>q. QED
      BY <2>1, <3>1, <3>2, <3>3
  <2>q. QED
    BY <2>3, <2>4
<1>7. ASSUME NEW p \in Paths, CopyFailed(p) PROVE UsageInv'
  <2>1. /\ phase = "write" /\ Tape \in Tapes
        /\ UNCHANGED <<phase, used, inventory, stale, written, tapeUsed, room, job, copying>>
        /\ source[SetOf][p] # NoFile => Size[source[SetOf][p]] \in Nat
    BY <1>7, NextTyped, JobParts DEF CopyFailed
  <2>2. ASSUME NEW left, NEW n \in Nat, Spoils(p, left, n)
        PROVE  \A t \in Tapes : spent'[t] - drift'[t] = spent[t] - drift[t]
    BY <1>k, <2>1, <2>2 DEF Spoils
  <2>3. \A t \in Tapes : spent'[t] - drift'[t] = spent[t] - drift[t]
    BY <1>7, <2>1, <2>2 DEF CopyFailed
  <2>q. QED
    BY <1>k, <2>1, <2>3 DEF RightUsage, Uncounted
<1>t. ASSUME NEW p \in Paths, TooLarge(p) PROVE UsageInv'
  BY <1>t, <1>s DEF TooLarge
<1>8. ASSUME Record PROVE UsageInv'
  <2>1. /\ phase = "record" /\ phase' = "write" /\ written' = written + Listed(copying[1])
        /\ UNCHANGED <<used, usage, inventory, tapeUsed, room, job>>
    BY <1>8 DEF Record
  <2>2. ASSUME NEW t \in inventory \ stale PROVE RightUsage(t)'
    BY <2>1, <2>2 DEF RightUsage, Uncounted
  <2>q. QED
    BY <2>1, <2>2
<1>r. ASSUME RecordFailed PROVE UsageInv'
  <2>1. /\ phase = "record" /\ phase' = "write"
        /\ UNCHANGED <<used, spent, stale, inventory, written, tapeUsed, room, job>>
        /\ drift' = [drift EXCEPT ![Tape] = @ + Listed(copying[1])]
        /\ Tape \in Tapes /\ Listed(copying[1]) \in Nat
    BY <1>r, <1>m, JobParts DEF RecordFailed, Typed, TypeOK, JobTypes, Shape
  <2>2. ASSUME NEW t \in inventory \ stale, t # Tape PROVE RightUsage(t)'
    BY <1>k, <2>1, <2>2, OtherTapes
  <2>3. ASSUME Tape \in inventory \ stale PROVE RightUsage(Tape)'
    BY <1>k, <2>1, <2>3 DEF RightUsage, Uncounted
  <2>q. QED
    BY <2>1, <2>2, <2>3
<1>sv. ASSUME phase = "write", SavesUsage, UNCHANGED <<usage, inventory>>,
              phase' \in {"idle", "final"}, written' = 0
       PROVE  UsageInv'
  <2>1. Tape \in Tapes
    BY <1>sv, JobParts
  <2>2. ASSUME NEW t \in inventory \ stale, t # Tape PROVE RightUsage(t)'
    BY <1>k, <1>sv, <2>1, <2>2, OtherTapes DEF SavesUsage
  <2>3. ASSUME NEW t \in inventory \ stale, t = Tape PROVE RightUsage(t)'
    <3>1. used'[t] = tapeUsed + written
      BY <1>k, <1>sv, <2>1, <2>3 DEF SavesUsage
    <3>q. QED
      BY <1>k, <1>sv, <2>1, <2>3, <3>1 DEF RightUsage, Uncounted
  <2>q. QED
    BY <1>sv, <2>2, <2>3
<1>9. ASSUME Unload PROVE UsageInv'
  <2>1. /\ phase = "write" /\ phase' = "final" /\ written' = 0
        /\ UNCHANGED <<inventory, spent, drift, job>>
    BY <1>9 DEF Unload, DoneWithTape, LeavesTape
  <2>2. CASE SavesUsage /\ UNCHANGED stale
    BY <2>1, <2>2, <1>sv
  <2>3. CASE UNCHANGED used /\ stale' = IF written = 0 THEN stale ELSE stale \cup {Tape}
    <3>1. ASSUME NEW t \in inventory \ stale' PROVE RightUsage(t)'
      BY <1>k, <2>1, <2>3, <3>1 DEF RightUsage, Uncounted
    <3>q. QED
      BY <2>1, <3>1
  <2>q. QED
    BY <1>9, <2>2, <2>3 DEF Unload
<1>x. ASSUME Raises PROVE UsageInv'
  BY <1>x, <1>sv DEF Raises, JobEnds, LeavesTape
<1>10. ASSUME Finish PROVE UsageInv'
  BY <1>10, <1>e DEF Finish
<1>11. ASSUME Cancel PROVE UsageInv'
  BY <1>11, <1>s DEF Cancel
<1>12. ASSUME Crash PROVE UsageInv'
  BY <1>12, <1>e DEF Crash
<1>13. ASSUME NEW s \in Sets, NEW p \in Paths, Edit(s, p) PROVE UsageInv'
  BY <1>13, <1>s DEF Edit
<1>14. ASSUME NEW t \in Tapes, Erase(t) PROVE UsageInv'
  <2>1. /\ UNCHANGED <<phase, used, inventory, written, copying, tapeUsed, room, job, scanned>>
        /\ stale' = stale \cup {t}
    BY <1>14 DEF Erase
  <2>2. ASSUME NEW u \in inventory \ stale' PROVE RightUsage(u)'
    <3>1. spent'[u] = spent[u] /\ drift'[u] = drift[u]
      BY <1>k, <1>14, <2>1, <2>2 DEF Erase
    <3>q. QED
      BY <2>1, <2>2, <3>1 DEF RightUsage, Uncounted, Listed
  <2>q. QED
    BY <2>1, <2>2
<1>su. ASSUME NEW t \in Tapes, SaysUnused(t), inventory' \subseteq inventory \cup {t},
              UNCHANGED <<phase, spent, drift, written, copying, tapeUsed, room, job, scanned>>
       PROVE  UsageInv'
  <2>1. ASSUME NEW u \in inventory \ stale, u # t PROVE RightUsage(u)'
    BY <1>k, <1>su, <2>1 DEF SaysUnused, RightUsage, Uncounted, Listed
  <2>2. ASSUME t \notin stale' PROVE RightUsage(t)'
    BY <1>su, <2>2, UnusedIsRight DEF SaysUnused
  <2>3. stale \ {t} \subseteq stale'
    BY <1>su DEF SaysUnused
  <2>q. QED
    BY <1>su, <2>1, <2>2, <2>3
<1>w. ASSUME NEW t \in Tapes, ResetRow(t) PROVE UsageInv'
  BY <1>w, <1>su DEF ResetRow
<1>15. ASSUME NEW t \in Tapes, RemoveTape(t) PROVE UsageInv'
  BY <1>15, <1>s DEF RemoveTape
<1>16. ASSUME NEW t \in Tapes, AddTape(t) PROVE UsageInv'
  BY <1>16, <1>su DEF AddTape
<1>17. ASSUME NEW t \in Tapes, Rescan(t) PROVE UsageInv'
  BY <1>17, <1>s DEF Rescan
<1>q. QED
  BY <1>1, <1>2, <1>3, <1>4, <1>5, <1>6, <1>7, <1>t, <1>8, <1>r, <1>9, <1>x, <1>10,
     <1>11, <1>12, <1>13, <1>14, <1>w, <1>15, <1>16, <1>17, <1>u
  DEF Next, JobStep, Environment

LEMMA UsageInvariant == Spec => []UsageInv
<1>1. Init /\ Typed => UsageInv
  <2> SUFFICES ASSUME Init, Typed, NEW t \in Tapes PROVE RightUsage(t)
    BY DEF Init, Typed, TypeOK, ArchiveTypes, UsageInv
  <2>1. spent[t] = 0 /\ drift[t] = 0 /\ used[t] = 0 /\ ~AtTape(t) /\ Capacity \in Nat
    BY ArchiveAssumption DEF Init, AtTape, ArchiveAssumption
  <2>q. QED
    BY <2>1 DEF RightUsage, Uncounted
<1>q. QED
  BY TypedInit, TypedStep, UsageStep, <1>1, PTL DEF Spec

\* UsageIsRight of ArchiveContents: between jobs, the used_bytes of a tape is the sizes of
\* the copies recorded on it since it was formatted, and the room computed at the load holds
\* for the whole job, although the usage is read at the load and written back at the end;
\* `drift' is what failed copies left on the tape and no row counts, and the tapes in
\* `stale' are those whose row was reset, made anew or not written at the wrong moment.
THEOREM UsageStaysRight == Spec => []UsageIsRight
<1>1. Typed /\ UsageInv => UsageIsRight
  <2> SUFFICES ASSUME Typed, UsageInv, NEW t \in inventory \ stale
               PROVE  /\ phase = "idle" => used[t] + drift[t] = spent[t]
                      /\ spent[t] - drift[t] <= Capacity
    BY DEF UsageIsRight, UsageIsExact, WithinCapacity
  <2>1. RightUsage(t) /\ used[t] \in Nat /\ spent[t] \in Nat /\ drift[t] \in Int
    BY DEF UsageInv, Typed, TypeOK, ArchiveTypes, HistoryTypes
  <2>q. QED
    BY <2>1 DEF RightUsage, Uncounted, AtTape
<1>q. QED
  BY TypedInit, TypedStep, UsageInvariant, <1>1, PTL DEF Spec

-----------------------------------------------------------------------------
(* Snapshots and plans                                                     *)

\* A file that the running job left out is in the snapshot it compared with.
LeftOutAsKnown ==
  phase \in {"load", "write", "record", "final"} =>
    \A p \in Found \ planned : snapshot[SetOf][p] = scanned[p]

SnapshotInv == GapsWerePlanned /\ LeftOutAsKnown

\* A rescan leaves the rows of the other tapes, and keeps in mind what the others said.
LEMMA RescanKeepsTrack ==
  ASSUME NEW t \in Tapes, Rescan(t), NEW s, NEW p, NEW c, c # NoFile, NEW u \in Tapes,
         <<s, p, c, u>> \in catalog
  PROVE  \/ \E v \in Tapes : <<s, p, c, v>> \in catalog'
         \/ <<s, p, c>> \in forgotten'
<1> DEFINE row == <<s, p, c, u>>
<1>1. row[1] = s /\ row[2] = p /\ row[3] = c /\ row[4] = u
  OBVIOUS
<1>2. CASE u # t
  BY <1>1, <1>2 DEF Rescan
<1>3. CASE u = t
  <2>1. row \in {q \in catalog : q[4] = t /\ q[3] # NoFile}
    BY <1>1, <1>3
  <2>2. <<row[1], row[2], row[3]>> \in forgotten'
    BY <2>1 DEF Rescan
  <2>q. QED
    BY <1>1, <2>2
<1>q. QED
  BY <1>2, <1>3

LEMMA SnapshotStep == Typed /\ SnapshotInv /\ [Next]_vars => SnapshotInv'
<1> SUFFICES ASSUME Typed, SnapshotInv, [Next]_vars PROVE SnapshotInv'
  OBVIOUS
<1>u. CASE UNCHANGED vars
  BY <1>u DEF SnapshotInv, GapsWerePlanned, Recorded, LeftOutAsKnown, Found, SetOf, vars,
               jobVars, scan, result, load, rows, usage, history
<1> USE ArchiveAssumption, JobParts
<1> USE DEF Typed, TypeOK, ArchiveTypes, JobTypes, HistoryTypes, Shape, Contents,
            SnapshotInv, GapsWerePlanned, Recorded, LeftOutAsKnown, Found, SetOf, vars,
            jobVars, scan, result, load, rows, usage, history
<1>1. ASSUME NEW s \in Sets, NEW mode \in {"full", "incremental"}, NEW t \in Tapes,
             Start(s, mode, t)
      PROVE  SnapshotInv'
  BY <1>1 DEF Start
<1>2. ASSUME ScanEmpty PROVE SnapshotInv'
  BY <1>2 DEF ScanEmpty, JobEnds, Nothing
<1>3. ASSUME Plan PROVE SnapshotInv'
  BY <1>3 DEF Plan, ToBackup, Skipped
<1>4. ASSUME Load PROVE SnapshotInv'
  BY <1>4 DEF Load
<1>5. ASSUME LoadFailed PROVE SnapshotInv'
  BY <1>5 DEF LoadFailed
<1>6. ASSUME NEW p \in Paths, Copy(p) PROVE SnapshotInv'
  BY <1>6 DEF Copy, MayWrite
<1>7. ASSUME NEW p \in Paths, CopyFailed(p) PROVE SnapshotInv'
  BY <1>7 DEF CopyFailed, MayWrite
<1>t. ASSUME NEW q \in Paths, TooLarge(q) PROVE SnapshotInv'
  BY <1>t DEF TooLarge
<1>r. ASSUME RecordFailed PROVE SnapshotInv'
  BY <1>r DEF RecordFailed
<1>x. ASSUME Raises PROVE SnapshotInv'
  BY <1>x DEF Raises, JobEnds
<1>w. ASSUME NEW t \in Tapes, ResetRow(t) PROVE SnapshotInv'
  BY <1>w DEF ResetRow
<1>8. ASSUME Record PROVE SnapshotInv'
  BY <1>8 DEF Record
<1>9. ASSUME Unload PROVE SnapshotInv'
  BY <1>9 DEF Unload, DoneWithTape, LeavesTape
<1>10. ASSUME Finish PROVE SnapshotInv'
  <2>1. CASE UNCHANGED <<snapshot, missed>>
    BY <1>10, <2>1 DEF Finish, JobEnds
  <2>2. CASE ~UNCHANGED <<snapshot, missed>>
    <3> DEFINE lost == {e \in {<<SetOf, p, scanned[p]>> : p \in planned} :
                          ~\E t \in Tapes : <<e[1], e[2], e[3], t>> \in catalog}
    <3>0. snapshot' = [snapshot EXCEPT ![SetOf] = Manifest] /\ missed' = missed \cup lost
      BY <1>10, <2>2 DEF Finish
    <3>m. \A q \in Paths : Manifest[q] \in {NoFile, scanned[q]}
      BY DEF Manifest
    <3>1. ASSUME NEW q \in planned
          PROVE  <<SetOf, q, scanned[q]>> \in missed' \/ Recorded(SetOf, q, scanned[q])
      <4>1. <<SetOf, q, scanned[q]>> \in lost \/ Recorded(SetOf, q, scanned[q])
        OBVIOUS
      <4>q. QED
        BY <3>0, <4>1
    <3>2. /\ phase = "final" /\ phase' = "idle"
          /\ UNCHANGED <<catalog, forgotten>>
      BY <1>10 DEF Finish, JobEnds
    <3>3. ASSUME NEW s \in Sets, NEW p \in Paths, snapshot'[s][p] # NoFile
          PROVE  Recorded(s, p, snapshot'[s][p])
                 \/ <<s, p, snapshot'[s][p]>> \in missed' \cup forgotten'
      <4>1. CASE s # SetOf
        BY <3>0, <3>m, <3>1, <3>2, <3>3, <4>1
      <4>2. CASE s = SetOf /\ p \in planned
        BY <3>0, <3>m, <3>1, <3>2, <3>3, <4>2, JobParts
      <4>3. CASE s = SetOf /\ p \notin planned
        BY <3>0, <3>m, <3>1, <3>2, <3>3, <4>3, JobParts
      <4>q. QED
        BY <4>1, <4>2, <4>3
    <3>q. QED
      BY <3>2, <3>3
  <2>q. QED
    BY <2>1, <2>2
<1>11. ASSUME Cancel PROVE SnapshotInv'
  BY <1>11 DEF Cancel
<1>12. ASSUME Crash PROVE SnapshotInv'
  BY <1>12 DEF Crash, JobEnds
<1>13. ASSUME NEW s \in Sets, NEW p \in Paths, Edit(s, p) PROVE SnapshotInv'
  BY <1>13 DEF Edit
<1>14. ASSUME NEW t \in Tapes, Erase(t) PROVE SnapshotInv'
  BY <1>14 DEF Erase
<1>15. ASSUME NEW t \in Tapes, RemoveTape(t) PROVE SnapshotInv'
  BY <1>15 DEF RemoveTape
<1>16. ASSUME NEW t \in Tapes, AddTape(t) PROVE SnapshotInv'
  BY <1>16 DEF AddTape
<1>17. ASSUME NEW t \in Tapes, Rescan(t) PROVE SnapshotInv'
  <2>1. /\ UNCHANGED <<snapshot, missed, phase, scanned, planned, job>>
        /\ forgotten \subseteq forgotten'
    BY <1>17 DEF Rescan
  <2>2. ASSUME NEW s \in Sets, NEW p \in Paths, Recorded(s, p, snapshot[s][p]),
               snapshot[s][p] # NoFile
        PROVE  \/ \E u \in Tapes : <<s, p, snapshot[s][p], u>> \in catalog'
               \/ <<s, p, snapshot[s][p]>> \in forgotten'
    <3>1. PICK u \in Tapes : <<s, p, snapshot[s][p], u>> \in catalog
      BY <2>2
    <3>q. QED
      BY <1>17, <2>2, <3>1, RescanKeepsTrack
  <2>q. QED
    BY <2>1, <2>2
<1> HIDE DEF Typed, TypeOK, ArchiveTypes, JobTypes, HistoryTypes, Shape, Contents,
             SnapshotInv, GapsWerePlanned, Recorded, LeftOutAsKnown, Found, SetOf, vars,
             jobVars, scan, result, load, rows, usage, history
<1>q. QED
  BY <1>1, <1>2, <1>3, <1>4, <1>5, <1>6, <1>7, <1>t, <1>8, <1>r, <1>9, <1>x, <1>10,
     <1>11, <1>12, <1>13, <1>14, <1>w, <1>15, <1>16, <1>17, <1>u
  DEF Next, JobStep, Environment

LEMMA SnapshotInvariant == Spec => []SnapshotInv
<1>1. Init => SnapshotInv
  BY DEF Init, SnapshotInv, GapsWerePlanned, LeftOutAsKnown, Nothing
<1>q. QED
  BY TypedInit, TypedStep, SnapshotStep, <1>1, PTL DEF Spec

\* GapsWerePlanned is an invariant: through any number of incremental jobs, a file of
\* a snapshot was recorded with its content, or a job planned it and did not write it.
THEOREM SnapshotsAreCovered == Spec => []GapsWerePlanned
<1>1. SnapshotInv => GapsWerePlanned
  BY DEF SnapshotInv
<1>q. QED
  BY SnapshotInvariant, <1>1, PTL

\* SkipsWhatIsThere: whatever an incremental plan leaves out is on a tape of the
\* inventory, says the catalog, or was planned by an earlier job and not written.
THEOREM PlansAreSound == Spec => SkipsWhatIsThere
<1> DEFINE Sound ==
      phase = "plan" /\ phase' \in {"load", "final"} =>
        \A p \in Found \ planned' :
          \/ TapesWith(scanned[p]) \cap inventory # {}
          \/ <<SetOf, p, scanned[p]>> \in missed \cup forgotten
<1>1. Typed /\ SnapshotInv /\ [Next]_vars => [Sound]_vars
  <2> SUFFICES ASSUME Typed, SnapshotInv, [Next]_vars, phase = "plan",
                      phase' \in {"load", "final"}, NEW p \in Found \ planned'
               PROVE  \/ TapesWith(scanned[p]) \cap inventory # {}
                      \/ <<SetOf, p, scanned[p]>> \in missed \cup forgotten
    OBVIOUS
  <2>1. Plan
    <3> USE DEF Next, JobStep, Environment, vars, jobVars, scan, result, load, rows, usage,
                history
    <3>q. QED
      BY DEF Start, ScanEmpty, JobEnds, Load, LoadFailed, Copy, CopyFailed, MayWrite, TooLarge,
             Record, RecordFailed, Unload, DoneWithTape, Raises, Finish, Cancel, Crash, Edit,
             Erase, ResetRow, RemoveTape, AddTape, Rescan
  <2>2. /\ snapshot[SetOf][p] = scanned[p] /\ scanned[p] # NoFile
        /\ TapesWith(scanned[p]) # {} => TapesWith(scanned[p]) \cap inventory # {}
    BY <2>1 DEF Plan, ToBackup, Skipped, Found
  <2>3. CASE <<SetOf, p, scanned[p]>> \in missed \cup forgotten
    BY <2>3
  <2>4. CASE Recorded(SetOf, p, scanned[p])
    <3>1. PICK t \in Tapes : <<SetOf, p, scanned[p], t>> \in catalog
      BY <2>4 DEF Recorded
    <3>2. t \in TapesWith(scanned[p])
      BY <3>1 DEF TapesWith
    <3>q. QED
      BY <2>2, <3>2
  <2>q. QED
    BY <2>2, <2>3, <2>4, JobParts DEF SnapshotInv, GapsWerePlanned, Found
<1>q. QED
  BY TypedInit, TypedStep, SnapshotInvariant, <1>1, PTL DEF Spec, SkipsWhatIsThere

-----------------------------------------------------------------------------
(* Snapshots and tapes                                                     *)

\* A file of a set's latest snapshot is on some tape with that content, unless a job planned
\* it and did not write it, a rescan deleted its record, or the path was overwritten or
\* erased on a tape.
SnapshotIsOnTape ==
  \A s \in Sets, p \in Paths :
    LET c == snapshot[s][p] IN
    \/ c = NoFile \/ <<s, p, c>> \in missed \cup forgotten
    \/ \E t \in Tapes : medium[t][p] = c \/ <<t, p>> \in disturbed

\* From the snapshot through the catalog to the medium (_finalize_snapshot,
\* add_archived_file, _backup_single_file).
THEOREM SnapshotsAreOnTape == Spec => []SnapshotIsOnTape
<1>1. GapsWerePlanned /\ CatalogIsTrue => SnapshotIsOnTape
  <2> SUFFICES ASSUME GapsWerePlanned, CatalogIsTrue, NEW s \in Sets, NEW p \in Paths,
                      snapshot[s][p] # NoFile,
                      <<s, p, snapshot[s][p]>> \notin missed \cup forgotten
               PROVE  \E t \in Tapes : medium[t][p] = snapshot[s][p] \/ <<t, p>> \in disturbed
    BY DEF SnapshotIsOnTape
  <2> DEFINE c == snapshot[s][p]
  <2>1. PICK t \in Tapes : <<s, p, c, t>> \in catalog
    BY DEF GapsWerePlanned, Recorded
  <2> DEFINE row == <<s, p, c, t>>
  <2>2. row[2] = p /\ row[3] = c /\ row[4] = t
    OBVIOUS
  <2>3. \/ row[3] \in {medium[row[4]][row[2]], NoFile}
        \/ <<row[4], row[2]>> \in disturbed
    BY <2>1 DEF CatalogIsTrue
  <2>4. medium[t][p] = c \/ <<t, p>> \in disturbed
    BY <2>2, <2>3
  <2>q. QED
    BY <2>4
<1>q. QED
  BY <1>1, SnapshotsAreCovered, CatalogStaysTrue, PTL

\* File p of set s has content c, like its last snapshot, no row of the catalog names c, and a
\* job of the set that runs left it out.
Gap(s, p, c) ==
  /\ source[s][p] = c /\ snapshot[s][p] = c
  /\ \A row \in catalog : row[3] # c
  /\ phase # "idle" /\ SetOf = s => /\ Mode = "incremental" /\ scanned[p] = c
                                    /\ p \notin planned \cup unread
                                    /\ phase = "record" => copying[1] # p

\* The owner changes the file, a full backup of its set begins, or one whose source lists the
\* file without a checksum, or another file of the same content gets a record.
Mends(s, p, c) ==
  \/ source'[s][p] # source[s][p]
  \/ \E mode \in {"full", "incremental"}, t \in Tapes :
       Start(s, mode, t) /\ (mode = "full" \/ p \in unread')
  \/ \E row \in catalog' \ catalog : row[3] = c /\ <<row[1], row[2]>> # <<s, p>>

LEMMA GapStep ==
  ASSUME NEW s \in Sets, NEW p \in Paths, NEW c \in Versions,
         Typed, Gap(s, p, c), [Next]_vars, ~Mends(s, p, c)
  PROVE  Gap(s, p, c)'
<1>a. source'[s][p] = source[s][p]
  BY DEF Mends
<1>b. c # NoFile
  BY ArchiveAssumption DEF ArchiveAssumption
<1>u. CASE UNCHANGED vars
  BY <1>u DEF Gap, SetOf, Mode, vars, jobVars, scan, result, load, rows, usage, history
<1> USE JobParts, <1>a, <1>b
<1> USE DEF Typed, TypeOK, JobTypes, Shape, Gap, SetOf, Mode, jobVars, scan, result, load, rows,
            usage, history
<1>1. ASSUME NEW r \in Sets, NEW mode \in {"full", "incremental"}, NEW t \in Tapes,
             Start(r, mode, t)
      PROVE  Gap(s, p, c)'
  BY <1>1 DEF Start, Mends
<1>2. ASSUME ScanEmpty PROVE Gap(s, p, c)'
  BY <1>2 DEF ScanEmpty, JobEnds, Found, ArchiveTypes
<1>3. ASSUME Plan PROVE Gap(s, p, c)'
  <2>1. UNCHANGED <<source, snapshot, catalog, job, scanned, unread>> /\ phase = "plan"
        /\ phase' \in {"final", "load"} /\ planned' = ToBackup
    BY <1>3 DEF Plan
  <2>2. TapesWith(c) = {}
    BY DEF TapesWith
  <2>3. SetOf = s => p \notin ToBackup
    BY <2>1, <2>2 DEF ToBackup, Incremental, Skipped, Nothing
  <2>q. QED
    BY <2>1, <2>3
<1>4. ASSUME Load PROVE Gap(s, p, c)'
  BY <1>4 DEF Load
<1>5. ASSUME LoadFailed PROVE Gap(s, p, c)'
  BY <1>5 DEF LoadFailed
<1>6. ASSUME NEW q \in Paths, Copy(q) PROVE Gap(s, p, c)'
  BY <1>6 DEF Copy, MayWrite, NextFile
<1>7. ASSUME NEW q \in Paths, CopyFailed(q) PROVE Gap(s, p, c)'
  BY <1>7 DEF CopyFailed, MayWrite
<1>t. ASSUME NEW q \in Paths, TooLarge(q) PROVE Gap(s, p, c)'
  BY <1>t DEF TooLarge
<1>r. ASSUME RecordFailed PROVE Gap(s, p, c)'
  BY <1>r DEF RecordFailed
<1>x. ASSUME Raises PROVE Gap(s, p, c)'
  BY <1>x DEF Raises, JobEnds, ArchiveTypes
<1>w. ASSUME NEW t \in Tapes, ResetRow(t) PROVE Gap(s, p, c)'
  BY <1>w DEF ResetRow
<1>8. ASSUME Record PROVE Gap(s, p, c)'
  <2> DEFINE row == <<SetOf, copying[1], copying[2], Tape>>
  <2>1. /\ UNCHANGED <<source, snapshot, job, scanned, unread, planned>> /\ phase = "record"
        /\ phase' = "write" /\ catalog' = catalog \cup {row}
    BY <1>8 DEF Record
  <2>2. row[1] = SetOf /\ row[2] = copying[1] /\ row[3] = copying[2]
    OBVIOUS
  <2>3. copying[2] # c
    <3>1. SUFFICES ASSUME copying[2] = c PROVE FALSE
      OBVIOUS
    <3>2. row \notin catalog
      BY <2>2, <3>1
    <3>3. row \in catalog' \ catalog /\ row[3] = c
      BY <2>1, <2>2, <3>1, <3>2
    <3>4. <<row[1], row[2]>> = <<s, p>>
      BY <3>3 DEF Mends
    <3>q. QED
      BY <2>1, <2>2, <3>4
  <2>q. QED
    BY <2>1, <2>2, <2>3
<1>9. ASSUME Unload PROVE Gap(s, p, c)'
  BY <1>9 DEF Unload, DoneWithTape, LeavesTape
<1>10. ASSUME Finish PROVE Gap(s, p, c)'
  BY <1>10 DEF Finish, Manifest, JobEnds, ArchiveTypes
<1>11. ASSUME Cancel PROVE Gap(s, p, c)'
  BY <1>11 DEF Cancel
<1>12. ASSUME Crash PROVE Gap(s, p, c)'
  BY <1>12 DEF Crash, JobEnds
<1>13. ASSUME NEW r \in Sets, NEW q \in Paths, Edit(r, q) PROVE Gap(s, p, c)'
  BY <1>13 DEF Edit
<1>14. ASSUME NEW t \in Tapes, Erase(t) PROVE Gap(s, p, c)'
  BY <1>14 DEF Erase
<1>15. ASSUME NEW t \in Tapes, RemoveTape(t) PROVE Gap(s, p, c)'
  BY <1>15 DEF RemoveTape
<1>16. ASSUME NEW t \in Tapes, AddTape(t) PROVE Gap(s, p, c)'
  BY <1>16 DEF AddTape
<1>17. ASSUME NEW t \in Tapes, Rescan(t) PROVE Gap(s, p, c)'
  <2>1. PICK files \in SUBSET Paths :
          catalog' = {q \in catalog : q[4] # t} \cup ({NoFile} \X files \X {NoFile} \X {t})
    BY <1>17 DEF Rescan
  <2>2. \A q \in {NoFile} \X files \X {NoFile} \X {t} : q[3] = NoFile
    OBVIOUS
  <2>q. QED
    BY <1>17, <2>1, <2>2 DEF Rescan
<1> HIDE DEF Typed, TypeOK, JobTypes, Shape, Gap, SetOf, Mode, jobVars, scan, result, load,
             rows, usage, history
<1>q. QED
  BY <1>1, <1>2, <1>3, <1>4, <1>5, <1>6, <1>7, <1>t, <1>8, <1>r, <1>9, <1>x, <1>10,
     <1>11, <1>12, <1>13, <1>14, <1>w, <1>15, <1>16, <1>17, <1>u
  DEF Next, JobStep, Environment

\* A gap lasts: a file that no tape has, but the snapshot lists, is left out by every further
\* incremental job of its set, however many there are and whatever tapes come and go, until
\* one of the events that mend it (src/backend/backup_engine.py:100).
THEOREM GapsLast ==
  ASSUME NEW s \in Sets, NEW p \in Paths, NEW c \in Versions
  PROVE  Spec => [][Gap(s, p, c) => Gap(s, p, c)' \/ Mends(s, p, c)]_vars
<1>1. Typed /\ [Next]_vars => [Gap(s, p, c) => Gap(s, p, c)' \/ Mends(s, p, c)]_vars
  BY GapStep
<1>q. QED
  BY TypedInit, TypedStep, <1>1, PTL DEF Spec
=============================================================================
