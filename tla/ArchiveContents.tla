--------------------------- MODULE ArchiveContents ---------------------------
(***************************************************************************)
(* What is on the tapes, and what the catalog and the snapshots say of it: *)
(* scan, incremental plan, the copies to one tape, usage and snapshot of   *)
(* successive backup jobs (backup_engine.py), while the sources change and *)
(* tapes are erased, rescanned, removed and added (lto_backend_main,       *)
(* routes/tapes.py). A version stands for a content and its checksum.      *)
(***************************************************************************)
EXTENDS Integers, FiniteSets

CONSTANTS
  Sets,       \* backup sets, one source each
  Paths,      \* relative paths, the same in every source
  Versions,   \* contents
  Size,       \* of each content
  NoFile,     \* no content
  Partial,    \* what a copy that broke off leaves
  Tapes,
  Capacity,   \* of a formatted tape
  Failing,    \* paths whose copy, verification or record may fail
  Unhashed,   \* paths that a source may list without a checksum
  MaxEdits,   \* bound: changes of the sources
  MaxJobs,    \* bound: jobs
  MaxEvents   \* bound: jobs cancelled, or ended by an exception or a restart, failures of
              \* the tape and of the database, and tapes erased, rescanned, removed or added

ASSUME ArchiveAssumption ==
  /\ NoFile \notin Versions /\ Partial \notin Versions /\ Partial # NoFile
  /\ Size \in [Versions -> Nat]
  /\ Capacity \in Nat
  /\ Failing \subseteq Paths /\ Unhashed \subseteq Paths
  /\ {MaxEdits, MaxJobs, MaxEvents} \subseteq Nat

Contents == [Paths -> Versions \cup {NoFile}]
OnTape   == [Paths -> Versions \cup {NoFile, Partial}]
Nothing  == [p \in Paths |-> NoFile]
Records  == Sets \X Paths \X Versions \X Tapes

\* What a rescan writes: no job, hence no set, and no checksum.
Rescanned == {NoFile} \X Paths \X {NoFile} \X Tapes

VARIABLES
  source,    \* the files of each source
  medium,    \* the files on each tape, by path
  catalog,   \* archived_files: set, path, checksum, tape
  snapshot,  \* the latest manifest of each set, Nothing if there is none
  inventory, \* rows of the tapes table
  used,      \* tapes.used_bytes
  holds,     \* tapes.capacity_bytes
  erased,    \* tapes that were erased and whose rows do not say so yet
  phase,     \* of the running job
  job,       \* its set, mode and tape
  scanned,   \* its files
  unread,    \* those without a checksum
  planned,   \* paths to back up
  todo,      \* those still to be copied
  tapeUsed,  \* tape_used
  room,      \* tape_available
  written,   \* tape_bytes_written
  copying,   \* the path and content copied and not yet recorded
  processed, \* some file was backed up
  errors,    \* some file was not
  cancelled,
  away,      \* the job's tape was taken out of its drive
  budget,    \* how much of each bound is left
  missed,    \* entries of snapshots that were planned and never recorded
  disturbed, \* tapes and paths whose content was replaced or lost
  stale,     \* tapes whose used_bytes is not what was written
  spent,     \* written to each tape since it was formatted
  drift,     \* what of it no listed size of a recorded copy stands for
  forgotten  \* what was recorded with its checksum, until a rescan

scan    == <<job, scanned, unread>>
result  == <<processed, errors, cancelled>>
load    == <<tapeUsed, room, away>>
jobVars == <<phase, scan, planned, todo, load, written, copying, result>>
rows    == <<inventory, used, holds, erased>>
usage   == <<stale, spent, drift>>
history == <<missed, disturbed, usage, forgotten>>
vars == <<source, medium, catalog, snapshot, rows, jobVars, budget, history>>

Spend(b) == budget[b] > 0 /\ budget' = [budget EXCEPT ![b] = @ - 1]

Init ==
  /\ source \in [Sets -> {[p \in Paths |-> c] : c \in Versions \cup {NoFile}}]
  /\ medium = [t \in Tapes |-> Nothing]
  /\ catalog = {}
  /\ snapshot = [s \in Sets |-> Nothing]
  /\ inventory = Tapes
  /\ used = [t \in Tapes |-> 0]
  /\ holds = [t \in Tapes |-> Capacity]
  /\ erased = {}
  /\ phase = "idle"
  /\ job = <<>>
  /\ scanned = Nothing /\ unread = {} /\ planned = {} /\ todo = {}
  /\ tapeUsed = 0 /\ room = 0 /\ away = FALSE /\ written = 0 /\ copying = <<>>
  /\ processed = FALSE /\ errors = FALSE /\ cancelled = FALSE
  /\ budget = [edit |-> MaxEdits, job |-> MaxJobs, event |-> MaxEvents]
  /\ missed = {} /\ disturbed = {} /\ stale = {} /\ forgotten = {}
  /\ spent = [t \in Tapes |-> 0] /\ drift = [t \in Tapes |-> 0]

SetOf == job[1]
Mode == job[2]
Tape == job[3]

-----------------------------------------------------------------------------
(* Scan and plan                                                           *)

\* A source that lists its files itself may list one without a checksum.
Start(s, mode, t) ==
  /\ phase = "idle"
  /\ Spend("job")
  /\ job' = <<s, mode, t>>
  /\ scanned' = source[s]
  /\ unread' \in SUBSET {p \in Unhashed : source[s][p] # NoFile}
  /\ phase' = "plan"
  /\ UNCHANGED <<source, medium, catalog, snapshot, rows, planned, todo, load, written,
                 copying, result, history>>

\* What a job knows of the tape it is at is gone.
LeavesTape == tapeUsed' = 0 /\ room' = 0 /\ away' = FALSE /\ written' = 0

\* A job that ends leaves nothing in memory.
JobEnds ==
  /\ phase' = "idle" /\ job' = <<>>
  /\ scanned' = Nothing /\ unread' = {} /\ planned' = {} /\ todo' = {}
  /\ LeavesTape /\ copying' = <<>>
  /\ processed' = FALSE /\ errors' = FALSE /\ cancelled' = FALSE

Found == {p \in Paths : scanned[p] # NoFile}

\* No files: a snapshot without files, which counts as none for the next plan.
ScanEmpty ==
  /\ phase = "plan"
  /\ Found = {}
  /\ snapshot' = [snapshot EXCEPT ![SetOf] = Nothing]
  /\ JobEnds
  /\ UNCHANGED <<source, medium, catalog, rows, budget, history>>

\* get_checksum_catalog: the tapes with a file of this content, at any path of any set.
TapesWith(c) == {r[4] : r \in {q \in catalog : q[3] = c}}

\* Mutant of Skipped: the catalog is not asked.
SkippedUnchecked(p) == snapshot[SetOf][p] = scanned[p]

\* compute_incremental_plan: an unchanged file is skipped if a tape of the inventory
\* has its content, and also if no tape ever had it.
Skipped(p) ==
  /\ snapshot[SetOf][p] = scanned[p]
  /\ TapesWith(scanned[p]) # {} => TapesWith(scanned[p]) \cap inventory # {}

Incremental == Mode = "incremental" /\ snapshot[SetOf] # Nothing

\* Mutant of ToBackup: a file with a snapshot entry counts as unchanged.
ToBackupNew == IF Incremental THEN {p \in Found : snapshot[SetOf][p] = NoFile} ELSE Found

\* A file without a checksum is backed up.
ToBackup ==
  IF Incremental THEN {p \in Found : p \in unread \/ ~Skipped(p)} ELSE Found

\* Mutant of Plan: every file of the scan is copied.
PlanAll ==
  /\ phase = "plan"
  /\ Found # {}
  /\ planned' = ToBackup
  /\ todo' = Found
  /\ phase' = "load"
  /\ UNCHANGED <<source, medium, catalog, snapshot, rows, scan, load, written, copying,
                 result, budget, history>>

Plan ==
  /\ phase = "plan"
  /\ Found # {}
  /\ planned' = ToBackup
  /\ todo' = ToBackup
  /\ phase' = IF ToBackup = {} THEN "final" ELSE "load"
  /\ UNCHANGED <<source, medium, catalog, snapshot, rows, scan, load, written, copying,
                 result, budget, history>>

-----------------------------------------------------------------------------
(* The copies                                                              *)

\* The job is at its tape, and has read the tape's row.
AtTape(t) == phase \in {"write", "record"} /\ t = Tape

\* A tape without a row has no capacity.
Load ==
  /\ phase = "load"
  /\ ~cancelled
  /\ tapeUsed' = IF Tape \in inventory THEN used[Tape] ELSE 0
  /\ room' = IF Tape \in inventory THEN holds[Tape] - used[Tape] ELSE 0
  /\ phase' = "write"
  /\ UNCHANGED <<source, medium, catalog, snapshot, rows, scan, planned, todo, away, written,
                 copying, result, budget, history>>

\* The row of tape t says from now on that nothing of it is used.
SaysUnused(t) ==
  /\ used' = [used EXCEPT ![t] = 0]
  /\ stale' = IF spent[t] = drift[t] /\ ~AtTape(t) THEN stale \ {t} ELSE stale \cup {t}

\* The tape is not loaded; or it is, but encryption or the mount fails, before its usage
\* was read: the finally clause writes the zeros it has.
LoadFailed ==
  /\ phase = "load"
  /\ ~cancelled
  /\ \/ UNCHANGED <<used, stale, budget>>
     \/ Tape \in inventory /\ SaysUnused(Tape) /\ Spend("event")
  /\ errors' = TRUE
  /\ phase' = "final"
  /\ UNCHANGED <<source, medium, catalog, snapshot, inventory, holds, erased, scan, planned,
                 todo, load, written, copying, processed, cancelled, missed, disturbed, spent,
                 drift, forgotten>>

Listed(p) == Size[scanned[p]]

\* The files come in the order of their sizes, the largest first.
NextFile(p) == p \in todo /\ \A q \in todo : Listed(q) <= Listed(p)

Fits(p) == Listed(p) <= room - written

\* Mutant of MayWrite: one file too many.
MayWriteOneMore(p) == phase = "write" /\ NextFile(p) /\ ~cancelled /\ written < room

MayWrite(p) ==
  phase = "write" /\ NextFile(p) /\ ~cancelled /\ written < room /\ Fits(p)

\* The file would not fit, whatever the job had written before: it is left out.
TooLarge(p) ==
  /\ phase = "write" /\ NextFile(p) /\ written < room
  /\ Listed(p) > room
  /\ errors' = TRUE
  /\ todo' = todo \ {p}
  /\ UNCHANGED <<source, medium, catalog, snapshot, rows, phase, scan, planned, load, written,
                 copying, processed, cancelled, budget, history>>

\* All copied, cancelled, or the next file goes to the next tape.
DoneWithTape ==
  /\ phase = "write"
  /\ \/ todo = {} \/ cancelled \/ written >= room
     \/ \E p \in todo : NextFile(p) /\ ~Fits(p) /\ Listed(p) <= room

Disturb(t, p, c) ==
  IF medium[t][p] \in {NoFile, c} THEN disturbed ELSE disturbed \cup {<<t, p>>}

\* Mutant of Copy: the record is written first.
RecordFirst(p) ==
  LET c == source[SetOf][p] IN
  /\ MayWrite(p)
  /\ c # NoFile
  /\ catalog' = catalog \cup {<<SetOf, p, c, Tape>>}
  /\ copying' = <<p, c>>
  /\ phase' = "record"
  /\ UNCHANGED <<source, medium, snapshot, rows, scan, planned, todo, load, written, result,
                 budget, history>>

\* The content the file has by now, over whatever the tape has at that path. Where the tape
\* was taken away, the copy goes to the directory it was mounted on.
Copy(p) ==
  LET c == source[SetOf][p] IN
  /\ MayWrite(p)
  /\ c # NoFile
  /\ IF away
     THEN /\ disturbed' = disturbed \cup {<<Tape, p>>}
          /\ stale' = stale \cup {Tape}
          /\ UNCHANGED <<medium, spent, drift>>
     ELSE /\ medium' = [medium EXCEPT ![Tape][p] = c]
          /\ disturbed' = Disturb(Tape, p, c)
          /\ spent' = [spent EXCEPT ![Tape] = @ + Size[c]]
          /\ drift' = [drift EXCEPT ![Tape] = @ + Size[c] - Listed(p)]
          /\ UNCHANGED stale
  /\ copying' = <<p, c>>
  /\ phase' = "record"
  /\ UNCHANGED <<source, catalog, snapshot, rows, scan, planned, todo, load, written, result,
                 budget, missed, forgotten>>

\* Of file p, n was written to the tape, where `left' is left of it.
Spoils(p, left, n) ==
  /\ Spend("event")
  /\ medium' = [medium EXCEPT ![Tape][p] = left]
  /\ disturbed' = Disturb(Tape, p, left)
  /\ spent' = [spent EXCEPT ![Tape] = @ + n]
  /\ drift' = [drift EXCEPT ![Tape] = @ + n]

\* The read fails, and the tape keeps what it has; or the write breaks off, or the
\* verification finds another checksum and removes the file, or it fails itself.
CopyFailed(p) ==
  LET c == source[SetOf][p] IN
  /\ MayWrite(p)
  /\ p \in Failing \/ c = NoFile
  /\ \/ UNCHANGED <<medium, disturbed, spent, drift, budget>>
     \/ /\ ~away /\ c # NoFile
        /\ \/ \E n \in 0..Size[c] : Spoils(p, Partial, n)
           \/ \E left \in {NoFile, c} : Spoils(p, left, Size[c])
  /\ errors' = TRUE
  /\ todo' = todo \ {p}
  /\ UNCHANGED <<source, catalog, snapshot, rows, phase, scan, planned, load, written, copying,
                 processed, cancelled, missed, stale, forgotten>>

Record ==
  LET p == copying[1] IN
  /\ phase = "record"
  /\ catalog' = catalog \cup {<<SetOf, p, copying[2], Tape>>}
  /\ written' = written + Listed(p)
  /\ processed' = TRUE
  /\ todo' = todo \ {p}
  /\ copying' = <<>>
  /\ phase' = "write"
  /\ UNCHANGED <<source, medium, snapshot, rows, scan, planned, load, errors, cancelled,
                 budget, history>>

\* The insert fails: the file stays on the tape, and nothing counts it.
RecordFailed ==
  LET p == copying[1] IN
  /\ phase = "record"
  /\ p \in Failing /\ Spend("event")
  /\ drift' = [drift EXCEPT ![Tape] = @ + Listed(p)]
  /\ errors' = TRUE
  /\ todo' = todo \ {p}
  /\ copying' = <<>>
  /\ phase' = "write"
  /\ UNCHANGED <<source, medium, catalog, snapshot, rows, scan, planned, load, written,
                 processed, cancelled, missed, disturbed, stale, spent, forgotten>>

\* Mutant of SavesUsage: what the tape had before the job is forgotten.
SavesAnew == used' = [used EXCEPT ![Tape] = IF Tape \in inventory THEN written ELSE @]

\* The row, if there is one, gets the usage that was read at the load and what was written
\* since.
SavesUsage ==
  used' = [used EXCEPT ![Tape] = IF Tape \in inventory THEN tapeUsed + written ELSE @]

\* An error of the database is only logged.
Unload ==
  /\ DoneWithTape
  /\ \/ SavesUsage /\ UNCHANGED <<stale, budget>>
     \/ /\ Spend("event")
        /\ stale' = IF written = 0 THEN stale ELSE stale \cup {Tape}
        /\ UNCHANGED used
  /\ LeavesTape
  /\ phase' = "final"
  /\ UNCHANGED <<source, medium, catalog, snapshot, inventory, holds, erased, scan, planned,
                 todo, copying, result, missed, disturbed, spent, drift, forgotten>>

\* An exception that is not a file's own passes the finally clause on its way.
Raises ==
  /\ phase = "write"
  /\ Spend("event")
  /\ SavesUsage
  /\ JobEnds
  /\ UNCHANGED <<source, medium, catalog, snapshot, inventory, holds, erased, missed,
                 disturbed, usage, forgotten>>

\* The manifest lists every file of the scan; a missing checksum never matches another.
Manifest == [p \in Paths |-> IF p \in unread THEN NoFile ELSE scanned[p]]

\* A job that ran out of room completes like one that did not; one with errors does
\* if it backed up something.
Finish ==
  /\ phase = "final"
  /\ IF cancelled \/ (errors /\ ~processed)
     THEN UNCHANGED <<snapshot, missed>>
     ELSE /\ snapshot' = [snapshot EXCEPT ![SetOf] = Manifest]
          /\ missed' = missed \cup
               {e \in {<<SetOf, p, scanned[p]>> : p \in planned} :
                  ~\E t \in Tapes : <<e[1], e[2], e[3], t>> \in catalog}
  /\ JobEnds
  /\ UNCHANGED <<source, medium, catalog, rows, budget, disturbed, usage, forgotten>>

Cancel ==
  /\ phase \in {"load", "write", "record", "final"}
  /\ ~cancelled
  /\ Spend("event")
  /\ cancelled' = TRUE
  /\ phase' = IF phase = "load" THEN "final" ELSE phase
  /\ UNCHANGED <<source, medium, catalog, snapshot, rows, scan, planned, todo, load, written,
                 copying, processed, errors, history>>

\* The process stops, and the tape's usage is not updated; or an exception ends the job
\* before or after it was at its tape.
Crash ==
  /\ phase # "idle"
  /\ Spend("event")
  /\ JobEnds
  /\ stale' = IF phase = "record" \/ (phase = "write" /\ written > 0)
              THEN stale \cup {Tape} ELSE stale
  /\ UNCHANGED <<source, medium, catalog, snapshot, rows, missed, disturbed, spent, drift,
                 forgotten>>

-----------------------------------------------------------------------------
(* Between and during jobs                                                 *)

Edit(s, p) ==
  /\ Spend("edit")
  /\ \E c \in (Versions \cup {NoFile}) \ {source[s][p]} :
       source' = [source EXCEPT ![s][p] = c]
  /\ UNCHANGED <<medium, catalog, snapshot, rows, jobVars, history>>

\* The drive that a request uses may be the one of the running job: none of them takes
\* its lock.
TakesDrive(t) ==
  IF phase \in {"write", "record"} THEN away' \in {away, TRUE} ELSE UNCHANGED away

\* The format and wipe routes at any time, and initialize_single_tape between jobs, erase
\* a tape; a quick erase that times out counts as done. Its rows of archived_files stay.
Erase(t) ==
  /\ Spend("event")
  /\ \/ /\ medium' = [medium EXCEPT ![t] = Nothing]
        /\ spent' = [spent EXCEPT ![t] = 0]
        /\ drift' = [drift EXCEPT ![t] = 0]
        /\ disturbed' = disturbed \cup ({t} \X {p \in Paths : medium[t][p] # NoFile})
        /\ IF AtTape(t) THEN away' = TRUE ELSE TakesDrive(t)
     \/ TakesDrive(t) /\ UNCHANGED <<medium, spent, drift, disturbed>>
  /\ erased' = erased \cup {t}
  /\ stale' = stale \cup {t}
  /\ UNCHANGED <<source, catalog, snapshot, inventory, used, holds, phase, scan, planned, todo,
                 tapeUsed, room, written, copying, result, missed, forgotten>>

\* Then its row is told, if the database lets them; a wiped tape has no capacity until it
\* is formatted.
ResetRow(t) ==
  /\ t \in erased
  /\ erased' = erased \ {t}
  /\ SaysUnused(t)
  /\ \E n \in {0, Capacity} : holds' = [holds EXCEPT ![t] = n]
  /\ UNCHANGED <<source, medium, catalog, snapshot, inventory, jobVars, budget, missed,
                 disturbed, spent, drift, forgotten>>

\* Reconciliation with the library: a tape's row is removed, whoever uses it.
RemoveTape(t) ==
  /\ t \in inventory
  /\ Spend("event")
  /\ inventory' = inventory \ {t}
  /\ UNCHANGED <<source, medium, catalog, snapshot, used, holds, erased, jobVars, history>>

\* A row for a tape that has none says that nothing of it is used.
AddTape(t) ==
  /\ t \notin inventory
  /\ Spend("event")
  /\ inventory' = inventory \cup {t}
  /\ SaysUnused(t)
  /\ holds' = [holds EXCEPT ![t] = Capacity]
  /\ UNCHANGED <<source, medium, catalog, snapshot, erased, jobVars, missed, disturbed, spent,
                 drift, forgotten>>

\* Mutant of Rescan: the rows that are there stay.
RescanOnly(t) ==
  /\ Spend("event")
  /\ \E files \in SUBSET {p \in Paths : medium[t][p] # NoFile} :
       catalog' = catalog \cup ({NoFile} \X files \X {NoFile} \X {t})
  /\ disturbed' = disturbed \ ({t} \X Paths)
  /\ TakesDrive(t)
  /\ UNCHANGED <<source, medium, snapshot, rows, phase, scan, planned, todo, tapeUsed, room,
                 written, copying, result, missed, usage, forgotten>>

\* rescan_tape_catalog: the tape's rows are deleted, then the files on it get new
\* ones; an error skips a file or ends the walk. What a job has just copied is still to
\* be recorded.
Rescan(t) ==
  /\ Spend("event")
  /\ \E files \in SUBSET {p \in Paths : medium[t][p] # NoFile} :
       catalog' = {r \in catalog : r[4] # t}
                    \cup ({NoFile} \X files \X {NoFile} \X {t})
  /\ forgotten' = forgotten \cup
       {<<r[1], r[2], r[3]>> : r \in {q \in catalog : q[4] = t /\ q[3] # NoFile}}
  /\ disturbed' = disturbed \
       ({t} \X {p \in Paths : phase = "record" => copying[1] # p})
  /\ TakesDrive(t)
  /\ UNCHANGED <<source, medium, snapshot, rows, phase, scan, planned, todo, tapeUsed, room,
                 written, copying, result, missed, usage>>

-----------------------------------------------------------------------------

JobStep ==
  \/ \E s \in Sets, mode \in {"full", "incremental"}, t \in Tapes : Start(s, mode, t)
  \/ ScanEmpty \/ Plan \/ Load \/ LoadFailed
  \/ \E p \in Paths : Copy(p) \/ CopyFailed(p) \/ TooLarge(p)
  \/ Record \/ RecordFailed \/ Unload \/ Raises \/ Finish \/ Cancel \/ Crash

Environment ==
  \/ \E s \in Sets, p \in Paths : Edit(s, p)
  \/ \E t \in Tapes : Erase(t) \/ ResetRow(t) \/ RemoveTape(t) \/ AddTape(t) \/ Rescan(t)

Next == JobStep \/ Environment

Spec == Init /\ [][Next]_vars

-----------------------------------------------------------------------------
(* Properties                                                              *)

ArchiveTypes ==
  /\ source \in [Sets -> Contents]
  /\ medium \in [Tapes -> OnTape]
  /\ catalog \subseteq Records \cup Rescanned
  /\ snapshot \in [Sets -> Contents]
  /\ inventory \subseteq Tapes
  /\ used \in [Tapes -> Nat] /\ holds \in [Tapes -> {0, Capacity}]
  /\ erased \subseteq Tapes

JobTypes ==
  /\ phase \in {"idle", "plan", "load", "write", "record", "final"}
  /\ job \in {<<>>} \cup (Sets \X {"full", "incremental"} \X Tapes)
  /\ scanned \in Contents
  /\ unread \subseteq Paths /\ planned \subseteq Paths
  /\ todo \subseteq planned
  /\ tapeUsed \in Nat /\ room \in Int /\ written \in Nat /\ away \in BOOLEAN
  /\ copying \in {<<>>} \cup (Paths \X Versions)
  /\ processed \in BOOLEAN /\ errors \in BOOLEAN /\ cancelled \in BOOLEAN

HistoryTypes ==
  /\ missed \subseteq Sets \X Paths \X Versions
  /\ disturbed \subseteq Tapes \X Paths
  /\ stale \subseteq Tapes
  /\ spent \in [Tapes -> Nat] /\ drift \in [Tapes -> Int]
  /\ forgotten \subseteq Sets \X Paths \X Versions

TypeOK == ArchiveTypes /\ JobTypes /\ HistoryTypes

Recorded(s, p, c) == \E t \in Tapes : <<s, p, c, t>> \in catalog

\* Each file of a set's latest snapshot was recorded on a tape with that content,
\* in the job of the snapshot or in an earlier one whose copy a plan relied on, or
\* some job planned it, did not write it, and made a snapshot all the same, or a
\* rescan deleted the record.
GapsWerePlanned ==
  \A s \in Sets, p \in Paths :
    LET c == snapshot[s][p] IN
    c = NoFile \/ Recorded(s, p, c) \/ <<s, p, c>> \in missed \cup forgotten

\* A record of the catalog tells what its tape has at that path, unless another
\* backup wrote there since or the tape was erased; also after a crash. After a
\* rescan it names only files that are there, whatever was written before.
CatalogIsTrue ==
  \A r \in catalog :
    \/ medium[r[4]][r[2]] # NoFile /\ r[3] \in {medium[r[4]][r[2]], NoFile}
    \/ <<r[4], r[2]>> \in disturbed

\* used_bytes is what was written to the tape whenever no job runs, but for the copies that
\* broke off or got no record, and files that changed their size since the scan.
UsageIsExact ==
  phase = "idle" => \A t \in inventory \ stale : used[t] + drift[t] = spent[t]

\* A tape is never filled beyond its capacity with what its usage stands for, or will.
WithinCapacity == \A t \in inventory \ stale : spent[t] - drift[t] <= Capacity

\* The usage that a job reads at the load, adds to in its head and writes back minutes
\* later is neither lost nor too low for the next job to keep to the capacity. Exceptions
\* are the tapes whose row was made anew or reset while a job was at them, whose usage a
\* crash, an error of the database, or a failed mount left wrong, and which were taken out
\* of a job's drive.
UsageIsRight == UsageIsExact /\ WithinCapacity

\* A plan leaves out a file only if its content is on a tape of the inventory, says
\* the catalog, or a job before it failed to write it, or a rescan forgot it.
SkipsWhatIsThere ==
  [][phase = "plan" /\ phase' \in {"load", "final"} =>
       \A p \in Found \ planned' :
         \/ TapesWith(scanned[p]) \cap inventory # {}
         \/ <<SetOf, p, scanned[p]>> \in missed \cup forgotten]_vars

\* The same, whatever happened before: a file that no tape has is backed up
\* (test_missing_on_tape_forces_backup).
MissingIsPlanned ==
  [][phase = "plan" /\ phase' \in {"load", "final"} =>
       \A p \in Found \ planned' : TapesWith(scanned[p]) \cap inventory # {}]_vars
=============================================================================
