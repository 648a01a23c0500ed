-------------------------- MODULE StreamingPipeline --------------------------
(***************************************************************************)
(* The streaming pipeline (streaming_pipeline.py): producer threads stage  *)
(* files on disk and put them in a bounded queue, one consumer thread per  *)
(* run writes them to tape, and the thread of the backup job waits for     *)
(* both. The engine has one pipeline: the queue, its size counter and lock,*)
(* the error fields, the staging directory and the catalog buffer are      *)
(* shared by every run, at the same time (jobs on two drives) or one after *)
(* the other. Nothing in the repository sets stop_requested.               *)
(***************************************************************************)
EXTENDS Naturals, Sequences, FiniteSets

CONSTANTS
  Runs,            \* calls of execute_streaming_backup
  RunDrive,        \* the drive of each: the engine allows one run per drive
  Count,           \* number of files of each run
  Listed,          \* the size of a file at its source
  Size,            \* its size when it is staged: compressed, encrypted or as it was
  Threads,         \* producer_threads
  MaxQueue,        \* max_queue_files, also the queue's maxsize
  MaxBytes,        \* max_queue_size_gb
  Threshold,       \* safety_threshold_gb
  BufferLimit,     \* db_buffer_limit
  Faulty,          \* files that staging or the copy to tape may fail for
  Converted,       \* files are compressed or encrypted when they are staged
  FullDisk,        \* runs during which the staging disk may be full
  BadDrive,        \* runs whose tape may fail to load, mount or unload
  BadDatabase      \* runs whose records may fail to be inserted

Producers == Runs \X (0 .. Threads - 1)
FilesOf(r) == {r} \X (1 .. Count[r])
Files == UNION {FilesOf(r) : r \in Runs}
Nobody == <<>>
Sentinel == <<"none">>

ASSUME PipelineAssumption ==
  /\ Runs \cap {"none"} = {}
  /\ Count \in [Runs -> Nat]
  /\ Listed \in [Files -> Nat] /\ Size \in [Files -> Nat]
  /\ Threads \in Nat \ {0}
  /\ MaxQueue \in Nat \ {0}
  /\ MaxBytes \in Nat
  /\ Threshold \in Nat
  /\ BufferLimit \in Nat \ {0}
  /\ Faulty \subseteq Files
  /\ Converted \in BOOLEAN
  /\ FullDisk \subseteq Runs
  /\ BadDrive \subseteq Runs
  /\ BadDatabase \subseteq Runs

VARIABLES
  main,           \* where the thread of each run is
  prod,           \* where each producer is
  todo,           \* files each producer has not finished with
  cons,           \* where the consumer of each run is
  hand,           \* the item it works on
  queue,          \* the queue
  bytes,          \* queue_size_bytes
  owner,          \* queue_lock
  producersDone,
  producerError,
  consumerError,
  disk,           \* the staging directory
  tape,           \* how often each file was written to the tape of each run
  buffer,         \* db_buffer
  catalog         \* archived_files

runVars  == <<main, producersDone>>
prodVars == <<prod, todo>>
consVars == <<cons, hand>>
errors   == <<producerError, consumerError>>
store    == <<tape, buffer, catalog>>
vars     == <<runVars, prodVars, consVars, queue, bytes, owner, errors, disk, store>>

-----------------------------------------------------------------------------

\* Mutant of Mine: the producers share files.
MineShared(p) == {f \in FilesOf(p[1]) : f[2] % Threads <= p[2]}

\* Files are divided among the producers by their index.
Mine(p) == {f \in FilesOf(p[1]) : f[2] % Threads = p[2]}
Current(p) == CHOOSE f \in todo[p] : \A g \in todo[p] : f[2] <= g[2]

Active(r) == main[r] \notin {"idle", "ended"}

Init ==
  /\ main = [r \in Runs |-> "idle"]
  /\ prod = [p \in Producers |-> "off"]
  /\ todo = [p \in Producers |-> {}]
  /\ cons = [r \in Runs |-> "off"]
  /\ hand = [r \in Runs |-> Sentinel]
  /\ queue = <<>> /\ bytes = 0 /\ owner = Nobody
  /\ producersDone = FALSE /\ producerError = FALSE /\ consumerError = FALSE
  /\ disk = {}
  /\ tape = [r \in Runs |-> [f \in Files |-> 0]]
  /\ buffer = {} /\ catalog = {}

-----------------------------------------------------------------------------
(* execute_streaming_backup                                                *)

\* Mutant of Cleared: the staging directory is left as it is.
NotCleared == disk

\* _cleanup_staging removes staged_*.tmp, whoever staged it. A file that was
\* compressed or encrypted has another suffix.
Cleared == IF Converted THEN disk ELSE {}

Begin(r) ==
  /\ main[r] = "idle"
  /\ \A s \in Runs : Active(s) => RunDrive[s] # RunDrive[r]
  /\ main' = [main EXCEPT ![r] = "producing"]
  /\ producersDone' = FALSE
  /\ disk' = Cleared
  /\ prod' = [p \in Producers |-> IF p[1] = r THEN "check" ELSE prod[p]]
  /\ todo' = [p \in Producers |-> IF p[1] = r THEN Mine(p) ELSE todo[p]]
  /\ cons' = [cons EXCEPT ![r] = "prefetch"]
  /\ UNCHANGED <<hand, queue, bytes, owner, errors, store>>

JoinProducers(r) ==
  /\ main[r] = "producing"
  /\ \A p \in Producers : p[1] = r => prod[p] = "done"
  /\ producersDone' = TRUE
  /\ main' = [main EXCEPT ![r] = "signalling"]
  /\ UNCHANGED <<prodVars, consVars, queue, bytes, owner, errors, disk, store>>

\* Mutant of SignalConsumer: the sentinel is forgotten.
SkipSignal(r) ==
  /\ main[r] = "signalling"
  /\ main' = [main EXCEPT ![r] = "joining"]
  /\ UNCHANGED <<producersDone, prodVars, consVars, queue, bytes, owner, errors, disk, store>>

SignalConsumer(r) ==
  /\ main[r] = "signalling"
  /\ Len(queue) < MaxQueue
  /\ queue' = Append(queue, Sentinel)
  /\ main' = [main EXCEPT ![r] = "joining"]
  /\ UNCHANGED <<producersDone, prodVars, consVars, bytes, owner, errors, disk, store>>

\* The job's status is failed in every case: update_job_status takes neither
\* the metadata of a completed job nor the error of a failed one, and the
\* TypeError of the call reaches the engine.
EndRun(r) ==
  /\ main[r] = "joining"
  /\ cons[r] = "done"
  /\ main' = [main EXCEPT ![r] = "ended"]
  /\ disk' = Cleared
  /\ UNCHANGED <<producersDone, prodVars, consVars, queue, bytes, owner, errors, store>>

-----------------------------------------------------------------------------
(* _producer_thread                                                        *)

Goto(p, to) == prod' = [prod EXCEPT ![p] = to]
Drop(p) == todo' = [todo EXCEPT ![p] = @ \ {Current(p)}]

\* An empty queue takes any file.
QueueFull(f) ==
  /\ ~(queue = <<>> /\ bytes = 0)
  /\ bytes + Listed[f] > MaxBytes \/ Len(queue) >= MaxQueue

\* The soft limits are read under the lock, which is released before the file is
\* staged: only then is its size known.
CheckQueue(p) ==
  /\ prod[p] = "check"
  /\ todo[p] # {}
  /\ owner = Nobody
  /\ ~QueueFull(Current(p))
  /\ Goto(p, "stage")
  /\ UNCHANGED <<runVars, todo, consVars, queue, bytes, owner, errors, disk, store>>

Stage(p) ==
  /\ prod[p] = "stage"
  /\ disk' = disk \cup {Current(p)}
  /\ Goto(p, "staged")
  /\ UNCHANGED <<runVars, todo, consVars, queue, bytes, owner, errors, store>>

\* _stage_file returns None: the file is left out.
StageFailed(p) ==
  /\ prod[p] = "stage"
  /\ Current(p) \in Faulty
  /\ Drop(p)
  /\ Goto(p, "check")
  /\ UNCHANGED <<runVars, consVars, queue, bytes, owner, errors, disk, store>>

LockQueue(p) ==
  /\ prod[p] = "staged"
  /\ owner = Nobody
  /\ owner' = p
  /\ Goto(p, "put")
  /\ UNCHANGED <<runVars, todo, consVars, queue, bytes, errors, disk, store>>

\* Mutant of Put: the queue has no maxsize.
PutUnbounded(p) ==
  /\ prod[p] = "put"
  /\ queue' = Append(queue, Current(p))
  /\ bytes' = bytes + Size[Current(p)]
  /\ owner' = Nobody
  /\ Drop(p)
  /\ Goto(p, "check")
  /\ UNCHANGED <<runVars, consVars, errors, disk, store>>

\* queue.put waits for room with queue_lock in its hands.
Put(p) ==
  /\ prod[p] = "put"
  /\ Len(queue) < MaxQueue
  /\ queue' = Append(queue, Current(p))
  /\ bytes' = bytes + Size[Current(p)]
  /\ owner' = Nobody
  /\ Drop(p)
  /\ Goto(p, "check")
  /\ UNCHANGED <<runVars, consVars, errors, disk, store>>

\* Mutant of ProducerEnds: each producer signals the consumer.
EndsWithSentinel(p) ==
  /\ prod[p] = "check"
  /\ todo[p] = {}
  /\ queue' = Append(queue, Sentinel)
  /\ Goto(p, "done")
  /\ UNCHANGED <<runVars, todo, consVars, bytes, owner, errors, disk, store>>

ProducerEnds(p) ==
  /\ prod[p] = "check"
  /\ todo[p] = {}
  /\ Goto(p, "done")
  /\ UNCHANGED <<runVars, todo, consVars, queue, bytes, owner, errors, disk, store>>

\* The staging disk is full and the queue is empty. (While the queue is not empty
\* a full disk is waited for, as a full queue is.)
ProducerRaises(p) ==
  /\ prod[p] = "check"
  /\ p[1] \in FullDisk
  /\ todo[p] # {}
  /\ queue = <<>>
  /\ producerError' = TRUE
  /\ Goto(p, "raised")
  /\ UNCHANGED <<runVars, todo, consVars, queue, bytes, owner, consumerError, disk, store>>

SignalError(p) ==
  /\ prod[p] = "raised"
  /\ Len(queue) < MaxQueue
  /\ queue' = Append(queue, Sentinel)
  /\ Goto(p, "done")
  /\ UNCHANGED <<runVars, todo, consVars, bytes, owner, errors, disk, store>>

-----------------------------------------------------------------------------
(* _consumer_thread                                                        *)

ConsumerGoto(r, to) == cons' = [cons EXCEPT ![r] = to]

Prefetched(r) ==
  /\ cons[r] = "prefetch"
  /\ bytes >= Threshold \/ producerError \/ producersDone
  /\ ConsumerGoto(r, "load")
  /\ UNCHANGED <<runVars, prodVars, hand, queue, bytes, owner, errors, disk, store>>

Mount(r) ==
  /\ cons[r] = "load"
  /\ ConsumerGoto(r, "get")
  /\ UNCHANGED <<runVars, prodVars, hand, queue, bytes, owner, errors, disk, store>>

MountFailed(r) ==
  /\ cons[r] = "load"
  /\ r \in BadDrive
  /\ consumerError' = TRUE
  /\ ConsumerGoto(r, "done")
  /\ UNCHANGED <<runVars, prodVars, hand, queue, bytes, owner, producerError, disk, store>>

\* queue.get needs no lock of the pipeline's.
Get(r) ==
  /\ cons[r] = "get"
  /\ queue # <<>>
  /\ hand' = [hand EXCEPT ![r] = Head(queue)]
  /\ queue' = Tail(queue)
  /\ ConsumerGoto(r, IF Head(queue) = Sentinel THEN "insert" ELSE "write")
  /\ UNCHANGED <<runVars, prodVars, bytes, owner, errors, disk, store>>

\* A full buffer is flushed at once.
Write(r) ==
  /\ cons[r] = "write"
  /\ hand[r] \in disk
  /\ tape' = [tape EXCEPT ![r][hand[r]] = @ + 1]
  /\ buffer' = buffer \cup {hand[r]}
  /\ ConsumerGoto(r, IF Cardinality(buffer') >= BufferLimit THEN "insert" ELSE "unlink")
  /\ UNCHANGED <<runVars, prodVars, hand, queue, bytes, owner, errors, disk, catalog>>

\* The staged file is gone or cannot be written: logged.
WriteFailed(r) ==
  /\ cons[r] = "write"
  /\ hand[r] \in disk => hand[r] \in Faulty
  /\ ConsumerGoto(r, "unlink")
  /\ UNCHANGED <<runVars, prodVars, hand, queue, bytes, owner, errors, disk, store>>

\* The file leaves the staging directory, then the lock is needed for the counter.
Unlink(r) ==
  /\ cons[r] = "unlink"
  /\ disk' = disk \ {hand[r]}
  /\ ConsumerGoto(r, "account")
  /\ UNCHANGED <<runVars, prodVars, hand, queue, bytes, owner, errors, store>>

\* Mutant of Account: the size in the list of files is subtracted.
AccountListed(r) ==
  /\ cons[r] = "account"
  /\ owner = Nobody
  /\ bytes' = bytes - Listed[hand[r]]
  /\ hand' = [hand EXCEPT ![r] = Sentinel]
  /\ ConsumerGoto(r, "get")
  /\ UNCHANGED <<runVars, prodVars, queue, owner, errors, disk, store>>

Account(r) ==
  /\ cons[r] = "account"
  /\ owner = Nobody
  /\ bytes' = bytes - Size[hand[r]]
  /\ hand' = [hand EXCEPT ![r] = Sentinel]
  /\ ConsumerGoto(r, "get")
  /\ UNCHANGED <<runVars, prodVars, queue, owner, errors, disk, store>>

\* _flush_db_buffer: the records are inserted, then the buffer is emptied.
Insert(r) ==
  /\ cons[r] = "insert"
  /\ catalog' = catalog \cup buffer
  /\ ConsumerGoto(r, "clear")
  /\ UNCHANGED <<runVars, prodVars, hand, queue, bytes, owner, errors, disk, tape, buffer>>

AfterFlush(r) == IF hand[r] = Sentinel THEN "close" ELSE "unlink"

\* Mutant of InsertFailed: the buffer is emptied all the same.
InsertLost(r) ==
  /\ cons[r] = "insert"
  /\ r \in BadDatabase
  /\ ConsumerGoto(r, "clear")
  /\ UNCHANGED <<runVars, prodVars, hand, queue, bytes, owner, errors, disk, store>>

\* Logged; the records stay in the buffer, for whoever flushes it next.
InsertFailed(r) ==
  /\ cons[r] = "insert"
  /\ r \in BadDatabase
  /\ ConsumerGoto(r, AfterFlush(r))
  /\ UNCHANGED <<runVars, prodVars, hand, queue, bytes, owner, errors, disk, store>>

Clear(r) ==
  /\ cons[r] = "clear"
  /\ buffer' = {}
  /\ ConsumerGoto(r, AfterFlush(r))
  /\ UNCHANGED <<runVars, prodVars, hand, queue, bytes, owner, errors, disk, tape, catalog>>

\* Unmounted and unloaded.
Close(r) ==
  /\ cons[r] = "close"
  /\ consumerError' \in {consumerError, consumerError \/ r \in BadDrive}
  /\ ConsumerGoto(r, "done")
  /\ UNCHANGED <<runVars, prodVars, hand, queue, bytes, owner, producerError, disk, store>>

-----------------------------------------------------------------------------

MainStep(r) == Begin(r) \/ JoinProducers(r) \/ SignalConsumer(r) \/ EndRun(r)

ProducerStep(p) ==
  \/ CheckQueue(p) \/ Stage(p) \/ StageFailed(p) \/ LockQueue(p) \/ Put(p)
  \/ ProducerEnds(p) \/ ProducerRaises(p) \/ SignalError(p)

ConsumerStep(r) ==
  \/ Prefetched(r) \/ Mount(r) \/ MountFailed(r) \/ Get(r) \/ Write(r) \/ WriteFailed(r)
  \/ Unlink(r) \/ Account(r) \/ Insert(r) \/ InsertFailed(r)
  \/ Clear(r) \/ Close(r)

Next ==
  \/ \E r \in Runs : MainStep(r) \/ ConsumerStep(r)
  \/ \E p \in Producers : ProducerStep(p)

Spec == Init /\ [][Next]_vars

\* Threads that can run are scheduled. (That a full staging disk gets room again is
\* not to be relied on: what rests on FairSpec leaves out the runs of FullDisk.)
FairSpec ==
  /\ Spec
  /\ \A r \in Runs : WF_vars(MainStep(r)) /\ WF_vars(ConsumerStep(r))
  /\ \A p \in Producers : WF_vars(ProducerStep(p))

-----------------------------------------------------------------------------
(* Properties                                                              *)

TypeOK ==
  /\ main \in [Runs -> {"idle", "producing", "signalling", "joining", "ended"}]
  /\ prod \in [Producers -> {"off", "check", "stage", "staged", "put", "raised", "done"}]
  /\ todo \in [Producers -> SUBSET Files]
  /\ cons \in [Runs -> {"off", "prefetch", "load", "get", "write", "insert", "clear",
                        "unlink", "account", "close", "done"}]
  /\ hand \in [Runs -> Files \cup {Sentinel}]
  /\ queue \in Seq(Files \cup {Sentinel})
  /\ Len(queue) <= MaxQueue
  /\ bytes \in Nat
  /\ owner \in Producers \cup {Nobody}
  /\ producersDone \in BOOLEAN /\ producerError \in BOOLEAN /\ consumerError \in BOOLEAN
  /\ disk \subseteq Files
  /\ tape \in [Runs -> [Files -> Nat]]
  /\ buffer \subseteq Files
  /\ catalog \subseteq Files

Queued == {f \in Files : \E i \in 1 .. Len(queue) : queue[i] = f}
InHand == {f \in Files : \E r \in Runs : hand[r] = f}

\* The units of size of a set of files.
Units(S) == UNION {{f} \X (1 .. Size[f]) : f \in S}

OnTape(r) == {f \in Files : tape[r][f] > 0}

\* queue_size_bytes is the size of what is queued or in a consumer's hands: a file is
\* counted once, by whichever threads handle it, and uncounted once, with the size
\* it was staged with.
SizeCounterExact == bytes = Cardinality(Units(Queued \cup InHand))

\* When no run is active and none has failed, nothing is left for the next one:
\* no item, no sentinel, no counted byte, no record without a catalog entry.
CleanBetweenRuns ==
  (\A r \in Runs : ~Active(r)) /\ ~producerError /\ ~consumerError
    => queue = <<>> /\ bytes = 0 /\ owner = Nobody /\ buffer = {}

OneDrive == \A r, s \in Runs : RunDrive[r] = RunDrive[s]

\* With one drive a tape gets files of its own job only, also after a run whose
\* producer or consumer failed and left its items in the queue: their staged
\* files are deleted before the next run's consumer finds them.
OwnFilesOnly == OneDrive /\ ~Converted => \A r \in Runs : OnTape(r) \subseteq FilesOf(r)

\* With one drive no record of a written file is lost between the buffer and the
\* catalog, whatever the database does and whichever run flushes it.
NoRecordLost == OneDrive => \A r \in Runs : OnTape(r) \subseteq buffer \cup catalog

\* A producer that cannot end before the queue has room (_producer_thread).
WaitsForRoom(p) ==
  \/ prod[p] \in {"staged", "put", "raised"}
  \/ prod[p] = "check" /\ todo[p] # {}

\* The consumer takes nothing more: its drive failed or it has a sentinel, or it needs
\* the lock of a producer that puts.
TakesNoMore(r) ==
  \/ cons[r] \in {"close", "done"}
  \/ /\ cons[r] \in {"write", "insert", "clear", "unlink", "account"}
     /\ \E q \in Producers : prod[q] = "put"

\* The queue is full and who would make room waits for room itself, or has ended.
StalledFull(r) ==
  /\ Len(queue) >= MaxQueue
  /\ TakesNoMore(r)
  /\ \/ main[r] = "signalling"
     \/ main[r] = "producing" /\ \E p \in Producers : p[1] = r /\ WaitsForRoom(p)

\* The producer finds the queue full for its next file.
FindsFull(p) == prod[p] = "check" /\ todo[p] # {} /\ QueueFull(Current(p))

\* The consumer waits for more bytes than the queue takes: a producer waits in
\* queue.put with the lock, or all that have not ended find the queue full.
StalledFetching(r) ==
  /\ cons[r] = "prefetch"
  /\ bytes < Threshold /\ ~producerError /\ ~producersDone
  /\ main[r] = "producing"
  /\ queue # <<>>
  /\ \/ Len(queue) >= MaxQueue /\ \E p \in Producers : p[1] = r /\ prod[p] = "put"
     \/ /\ \E p \in Producers : p[1] = r /\ FindsFull(p)
        /\ \A p \in Producers : p[1] = r => prod[p] = "done" \/ FindsFull(p)

\* How a run comes to wait for ever.
Stalled(r) == StalledFull(r) \/ StalledFetching(r)

\* A run that begins comes to an end, unless it stalls in one of these ways or waits
\* for a full disk: no file, signal or flush is left that nobody handles.
EveryRunEnds == \A r \in Runs \ FullDisk : Active(r) ~> main[r] = "ended" \/ Stalled(r)

Contract ==
  INSTANCE StreamContract WITH
    phase <- [r \in Runs |-> IF Active(r) THEN "active" ELSE main[r]]

\* The pipeline implements the contract: a run ends with every file that could be
\* staged and written on its own tape, each written once.
KeepsContract == Contract!Spec

\* Producers that find the queue full do not wait for ever: "Otherwise, Consumer is
\* working, space might free up. We wait." (_is_queue_full)
RoomIsMade == Len(queue) >= MaxQueue ~> Len(queue) < MaxQueue
=============================================================================
