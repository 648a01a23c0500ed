--------------------------- MODULE DriveUsersProofs ---------------------------
(* Proofs about DriveUsers, for any restores and plans, any requests that      *)
(* provide tapes, any number of volumes, confirmations and restarts.           *)
EXTENDS DriveUsers, TLAPS

-----------------------------------------------------------------------------
(* The drive                                                               *)

\* Calls that may change the tape, other than a mount that returns.
Moves(u) ==
  \/ \E t \in Tapes : LoadReturns(u, t) \/ LoadRaises(u, t) \/ MountRaises(u, t)
  \/ UnloadReturns(u)

\* u goes, and leaves the drive as it is.
Departs(u) == UNCHANGED <<tape, fs, recorded, doubt>> /\ crossed' = crossed \ {u}

Calls(u) == Moves(u) \/ Unmounts(u) \/ Departs(u) \/ UNCHANGED held

\* The controller's record is right, unless it is in doubt.
RecordKnown == recorded # NoTape /\ ~doubt => tape = recorded

DriveTyped == DriveOK /\ RecordKnown /\ {using, crossed, misled} \subseteq SUBSET Users

\* The calls keep the types of the drive.
LEMMA DriveKept ==
  ASSUME DriveTyped, NEW u, Calls(u)
  PROVE  DriveOK' /\ RecordKnown' /\ crossed' \subseteq Users
<1> USE DEF DriveTyped, DriveOK, RecordKnown
<1>1. ASSUME NEW t \in Tapes, LoadReturns(u, t)
      PROVE  DriveOK' /\ RecordKnown' /\ crossed' \subseteq Users
  BY <1>1 DEF LoadReturns, Gets, Records, Crosses
<1>2. ASSUME NEW t \in Tapes, LoadRaises(u, t)
      PROVE  DriveOK' /\ RecordKnown' /\ crossed' \subseteq Users
  BY <1>2 DEF LoadRaises, Gets, Records, Crosses, held
<1>3. CASE UnloadReturns(u)
  BY <1>3 DEF UnloadReturns, Gets, Records, Crosses
<1>4. CASE Unmounts(u) \/ Departs(u) \/ UNCHANGED held
  BY <1>4 DEF Unmounts, Departs, held
<1>q. QED
  BY <1>1, <1>2, <1>3, <1>4 DEF Calls, Moves, MountRaises

LEMMA MountKept ==
  ASSUME DriveTyped, NEW u \in Users, NEW t \in Tapes, MountReturns(u, t)
  PROVE  DriveTyped'
<1> USE DEF DriveTyped, DriveOK
<1>1. tape' \in {tape, t} /\ fs' = tape'
  BY DEF MountReturns, Mounts, Records
<1>2. recorded' \in {recorded, t} /\ doubt' \in BOOLEAN
  BY DEF MountReturns, Records
<1>3. RecordKnown'
  BY DEF MountReturns, Records, RecordKnown
<1>4. crossed' \subseteq Users /\ using' \subseteq Users /\ misled' \subseteq Users
  BY DEF MountReturns
<1>q. QED
  BY <1>1, <1>2, <1>3, <1>4

\* A user of the drive who is not crossed still has its tape, and was not crossed before.
LEMMA MovesCross ==
  ASSUME NEW u, Moves(u), NEW v \in using, v # u, v \notin crossed'
  PROVE  v \notin crossed /\ tape' = tape /\ fs' = fs
BY DEF Moves, LoadReturns, LoadRaises, MountRaises, UnloadReturns, Crosses, held

LEMMA MountCrosses ==
  ASSUME NEW u, NEW t, MountReturns(u, t), NEW v, v # u, v \notin crossed'
  PROVE  v \notin crossed /\ (v \in using => tape' = tape)
BY DEF MountReturns, Records

\* Whoever is not crossed after a call of another was not crossed before.
LEMMA CrossedStays ==
  ASSUME NEW u, NEW v, v # u,
         Calls(u) \/ \E t \in Tapes : MountReturns(u, t),
         v \in crossed
  PROVE  v \in crossed'
BY DEF Calls, Moves, LoadReturns, LoadRaises, MountRaises, UnloadReturns, Unmounts, Departs,
       MountReturns, Crosses, held

\* A restore's thread calls the drive, or leaves it alone.
LEMMA ThreadCalls ==
  ASSUME NEW r \in Restores, TapeOf(r) \in Tapes, StartRestore(r) \/ ThreadStep(r)
  PROVE  Calls(r) \/ \E t \in Tapes : MountReturns(r, t)
<1>1. CASE EnsureLoaded(r)
  BY <1>1 DEF EnsureLoaded, Calls, Moves
<1>2. CASE MountTape(r)
  BY <1>2 DEF MountTape, Calls, Moves
<1>3. CASE Unmount(r)
  BY <1>3 DEF Unmount, Calls, Departs
<1>4. ASSUME \/ StartRestore(r) \/ PlanRestore(r) \/ AskForTape(r) \/ PollTape(r)
             \/ Resume(r) \/ CopyFiles(r)
      PROVE  Calls(r)
  BY <1>4
  DEF StartRestore, PlanRestore, AskForTape, PollTape, Resume, CopyFiles, Calls, drive
<1>q. QED
  BY <1>1, <1>2, <1>3, <1>4 DEF ThreadStep

-----------------------------------------------------------------------------
(* Types                                                                   *)

\* tar runs for a job that watches it, and still has volumes to write while it does.
Shape ==
  /\ job = "new" => volumes = <<>>
  /\ job = "watching" => tapes # <<>>
  /\ tar \in {"writing", "full", "polling", "done", "failed", "blocked"} => job = "watching"
  /\ tar \in {"writing", "full", "polling"} => Len(volumes) < MaxVolumes

Typed == TypeOK /\ Shape /\ RecordKnown

LEMMA TypedInit == Init => Typed
<1> SUFFICES ASSUME Init PROVE Typed
  OBVIOUS
<1>1. DriveOK /\ {using, crossed, misled} \subseteq SUBSET Users /\ RecordKnown
  BY DEF Init, DriveOK, RecordKnown
<1>2. SpanTypes /\ Shape
  <2>1. <<>> \in Seq(Tapes) /\ Len(<<>>) = 0 /\ 0 <= MaxVolumes
    BY SpanningAssumption
  <2>q. QED
    BY <2>1 DEF Init, SpanInit, SpanTypes, Shape, States
<1>3. RestoreTypes
  <2>1. \A r \in Restores : 1 \in 1..Len(Needs[r])
    BY RestoreAssumption
  <2>q. QED
    BY <2>1, RestoreAssumption DEF Init, RestoreInit, RestoreTypes, Threads
<1>q. QED
  BY <1>1, <1>2, <1>3 DEF Typed, TypeOK

\* What is in a list stays there as it grows.
LEMMA ListGrows ==
  ASSUME NEW l \in Seq(Tapes), NEW t \in Tapes
  PROVE  /\ Len(Append(l, t)) = Len(l) + 1
         /\ \A j \in 1..Len(l) : Append(l, t)[j] = l[j]
         /\ Append(l, t)[Len(l) + 1] = t
OBVIOUS

\* The steps of the spanned backup.
LEMMA SpanTyped ==
  ASSUME Typed, SpanStep
  PROVE  SpanTypes' /\ Shape' /\ DriveTyped'
<1>d. DriveTyped
  BY DEF Typed, TypeOK, DriveTyped
<1>q0. ASSUME UNCHANGED <<held, misled>>, using' \subseteq using \cup {Job} PROVE DriveTyped'
  BY <1>d, <1>q0 DEF DriveTyped, DriveOK, RecordKnown, held, Users
<1> USE DEF Typed, TypeOK, SpanTypes, Shape, States
<1> USE SpanningAssumption
<1>1. CASE StartTar
  <2>1. /\ UNCHANGED <<held, misled, cancel, prov, catalog, volumes, lost, late>>
        /\ job' = "watching" /\ session' = "idle" /\ tapes' = <<FirstTape>>
        /\ tar' = "writing" /\ using' = using \cup {Job} /\ volumes = <<>>
    BY <1>1 DEF StartTar
  <2>2. Len(volumes) < MaxVolumes /\ <<FirstTape>> \in Seq(Tapes)
    BY <2>1
  <2>3. SpanTypes' /\ Shape'
    BY <2>1, <2>2
  <2>q. QED
    BY <1>q0, <2>1, <2>3
<1>2. CASE TarWrites
  <2>1. /\ UNCHANGED <<held, misled, job, cancel, session, tapes, prov, catalog, lost, late>>
        /\ using' = using \ {Job} /\ tar = "writing"
    BY <1>2 DEF TarWrites
  <2>0. DriveTyped'
    BY <1>q0, <2>1
  <2>2. CASE /\ tape # NoTape
             /\ volumes' = Append(volumes, tape)
             /\ tar' \in IF Len(volumes) + 1 < MaxVolumes THEN {"full", "done"} ELSE {"done"}
    <3>1. tape \in Tapes
      BY <2>2 DEF DriveOK
    <3>2. volumes' \in Seq(Tapes) /\ Len(volumes') = Len(volumes) + 1
      BY <2>2, <3>1
    <3>q. QED
      BY <2>0, <2>1, <2>2, <3>2
  <2>3. CASE tar' \in {"failed", "blocked"} /\ UNCHANGED volumes
    BY <2>0, <2>1, <2>3
  <2>q. QED
    BY <1>2, <2>2, <2>3 DEF TarWrites, Blocks
<1>3. CASE RequestChange
  <2>1. /\ UNCHANGED <<drive, job, cancel, tapes, prov, catalog, volumes, late>>
        /\ tar' \in {"polling", "blocked", "none"}
        /\ tar' \in {"polling", "blocked"} => tar = "full"
        /\ session' \in {"waiting", session}
        /\ lost' \in {lost, TRUE}
    BY <1>3 DEF RequestChange
  <2>2. SpanTypes' /\ Shape'
    BY <2>1
  <2>q. QED
    BY <1>q0, <2>1, <2>2 DEF drive
<1>4. CASE Poll
  <2>1. DriveTyped'
    BY <1>4, <1>q0 DEF Poll
  <2>q. QED
    BY <1>4, <2>1 DEF Poll
<1>5. CASE SpanEnds
  <2>1. /\ Leaves(Job) /\ Departs(Job)
        /\ UNCHANGED <<tapes, prov>> /\ job' = "ended" /\ cancel' = FALSE /\ lost' = FALSE
        /\ volumes' = <<>> /\ session' \in {"completed", "failed"} /\ tar' \in {"orphan", "none"}
        /\ late' \in BOOLEAN /\ catalog' \in {catalog, FirstTape}
    BY <1>5 DEF SpanEnds, Ends, Departs
  <2>2. DriveTyped'
    BY <1>d, <2>1 DEF DriveTyped, DriveOK, RecordKnown, Leaves, Departs
  <2>3. <<>> \in Seq(Tapes) /\ Len(<<>>) = 0 /\ 0 <= MaxVolumes
    OBVIOUS
  <2>4. SpanTypes' /\ Shape'
    BY <2>1, <2>3
  <2>q. QED
    BY <2>2, <2>4
<1>6. CASE SpanCancel
  <2>1. DriveTyped'
    BY <1>6, <1>q0 DEF SpanCancel, drive
  <2>q. QED
    BY <1>6, <2>1 DEF SpanCancel
<1>7. ASSUME NEW p \in Providers, CheckWaiting(p) \/ BeginChange(p)
      PROVE  SpanTypes' /\ Shape' /\ DriveTyped'
  <2>1. DriveTyped'
    BY <1>7, <1>q0 DEF CheckWaiting, BeginChange, drive
  <2>q. QED
    BY <1>7, <2>1 DEF CheckWaiting, BeginChange, Provide
<1>9. ASSUME NEW p \in Providers, UnloadFull(p) PROVE SpanTypes' /\ Shape' /\ DriveTyped'
  <2>1. Calls(p) /\ UNCHANGED <<using, misled>>
    BY <1>9 DEF UnloadFull, Calls, Moves
  <2>2. DriveTyped'
    BY <1>d, <2>1, DriveKept DEF DriveTyped
  <2>3. SpanTypes' /\ Shape'
    BY <1>9 DEF UnloadFull, ChangeFails, Provide
  <2>q. QED
    BY <2>2, <2>3
<1>10. ASSUME NEW p \in Providers, LoadNext(p) PROVE SpanTypes' /\ Shape' /\ DriveTyped'
  <2>1. Choice[p] \in Tapes
    OBVIOUS
  <2>2. /\ Calls(p)
        /\ using' \in {using, using \cup {Job}} /\ misled' \in {misled, misled \cup {Job}}
    BY <1>10, <2>1 DEF LoadNext, Calls, Moves
  <2>3. DriveTyped'
    BY <1>d, <2>2, DriveKept DEF DriveTyped, Users
  <2>4. tapes' \in Seq(Tapes)
    <3>1. Append(tapes, Choice[p]) \in Seq(Tapes)
      BY <2>1
    <3>q. QED
      BY <1>10, <3>1 DEF LoadNext
  <2>n. tapes # <<>> => tapes' # <<>>
    <3>0. tapes \in Seq(Tapes) /\ Len(tapes) \in Nat
      OBVIOUS
    <3>1. Len(Append(tapes, Choice[p])) = Len(tapes) + 1 /\ Append(tapes, Choice[p]) # <<>>
      BY <2>1, <3>0, ListGrows
    <3>2. tapes' \in {tapes, Append(tapes, Choice[p])}
      BY <1>10 DEF LoadNext
    <3>q. QED
      BY <3>1, <3>2
  <2>5. /\ UNCHANGED <<job, cancel, tar, catalog, volumes, lost, late>>
        /\ prov' = [prov EXCEPT ![p] = "done"]
        /\ session' \in {"running", "failed"}
    BY <1>10 DEF LoadNext, ChangeFails, Provide
  <2>6. SpanTypes' /\ Shape'
    BY <2>4, <2>n, <2>5
  <2>q. QED
    BY <2>3, <2>6
<1>q. QED
  BY <1>1, <1>2, <1>3, <1>4, <1>5, <1>6, <1>7, <1>9, <1>10 DEF SpanStep

\* The steps of the restores.
LEMMA RestoreTyped ==
  ASSUME Typed, RestoreStep
  PROVE  RestoreTypes' /\ DriveTyped'
<1> DEFINE Goal == RestoreTypes' /\ DriveTyped'
<1>d. DriveTyped
  BY DEF Typed, TypeOK, DriveTyped
<1>n. \A r \in Restores : TapeOf(r) \in Tapes
  BY RestoreAssumption DEF Typed, TypeOK, RestoreTypes, TapeOf
<1>q0. UNCHANGED drive => DriveTyped'
  BY <1>d DEF DriveTyped, DriveOK, RecordKnown, drive, held
<1>c. ASSUME NEW u, Calls(u), UNCHANGED <<using, misled>> PROVE DriveTyped'
  BY <1>d, <1>c, DriveKept DEF DriveTyped
<1> USE DEF Typed, TypeOK, RestoreTypes, Threads, At, Status, Prompt, Fail, Bookkeeping
<1> USE RestoreAssumption
<1>1. ASSUME NEW r \in Restores, StartRestore(r) PROVE Goal
  BY <1>1, <1>q0 DEF StartRestore
<1>p. ASSUME NEW r \in Restores, PlanRestore(r) PROVE Goal
  BY <1>p, <1>q0 DEF PlanRestore
<1>2. ASSUME NEW r \in Restores, EnsureLoaded(r) PROVE Goal
  <2>1. Calls(r) /\ UNCHANGED <<using, misled>>
    BY <1>2, <1>n DEF EnsureLoaded, Calls, Moves
  <2>2. RestoreTypes'
    BY <1>2 DEF EnsureLoaded
  <2>q. QED
    BY <1>c, <2>1, <2>2
<1>3. ASSUME NEW r \in Restores, AskForTape(r) PROVE Goal
  BY <1>3, <1>n, <1>q0 DEF AskForTape
<1>4. ASSUME NEW r \in Restores, PollTape(r) PROVE Goal
  BY <1>4, <1>q0 DEF PollTape
<1>5. ASSUME NEW r \in Restores, Resume(r) PROVE Goal
  BY <1>5, <1>q0 DEF Resume
<1>6. ASSUME NEW r \in Restores, MountTape(r) PROVE Goal
  <2>1. RestoreTypes'
    BY <1>6 DEF MountTape
  <2>2. CASE MountReturns(r, TapeOf(r))
    BY <1>d, <1>n, <2>1, <2>2, MountKept DEF Users
  <2>3. CASE MountRaises(r, TapeOf(r)) /\ UNCHANGED <<using, misled>>
    BY <1>c, <1>n, <2>1, <2>3 DEF Calls, Moves
  <2>q. QED
    BY <1>6, <2>2, <2>3 DEF MountTape
<1>7. ASSUME NEW r \in Restores, CopyFiles(r) PROVE Goal
  <2>1. fs \in Tapes \cup {NoTape} /\ UNCHANGED drive
    BY <1>7 DEF CopyFiles, DriveOK
  <2>2. DriveTyped'
    BY <1>q0, <2>1
  <2>q. QED
    BY <1>7, <2>1, <2>2 DEF CopyFiles
<1>8. ASSUME NEW r \in Restores, Unmount(r) PROVE Goal
  <2>1. Calls(r) /\ Leaves(r)
    BY <1>8 DEF Unmount, Calls, Departs
  <2>2. DriveTyped'
    BY <1>d, <2>1, DriveKept DEF DriveTyped, Leaves
  <2>3. nth' \in [Restores -> Nat] /\ \A q \in Restores : nth'[q] \in 1..Len(Needs[q])
    <3>1. Len(Needs[r]) \in Nat /\ nth[r] \in Nat
      OBVIOUS
    <3>2. CASE nth[r] < Len(Needs[r]) /\ nth' = [nth EXCEPT ![r] = nth[r] + 1]
      BY <3>1, <3>2
    <3>3. CASE UNCHANGED nth
      BY <3>3
    <3>q. QED
      BY <1>8, <3>2, <3>3 DEF Unmount
  <2>4. RestoreTypes'
    BY <1>8, <2>3 DEF Unmount
  <2>q. QED
    BY <2>2, <2>4
<1>9. ASSUME NEW r \in Restores, NEW t \in Tapes, Confirm(r, t) PROVE Goal
  <2>1. Calls("operator") /\ UNCHANGED <<using, misled>>
    BY <1>9 DEF Confirm, Calls, Moves
  <2>2. RestoreTypes'
    BY <1>9 DEF Confirm
  <2>q. QED
    BY <1>c, <2>1, <2>2
<1>q. QED
  BY <1>1, <1>p, <1>2, <1>3, <1>4, <1>5, <1>6, <1>7, <1>8, <1>9 DEF RestoreStep, ThreadStep

LEMMA TypedStep == Typed /\ [Next]_vars => Typed'
<1> SUFFICES ASSUME Typed, [Next]_vars PROVE Typed'
  OBVIOUS
<1>0. DriveTyped' /\ SpanTypes' /\ RestoreTypes' /\ Shape' => Typed'
  BY DEF Typed, TypeOK, DriveTyped
<1>1. CASE SpanStep /\ UNCHANGED restores
  <2>1. RestoreTypes'
    BY <1>1 DEF Typed, TypeOK, RestoreTypes, restores
  <2>q. QED
    BY <1>0, <1>1, <2>1, SpanTyped
<1>2. CASE RestoreStep /\ UNCHANGED spanning
  <2>1. SpanTypes' /\ Shape'
    BY <1>2 DEF Typed, TypeOK, SpanTypes, Shape, spanning
  <2>q. QED
    BY <1>0, <1>2, <2>1, RestoreTyped
<1>3. CASE Restart
  <2>1. SpanTypes' /\ Shape'
    <3>1. <<>> \in Seq(Tapes) /\ Len(<<>>) = 0 /\ 0 <= MaxVolumes
      BY SpanningAssumption
    <3>q. QED
      BY <1>3, <3>1 DEF Restart, SessionsLost, Typed, TypeOK, SpanTypes, Shape, States
  <2>2. RestoreTypes'
    BY <1>3, RestoreAssumption
    DEF Restart, RestoresLost, Typed, TypeOK, RestoreTypes, Threads
  <2>3. DriveTyped'
    BY <1>3 DEF Restart, Typed, TypeOK, DriveTyped, DriveOK, RecordKnown, Gets, Records
  <2>q. QED
    BY <1>0, <2>1, <2>2, <2>3
<1>4. CASE UNCHANGED vars
  BY <1>4 DEF Typed, TypeOK, DriveOK, RecordKnown, SpanTypes, Shape, RestoreTypes, vars, drive,
              held, spanning, restores
<1>q. QED
  BY <1>1, <1>2, <1>3, <1>4 DEF Next

\* TypeOK is an invariant: only the tape in the drive is mounted, tar writes no more volumes
\* than it needs, and each restore is at a tape of its plan.
THEOREM TypeCorrect == Spec => []TypeOK
<1>1. Typed => TypeOK
  BY DEF Typed
<1>q. QED
  BY TypedInit, TypedStep, <1>1, PTL DEF Spec

-----------------------------------------------------------------------------
(* Restores                                                                *)

\* A restore that copies, and that nobody has crossed or misled, has its tape in the drive.
CopiesFromItsTape ==
  \A r \in Restores \ (crossed \cup misled) :
    rpc[r] = "copy" => r \in using /\ tape = TapeOf(r)

RestoreInv == CopiesFromItsTape /\ RestoresFromItsTape

Right(r) ==
  /\ rpc[r] = "copy" => r \in using /\ tape = TapeOf(r)
  /\ rpc[r] \in {"unmount", "abort"} => copied[r] \in {NoTape, TapeOf(r)}

\* A step of another leaves it so: it keeps the tape, or crosses the restore.
LEMMA OthersKeep ==
  ASSUME Typed, RestoreInv, NEW u, NEW r \in Restores \ (crossed \cup misled)', u # r,
         Calls(u) \/ \E t \in Tapes : MountReturns(u, t),
         rpc'[r] = rpc[r], nth'[r] = nth[r], copied'[r] = copied[r],
         r \in using => r \in using', r \in misled => r \in misled'
  PROVE  Right(r)'
<1>1. r \notin crossed \cup misled
  BY CrossedStays
<1>2. TapeOf(r)' = TapeOf(r)
  BY DEF TapeOf
<1>3. CASE rpc[r] = "copy"
  <2>1. r \in using /\ tape = TapeOf(r)
    BY <1>1, <1>3 DEF RestoreInv, CopiesFromItsTape
  <2>2. tape' = tape
    <3>1. CASE Moves(u)
      BY <3>1, <2>1, MovesCross
    <3>2. CASE \E t \in Tapes : MountReturns(u, t)
      BY <3>2, <2>1, MountCrosses
    <3>q. QED
      BY <3>1, <3>2 DEF Calls, Unmounts, Departs, held
  <2>q. QED
    BY <1>2, <1>3, <2>1, <2>2 DEF Right
<1>4. CASE rpc[r] # "copy"
  BY <1>1, <1>2, <1>4 DEF RestoreInv, RestoresFromItsTape, Right
<1>q. QED
  BY <1>3, <1>4

LEMMA RestoreInvStep == Typed /\ RestoreInv /\ [Next]_vars => RestoreInv'
<1> SUFFICES ASSUME Typed, RestoreInv, [Next]_vars,
                    NEW r \in Restores, r \notin (crossed \cup misled)'
             PROVE  Right(r)'
  BY DEF RestoreInv, CopiesFromItsTape, RestoresFromItsTape, Right
<1>0. r # Job /\ r \notin Providers /\ r # "operator"
  BY UsersAssumption DEF Users
<1>s. CASE SpanStep /\ UNCHANGED restores
  <2> DEFINE Same == rpc'[r] = rpc[r] /\ nth'[r] = nth[r] /\ copied'[r] = copied[r]
             Stays == (r \in using => r \in using') /\ (r \in misled => r \in misled')
  <2>0. Same
    BY <1>s DEF restores
  <2>1. ASSUME NEW u, u # r, Calls(u), Stays PROVE Right(r)'
    BY <2>0, <2>1, OthersKeep
  <2>2. ASSUME StartTar \/ TarWrites \/ RequestChange \/ Poll \/ SpanCancel PROVE Right(r)'
    <3>1. UNCHANGED held /\ Stays
      BY <1>0, <2>2 DEF StartTar, TarWrites, RequestChange, Poll, SpanCancel, drive
    <3>q. QED
      BY <1>0, <2>1, <3>1 DEF Calls
  <2>6. CASE SpanEnds
    <3>1. Departs(Job) /\ Leaves(Job)
      BY <2>6 DEF SpanEnds, Ends, Departs
    <3>q. QED
      BY <1>0, <2>1, <3>1 DEF Calls, Leaves
  <2>3. ASSUME NEW p \in Providers, CheckWaiting(p) \/ BeginChange(p) PROVE Right(r)'
    BY <1>0, <2>1, <2>3 DEF CheckWaiting, BeginChange, drive, Calls
  <2>4. ASSUME NEW p \in Providers, UnloadFull(p) PROVE Right(r)'
    <3>1. Calls(p) /\ UNCHANGED <<using, misled>>
      BY <2>4 DEF UnloadFull, Calls, Moves
    <3>q. QED
      BY <1>0, <2>1, <3>1
  <2>5. ASSUME NEW p \in Providers, LoadNext(p) PROVE Right(r)'
    <3>1. Calls(p) /\ Stays
      BY <2>5, SpanningAssumption DEF LoadNext, Calls, Moves
    <3>q. QED
      BY <1>0, <2>1, <3>1
  <2>q. QED
    BY <1>s, <2>2, <2>3, <2>4, <2>5, <2>6 DEF SpanStep
<1>r. CASE RestoreStep /\ UNCHANGED spanning
  <2> USE DEF At, Status, Prompt, Fail, Bookkeeping
  <2>t. rpc \in [Restores -> Threads \cup {"none", "done"}]
        /\ nth \in [Restores -> Nat] /\ copied \in [Restores -> Tapes \cup {NoTape}]
        /\ \A q \in Restores : TapeOf(q) \in Tapes
    BY RestoreAssumption DEF Typed, TypeOK, RestoreTypes, TapeOf
  <2>1. ASSUME NEW q \in Restores, q # r, StartRestore(q) \/ ThreadStep(q) PROVE Right(r)'
    <3>1. rpc'[r] = rpc[r] /\ nth'[r] = nth[r] /\ copied'[r] = copied[r]
      BY <2>1, <2>t
      DEF StartRestore, ThreadStep, PlanRestore, EnsureLoaded, AskForTape, PollTape, Resume,
          MountTape, CopyFiles, Unmount
    <3>2. (r \in using => r \in using') /\ (r \in misled => r \in misled')
      BY <2>1
      DEF StartRestore, ThreadStep, PlanRestore, EnsureLoaded, AskForTape, PollTape, Resume,
          MountTape, CopyFiles, Unmount, MountReturns, Leaves, drive
    <3>3. Calls(q) \/ \E t \in Tapes : MountReturns(q, t)
      BY <2>1, <2>t, ThreadCalls
    <3>q. QED
      BY <2>1, <3>1, <3>2, <3>3, OthersKeep
  <2>2. ASSUME \/ StartRestore(r) \/ PlanRestore(r) \/ EnsureLoaded(r) \/ AskForTape(r)
               \/ PollTape(r) \/ Resume(r) \/ Unmount(r)
        PROVE  Right(r)'
    <3>1. rpc'[r] \notin {"copy", "unmount", "abort"}
      BY <2>2, <2>t
      DEF StartRestore, PlanRestore, EnsureLoaded, AskForTape, PollTape, Resume, Unmount
    <3>q. QED
      BY <3>1 DEF Right
  <2>3. CASE MountTape(r)
    <3>1. CASE MountReturns(r, TapeOf(r)) /\ At(r, "copy")
      <4>1. ~doubt' /\ r \in using'
        BY <3>1 DEF MountReturns
      <4>2. tape' = TapeOf(r)
        <5>1. TapeOf(r) # NoTape /\ (recorded = TapeOf(r) /\ ~doubt => tape = TapeOf(r))
          BY <2>t, DriveAssumption DEF Typed, RecordKnown
        <5>q. QED
          BY <3>1, <4>1, <5>1 DEF MountReturns, Records
      <4>3. TapeOf(r)' = TapeOf(r) /\ rpc'[r] = "copy"
        BY <2>3, <2>t, <3>1 DEF MountTape, TapeOf
      <4>q. QED
        BY <4>1, <4>2, <4>3 DEF Right
    <3>2. CASE Fail(r)
      BY <2>t, <3>2 DEF Right
    <3>q. QED
      BY <2>3, <3>1, <3>2 DEF MountTape
  <2>4. CASE CopyFiles(r)
    <3>1. /\ rpc[r] = "copy" /\ rpc'[r] \in {"unmount", "abort"}
          /\ UNCHANGED <<crossed, misled>> /\ copied'[r] \in {NoTape, fs} /\ nth' = nth
      BY <2>4, <2>t DEF CopyFiles, drive, held
    <3>2. tape = TapeOf(r) /\ fs \in {NoTape, tape}
      BY <3>1 DEF RestoreInv, CopiesFromItsTape, Typed, TypeOK, DriveOK
    <3>q. QED
      BY <3>1, <3>2 DEF TapeOf, Right
  <2>5. ASSUME NEW q \in Restores, NEW t \in Tapes, Confirm(q, t) PROVE Right(r)'
    <3>1. Calls("operator") /\ UNCHANGED <<using, misled, rpc, nth, copied>>
      BY <2>5 DEF Confirm, Calls, Moves
    <3>q. QED
      BY <1>0, <3>1, OthersKeep
  <2>q. QED
    BY <1>r, <2>1, <2>2, <2>3, <2>4, <2>5 DEF RestoreStep, ThreadStep
<1>z. CASE Restart
  <2>1. rpc'[r] \notin {"copy", "unmount", "abort"}
    BY <1>z DEF Restart, RestoresLost, Threads
  <2>q. QED
    BY <2>1 DEF Right
<1>u. CASE UNCHANGED vars
  BY <1>u
  DEF vars, drive, held, restores, RestoreInv, CopiesFromItsTape, RestoresFromItsTape, TapeOf,
      Right
<1>q. QED
  BY <1>s, <1>r, <1>z, <1>u DEF Next

\* RestoresFromItsTape is an invariant: a restore copies from the tape of its plan unless the
\* users of the drive that have no lock moved that tape or its file system after the mount,
\* or the mount followed a command that was refused or timed out and taken for done.
THEOREM RestoresAreRight == Spec => []RestoresFromItsTape
<1>1. Init => RestoreInv
  BY DEF Init, RestoreInit, RestoreInv, CopiesFromItsTape, RestoresFromItsTape
<1>2. RestoreInv => RestoresFromItsTape
  BY DEF RestoreInv
<1>q. QED
  BY TypedInit, TypedStep, RestoreInvStep, <1>1, <1>2, PTL DEF Spec
-----------------------------------------------------------------------------
(* The spanned backup                                                      *)

\* The tape in the drive is one that a request provided.
OnListedTape == \E j \in 2..Len(tapes) : tape = tapes[j]

\* tar goes on, and writes volumes after the first, only on a tape that was provided.
GoesOnWithProvided ==
  /\ tar = "writing" /\ volumes # <<>> => Job \in using /\ OnListedTape
  /\ tar = "polling" /\ session = "running" => Job \in using /\ OnListedTape

Trusted == Job \notin crossed \cup misled /\ ~lost

VolumesInv == VolumesAsListed /\ (Trusted => GoesOnWithProvided)

\* Whoever else uses the drive keeps the tape, or crosses the job.
LEMMA VolumesKept ==
  ASSUME Typed, VolumesInv, NEW u, u # Job,
         Calls(u) \/ \E t \in Tapes : MountReturns(u, t),
         Job \in using => Job \in using', Job \in misled => Job \in misled',
         UNCHANGED <<tapes, volumes, lost>>,
         tar' = "writing" => tar = "writing",
         tar' = "polling" /\ session' = "running" => tar = "polling" /\ session = "running"
  PROVE  VolumesInv'
<1>1. Job \in crossed \cup misled => Job \in (crossed \cup misled)'
  BY CrossedStays
<1>2. VolumesAsListed'
  BY <1>1 DEF VolumesInv, VolumesAsListed
<1>3. ASSUME Trusted', Job \in using PROVE tape' = tape
  <2>1. CASE Moves(u)
    BY <1>3, <2>1, MovesCross DEF Trusted
  <2>2. CASE \E t \in Tapes : MountReturns(u, t)
    BY <1>3, <2>2, MountCrosses DEF Trusted
  <2>q. QED
    BY <2>1, <2>2 DEF Calls, Unmounts, Departs, held
<1>4. ASSUME Trusted' PROVE GoesOnWithProvided'
  <2>1. Trusted
    BY <1>1, <1>4 DEF Trusted
  <2>q. QED
    BY <1>3, <1>4, <2>1 DEF VolumesInv, GoesOnWithProvided, OnListedTape
<1>q. QED
  BY <1>2, <1>4 DEF VolumesInv

LEMMA VolumesStep == Typed /\ VolumesInv /\ [Next]_vars => VolumesInv'
<1> SUFFICES ASSUME Typed, VolumesInv, [Next]_vars PROVE VolumesInv'
  OBVIOUS
<1>0. Job \notin Restores /\ Job \notin Providers /\ Job # "operator"
  BY UsersAssumption DEF Users
<1>t. tapes \in Seq(Tapes) /\ volumes \in Seq(Tapes)
  BY DEF Typed, TypeOK, SpanTypes
<1>s. CASE SpanStep /\ UNCHANGED restores
  <2>1. CASE StartTar
    BY <2>1 DEF StartTar, Typed, Shape, VolumesInv, VolumesAsListed, Trusted, GoesOnWithProvided
  <2>2. CASE TarWrites
    <3>0. /\ tar = "writing" /\ UNCHANGED <<held, misled, tapes, lost>>
          /\ tar' \notin {"writing", "polling"}
      BY <2>2 DEF TarWrites, Blocks
    <3>1. ASSUME Trusted, NEW i \in 2..Len(volumes')
          PROVE  \E j \in 2..Len(tapes) : volumes'[i] = tapes[j]
      <4>1. \A k \in 2..Len(volumes) : \E j \in 2..Len(tapes) : volumes[k] = tapes[j]
        BY <3>1 DEF VolumesInv, VolumesAsListed, Trusted
      <4>2. CASE UNCHANGED volumes
        BY <3>1, <4>1, <4>2
      <4>3. CASE tape # NoTape /\ volumes' = Append(volumes, tape)
        <5>1. tape \in Tapes
          BY <4>3 DEF Typed, TypeOK, DriveOK
        <5>2. CASE i \in 2..Len(volumes)
          BY <1>t, <4>1, <4>3, <5>1, <5>2, ListGrows
        <5>3. CASE i = Len(volumes) + 1 /\ volumes # <<>>
          <6>1. OnListedTape
            BY <3>0, <3>1, <5>3 DEF VolumesInv, GoesOnWithProvided
          <6>q. QED
            BY <1>t, <4>3, <5>1, <5>3, <6>1, ListGrows DEF OnListedTape
        <5>4. Len(volumes') = Len(volumes) + 1 /\ Len(volumes) \in Nat
          BY <1>t, <4>3, <5>1, ListGrows
        <5>5. i \in 2..Len(volumes) \/ (i = Len(volumes) + 1 /\ Len(volumes) # 0)
          BY <3>1, <5>4
        <5>q. QED
          BY <1>t, <5>2, <5>3, <5>5
      <4>q. QED
        BY <2>2, <4>2, <4>3 DEF TarWrites, Blocks
    <3>2. VolumesAsListed'
      BY <3>0, <3>1 DEF VolumesAsListed, Trusted, held
    <3>q. QED
      BY <3>0, <3>2 DEF VolumesInv, GoesOnWithProvided
  <2>3. CASE RequestChange
    BY <2>3
    DEF RequestChange, VolumesInv, VolumesAsListed, Trusted, GoesOnWithProvided, OnListedTape,
        drive, held
  <2>4. CASE Poll
    BY <2>4
    DEF Poll, GoesOn, VolumesInv, VolumesAsListed, Trusted, GoesOnWithProvided, OnListedTape,
        held
  <2>5. CASE SpanEnds
    <3>1. volumes' = <<>> /\ tar' \in {"orphan", "none"}
      BY <2>5 DEF SpanEnds, Ends
    <3>q. QED
      BY <3>1 DEF VolumesInv, VolumesAsListed, Trusted, GoesOnWithProvided
  <2>6. CASE SpanCancel
    BY <2>6
    DEF SpanCancel, VolumesInv, VolumesAsListed, Trusted, GoesOnWithProvided, OnListedTape,
        drive, held
  <2>7. ASSUME NEW p \in Providers, CheckWaiting(p) \/ BeginChange(p) PROVE VolumesInv'
    BY <2>7
    DEF CheckWaiting, BeginChange, VolumesInv, VolumesAsListed, Trusted, GoesOnWithProvided,
        OnListedTape, drive, held
  <2>8. ASSUME NEW p \in Providers, UnloadFull(p) PROVE VolumesInv'
    <3>1. /\ Calls(p) /\ UNCHANGED <<using, misled, tar, tapes, volumes, lost>>
          /\ session' \in {session, "failed"}
      BY <2>8 DEF UnloadFull, ChangeFails, Calls, Moves
    <3>q. QED
      BY <1>0, <3>1, VolumesKept
  <2>9. ASSUME NEW p \in Providers, LoadNext(p) PROVE VolumesInv'
    <3>0. Choice[p] \in Tapes
      BY SpanningAssumption
    <3>1. CASE session' = "failed" /\ LoadRaises(p, Choice[p]) /\ UNCHANGED <<tapes, using, misled>>
      <4>1. Calls(p) /\ UNCHANGED <<tar, volumes, lost>>
        BY <2>9, <3>0, <3>1 DEF LoadNext, Calls, Moves
      <4>q. QED
        BY <1>0, <3>1, <4>1, VolumesKept
    <3>2. CASE /\ LoadReturns(p, Choice[p]) /\ tapes' = Append(tapes, Choice[p])
               /\ using' = IF job = "watching" THEN using \cup {Job} ELSE using
               /\ misled' = IF doubt' THEN misled \cup {Job} ELSE misled
      <4>1. UNCHANGED <<job, tar, volumes, lost>> /\ Calls(p)
        BY <2>9, <3>0, <3>2 DEF LoadNext, Calls, Moves
      <4>2. Job \in crossed \cup misled => Job \in (crossed \cup misled)'
        BY <1>0, <3>2, <4>1, CrossedStays
      <4>3. VolumesAsListed'
        BY <1>t, <3>0, <3>2, <4>1, <4>2, ListGrows DEF VolumesInv, VolumesAsListed
      <4>5. Trusted' => tape' = Choice[p]
        BY <3>2 DEF LoadReturns, Gets, Records, Trusted
      <4>4. ASSUME Trusted', tar' \in {"writing", "polling"} PROVE Job \in using' /\ OnListedTape'
        <5>1. job = "watching" /\ tapes # <<>>
          BY <4>1, <4>4 DEF Typed, Shape
        <5>2. Len(tapes) + 1 \in 2..Len(tapes')
          BY <1>t, <3>0, <3>2, <5>1, ListGrows
        <5>q. QED
          BY <1>t, <3>0, <3>2, <4>4, <4>5, <5>1, <5>2, ListGrows DEF OnListedTape
      <4>q. QED
        BY <4>3, <4>4 DEF VolumesInv, GoesOnWithProvided
    <3>q. QED
      BY <2>9, <3>1, <3>2 DEF LoadNext, ChangeFails
  <2>q. QED
    BY <1>s, <2>1, <2>2, <2>3, <2>4, <2>5, <2>6, <2>7, <2>8, <2>9 DEF SpanStep
<1>r. CASE RestoreStep /\ UNCHANGED spanning
  <2>0. UNCHANGED <<tar, session, tapes, volumes, lost>>
    BY <1>r DEF spanning
  <2>n. \A r \in Restores : TapeOf(r) \in Tapes
    BY RestoreAssumption DEF Typed, TypeOK, RestoreTypes, TapeOf
  <2>1. ASSUME NEW r \in Restores, StartRestore(r) \/ ThreadStep(r) PROVE VolumesInv'
    <3>1. (Job \in using => Job \in using') /\ (Job \in misled => Job \in misled')
      BY <1>0, <2>1
      DEF StartRestore, ThreadStep, PlanRestore, EnsureLoaded, AskForTape, PollTape, Resume,
          MountTape, CopyFiles, Unmount, MountReturns, Leaves, drive
    <3>2. Calls(r) \/ \E t \in Tapes : MountReturns(r, t)
      BY <2>1, <2>n, ThreadCalls
    <3>q. QED
      BY <1>0, <2>0, <3>1, <3>2, VolumesKept
  <2>2. ASSUME NEW r \in Restores, NEW t \in Tapes, Confirm(r, t) PROVE VolumesInv'
    <3>1. Calls("operator") /\ UNCHANGED <<using, misled>>
      BY <2>2 DEF Confirm, Calls, Moves
    <3>q. QED
      BY <1>0, <2>0, <3>1, VolumesKept
  <2>q. QED
    BY <1>r, <2>1, <2>2 DEF RestoreStep
<1>z. CASE Restart
  <2>1. volumes' = <<>> /\ tar' = "none"
    BY <1>z DEF Restart, SessionsLost
  <2>q. QED
    BY <2>1 DEF VolumesInv, VolumesAsListed, Trusted, GoesOnWithProvided
<1>u. CASE UNCHANGED vars
  BY <1>u
  DEF vars, drive, held, spanning, VolumesInv, VolumesAsListed, Trusted, GoesOnWithProvided,
      OnListedTape
<1>q. QED
  BY <1>s, <1>r, <1>z, <1>u DEF Next

\* After a job that nobody's request outlived, nothing of its session is under way.
NothingUnderWay ==
  job = "ended" /\ ~late =>
    /\ session \in {"completed", "failed", "none"}
    /\ tar = "none"
    /\ \A p \in Providers : prov[p] \in {"idle", "done"}

LEMMA EndStep == Typed /\ NothingUnderWay /\ [Next]_vars => NothingUnderWay'
<1> SUFFICES ASSUME Typed, NothingUnderWay, [Next]_vars, job' = "ended", ~late'
             PROVE  /\ session' \in {"completed", "failed", "none"}
                    /\ tar' = "none"
                    /\ \A p \in Providers : prov'[p] \in {"idle", "done"}
  BY DEF NothingUnderWay
<1> DEFINE Goal == /\ session' \in {"completed", "failed", "none"}
                   /\ tar' = "none"
                   /\ \A p \in Providers : prov'[p] \in {"idle", "done"}
<1>t. prov \in [Providers -> {"idle", "checked", "unload", "load", "done"}]
  BY DEF Typed, TypeOK, SpanTypes
<1>s. CASE SpanStep
  <2>1. CASE SpanEnds
    <3>1. PICK state \in {"completed", "failed"} : Ends(state)
      BY <2>1 DEF SpanEnds
    <3>2. tar # "full" /\ \A p \in Providers : prov[p] \notin {"checked", "unload", "load"}
      BY <3>1 DEF Ends
    <3>q. QED
      BY <1>t, <3>1, <3>2 DEF Ends
  <2>2. CASE ~SpanEnds
    <3>1. job = "ended" /\ ~late
      BY <1>s, <2>2
      DEF SpanStep, StartTar, TarWrites, RequestChange, Poll, SpanCancel, CheckWaiting,
          BeginChange, UnloadFull, LoadNext
    <3>2. /\ session \in {"completed", "failed", "none"} /\ tar = "none"
          /\ \A p \in Providers : prov[p] \in {"idle", "done"}
      BY <3>1 DEF NothingUnderWay
    <3>3. PICK p \in Providers : CheckWaiting(p)
      BY <1>s, <2>2, <3>1, <3>2
      DEF SpanStep, StartTar, TarWrites, RequestChange, Poll, SpanCancel, BeginChange,
          UnloadFull, LoadNext
    <3>q. QED
      BY <1>t, <3>2, <3>3 DEF CheckWaiting, Provide
  <2>q. QED
    BY <2>1, <2>2
<1>r. CASE UNCHANGED spanning
  BY <1>r DEF spanning, NothingUnderWay
<1>z. CASE Restart
  BY <1>z DEF Restart, SessionsLost
<1>q. QED
  BY <1>s, <1>r, <1>z DEF Next, vars

\* SessionIsRight is an invariant: what a session lists of a spanned backup, and how it says
\* that it ended, is right unless others moved the tape, the next tape was taken for loaded
\* after a refused command, or a request was lost or late.
THEOREM SessionsAreRight == Spec => []SessionIsRight
<1>1. Init => VolumesInv /\ NothingUnderWay
  BY DEF Init, SpanInit, VolumesInv, VolumesAsListed, Trusted, GoesOnWithProvided,
         NothingUnderWay
<1>2. VolumesInv /\ NothingUnderWay => SessionIsRight
  BY DEF VolumesInv, NothingUnderWay, SessionIsRight, EndedSessionsStay
<1>q. QED
  BY TypedInit, TypedStep, VolumesStep, EndStep, <1>1, <1>2, PTL DEF Spec
===============================================================================
