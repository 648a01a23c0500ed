------------------------ MODULE StreamingPipelineProofs ------------------------
(* Proofs about the streaming pipeline, for any runs, drives, files, threads,   *)
(* limits and faults.                                                           *)
EXTENDS StreamingPipeline, TLAPS, WellFoundedInduction, FiniteSetTheorems

-----------------------------------------------------------------------------
(* The constants                                                           *)
\* A file is of one run and has a number.
LEMMA FileParts == \A r \in Runs : \A f \in FilesOf(r) : f[1] = r /\ f[2] \in 1..Count[r]
    /\ f \in Files
BY SMT DEF FilesOf, Files

\* A set of numbers with a bound has a least one: what SMT cannot know of CHOOSE. The
\* intervals below its members are subsets of a finite set, where strict inclusion is
\* well founded.
LEMMA Least ==
  ASSUME NEW S \in SUBSET Nat, NEW b \in Nat, S # {}, \A x \in S : x <= b
  PROVE  \E x \in S : \A y \in S : x <= y
<1> DEFINE Downs == {0..x : x \in S}
<1>1. IsFiniteSet(0..b)
  BY FS_Interval
<1>2. IsWellFoundedOn(StrictSubsetOrdering(0..b), SUBSET (0..b))
  BY <1>1, FS_StrictSubsetOrderingWellFounded, FS_FiniteSubsetsOfFinite
<1>3. Downs \subseteq SUBSET (0..b)
  <2>1. ASSUME NEW x \in S PROVE 0..x \in SUBSET (0..b)
    <3>1. x \in Nat /\ x <= b
      OBVIOUS
    <3> QED BY <3>1
  <2> QED BY <2>1
<1>4. Downs # {}
  <2>1. PICK x \in S : TRUE
    OBVIOUS
  <2>2. 0..x \in Downs
    OBVIOUS
  <2> QED BY <2>2
<1> HIDE DEF Downs
<1>5. PICK D \in Downs : \A E \in Downs : <<E, D>> \notin StrictSubsetOrdering(0..b)
  BY <1>2, <1>3, <1>4, WFMin, Zenon
<1>6. PICK x \in S : D = 0..x
  BY DEF Downs
<1>7. ASSUME NEW y \in S, y < x PROVE FALSE
  <2>1. 0..y \in Downs
    BY DEF Downs
  <2>2. x \in Nat /\ y \in Nat /\ x <= b /\ y <= b
    OBVIOUS
  <2>3. 0..y \subseteq 0..x /\ x \in 0..x /\ x \notin 0..y
    BY <2>2, <1>7
  <2>4. 0..y \in SUBSET (0..b) /\ 0..x \in SUBSET (0..b)
    BY <2>2
  <2>5. <<0..y, D>> \in StrictSubsetOrdering(0..b)
    BY <2>3, <2>4, <1>6 DEF StrictSubsetOrdering
  <2> QED BY <2>1, <2>5, <1>5
<1> QED BY <1>7

\* A producer with files left works on one of them.
LEMMA CurrentIsLeft ==
  ASSUME NEW p \in Producers, todo[p] # {}, todo[p] \subseteq Mine(p)
  PROVE  Current(p) \in todo[p]
<1>1. p[1] \in Runs
  BY SMT DEF Producers
<1>2. Count[p[1]] \in Nat
  BY <1>1, PipelineAssumption
<1>3. \A f \in todo[p] : f[2] \in Nat /\ f[2] <= Count[p[1]]
  BY <1>1, <1>2, FileParts DEF Mine
<1> DEFINE S == {f[2] : f \in todo[p]}
<1>4. S \in SUBSET Nat /\ S # {} /\ \A x \in S : x <= Count[p[1]]
  BY <1>3
<1>5. PICK x \in S : \A y \in S : x <= y
  <2> HIDE DEF S
  <2> QED BY <1>2, <1>4, Least
<1>6. PICK f \in todo[p] : f[2] = x
  OBVIOUS
<1>7. \A g \in todo[p] : f[2] <= g[2]
  BY <1>5, <1>6
<1> QED BY <1>6, <1>7 DEF Current

\* Nobody is no producer, the sentinel is no file, files and producers are of runs.
LEMMA Facts ==
  /\ Nobody \notin Producers
  /\ Sentinel \notin Files
  /\ \A f \in Files : f[1] \in Runs /\ f \in FilesOf(f[1])
  /\ \A p \in Producers : p[1] \in Runs
BY SMT DEF Nobody, Producers, Sentinel, Files, FilesOf

\* No file is dealt to two producers (src/backend/streaming_pipeline.py, the slices
\* of the file list).
LEMMA MineApart ==
  \A p, q \in Producers : \A f : f \in Mine(p) /\ f \in Mine(q) => p = q
BY SMT, FileParts DEF Producers, Mine

\* A producer's files are files of its run.
LEMMA MineFiles == \A p \in Producers : Mine(p) \subseteq FilesOf(p[1])
    /\ Mine(p) \subseteq Files
BY FileParts, Facts DEF Mine

-----------------------------------------------------------------------------
(* The units of size of a set of files                                     *)

\* A file adds its size.
LEMMA UnitsAdded ==
  ASSUME NEW S \in SUBSET Files, NEW f \in Files, f \notin S, IsFiniteSet(Units(S))
  PROVE  /\ IsFiniteSet(Units(S \cup {f}))
         /\ Cardinality(Units(S \cup {f})) = Cardinality(Units(S)) + Size[f]
<1> DEFINE U == {f} \X (1 .. Size[f])
<1>1. Units(S \cup {f}) = Units(S) \cup U /\ Units(S) \cap U = {}
  BY SMT DEF Units
<1>2. Size[f] \in Nat
  BY PipelineAssumption
<1>3. IsFiniteSet(1 .. Size[f]) /\ Cardinality(1 .. Size[f]) = Size[f]
  BY <1>2, FS_Interval
<1>4. IsFiniteSet({f}) /\ Cardinality({f}) = 1
  BY FS_Singleton
<1>5. IsFiniteSet(U) /\ Cardinality(U) = Size[f]
  <2>1. IsFiniteSet(U) /\ Cardinality(U) = 1 * Size[f]
    BY <1>3, <1>4, FS_Product
  <2> QED BY <1>2, <2>1
<1> HIDE DEF U
<1>6. Cardinality(Units(S)) \in Nat /\ Cardinality(Units(S) \cap U) = 0
  BY <1>1, FS_CardinalityType, FS_EmptySet
<1>7. IsFiniteSet(Units(S) \cup U)
      /\ Cardinality(Units(S) \cup U)
           = Cardinality(Units(S)) + Cardinality(U) - Cardinality(Units(S) \cap U)
  BY <1>5, FS_Union
<1>8. Cardinality(Units(S) \cup U) = Cardinality(Units(S)) + Size[f]
  BY <1>2, <1>5, <1>6, <1>7
<1>9. Units(S \cup {f}) = Units(S) \cup U
  BY <1>1
<1> HIDE DEF Units
<1> QED BY <1>7, <1>8, <1>9

\* And takes it away with it.
LEMMA UnitsRemoved ==
  ASSUME NEW S \in SUBSET Files, NEW f \in S, IsFiniteSet(Units(S))
  PROVE  /\ IsFiniteSet(Units(S \ {f}))
         /\ Cardinality(Units(S \ {f})) = Cardinality(Units(S)) - Size[f]
<1>1. Units(S \ {f}) \subseteq Units(S)
  BY DEF Units
<1>2. IsFiniteSet(Units(S \ {f})) /\ Cardinality(Units(S \ {f})) \in Nat
  BY <1>1, FS_Subset, FS_CardinalityType
<1>3. (S \ {f}) \cup {f} = S /\ S \ {f} \in SUBSET Files /\ f \in Files /\ f \notin S \ {f}
  OBVIOUS
<1>4. Cardinality(Units(S)) = Cardinality(Units(S \ {f})) + Size[f]
  BY <1>2, <1>3, UnitsAdded
<1> QED BY <1>2, <1>3, <1>4, PipelineAssumption

-----------------------------------------------------------------------------
(* The invariant                                                           *)

Idle(r) == main[r] = "idle"
InQueue(f) == \E i \in 1 .. Len(queue) : queue[i] = f
InSomeHand(f) == \E r \in Runs : hand[r] = f
Counted == Queued \cup InHand

\* A consumer at work is of an active run, a producer at work of one that waits for
\* its producers; a producer that stages or puts has a file for it.
MainControl ==
  /\ \A r \in Runs : cons[r] \notin {"off", "done"} => Active(r)
  /\ \A p \in Producers : prod[p] \notin {"off", "done"} => main[p[1]] = "producing"
  /\ \A p \in Producers : prod[p] \in {"stage", "staged", "put"} => todo[p] # {}

\* The lock is with a producer that is putting a file.
LockMeansPutting == \A p \in Producers : owner = p <=> prod[p] = "put"

\* What the consumer has in its hands, by where it is.
HandMatches ==
  \A r \in Runs :
    /\ cons[r] \in {"write", "unlink", "account"} => hand[r] \in Files
    /\ cons[r] \notin {"write", "unlink", "account", "insert",
        "clear"} => hand[r] = Sentinel

\* On one drive runs follow one another.
OneByOne == OneDrive => \A r, s \in Runs : Active(r) /\ Active(s) => r = s

Control == MainControl /\ LockMeansPutting /\ HandMatches /\ OneByOne

\* A file is in one place at a time: with a producer, in the queue or in a hand, and
\* there only once its run has begun. This is why the size counter is exact.
TodoIsMine == \A p \in Producers : todo[p] \subseteq Mine(p)
TodoIsNew == \A p \in Producers : \A f \in todo[p] : ~InQueue(f) /\ ~InSomeHand(f)
QueuedOnce == \A i, j \in 1 .. Len(queue) : queue[i] = queue[j]
    /\ queue[i] \in Files => i = j
HeldOnce == \A r \in Runs : hand[r] \in Files =>
               ~InQueue(hand[r]) /\ \A s \in Runs : hand[s] = hand[r] => s = r
OfBegunRuns ==
  /\ \A f \in Files : InQueue(f) \/ InSomeHand(f) => ~Idle(f[1])
  /\ \A p \in Producers : todo[p] # {} => ~Idle(p[1])

\* What makes the counter right.
Counting ==
  /\ TodoIsMine /\ TodoIsNew /\ QueuedOnce /\ HeldOnce /\ OfBegunRuns
  /\ IsFiniteSet(Units(Counted)) /\ SizeCounterExact

Inv == TypeOK /\ Control /\ Counting

\* The types of what controls the threads.
ControlTypes ==
  /\ main \in [Runs -> {"idle", "producing", "signalling", "joining", "ended"}]
  /\ prod \in [Producers -> {"off", "check", "stage", "staged", "put", "raised", "done"}]
  /\ todo \in [Producers -> SUBSET Files]
  /\ cons \in [Runs -> {"off", "prefetch", "load", "get", "write", "insert", "clear",
                        "unlink", "account", "close", "done"}]
  /\ hand \in [Runs -> Files \cup {Sentinel}]
  /\ queue \in Seq(Files \cup {Sentinel})
  /\ Len(queue) <= MaxQueue
  /\ bytes \in Nat
  /\ owner \in Producers \cup {Nobody}
  /\ producersDone \in BOOLEAN /\ producerError \in BOOLEAN

LEMMA TypesOfControl == TypeOK => ControlTypes
BY DEF TypeOK, ControlTypes

\* The invariant holds at first.
LEMMA InitInv == Init => Inv
<1> SUFFICES ASSUME Init PROVE Inv
  OBVIOUS
<1> USE PipelineAssumption, Facts DEF Init
<1>1. TypeOK
  <2>1. <<>> \in Seq(Files \cup {Sentinel}) /\ Len(<<>>) = 0 /\ MaxQueue \in Nat
    OBVIOUS
  <2>2. tape \in [Runs -> [Files -> Nat]] /\ todo \in [Producers -> SUBSET Files]
    OBVIOUS
  <2>3. main \in [Runs -> {"idle", "producing", "signalling", "joining", "ended"}]
    OBVIOUS
  <2>4. hand \in [Runs -> Files \cup {Sentinel}] /\ disk \subseteq Files
        /\ buffer \subseteq Files /\ catalog \subseteq Files
    OBVIOUS
  <2>5. prod \in [Producers -> {"off", "check", "stage", "staged", "put", "raised", "done"}]
    OBVIOUS
  <2>6. cons \in [Runs -> {"off", "prefetch", "load", "get", "write", "insert", "clear",
                          "unlink", "account", "close", "done"}]
    OBVIOUS
  <2>8. queue \in Seq(Files \cup {Sentinel}) /\ Len(queue) <= MaxQueue /\ bytes \in Nat
        /\ owner \in Producers \cup {Nobody}
    BY <2>1
  <2>9. producersDone \in BOOLEAN /\ producerError \in BOOLEAN /\ consumerError \in BOOLEAN
    OBVIOUS
  <2> HIDE DEF Init
  <2> QED BY <2>2, <2>3, <2>4, <2>5, <2>6, <2>8, <2>9, Zenon DEF TypeOK
<1>2. Control
  BY DEF Control, MainControl, LockMeansPutting, HandMatches, OneByOne, Active
<1>3. Counted = {}
  BY DEF Counted, Queued, InHand
<1>4. IsFiniteSet(Units(Counted)) /\ SizeCounterExact
  BY <1>3, FS_EmptySet DEF SizeCounterExact, Counted, Units
<1>5. TodoIsMine /\ TodoIsNew /\ QueuedOnce /\ HeldOnce /\ OfBegunRuns
  BY DEF TodoIsMine, TodoIsNew, QueuedOnce, HeldOnce, OfBegunRuns, InQueue, InSomeHand
<1> QED BY <1>1, <1>2, <1>4, <1>5 DEF Inv, Counting

\* Every step keeps the control part.
LEMMA ControlStep == Inv /\ [Next]_vars => Control'
<1> SUFFICES ASSUME Inv, [Next]_vars PROVE Control'
  OBVIOUS
<1> USE Facts DEF Control, MainControl, LockMeansPutting, HandMatches, OneByOne, Active,
    vars, runVars, prodVars, consVars, errors, store
<1>0. ControlTypes /\ Control
  BY TypesOfControl DEF Inv
<1>1. ASSUME NEW r \in Runs, Begin(r) PROVE Control'
  BY <1>0, <1>1 DEF ControlTypes, Begin, ConsumerGoto, OneDrive, Mine
<1>2. ASSUME NEW r \in Runs, JoinProducers(r) PROVE Control'
  BY <1>0, <1>2 DEF ControlTypes, JoinProducers, ConsumerGoto
<1>3. ASSUME NEW r \in Runs, SignalConsumer(r) PROVE Control'
  BY <1>0, <1>3 DEF ControlTypes, SignalConsumer, ConsumerGoto
<1>4. ASSUME NEW r \in Runs, EndRun(r) PROVE Control'
  BY <1>0, <1>4 DEF ControlTypes, EndRun, ConsumerGoto
<1>5. ASSUME NEW r \in Runs, Prefetched(r) PROVE Control'
  BY <1>0, <1>5 DEF ControlTypes, Prefetched, ConsumerGoto
<1>6. ASSUME NEW r \in Runs, Mount(r) PROVE Control'
  BY <1>0, <1>6 DEF ControlTypes, Mount, ConsumerGoto
<1>7. ASSUME NEW r \in Runs, MountFailed(r) PROVE Control'
  BY <1>0, <1>7 DEF ControlTypes, MountFailed, ConsumerGoto
<1>8. ASSUME NEW r \in Runs, Get(r) PROVE Control'
  BY <1>0, <1>8 DEF ControlTypes, Get, ConsumerGoto
<1>9. ASSUME NEW r \in Runs, Write(r) PROVE Control'
  BY <1>0, <1>9 DEF ControlTypes, Write, ConsumerGoto
<1>10. ASSUME NEW r \in Runs, WriteFailed(r) PROVE Control'
  BY <1>0, <1>10 DEF ControlTypes, WriteFailed, ConsumerGoto
<1>11. ASSUME NEW r \in Runs, Unlink(r) PROVE Control'
  BY <1>0, <1>11 DEF ControlTypes, Unlink, ConsumerGoto
<1>12. ASSUME NEW r \in Runs, Account(r) PROVE Control'
  BY <1>0, <1>12 DEF ControlTypes, Account, ConsumerGoto
<1>13. ASSUME NEW r \in Runs, Insert(r) PROVE Control'
  BY <1>0, <1>13 DEF ControlTypes, Insert, ConsumerGoto
<1>14. ASSUME NEW r \in Runs, InsertFailed(r) PROVE Control'
  BY <1>0, <1>14 DEF ControlTypes, InsertFailed, ConsumerGoto, AfterFlush
<1>15. ASSUME NEW r \in Runs, Clear(r) PROVE Control'
  BY <1>0, <1>15 DEF ControlTypes, Clear, ConsumerGoto, AfterFlush
<1>16. ASSUME NEW r \in Runs, Close(r) PROVE Control'
  BY <1>0, <1>16 DEF ControlTypes, Close, ConsumerGoto
<1>17. ASSUME NEW p \in Producers, CheckQueue(p) PROVE Control'
  BY <1>0, <1>17 DEF ControlTypes, CheckQueue, Goto
<1>18. ASSUME NEW p \in Producers, Stage(p) PROVE Control'
  BY <1>0, <1>18 DEF ControlTypes, Stage, Goto
<1>19. ASSUME NEW p \in Producers, StageFailed(p) PROVE Control'
  BY <1>0, <1>19 DEF ControlTypes, StageFailed, Goto, Drop
<1>20. ASSUME NEW p \in Producers, LockQueue(p) PROVE Control'
  BY <1>0, <1>20 DEF ControlTypes, LockQueue, Goto
<1>21. ASSUME NEW p \in Producers, Put(p) PROVE Control'
  BY <1>0, <1>21 DEF ControlTypes, Put, Goto, Drop
<1>22. ASSUME NEW p \in Producers, ProducerEnds(p) PROVE Control'
  BY <1>0, <1>22 DEF ControlTypes, ProducerEnds, Goto
<1>23. ASSUME NEW p \in Producers, ProducerRaises(p) PROVE Control'
  BY <1>0, <1>23 DEF ControlTypes, ProducerRaises, Goto
<1>24. ASSUME NEW p \in Producers, SignalError(p) PROVE Control'
  BY <1>0, <1>24 DEF ControlTypes, SignalError, Goto
<1>25. CASE UNCHANGED vars
  BY <1>25, <1>0
<1> QED BY <1>1, <1>2, <1>3, <1>4, <1>5, <1>6, <1>7, <1>8, <1>9, <1>10, <1>11, <1>12,
    <1>13, <1>14, <1>15, <1>16, <1>17, <1>18, <1>19, <1>20, <1>21, <1>22, <1>23, <1>24,
        <1>25 DEF Next, MainStep, ConsumerStep, ProducerStep

\* The file a producer works on is its run's.
LEMMA CurrentIn ==
  ASSUME TypeOK, TodoIsMine, NEW p \in Producers, todo[p] # {}
  PROVE  Current(p) \in todo[p] /\ Current(p) \in FilesOf(p[1]) /\ Current(p) \in Files
BY CurrentIsLeft, MineFiles DEF TodoIsMine

\* Every step keeps the types; the counter stays a number because a file in a hand is
\* counted.
LEMMA TypeStep == Inv /\ [Next]_vars => TypeOK'
<1> SUFFICES ASSUME Inv, [Next]_vars PROVE TypeOK'
  OBVIOUS
<1> USE Facts, PipelineAssumption DEF TypeOK, vars, runVars, prodVars, consVars, errors,
    store
<1>0. TypeOK /\ Control /\ TodoIsMine
  BY DEF Inv, Counting
<1>00. IsFiniteSet(Units(Counted)) /\ SizeCounterExact
  BY DEF Inv, Counting
<1>1. ASSUME NEW r \in Runs, Begin(r) PROVE TypeOK'
  BY <1>0, <1>1, MineFiles DEF Begin, ConsumerGoto, Cleared
<1>2. ASSUME NEW r \in Runs, JoinProducers(r) PROVE TypeOK'
  BY <1>0, <1>2 DEF JoinProducers, ConsumerGoto
<1>3. ASSUME NEW r \in Runs, SignalConsumer(r) PROVE TypeOK'
  BY <1>0, <1>3 DEF SignalConsumer, ConsumerGoto
<1>4. ASSUME NEW r \in Runs, EndRun(r) PROVE TypeOK'
  BY <1>0, <1>4, MineFiles DEF EndRun, ConsumerGoto, Cleared
<1>5. ASSUME NEW r \in Runs, Prefetched(r) PROVE TypeOK'
  BY <1>0, <1>5 DEF Prefetched, ConsumerGoto
<1>6. ASSUME NEW r \in Runs, Mount(r) PROVE TypeOK'
  BY <1>0, <1>6 DEF Mount, ConsumerGoto
<1>7. ASSUME NEW r \in Runs, MountFailed(r) PROVE TypeOK'
  BY <1>0, <1>7 DEF MountFailed, ConsumerGoto
<1>8. ASSUME NEW r \in Runs, Get(r) PROVE TypeOK'
  BY <1>0, <1>8 DEF Get, ConsumerGoto
<1>9. ASSUME NEW r \in Runs, Write(r) PROVE TypeOK'
  BY <1>0, <1>9 DEF Write, ConsumerGoto, Control, HandMatches
<1>10. ASSUME NEW r \in Runs, WriteFailed(r) PROVE TypeOK'
  BY <1>0, <1>10 DEF WriteFailed, ConsumerGoto
<1>11. ASSUME NEW r \in Runs, Unlink(r) PROVE TypeOK'
  BY <1>0, <1>11 DEF Unlink, ConsumerGoto, Control, HandMatches
<1>12. ASSUME NEW r \in Runs, Account(r) PROVE TypeOK'
  <2>1. hand[r] \in Counted /\ hand[r] \in Files /\ Counted \subseteq Files
    BY <1>0, <1>12 DEF Account, Control, HandMatches, Counted, InHand, Queued
  <2>2. bytes - Size[hand[r]] \in Nat
    <3>1. IsFiniteSet(Units(Counted \ {hand[r]}))
          /\ Cardinality(Units(Counted \ {hand[r]})) = Cardinality(Units(Counted)) - Size[hand[r]]
      BY <1>00, <2>1, UnitsRemoved
    <3>2. Cardinality(Units(Counted \ {hand[r]})) \in Nat
      BY <3>1, FS_CardinalityType
    <3> QED BY <1>00, <3>1, <3>2 DEF SizeCounterExact, Counted
  <2> QED BY <1>0, <1>12, <2>2 DEF Account, ConsumerGoto
<1>13. ASSUME NEW r \in Runs, Insert(r) PROVE TypeOK'
  BY <1>0, <1>13 DEF Insert, ConsumerGoto
<1>14. ASSUME NEW r \in Runs, InsertFailed(r) PROVE TypeOK'
  BY <1>0, <1>14 DEF InsertFailed, ConsumerGoto, AfterFlush
<1>15. ASSUME NEW r \in Runs, Clear(r) PROVE TypeOK'
  BY <1>0, <1>15 DEF Clear, ConsumerGoto, AfterFlush
<1>16. ASSUME NEW r \in Runs, Close(r) PROVE TypeOK'
  BY <1>0, <1>16 DEF Close, ConsumerGoto
<1>17. ASSUME NEW p \in Producers, CheckQueue(p) PROVE TypeOK'
  BY <1>0, <1>17 DEF CheckQueue, Goto
<1>18. ASSUME NEW p \in Producers, Stage(p) PROVE TypeOK'
  BY <1>0, <1>18, CurrentIn DEF Stage, Goto, Control, MainControl
<1>19. ASSUME NEW p \in Producers, StageFailed(p) PROVE TypeOK'
  BY <1>0, <1>19, CurrentIn DEF StageFailed, Goto, Drop, Control, MainControl
<1>20. ASSUME NEW p \in Producers, LockQueue(p) PROVE TypeOK'
  BY <1>0, <1>20 DEF LockQueue, Goto
<1>21. ASSUME NEW p \in Producers, Put(p) PROVE TypeOK'
  BY <1>0, <1>21, CurrentIn DEF Put, Goto, Drop, Control, MainControl
<1>22. ASSUME NEW p \in Producers, ProducerEnds(p) PROVE TypeOK'
  BY <1>0, <1>22 DEF ProducerEnds, Goto
<1>23. ASSUME NEW p \in Producers, ProducerRaises(p) PROVE TypeOK'
  BY <1>0, <1>23 DEF ProducerRaises, Goto
<1>24. ASSUME NEW p \in Producers, SignalError(p) PROVE TypeOK'
  BY <1>0, <1>24 DEF SignalError, Goto
<1>25. CASE UNCHANGED vars
  BY <1>25, <1>0
<1> QED BY <1>1, <1>2, <1>3, <1>4, <1>5, <1>6, <1>7, <1>8, <1>9, <1>10, <1>11, <1>12,
    <1>13, <1>14, <1>15, <1>16, <1>17, <1>18, <1>19, <1>20, <1>21, <1>22, <1>23, <1>24,
        <1>25 DEF Next, MainStep, ConsumerStep, ProducerStep

\* A step that moves no file keeps the counting part.
LEMMA Quiet ==
  ASSUME TypeOK, Counting, UNCHANGED <<queue, hand, todo, bytes>>,
         \A r \in Runs : Idle(r)' => Idle(r)
  PROVE  Counting'
<1>1. Queued' = Queued /\ InHand' = InHand
  BY DEF Queued, InHand
<1>2. IsFiniteSet(Units(Counted))' /\ SizeCounterExact'
  BY <1>1 DEF Counting, SizeCounterExact, Counted, Units
<1>3. TodoIsMine' /\ TodoIsNew' /\ QueuedOnce' /\ HeldOnce'
  BY DEF Counting, TodoIsMine, Mine, TodoIsNew, QueuedOnce, HeldOnce, InQueue, InSomeHand
<1>4. OfBegunRuns'
  BY Facts DEF Counting, OfBegunRuns, InQueue, InSomeHand
<1> QED BY <1>2, <1>3, <1>4 DEF Counting

\* What is in the queue after a put.
LEMMA Appended ==
  ASSUME TypeOK, NEW x \in Files \cup {Sentinel}, queue' = Append(queue, x)
  PROVE  \A f : InQueue(f)' <=> InQueue(f) \/ f = x
<1> DEFINE q == Append(queue, x)
<1>1. Len(queue) \in Nat /\ Len(q) = Len(queue) + 1
      /\ q[Len(queue) + 1] = x /\ \A i \in 1 .. Len(queue) : q[i] = queue[i]
  BY DEF TypeOK
<1>2. queue' = q
  OBVIOUS
<1> HIDE DEF q
<1>3. \A i \in 1 .. Len(q) : i \in 1 .. Len(queue) \/ i = Len(queue) + 1
  BY <1>1
<1>4. \A i \in 1 .. Len(queue) : i \in 1 .. Len(q)
  BY <1>1
<1>5. Len(queue) + 1 \in 1 .. Len(q)
  BY <1>1
<1> QED BY <1>1, <1>2, <1>3, <1>4, <1>5 DEF InQueue

\* What is in the queue after a get.
LEMMA Taken ==
  ASSUME TypeOK, queue # <<>>, queue' = Tail(queue)
  PROVE  \A f : InQueue(f) <=> f = Head(queue) \/ InQueue(f)'
<1>1. Head(queue) = queue[1] /\ Len(queue) \in Nat \ {0}
      /\ Len(queue') = Len(queue) - 1
          /\ \A i \in 1 .. Len(queue') : queue'[i] = queue[i + 1]
  BY DEF TypeOK
<1>2. \A i \in 1 .. Len(queue) : i = 1 \/ (i - 1 \in 1 .. Len(queue')
    /\ queue[i] = queue'[i - 1])
  BY <1>1
<1>3. \A i \in 1 .. Len(queue') : i + 1 \in 1 .. Len(queue)
  BY <1>1
<1>4. 1 \in 1 .. Len(queue)
  BY <1>1
<1>5. \A f : InQueue(f)' => InQueue(f)
  BY <1>1, <1>3 DEF InQueue
<1>6. \A f : InQueue(f) => f = Head(queue) \/ InQueue(f)'
  BY <1>1, <1>2 DEF InQueue
<1> QED BY <1>1, <1>4, <1>5, <1>6 DEF InQueue

\* A sentinel in the queue changes nothing for the files.
LEMMA Signalled ==
  ASSUME TypeOK, Counting, UNCHANGED <<hand, todo, bytes>>, queue' = Append(queue,
      Sentinel),
         \A r \in Runs : Idle(r)' => Idle(r)
  PROVE  Counting'
<1>1. \A f : InQueue(f)' <=> InQueue(f) \/ f = Sentinel
  BY Appended
<1>2. Queued' = Queued /\ InHand' = InHand
  BY <1>1, Facts DEF Queued, InHand, InQueue
<1>3. IsFiniteSet(Units(Counted))' /\ SizeCounterExact'
  BY <1>2 DEF Counting, SizeCounterExact, Counted, Units
<1>4. TodoIsMine' /\ TodoIsNew'
  BY <1>1, Facts, MineFiles DEF Counting, TodoIsMine, Mine, TodoIsNew, InSomeHand
<1>5. QueuedOnce'
  BY Facts DEF TypeOK, Counting, QueuedOnce
<1>6. HeldOnce'
  BY <1>1, Facts DEF Counting, HeldOnce
<1>7. OfBegunRuns'
  BY <1>1, Facts DEF Counting, OfBegunRuns, InSomeHand
<1> QED BY <1>3, <1>4, <1>5, <1>6, <1>7 DEF Counting

\* Every step keeps the counting part.
LEMMA CountingStep == Inv /\ [Next]_vars => Counting'
<1> SUFFICES ASSUME Inv, [Next]_vars PROVE Counting'
  OBVIOUS
<1> USE Facts DEF vars, runVars, prodVars, consVars, errors, store
<1>0. TypeOK /\ Control /\ Counting
  BY DEF Inv
<1>1. ASSUME NEW r \in Runs, Begin(r) PROVE Counting'
  <2> USE <1>0, <1>1
  <2>1. main[r] = "idle" /\ UNCHANGED <<hand, queue, bytes>>
        /\ main' = [main EXCEPT ![r] = "producing"]
        /\ todo' = [p \in Producers |-> IF p[1] = r THEN Mine(p) ELSE todo[p]]
    BY DEF Begin
  <2>2. Queued' = Queued /\ InHand' = InHand
    BY <2>1 DEF Queued, InHand
  <2>3. IsFiniteSet(Units(Counted))' /\ SizeCounterExact'
    BY <2>1, <2>2 DEF Counting, SizeCounterExact, Counted, Units
  <2>4. TodoIsMine'
    BY <2>1 DEF Counting, TodoIsMine, Mine
  <2>5. QueuedOnce' /\ HeldOnce'
    BY <2>1 DEF Counting, QueuedOnce, HeldOnce, InQueue
  <2>6. \A f \in FilesOf(r) : ~InQueue(f) /\ ~InSomeHand(f)
    BY <2>1, FileParts DEF Counting, OfBegunRuns, Idle
  <2>7. TodoIsNew'
    BY <2>1, <2>6, MineFiles DEF Counting, TodoIsNew, InQueue, InSomeHand
  <2>8. OfBegunRuns'
    BY <2>1 DEF TypeOK, Counting, OfBegunRuns, InQueue, InSomeHand, Idle
  <2> QED BY <2>3, <2>4, <2>5, <2>7, <2>8 DEF Counting
<1>2. ASSUME NEW p \in Producers, StageFailed(p) PROVE Counting'
  <2>1. UNCHANGED <<hand, queue, bytes, main>>
      /\ todo' = [todo EXCEPT ![p] = @ \ {Current(p)}]
    BY <1>2 DEF StageFailed, Drop
  <2>2. Queued' = Queued /\ InHand' = InHand
    BY <2>1 DEF Queued, InHand
  <2>3. IsFiniteSet(Units(Counted))' /\ SizeCounterExact'
    BY <1>0, <2>1, <2>2 DEF Counting, SizeCounterExact, Counted, Units
  <2>4. \A q \in Producers : todo'[q] \subseteq todo[q]
    BY <1>0, <2>1 DEF TypeOK
  <2>5. TodoIsMine' /\ TodoIsNew'
    BY <1>0, <2>1, <2>4 DEF Counting, TodoIsMine, Mine, TodoIsNew, InQueue, InSomeHand
  <2>6. QueuedOnce' /\ HeldOnce'
    BY <1>0, <2>1 DEF Counting, QueuedOnce, HeldOnce, InQueue
  <2>7. OfBegunRuns'
    BY <1>0, <2>1, <2>4 DEF Counting, OfBegunRuns, InQueue, InSomeHand, Idle
  <2> QED BY <2>3, <2>5, <2>6, <2>7 DEF Counting
<1>3. ASSUME NEW p \in Producers, Put(p) PROVE Counting'
  <2> DEFINE c == Current(p)
  <2>1. UNCHANGED <<hand, main>> /\ todo' = [todo EXCEPT ![p] = @ \ {c}]
        /\ queue' = Append(queue, c) /\ bytes' = bytes + Size[c]
    BY <1>3 DEF Put, Drop
  <2>2. c \in todo[p] /\ c \in Files /\ c \in Mine(p) /\ c[1] = p[1]
    BY <1>0, <1>3, CurrentIn, FileParts DEF Put, Control, MainControl, Counting, TodoIsMine
  <2> HIDE DEF c
  <2>3. ~InQueue(c) /\ ~InSomeHand(c)
    BY <1>0, <2>2 DEF Counting, TodoIsNew
  <2>4. \A f : InQueue(f)' <=> InQueue(f) \/ f = c
    BY <1>0, <2>1, <2>2, Appended
  <2>5. Counted' = Counted \cup {c} /\ c \notin Counted
    BY <2>1, <2>2, <2>3, <2>4 DEF Counted, Queued, InHand, InQueue, InSomeHand
  <2>6. IsFiniteSet(Units(Counted))' /\ SizeCounterExact'
    <3>1. Counted \subseteq Files
      BY DEF Counted, Queued, InHand
    <3>2. IsFiniteSet(Units(Counted')) /\ Cardinality(Units(Counted')) = bytes + Size[c]
      BY <1>0, <2>2, <2>5, <3>1, UnitsAdded DEF Counting, SizeCounterExact, Counted
    <3> QED BY <2>1, <3>2 DEF SizeCounterExact, Counted, Units
  <2>7. \A q \in Producers : todo'[q] \subseteq todo[q] /\ c \notin todo'[q]
    <3>1. \A q \in Producers : q # p => c \notin todo[q]
      BY <1>0, <2>2, MineApart DEF Counting, TodoIsMine
    <3> QED BY <1>0, <2>1, <3>1 DEF TypeOK
  <2>8. TodoIsMine'
    BY <1>0, <2>7 DEF Counting, TodoIsMine, Mine
  <2>9. TodoIsNew'
    BY <1>0, <2>1, <2>4, <2>7 DEF Counting, TodoIsNew, InSomeHand
  <2>10. QueuedOnce'
    BY <1>0, <2>1, <2>2, <2>3 DEF TypeOK, Counting, QueuedOnce, InQueue
  <2>11. HeldOnce'
    BY <1>0, <2>1, <2>2, <2>3, <2>4 DEF Counting, HeldOnce, InSomeHand
  <2>12. OfBegunRuns'
    BY <1>0, <2>1, <2>2, <2>4, <2>7 DEF Counting, OfBegunRuns, InSomeHand, Idle
  <2> QED BY <2>6, <2>8, <2>9, <2>10, <2>11, <2>12 DEF Counting
<1>4. ASSUME NEW r \in Runs, Get(r) PROVE Counting'
  <2> DEFINE h == Head(queue)
  <2>1. UNCHANGED <<bytes, main, todo>> /\ hand' = [hand EXCEPT ![r] = h]
        /\ queue' = Tail(queue) /\ queue # <<>> /\ hand[r] = Sentinel
    BY <1>0, <1>4 DEF Get, Control, HandMatches
  <2>2. h = queue[1] /\ Len(queue) \in Nat \ {0} /\ h \in Files \cup {Sentinel}
        /\ Len(queue') = Len(queue) - 1
            /\ \A i \in 1 .. Len(queue') : queue'[i] = queue[i + 1]
    BY <1>0, <2>1 DEF TypeOK
  <2> HIDE DEF h
  <2>3. \A f : InQueue(f) <=> f = h \/ InQueue(f)'
    BY <1>0, <2>1, Taken DEF h
  <2>4. \A f \in Files : f = h => ~InQueue(f)'
    <3>1. \A i \in 1 .. Len(queue') : i + 1 \in 1 .. Len(queue) /\ i + 1 # 1
      BY <2>2
    <3>2. 1 \in 1 .. Len(queue)
      BY <2>2
    <3>3. ASSUME NEW f \in Files, f = h, NEW i \in 1 .. Len(queue'), queue'[i] = f
        PROVE FALSE
      <4>1. queue[i + 1] = queue[1] /\ queue[i + 1] \in Files
        BY <2>2, <3>3
      <4> QED BY <1>0, <4>1, <3>1, <3>2 DEF Counting, QueuedOnce
    <3> QED BY <3>3 DEF InQueue
  <2>5. \A f \in Files : InSomeHand(f)' <=> InSomeHand(f) \/ f = h
    BY <1>0, <2>1 DEF TypeOK, InSomeHand
  <2>6. Counted' = Counted
    BY <2>3, <2>5 DEF Counted, Queued, InHand, InQueue, InSomeHand
  <2>7. IsFiniteSet(Units(Counted))' /\ SizeCounterExact'
    BY <1>0, <2>1, <2>6 DEF Counting, SizeCounterExact, Counted, Units
  <2>8. TodoIsMine' /\ TodoIsNew'
    BY <1>0, <2>1, <2>3, <2>5, MineFiles DEF Counting, TodoIsMine, Mine, TodoIsNew
  <2>9. QueuedOnce'
    <3>1. \A i \in 1 .. Len(queue') : i + 1 \in 1 .. Len(queue)
      BY <2>2
    <3> QED BY <1>0, <2>2, <3>1 DEF Counting, QueuedOnce
  <2>10. HeldOnce'
    <3>1. hand'[r] = h /\ \A s \in Runs : s # r => hand'[s] = hand[s]
      BY <1>0, <2>1 DEF TypeOK
    <3>2. \A s \in Runs : \A f \in Files :
            hand[s] = f => ~InQueue(f) /\ \A v \in Runs : hand[v] = f => v = s
      BY <1>0 DEF Counting, HeldOnce
    <3>3. ASSUME NEW s \in Runs, NEW f \in Files, hand'[s] = f
          PROVE  ~InQueue(f)' /\ \A v \in Runs : hand'[v] = f => v = s
      <4>1. CASE s = r
        <5>1. f = h /\ InQueue(f)
          BY <2>3, <3>1, <3>3, <4>1
        <5>2. \A v \in Runs : hand[v] # f
          BY <3>2, <5>1
        <5> QED BY <2>4, <3>1, <4>1, <5>1, <5>2
      <4>2. CASE s # r
        <5>1. hand[s] = f
          BY <3>1, <3>3, <4>2
        <5>2. ~InQueue(f) /\ \A v \in Runs : hand[v] = f => v = s
          BY <3>2, <5>1
        <5>3. f # h /\ ~InQueue(f)'
          BY <2>3, <5>2
        <5> QED BY <3>1, <5>2, <5>3
      <4> QED BY <4>1, <4>2
    <3> QED BY <3>3 DEF HeldOnce, InQueue
  <2>11. OfBegunRuns'
    BY <1>0, <2>1, <2>3, <2>5 DEF Counting, OfBegunRuns, Idle
  <2> QED BY <2>7, <2>8, <2>9, <2>10, <2>11 DEF Counting
<1>5. ASSUME NEW r \in Runs, Account(r) PROVE Counting'
  <2> DEFINE h == hand[r]
  <2>1. UNCHANGED <<queue, main, todo>> /\ hand' = [hand EXCEPT ![r] = Sentinel]
        /\ bytes' = bytes - Size[h] /\ h \in Files
    BY <1>0, <1>5 DEF Account, Control, HandMatches
  <2> HIDE DEF h
  <2>2. ~InQueue(h) /\ \A s \in Runs : hand[s] = h => s = r
    BY <1>0, <2>1 DEF Counting, HeldOnce, h
  <2>3. \A f \in Files : InSomeHand(f)' <=> InSomeHand(f) /\ f # h
    BY <1>0, <2>1, <2>2 DEF TypeOK, InSomeHand, h
  <2>4. Counted' = Counted \ {h} /\ h \in Counted
    BY <2>1, <2>2, <2>3 DEF Counted, Queued, InHand, InQueue, InSomeHand, h
  <2>5. IsFiniteSet(Units(Counted')) /\ Cardinality(Units(Counted')) = bytes - Size[h]
    <3>1. Counted \subseteq Files
      BY DEF Counted, Queued, InHand
    <3> QED BY <1>0, <2>1, <2>4, <3>1, UnitsRemoved DEF Counting, SizeCounterExact, Counted
  <2>6. IsFiniteSet(Units(Counted))' /\ SizeCounterExact'
    BY <2>1, <2>5 DEF SizeCounterExact, Counted, Units
  <2>7. TodoIsMine' /\ TodoIsNew'
    BY <1>0, <2>1, <2>3, MineFiles DEF Counting, TodoIsMine, Mine, TodoIsNew, InQueue
  <2>8. QueuedOnce' /\ HeldOnce'
    BY <1>0, <2>1 DEF TypeOK, Counting, QueuedOnce, HeldOnce, InQueue
  <2>9. OfBegunRuns'
    BY <1>0, <2>1, <2>3 DEF Counting, OfBegunRuns, InQueue, Idle
  <2> QED BY <2>6, <2>7, <2>8, <2>9 DEF Counting
<1>6. ASSUME NEW r \in Runs, SignalConsumer(r) PROVE Counting'
  BY <1>0, <1>6, Signalled DEF SignalConsumer, TypeOK, Idle
<1>7. ASSUME NEW p \in Producers, SignalError(p) PROVE Counting'
  BY <1>0, <1>7, Signalled DEF SignalError, TypeOK, Idle
<1>8. ASSUME NEW r \in Runs, JoinProducers(r) PROVE Counting'
  BY <1>0, <1>8, Quiet DEF JoinProducers, TypeOK, Idle
<1>9. ASSUME NEW r \in Runs, EndRun(r) PROVE Counting'
  BY <1>0, <1>9, Quiet DEF EndRun, TypeOK, Idle
<1>10. ASSUME NEW r \in Runs, Prefetched(r) PROVE Counting'
  BY <1>0, <1>10, Quiet DEF Prefetched, TypeOK, Idle
<1>11. ASSUME NEW r \in Runs, Mount(r) PROVE Counting'
  BY <1>0, <1>11, Quiet DEF Mount, TypeOK, Idle
<1>12. ASSUME NEW r \in Runs, MountFailed(r) PROVE Counting'
  BY <1>0, <1>12, Quiet DEF MountFailed, TypeOK, Idle
<1>13. ASSUME NEW r \in Runs, Write(r) PROVE Counting'
  BY <1>0, <1>13, Quiet DEF Write, TypeOK, Idle
<1>14. ASSUME NEW r \in Runs, WriteFailed(r) PROVE Counting'
  BY <1>0, <1>14, Quiet DEF WriteFailed, TypeOK, Idle
<1>15. ASSUME NEW r \in Runs, Unlink(r) PROVE Counting'
  BY <1>0, <1>15, Quiet DEF Unlink, TypeOK, Idle
<1>16. ASSUME NEW r \in Runs, Insert(r) PROVE Counting'
  BY <1>0, <1>16, Quiet DEF Insert, TypeOK, Idle
<1>17. ASSUME NEW r \in Runs, InsertFailed(r) PROVE Counting'
  BY <1>0, <1>17, Quiet DEF InsertFailed, TypeOK, Idle
<1>18. ASSUME NEW r \in Runs, Clear(r) PROVE Counting'
  BY <1>0, <1>18, Quiet DEF Clear, TypeOK, Idle
<1>19. ASSUME NEW r \in Runs, Close(r) PROVE Counting'
  BY <1>0, <1>19, Quiet DEF Close, TypeOK, Idle
<1>20. ASSUME NEW p \in Producers, CheckQueue(p) PROVE Counting'
  BY <1>0, <1>20, Quiet DEF CheckQueue, TypeOK, Idle
<1>21. ASSUME NEW p \in Producers, Stage(p) PROVE Counting'
  BY <1>0, <1>21, Quiet DEF Stage, TypeOK, Idle
<1>22. ASSUME NEW p \in Producers, LockQueue(p) PROVE Counting'
  BY <1>0, <1>22, Quiet DEF LockQueue, TypeOK, Idle
<1>23. ASSUME NEW p \in Producers, ProducerEnds(p) PROVE Counting'
  BY <1>0, <1>23, Quiet DEF ProducerEnds, TypeOK, Idle
<1>24. ASSUME NEW p \in Producers, ProducerRaises(p) PROVE Counting'
  BY <1>0, <1>24, Quiet DEF ProducerRaises, TypeOK, Idle
<1>25. CASE UNCHANGED vars
  BY <1>25, <1>0, Quiet DEF Idle
<1> QED BY <1>1, <1>2, <1>3, <1>4, <1>5, <1>6, <1>7, <1>8, <1>9, <1>10, <1>11, <1>12,
    <1>13, <1>14, <1>15, <1>16, <1>17, <1>18, <1>19, <1>20, <1>21, <1>22, <1>23, <1>24,
        <1>25 DEF Next, MainStep, ConsumerStep, ProducerStep

\* On one drive the staging directory has only files of the active run, if the clean-up
\* removes them all.
StagedIsOwn ==
  OneDrive /\ ~Converted => \A r \in Runs : Active(r) => disk \subseteq FilesOf(r)

OwnInv == OwnFilesOnly /\ StagedIsOwn

\* Every step keeps tapes and staging directory to the run's own files.
LEMMA OwnStep == Inv /\ OwnInv /\ [Next]_vars => OwnInv'
<1> SUFFICES ASSUME Inv, OwnInv, [Next]_vars, OneDrive, ~Converted PROVE OwnInv'
  BY DEF OwnInv, OwnFilesOnly, StagedIsOwn, OneDrive
<1> USE DEF vars, runVars, prodVars, consVars, errors, store, OwnInv, OwnFilesOnly,
    OnTape, StagedIsOwn, Active, ConsumerGoto, Goto
<1>0. TypeOK /\ Control /\ TodoIsMine /\ OwnInv
  BY DEF Inv, Counting
<1>00. \A r, s \in Runs : Active(r) /\ Active(s) => r = s
  BY <1>0 DEF Control, OneByOne
<1>1. ASSUME NEW r \in Runs, Begin(r) PROVE OwnInv'
  BY <1>0, <1>1, SMT DEF Begin, Cleared, TypeOK
<1>2. ASSUME NEW r \in Runs, JoinProducers(r) PROVE OwnInv'
  BY <1>0, <1>2 DEF JoinProducers, TypeOK
<1>3. ASSUME NEW r \in Runs, SignalConsumer(r) PROVE OwnInv'
  BY <1>0, <1>3 DEF SignalConsumer, TypeOK
<1>4. ASSUME NEW r \in Runs, EndRun(r) PROVE OwnInv'
  BY <1>0, <1>4 DEF EndRun, Cleared, TypeOK
<1>5. ASSUME NEW r \in Runs, Prefetched(r) PROVE OwnInv'
  BY <1>0, <1>5 DEF Prefetched
<1>6. ASSUME NEW r \in Runs, Mount(r) PROVE OwnInv'
  BY <1>0, <1>6 DEF Mount
<1>7. ASSUME NEW r \in Runs, MountFailed(r) PROVE OwnInv'
  BY <1>0, <1>7 DEF MountFailed
<1>8. ASSUME NEW r \in Runs, Get(r) PROVE OwnInv'
  BY <1>0, <1>8 DEF Get
<1>9. ASSUME NEW r \in Runs, Write(r) PROVE OwnInv'
  <2>1. Active(r) /\ hand[r] \in FilesOf(r)
    BY <1>0, <1>9 DEF Write, Control, MainControl
  <2> QED BY <1>0, <1>9, <2>1 DEF Write, TypeOK
<1>10. ASSUME NEW r \in Runs, WriteFailed(r) PROVE OwnInv'
  BY <1>0, <1>10 DEF WriteFailed
<1>11. ASSUME NEW r \in Runs, Unlink(r) PROVE OwnInv'
  BY <1>0, <1>11 DEF Unlink
<1>12. ASSUME NEW r \in Runs, Account(r) PROVE OwnInv'
  BY <1>0, <1>12 DEF Account
<1>13. ASSUME NEW r \in Runs, Insert(r) PROVE OwnInv'
  BY <1>0, <1>13 DEF Insert
<1>14. ASSUME NEW r \in Runs, InsertFailed(r) PROVE OwnInv'
  BY <1>0, <1>14 DEF InsertFailed
<1>15. ASSUME NEW r \in Runs, Clear(r) PROVE OwnInv'
  BY <1>0, <1>15 DEF Clear
<1>16. ASSUME NEW r \in Runs, Close(r) PROVE OwnInv'
  BY <1>0, <1>16 DEF Close
<1>17. ASSUME NEW p \in Producers, CheckQueue(p) PROVE OwnInv'
  BY <1>0, <1>17 DEF CheckQueue
<1>18. ASSUME NEW p \in Producers, Stage(p) PROVE OwnInv'
  <2>1. Active(p[1]) /\ Current(p) \in FilesOf(p[1])
    BY <1>0, <1>18, CurrentIn, Facts DEF Stage, Control, MainControl
  <2>2. \A r \in Runs : Active(r) => Current(p) \in FilesOf(r)
    BY <1>00, <2>1, Facts
  <2> QED BY <1>0, <1>18, <2>2 DEF Stage
<1>19. ASSUME NEW p \in Producers, StageFailed(p) PROVE OwnInv'
  BY <1>0, <1>19 DEF StageFailed
<1>20. ASSUME NEW p \in Producers, LockQueue(p) PROVE OwnInv'
  BY <1>0, <1>20 DEF LockQueue
<1>21. ASSUME NEW p \in Producers, Put(p) PROVE OwnInv'
  BY <1>0, <1>21 DEF Put
<1>22. ASSUME NEW p \in Producers, ProducerEnds(p) PROVE OwnInv'
  BY <1>0, <1>22 DEF ProducerEnds
<1>23. ASSUME NEW p \in Producers, ProducerRaises(p) PROVE OwnInv'
  BY <1>0, <1>23 DEF ProducerRaises
<1>24. ASSUME NEW p \in Producers, SignalError(p) PROVE OwnInv'
  BY <1>0, <1>24 DEF SignalError
<1>25. CASE UNCHANGED vars
  BY <1>0, <1>25
<1> QED BY <1>1, <1>2, <1>3, <1>4, <1>5, <1>6, <1>7, <1>8, <1>9, <1>10, <1>11, <1>12,
    <1>13, <1>14, <1>15, <1>16, <1>17, <1>18, <1>19, <1>20, <1>21, <1>22, <1>23, <1>24,
        <1>25 DEF Next, MainStep, ConsumerStep, ProducerStep

\* On one drive a buffer is cleared only when its records were inserted.
ClearIsSafe == OneDrive => \A r \in Runs : cons[r] = "clear" => buffer \subseteq catalog

RecordInv == NoRecordLost /\ ClearIsSafe

\* Every step keeps the records.
LEMMA RecordStep == Inv /\ RecordInv /\ [Next]_vars => RecordInv'
<1> SUFFICES ASSUME Inv, RecordInv, [Next]_vars, OneDrive PROVE RecordInv'
  BY DEF RecordInv, NoRecordLost, ClearIsSafe, OneDrive
<1> USE DEF vars, runVars, prodVars, consVars, errors, store, RecordInv, NoRecordLost,
    OnTape, ClearIsSafe, ConsumerGoto, Goto
<1>0. TypeOK /\ Control /\ RecordInv
  BY DEF Inv
<1>00. \A r, s \in Runs : cons[r] \notin {"off", "done"} /\ cons[s] \notin {"off",
    "done"} => r = s
  BY <1>0 DEF Control, OneByOne, MainControl
<1>1. ASSUME NEW r \in Runs, Begin(r) PROVE RecordInv'
  BY <1>0, <1>00, <1>1 DEF Begin, TypeOK
<1>2. ASSUME NEW r \in Runs, JoinProducers(r) PROVE RecordInv'
  BY <1>0, <1>2 DEF JoinProducers
<1>3. ASSUME NEW r \in Runs, SignalConsumer(r) PROVE RecordInv'
  BY <1>0, <1>3 DEF SignalConsumer
<1>4. ASSUME NEW r \in Runs, EndRun(r) PROVE RecordInv'
  BY <1>0, <1>4 DEF EndRun
<1>5. ASSUME NEW r \in Runs, Prefetched(r) PROVE RecordInv'
  BY <1>0, <1>00, <1>5 DEF Prefetched, TypeOK
<1>6. ASSUME NEW r \in Runs, Mount(r) PROVE RecordInv'
  BY <1>0, <1>00, <1>6 DEF Mount, TypeOK
<1>7. ASSUME NEW r \in Runs, MountFailed(r) PROVE RecordInv'
  BY <1>0, <1>00, <1>7 DEF MountFailed, TypeOK
<1>8. ASSUME NEW r \in Runs, Get(r) PROVE RecordInv'
  BY <1>0, <1>00, <1>8 DEF Get, TypeOK
<1>9. ASSUME NEW r \in Runs, Write(r) PROVE RecordInv'
  <2>1. /\ tape' = [tape EXCEPT ![r][hand[r]] = @ + 1] /\ buffer' = buffer \cup {hand[r]}
        /\ UNCHANGED <<hand, catalog>> /\ hand[r] \in Files
        /\ \E to : to # "clear" /\ cons' = [cons EXCEPT ![r] = to]
    BY <1>0, <1>9 DEF Write, Control, HandMatches
  <2>2. \A s \in Runs : OnTape(s)' \subseteq OnTape(s) \cup {hand[r]}
    BY <1>0, <2>1 DEF TypeOK
  <2>3. NoRecordLost'
    <3> HIDE DEF OnTape
    <3> QED BY <1>0, <2>1, <2>2
  <2>4. ClearIsSafe'
    <3>1. \A s \in Runs : cons'[s] # "clear"
      BY <1>0, <1>00, <1>9, <2>1, TypesOfControl DEF Write, ControlTypes
    <3> QED BY <3>1
  <2> QED BY <2>3, <2>4
<1>10. ASSUME NEW r \in Runs, WriteFailed(r) PROVE RecordInv'
  BY <1>0, <1>00, <1>10 DEF WriteFailed, TypeOK
<1>11. ASSUME NEW r \in Runs, Unlink(r) PROVE RecordInv'
  BY <1>0, <1>00, <1>11 DEF Unlink, TypeOK
<1>12. ASSUME NEW r \in Runs, Account(r) PROVE RecordInv'
  BY <1>0, <1>00, <1>12 DEF Account, TypeOK
<1>13. ASSUME NEW r \in Runs, Insert(r) PROVE RecordInv'
  BY <1>0, <1>00, <1>13 DEF Insert, TypeOK
<1>14. ASSUME NEW r \in Runs, InsertFailed(r) PROVE RecordInv'
  BY <1>0, <1>00, <1>14 DEF InsertFailed, TypeOK, AfterFlush
<1>15. ASSUME NEW r \in Runs, Clear(r) PROVE RecordInv'
  BY <1>0, <1>00, <1>15 DEF Clear, TypeOK, AfterFlush
<1>16. ASSUME NEW r \in Runs, Close(r) PROVE RecordInv'
  BY <1>0, <1>00, <1>16 DEF Close, TypeOK
<1>17. ASSUME NEW p \in Producers, CheckQueue(p) PROVE RecordInv'
  BY <1>0, <1>17 DEF CheckQueue
<1>18. ASSUME NEW p \in Producers, Stage(p) PROVE RecordInv'
  BY <1>0, <1>18 DEF Stage
<1>19. ASSUME NEW p \in Producers, StageFailed(p) PROVE RecordInv'
  BY <1>0, <1>19 DEF StageFailed
<1>20. ASSUME NEW p \in Producers, LockQueue(p) PROVE RecordInv'
  BY <1>0, <1>20 DEF LockQueue
<1>21. ASSUME NEW p \in Producers, Put(p) PROVE RecordInv'
  BY <1>0, <1>21 DEF Put
<1>22. ASSUME NEW p \in Producers, ProducerEnds(p) PROVE RecordInv'
  BY <1>0, <1>22 DEF ProducerEnds
<1>23. ASSUME NEW p \in Producers, ProducerRaises(p) PROVE RecordInv'
  BY <1>0, <1>23 DEF ProducerRaises
<1>24. ASSUME NEW p \in Producers, SignalError(p) PROVE RecordInv'
  BY <1>0, <1>24 DEF SignalError
<1>25. CASE UNCHANGED vars
  BY <1>0, <1>25
<1> QED BY <1>1, <1>2, <1>3, <1>4, <1>5, <1>6, <1>7, <1>8, <1>9, <1>10, <1>11, <1>12,
    <1>13, <1>14, <1>15, <1>16, <1>17, <1>18, <1>19, <1>20, <1>21, <1>22, <1>23, <1>24,
        <1>25 DEF Next, MainStep, ConsumerStep, ProducerStep

AllInv == Inv /\ OwnInv /\ RecordInv

\* The parts together are inductive.
LEMMA AllStep == AllInv /\ [Next]_vars => AllInv'
BY TypeStep, ControlStep, CountingStep, OwnStep, RecordStep DEF AllInv, Inv

\* The invariant holds always.
LEMMA AlwaysInv == Spec => []AllInv
<1>1. Init => AllInv
  <2> SUFFICES ASSUME Init PROVE OwnInv /\ RecordInv
    BY InitInv DEF AllInv
  <2> QED BY DEF Init, OwnInv, OwnFilesOnly, OnTape, StagedIsOwn, RecordInv, NoRecordLost,
      ClearIsSafe, Active
<1> QED BY <1>1, AllStep, PTL DEF Spec

\* The variables keep their types and the queue its bound, for any runs, files,
\* threads, limits and faults.
THEOREM TypeCorrect == Spec => []TypeOK
<1>1. AllInv => TypeOK
  BY DEF AllInv, Inv
<1> QED BY <1>1, AlwaysInv, PTL

\* queue_size_bytes is what is queued or in a consumer's hands, with any number of
\* runs at once, though the counter is raised by producers and lowered by consumers
\* (_producer_thread, _consumer_thread).
THEOREM SizeStaysExact == Spec => []SizeCounterExact
<1>1. AllInv => SizeCounterExact
  BY DEF AllInv, Inv, Counting
<1> QED BY <1>1, AlwaysInv, PTL

\* With one drive a tape gets its own job's files only, also after runs that failed
\* and left items in the queue (_cleanup_staging).
THEOREM TapesGetOwnFiles == Spec => []OwnFilesOnly
<1>1. AllInv => OwnFilesOnly
  BY DEF AllInv, OwnInv
<1> QED BY <1>1, AlwaysInv, PTL

\* With one drive no record of a written file is lost between buffer and catalog
\* (_flush_db_buffer).
THEOREM RecordsKept == Spec => []NoRecordLost
<1>1. AllInv => NoRecordLost
  BY DEF AllInv, RecordInv
<1> QED BY <1>1, AlwaysInv, PTL

-----------------------------------------------------------------------------
(* A stall is for good                                                     *)

\* On one drive no step of any thread ends a stall at a full queue.
LEMMA StalledFullStep ==
  ASSUME OneDrive, NEW r \in Runs, Inv, StalledFull(r), [Next]_vars
  PROVE  StalledFull(r)'
<1> USE Facts, PipelineAssumption DEF StalledFull, TakesNoMore, WaitsForRoom, Goto, ConsumerGoto,
    vars, runVars, prodVars, consVars, errors, store
<1>0. ControlTypes /\ StalledFull(r) /\ Len(queue) > 0
  BY TypesOfControl DEF Inv, ControlTypes
<1>b. \A f : QueueFull(f)
  BY <1>0 DEF QueueFull
<1>a. /\ \A s \in Runs : s # r => ~Active(s) /\ cons[s] \in {"off", "done"}
      /\ \A p \in Producers : prod[p] = "put" => owner = p
      /\ Active(r)
  BY <1>0 DEF Inv, ControlTypes, Control, MainControl, LockMeansPutting, OneByOne, Active
<1> USE DEF ControlTypes, Active, OneDrive
<1>1. ASSUME NEW s \in Runs, Begin(s) PROVE StalledFull(r)'
  BY <1>0, <1>a, <1>1 DEF Begin
<1>2. ASSUME NEW s \in Runs, JoinProducers(s) PROVE StalledFull(r)'
  BY <1>0, <1>a, <1>2 DEF JoinProducers
<1>3. ASSUME NEW s \in Runs, SignalConsumer(s) PROVE StalledFull(r)'
  BY <1>0, <1>a, <1>3 DEF SignalConsumer
<1>4. ASSUME NEW s \in Runs, EndRun(s) PROVE StalledFull(r)'
  BY <1>0, <1>a, <1>4 DEF EndRun
<1>5. ASSUME NEW s \in Runs, Prefetched(s) PROVE StalledFull(r)'
  BY <1>0, <1>a, <1>5 DEF Prefetched
<1>6. ASSUME NEW s \in Runs, Mount(s) PROVE StalledFull(r)'
  BY <1>0, <1>a, <1>6 DEF Mount
<1>7. ASSUME NEW s \in Runs, MountFailed(s) PROVE StalledFull(r)'
  BY <1>0, <1>a, <1>7 DEF MountFailed
<1>8. ASSUME NEW s \in Runs, Get(s) PROVE StalledFull(r)'
  BY <1>0, <1>a, <1>8 DEF Get
<1>9. ASSUME NEW s \in Runs, Write(s) PROVE StalledFull(r)'
  BY <1>0, <1>a, <1>9 DEF Write
<1>10. ASSUME NEW s \in Runs, WriteFailed(s) PROVE StalledFull(r)'
  BY <1>0, <1>a, <1>10 DEF WriteFailed
<1>11. ASSUME NEW s \in Runs, Unlink(s) PROVE StalledFull(r)'
  BY <1>0, <1>a, <1>11 DEF Unlink
<1>12. ASSUME NEW s \in Runs, Account(s) PROVE StalledFull(r)'
  BY <1>0, <1>a, <1>12 DEF Account
<1>13. ASSUME NEW s \in Runs, Insert(s) PROVE StalledFull(r)'
  BY <1>0, <1>a, <1>13 DEF Insert
<1>14. ASSUME NEW s \in Runs, InsertFailed(s) PROVE StalledFull(r)'
  BY <1>0, <1>a, <1>14 DEF InsertFailed, AfterFlush
<1>15. ASSUME NEW s \in Runs, Clear(s) PROVE StalledFull(r)'
  BY <1>0, <1>a, <1>15 DEF Clear, AfterFlush
<1>16. ASSUME NEW s \in Runs, Close(s) PROVE StalledFull(r)'
  BY <1>0, <1>a, <1>16 DEF Close
<1>17. ASSUME NEW p \in Producers, CheckQueue(p) PROVE StalledFull(r)'
  BY <1>b, <1>17 DEF CheckQueue
<1>18. ASSUME NEW p \in Producers, Stage(p) PROVE StalledFull(r)'
  BY <1>0, <1>a, <1>18 DEF Stage
<1>19. ASSUME NEW p \in Producers, StageFailed(p) PROVE StalledFull(r)'
  BY <1>0, <1>a, <1>19 DEF StageFailed, Drop
<1>20. ASSUME NEW p \in Producers, LockQueue(p) PROVE StalledFull(r)'
  BY <1>0, <1>a, <1>20 DEF LockQueue
<1>21. ASSUME NEW p \in Producers, Put(p) PROVE StalledFull(r)'
  BY <1>0, <1>a, <1>21 DEF Put
<1>22. ASSUME NEW p \in Producers, ProducerEnds(p) PROVE StalledFull(r)'
  BY <1>0, <1>a, <1>22 DEF ProducerEnds
<1>23. ASSUME NEW p \in Producers, ProducerRaises(p) PROVE StalledFull(r)'
  BY <1>0, <1>a, <1>23 DEF ProducerRaises
<1>24. ASSUME NEW p \in Producers, SignalError(p) PROVE StalledFull(r)'
  BY <1>0, <1>a, <1>24 DEF SignalError
<1>25. CASE UNCHANGED vars
  BY <1>0, <1>25
<1> QED BY <1>1, <1>2, <1>3, <1>4, <1>5, <1>6, <1>7, <1>8, <1>9, <1>10, <1>11,
    <1>12, <1>13, <1>14, <1>15, <1>16, <1>17, <1>18, <1>19, <1>20, <1>21, <1>22,
    <1>23, <1>24, <1>25 DEF Next, MainStep, ConsumerStep, ProducerStep

\* Nor one in the prefetch: the threads of the run that can move leave the queue and
\* its counter alone.
LEMMA StalledFetchingStep ==
  ASSUME OneDrive, NEW r \in Runs, Inv, StalledFetching(r), [Next]_vars
  PROVE  StalledFetching(r)'
<1> USE Facts, PipelineAssumption DEF StalledFetching, FindsFull, Goto, ConsumerGoto,
    vars, runVars, prodVars, consVars, errors, store
<1>0. ControlTypes /\ StalledFetching(r)
  BY TypesOfControl DEF Inv
<1>a. /\ \A s \in Runs : s # r => ~Active(s) /\ cons[s] \in {"off", "done"}
      /\ \A p \in Producers : prod[p] = "put" => owner = p
      /\ \A p \in Producers : p[1] # r => prod[p] \in {"off", "done"}
      /\ Active(r)
  BY <1>0 DEF Inv, ControlTypes, Control, MainControl, LockMeansPutting, OneByOne, Active
<1> DEFINE
  Held == Len(queue) >= MaxQueue /\ \E p \in Producers : p[1] = r /\ prod[p] = "put"
  AllWait == /\ \E p \in Producers : p[1] = r /\ FindsFull(p)
             /\ \A p \in Producers : p[1] = r => prod[p] = "done" \/ FindsFull(p)
<1>b. /\ cons[r] = "prefetch" /\ bytes < Threshold /\ ~producerError /\ ~producersDone
      /\ main[r] = "producing" /\ queue # <<>>
      /\ Held \/ AllWait
  BY <1>0
\* Producers may stage, wait for the lock and give files up while one holds it.
<1>c. ASSUME UNCHANGED <<main, cons, queue, bytes, producerError, producersDone>>,
             \A p \in Producers : prod[p] = "put" => prod'[p] = "put",
             AllWait => UNCHANGED <<prod, todo>>
      PROVE  StalledFetching(r)'
  <2>1. CASE Held
    BY <1>b, <1>c, <2>1
  <2>2. CASE AllWait
    <3>1. UNCHANGED <<prod, todo, main, cons, queue, bytes, producerError, producersDone>>
      BY <1>c, <2>2
    <3>2. \A p \in Producers : FindsFull(p)' <=> FindsFull(p)
      BY <3>1 DEF FindsFull, QueueFull, Current
    <3> HIDE DEF FindsFull
    <3> QED BY <1>b, <2>2, <3>1, <3>2
  <2> QED BY <1>b, <2>1, <2>2
<1>d. \A p \in Producers : owner = Nobody => prod[p] # "put"
  BY <1>a
<1>e. Held => owner # Nobody
  BY <1>d
<1> HIDE DEF Held, AllWait
<1>1. ASSUME NEW s \in Runs, MainStep(s) PROVE StalledFetching(r)'
  <2>1. ~\A p \in Producers : p[1] = r => prod[p] = "done"
    BY <1>b DEF Held, AllWait
  <2>2. s = r \/ ~Active(s)
    BY <1>a
  <2> QED BY <1>1, <1>a, <1>b, <2>1, <2>2
        DEF MainStep, Begin, JoinProducers, SignalConsumer, EndRun, Active, OneDrive
<1>2. ASSUME NEW s \in Runs, ConsumerStep(s) PROVE StalledFetching(r)'
  <2>1. cons[s] \in {"off", "done", "prefetch"} /\ (cons[s] = "prefetch" => s = r)
    BY <1>a, <1>b
  <2>2. ~(bytes >= Threshold)
    BY <1>0, <1>b DEF ControlTypes
  <2> QED BY <1>2, <1>b, <2>1, <2>2
        DEF ConsumerStep, Prefetched, Mount, MountFailed, Get, Write, WriteFailed, Unlink,
            Account, Insert, InsertFailed, Clear, Close
<1>3. ASSUME NEW p \in Producers, ProducerStep(p) PROVE StalledFetching(r)'
  <2>1. p[1] = r
    BY <1>3, <1>a DEF ProducerStep, CheckQueue, Stage, StageFailed, LockQueue, Put,
        ProducerEnds, ProducerRaises, SignalError
  <2>2. CASE AllWait
    <3>1. prod[p] = "done" \/ FindsFull(p)
      BY <2>1, <2>2 DEF AllWait
    <3> QED BY <1>3, <1>b, <3>1 DEF ProducerStep, CheckQueue, Stage, StageFailed,
        LockQueue, Put, ProducerEnds, ProducerRaises, SignalError
  <2>3. CASE ~AllWait
    <3>1. Held /\ owner # Nobody
      BY <1>b, <1>e, <2>3
    <3>2. ~(Len(queue) < MaxQueue) /\ queue # <<>>
      BY <1>0, <1>b, <3>1 DEF Held, ControlTypes
    <3>3. prod[p] # "put" /\ UNCHANGED <<main, cons, queue, bytes, producersDone, producerError>>
          /\ \E to : prod' = [prod EXCEPT ![p] = to]
      BY <1>3, <3>1, <3>2 DEF ProducerStep, CheckQueue, Stage, StageFailed, LockQueue, Put,
        ProducerEnds, ProducerRaises, SignalError
    <3>4. \A q \in Producers : prod[q] = "put" => prod'[q] = "put"
      BY <1>0, <3>3 DEF ControlTypes
    <3> QED BY <1>c, <2>3, <3>3, <3>4
  <2> QED BY <2>2, <2>3
<1>4. CASE UNCHANGED vars
  BY <1>4, <1>c
<1> QED BY <1>1, <1>2, <1>3, <1>4 DEF Next

\* No step ends a stall.
LEMMA StalledStep ==
  ASSUME OneDrive, NEW r \in Runs, Inv, Stalled(r), [Next]_vars
  PROVE  Stalled(r)'
BY StalledFullStep, StalledFetchingStep DEF Stalled

\* On one drive a run that stalls never ends: its queue is full and its consumer has
\* failed or waits for the lock that a producer holds in queue.put, or the consumer
\* waits for more bytes than the queue takes (_producer_thread, _consumer_thread; the
\* comment in _is_queue_full, src/backend/streaming_pipeline.py:421, expects that space
\* might free up). These are the exceptions of EveryRunEnds.
THEOREM StallsLast ==
  ASSUME OneDrive, NEW r \in Runs
  PROVE  Spec => [](Stalled(r) => [](Stalled(r) /\ Active(r)))
<1>1. Inv /\ Stalled(r) /\ [Next]_vars => Stalled(r)'
  BY StalledStep
<1>2. Inv /\ Stalled(r) => Active(r)
  BY DEF Stalled, StalledFull, StalledFetching, Active
<1>3. AllInv => Inv
  BY DEF AllInv
<1> QED BY <1>1, <1>2, <1>3, AlwaysInv, PTL DEF Spec

-----------------------------------------------------------------------------
(* The contract: on a healthy drive the pipeline implements StreamContract. *)

\* One drive, whose tapes load, mount and unload, and room on the staging disk.
Healthy == OneDrive /\ FullDisk = {} /\ BadDrive = {}

\* The consumer has its sentinel.
Past(r) ==
  \/ cons[r] \in {"close", "done"}
  \/ cons[r] \in {"insert", "clear"} /\ hand[r] = Sentinel

\* Producers end with nothing left.
NobodyRaised ==
  \A p \in Producers : prod[p] # "raised" /\ (prod[p] = "done" => todo[p] = {})
ProducersDone == \A r \in Runs : main[r] \in {"signalling", "joining"} =>
                   \A p \in Producers : p[1] = r => prod[p] = "done"

\* The sentinel is the last item of its run, and nothing of a run outlives it.
SentinelLast ==
  \A i \in 1 .. Len(queue) : queue[i] = Sentinel =>
    i = Len(queue) /\ \E r \in Runs : main[r] = "joining"
OfActiveRuns == \A f \in Files : InQueue(f) \/ InSomeHand(f) => Active(f[1])
NothingAfter ==
  /\ \A r \in Runs : Past(r) => main[r] \in {"joining", "ended"}
  /\ \A r \in Runs : Past(r) /\ main[r] = "joining" => queue = <<>>
  /\ (\A r \in Runs : ~Active(r)) => queue = <<>>

QueueInv == NobodyRaised /\ ProducersDone /\ SentinelLast /\ OfActiveRuns /\ NothingAfter

\* Every step keeps the order of the queue.
LEMMA QueueStep == Healthy /\ Inv /\ QueueInv /\ [Next]_vars => QueueInv'
<1> SUFFICES ASSUME Healthy, Inv, QueueInv, [Next]_vars PROVE QueueInv'
  OBVIOUS
<1> USE Facts DEF vars, runVars, prodVars, consVars, errors, store, QueueInv, NobodyRaised,
    ProducersDone, SentinelLast, OfActiveRuns, NothingAfter, Past, Active, ConsumerGoto,
        Goto, InQueue, InSomeHand
<1>0. TypeOK /\ ControlTypes /\ Control /\ QueueInv /\ Healthy
  BY TypesOfControl DEF Inv
<1>00. \A r, s \in Runs : Active(r) /\ Active(s) => r = s
  BY <1>0 DEF Control, OneByOne, Healthy
<1>1. ASSUME NEW r \in Runs, Begin(r) PROVE QueueInv'
  BY <1>0, <1>00, <1>1 DEF Begin, ControlTypes, Control, MainControl, HandMatches, Healthy
<1>2. ASSUME NEW r \in Runs, JoinProducers(r) PROVE QueueInv'
  BY <1>0, <1>00, <1>2 DEF JoinProducers, ControlTypes, Control, MainControl, HandMatches, Healthy
<1>3. ASSUME NEW r \in Runs, SignalConsumer(r) PROVE QueueInv'
  BY <1>0, <1>00, <1>3 DEF SignalConsumer, ControlTypes, Control, MainControl, HandMatches,
      Healthy
<1>4. ASSUME NEW r \in Runs, EndRun(r) PROVE QueueInv'
  BY <1>0, <1>00, <1>4 DEF EndRun, ControlTypes, Control, MainControl, HandMatches, Healthy
<1>5. ASSUME NEW r \in Runs, Prefetched(r) PROVE QueueInv'
  BY <1>0, <1>00, <1>5 DEF Prefetched, ControlTypes, Control, MainControl, HandMatches, Healthy
<1>6. ASSUME NEW r \in Runs, Mount(r) PROVE QueueInv'
  BY <1>0, <1>00, <1>6 DEF Mount, ControlTypes, Control, MainControl, HandMatches, Healthy
<1>7. ASSUME NEW r \in Runs, MountFailed(r) PROVE QueueInv'
  BY <1>0, <1>00, <1>7 DEF MountFailed, ControlTypes, Control, MainControl, HandMatches, Healthy
<1>8. ASSUME NEW r \in Runs, Get(r) PROVE QueueInv'
  BY <1>0, <1>00, <1>8 DEF Get, ControlTypes, Control, MainControl, HandMatches, Healthy
<1>9. ASSUME NEW r \in Runs, Write(r) PROVE QueueInv'
  BY <1>0, <1>00, <1>9 DEF Write, ControlTypes, Control, MainControl, HandMatches, Healthy
<1>10. ASSUME NEW r \in Runs, WriteFailed(r) PROVE QueueInv'
  BY <1>0, <1>00, <1>10 DEF WriteFailed, ControlTypes, Control, MainControl, HandMatches, Healthy
<1>11. ASSUME NEW r \in Runs, Unlink(r) PROVE QueueInv'
  BY <1>0, <1>00, <1>11 DEF Unlink, ControlTypes, Control, MainControl, HandMatches, Healthy
<1>12. ASSUME NEW r \in Runs, Account(r) PROVE QueueInv'
  BY <1>0, <1>00, <1>12 DEF Account, ControlTypes, Control, MainControl, HandMatches, Healthy
<1>13. ASSUME NEW r \in Runs, Insert(r) PROVE QueueInv'
  BY <1>0, <1>00, <1>13 DEF Insert, ControlTypes, Control, MainControl, HandMatches, Healthy
<1>14. ASSUME NEW r \in Runs, InsertFailed(r) PROVE QueueInv'
  BY <1>0, <1>00, <1>14 DEF InsertFailed, AfterFlush, ControlTypes, Control, MainControl,
      HandMatches, Healthy
<1>15. ASSUME NEW r \in Runs, Clear(r) PROVE QueueInv'
  BY <1>0, <1>00, <1>15 DEF Clear, AfterFlush, ControlTypes, Control, MainControl, HandMatches,
      Healthy
<1>16. ASSUME NEW r \in Runs, Close(r) PROVE QueueInv'
  BY <1>0, <1>00, <1>16 DEF Close, ControlTypes, Control, MainControl, HandMatches, Healthy
<1>17. ASSUME NEW p \in Producers, CheckQueue(p) PROVE QueueInv'
  BY <1>0, <1>00, <1>17 DEF CheckQueue, ControlTypes, Control, MainControl, HandMatches, Healthy
<1>18. ASSUME NEW p \in Producers, Stage(p) PROVE QueueInv'
  BY <1>0, <1>00, <1>18 DEF Stage, ControlTypes, Control, MainControl, HandMatches, Healthy
<1>19. ASSUME NEW p \in Producers, StageFailed(p) PROVE QueueInv'
  BY <1>0, <1>00, <1>19 DEF StageFailed, Drop, ControlTypes, Control, MainControl, HandMatches,
      Healthy
<1>20. ASSUME NEW p \in Producers, LockQueue(p) PROVE QueueInv'
  BY <1>0, <1>00, <1>20 DEF LockQueue, ControlTypes, Control, MainControl, HandMatches, Healthy
<1>21. ASSUME NEW p \in Producers, Put(p) PROVE QueueInv'
  <2> DEFINE c == Current(p)
  <2>1. UNCHANGED <<hand, main, cons>> /\ queue' = Append(queue, c) /\ prod[p] = "put"
        /\ todo' = [todo EXCEPT ![p] = @ \ {c}] /\ prod' = [prod EXCEPT ![p] = "check"]
    BY <1>21 DEF Put, Drop
  <2>2. c \in Files /\ c[1] = p[1] /\ p[1] \in Runs /\ main[p[1]] = "producing"
    BY <1>0, <1>21, CurrentIn, FileParts DEF Put, Control, MainControl, Inv, Counting
  <2> HIDE DEF c
  <2>3. \A f : InQueue(f)' <=> InQueue(f) \/ f = c
    BY <1>0, <2>1, <2>2, Appended
  <2>4. \A i \in 1 .. Len(queue) : queue[i] # Sentinel
    BY <1>0, <1>00, <2>2
  <2>5. SentinelLast'
    BY <1>0, <2>1, <2>2, <2>4 DEF ControlTypes
  <2>6. OfActiveRuns'
    <3> HIDE DEF InQueue
    <3> QED BY <1>0, <2>1, <2>2, <2>3
  <2>7. NothingAfter'
    BY <1>0, <1>00, <2>1, <2>2
  <2>8. NobodyRaised' /\ ProducersDone'
    BY <1>0, <2>1, <2>2 DEF ControlTypes
  <2> QED BY <2>5, <2>6, <2>7, <2>8
<1>22. ASSUME NEW p \in Producers, ProducerEnds(p) PROVE QueueInv'
  BY <1>0, <1>00, <1>22 DEF ProducerEnds, ControlTypes, Control, MainControl, HandMatches, Healthy
<1>23. ASSUME NEW p \in Producers, ProducerRaises(p) PROVE QueueInv'
  BY <1>0, <1>00, <1>23 DEF ProducerRaises, ControlTypes, Control, MainControl, HandMatches,
      Healthy
<1>24. ASSUME NEW p \in Producers, SignalError(p) PROVE QueueInv'
  BY <1>0, <1>00, <1>24 DEF SignalError, ControlTypes, Control, MainControl, HandMatches, Healthy
<1>25. CASE UNCHANGED vars
  BY <1>0, <1>00, <1>25
<1> QED BY <1>1, <1>2, <1>3, <1>4, <1>5, <1>6, <1>7, <1>8, <1>9, <1>10, <1>11, <1>12,
    <1>13, <1>14, <1>15, <1>16, <1>17, <1>18, <1>19, <1>20, <1>21, <1>22, <1>23, <1>24,
        <1>25 DEF Next, MainStep, ConsumerStep, ProducerStep

\* The consumer is about to write the file.
ToWrite(f) == \E s \in Runs : hand[s] = f /\ cons[s] = "write"

\* A producer has not finished with the file.
ToStage(f) == \E p \in Producers : f \in todo[p]

\* A file that can be read and written is with a producer, in the queue, in the hands
\* of the consumer, or on the tape.
Kept ==
  \A r \in Runs : main[r] # "idle" => \A f \in FilesOf(r) \ Faulty :
    tape[r][f] = 1 \/ InQueue(f) \/ ToWrite(f) \/ ToStage(f)

\* A queued file stays staged until it is written.
StagedStays ==
  /\ \A f \in Files : InQueue(f) \/ ToWrite(f) => f \in disk
  /\ \A p \in Producers : prod[p] \in {"staged", "put"} => Current(p) \in disk

\* A file on the tape is there once and nowhere else any more.
WrittenOnce ==
  \A r \in Runs : \A f \in Files : tape[r][f] # 0 =>
    /\ tape[r][f] = 1 /\ f \in FilesOf(r) /\ main[r] # "idle"
    /\ ~InQueue(f) /\ ~ToWrite(f) /\ ~ToStage(f)

FileInv == Kept /\ StagedStays /\ WrittenOnce

\* Steps that move no file.
LEMMA FileQuiet ==
  ASSUME TypeOK, FileInv, UNCHANGED <<tape, queue, hand, todo, disk>>,
         \A r \in Runs : cons'[r] = "write" <=> cons[r] = "write",
         \A r \in Runs : main'[r] = "idle" <=> main[r] = "idle",
         \A p \in Producers : prod'[p] \in {"staged", "put"} => prod[p] \in {"staged",
             "put"}
  PROVE  FileInv'
<1>1. \A f : (InQueue(f)' <=> InQueue(f)) /\ (ToWrite(f)' <=> ToWrite(f))
    /\ (ToStage(f)' <=> ToStage(f))
  BY DEF InQueue, ToWrite, ToStage
<1>2. \A p \in Producers : Current(p)' = Current(p)
  BY DEF Current
<1>3. Kept'
  BY <1>1 DEF FileInv, Kept
<1>4. StagedStays'
  BY <1>1, <1>2 DEF FileInv, StagedStays
<1>5. WrittenOnce'
  BY <1>1 DEF FileInv, WrittenOnce
<1> QED BY <1>3, <1>4, <1>5 DEF FileInv

\* A sentinel is put.
LEMMA FileSignalled ==
  ASSUME TypeOK, FileInv, UNCHANGED <<tape, hand, todo, disk>>,
         queue' = Append(queue, Sentinel),
         \A r \in Runs : cons'[r] = "write" <=> cons[r] = "write",
         \A r \in Runs : main'[r] = "idle" <=> main[r] = "idle",
         \A p \in Producers : prod'[p] \in {"staged", "put"} => prod[p] \in {"staged",
             "put"}
  PROVE  FileInv'
<1>1. \A f \in Files : (InQueue(f)' <=> InQueue(f)) /\ (ToWrite(f)' <=> ToWrite(f))
    /\ (ToStage(f)' <=> ToStage(f))
  BY Appended, Facts DEF ToWrite, ToStage
<1>2. \A p \in Producers : Current(p)' = Current(p)
  BY DEF Current
<1>3. Kept'
  BY <1>1, FileParts DEF FileInv, Kept
<1>4. StagedStays'
  BY <1>1, <1>2 DEF FileInv, StagedStays
<1>5. WrittenOnce'
  BY <1>1, FileParts DEF FileInv, WrittenOnce
<1> QED BY <1>3, <1>4, <1>5 DEF FileInv

\* Every step keeps the files.
LEMMA FileStep == Healthy /\ Inv /\ QueueInv /\ FileInv /\ [Next]_vars => FileInv'
<1> SUFFICES ASSUME Healthy, Inv, QueueInv, FileInv, [Next]_vars PROVE FileInv'
  OBVIOUS
<1> USE Facts DEF vars, runVars, prodVars, consVars, errors, store
<1>0. TypeOK /\ Control /\ QueueInv /\ Healthy /\ FileInv /\ Counting
  BY DEF Inv
<1>00. \A r, s \in Runs : Active(r) /\ Active(s) => r = s
  BY <1>0 DEF Control, OneByOne, Healthy
<1>1. ASSUME NEW r \in Runs, Begin(r) PROVE FileInv'
  <2>1. UNCHANGED <<tape, queue, hand>> /\ main[r] = "idle"
        /\ main' = [main EXCEPT ![r] = "producing"]
        /\ todo' = [p \in Producers |-> IF p[1] = r THEN Mine(p) ELSE todo[p]]
        /\ prod' = [p \in Producers |-> IF p[1] = r THEN "check" ELSE prod[p]]
        /\ cons' = [cons EXCEPT ![r] = "prefetch"]
    BY <1>1 DEF Begin
  <2>2. \A s \in Runs : ~Active(s)
    BY <1>0, <1>1 DEF Begin, Healthy, OneDrive
  <2>3. queue = <<>> /\ (\A s \in Runs : cons[s] \in {"off", "done"})
        /\ (\A p \in Producers : prod[p] \in {"off", "done"})
    BY <1>0, <2>2 DEF QueueInv, NothingAfter, Control, MainControl, Active
  <2>4. \A f : ~InQueue(f)' /\ ~ToWrite(f)' /\ ~InQueue(f) /\ ~ToWrite(f)
    BY <1>0, <2>1, <2>3, TypesOfControl DEF ControlTypes, InQueue, ToWrite
  <2>5. \A f \in Files : ToStage(f) => f[1] # r
    BY <1>0, <2>1, MineFiles, FileParts DEF Counting, OfBegunRuns, TodoIsMine, ToStage, Idle
  <2>6. \A f \in Files : ToStage(f)' <=> ToStage(f) \/ f \in FilesOf(r)
    <3>1. ASSUME NEW f \in FilesOf(r) PROVE \E p \in Producers : p[1] = r /\ f \in Mine(p)
      <4> DEFINE p == <<r, f[2] % Threads>>
      <4>1. p \in Producers
        BY FileParts, PipelineAssumption DEF Producers
      <4>2. f \in Mine(p) /\ p[1] = r
        BY DEF Mine
      <4> QED BY <4>1, <4>2
    <3>2. \A p \in Producers : p[1] = r => todo[p] = {}
      BY <1>0, <2>1 DEF Counting, OfBegunRuns, Idle
    <3> QED BY <2>1, <3>1, <3>2, MineFiles DEF ToStage
  <2>7. Kept'
    BY <1>0, <2>1, <2>4, <2>6, FileParts DEF TypeOK, FileInv, Kept
  <2>8. StagedStays'
    BY <2>1, <2>3, <2>4 DEF StagedStays
  <2>9. WrittenOnce'
    <3>1. \A s \in Runs : \A f \in Files : tape[s][f] # 0 => f[1] = s /\ ~ToStage(f) /\ s # r
      BY <1>0, <2>1, FileParts DEF FileInv, WrittenOnce
    <3>2. \A s \in Runs : \A f \in Files : tape[s][f] # 0 =>
            ~InQueue(f)' /\ ~ToWrite(f)' /\ ~ToStage(f)'
      BY <2>4, <2>6, <3>1, FileParts
    <3>3. \A s \in Runs : main'[s] = "idle" => main[s] = "idle"
      BY <1>0, <2>1 DEF TypeOK
    <3> QED BY <1>0, <2>1, <3>2, <3>3 DEF FileInv, WrittenOnce
  <2> QED BY <2>7, <2>8, <2>9 DEF FileInv
<1>2. ASSUME NEW r \in Runs, JoinProducers(r) PROVE FileInv'
  BY <1>0, <1>2, FileQuiet DEF JoinProducers, TypeOK, ConsumerGoto
<1>3. ASSUME NEW r \in Runs, SignalConsumer(r) PROVE FileInv'
  BY <1>0, <1>3, FileSignalled DEF SignalConsumer, TypeOK
<1>4. ASSUME NEW r \in Runs, EndRun(r) PROVE FileInv'
  <2>1. UNCHANGED <<tape, queue, hand, todo, prod, cons>> /\ main[r] = "joining"
        /\ main' = [main EXCEPT ![r] = "ended"] /\ cons[r] = "done"
    BY <1>4 DEF EndRun
  <2>2. queue = <<>>
    <3>1. Past(r)
      BY <2>1 DEF Past
    <3> QED BY <1>0, <2>1, <3>1 DEF QueueInv, NothingAfter
  <2>3. \A s \in Runs : cons[s] # "write"
    BY <1>0, <1>00, <2>1 DEF Control, MainControl, Active
  <2>4. \A p \in Producers : prod[p] \notin {"staged", "put"}
    BY <1>0, <1>00, <2>1 DEF Control, MainControl, Active
  <2>5. \A f : (InQueue(f)' <=> InQueue(f)) /\ (ToWrite(f)' <=> ToWrite(f))
      /\ (ToStage(f)' <=> ToStage(f))
    BY <2>1 DEF InQueue, ToWrite, ToStage
  <2>7. Kept'
    BY <1>0, <2>1, <2>5 DEF TypeOK, FileInv, Kept
  <2>8. StagedStays'
    BY <2>1, <2>2, <2>3, <2>4 DEF StagedStays, InQueue, ToWrite
  <2>9. WrittenOnce'
    BY <1>0, <2>1, <2>5 DEF TypeOK, FileInv, WrittenOnce
  <2> QED BY <2>7, <2>8, <2>9 DEF FileInv
<1>5. ASSUME NEW r \in Runs, Prefetched(r) PROVE FileInv'
  BY <1>0, <1>5, FileQuiet DEF Prefetched, TypeOK, ConsumerGoto
<1>6. ASSUME NEW r \in Runs, Mount(r) PROVE FileInv'
  BY <1>0, <1>6, FileQuiet DEF Mount, TypeOK, ConsumerGoto
<1>7. ASSUME NEW r \in Runs, MountFailed(r) PROVE FileInv'
  BY <1>0, <1>7, FileQuiet DEF MountFailed, TypeOK, ConsumerGoto
<1>8. ASSUME NEW r \in Runs, Get(r) PROVE FileInv'
  <2> DEFINE h == Head(queue)
  <2>1. UNCHANGED <<main, todo, prod, tape, disk>> /\ hand' = [hand EXCEPT ![r] = h]
        /\ cons' = [cons EXCEPT ![r] = IF h = Sentinel THEN "insert" ELSE "write"]
        /\ queue' = Tail(queue) /\ queue # <<>> /\ cons[r] = "get"
    BY <1>8 DEF Get, ConsumerGoto
  <2>2. \A f : InQueue(f) <=> f = h \/ InQueue(f)'
    <3> HIDE DEF h
    <3> QED BY <1>0, <2>1, Taken DEF h
  <2>3. \A f \in Files : ToWrite(f)' <=> ToWrite(f) \/ f = h
    BY <1>0, <2>1 DEF TypeOK, ToWrite
  <2>4. \A f : ToStage(f)' <=> ToStage(f)
    BY <2>1 DEF ToStage
  <2>5. \A p \in Producers : Current(p)' = Current(p)
    BY <2>1 DEF Current
  <2> HIDE DEF h
  <2>7. Kept'
    BY <1>0, <2>1, <2>2, <2>3, <2>4, FileParts DEF FileInv, Kept
  <2>8. StagedStays'
    BY <1>0, <2>1, <2>2, <2>3, <2>5 DEF FileInv, StagedStays
  <2>9. WrittenOnce'
    BY <1>0, <2>1, <2>2, <2>3, <2>4, FileParts DEF FileInv, WrittenOnce
  <2> QED BY <2>7, <2>8, <2>9 DEF FileInv
<1>9. ASSUME NEW r \in Runs, Write(r) PROVE FileInv'
  <2> DEFINE h == hand[r]
  <2>1. UNCHANGED <<main, todo, prod, hand, queue, disk>> /\ cons[r] = "write"
      /\ h \in Files
        /\ (\E to : to # "write" /\ cons' = [cons EXCEPT ![r] = to])
        /\ tape' = [tape EXCEPT ![r][h] = @ + 1]
    BY <1>0, <1>9 DEF Write, ConsumerGoto, Control, HandMatches
  <2>2. h \in FilesOf(r) /\ h[1] = r /\ main[r] # "idle"
    <3>1. Active(h[1]) /\ Active(r)
      BY <1>0, <2>1 DEF QueueInv, OfActiveRuns, InSomeHand, Control, MainControl
    <3> QED BY <1>00, <2>1, <3>1 DEF Active
  <2>3. \A f \in Files : ToWrite(f)' <=> ToWrite(f) /\ f # h
    <3>1. \A s \in Runs : hand[s] = h => s = r
      BY <1>0, <2>1 DEF Counting, HeldOnce
    <3>2. \A s \in Runs : cons'[s] = "write" <=> cons[s] = "write" /\ s # r
      BY <1>0, <2>1 DEF TypeOK
    <3> QED BY <2>1, <3>1, <3>2 DEF ToWrite
  <2>4. \A f : (ToStage(f)' <=> ToStage(f)) /\ (InQueue(f)' <=> InQueue(f))
    BY <2>1 DEF ToStage, InQueue
  <2>5. ~InQueue(h) /\ ~ToStage(h)
    BY <1>0, <2>1 DEF Counting, HeldOnce, TodoIsNew, InSomeHand, ToStage
  <2>6. \A p \in Producers : Current(p)' = Current(p)
    BY <2>1 DEF Current
  <2> HIDE DEF h
  <2>11. tape[r][h] = 0
    BY <1>0, <2>1 DEF FileInv, WrittenOnce, ToWrite, h
  <2>10. \A s \in Runs : \A f \in Files :
           tape'[s][f] = IF s = r /\ f = h THEN 1 ELSE tape[s][f]
    BY <1>0, <2>1, <2>11 DEF TypeOK
  <2>7. Kept'
    <3>1. \A s \in Runs : \A f \in FilesOf(s) : f = h => s = r
      BY <2>2, FileParts
    <3> QED BY <1>0, <2>1, <2>3, <2>4, <2>10, <3>1, FileParts DEF FileInv, Kept
  <2>8. StagedStays'
    BY <1>0, <2>1, <2>3, <2>4, <2>6 DEF FileInv, StagedStays
  <2>9. WrittenOnce'
    BY <1>0, <2>1, <2>2, <2>3, <2>4, <2>5, <2>10, FileParts DEF FileInv, WrittenOnce
  <2> QED BY <2>7, <2>8, <2>9 DEF FileInv
<1>10. ASSUME NEW r \in Runs, WriteFailed(r) PROVE FileInv'
  <2> DEFINE h == hand[r]
  <2>1. UNCHANGED <<main, todo, prod, hand, queue, disk, tape>> /\ cons[r] = "write"
      /\ h \in Files
        /\ cons' = [cons EXCEPT ![r] = "unlink"]
    BY <1>0, <1>10 DEF WriteFailed, ConsumerGoto, Control, HandMatches
  <2>2. h \in Faulty
    BY <1>0, <2>1, <1>10 DEF WriteFailed, FileInv, StagedStays, ToWrite
  <2>3. \A f \in Files : ToWrite(f)' <=> ToWrite(f) /\ f # h
    <3>1. \A s \in Runs : hand[s] = h => s = r
      BY <1>0, <2>1 DEF Counting, HeldOnce
    <3>2. \A s \in Runs : cons'[s] = "write" <=> cons[s] = "write" /\ s # r
      BY <1>0, <2>1 DEF TypeOK
    <3> QED BY <2>1, <3>1, <3>2 DEF ToWrite
  <2>4. \A f : (ToStage(f)' <=> ToStage(f)) /\ (InQueue(f)' <=> InQueue(f))
    BY <2>1 DEF ToStage, InQueue
  <2>6. \A p \in Producers : Current(p)' = Current(p)
    BY <2>1 DEF Current
  <2> HIDE DEF h
  <2>7. Kept'
    BY <1>0, <2>1, <2>2, <2>3, <2>4, FileParts DEF FileInv, Kept
  <2>8. StagedStays'
    BY <1>0, <2>1, <2>3, <2>4, <2>6 DEF FileInv, StagedStays
  <2>9. WrittenOnce'
    BY <1>0, <2>1, <2>3, <2>4, FileParts DEF FileInv, WrittenOnce
  <2> QED BY <2>7, <2>8, <2>9 DEF FileInv
<1>11. ASSUME NEW r \in Runs, Unlink(r) PROVE FileInv'
  <2> DEFINE h == hand[r]
  <2>1. UNCHANGED <<main, todo, prod, hand, queue, tape>> /\ cons[r] = "unlink"
      /\ h \in Files
        /\ cons' = [cons EXCEPT ![r] = "account"] /\ disk' = disk \ {h}
    BY <1>0, <1>11 DEF Unlink, ConsumerGoto, Control, HandMatches
  <2>2. ~InQueue(h) /\ ~ToWrite(h) /\ ~ToStage(h)
    BY <1>0, <2>1 DEF Counting, HeldOnce, TodoIsNew, InSomeHand, ToStage, ToWrite
  <2>3. \A f : ToWrite(f)' <=> ToWrite(f)
    BY <1>0, <2>1 DEF TypeOK, ToWrite
  <2>4. \A f : (ToStage(f)' <=> ToStage(f)) /\ (InQueue(f)' <=> InQueue(f))
    BY <2>1 DEF ToStage, InQueue
  <2>5. \A p \in Producers : prod[p] \in {"staged", "put"} => Current(p) \in todo[p]
    BY <1>0, CurrentIn DEF Control, MainControl, Counting
  <2>6. \A p \in Producers : Current(p)' = Current(p)
    BY <2>1 DEF Current
  <2> HIDE DEF h
  <2>7. Kept'
    BY <1>0, <2>1, <2>3, <2>4 DEF FileInv, Kept
  <2>8. StagedStays'
    BY <1>0, <2>1, <2>2, <2>3, <2>4, <2>5, <2>6 DEF FileInv, StagedStays, ToStage
  <2>9. WrittenOnce'
    BY <1>0, <2>1, <2>3, <2>4 DEF FileInv, WrittenOnce
  <2> QED BY <2>7, <2>8, <2>9 DEF FileInv
<1>12. ASSUME NEW r \in Runs, Account(r) PROVE FileInv'
  <2>1. UNCHANGED <<main, todo, prod, queue, tape, disk>> /\ cons[r] = "account"
        /\ hand' = [hand EXCEPT ![r] = Sentinel] /\ cons' = [cons EXCEPT ![r] = "get"]
    BY <1>12 DEF Account, ConsumerGoto
  <2>3. \A f : ToWrite(f)' <=> ToWrite(f)
    BY <1>0, <2>1 DEF TypeOK, ToWrite
  <2>4. \A f : (ToStage(f)' <=> ToStage(f)) /\ (InQueue(f)' <=> InQueue(f))
    BY <2>1 DEF ToStage, InQueue
  <2>6. \A p \in Producers : Current(p)' = Current(p)
    BY <2>1 DEF Current
  <2>7. Kept'
    BY <1>0, <2>1, <2>3, <2>4 DEF FileInv, Kept
  <2>8. StagedStays'
    BY <1>0, <2>1, <2>3, <2>4, <2>6 DEF FileInv, StagedStays
  <2>9. WrittenOnce'
    BY <1>0, <2>1, <2>3, <2>4 DEF FileInv, WrittenOnce
  <2> QED BY <2>7, <2>8, <2>9 DEF FileInv
<1>13. ASSUME NEW r \in Runs, Insert(r) PROVE FileInv'
  BY <1>0, <1>13, FileQuiet DEF Insert, TypeOK, ConsumerGoto
<1>14. ASSUME NEW r \in Runs, InsertFailed(r) PROVE FileInv'
  BY <1>0, <1>14, FileQuiet DEF InsertFailed, TypeOK, ConsumerGoto, AfterFlush
<1>15. ASSUME NEW r \in Runs, Clear(r) PROVE FileInv'
  BY <1>0, <1>15, FileQuiet DEF Clear, TypeOK, ConsumerGoto, AfterFlush
<1>16. ASSUME NEW r \in Runs, Close(r) PROVE FileInv'
  BY <1>0, <1>16, FileQuiet DEF Close, TypeOK, ConsumerGoto
<1>17. ASSUME NEW p \in Producers, CheckQueue(p) PROVE FileInv'
  BY <1>0, <1>17, FileQuiet DEF CheckQueue, TypeOK, Goto
<1>18. ASSUME NEW p \in Producers, Stage(p) PROVE FileInv'
  <2>1. UNCHANGED <<main, cons, hand, todo, queue, tape>>
        /\ prod' = [prod EXCEPT ![p] = "staged"] /\ disk' = disk \cup {Current(p)}
    BY <1>18 DEF Stage, Goto
  <2>4. \A f : (ToStage(f)' <=> ToStage(f)) /\ (InQueue(f)' <=> InQueue(f))
      /\ (ToWrite(f)' <=> ToWrite(f))
    BY <2>1 DEF ToStage, InQueue, ToWrite
  <2>6. \A q \in Producers : Current(q)' = Current(q)
    BY <2>1 DEF Current
  <2>7. Kept'
    BY <1>0, <2>1, <2>4 DEF FileInv, Kept
  <2>8. StagedStays'
    BY <1>0, <2>1, <2>4, <2>6 DEF TypeOK, FileInv, StagedStays
  <2>9. WrittenOnce'
    BY <1>0, <2>1, <2>4 DEF FileInv, WrittenOnce
  <2> QED BY <2>7, <2>8, <2>9 DEF FileInv
<1>19. ASSUME NEW p \in Producers, StageFailed(p) PROVE FileInv'
  <2> DEFINE c == Current(p)
  <2>1. UNCHANGED <<main, cons, hand, queue, tape, disk>> /\ c \in Faulty
        /\ prod' = [prod EXCEPT ![p] = "check"] /\ todo' = [todo EXCEPT ![p] = @ \ {c}]
    BY <1>19 DEF StageFailed, Goto, Drop
  <2>2. c \in todo[p] /\ c \in Files
    BY <1>0, <1>19, CurrentIn DEF StageFailed, Control, MainControl, Counting
  <2>3. \A q \in Producers : q # p => c \notin todo[q]
    BY <1>0, <2>2, MineApart DEF Counting, TodoIsMine
  <2>4. \A f : ToStage(f)' <=> ToStage(f) /\ f # c
    BY <1>0, <2>1, <2>2, <2>3 DEF TypeOK, ToStage
  <2>6. \A q \in Producers : q # p => Current(q)' = Current(q)
    BY <1>0, <2>1 DEF TypeOK, Current
  <2> HIDE DEF c
  <2>5. \A f : (InQueue(f)' <=> InQueue(f)) /\ (ToWrite(f)' <=> ToWrite(f))
    BY <2>1 DEF InQueue, ToWrite
  <2>7. Kept'
    BY <1>0, <2>1, <2>4, <2>5 DEF FileInv, Kept
  <2>8. StagedStays'
    BY <1>0, <2>1, <2>5, <2>6 DEF TypeOK, FileInv, StagedStays
  <2>9. WrittenOnce'
    BY <1>0, <2>1, <2>4, <2>5 DEF FileInv, WrittenOnce
  <2> QED BY <2>7, <2>8, <2>9 DEF FileInv
<1>20. ASSUME NEW p \in Producers, LockQueue(p) PROVE FileInv'
  BY <1>0, <1>20, FileQuiet DEF LockQueue, TypeOK, Goto
<1>21. ASSUME NEW p \in Producers, Put(p) PROVE FileInv'
  <2> DEFINE c == Current(p)
  <2>1. UNCHANGED <<main, cons, hand, tape, disk>> /\ prod[p] = "put"
      /\ queue' = Append(queue, c)
        /\ prod' = [prod EXCEPT ![p] = "check"] /\ todo' = [todo EXCEPT ![p] = @ \ {c}]
    BY <1>21 DEF Put, Goto, Drop
  <2>2. c \in todo[p] /\ c \in Files
    BY <1>0, <1>21, CurrentIn DEF Put, Control, MainControl, Counting
  <2>3. \A q \in Producers : q # p => c \notin todo[q]
    BY <1>0, <2>2, MineApart DEF Counting, TodoIsMine
  <2>4. \A f : ToStage(f)' <=> ToStage(f) /\ f # c
    BY <1>0, <2>1, <2>2, <2>3 DEF TypeOK, ToStage
  <2>6. \A q \in Producers : q # p => Current(q)' = Current(q)
    BY <1>0, <2>1 DEF TypeOK, Current
  <2>11. c \in disk
    BY <1>0, <2>1 DEF FileInv, StagedStays
  <2> HIDE DEF c
  <2>5. \A f : (InQueue(f)' <=> InQueue(f) \/ f = c) /\ (ToWrite(f)' <=> ToWrite(f))
    BY <1>0, <2>1, <2>2, Appended DEF ToWrite
  <2>7. Kept'
    BY <1>0, <2>1, <2>4, <2>5 DEF FileInv, Kept
  <2>8. StagedStays'
    BY <1>0, <2>1, <2>5, <2>6, <2>11 DEF TypeOK, FileInv, StagedStays
  <2>9. WrittenOnce'
    <3>1. ToStage(c)
      BY <2>2 DEF ToStage
    <3> QED BY <1>0, <2>1, <2>4, <2>5, <3>1 DEF FileInv, WrittenOnce
  <2> QED BY <2>7, <2>8, <2>9 DEF FileInv
<1>22. ASSUME NEW p \in Producers, ProducerEnds(p) PROVE FileInv'
  BY <1>0, <1>22, FileQuiet DEF ProducerEnds, TypeOK, Goto
<1>23. ASSUME NEW p \in Producers, ProducerRaises(p) PROVE FileInv'
  BY <1>0, <1>23, FileQuiet DEF ProducerRaises, TypeOK, Goto
<1>24. ASSUME NEW p \in Producers, SignalError(p) PROVE FileInv'
  BY <1>0, <1>24, FileSignalled DEF SignalError, TypeOK, Goto
<1>25. CASE UNCHANGED vars
  BY <1>0, FileQuiet, <1>25
<1> QED BY <1>1, <1>2, <1>3, <1>4, <1>5, <1>6, <1>7, <1>8, <1>9, <1>10, <1>11, <1>12,
    <1>13, <1>14, <1>15, <1>16, <1>17, <1>18, <1>19, <1>20, <1>21, <1>22, <1>23, <1>24,
        <1>25 DEF Next, MainStep, ConsumerStep, ProducerStep

\* A record in the buffer has a consumer that will flush it.
Records ==
  buffer # {} => \E r \in Runs : cons[r] \in {"get", "write", "unlink", "account",
      "insert", "clear"}

\* Every step keeps it, when the database takes the records.
LEMMA RecordsStep ==
  Healthy /\ BadDatabase = {} /\ Inv /\ Records /\ [Next]_vars => Records'
<1> SUFFICES ASSUME Healthy, BadDatabase = {}, Inv, Records, [Next]_vars PROVE Records'
  OBVIOUS
<1> USE Facts DEF vars, runVars, prodVars, consVars, errors, store, Records, ConsumerGoto,
    Goto
<1>0. TypeOK /\ Control /\ Records
  BY DEF Inv
<1>00. \A r, s \in Runs : cons[r] \notin {"off", "done"} /\ cons[s] \notin {"off",
    "done"} => r = s
  BY <1>0 DEF Control, OneByOne, MainControl, Healthy
<1>1. ASSUME NEW r \in Runs, Begin(r) PROVE Records'
  BY <1>0, <1>1 DEF Begin, TypeOK, Control, MainControl, Active
<1>2. ASSUME NEW r \in Runs, JoinProducers(r) PROVE Records'
  BY <1>0, <1>2 DEF JoinProducers, TypeOK
<1>3. ASSUME NEW r \in Runs, SignalConsumer(r) PROVE Records'
  BY <1>0, <1>3 DEF SignalConsumer, TypeOK
<1>4. ASSUME NEW r \in Runs, EndRun(r) PROVE Records'
  BY <1>0, <1>4 DEF EndRun, TypeOK
<1>5. ASSUME NEW r \in Runs, Prefetched(r) PROVE Records'
  BY <1>0, <1>5 DEF Prefetched, TypeOK
<1>6. ASSUME NEW r \in Runs, Mount(r) PROVE Records'
  BY <1>0, <1>6 DEF Mount, TypeOK
<1>7. ASSUME NEW r \in Runs, MountFailed(r) PROVE Records'
  BY <1>0, <1>7 DEF MountFailed, TypeOK
<1>8. ASSUME NEW r \in Runs, Get(r) PROVE Records'
  BY <1>0, <1>8 DEF Get, TypeOK
<1>9. ASSUME NEW r \in Runs, Write(r) PROVE Records'
  BY <1>0, <1>9 DEF Write, TypeOK
<1>10. ASSUME NEW r \in Runs, WriteFailed(r) PROVE Records'
  BY <1>0, <1>10 DEF WriteFailed, TypeOK
<1>11. ASSUME NEW r \in Runs, Unlink(r) PROVE Records'
  BY <1>0, <1>11 DEF Unlink, TypeOK
<1>12. ASSUME NEW r \in Runs, Account(r) PROVE Records'
  BY <1>0, <1>12 DEF Account, TypeOK
<1>13. ASSUME NEW r \in Runs, Insert(r) PROVE Records'
  BY <1>0, <1>13 DEF Insert, TypeOK
<1>14. ASSUME NEW r \in Runs, InsertFailed(r) PROVE Records'
  BY <1>0, <1>14 DEF InsertFailed, AfterFlush, TypeOK
<1>15. ASSUME NEW r \in Runs, Clear(r) PROVE Records'
  BY <1>0, <1>15 DEF Clear, AfterFlush, TypeOK
<1>16. ASSUME NEW r \in Runs, Close(r) PROVE Records'
  BY <1>0, <1>00, <1>16 DEF Close, TypeOK
<1>17. ASSUME NEW p \in Producers, CheckQueue(p) PROVE Records'
  BY <1>0, <1>17 DEF CheckQueue
<1>18. ASSUME NEW p \in Producers, Stage(p) PROVE Records'
  BY <1>0, <1>18 DEF Stage
<1>19. ASSUME NEW p \in Producers, StageFailed(p) PROVE Records'
  BY <1>0, <1>19 DEF StageFailed, Drop
<1>20. ASSUME NEW p \in Producers, LockQueue(p) PROVE Records'
  BY <1>0, <1>20 DEF LockQueue
<1>21. ASSUME NEW p \in Producers, Put(p) PROVE Records'
  BY <1>0, <1>21 DEF Put, Drop
<1>22. ASSUME NEW p \in Producers, ProducerEnds(p) PROVE Records'
  BY <1>0, <1>22 DEF ProducerEnds
<1>23. ASSUME NEW p \in Producers, ProducerRaises(p) PROVE Records'
  BY <1>0, <1>23 DEF ProducerRaises
<1>24. ASSUME NEW p \in Producers, SignalError(p) PROVE Records'
  BY <1>0, <1>24 DEF SignalError
<1>25. CASE UNCHANGED vars
  BY <1>0, <1>25
<1> QED BY <1>1, <1>2, <1>3, <1>4, <1>5, <1>6, <1>7, <1>8, <1>9, <1>10, <1>11, <1>12,
    <1>13, <1>14, <1>15, <1>16, <1>17, <1>18, <1>19, <1>20, <1>21, <1>22, <1>23, <1>24,
        <1>25 DEF Next, MainStep, ConsumerStep, ProducerStep

\* The invariant of a healthy drive.
HealthyInv == AllInv /\ QueueInv /\ FileInv

\* It holds always.
LEMMA HealthyAlways == ASSUME Healthy PROVE Spec => []HealthyInv
<1>1. Init => HealthyInv
  <2> SUFFICES ASSUME Init PROVE HealthyInv
    OBVIOUS
  <2>1. AllInv
    BY InitInv DEF AllInv, Init, OwnInv, OwnFilesOnly, OnTape, StagedIsOwn, RecordInv,
        NoRecordLost, ClearIsSafe, Active
  <2>2. QueueInv
    BY Facts DEF Init, QueueInv, NobodyRaised, ProducersDone, SentinelLast, OfActiveRuns,
        NothingAfter, Past, Active, InQueue, InSomeHand
  <2>3. FileInv
    BY Facts DEF Init, FileInv, Kept, StagedStays, WrittenOnce, InQueue, ToWrite, ToStage
  <2> QED BY <2>1, <2>2, <2>3 DEF HealthyInv
<1>2. HealthyInv /\ [Next]_vars => HealthyInv'
  BY AllStep, QueueStep, FileStep DEF HealthyInv, AllInv
<1> QED BY <1>1, <1>2, PTL DEF Spec

\* When no run is active and the drive, the staging disk and the database are healthy,
\* nothing is left in the pipeline for the next run: no item, no sentinel, no counted
\* byte, no lock, no record (execute_streaming_backup begins without a look at them).
THEOREM CleanAfterRuns ==
  ASSUME Healthy, BadDatabase = {} PROVE Spec => []CleanBetweenRuns
<1>1. Init => Records
  BY DEF Init, Records
<1>2. HealthyInv /\ Records /\ [Next]_vars => Records'
  BY RecordsStep DEF HealthyInv, AllInv
<1>3. HealthyInv /\ Records => CleanBetweenRuns
  <2> SUFFICES ASSUME HealthyInv, Records, \A r \in Runs : ~Active(r)
               PROVE  queue = <<>> /\ bytes = 0 /\ owner = Nobody /\ buffer = {}
    BY DEF CleanBetweenRuns
  <2>0. TypeOK /\ Control /\ Counting /\ QueueInv
    BY DEF HealthyInv, AllInv, Inv
  <2>1. (\A r \in Runs : cons[r] \in {"off", "done"})
      /\ \A p \in Producers : prod[p] \in {"off", "done"}
    BY <2>0, Facts DEF Control, MainControl, Active
  <2>2. queue = <<>> /\ buffer = {}
    BY <2>0, <2>1 DEF QueueInv, NothingAfter, Records
  <2>3. owner = Nobody
    BY <2>0, <2>1 DEF TypeOK, Control, LockMeansPutting
  <2>4. Counted = {}
    BY <2>0, <2>1, <2>2, Facts DEF Counted, Queued, InHand, Control, HandMatches
  <2>5. bytes = 0
    BY <2>0, <2>4, FS_EmptySet DEF Counting, SizeCounterExact, Counted, Units
  <2> QED BY <2>2, <2>3, <2>5
<1> QED BY <1>1, <1>2, <1>3, HealthyAlways, PTL DEF Spec

\* The phase the contract sees.
Phase == [r \in Runs |-> IF Active(r) THEN "active" ELSE main[r]]

\* Contract and pipeline speak of the same files.
LEMMA ContractFiles ==
  (\A r : Contract!FilesOf(r) = FilesOf(r)) /\ Contract!Files = Files
BY DEF Contract!FilesOf, FilesOf, Contract!Files, Files

\* A run that stays active or where it is has the same phase.
LEMMA PhaseSame ==
  ASSUME TypeOK, \A r \in Runs : main'[r] = main[r] \/ (Active(r) /\ Active(r)')
  PROVE  Phase' = Phase
BY DEF Phase, Active

\* A step of the pipeline is a step of the contract or changes nothing it sees.
LEMMA ContractStep ==
  ASSUME Healthy, HealthyInv, [Next]_vars
  PROVE  [Contract!Next]_<<Phase, tape>>
<1> USE DEF vars, runVars, prodVars, consVars, errors, store
<1>0. TypeOK /\ Control /\ QueueInv /\ FileInv /\ Counting
  BY DEF HealthyInv, AllInv, Inv
<1>00. \A r, s \in Runs : Active(r) /\ Active(s) => r = s
  BY <1>0 DEF Control, OneByOne, Healthy
<1> DEFINE Goal == [Contract!Next]_<<Phase, tape>>
<1>1. ASSUME NEW r \in Runs, Begin(r) PROVE Goal
  <2>1. main[r] = "idle" /\ main' = [main EXCEPT ![r] = "producing"] /\ UNCHANGED tape
    BY <1>1 DEF Begin
  <2>2. Phase[r] = "idle" /\ Phase' = [Phase EXCEPT ![r] = "active"]
    BY <1>0, <2>1 DEF TypeOK, Phase, Active
  <2>3. Contract!Begin(r)
    BY <2>1, <2>2 DEF Contract!Begin, Phase
  <2> QED BY <2>3 DEF Contract!Next, Phase
<1>2. ASSUME NEW r \in Runs, JoinProducers(r) PROVE Goal
  <2>1. UNCHANGED tape /\ \A s \in Runs : main'[s] = main[s] \/ (Active(s) /\ Active(s)')
    BY <1>0, <1>2 DEF JoinProducers, Active, TypeOK
  <2> QED BY <1>0, <2>1, PhaseSame
<1>3. ASSUME NEW r \in Runs, SignalConsumer(r) PROVE Goal
  <2>1. UNCHANGED tape /\ \A s \in Runs : main'[s] = main[s] \/ (Active(s) /\ Active(s)')
    BY <1>0, <1>3 DEF SignalConsumer, Active, TypeOK
  <2> QED BY <1>0, <2>1, PhaseSame
<1>4. ASSUME NEW r \in Runs, EndRun(r) PROVE Goal
  <2>1. main[r] = "joining" /\ cons[r] = "done" /\ main' = [main EXCEPT ![r] = "ended"]
        /\ UNCHANGED tape
    BY <1>4 DEF EndRun
  <2>2. Phase[r] = "active" /\ Phase' = [Phase EXCEPT ![r] = "ended"]
    BY <1>0, <2>1 DEF TypeOK, Phase, Active
  <2>3. ASSUME NEW f \in FilesOf(r) PROVE ~InQueue(f) /\ ~ToWrite(f) /\ ~ToStage(f)
    <3>1. queue = <<>>
      <4>1. Past(r)
        BY <2>1 DEF Past
      <4> QED BY <1>0, <2>1, <4>1 DEF QueueInv, NothingAfter
    <3>2. ~ToWrite(f)
      BY <1>0, <1>00, <2>1 DEF ToWrite, Control, MainControl, Active
    <3>3. ~ToStage(f)
      <4>1. SUFFICES ASSUME NEW p \in Producers, f \in todo[p] PROVE FALSE
        BY DEF ToStage
      <4>2. p[1] = r
        BY <1>0, <4>1, MineFiles, FileParts, Facts DEF Counting, TodoIsMine
      <4> QED BY <1>0, <2>1, <4>1, <4>2 DEF QueueInv, ProducersDone, NobodyRaised
    <3> QED BY <3>1, <3>2, <3>3 DEF InQueue
  <2>4. \A f \in FilesOf(r) \ Faulty : tape[r][f] = 1
    BY <1>0, <2>1, <2>3 DEF FileInv, Kept
  <2>5. Contract!End(r)
    BY <2>1, <2>2, <2>4, ContractFiles DEF Contract!End, Phase
  <2> QED BY <2>5 DEF Contract!Next, Phase
<1>5. ASSUME NEW r \in Runs, Prefetched(r) PROVE Goal
  <2>1. UNCHANGED tape /\ \A s \in Runs : main'[s] = main[s] \/ (Active(s) /\ Active(s)')
    BY <1>0, <1>5 DEF Prefetched, Active, TypeOK
  <2> QED BY <1>0, <2>1, PhaseSame
<1>6. ASSUME NEW r \in Runs, Mount(r) PROVE Goal
  <2>1. UNCHANGED tape /\ \A s \in Runs : main'[s] = main[s] \/ (Active(s) /\ Active(s)')
    BY <1>0, <1>6 DEF Mount, Active, TypeOK
  <2> QED BY <1>0, <2>1, PhaseSame
<1>7. ASSUME NEW r \in Runs, MountFailed(r) PROVE Goal
  <2>1. UNCHANGED tape /\ \A s \in Runs : main'[s] = main[s] \/ (Active(s) /\ Active(s)')
    BY <1>0, <1>7 DEF MountFailed, Active, TypeOK
  <2> QED BY <1>0, <2>1, PhaseSame
<1>8. ASSUME NEW r \in Runs, Get(r) PROVE Goal
  <2>1. UNCHANGED tape /\ \A s \in Runs : main'[s] = main[s] \/ (Active(s) /\ Active(s)')
    BY <1>0, <1>8 DEF Get, Active, TypeOK
  <2> QED BY <1>0, <2>1, PhaseSame
<1>9. ASSUME NEW r \in Runs, Write(r) PROVE Goal
  <2>1. UNCHANGED main /\ tape' = [tape EXCEPT ![r][hand[r]] = @ + 1] /\ cons[r] = "write"
        /\ hand[r] \in Files
    BY <1>0, <1>9 DEF Write, Control, HandMatches
  <2>2. Active(r) /\ Active(hand[r][1]) /\ hand[r][1] \in Runs
      /\ hand[r] \in FilesOf(hand[r][1])
    BY <1>0, <2>1, Facts DEF QueueInv, OfActiveRuns, InSomeHand, Control, MainControl
  <2>3. hand[r] \in FilesOf(r)
    BY <1>00, <2>2
  <2>4. tape[r][hand[r]] = 0 /\ tape' = [tape EXCEPT ![r][hand[r]] = 1]
    <3>1. tape[r][hand[r]] = 0
      BY <1>0, <1>9, <2>1 DEF Write, FileInv, WrittenOnce, ToWrite
    <3>2. tape[r][hand[r]] + 1 = 1
      BY <3>1
    <3> QED BY <2>1, <3>1, <3>2
  <2>5. Phase' = Phase /\ Phase[r] = "active"
    BY <2>1, <2>2 DEF Phase, Active
  <2>6. Contract!Write(r)
    BY <2>1, <2>3, <2>4, <2>5, ContractFiles DEF Contract!Write, Phase
  <2> QED BY <2>6 DEF Contract!Next, Phase
<1>10. ASSUME NEW r \in Runs, WriteFailed(r) PROVE Goal
  <2>1. UNCHANGED tape /\ \A s \in Runs : main'[s] = main[s] \/ (Active(s) /\ Active(s)')
    BY <1>0, <1>10 DEF WriteFailed, Active, TypeOK
  <2> QED BY <1>0, <2>1, PhaseSame
<1>11. ASSUME NEW r \in Runs, Unlink(r) PROVE Goal
  <2>1. UNCHANGED tape /\ \A s \in Runs : main'[s] = main[s] \/ (Active(s) /\ Active(s)')
    BY <1>0, <1>11 DEF Unlink, Active, TypeOK
  <2> QED BY <1>0, <2>1, PhaseSame
<1>12. ASSUME NEW r \in Runs, Account(r) PROVE Goal
  <2>1. UNCHANGED tape /\ \A s \in Runs : main'[s] = main[s] \/ (Active(s) /\ Active(s)')
    BY <1>0, <1>12 DEF Account, Active, TypeOK
  <2> QED BY <1>0, <2>1, PhaseSame
<1>13. ASSUME NEW r \in Runs, Insert(r) PROVE Goal
  <2>1. UNCHANGED tape /\ \A s \in Runs : main'[s] = main[s] \/ (Active(s) /\ Active(s)')
    BY <1>0, <1>13 DEF Insert, Active, TypeOK
  <2> QED BY <1>0, <2>1, PhaseSame
<1>14. ASSUME NEW r \in Runs, InsertFailed(r) PROVE Goal
  <2>1. UNCHANGED tape /\ \A s \in Runs : main'[s] = main[s] \/ (Active(s) /\ Active(s)')
    BY <1>0, <1>14 DEF InsertFailed, Active, TypeOK
  <2> QED BY <1>0, <2>1, PhaseSame
<1>15. ASSUME NEW r \in Runs, Clear(r) PROVE Goal
  <2>1. UNCHANGED tape /\ \A s \in Runs : main'[s] = main[s] \/ (Active(s) /\ Active(s)')
    BY <1>0, <1>15 DEF Clear, Active, TypeOK
  <2> QED BY <1>0, <2>1, PhaseSame
<1>16. ASSUME NEW r \in Runs, Close(r) PROVE Goal
  <2>1. UNCHANGED tape /\ \A s \in Runs : main'[s] = main[s] \/ (Active(s) /\ Active(s)')
    BY <1>0, <1>16 DEF Close, Active, TypeOK
  <2> QED BY <1>0, <2>1, PhaseSame
<1>17. ASSUME NEW p \in Producers, CheckQueue(p) PROVE Goal
  <2>1. UNCHANGED tape /\ \A s \in Runs : main'[s] = main[s] \/ (Active(s) /\ Active(s)')
    BY <1>0, <1>17 DEF CheckQueue, Active, TypeOK
  <2> QED BY <1>0, <2>1, PhaseSame
<1>18. ASSUME NEW p \in Producers, Stage(p) PROVE Goal
  <2>1. UNCHANGED tape /\ \A s \in Runs : main'[s] = main[s] \/ (Active(s) /\ Active(s)')
    BY <1>0, <1>18 DEF Stage, Active, TypeOK
  <2> QED BY <1>0, <2>1, PhaseSame
<1>19. ASSUME NEW p \in Producers, StageFailed(p) PROVE Goal
  <2>1. UNCHANGED tape /\ \A s \in Runs : main'[s] = main[s] \/ (Active(s) /\ Active(s)')
    BY <1>0, <1>19 DEF StageFailed, Active, TypeOK
  <2> QED BY <1>0, <2>1, PhaseSame
<1>20. ASSUME NEW p \in Producers, LockQueue(p) PROVE Goal
  <2>1. UNCHANGED tape /\ \A s \in Runs : main'[s] = main[s] \/ (Active(s) /\ Active(s)')
    BY <1>0, <1>20 DEF LockQueue, Active, TypeOK
  <2> QED BY <1>0, <2>1, PhaseSame
<1>21. ASSUME NEW p \in Producers, Put(p) PROVE Goal
  <2>1. UNCHANGED tape /\ \A s \in Runs : main'[s] = main[s] \/ (Active(s) /\ Active(s)')
    BY <1>0, <1>21 DEF Put, Active, TypeOK
  <2> QED BY <1>0, <2>1, PhaseSame
<1>22. ASSUME NEW p \in Producers, ProducerEnds(p) PROVE Goal
  <2>1. UNCHANGED tape /\ \A s \in Runs : main'[s] = main[s] \/ (Active(s) /\ Active(s)')
    BY <1>0, <1>22 DEF ProducerEnds, Active, TypeOK
  <2> QED BY <1>0, <2>1, PhaseSame
<1>23. ASSUME NEW p \in Producers, ProducerRaises(p) PROVE Goal
  <2>1. UNCHANGED tape /\ \A s \in Runs : main'[s] = main[s] \/ (Active(s) /\ Active(s)')
    BY <1>0, <1>23 DEF ProducerRaises, Active, TypeOK
  <2> QED BY <1>0, <2>1, PhaseSame
<1>24. ASSUME NEW p \in Producers, SignalError(p) PROVE Goal
  <2>1. UNCHANGED tape /\ \A s \in Runs : main'[s] = main[s] \/ (Active(s) /\ Active(s)')
    BY <1>0, <1>24 DEF SignalError, Active, TypeOK
  <2> QED BY <1>0, <2>1, PhaseSame
<1>25. CASE UNCHANGED vars
  BY <1>25 DEF Phase, Active
<1> QED BY <1>0, <1>1, <1>2, <1>3, <1>4, <1>5, <1>6, <1>7, <1>8, <1>9, <1>10, <1>11, <1>12,
    <1>13, <1>14, <1>15, <1>16, <1>17, <1>18, <1>19, <1>20, <1>21, <1>22, <1>23, <1>24,
        <1>25 DEF Next, MainStep, ConsumerStep, ProducerStep

\* On a healthy drive the pipeline implements the contract: a run puts every file that
\* can be read and written on its own tape, each once, before it ends
\* (execute_streaming_backup and its threads), for any number of runs, files, producers
\* and any limits of the queue.
THEOREM RunsKeepContract == ASSUME Healthy PROVE Spec => KeepsContract
<1>1. Init => Contract!Init
  BY ContractFiles DEF Init, Contract!Init, Active
<1>2. HealthyInv /\ [Next]_vars => [Contract!Next]_<<Phase, tape>>
  BY ContractStep
<1> QED BY <1>1, <1>2, HealthyAlways, PTL DEF Spec, KeepsContract, Contract!Spec, Phase
================================================================================
