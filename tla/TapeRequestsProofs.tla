-------------------------- MODULE TapeRequestsProofs --------------------------
(* Proofs about the format and wipe requests, for any tapes, drives and        *)
(* requests.                                                                   *)
EXTENDS TapeRequests, TLAPS

-----------------------------------------------------------------------------
(* Types                                                                   *)

RowsOK ==
  /\ status \in [Requests -> Rows]
  /\ pc \in [Requests -> Points]
  /\ at \in [Requests -> Nat]

Counts == \A r \in Requests : at[r] <= Len(TapesOf[r]) /\ (pc[r] \in OnTape => at[r] > 0)

MediaOK ==
  /\ inDrive \in [Drives -> Tapes \cup {NoTape}] /\ recorded \in [Drives -> Tapes \cup {NoTape}]
  /\ data \subseteq Tapes /\ used \subseteq Tapes /\ locked \subseteq Tapes

HistoryOK ==
  /\ late \subseteq Tapes /\ unsure \subseteq Tapes
  /\ strayed \subseteq Requests /\ forgotten \subseteq Requests /\ doubt \subseteq Drives

BoundsOK == moves \in 0..MaxMoves /\ restarts \in 0..MaxRestarts

LEMMA TypeParts == TypeOK <=> RowsOK /\ Counts /\ MediaOK /\ HistoryOK /\ BoundsOK
BY DEF TypeOK, RowsOK, Counts, MediaOK, HistoryOK, BoundsOK

\* The tape a request is at is one of the tapes.
LEMMA TapeNowIn ==
  ASSUME TypeOK, NEW r \in Requests, pc[r] \in OnTape
  PROVE  TapeNow(r) \in Tapes
<1>1. at[r] \in 1..Len(TapesOf[r])
  <2>1. at[r] \in Nat /\ at[r] > 0 /\ at[r] <= Len(TapesOf[r])
    BY DEF TypeOK
  <2>2. Len(TapesOf[r]) \in Nat
    BY RequestsAssumption DEF RequestsAssumption
  <2> QED
    BY <2>1, <2>2
<1>2. TapesOf[r] \in Seq(Tapes)
  BY RequestsAssumption DEF RequestsAssumption
<1> QED
  BY <1>1, <1>2 DEF TapeNow

LEMMA NowIn == TypeOK => \A r \in Requests : pc[r] \in OnTape => TapeNow(r) \in Tapes
BY TapeNowIn

LEMMA ConstantTypes ==
  /\ FirstDrive \in Drives /\ NoTape \notin Tapes
  /\ DriveOf \in [Requests -> Drives]
  /\ MaxMoves \in Nat /\ MaxRestarts \in Nat
  /\ \A r \in Requests : Len(TapesOf[r]) \in Nat
BY RequestsAssumption DEF RequestsAssumption

LEMMA RowsOKStep ==
  ASSUME RowsOK, [Next]_vars
  PROVE  RowsOK'
<1> USE DEF Goto, Row, Fails, drives, media, bounds, rows, history, RowsOK, Rows, Active, Points,
            Working, OnTape
<1>1. ASSUME NEW r \in Requests, Submit(r) PROVE RowsOK'
  BY <1>1 DEF Submit, AnyLocked
<1>2. ASSUME NEW r \in Requests, Enqueue(r) PROVE RowsOK'
  BY <1>2 DEF Enqueue
<1>3. ASSUME NEW r \in Requests, BeginTape(r) PROVE RowsOK'
  BY <1>3 DEF BeginTape, MoreTapes
<1>4. ASSUME NEW r \in Requests, CheckLock(r) PROVE RowsOK'
  BY <1>4 DEF CheckLock, StillUnlocked
<1>5. ASSUME NEW r \in Requests, Mount(r) PROVE RowsOK'
  BY <1>5 DEF Mount, NeedsLoad, Loads, FindsTape, FetchesTape, Empties, Sets
<1>6. ASSUME NEW r \in Requests, Erase(r) PROVE RowsOK'
  BY <1>6 DEF Erase
<1>7. ASSUME NEW r \in Requests, Verify(r) PROVE RowsOK'
  BY <1>7 DEF Verify, NeedsLoad, Loads, FindsTape, FetchesTape, Empties, Sets
<1>8. ASSUME NEW r \in Requests, Reset(r) PROVE RowsOK'
  BY <1>8 DEF Reset, ResetRows
<1>9. ASSUME NEW r \in Requests, Unload(r) PROVE RowsOK'
  BY <1>9 DEF Unload, Empties, Sets
<1>10. ASSUME NEW r \in Requests, Cancel(r) PROVE RowsOK'
  BY <1>10 DEF Cancel, CancelRow
<1>11. ASSUME NEW d \in Drives, NEW t \in Tapes \cup {NoTape}, MoveTape(d, t) PROVE RowsOK'
  BY <1>11 DEF MoveTape, Sets
<1>12. ASSUME NEW t \in Tapes, LockTape(t) PROVE RowsOK'
  BY <1>12 DEF LockTape
<1>13. CASE Restart
  BY <1>13 DEF Restart
<1>14. CASE UNCHANGED vars
  BY <1>14 DEF vars
<1> QED
  BY <1>1, <1>2, <1>3, <1>4, <1>5, <1>6, <1>7, <1>8, <1>9, <1>10, <1>11, <1>12, <1>13,
     <1>14 DEF Next, Step

LEMMA CountsStep ==
  ASSUME RowsOK, Counts, [Next]_vars
  PROVE  Counts'
<1> USE DEF Goto, Row, Fails, drives, media, bounds, rows, history, RowsOK, Counts, Points,
            Working, OnTape
<1>1. ASSUME NEW r \in Requests, Submit(r) PROVE Counts'
  BY <1>1, ConstantTypes DEF Submit, AnyLocked
<1>2. ASSUME NEW r \in Requests, Enqueue(r) PROVE Counts'
  BY <1>2, ConstantTypes DEF Enqueue
<1>3. ASSUME NEW r \in Requests, BeginTape(r) PROVE Counts'
  BY <1>3, ConstantTypes DEF BeginTape, MoreTapes
<1>4. ASSUME NEW r \in Requests, CheckLock(r) PROVE Counts'
  BY <1>4, ConstantTypes DEF CheckLock, StillUnlocked
<1>5. ASSUME NEW r \in Requests, Mount(r) PROVE Counts'
  BY <1>5, ConstantTypes DEF Mount, NeedsLoad, Loads, FindsTape, FetchesTape, Empties, Sets
<1>6. ASSUME NEW r \in Requests, Erase(r) PROVE Counts'
  BY <1>6, ConstantTypes DEF Erase
<1>7. ASSUME NEW r \in Requests, Verify(r) PROVE Counts'
  BY <1>7, ConstantTypes DEF Verify, NeedsLoad, Loads, FindsTape, FetchesTape, Empties, Sets
<1>8. ASSUME NEW r \in Requests, Reset(r) PROVE Counts'
  BY <1>8, ConstantTypes DEF Reset, ResetRows
<1>9. ASSUME NEW r \in Requests, Unload(r) PROVE Counts'
  BY <1>9, ConstantTypes DEF Unload, Empties, Sets
<1>10. ASSUME NEW r \in Requests, Cancel(r) PROVE Counts'
  BY <1>10, ConstantTypes DEF Cancel, CancelRow
<1>11. ASSUME NEW d \in Drives, NEW t \in Tapes \cup {NoTape}, MoveTape(d, t) PROVE Counts'
  BY <1>11, ConstantTypes DEF MoveTape, Sets
<1>12. ASSUME NEW t \in Tapes, LockTape(t) PROVE Counts'
  BY <1>12, ConstantTypes DEF LockTape
<1>13. CASE Restart
  BY <1>13, ConstantTypes DEF Restart
<1>14. CASE UNCHANGED vars
  BY <1>14, ConstantTypes DEF vars
<1> QED
  BY <1>1, <1>2, <1>3, <1>4, <1>5, <1>6, <1>7, <1>8, <1>9, <1>10, <1>11, <1>12, <1>13,
     <1>14 DEF Next, Step

LEMMA MediaStep ==
  ASSUME MediaOK, NEW S, S = {r \in Requests : pc[r] \in OnTape},
         \A r \in S : TapeNow(r) \in Tapes, RowsOK, [Next]_vars
  PROVE  MediaOK'
<1> USE DEF Goto, Row, Fails, drives, media, bounds, rows, history, MediaOK, Points, Working,
            OnTape
<1>1. ASSUME NEW r \in Requests, Submit(r) PROVE MediaOK'
  BY <1>1, ConstantTypes DEF Submit, AnyLocked
<1>2. ASSUME NEW r \in Requests, Enqueue(r) PROVE MediaOK'
  BY <1>2, ConstantTypes DEF Enqueue
<1>3. ASSUME NEW r \in Requests, BeginTape(r) PROVE MediaOK'
  BY <1>3, ConstantTypes DEF BeginTape, MoreTapes
<1>4. ASSUME NEW r \in Requests, CheckLock(r) PROVE MediaOK'
  BY <1>4, ConstantTypes DEF CheckLock, StillUnlocked
<1>5. ASSUME NEW r \in Requests, Mount(r) PROVE MediaOK'
  BY <1>5, ConstantTypes DEF Mount, NeedsLoad, Loads, FindsTape, FetchesTape, Empties, Sets
<1>6. ASSUME NEW r \in Requests, Erase(r) PROVE MediaOK'
  BY <1>6, ConstantTypes DEF Erase
<1>7. ASSUME NEW r \in Requests, Verify(r) PROVE MediaOK'
  BY <1>7, ConstantTypes DEF Verify, NeedsLoad, Loads, FindsTape, FetchesTape, Empties, Sets
<1>8. ASSUME NEW r \in Requests, Reset(r) PROVE MediaOK'
  BY <1>8, ConstantTypes DEF Reset, ResetRows
<1>9. ASSUME NEW r \in Requests, Unload(r) PROVE MediaOK'
  BY <1>9, ConstantTypes DEF Unload, Empties, Sets
<1>10. ASSUME NEW r \in Requests, Cancel(r) PROVE MediaOK'
  BY <1>10, ConstantTypes DEF Cancel, CancelRow
<1>11. ASSUME NEW d \in Drives, NEW t \in Tapes \cup {NoTape}, MoveTape(d, t) PROVE MediaOK'
  BY <1>11, ConstantTypes DEF MoveTape, Sets
<1>12. ASSUME NEW t \in Tapes, LockTape(t) PROVE MediaOK'
  BY <1>12, ConstantTypes DEF LockTape
<1>13. CASE Restart
  BY <1>13, ConstantTypes DEF Restart
<1>14. CASE UNCHANGED vars
  BY <1>14, ConstantTypes DEF vars
<1> QED
  BY <1>1, <1>2, <1>3, <1>4, <1>5, <1>6, <1>7, <1>8, <1>9, <1>10, <1>11, <1>12, <1>13,
     <1>14 DEF Next, Step

LEMMA HistoryStep ==
  ASSUME HistoryOK, NEW S, S = {r \in Requests : pc[r] \in OnTape},
         \A r \in S : TapeNow(r) \in Tapes, RowsOK, [Next]_vars
  PROVE  HistoryOK'
<1> USE DEF Goto, Row, Fails, drives, media, bounds, rows, history, HistoryOK, Strays, Points,
            Working, OnTape
<1>1. ASSUME NEW r \in Requests, Submit(r) PROVE HistoryOK'
  BY <1>1, ConstantTypes DEF Submit, AnyLocked
<1>2. ASSUME NEW r \in Requests, Enqueue(r) PROVE HistoryOK'
  BY <1>2, ConstantTypes DEF Enqueue
<1>3. ASSUME NEW r \in Requests, BeginTape(r) PROVE HistoryOK'
  BY <1>3, ConstantTypes DEF BeginTape, MoreTapes
<1>4. ASSUME NEW r \in Requests, CheckLock(r) PROVE HistoryOK'
  BY <1>4, ConstantTypes DEF CheckLock, StillUnlocked
<1>5. ASSUME NEW r \in Requests, Mount(r) PROVE HistoryOK'
  BY <1>5, ConstantTypes DEF Mount, NeedsLoad, Loads, FindsTape, FetchesTape, Empties, Sets
<1>6. ASSUME NEW r \in Requests, Erase(r) PROVE HistoryOK'
  BY <1>6, ConstantTypes DEF Erase
<1>7. ASSUME NEW r \in Requests, Verify(r) PROVE HistoryOK'
  BY <1>7, ConstantTypes DEF Verify, NeedsLoad, Loads, FindsTape, FetchesTape, Empties, Sets
<1>8. ASSUME NEW r \in Requests, Reset(r) PROVE HistoryOK'
  BY <1>8, ConstantTypes DEF Reset, ResetRows
<1>9. ASSUME NEW r \in Requests, Unload(r) PROVE HistoryOK'
  BY <1>9, ConstantTypes DEF Unload, Empties, Sets
<1>10. ASSUME NEW r \in Requests, Cancel(r) PROVE HistoryOK'
  BY <1>10, ConstantTypes DEF Cancel, CancelRow
<1>11. ASSUME NEW d \in Drives, NEW t \in Tapes \cup {NoTape}, MoveTape(d, t) PROVE HistoryOK'
  BY <1>11, ConstantTypes DEF MoveTape, Sets
<1>12. ASSUME NEW t \in Tapes, LockTape(t) PROVE HistoryOK'
  BY <1>12, ConstantTypes DEF LockTape
<1>13. CASE Restart
  BY <1>13, ConstantTypes DEF Restart
<1>14. CASE UNCHANGED vars
  BY <1>14, ConstantTypes DEF vars
<1> QED
  BY <1>1, <1>2, <1>3, <1>4, <1>5, <1>6, <1>7, <1>8, <1>9, <1>10, <1>11, <1>12, <1>13,
     <1>14 DEF Next, Step

LEMMA BoundsStep ==
  ASSUME BoundsOK, [Next]_vars
  PROVE  BoundsOK'
<1> USE DEF Goto, Row, Fails, drives, media, bounds, rows, history, BoundsOK
<1>1. ASSUME NEW r \in Requests, Submit(r) PROVE BoundsOK'
  BY <1>1, ConstantTypes DEF Submit, AnyLocked
<1>2. ASSUME NEW r \in Requests, Enqueue(r) PROVE BoundsOK'
  BY <1>2, ConstantTypes DEF Enqueue
<1>3. ASSUME NEW r \in Requests, BeginTape(r) PROVE BoundsOK'
  BY <1>3, ConstantTypes DEF BeginTape, MoreTapes
<1>4. ASSUME NEW r \in Requests, CheckLock(r) PROVE BoundsOK'
  BY <1>4, ConstantTypes DEF CheckLock, StillUnlocked
<1>5. ASSUME NEW r \in Requests, Mount(r) PROVE BoundsOK'
  BY <1>5, ConstantTypes DEF Mount, NeedsLoad, Loads, FindsTape, FetchesTape, Empties, Sets
<1>6. ASSUME NEW r \in Requests, Erase(r) PROVE BoundsOK'
  BY <1>6, ConstantTypes DEF Erase
<1>7. ASSUME NEW r \in Requests, Verify(r) PROVE BoundsOK'
  BY <1>7, ConstantTypes DEF Verify, NeedsLoad, Loads, FindsTape, FetchesTape, Empties, Sets
<1>8. ASSUME NEW r \in Requests, Reset(r) PROVE BoundsOK'
  BY <1>8, ConstantTypes DEF Reset, ResetRows
<1>9. ASSUME NEW r \in Requests, Unload(r) PROVE BoundsOK'
  BY <1>9, ConstantTypes DEF Unload, Empties, Sets
<1>10. ASSUME NEW r \in Requests, Cancel(r) PROVE BoundsOK'
  BY <1>10, ConstantTypes DEF Cancel, CancelRow
<1>11. ASSUME NEW d \in Drives, NEW t \in Tapes \cup {NoTape}, MoveTape(d, t) PROVE BoundsOK'
  BY <1>11, ConstantTypes DEF MoveTape, Sets
<1>12. ASSUME NEW t \in Tapes, LockTape(t) PROVE BoundsOK'
  BY <1>12, ConstantTypes DEF LockTape
<1>13. CASE Restart
  BY <1>13, ConstantTypes DEF Restart
<1>14. CASE UNCHANGED vars
  BY <1>14, ConstantTypes DEF vars
<1> QED
  BY <1>1, <1>2, <1>3, <1>4, <1>5, <1>6, <1>7, <1>8, <1>9, <1>10, <1>11, <1>12, <1>13,
     <1>14 DEF Next, Step

LEMMA TypeStep == TypeOK /\ [Next]_vars => TypeOK'
<1> SUFFICES ASSUME TypeOK, [Next]_vars PROVE TypeOK'
  OBVIOUS
<1>1. RowsOK /\ Counts /\ MediaOK /\ HistoryOK /\ BoundsOK
  BY TypeParts
<1> DEFINE S == {r \in Requests : pc[r] \in OnTape}
<1>2. \A r \in S : TapeNow(r) \in Tapes
  BY NowIn
<1>3. RowsOK' /\ Counts' /\ BoundsOK'
  BY <1>1, RowsOKStep, CountsStep, BoundsStep
<1>4. MediaOK' /\ HistoryOK'
  BY <1>1, <1>2, MediaStep, HistoryStep
<1> QED
  BY <1>3, <1>4 DEF TypeOK, RowsOK, Counts, MediaOK, HistoryOK, BoundsOK

LEMMA TypeInit == Init => TypeOK
<1>1. \A r \in Requests : Len(TapesOf[r]) \in Nat
  BY ConstantTypes
<1> QED
  BY <1>1, ConstantTypes DEF Init, TypeOK, Points, Rows, Working, OnTape

\* The variables hold what they should (rows, threads and tapes of every request).
THEOREM TypeCorrect == Spec => []TypeOK
BY TypeInit, TypeStep, PTL DEF Spec

-----------------------------------------------------------------------------
(* Rows                                                                    *)

\* A request that has not come yet has no row.
RowsInv ==
  /\ ActiveRowsHaveThreads
  /\ WorkIsSeen
  /\ \A r \in Requests : pc[r] = "none" => status[r] = "none"

LEMMA RowsStep ==
  ASSUME RowsOK, RowsInv, [Next]_vars
  PROVE  RowsInv'
<1> USE DEF Goto, Row, Fails, drives, media, bounds, rows, history, RowsOK, RowsInv,
            ActiveRowsHaveThreads, WorkIsSeen, Rows, Active, Orphans, Points, Working,
            OnTape
<1>1. ASSUME NEW r \in Requests, Submit(r) PROVE RowsInv'
  BY <1>1 DEF Submit, AnyLocked
<1>2. ASSUME NEW r \in Requests, Enqueue(r) PROVE RowsInv'
  BY <1>2 DEF Enqueue
<1>3. ASSUME NEW r \in Requests, BeginTape(r) PROVE RowsInv'
  BY <1>3 DEF BeginTape, MoreTapes
<1>4. ASSUME NEW r \in Requests, CheckLock(r) PROVE RowsInv'
  BY <1>4 DEF CheckLock, StillUnlocked
<1>5. ASSUME NEW r \in Requests, Mount(r) PROVE RowsInv'
  BY <1>5 DEF Mount, NeedsLoad, Loads, FindsTape, FetchesTape, Empties, Sets
<1>6. ASSUME NEW r \in Requests, Erase(r) PROVE RowsInv'
  BY <1>6 DEF Erase
<1>7. ASSUME NEW r \in Requests, Verify(r) PROVE RowsInv'
  BY <1>7 DEF Verify, NeedsLoad, Loads, FindsTape, FetchesTape, Empties, Sets
<1>8. ASSUME NEW r \in Requests, Reset(r) PROVE RowsInv'
  BY <1>8 DEF Reset, ResetRows
<1>9. ASSUME NEW r \in Requests, Unload(r) PROVE RowsInv'
  BY <1>9 DEF Unload, Empties, Sets
<1>10. ASSUME NEW r \in Requests, Cancel(r) PROVE RowsInv'
  BY <1>10 DEF Cancel, CancelRow
<1>11. ASSUME NEW d \in Drives, NEW t \in Tapes \cup {NoTape}, MoveTape(d, t) PROVE RowsInv'
  BY <1>11 DEF MoveTape, Sets
<1>12. ASSUME NEW t \in Tapes, LockTape(t) PROVE RowsInv'
  BY <1>12 DEF LockTape
<1>13. CASE Restart
  BY <1>13 DEF Restart
<1>14. CASE UNCHANGED vars
  BY <1>14 DEF vars
<1> QED
  BY <1>1, <1>2, <1>3, <1>4, <1>5, <1>6, <1>7, <1>8, <1>9, <1>10, <1>11, <1>12, <1>13,
     <1>14 DEF Next, Step

\* Whatever is cancelled and whenever the service restarts: an active row has a thread, or
\* was cancelled after its end or left by a restart, and a thread at work has an active row.
THEOREM RowsCorrect == Spec => []RowsTellOfThreads
<1>1. Init => RowsInv
  BY DEF Init, RowsInv, ActiveRowsHaveThreads, WorkIsSeen, Active, Working, OnTape
<1>2. TypeOK /\ RowsInv /\ [Next]_vars => RowsInv'
  BY RowsStep, TypeParts
<1>3. RowsInv => RowsTellOfThreads
  BY DEF RowsInv, RowsTellOfThreads
<1> QED
  BY <1>1, <1>2, <1>3, TypeCorrect, PTL DEF Spec

-----------------------------------------------------------------------------
(* Tapes                                                                   *)

\* The record of a drive without doubt is right, and what the two checks and the mount leave
\* true until the erase.
RecordInv ==
  \A d \in Drives \ doubt : recorded[d] # NoTape => inDrive[d] = recorded[d]

MountInv ==
  /\ RecordInv
  /\ \A r \in Requests :
    /\ pc[r] = "erase" => inDrive[DriveOf[r]] = TapeNow(r) \/ Misled(r)
    /\ pc[r] \in {"mount", "erase"} /\ TapeNow(r) \in locked => TapeNow(r) \in late

LEMMA MountStep ==
  ASSUME RowsOK, MediaOK, \A r \in Requests : pc[r] \in OnTape => TapeNow(r) \in Tapes,
         MountInv, [Next]_vars
  PROVE  MountInv'
<1> USE DEF Goto, Row, Fails, drives, media, bounds, rows, history, RowsOK, MediaOK, MountInv,
            RecordInv, Misled, TapeNow, Strays, Points, Working, OnTape
<1>1. ASSUME NEW r \in Requests, Submit(r) PROVE MountInv'
  BY <1>1, ConstantTypes DEF Submit, AnyLocked
<1>2. ASSUME NEW r \in Requests, Enqueue(r) PROVE MountInv'
  BY <1>2, ConstantTypes DEF Enqueue
<1>3. ASSUME NEW r \in Requests, BeginTape(r) PROVE MountInv'
  BY <1>3, ConstantTypes DEF BeginTape, MoreTapes
<1>4. ASSUME NEW r \in Requests, CheckLock(r) PROVE MountInv'
  BY <1>4, ConstantTypes DEF CheckLock, StillUnlocked
<1>l. ASSUME NEW r \in Requests, NEW onward, Loads(r, onward),
             <<pc[r], onward>> \in {<<"mount", "erase">>, <<"verify", "reset">>}, UNCHANGED <<locked, at, late>>
      PROVE  MountInv'
  <2> DEFINE d == DriveOf[r]
             t == TapesOf[r][at[r]]
  <2>d. d \in Drives /\ DriveOf \in [Requests -> Drives] /\ FirstDrive \in Drives
    BY ConstantTypes
  <2>l. ASSUME NEW q \in Requests, Goto(r, onward) \/ Goto(r, "done"), pc'[q] \in {"mount", "erase"}
        PROVE  TapesOf[q][at'[q]] \in locked' => TapesOf[q][at'[q]] \in late'
    BY <1>l, <2>l
  <2>1. CASE FindsTape(d, t) /\ Goto(r, onward) /\ strayed' = (strayed \ {r}) \cup Strays(r, d)
    <3>1. RecordInv'
      BY <2>d, <2>1 DEF FindsTape, Sets
    <3>2. inDrive' = inDrive /\ (d # FirstDrive => doubt \subseteq doubt') /\ doubt \ {d} \subseteq doubt'
      BY <2>d, <2>1 DEF FindsTape, Sets
    <3>3. ASSUME NEW q \in Requests, pc'[q] = "erase"
          PROVE  inDrive'[DriveOf[q]] = TapesOf[q][at'[q]] \/ Misled(q)'
      <4>1. CASE q = r
        BY <1>l, <2>d, <2>1, <4>1 DEF FindsTape, Sets
      <4>2. CASE q # r
        BY <1>l, <2>d, <2>1, <3>2, <3>3, <4>2
      <4> QED
        BY <4>1, <4>2
    <3> QED
      BY <2>l, <2>1, <3>1, <3>3
  <2>2. CASE FetchesTape(d, t) /\ Goto(r, onward) /\ strayed' = (strayed \ {r}) \cup Strays(r, d)
    <3>0. \/ inDrive' = [inDrive EXCEPT ![d] = t] /\ doubt' = doubt \ {d}
          \/ doubt' = doubt \cup {d} /\ \E u : inDrive' = [inDrive EXCEPT ![d] = u]
      BY <2>2 DEF FetchesTape, Sets
    <3>a. recorded' = [recorded EXCEPT ![d] = t]
      BY <2>2 DEF FetchesTape, Sets
    <3>1. RecordInv'
      BY <2>d, <3>0, <3>a
    <3>3. ASSUME NEW q \in Requests, pc'[q] = "erase"
          PROVE  inDrive'[DriveOf[q]] = TapesOf[q][at'[q]] \/ Misled(q)'
      <4>1. CASE q = r
        BY <1>l, <2>d, <3>0, <4>1
      <4>2. CASE q # r /\ DriveOf[q] = d
        BY <1>l, <2>d, <2>2, <3>3, <4>2
      <4>3. CASE q # r /\ DriveOf[q] # d
        BY <1>l, <2>d, <2>2, <3>0, <3>3, <4>3
      <4> QED
        BY <4>1, <4>2, <4>3
    <3> QED
      BY <2>l, <2>2, <3>1, <3>3
  <2>3. CASE Fails(r) /\ (UNCHANGED <<drives, strayed>>
                            \/ (Empties(d) /\ strayed' = strayed \cup Strays(r, d)))
    BY <1>l, <2>d, <2>3 DEF Empties, Sets
  <2>4. \/ FindsTape(d, t) /\ Goto(r, onward) /\ strayed' = (strayed \ {r}) \cup Strays(r, d)
        \/ FetchesTape(d, t) /\ Goto(r, onward) /\ strayed' = (strayed \ {r}) \cup Strays(r, d)
        \/ Fails(r) /\ (UNCHANGED <<drives, strayed>>
                         \/ (Empties(d) /\ strayed' = strayed \cup Strays(r, d)))
    BY <1>l DEF Loads
  <2> QED
    BY <2>1, <2>2, <2>3, <2>4
<1>5. ASSUME NEW r \in Requests, Mount(r) PROVE MountInv'
  <2>1. CASE NeedsLoad(r)
    BY <1>5, <1>l, <2>1 DEF Mount
  <2>2. CASE ~NeedsLoad(r)
    <3>1. /\ UNCHANGED <<drives, media, at, late>> /\ strayed' = strayed \ {r}
          /\ pc[r] = "mount" /\ pc' = [pc EXCEPT ![r] = "erase"]
      BY <1>5, <2>2 DEF Mount
    <3>2. inDrive[DriveOf[r]] = TapesOf[r][at[r]] \/ DriveOf[r] \in doubt
      <4>1. TapesOf[r][at[r]] # NoTape /\ DriveOf[r] \in Drives
        BY <3>1, ConstantTypes
      <4> QED
        BY <2>2, <4>1 DEF NeedsLoad
    <3> QED
      BY <3>1, <3>2
  <2> QED
    BY <2>1, <2>2
<1>6. ASSUME NEW r \in Requests, Erase(r) PROVE MountInv'
  BY <1>6, ConstantTypes DEF Erase
<1>7. ASSUME NEW r \in Requests, Verify(r) PROVE MountInv'
  BY <1>7, <1>l DEF Verify, NeedsLoad
<1>8. ASSUME NEW r \in Requests, Reset(r) PROVE MountInv'
  BY <1>8, ConstantTypes DEF Reset, ResetRows
<1>9. ASSUME NEW r \in Requests, Unload(r) PROVE MountInv'
  BY <1>9, ConstantTypes DEF Unload, Empties, Sets
<1>10. ASSUME NEW r \in Requests, Cancel(r) PROVE MountInv'
  BY <1>10, ConstantTypes DEF Cancel, CancelRow
<1>11. ASSUME NEW d \in Drives, NEW t \in Tapes \cup {NoTape}, MoveTape(d, t) PROVE MountInv'
  BY <1>11, ConstantTypes DEF MoveTape, Sets
<1>12. ASSUME NEW t \in Tapes, LockTape(t) PROVE MountInv'
  BY <1>12, ConstantTypes DEF LockTape
<1>13. CASE Restart
  BY <1>13, ConstantTypes DEF Restart
<1>14. CASE UNCHANGED vars
  BY <1>14, ConstantTypes DEF vars
<1> QED
  BY <1>1, <1>2, <1>3, <1>4, <1>5, <1>6, <1>7, <1>8, <1>9, <1>10, <1>11, <1>12, <1>13,
     <1>14 DEF Next, Step

\* The tape that was erased is empty, when requests erase in the drive they name.
SameDevice == \A r \in Requests : EraseDrive(r) = DriveOf[r]

ErasedInv ==
  /\ EmptyRowsAreEmpty
  /\ \A r \in Requests :
       pc[r] \in {"verify", "reset"} => TapeNow(r) \notin data \/ TapeNow(r) \in unsure

LEMMA ErasedStep ==
  ASSUME SameDevice, RowsOK, MediaOK, MountInv, ErasedInv, [Next]_vars
  PROVE  ErasedInv'
<1> USE DEF Goto, Row, Fails, drives, media, bounds, rows, history, SameDevice, RowsOK, MediaOK,
            MountInv, Misled, ErasedInv, EmptyRowsAreEmpty, TapeNow, Points, Working, OnTape
<1>1. ASSUME NEW r \in Requests, Submit(r) PROVE ErasedInv'
  BY <1>1, ConstantTypes DEF Submit, AnyLocked
<1>2. ASSUME NEW r \in Requests, Enqueue(r) PROVE ErasedInv'
  BY <1>2, ConstantTypes DEF Enqueue
<1>3. ASSUME NEW r \in Requests, BeginTape(r) PROVE ErasedInv'
  BY <1>3, ConstantTypes DEF BeginTape, MoreTapes
<1>4. ASSUME NEW r \in Requests, CheckLock(r) PROVE ErasedInv'
  BY <1>4, ConstantTypes DEF CheckLock, StillUnlocked
<1>5. ASSUME NEW r \in Requests, Mount(r) PROVE ErasedInv'
  BY <1>5, ConstantTypes DEF Mount, NeedsLoad, Loads, FindsTape, FetchesTape, Empties, Sets
<1>6. ASSUME NEW r \in Requests, Erase(r) PROVE ErasedInv'
  BY <1>6, ConstantTypes DEF Erase
<1>7. ASSUME NEW r \in Requests, Verify(r) PROVE ErasedInv'
  BY <1>7, ConstantTypes DEF Verify, NeedsLoad, Loads, FindsTape, FetchesTape, Empties, Sets
<1>8. ASSUME NEW r \in Requests, Reset(r) PROVE ErasedInv'
  BY <1>8, ConstantTypes DEF Reset, ResetRows
<1>9. ASSUME NEW r \in Requests, Unload(r) PROVE ErasedInv'
  BY <1>9, ConstantTypes DEF Unload, Empties, Sets
<1>10. ASSUME NEW r \in Requests, Cancel(r) PROVE ErasedInv'
  BY <1>10, ConstantTypes DEF Cancel, CancelRow
<1>11. ASSUME NEW d \in Drives, NEW t \in Tapes \cup {NoTape}, MoveTape(d, t) PROVE ErasedInv'
  BY <1>11, ConstantTypes DEF MoveTape, Sets
<1>12. ASSUME NEW t \in Tapes, LockTape(t) PROVE ErasedInv'
  BY <1>12, ConstantTypes DEF LockTape
<1>13. CASE Restart
  BY <1>13, ConstantTypes DEF Restart
<1>14. CASE UNCHANGED vars
  BY <1>14, ConstantTypes DEF vars
<1> QED
  BY <1>1, <1>2, <1>3, <1>4, <1>5, <1>6, <1>7, <1>8, <1>9, <1>10, <1>11, <1>12, <1>13,
     <1>14 DEF Next, Step

\* What a step takes from the tapes is what a request erases in it.
Lost ==
  \A t \in data \ data' : \E r \in Requests : Erasing(r) /\ (t = TapeNow(r) \/ Misled(r))

LEMMA DataStep ==
  ASSUME SameDevice, RowsOK, MountInv, [Next]_vars
  PROVE  Lost
<1> USE DEF Goto, Row, Fails, drives, media, bounds, rows, history, Lost, SameDevice, RowsOK,
            MountInv, Misled, Erasing, Points, Working, OnTape
<1>1. ASSUME NEW r \in Requests, Submit(r) PROVE Lost
  BY <1>1, ConstantTypes DEF Submit, AnyLocked
<1>2. ASSUME NEW r \in Requests, Enqueue(r) PROVE Lost
  BY <1>2, ConstantTypes DEF Enqueue
<1>3. ASSUME NEW r \in Requests, BeginTape(r) PROVE Lost
  BY <1>3, ConstantTypes DEF BeginTape, MoreTapes
<1>4. ASSUME NEW r \in Requests, CheckLock(r) PROVE Lost
  BY <1>4, ConstantTypes DEF CheckLock, StillUnlocked
<1>5. ASSUME NEW r \in Requests, Mount(r) PROVE Lost
  BY <1>5, ConstantTypes DEF Mount, NeedsLoad, Loads, FindsTape, FetchesTape, Empties, Sets
<1>6. ASSUME NEW r \in Requests, Erase(r) PROVE Lost
  BY <1>6, ConstantTypes DEF Erase
<1>7. ASSUME NEW r \in Requests, Verify(r) PROVE Lost
  BY <1>7, ConstantTypes DEF Verify, NeedsLoad, Loads, FindsTape, FetchesTape, Empties, Sets
<1>8. ASSUME NEW r \in Requests, Reset(r) PROVE Lost
  BY <1>8, ConstantTypes DEF Reset, ResetRows
<1>9. ASSUME NEW r \in Requests, Unload(r) PROVE Lost
  BY <1>9, ConstantTypes DEF Unload, Empties, Sets
<1>10. ASSUME NEW r \in Requests, Cancel(r) PROVE Lost
  BY <1>10, ConstantTypes DEF Cancel, CancelRow
<1>11. ASSUME NEW d \in Drives, NEW t \in Tapes \cup {NoTape}, MoveTape(d, t) PROVE Lost
  BY <1>11, ConstantTypes DEF MoveTape, Sets
<1>12. ASSUME NEW t \in Tapes, LockTape(t) PROVE Lost
  BY <1>12, ConstantTypes DEF LockTape
<1>13. CASE Restart
  BY <1>13, ConstantTypes DEF Restart
<1>14. CASE UNCHANGED vars
  BY <1>14, ConstantTypes DEF vars
<1> QED
  BY <1>1, <1>2, <1>3, <1>4, <1>5, <1>6, <1>7, <1>8, <1>9, <1>10, <1>11, <1>12, <1>13,
     <1>14 DEF Next, Step

LEMMA Invariants ==
  ASSUME SameDevice
  PROVE  Spec => [](TypeOK /\ MountInv /\ ErasedInv)
<1>1. Init => TypeOK /\ MountInv /\ ErasedInv
  <2>1. ASSUME Init PROVE MountInv /\ ErasedInv
    BY <2>1 DEF Init, MountInv, RecordInv, ErasedInv, EmptyRowsAreEmpty
  <2> QED
    BY <2>1, TypeInit
<1>2. (TypeOK /\ MountInv /\ ErasedInv) /\ [Next]_vars => (TypeOK /\ MountInv /\ ErasedInv)'
  <2> SUFFICES ASSUME TypeOK, MountInv, ErasedInv, [Next]_vars
               PROVE  TypeOK' /\ MountInv' /\ ErasedInv'
    OBVIOUS
  <2>1. RowsOK /\ MediaOK
    BY TypeParts
  <2> QED
    BY <2>1, TypeStep, MountStep, ErasedStep, NowIn
<1> QED
  BY <1>1, <1>2, PTL DEF Spec

\* Where requests erase in the drive they name, data is lost only from the tape a request is
\* at, or by a request in whose drive others moved tapes.
THEOREM NamedTapesErased ==
  ASSUME SameDevice
  PROVE  Spec => ErasesTheNamedTape
<1>1. TypeOK /\ MountInv /\ [Next]_vars =>
        [\A t \in data \ data' : \E r \in Requests :
           Erasing(r) /\ (t = TapeNow(r) \/ Misled(r))]_vars
  BY DataStep, TypeParts DEF Lost
<1>2. Spec => [](TypeOK /\ MountInv)
  BY Invariants, PTL
<1> QED
  BY <1>1, <1>2, PTL DEF Spec, ErasesTheNamedTape

\* And a tape under a WORM lock keeps its data, unless it was locked after a request's last
\* look at the lock, or the request was misled.
THEOREM LockedTapesSafe ==
  ASSUME SameDevice
  PROVE  Spec => LockedTapesKeepData
<1> DEFINE Kept == \A t \in locked \cap (data \ data') :
                     t \in late \/ \E r \in Requests : Erasing(r) /\ Misled(r)
<1>1. TypeOK /\ MountInv /\ [Next]_vars => Kept
  <2> SUFFICES ASSUME TypeOK, MountInv, [Next]_vars,
                      NEW t \in locked \cap (data \ data')
               PROVE  t \in late \/ \E r \in Requests : Erasing(r) /\ Misled(r)
    OBVIOUS
  <2>1. PICK q \in Requests : Erasing(q) /\ (t = TapeNow(q) \/ Misled(q))
    BY DataStep, TypeParts DEF Lost
  <2>2. CASE t = TapeNow(q)
    BY <2>1, <2>2 DEF MountInv, Erasing
  <2> QED
    BY <2>1, <2>2
<1> QED
  BY <1>1, Invariants, PTL DEF Spec, LockedTapesKeepData

\* And a row that says a tape is empty is right, unless an erase of it timed out or its
\* request was misled.
THEOREM EmptyRowsRight ==
  ASSUME SameDevice
  PROVE  Spec => []EmptyRowsAreEmpty
<1>1. ErasedInv => EmptyRowsAreEmpty
  BY DEF ErasedInv
<1> QED
  BY <1>1, Invariants, PTL

-----------------------------------------------------------------------------
(* The other drives                                                        *)

\* A tape is in one drive.
OnePlace ==
  \A d, e \in Drives : inDrive[d] = inDrive[e] /\ inDrive[d] # NoTape => d = e

LEMMA OnePlaceStep ==
  ASSUME RowsOK, MediaOK, \A r \in Requests : pc[r] \in OnTape => TapeNow(r) \in Tapes,
         OnePlace, [Next]_vars
  PROVE  OnePlace'
<1> USE DEF Goto, Row, Fails, drives, media, bounds, rows, history, RowsOK, MediaOK, OnePlace, OnTape
<1>1. ASSUME NEW r \in Requests, Submit(r) PROVE OnePlace'
  BY <1>1, ConstantTypes DEF Submit, AnyLocked
<1>2. ASSUME NEW r \in Requests, Enqueue(r) PROVE OnePlace'
  BY <1>2, ConstantTypes DEF Enqueue
<1>3. ASSUME NEW r \in Requests, BeginTape(r) PROVE OnePlace'
  BY <1>3, ConstantTypes DEF BeginTape, MoreTapes
<1>4. ASSUME NEW r \in Requests, CheckLock(r) PROVE OnePlace'
  BY <1>4, ConstantTypes DEF CheckLock, StillUnlocked
<1>l. ASSUME NEW r \in Requests, NEW onward, Loads(r, onward), TapeNow(r) \in Tapes
      PROVE  OnePlace'
  <2> DEFINE d == DriveOf[r]
             t == TapeNow(r)
  <2>d. d \in Drives
    BY ConstantTypes
  <2>1. ASSUME inDrive' = inDrive PROVE OnePlace'
    BY <2>1
  <2>2. ASSUME inDrive' = [inDrive EXCEPT ![d] = NoTape] PROVE OnePlace'
    BY <2>d, <2>2
  <2>3. ASSUME inDrive' = [inDrive EXCEPT ![d] = t], \A e \in Drives : inDrive[e] = t => e = d
        PROVE  OnePlace'
    BY <2>d, <2>3
  <2>4. \/ inDrive' = inDrive \/ inDrive' = [inDrive EXCEPT ![d] = NoTape]
        \/ inDrive' = [inDrive EXCEPT ![d] = t] /\ \A e \in Drives : inDrive[e] = t => e = d
    BY <1>l, <2>d DEF Loads, FindsTape, FetchesTape, Empties, Sets
  <2> QED
    BY <2>1, <2>2, <2>3, <2>4
<1>5. ASSUME NEW r \in Requests, Mount(r) PROVE OnePlace'
  BY <1>5, <1>l DEF Mount, NeedsLoad
<1>6. ASSUME NEW r \in Requests, Erase(r) PROVE OnePlace'
  BY <1>6, ConstantTypes DEF Erase
<1>7. ASSUME NEW r \in Requests, Verify(r) PROVE OnePlace'
  BY <1>7, <1>l DEF Verify, NeedsLoad
<1>8. ASSUME NEW r \in Requests, Reset(r) PROVE OnePlace'
  BY <1>8, ConstantTypes DEF Reset, ResetRows
<1>9. ASSUME NEW r \in Requests, Unload(r) PROVE OnePlace'
  BY <1>9, ConstantTypes DEF Unload, Empties, Sets
<1>10. ASSUME NEW r \in Requests, Cancel(r) PROVE OnePlace'
  BY <1>10, ConstantTypes DEF Cancel, CancelRow
<1>11. ASSUME NEW d \in Drives, NEW t \in Tapes \cup {NoTape}, MoveTape(d, t) PROVE OnePlace'
  BY <1>11, ConstantTypes DEF MoveTape, Sets
<1>12. ASSUME NEW t \in Tapes, LockTape(t) PROVE OnePlace'
  BY <1>12, ConstantTypes DEF LockTape
<1>13. CASE Restart
  BY <1>13 DEF Restart
<1>14. CASE UNCHANGED vars
  BY <1>14 DEF vars
<1> QED
  BY <1>1, <1>2, <1>3, <1>4, <1>5, <1>6, <1>7, <1>8, <1>9, <1>10, <1>11, <1>12, <1>13,
     <1>14 DEF Next, Step

\* A step in which request r, whose tape nobody moved, erases in another drive than its own.
ErasesElsewhere(r) == Erasing(r) /\ ~Misled(r) /\ EraseDrive(r) # DriveOf[r]

LEMMA ElsewhereStep ==
  ASSUME TypeOK, MountInv, OnePlace, [Next]_vars, NEW r \in Requests, ErasesElsewhere(r)
  PROVE  /\ data' \in {data, data \ {inDrive[FirstDrive]}}
         /\ TapeNow(r) \in data <=> TapeNow(r) \in data'
<1> USE DEF ErasesElsewhere, Erasing, Goto, Row, Fails, drives, media, bounds, rows, history, OnTape
<1>a. /\ pc[r] = "erase" /\ pc'[r] # "erase" /\ pc'[r] # "done" /\ pc \in [Requests -> Points]
      /\ inDrive[DriveOf[r]] = TapeNow(r) /\ TapeNow(r) \in Tapes
      /\ DriveOf[r] \in Drives /\ EraseDrive(r) = FirstDrive
  BY NowIn, ConstantTypes DEF TypeOK, MountInv, EraseDrive
<1>b. inDrive[FirstDrive] # TapeNow(r)
  BY <1>a, ConstantTypes DEF OnePlace
<1>1. CASE Erase(r)
  BY <1>a, <1>b, <1>1 DEF Erase
<1>2. ASSUME NEW q \in Requests, Step(q), q # r PROVE FALSE
  BY <1>a, <1>2 DEF Step, Submit, Enqueue, BeginTape, CheckLock, Mount, Loads, Erase, Verify,
       Reset, Unload, Cancel
<1>3. CASE Step(r)
  BY <1>a, <1>1, <1>3 DEF Step, Submit, Enqueue, BeginTape, CheckLock, Mount, Loads, Verify,
       Reset, Unload, Cancel
<1>4. ASSUME NEW d \in Drives, NEW t \in Tapes \cup {NoTape}, MoveTape(d, t) PROVE FALSE
  BY <1>a, <1>4 DEF MoveTape
<1>5. ASSUME NEW t \in Tapes, LockTape(t) PROVE FALSE
  BY <1>a, <1>5 DEF LockTape
<1>6. CASE Restart
  BY <1>a, <1>6 DEF Restart, Working
<1>7. CASE UNCHANGED vars
  BY <1>a, <1>7 DEF vars
<1> QED
  BY <1>1, <1>2, <1>3, <1>4, <1>5, <1>6, <1>7 DEF Next

\* A request that names another drive than the first, and has its tape there, does not erase
\* it: what loses its data is the tape in the first drive, whichever it is
\* (src/backend/tape_controller.py:1989 and 1217, self.device and drive_sg).
THEOREM OtherDrivesSpared ==
  Spec => [][\A r \in Requests : ErasesElsewhere(r) =>
               /\ data' \in {data, data \ {inDrive[FirstDrive]}}
               /\ TapeNow(r) \in data <=> TapeNow(r) \in data']_vars
<1>1. Init => TypeOK /\ MountInv /\ OnePlace
  BY TypeInit DEF Init, MountInv, RecordInv, OnePlace
<1>2. (TypeOK /\ MountInv /\ OnePlace) /\ [Next]_vars => (TypeOK /\ MountInv /\ OnePlace)'
  <2> SUFFICES ASSUME TypeOK, MountInv, OnePlace, [Next]_vars
               PROVE  TypeOK' /\ MountInv' /\ OnePlace'
    OBVIOUS
  <2>1. RowsOK /\ MediaOK
    BY TypeParts
  <2> QED
    BY <2>1, TypeStep, MountStep, OnePlaceStep, NowIn
<1>3. (TypeOK /\ MountInv /\ OnePlace) /\ [Next]_vars =>
        [\A r \in Requests : ErasesElsewhere(r) =>
           /\ data' \in {data, data \ {inDrive[FirstDrive]}}
           /\ TapeNow(r) \in data <=> TapeNow(r) \in data']_vars
  BY ElsewhereStep
<1> QED
  BY <1>1, <1>2, <1>3, PTL DEF Spec

===============================================================================
