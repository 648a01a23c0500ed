------------------------- MODULE TapeControllerProofs -------------------------
(* Proofs about TapeController, for any number of tapes, slots and drives, and  *)
(* with or without faults.                                                      *)
EXTENDS TapeController, TLAPS

-----------------------------------------------------------------------------
(* The inductive invariant                                                 *)

\* Each place holds one tape, and the target of a pending move stays free.
LibraryOK ==
  /\ LibraryTypes
  /\ \A t, u \in Tapes : at[t] = at[u] => t = u
  /\ arm # Still => /\ Free(arm[2])
                    /\ arm[2] \in Drives => at[arm[1]] \in Slots

ForTape   == {"loadStatus", "loadScan", "loadIssue", "loadConfirm", "mountCheck",
              "mountDo", "using"}
Unloading == {"unloadCheck", "unloadPrepare", "unloadIssue", "unloadConfirm"}

\* A call knows the tape it is for, and an unload where to put its tape.
CallOK(d) ==
  /\ pc[d] \in ForTape => call[d].tape \in Tapes /\ call[d].goal # "unload"
  /\ pc[d] \in Unloading =>
       \/ call[d].goal = "unload"
       \/ call[d].tape \in Tapes /\ call[d].next \in {"loadScan", "loadIssue"}
  /\ pc[d] = "unloadIssue" => call[d].dest \in Slots

CallsOK == CallTypes /\ \A d \in Drives : CallOK(d)

Typed == LibraryOK /\ ControllerTypes /\ CallsOK

\* A move that the arm may still make to or from the first drive.
ArmInDoubt == arm # Still /\ FirstDrive \in {at[arm[1]], arm[2]} => FirstDrive \in doubt

\* A mounted tape stays in its drive.
MountsHold ==
  /\ arm # Still => \A d \in Drives : fs[d] # arm[1]
  /\ fs[FirstDrive] # NoTape => at[fs[FirstDrive]] = FirstDrive

\* A mount_ltfs that goes on after the load has its tape recorded, and a load that timed
\* out is in doubt.
MountKnows ==
  /\ pc[FirstDrive] = "mountDo" =>
       mounted[FirstDrive] = call[FirstDrive].tape \/ FirstDrive \in doubt
  /\ pc[FirstDrive] = "loadConfirm" => FirstDrive \in doubt

\* The slot the first drive's tape came from is free or was taken since.
OriginFree ==
  \A s \in Slots : origin[FirstDrive] = s => Free(s) \/ s \in taken

\* The slot remembered for the tape in the first drive is the one it came from.
HomeIsOrigin ==
  \A s \in Slots, t \in Tapes :
    home[FirstDrive] = <<s, t>> /\ at[t] = FirstDrive =>
      origin[FirstDrive] = s \/ FirstDrive \in doubt

LEMMA InDriveIs ==
  ASSUME NEW d \in Drives
  PROVE  /\ InDrive(d) \in Tapes \cup {NoTape}
         /\ InDrive(d) # NoTape => at[InDrive(d)] = d
<1>1. CASE \E t \in Tapes : at[t] = d
  BY <1>1 DEF InDrive
<1>2. CASE ~ \E t \in Tapes : at[t] = d
  BY <1>2 DEF InDrive
<1>q. QED
  BY <1>1, <1>2

-----------------------------------------------------------------------------
(* The library                                                             *)

LEMMA KeepsLibrary ==
  ASSUME LibraryOK, UNCHANGED library, fs' \in [Drives -> Tapes \cup {NoTape}]
  PROVE  LibraryOK'
BY DEF LibraryOK, LibraryTypes, library, Free

LEMMA MovesTyped ==
  ASSUME LibraryOK, NEW t \in Tapes, NEW to \in Places, Free(to),
         to \in Drives => at[t] \in Slots, Moves(t, to), arm' = Still, UNCHANGED fs
  PROVE  LibraryOK'
<1> USE LibraryAssumption DEF LibraryOK, LibraryTypes, Moves, Places
<1>1. at' \in [Tapes -> Places] /\ \A u, v \in Tapes : at'[u] = at'[v] => u = v
  BY DEF Free
<1>2. origin' \in [Drives -> Slots \cup {NoSlot}]
  OBVIOUS
<1>3. arm' \in {Still} \cup (Tapes \X Places) /\ taken' \subseteq Slots
  OBVIOUS
<1>q. QED
  BY <1>1, <1>2, <1>3

\* No command breaks the library.
LEMMA CommandTyped ==
  ASSUME LibraryOK, NEW from, NEW to \in Places, NEW effect,
         to \in Drives => from \in Slots \cup {NoSlot},
         Command(from, to, effect), UNCHANGED fs
  PROVE  LibraryOK'
<1>1. ASSUME NEW t \in Tapes, at[t] = from, CanMove(t, to)
      PROVE  Free(to) /\ arm = Still /\ (to \in Drives => at[t] \in Slots)
  BY <1>1, LibraryAssumption DEF CanMove, LibraryOK, LibraryTypes, Places
<1>2. ASSUME NEW t \in Tapes, at[t] = from, CanMove(t, to), Moves(t, to), UNCHANGED arm
      PROVE  LibraryOK'
  <2>1. Free(to) /\ arm' = Still /\ (to \in Drives => at[t] \in Slots)
    BY <1>1, <1>2
  <2>q. QED
    BY <1>2, <2>1, MovesTyped
<1>3. CASE UNCHANGED library
  BY <1>3, KeepsLibrary DEF LibraryOK, LibraryTypes
<1>4. ASSUME NEW t \in Tapes, at[t] = from, CanMove(t, to), arm' = <<t, to>>,
             UNCHANGED <<at, origin, taken>>
      PROVE  LibraryOK'
  <2>1. Free(to) /\ (to \in Drives => at[t] \in Slots)
    BY <1>1, <1>4
  <2>2. arm' \in Tapes \X Places /\ arm'[1] = t /\ arm'[2] = to
    BY <1>4
  <2>q. QED
    BY <1>4, <2>1, <2>2 DEF LibraryOK, LibraryTypes, Free
<1>q. QED
  BY <1>2, <1>3, <1>4 DEF Command

LEMMA LibraryStep == Typed /\ [Next]_vars => LibraryOK'
<1> SUFFICES ASSUME Typed, [Next]_vars PROVE LibraryOK'
  OBVIOUS
<1>u. CASE UNCHANGED vars
  BY <1>u DEF vars, library, Typed, LibraryOK, LibraryTypes, Free
<1>1. ASSUME NEW d \in Drives, NEW t \in Tapes, NEW g \in {"load", "mount"}, Call(d, g, t)
       PROVE  LibraryOK'
  BY <1>1, KeepsLibrary DEF Call, GotoWith, Typed, LibraryOK, LibraryTypes
<1>2. ASSUME NEW d \in Drives, Call(d, "unload", NoTape) PROVE LibraryOK'
  BY <1>2, KeepsLibrary DEF Call, GotoWith, Typed, LibraryOK, LibraryTypes
<1>3. ASSUME NEW d \in Drives, LoadStatus(d) PROVE LibraryOK'
  BY <1>3, KeepsLibrary
  DEF LoadStatus, Loaded, LoadReturns, Goto, GotoWith, Typed, LibraryOK, LibraryTypes
<1>4. ASSUME NEW d \in Drives, LoadScan(d) PROVE LibraryOK'
  BY <1>4, KeepsLibrary DEF LoadScan, Goto, GotoWith, Typed, LibraryOK, LibraryTypes
<1>5. ASSUME NEW d \in Drives, LoadIssue(d) PROVE LibraryOK'
  <2>1. PICK effect \in Effects : Command(call[d].slot, d, effect)
    BY <1>5 DEF LoadIssue
  <2>2. d \in Places /\ (d \in Drives => call[d].slot \in Slots \cup {NoSlot})
    BY <1>5, LibraryAssumption DEF LoadIssue, Typed, CallsOK, CallTypes, CallOK, Places
  <2>q. QED
    BY <1>5, <2>1, <2>2, CommandTyped DEF LoadIssue, Typed
<1>6. ASSUME NEW d \in Drives, LoadConfirm(d) PROVE LibraryOK'
  BY <1>6, KeepsLibrary
  DEF LoadConfirm, Loaded, LoadReturns, Goto, GotoWith, Typed, LibraryOK, LibraryTypes
<1>7. ASSUME NEW d \in Drives, UnloadCheck(d) PROVE LibraryOK'
  BY <1>7, KeepsLibrary
  DEF UnloadCheck, UnloadReturns, Goto, GotoWith, Typed, LibraryOK, LibraryTypes
<1>8. ASSUME NEW d \in Drives, UnloadPrepare(d) PROVE LibraryOK'
  BY <1>8, KeepsLibrary DEF UnloadPrepare, Goto, GotoWith, Typed, LibraryOK, LibraryTypes
<1>9. ASSUME NEW d \in Drives, UnloadIssue(d) PROVE LibraryOK'
  <2>1. PICK effect \in Effects : Command(d, call[d].dest, effect)
    BY <1>9 DEF UnloadIssue
  <2>2. call[d].dest \in Places /\ (call[d].dest \in Drives => d \in Slots \cup {NoSlot})
    BY <1>9, LibraryAssumption DEF UnloadIssue, Typed, CallsOK, CallTypes, CallOK, Places
  <2>q. QED
    BY <1>9, <2>1, <2>2, CommandTyped DEF UnloadIssue, Typed
<1>10. ASSUME NEW d \in Drives, UnloadConfirm(d) PROVE LibraryOK'
  BY <1>10, KeepsLibrary
  DEF UnloadConfirm, Unloaded, UnloadReturns, Goto, GotoWith, Typed, LibraryOK,
      LibraryTypes
<1>11. ASSUME NEW d \in Drives, MountCheck(d) PROVE LibraryOK'
  BY <1>11, KeepsLibrary DEF MountCheck, Goto, GotoWith, Typed, LibraryOK, LibraryTypes
<1>12. ASSUME NEW d \in Drives, MountDo(d) PROVE LibraryOK'
  BY <1>12, KeepsLibrary DEF MountDo, Goto, GotoWith, Typed, LibraryOK, LibraryTypes
<1>13. ASSUME NEW d \in Drives, Unmount(d) PROVE LibraryOK'
  BY <1>13, KeepsLibrary DEF Unmount, Goto, GotoWith, Typed, LibraryOK, LibraryTypes
<1>14. ASSUME ArmStops PROVE LibraryOK'
  <2>1. arm[1] \in Tapes /\ arm[2] \in Places /\ Free(arm[2])
    BY <1>14 DEF ArmStops, Typed, LibraryOK, LibraryTypes
  <2>q. QED
    BY <1>14, <2>1, MovesTyped DEF ArmStops, Typed, LibraryOK
<1>15. ASSUME NEW s \in Slots, NEW u \in Slots, Transfer(s, u) PROVE LibraryOK'
  <2>1. PICK effect \in Effects : Command(s, u, effect)
    BY <1>15 DEF Transfer
  <2>2. u \in Places /\ (u \in Drives => s \in Slots \cup {NoSlot})
    BY <1>15, LibraryAssumption DEF Transfer, Typed, CallsOK, CallTypes, CallOK, Places
  <2>q. QED
    BY <1>15, <2>1, <2>2, CommandTyped DEF Transfer, Typed
<1>16. ASSUME NEW s \in Slots, NEW d \in Drives, MoveToDrive(s, d)
       PROVE  LibraryOK'
  <2>1. PICK effect \in Effects : Command(s, d, effect)
    BY <1>16 DEF MoveToDrive
  <2>2. d \in Places /\ (d \in Drives => s \in Slots \cup {NoSlot})
    BY <1>16, LibraryAssumption DEF MoveToDrive, Typed, CallsOK, CallTypes, CallOK, Places
  <2>q. QED
    BY <1>16, <2>1, <2>2, CommandTyped DEF MoveToDrive, Typed
<1>17. ASSUME NEW s \in Slots, NEW d \in Drives, MoveToSlot(d, s)
       PROVE  LibraryOK'
  <2>1. PICK effect \in Effects : Command(d, s, effect)
    BY <1>17 DEF MoveToSlot
  <2>2. s \in Places /\ (s \in Drives => d \in Slots \cup {NoSlot})
    BY <1>17, LibraryAssumption DEF MoveToSlot, Typed, CallsOK, CallTypes, CallOK, Places
  <2>q. QED
    BY <1>17, <2>1, <2>2, CommandTyped DEF MoveToSlot, Typed
<1>18. ASSUME Restart PROVE LibraryOK'
  BY <1>18, KeepsLibrary, LibraryAssumption DEF Restart, Typed, LibraryOK, LibraryTypes
<1>q. QED
  BY <1>1, <1>2, <1>3, <1>4, <1>5, <1>6, <1>7, <1>8, <1>9, <1>10, <1>11, <1>12, <1>13,
  <1>14, <1>15, <1>16, <1>17, <1>18, <1>u DEF Next, CallStep, Operator

-----------------------------------------------------------------------------
(* The controller's records                                                *)

LEMMA LoadedTyped ==
  ASSUME Typed, NEW d \in Drives, call[d].tape \in Tapes, NEW s \in Slots \cup {NoSlot},
         Loaded(d, s)
  PROVE  /\ mounted' \in [Drives -> Tapes \cup {NoTape}]
         /\ home' \in [Drives -> (Slots \cup {NoSlot}) \X (Tapes \cup {NoTape})]
BY DEF Typed, ControllerTypes, Loaded

LEMMA UnloadedTyped ==
  ASSUME Typed, NEW d \in Drives, Unloaded(d)
  PROVE  /\ mounted' \in [Drives -> Tapes \cup {NoTape}]
         /\ home' \in [Drives -> (Slots \cup {NoSlot}) \X (Tapes \cup {NoTape})]
BY DEF Typed, ControllerTypes, Unloaded, NoHome

LEMMA CallFields ==
  ASSUME Typed, NEW d \in Drives
  PROVE  /\ call[d].slot \in Slots \cup {NoSlot}
         /\ call[d].held \in Tapes \cup {NoTape}
         /\ pc[d] \in ForTape => call[d].tape \in Tapes
         /\ mounted[d] \in Tapes \cup {NoTape}
         /\ origin[d] \in Slots \cup {NoSlot}
BY DEF Typed, CallsOK, CallTypes, CallOK, ControllerTypes, LibraryOK, LibraryTypes

LEMMA ControllerStep == Typed /\ [Next]_vars => ControllerTypes'
<1> SUFFICES ASSUME Typed, [Next]_vars PROVE ControllerTypes'
  OBVIOUS
<1>u. CASE UNCHANGED vars
  BY <1>u DEF vars, controller, Typed, ControllerTypes
<1>1. ASSUME NEW d \in Drives, NEW t \in Tapes, NEW g \in {"load", "mount"}, Call(d, g, t)
       PROVE  ControllerTypes'
  BY <1>1 DEF Call, GotoWith, Typed, ControllerTypes, controller
<1>2. ASSUME NEW d \in Drives, Call(d, "unload", NoTape) PROVE ControllerTypes'
  BY <1>2 DEF Call, GotoWith, Typed, ControllerTypes, controller
<1>3. ASSUME NEW d \in Drives, LoadStatus(d) PROVE ControllerTypes'
  <2>1. doubt' \subseteq Drives
    BY <1>3 DEF LoadStatus, Doubtful, Overtaken, Running, Settled, Typed, ControllerTypes
  <2>2. call[d].tape \in Tapes /\ origin[FirstDrive] \in Slots \cup {NoSlot}
    BY <1>3, CallFields, LibraryAssumption
    DEF LoadStatus, ForTape, Typed, LibraryOK, LibraryTypes
  <2>3. CASE Loaded(d, origin[FirstDrive])
    BY <2>1, <2>2, <2>3, LoadedTyped DEF ControllerTypes
  <2>4. CASE UNCHANGED controller
    BY <2>1, <2>4 DEF Typed, ControllerTypes, controller
  <2>q. QED
    BY <2>3, <2>4, <1>3 DEF LoadStatus
<1>4. ASSUME NEW d \in Drives, LoadScan(d) PROVE ControllerTypes'
  BY <1>4 DEF LoadScan, Goto, GotoWith, Typed, ControllerTypes, controller
<1>5. ASSUME NEW d \in Drives, LoadIssue(d) PROVE ControllerTypes'
  <2>1. doubt' \subseteq Drives
    BY <1>5 DEF LoadIssue, Doubtful, Overtaken, Running, Settled, Typed, ControllerTypes
  <2>2. call[d].tape \in Tapes /\ call[d].slot \in Slots \cup {NoSlot}
    BY <1>5, CallFields, LibraryAssumption
    DEF LoadIssue, ForTape, Typed, LibraryOK, LibraryTypes
  <2>3. CASE Loaded(d, call[d].slot)
    BY <2>1, <2>2, <2>3, LoadedTyped DEF ControllerTypes
  <2>4. CASE UNCHANGED controller
    BY <2>1, <2>4 DEF Typed, ControllerTypes, controller
  <2>q. QED
    BY <2>3, <2>4, <1>5 DEF LoadIssue
<1>6. ASSUME NEW d \in Drives, LoadConfirm(d) PROVE ControllerTypes'
  <2>1. doubt' \subseteq Drives
    BY <1>6 DEF LoadConfirm, Doubtful, Overtaken, Running, Settled, Typed, ControllerTypes
  <2>2. call[d].tape \in Tapes /\ call[d].slot \in Slots \cup {NoSlot}
    BY <1>6, CallFields, LibraryAssumption
    DEF LoadConfirm, ForTape, Typed, LibraryOK, LibraryTypes
  <2>3. CASE Loaded(d, call[d].slot)
    BY <2>1, <2>2, <2>3, LoadedTyped DEF ControllerTypes
  <2>4. CASE UNCHANGED controller
    BY <2>1, <2>4 DEF Typed, ControllerTypes, controller
  <2>q. QED
    BY <2>3, <2>4, <1>6 DEF LoadConfirm
<1>7. ASSUME NEW d \in Drives, UnloadCheck(d) PROVE ControllerTypes'
  BY <1>7, InDriveIs, LibraryAssumption DEF UnloadCheck, Typed, ControllerTypes, LibraryOK,
                                            LibraryTypes
<1>8. ASSUME NEW d \in Drives, UnloadPrepare(d) PROVE ControllerTypes'
  BY <1>8 DEF UnloadPrepare, Goto, GotoWith, Typed, ControllerTypes, controller
<1>9. ASSUME NEW d \in Drives, UnloadIssue(d) PROVE ControllerTypes'
  <2>1. doubt' \subseteq Drives
    BY <1>9 DEF UnloadIssue, Doubtful, Overtaken, Running, Settled, Typed, ControllerTypes
  <2>2. CASE Unloaded(d)
    BY <2>1, <2>2, UnloadedTyped DEF ControllerTypes
  <2>3. CASE UNCHANGED controller
    BY <2>1, <2>3 DEF Typed, ControllerTypes, controller
  <2>q. QED
    BY <2>2, <2>3, <1>9 DEF UnloadIssue
<1>10. ASSUME NEW d \in Drives, UnloadConfirm(d) PROVE ControllerTypes'
  <2>1. doubt' \subseteq Drives
    BY <1>10 DEF UnloadConfirm, Doubtful, Overtaken, Running, Settled, Typed, ControllerTypes
  <2>2. CASE Unloaded(d)
    BY <2>1, <2>2, UnloadedTyped DEF ControllerTypes
  <2>3. CASE UNCHANGED controller
    BY <2>1, <2>3 DEF Typed, ControllerTypes, controller
  <2>q. QED
    BY <2>2, <2>3, <1>10 DEF UnloadConfirm
<1>11. ASSUME NEW d \in Drives, MountCheck(d) PROVE ControllerTypes'
  BY <1>11 DEF MountCheck, Goto, GotoWith, Typed, ControllerTypes, controller
<1>12. ASSUME NEW d \in Drives, MountDo(d) PROVE ControllerTypes'
  BY <1>12 DEF MountDo, Goto, GotoWith, Typed, ControllerTypes, controller
<1>13. ASSUME NEW d \in Drives, Unmount(d) PROVE ControllerTypes'
  BY <1>13 DEF Unmount, Goto, GotoWith, Typed, ControllerTypes, controller
<1>14. ASSUME ArmStops PROVE ControllerTypes'
  BY <1>14
  DEF ArmStops, Doubtful, Overtaken, Running, Settled, Typed, ControllerTypes, controller
<1>15. ASSUME NEW s \in Slots, NEW u \in Slots, Transfer(s, u)
       PROVE  ControllerTypes'
  BY <1>15
  DEF Transfer, Doubtful, Overtaken, Running, Settled, Typed, ControllerTypes, controller
<1>16. ASSUME NEW s \in Slots, NEW d \in Drives, MoveToDrive(s, d)
       PROVE  ControllerTypes'
  BY <1>16 DEF MoveToDrive, Doubtful, Overtaken, Running, Settled, Typed, ControllerTypes
<1>17. ASSUME NEW s \in Slots, NEW d \in Drives, MoveToSlot(d, s)
       PROVE  ControllerTypes'
  <2>1. doubt' \subseteq Drives
    BY <1>17 DEF MoveToSlot, Doubtful, Overtaken, Running, Settled, Typed, ControllerTypes
  <2>q. QED
    BY <2>1, <1>17 DEF MoveToSlot, NoHome, Typed, ControllerTypes, controller
<1>18. ASSUME Restart PROVE ControllerTypes'
  BY <1>18, InDriveIs, LibraryAssumption
  DEF Restart, Doubtful, Overtaken, Running, Settled, Typed,
    ControllerTypes
<1>q. QED
  BY <1>1, <1>2, <1>3, <1>4, <1>5, <1>6, <1>7, <1>8, <1>9, <1>10, <1>11, <1>12, <1>13,
  <1>14, <1>15, <1>16, <1>17, <1>18, <1>u DEF Next, CallStep, Operator

-----------------------------------------------------------------------------
(* The calls                                                               *)

CallRecords ==
  [goal : {"none", "load", "mount", "unload"}, tape : Tapes \cup {NoTape},
   slot : Slots \cup {NoSlot}, held : Tapes \cup {NoTape},
   dest : Slots \cup {NoSlot}, next : {"none", "loadScan", "loadIssue"}]

LEMMA GotoWithOK ==
  ASSUME CallsOK, NEW d \in Drives, NEW to \in ForTape \cup Unloading \cup {"idle"},
         NEW c \in CallRecords,
         to \in ForTape => c.tape \in Tapes /\ c.goal # "unload",
         to \in Unloading =>
           c.goal = "unload" \/ (c.tape \in Tapes /\ c.next \in {"loadScan", "loadIssue"}),
         to = "unloadIssue" => c.dest \in Slots,
         pc' = [pc EXCEPT ![d] = to], call' = [call EXCEPT ![d] = c]
  PROVE  CallsOK'
<1>1. CallTypes'
  BY DEF CallsOK, CallTypes, CallRecords, ForTape, Unloading
<1>2. CallOK(d)'
  BY DEF CallsOK, CallTypes, CallRecords, CallOK
<1>3. ASSUME NEW e \in Drives, e # d PROVE CallOK(e)'
  BY <1>3 DEF CallsOK, CallTypes, CallOK
<1>q. QED
  BY <1>1, <1>2, <1>3 DEF CallsOK

LEMMA GotoOK ==
  ASSUME CallsOK, NEW d \in Drives, NEW to \in ForTape \cup Unloading \cup {"idle"},
         to \in ForTape => call[d].tape \in Tapes /\ call[d].goal # "unload",
         to \in Unloading =>
           \/ call[d].goal = "unload"
           \/ call[d].tape \in Tapes /\ call[d].next \in {"loadScan", "loadIssue"},
         to = "unloadIssue" => call[d].dest \in Slots,
         Goto(d, to)
  PROVE  CallsOK'
<1>1. CASE to = "idle"
  BY <1>1, GotoWithOK DEF Goto, NoCall, CallRecords, ForTape, Unloading
<1>2. CASE to # "idle"
  <2>1. call' = [call EXCEPT ![d] = call[d]] /\ pc' = [pc EXCEPT ![d] = to]
    BY <1>2 DEF Goto
  <2>q. QED
    BY <2>1, GotoWithOK DEF CallsOK, CallTypes, CallRecords
<1>q. QED
  BY <1>1, <1>2

\* What the point a call has reached says of it.
LEMMA CallKnows ==
  ASSUME Typed, NEW d \in Drives
  PROVE  /\ pc[d] \in ForTape => call[d].tape \in Tapes /\ call[d].goal # "unload"
         /\ pc[d] \in Unloading => \/ call[d].goal = "unload"
                                   \/ /\ call[d].tape \in Tapes
                                      /\ call[d].next \in {"loadScan", "loadIssue"}
                                      /\ call[d].goal # "unload"
         /\ CallsOK
BY DEF Typed, CallsOK, CallOK

LEMMA CallsStep == Typed /\ [Next]_vars => CallsOK'
<1> SUFFICES ASSUME Typed, [Next]_vars PROVE CallsOK'
  OBVIOUS
<1>u. CASE UNCHANGED vars
  BY <1>u DEF vars, Typed, CallsOK, CallTypes, CallOK
<1>1. ASSUME NEW d \in Drives, NEW t \in Tapes, NEW g \in {"load", "mount"}, Call(d, g, t)
       PROVE  CallsOK'
  BY <1>1, CallKnows, GotoWithOK DEF Call, GotoWith, NoCall, CallRecords, ForTape, Unloading
<1>2. ASSUME NEW d \in Drives, Call(d, "unload", NoTape) PROVE CallsOK'
  BY <1>2, CallKnows, GotoWithOK DEF Call, GotoWith, NoCall, CallRecords, ForTape, Unloading
<1>3. ASSUME NEW d \in Drives, LoadStatus(d) PROVE CallsOK'
  <2>1. pc[d] \in ForTape
    BY <1>3 DEF LoadStatus, ForTape
  <2>2. ASSUME LoadReturns(d) PROVE CallsOK'
    BY <2>1, <2>2, CallKnows, GotoOK DEF LoadReturns, ForTape, Unloading
  <2>3. CASE Goto(d, "loadScan")
    BY <2>1, <2>3, CallKnows, GotoOK DEF ForTape, Unloading
  <2>4. CASE GotoWith(d, "unloadCheck", [call[d] EXCEPT !.next = "loadScan"])
    <3> DEFINE c == [call[d] EXCEPT !.next = "loadScan"]
    <3>1. /\ c \in CallRecords /\ c.tape = call[d].tape /\ c.goal = call[d].goal
          /\ c.next = "loadScan"
      BY <2>1, <2>4, CallKnows DEF CallsOK, CallTypes, CallRecords
    <3>2. /\ pc' = [pc EXCEPT ![d] = "unloadCheck"]
          /\ call' = [call EXCEPT ![d] = c]
      BY <2>1, <2>4, CallKnows DEF GotoWith
    <3> HIDE DEF c
    <3>q. QED
      BY <2>1, <2>4, <3>1, <3>2, CallKnows, GotoWithOK DEF ForTape, Unloading
  <2>q. QED
    BY <1>3, <2>2, <2>3, <2>4 DEF LoadStatus, Loaded
<1>4. ASSUME NEW d \in Drives, LoadScan(d) PROVE CallsOK'
  <2> DEFINE s == at[call[d].tape]
  <2>1. pc[d] \in ForTape
    BY <1>4 DEF LoadScan, ForTape
  <2>2. ASSUME NEW to \in {"loadIssue", "unloadCheck"}, s \in Slots,
               GotoWith(d, to, [call[d] EXCEPT !.slot = s, !.next = "loadIssue"])
        PROVE  CallsOK'
    <3> DEFINE c == [call[d] EXCEPT !.slot = s, !.next = "loadIssue"]
    <3>1. /\ c \in CallRecords /\ c.tape = call[d].tape /\ c.goal = call[d].goal
          /\ c.next = "loadIssue"
      BY <2>1, <2>2, CallKnows DEF CallsOK, CallTypes, CallRecords
    <3>2. /\ pc' = [pc EXCEPT ![d] = to]
          /\ call' = [call EXCEPT ![d] = c]
      BY <2>1, <2>2, CallKnows DEF GotoWith
    <3> HIDE DEF c
    <3>q. QED
      BY <2>1, <2>2, <3>1, <3>2, CallKnows, GotoWithOK DEF ForTape, Unloading
  <2>3. CASE Goto(d, "idle")
    BY <2>3, CallKnows, GotoOK DEF ForTape, Unloading
  <2>q. QED
    BY <1>4, <2>2, <2>3 DEF LoadScan
<1>5. ASSUME NEW d \in Drives, LoadIssue(d) PROVE CallsOK'
  <2>1. pc[d] \in ForTape
    BY <1>5 DEF LoadIssue, ForTape
  <2>2. ASSUME LoadReturns(d) PROVE CallsOK'
    BY <2>1, <2>2, CallKnows, GotoOK DEF LoadReturns, ForTape, Unloading
  <2>3. ASSUME NEW to \in {"idle", "loadConfirm"}, Goto(d, to) PROVE CallsOK'
    BY <2>1, <2>3, CallKnows, GotoOK DEF ForTape, Unloading
  <2>q. QED
    BY <1>5, <2>2, <2>3 DEF LoadIssue, Loaded
<1>6. ASSUME NEW d \in Drives, LoadConfirm(d) PROVE CallsOK'
  <2>1. pc[d] \in ForTape
    BY <1>6 DEF LoadConfirm, ForTape
  <2>2. ASSUME LoadReturns(d) PROVE CallsOK'
    BY <2>1, <2>2, CallKnows, GotoOK DEF LoadReturns, ForTape, Unloading
  <2>3. ASSUME NEW to \in {"idle", "loadConfirm"}, Goto(d, to) PROVE CallsOK'
    BY <2>1, <2>3, CallKnows, GotoOK DEF ForTape, Unloading
  <2>q. QED
    BY <1>6, <2>2, <2>3 DEF LoadConfirm, Loaded
<1>7. ASSUME NEW d \in Drives, UnloadCheck(d) PROVE CallsOK'
  <2>1. pc[d] \in Unloading
    BY <1>7 DEF UnloadCheck, Unloading
  <2>2. ASSUME UnloadReturns(d) PROVE CallsOK'
    <3>1. CASE call[d].goal = "unload"
      BY <2>2, <3>1, CallKnows, GotoOK DEF UnloadReturns, ForTape, Unloading
    <3>2. CASE call[d].goal # "unload"
      BY <2>1, <2>2, <3>2, CallKnows, GotoOK DEF UnloadReturns, ForTape, Unloading
    <3>q. QED
      BY <3>1, <3>2
  <2>3. ASSUME NEW h \in Tapes \cup {NoTape},
               GotoWith(d, "unloadPrepare", [call[d] EXCEPT !.held = h])
        PROVE  CallsOK'
    <3> DEFINE c == [call[d] EXCEPT !.held = h]
    <3>1. /\ c \in CallRecords /\ c.tape = call[d].tape /\ c.goal = call[d].goal
          /\ c.next = call[d].next
      BY <2>1, <2>3, CallKnows DEF CallsOK, CallTypes, CallRecords
    <3>2. /\ pc' = [pc EXCEPT ![d] = "unloadPrepare"]
          /\ call' = [call EXCEPT ![d] = c]
      BY <2>1, <2>3, CallKnows DEF GotoWith
    <3> HIDE DEF c
    <3>q. QED
      BY <2>1, <2>3, <3>1, <3>2, CallKnows, GotoWithOK DEF ForTape, Unloading
  <2>q. QED
    BY <1>7, <2>2, <2>3, InDriveIs, CallFields, LibraryAssumption DEF UnloadCheck
<1>8. ASSUME NEW d \in Drives, UnloadPrepare(d) PROVE CallsOK'
  <2>1. pc[d] \in Unloading
    BY <1>8 DEF UnloadPrepare, Unloading
  <2>2. UnloadSlots(d) \subseteq Slots
    BY DEF UnloadSlots, FirstFreeSlot, HomeSlot, Typed, ControllerTypes
  <2>3. ASSUME NEW s \in Slots, GotoWith(d, "unloadIssue", [call[d] EXCEPT !.dest = s])
        PROVE  CallsOK'
    <3> DEFINE c == [call[d] EXCEPT !.dest = s]
    <3>1. /\ c \in CallRecords /\ c.tape = call[d].tape /\ c.goal = call[d].goal
          /\ c.next = call[d].next /\ c.dest = s
      BY <2>1, <2>3, CallKnows DEF CallsOK, CallTypes, CallRecords
    <3>2. /\ pc' = [pc EXCEPT ![d] = "unloadIssue"]
          /\ call' = [call EXCEPT ![d] = c]
      BY <2>1, <2>3, CallKnows DEF GotoWith
    <3> HIDE DEF c
    <3>q. QED
      BY <2>1, <2>3, <3>1, <3>2, CallKnows, GotoWithOK DEF ForTape, Unloading
  <2>4. CASE Goto(d, "idle")
    BY <2>4, CallKnows, GotoOK DEF ForTape, Unloading
  <2>q. QED
    BY <1>8, <2>2, <2>3, <2>4 DEF UnloadPrepare
<1>9. ASSUME NEW d \in Drives, UnloadIssue(d) PROVE CallsOK'
  <2>1. pc[d] \in Unloading
    BY <1>9 DEF UnloadIssue, Unloading
  <2>2. ASSUME UnloadReturns(d) PROVE CallsOK'
    <3>1. CASE call[d].goal = "unload"
      BY <2>2, <3>1, CallKnows, GotoOK DEF UnloadReturns, ForTape, Unloading
    <3>2. CASE call[d].goal # "unload"
      BY <2>1, <2>2, <3>2, CallKnows, GotoOK DEF UnloadReturns, ForTape, Unloading
    <3>q. QED
      BY <3>1, <3>2
  <2>3. ASSUME NEW to \in {"idle", "unloadConfirm"}, Goto(d, to) PROVE CallsOK'
    BY <2>1, <2>3, CallKnows, GotoOK DEF ForTape, Unloading
  <2>q. QED
    BY <1>9, <2>2, <2>3 DEF UnloadIssue, Unloaded
<1>10. ASSUME NEW d \in Drives, UnloadConfirm(d) PROVE CallsOK'
  <2>1. pc[d] \in Unloading
    BY <1>10 DEF UnloadConfirm, Unloading
  <2>2. ASSUME UnloadReturns(d) PROVE CallsOK'
    <3>1. CASE call[d].goal = "unload"
      BY <2>2, <3>1, CallKnows, GotoOK DEF UnloadReturns, ForTape, Unloading
    <3>2. CASE call[d].goal # "unload"
      BY <2>1, <2>2, <3>2, CallKnows, GotoOK DEF UnloadReturns, ForTape, Unloading
    <3>q. QED
      BY <3>1, <3>2
  <2>3. ASSUME NEW to \in {"idle", "unloadConfirm"}, Goto(d, to) PROVE CallsOK'
    BY <2>1, <2>3, CallKnows, GotoOK DEF ForTape, Unloading
  <2>q. QED
    BY <1>10, <2>2, <2>3 DEF UnloadConfirm, Unloaded
<1>11. ASSUME NEW d \in Drives, MountCheck(d) PROVE CallsOK'
  BY <1>11, CallKnows, GotoOK DEF MountCheck, ForTape, Unloading
<1>12. ASSUME NEW d \in Drives, MountDo(d) PROVE CallsOK'
  BY <1>12, CallKnows, GotoOK DEF MountDo, ForTape, Unloading
<1>13. ASSUME NEW d \in Drives, Unmount(d) PROVE CallsOK'
  BY <1>13, CallKnows, GotoOK DEF Unmount, ForTape, Unloading
<1>14. ASSUME ArmStops PROVE CallsOK'
  BY <1>14 DEF ArmStops, Typed, CallsOK, CallTypes, CallOK
<1>15. ASSUME NEW s \in Slots, NEW u \in Slots, Transfer(s, u) PROVE CallsOK'
  BY <1>15 DEF Transfer, Typed, CallsOK, CallTypes, CallOK
<1>16. ASSUME NEW s \in Slots, NEW d \in Drives, MoveToDrive(s, d) PROVE CallsOK'
  BY <1>16 DEF MoveToDrive, Typed, CallsOK, CallTypes, CallOK
<1>17. ASSUME NEW s \in Slots, NEW d \in Drives, MoveToSlot(d, s) PROVE CallsOK'
  BY <1>17 DEF MoveToSlot, Typed, CallsOK, CallTypes, CallOK
<1>18. ASSUME Restart PROVE CallsOK'
  BY <1>18 DEF Restart, NoCall, ForTape, Unloading, Typed, CallsOK, CallTypes, CallOK
<1>q. QED
  BY <1>1, <1>2, <1>3, <1>4, <1>5, <1>6, <1>7, <1>8, <1>9, <1>10, <1>11, <1>12, <1>13,
  <1>14, <1>15, <1>16, <1>17, <1>18, <1>u DEF Next, CallStep, Operator

LEMMA TypedInit == Init => Typed
<1> SUFFICES ASSUME Init PROVE Typed
  OBVIOUS
<1> USE LibraryAssumption DEF Init
<1>1. LibraryOK
  BY DEF LibraryOK, LibraryTypes, Still, Places
<1>2. ControllerTypes
  BY DEF ControllerTypes, NoHome
<1>3. CallsOK
  BY DEF CallsOK, CallTypes, CallOK, NoCall, ForTape, Unloading
<1>q. QED
  BY <1>1, <1>2, <1>3 DEF Typed

LEMMA TypedStep == Typed /\ [Next]_vars => Typed'
BY LibraryStep, ControllerStep, CallsStep DEF Typed

\* Every variable keeps its kind, and no place ever holds two tapes: TypeOK of
\* TapeController.
THEOREM TypeCorrect == Spec => []TypeOK
<1>1. Typed => TypeOK
  BY DEF Typed, TypeOK, LibraryOK, CallsOK
<1>q. QED
  BY TypedInit, TypedStep, <1>1, PTL DEF Spec

-----------------------------------------------------------------------------
(* The kinds of steps                                                      *)

\* What a command does: it moves a tape, is refused, or leaves the move to the arm.
LEMMA CommandEffect ==
  ASSUME LibraryOK, NEW from, NEW to, NEW effect, Command(from, to, effect)
  PROVE  /\ effect = "moved" =>
              /\ arm = Still /\ arm' = Still
              /\ \E t \in Tapes : at[t] = from /\ CanMove(t, to) /\ Moves(t, to)
         /\ effect # "moved" =>
              /\ UNCHANGED <<at, origin, taken>>
              /\ \/ UNCHANGED arm
                 \/ \E t \in Tapes : at[t] = from /\ CanMove(t, to) /\ arm' = <<t, to>>
BY DEF Command, CanMove, library

\* A tape that is elsewhere stays there.
LEMMA CommandStays ==
  ASSUME LibraryOK, NEW from, NEW to, NEW effect, Command(from, to, effect),
         NEW u \in Tapes, at[u] # from
  PROVE  at'[u] = at[u]
<1>1. CASE effect = "moved"
  <2>1. PICK t \in Tapes : at[t] = from /\ Moves(t, to)
    BY <1>1, CommandEffect
  <2>q. QED
    BY <2>1 DEF Moves, LibraryOK, LibraryTypes
<1>2. CASE effect # "moved"
  BY <1>2, CommandEffect
<1>q. QED
  BY <1>1, <1>2

\* A drive's mount point keeps its tape, loses it, or gets the tape in its device.
MountsKeep ==
  \A d \in Drives :
    \/ fs'[d] \in {fs[d], NoTape}
    \/ fs'[d] \in Tapes /\ at[fs'[d]] = MountDevice(d) /\ arm[1] # fs'[d]

QuietStep == UNCHANGED library /\ MountsKeep /\ (arm # Still => doubt \subseteq doubt')

CommandStep(from, to, effect) ==
  /\ Command(from, to, effect)
  /\ UNCHANGED fs
  /\ to \in Drives => from \in Slots \cup {NoSlot}
  /\ effect # "moved" =>
       doubt \subseteq doubt' /\ (FirstDrive \in {from, to} => FirstDrive \in doubt')

AnyCommand == \E from \in Places \cup {NoSlot}, to \in Places, effect \in Effects :
                CommandStep(from, to, effect)

LEMMA StepKinds == Typed /\ [Next]_vars => QuietStep \/ ArmStops \/ AnyCommand
<1> SUFFICES ASSUME Typed, [Next]_vars PROVE QuietStep \/ ArmStops \/ AnyCommand
  OBVIOUS
<1>u. CASE UNCHANGED vars
  BY <1>u DEF vars, library, QuietStep, MountsKeep, Typed, LibraryOK, LibraryTypes
<1>1. ASSUME NEW d \in Drives, NEW t \in Tapes, NEW g \in {"load", "mount"}, Call(d, g, t)
       PROVE  QuietStep \/ ArmStops \/ AnyCommand
  <2>1. QuietStep
    BY <1>1
    DEF Call, GotoWith, QuietStep, MountsKeep, Typed, LibraryOK, LibraryTypes, controller
  <2>q. QED
    BY <2>1
<1>2. ASSUME NEW d \in Drives, Call(d, "unload", NoTape)
       PROVE  QuietStep \/ ArmStops \/ AnyCommand
  <2>1. QuietStep
    BY <1>2
    DEF Call, GotoWith, QuietStep, MountsKeep, Typed, LibraryOK, LibraryTypes, controller
  <2>q. QED
    BY <2>1
<1>3. ASSUME NEW d \in Drives, LoadStatus(d)
       PROVE  QuietStep \/ ArmStops \/ AnyCommand
  <2>1. QuietStep
    BY <1>3
    DEF LoadStatus, Loaded, LoadReturns, Goto, GotoWith, Settled, QuietStep, MountsKeep,
        Typed, LibraryOK, LibraryTypes, controller
  <2>q. QED
    BY <2>1
<1>4. ASSUME NEW d \in Drives, LoadScan(d)
       PROVE  QuietStep \/ ArmStops \/ AnyCommand
  <2>1. QuietStep
    BY <1>4
    DEF LoadScan, Goto, GotoWith, QuietStep, MountsKeep, Typed, LibraryOK, LibraryTypes,
        controller
  <2>q. QED
    BY <2>1
<1>5. ASSUME NEW d \in Drives, LoadIssue(d)
       PROVE  QuietStep \/ ArmStops \/ AnyCommand
  <2>1. PICK effect \in Effects : /\ Command(call[d].slot, d, effect)
                                  /\ effect # "moved" => doubt \cup {d} \subseteq doubt'
    BY <1>5 DEF LoadIssue, Doubtful
  <2>2. call[d].slot \in Places \cup {NoSlot} /\ d \in Places
    BY <1>5, CallFields, CallKnows DEF LoadIssue, Places, CallsOK, CallOK
  <2>3. CommandStep(call[d].slot, d, effect)
    <3>1. UNCHANGED fs
      BY <1>5 DEF LoadIssue
    <3>2. d \in Drives => call[d].slot \in Slots \cup {NoSlot}
      BY <1>5, <2>2, CallFields, CallKnows, LibraryAssumption DEF LoadIssue, CallsOK, CallOK
    <3>3. FirstDrive \in {call[d].slot, d} => FirstDrive \in {d}
      BY <2>2, <1>5, CallFields, CallKnows, LibraryAssumption DEF LoadIssue, CallsOK, CallOK
    <3>4. effect # "moved" => /\ doubt \subseteq doubt'
                              /\ FirstDrive \in {call[d].slot, d} => FirstDrive \in doubt'
      BY <2>1, <3>3
    <3>q. QED
      BY <2>1, <3>1, <3>2, <3>4 DEF CommandStep
  <2>q. QED
    BY <2>1, <2>2, <2>3 DEF AnyCommand
<1>6. ASSUME NEW d \in Drives, LoadConfirm(d)
       PROVE  QuietStep \/ ArmStops \/ AnyCommand
  <2>1. QuietStep
    BY <1>6
    DEF LoadConfirm, Loaded, LoadReturns, Goto, GotoWith, Settled, QuietStep, MountsKeep,
        Typed, LibraryOK, LibraryTypes, controller
  <2>q. QED
    BY <2>1
<1>7. ASSUME NEW d \in Drives, UnloadCheck(d)
       PROVE  QuietStep \/ ArmStops \/ AnyCommand
  <2>1. QuietStep
    BY <1>7
    DEF UnloadCheck, UnloadReturns, Goto, GotoWith, QuietStep, MountsKeep, Typed,
        LibraryOK, LibraryTypes, controller
  <2>q. QED
    BY <2>1
<1>8. ASSUME NEW d \in Drives, UnloadPrepare(d)
       PROVE  QuietStep \/ ArmStops \/ AnyCommand
  <2>1. QuietStep
    BY <1>8
    DEF UnloadPrepare, Goto, GotoWith, QuietStep, MountsKeep, Typed, LibraryOK,
        LibraryTypes, controller
  <2>q. QED
    BY <2>1
<1>9. ASSUME NEW d \in Drives, UnloadIssue(d)
       PROVE  QuietStep \/ ArmStops \/ AnyCommand
  <2>1. PICK effect \in Effects : /\ Command(d, call[d].dest, effect)
                                  /\ effect # "moved" => doubt \cup {d} \subseteq doubt'
    BY <1>9 DEF UnloadIssue, Doubtful
  <2>2. d \in Places \cup {NoSlot} /\ call[d].dest \in Places
    BY <1>9, CallFields, CallKnows DEF UnloadIssue, Places, CallsOK, CallOK
  <2>3. CommandStep(d, call[d].dest, effect)
    <3>1. UNCHANGED fs
      BY <1>9 DEF UnloadIssue
    <3>2. call[d].dest \in Drives => d \in Slots \cup {NoSlot}
      BY <1>9, <2>2, CallFields, CallKnows, LibraryAssumption
      DEF UnloadIssue, CallsOK, CallOK
    <3>3. FirstDrive \in {d, call[d].dest} => FirstDrive \in {d}
      BY <2>2, <1>9, CallFields, CallKnows, LibraryAssumption
      DEF UnloadIssue, CallsOK, CallOK
    <3>4. effect # "moved" => /\ doubt \subseteq doubt'
                              /\ FirstDrive \in {d, call[d].dest} => FirstDrive \in doubt'
      BY <2>1, <3>3
    <3>q. QED
      BY <2>1, <3>1, <3>2, <3>4 DEF CommandStep
  <2>q. QED
    BY <2>1, <2>2, <2>3 DEF AnyCommand
<1>10. ASSUME NEW d \in Drives, UnloadConfirm(d)
       PROVE  QuietStep \/ ArmStops \/ AnyCommand
  <2>1. QuietStep
    BY <1>10
    DEF UnloadConfirm, Unloaded, UnloadReturns, Goto, GotoWith, QuietStep, MountsKeep,
        Typed, LibraryOK, LibraryTypes, controller
  <2>q. QED
    BY <2>1
<1>11. ASSUME NEW d \in Drives, MountCheck(d)
       PROVE  QuietStep \/ ArmStops \/ AnyCommand
  <2>1. QuietStep
    BY <1>11
    DEF MountCheck, Goto, GotoWith, QuietStep, MountsKeep, Typed, LibraryOK, LibraryTypes,
        controller
  <2>q. QED
    BY <2>1
<1>12. ASSUME NEW d \in Drives, MountDo(d)
       PROVE  QuietStep \/ ArmStops \/ AnyCommand
  <2>1. QuietStep
    BY <1>12
    DEF MountDo, Goto, GotoWith, QuietStep, MountsKeep, Typed, LibraryOK, LibraryTypes,
        controller
  <2>q. QED
    BY <2>1
<1>13. ASSUME NEW d \in Drives, Unmount(d)
       PROVE  QuietStep \/ ArmStops \/ AnyCommand
  <2>1. QuietStep
    BY <1>13
    DEF Unmount, Goto, GotoWith, QuietStep, MountsKeep, Typed, LibraryOK, LibraryTypes,
        controller
  <2>q. QED
    BY <2>1
<1>14. ASSUME ArmStops PROVE QuietStep \/ ArmStops \/ AnyCommand
  BY <1>14
<1>15. ASSUME NEW s \in Slots, NEW u \in Slots, Transfer(s, u)
       PROVE  QuietStep \/ ArmStops \/ AnyCommand
  <2>1. PICK effect \in Effects : /\ Command(s, u, effect)
                                  /\ effect # "moved" => doubt \subseteq doubt'
    BY <1>15 DEF Transfer, Doubtful
  <2>2. s \in Places \cup {NoSlot} /\ u \in Places
    BY <1>15, CallFields, CallKnows DEF Transfer, Places, CallsOK, CallOK
  <2>3. CommandStep(s, u, effect)
    <3>1. UNCHANGED fs
      BY <1>15 DEF Transfer
    <3>2. u \in Drives => s \in Slots \cup {NoSlot}
      BY <1>15, <2>2, CallFields, CallKnows, LibraryAssumption DEF Transfer, CallsOK, CallOK
    <3>3. FirstDrive \in {s, u} => FirstDrive \in {}
      BY <2>2, <1>15, CallFields, CallKnows, LibraryAssumption DEF Transfer, CallsOK, CallOK
    <3>4. effect # "moved" => /\ doubt \subseteq doubt'
                              /\ FirstDrive \in {s, u} => FirstDrive \in doubt'
      BY <2>1, <3>3
    <3>q. QED
      BY <2>1, <3>1, <3>2, <3>4 DEF CommandStep
  <2>q. QED
    BY <2>1, <2>2, <2>3 DEF AnyCommand
<1>16. ASSUME NEW s \in Slots, NEW d \in Drives, MoveToDrive(s, d)
       PROVE  QuietStep \/ ArmStops \/ AnyCommand
  <2>1. PICK effect \in Effects : /\ Command(s, d, effect)
                                  /\ effect # "moved" => doubt \cup {d} \subseteq doubt'
    BY <1>16 DEF MoveToDrive, Doubtful
  <2>2. s \in Places \cup {NoSlot} /\ d \in Places
    BY <1>16, CallFields, CallKnows DEF MoveToDrive, Places, CallsOK, CallOK
  <2>3. CommandStep(s, d, effect)
    <3>1. UNCHANGED fs
      BY <1>16 DEF MoveToDrive
    <3>2. d \in Drives => s \in Slots \cup {NoSlot}
      BY <1>16, <2>2, CallFields, CallKnows, LibraryAssumption
      DEF MoveToDrive, CallsOK, CallOK
    <3>3. FirstDrive \in {s, d} => FirstDrive \in {d}
      BY <2>2, <1>16, CallFields, CallKnows, LibraryAssumption
      DEF MoveToDrive, CallsOK, CallOK
    <3>4. effect # "moved" => /\ doubt \subseteq doubt'
                              /\ FirstDrive \in {s, d} => FirstDrive \in doubt'
      BY <2>1, <3>3
    <3>q. QED
      BY <2>1, <3>1, <3>2, <3>4 DEF CommandStep
  <2>q. QED
    BY <2>1, <2>2, <2>3 DEF AnyCommand
<1>17. ASSUME NEW s \in Slots, NEW d \in Drives, MoveToSlot(d, s)
       PROVE  QuietStep \/ ArmStops \/ AnyCommand
  <2>1. PICK effect \in Effects : /\ Command(d, s, effect)
                                  /\ effect # "moved" => doubt \cup {d} \subseteq doubt'
    BY <1>17 DEF MoveToSlot, Doubtful
  <2>2. d \in Places \cup {NoSlot} /\ s \in Places
    BY <1>17, CallFields, CallKnows DEF MoveToSlot, Places, CallsOK, CallOK
  <2>3. CommandStep(d, s, effect)
    <3>1. UNCHANGED fs
      BY <1>17 DEF MoveToSlot
    <3>2. s \in Drives => d \in Slots \cup {NoSlot}
      BY <1>17, <2>2, CallFields, CallKnows, LibraryAssumption
      DEF MoveToSlot, CallsOK, CallOK
    <3>3. FirstDrive \in {d, s} => FirstDrive \in {d}
      BY <2>2, <1>17, CallFields, CallKnows, LibraryAssumption
      DEF MoveToSlot, CallsOK, CallOK
    <3>4. effect # "moved" => /\ doubt \subseteq doubt'
                              /\ FirstDrive \in {d, s} => FirstDrive \in doubt'
      BY <2>1, <3>3
    <3>q. QED
      BY <2>1, <3>1, <3>2, <3>4 DEF CommandStep
  <2>q. QED
    BY <2>1, <2>2, <2>3 DEF AnyCommand
<1>18. ASSUME Restart PROVE QuietStep \/ ArmStops \/ AnyCommand
  <2>1. QuietStep
    BY <1>18
    DEF Restart, Settled, QuietStep, MountsKeep, Typed, LibraryOK, LibraryTypes, controller
  <2>q. QED
    BY <2>1
<1>q. QED
  BY <1>1, <1>2, <1>3, <1>4, <1>5, <1>6, <1>7, <1>8, <1>9, <1>10, <1>11, <1>12, <1>13,
  <1>14, <1>15, <1>16, <1>17, <1>18, <1>u DEF Next, CallStep, Operator

-----------------------------------------------------------------------------
(* Pending moves and mounted tapes                                         *)

LEMMA ArmStep == Typed /\ ArmInDoubt /\ [Next]_vars => ArmInDoubt'
<1> SUFFICES ASSUME Typed, ArmInDoubt, [Next]_vars PROVE ArmInDoubt'
  OBVIOUS
<1>1. CASE QuietStep
  BY <1>1 DEF QuietStep, library, ArmInDoubt
<1>2. CASE ArmStops
  BY <1>2 DEF ArmStops, ArmInDoubt
<1>3. ASSUME NEW from \in Places \cup {NoSlot}, NEW to \in Places, NEW effect \in Effects,
             CommandStep(from, to, effect)
      PROVE  ArmInDoubt'
  <2>1. CASE effect = "moved"
    BY <1>3, <2>1, CommandEffect DEF CommandStep, ArmInDoubt, Typed
  <2>2. CASE effect # "moved"
    <3>1. CASE UNCHANGED arm
      BY <1>3, <2>2, <3>1, CommandEffect DEF CommandStep, ArmInDoubt, Typed
    <3>2. ASSUME NEW t \in Tapes, at[t] = from, arm' = <<t, to>> PROVE ArmInDoubt'
      BY <1>3, <2>2, <3>2, CommandEffect DEF CommandStep, ArmInDoubt, Typed
    <3>q. QED
      BY <1>3, <2>2, <3>1, <3>2, CommandEffect DEF CommandStep, Typed
  <2>q. QED
    BY <2>1, <2>2
<1>q. QED
  BY <1>1, <1>2, <1>3, StepKinds DEF AnyCommand

LEMMA MountsStep == Typed /\ MountsHold /\ [Next]_vars => MountsHold'
<1> SUFFICES ASSUME Typed, MountsHold, [Next]_vars PROVE MountsHold'
  OBVIOUS
<1> USE LibraryAssumption
<1>t. /\ fs \in [Drives -> Tapes \cup {NoTape}] /\ arm \in {Still} \cup (Tapes \X Places)
      /\ FirstDrive \in Drives /\ MountDevice(FirstDrive) = FirstDrive /\ NoTape \notin Tapes
  BY DEF Typed, LibraryOK, LibraryTypes, MountDevice
<1>1. CASE QuietStep
  <2>1. at' = at /\ arm' = arm
    BY <1>1 DEF QuietStep, library
  <2>2. arm # Still => arm[1] \in Tapes
    BY <1>t
  <2>q. QED
    BY <1>1, <1>t, <2>1, <2>2 DEF QuietStep, MountsKeep, MountsHold
<1>2. CASE ArmStops
  <2>1. /\ arm # Still /\ arm' = Still /\ UNCHANGED fs
        /\ at' = [at EXCEPT ![arm[1]] = arm[2]]
    BY <1>2 DEF ArmStops, Moves
  <2>q. QED
    BY <1>t, <2>1 DEF MountsHold, Typed, LibraryOK, LibraryTypes
<1>3. ASSUME NEW from \in Places \cup {NoSlot}, NEW to \in Places, NEW effect \in Effects,
             CommandStep(from, to, effect)
      PROVE  MountsHold'
  <2>1. CASE effect = "moved"
    <3>1. PICK t \in Tapes : CanMove(t, to) /\ Moves(t, to)
      BY <1>3, <2>1, CommandEffect DEF CommandStep, Typed
    <3>2. arm' = Still /\ UNCHANGED fs /\ \A d \in Drives : fs[d] # t
      BY <1>3, <2>1, <3>1, CommandEffect DEF CommandStep, Typed, CanMove
    <3>q. QED
      BY <1>t, <3>1, <3>2 DEF Moves, MountsHold, Typed, LibraryOK, LibraryTypes
  <2>2. CASE effect # "moved"
    <3>1. UNCHANGED <<at, fs>>
      BY <1>3, <2>2, CommandEffect DEF CommandStep, Typed
    <3>2. CASE UNCHANGED arm
      BY <3>1, <3>2 DEF MountsHold
    <3>3. ASSUME NEW t \in Tapes, CanMove(t, to), arm' = <<t, to>> PROVE MountsHold'
      BY <3>1, <3>3 DEF MountsHold, CanMove
    <3>q. QED
      BY <1>3, <2>2, <3>2, <3>3, CommandEffect DEF CommandStep, Typed
  <2>q. QED
    BY <2>1, <2>2
<1>q. QED
  BY <1>1, <1>2, <1>3, StepKinds DEF AnyCommand

LEMMA OriginStep == Typed /\ OriginFree /\ [Next]_vars => OriginFree'
<1> SUFFICES ASSUME Typed, OriginFree, [Next]_vars PROVE OriginFree'
  OBVIOUS
<1> USE LibraryAssumption
<1>t. /\ at \in [Tapes -> Places] /\ origin \in [Drives -> Slots \cup {NoSlot}]
      /\ \A t, u \in Tapes : at[t] = at[u] => t = u
      /\ arm # Still => arm[1] \in Tapes /\ arm[2] \in Places /\ Free(arm[2])
  BY DEF Typed, LibraryOK, LibraryTypes
<1>0. ASSUME NEW t \in Tapes, NEW to \in Places, Free(to), Moves(t, to) PROVE OriginFree'
  <2>1. at' = [at EXCEPT ![t] = to]
    BY <1>0 DEF Moves
  <2> SUFFICES ASSUME NEW s \in Slots, origin'[FirstDrive] = s PROVE Free(s)' \/ s \in taken'
    BY DEF OriginFree
  <2>2. CASE FirstDrive = to
    <3>1. at[t] = s
      BY <1>0, <2>2 DEF Moves
    <3>q. QED
      BY <1>t, <2>1, <2>2, <3>1 DEF Free
  <2>3. CASE FirstDrive # to
    <3>1. at[t] # FirstDrive /\ origin[FirstDrive] = s
      BY <1>0, <1>t, <2>3 DEF Moves
    <3>2. CASE s = to
      BY <1>0, <3>1, <3>2 DEF Moves
    <3>3. CASE s # to /\ Free(s)
      BY <1>t, <2>1, <3>3 DEF Free
    <3>4. CASE s # to /\ s \in taken /\ s # at[t]
      BY <1>0, <3>4 DEF Moves
    <3>5. CASE s # to /\ s = at[t]
      BY <1>t, <2>1, <3>5 DEF Free
    <3>q. QED
      BY <3>1, <3>2, <3>3, <3>4, <3>5 DEF OriginFree
  <2>q. QED
    BY <2>2, <2>3
<1>1. CASE UNCHANGED <<at, origin, taken>>
  BY <1>1 DEF OriginFree, Free
<1>2. CASE ArmStops
  BY <1>0, <1>2, <1>t DEF ArmStops
<1>3. ASSUME NEW from \in Places \cup {NoSlot}, NEW to \in Places, NEW effect \in Effects,
             CommandStep(from, to, effect), effect = "moved"
      PROVE  OriginFree'
  <2>1. PICK t \in Tapes : CanMove(t, to) /\ Moves(t, to)
    BY <1>3, CommandEffect DEF CommandStep, Typed
  <2>q. QED
    BY <1>0, <2>1 DEF CanMove
<1>q. QED
  BY <1>1, <1>2, <1>3, StepKinds, CommandEffect
  DEF AnyCommand, QuietStep, CommandStep, library, Typed

-----------------------------------------------------------------------------
(* Steps that do not concern the first drive                               *)

\* A call on another drive leaves all that belongs to the first drive alone.
OthersKeep ==
  /\ pc'[FirstDrive] = pc[FirstDrive] /\ call'[FirstDrive] = call[FirstDrive]
  /\ mounted'[FirstDrive] = mounted[FirstDrive] /\ home'[FirstDrive] = home[FirstDrive]
  /\ fs'[FirstDrive] = fs[FirstDrive]
  /\ FirstDrive \in doubt => FirstDrive \in doubt'

LEMMA OthersCall ==
  ASSUME Typed, NEW d \in Drives, d # FirstDrive, CallStep(d)
  PROVE  OthersKeep
<1> USE LibraryAssumption
<1>0. /\ fs \in [Drives -> Tapes \cup {NoTape}] /\ mounted \in [Drives -> Tapes \cup {NoTape}]
      /\ DOMAIN home = Drives /\ DOMAIN pc = Drives /\ DOMAIN call = Drives
      /\ home = [e \in Drives |-> home[e]] /\ pc = [e \in Drives |-> pc[e]]
      /\ call = [e \in Drives |-> call[e]]
  BY DEF Typed, LibraryOK, LibraryTypes, ControllerTypes, CallsOK, CallTypes
<1>1. ASSUME NEW t \in Tapes, NEW g \in {"load", "mount"}, Call(d, g, t) PROVE OthersKeep
  BY <1>1, <1>0 DEF Call, GotoWith, OthersKeep, controller
<1>2. ASSUME Call(d, "unload", NoTape) PROVE OthersKeep
  BY <1>2, <1>0 DEF Call, GotoWith, OthersKeep, controller
<1>3. ASSUME LoadStatus(d) PROVE OthersKeep
  BY <1>3, <1>0
  DEF LoadStatus, Loaded, LoadReturns, Goto, GotoWith, Settled, OthersKeep, controller
<1>4. ASSUME LoadScan(d) PROVE OthersKeep
  BY <1>4, <1>0 DEF LoadScan, Goto, GotoWith, OthersKeep, controller
<1>5. ASSUME LoadIssue(d) PROVE OthersKeep
  BY <1>5, <1>0
  DEF LoadIssue, Loaded, LoadReturns, Goto, GotoWith, Doubtful, Overtaken, Running,
      OthersKeep, controller
<1>6. ASSUME LoadConfirm(d) PROVE OthersKeep
  BY <1>6, <1>0
  DEF LoadConfirm, Loaded, LoadReturns, Goto, GotoWith, Settled, OthersKeep, controller
<1>7. ASSUME UnloadCheck(d) PROVE OthersKeep
  BY <1>7, <1>0 DEF UnloadCheck, UnloadReturns, Goto, GotoWith, OthersKeep, controller
<1>8. ASSUME UnloadPrepare(d) PROVE OthersKeep
  BY <1>8, <1>0 DEF UnloadPrepare, Goto, GotoWith, OthersKeep, controller
<1>9. ASSUME UnloadIssue(d) PROVE OthersKeep
  BY <1>9, <1>0
  DEF UnloadIssue, Unloaded, UnloadReturns, Goto, GotoWith, Doubtful, Overtaken, Running,
      OthersKeep, controller
<1>10. ASSUME UnloadConfirm(d) PROVE OthersKeep
  BY <1>10, <1>0
  DEF UnloadConfirm, Unloaded, UnloadReturns, Goto, GotoWith, OthersKeep, controller
<1>11. ASSUME MountCheck(d) PROVE OthersKeep
  BY <1>11, <1>0 DEF MountCheck, Goto, GotoWith, OthersKeep, controller
<1>12. ASSUME MountDo(d) PROVE OthersKeep
  BY <1>12, <1>0 DEF MountDo, Goto, GotoWith, OthersKeep, controller
<1>13. ASSUME Unmount(d) PROVE OthersKeep
  BY <1>13, <1>0 DEF Unmount, Goto, GotoWith, OthersKeep, controller
<1>q. QED
  BY <1>1, <1>2, <1>3, <1>4, <1>5, <1>6, <1>7, <1>8, <1>9, <1>10, <1>11, <1>12, <1>13 DEF
  CallStep

\* A command that neither takes a tape from the first drive nor brings one to it.
LEMMA OthersOrigin ==
  ASSUME Typed, NEW from, NEW to, NEW effect, Command(from, to, effect),
         FirstDrive # from, FirstDrive # to
  PROVE  /\ origin'[FirstDrive] = origin[FirstDrive]
         /\ \A t \in Tapes : at'[t] = FirstDrive <=> at[t] = FirstDrive
<1> USE LibraryAssumption
<1>1. CASE effect = "moved"
  <2>1. PICK t \in Tapes : at[t] = from /\ Moves(t, to)
    BY <1>1, CommandEffect DEF Typed
  <2>q. QED
    BY <2>1 DEF Moves, Typed, LibraryOK, LibraryTypes
<1>2. CASE effect # "moved"
  BY <1>2, CommandEffect DEF Typed
<1>q. QED
  BY <1>1, <1>2

LEMMA OthersRecord ==
  ASSUME Typed, RecordIsRight, NEW from, NEW to, NEW effect, Command(from, to, effect),
         FirstDrive # from, mounted'[FirstDrive] = mounted[FirstDrive],
         FirstDrive \in doubt => FirstDrive \in doubt'
  PROVE  RecordIsRight'
BY CommandStays, LibraryAssumption DEF RecordIsRight, Typed, ControllerTypes

-----------------------------------------------------------------------------
(* The record of the first drive                                           *)

LEMMA PlacesDiffer ==
  /\ FirstDrive \in Drives
  /\ \A s \in Slots \cup {NoSlot} : FirstDrive # s
BY LibraryAssumption

LEMMA RecordStep == Typed /\ ArmInDoubt /\ RecordIsRight /\ [Next]_vars => RecordIsRight'
<1> SUFFICES ASSUME Typed, ArmInDoubt, RecordIsRight, [Next]_vars PROVE RecordIsRight'
  OBVIOUS
<1>u. CASE UNCHANGED vars
  BY <1>u DEF vars, library, controller, RecordIsRight
<1>1. ASSUME NEW d \in Drives, NEW t \in Tapes, NEW g \in {"load", "mount"}, Call(d, g, t)
       PROVE  RecordIsRight'
  BY <1>1, LibraryAssumption DEF Call, GotoWith, RecordIsRight, library, controller
<1>2. ASSUME NEW d \in Drives, Call(d, "unload", NoTape) PROVE RecordIsRight'
  BY <1>2, LibraryAssumption DEF Call, GotoWith, RecordIsRight, library, controller
<1>3. ASSUME NEW d \in Drives, LoadStatus(d) PROVE RecordIsRight'
  <2>1. UNCHANGED library
    BY <1>3 DEF LoadStatus
  <2>2. CASE UNCHANGED <<controller, doubt>>
    BY <2>1, <2>2 DEF RecordIsRight, library, controller
  <2>3. CASE /\ InDrive(FirstDrive) = call[d].tape
             /\ mounted' = [mounted EXCEPT ![d] = call[d].tape]
             /\ doubt' = doubt \ Settled(d)
    <3>1. at[call[d].tape] = FirstDrive /\ UNCHANGED at
      BY <1>3, <2>1, <2>3, InDriveIs, CallKnows, LibraryAssumption
      DEF LoadStatus, ForTape, library
    <3>2. CASE d = FirstDrive
      BY <2>3, <3>1, <3>2 DEF RecordIsRight, Typed, ControllerTypes
    <3>3. CASE d # FirstDrive
      BY <2>3, <3>1, <3>3 DEF RecordIsRight, Settled, Typed, ControllerTypes
    <3>q. QED
      BY <3>2, <3>3
  <2>q. QED
    BY <1>3, <2>2, <2>3 DEF LoadStatus, Loaded
<1>4. ASSUME NEW d \in Drives, LoadScan(d) PROVE RecordIsRight'
  BY <1>4, LibraryAssumption DEF LoadScan, Goto, GotoWith, RecordIsRight, library, controller
<1>5. ASSUME NEW d \in Drives, LoadIssue(d) PROVE RecordIsRight'
  <2>0. d # FirstDrive => OthersKeep
    BY <1>5, OthersCall DEF CallStep
  <2>1. PICK effect \in Effects :
          /\ Command(call[d].slot, d, effect)
          /\ \/ doubt \cup {d} \subseteq doubt'
             \/ /\ effect = "moved" /\ at[call[d].tape] = call[d].slot
                /\ mounted' = [mounted EXCEPT ![d] = call[d].tape]
    BY <1>5 DEF LoadIssue, Loaded, Doubtful
  <2>2. CASE d # FirstDrive
    BY <2>0, <2>1, <2>2, OthersRecord, CallFields, PlacesDiffer DEF OthersKeep
  <2>3. CASE d = FirstDrive /\ FirstDrive \in doubt'
    BY <2>3 DEF RecordIsRight
  <2>4. CASE /\ d = FirstDrive /\ effect = "moved" /\ at[call[d].tape] = call[d].slot
             /\ mounted' = [mounted EXCEPT ![d] = call[d].tape]
    <3>1. call[d].tape \in Tapes
      BY <1>5, CallFields DEF LoadIssue, ForTape
    <3>2. at'[call[d].tape] = d
      BY <2>1, <2>4, <3>1, CommandEffect DEF Moves, Typed, LibraryOK, LibraryTypes
    <3>q. QED
      BY <2>4, <3>2 DEF RecordIsRight, Typed, ControllerTypes
  <2>q. QED
    BY <2>1, <2>2, <2>3, <2>4
<1>6. ASSUME NEW d \in Drives, LoadConfirm(d) PROVE RecordIsRight'
  <2>1. UNCHANGED library
    BY <1>6 DEF LoadConfirm
  <2>2. CASE UNCHANGED <<controller, doubt>>
    BY <2>1, <2>2 DEF RecordIsRight, library, controller
  <2>3. CASE /\ InDrive(FirstDrive) = call[d].tape
             /\ mounted' = [mounted EXCEPT ![d] = call[d].tape]
             /\ doubt' = doubt \ Settled(d)
    <3>1. at[call[d].tape] = FirstDrive /\ UNCHANGED at
      BY <1>6, <2>1, <2>3, InDriveIs, CallKnows, LibraryAssumption
      DEF LoadConfirm, ForTape, library
    <3>2. CASE d = FirstDrive
      BY <2>3, <3>1, <3>2 DEF RecordIsRight, Typed, ControllerTypes
    <3>3. CASE d # FirstDrive
      BY <2>3, <3>1, <3>3 DEF RecordIsRight, Settled, Typed, ControllerTypes
    <3>q. QED
      BY <3>2, <3>3
  <2>q. QED
    BY <1>6, <2>2, <2>3 DEF LoadConfirm, Loaded
<1>7. ASSUME NEW d \in Drives, UnloadCheck(d) PROVE RecordIsRight'
  BY <1>7, LibraryAssumption
  DEF UnloadCheck, UnloadReturns, Goto, GotoWith, RecordIsRight, library, controller
<1>8. ASSUME NEW d \in Drives, UnloadPrepare(d) PROVE RecordIsRight'
  BY <1>8, LibraryAssumption
  DEF UnloadPrepare, Goto, GotoWith, RecordIsRight, library, controller
<1>9. ASSUME NEW d \in Drives, UnloadIssue(d) PROVE RecordIsRight'
  <2>0. d # FirstDrive => OthersKeep
    BY <1>9, OthersCall DEF CallStep
  <2>1. PICK effect \in Effects :
          /\ Command(d, call[d].dest, effect)
          /\ d \in doubt' \/ mounted' = [mounted EXCEPT ![d] = NoTape]
    BY <1>9 DEF UnloadIssue, Unloaded, Doubtful
  <2>2. CASE d # FirstDrive
    BY <2>0, <2>1, <2>2, OthersRecord DEF OthersKeep
  <2>3. CASE d = FirstDrive
    BY <2>1, <2>3 DEF RecordIsRight, Typed, ControllerTypes
  <2>q. QED
    BY <2>2, <2>3
<1>10. ASSUME NEW d \in Drives, UnloadConfirm(d) PROVE RecordIsRight'
  <2>1. mounted'[FirstDrive] \in {mounted[FirstDrive], NoTape}
    BY <1>10, LibraryAssumption
    DEF UnloadConfirm, Unloaded, controller, Typed, ControllerTypes
  <2>q. QED
    BY <1>10, <2>1 DEF UnloadConfirm, RecordIsRight, library
<1>11. ASSUME NEW d \in Drives, MountCheck(d) PROVE RecordIsRight'
  BY <1>11, LibraryAssumption
  DEF MountCheck, Goto, GotoWith, RecordIsRight, library, controller
<1>12. ASSUME NEW d \in Drives, MountDo(d) PROVE RecordIsRight'
  BY <1>12, LibraryAssumption DEF MountDo, Goto, GotoWith, RecordIsRight, library, controller
<1>13. ASSUME NEW d \in Drives, Unmount(d) PROVE RecordIsRight'
  BY <1>13, LibraryAssumption DEF Unmount, Goto, GotoWith, RecordIsRight, library, controller
<1>14. ASSUME ArmStops PROVE RecordIsRight'
  <2>1. /\ arm # Still /\ at' = [at EXCEPT ![arm[1]] = arm[2]] /\ UNCHANGED mounted
        /\ doubt \subseteq doubt'
    BY <1>14 DEF ArmStops, Moves, controller
  <2>2. CASE at[arm[1]] = FirstDrive
    BY <2>1, <2>2 DEF ArmInDoubt, RecordIsRight
  <2>3. CASE at[arm[1]] # FirstDrive
    BY <2>1, <2>3 DEF RecordIsRight, Typed, LibraryOK, LibraryTypes, ControllerTypes
  <2>q. QED
    BY <2>2, <2>3
<1>15. ASSUME NEW s \in Slots, NEW u \in Slots, Transfer(s, u)
       PROVE  RecordIsRight'
  <2>1. PICK effect \in Effects : Command(s, u, effect)
    BY <1>15 DEF Transfer
  <2>2. UNCHANGED mounted /\ doubt \subseteq doubt'
    BY <1>15 DEF Transfer, controller
  <2>q. QED
    BY <2>1, <2>2, OthersRecord, PlacesDiffer
<1>16. ASSUME NEW s \in Slots, NEW d \in Drives, MoveToDrive(s, d)
       PROVE  RecordIsRight'
  <2>1. PICK effect \in Effects : Command(s, d, effect)
    BY <1>16 DEF MoveToDrive
  <2>2. UNCHANGED mounted /\ doubt \subseteq doubt'
    BY <1>16 DEF MoveToDrive
  <2>q. QED
    BY <2>1, <2>2, OthersRecord, PlacesDiffer
<1>17. ASSUME NEW s \in Slots, NEW d \in Drives, MoveToSlot(d, s)
       PROVE  RecordIsRight'
  <2>1. PICK effect \in Effects :
          /\ Command(d, s, effect)
          /\ doubt \subseteq doubt'
          /\ \/ mounted' = [mounted EXCEPT ![d] = NoTape]
             \/ UNCHANGED mounted /\ d \in doubt'
    BY <1>17 DEF MoveToSlot, controller
  <2>2. CASE d # FirstDrive
    BY <2>1, <2>2, OthersRecord, PlacesDiffer DEF Typed, ControllerTypes
  <2>3. CASE d = FirstDrive
    BY <2>1, <2>3 DEF RecordIsRight, Typed, ControllerTypes
  <2>q. QED
    BY <2>2, <2>3
<1>18. ASSUME Restart PROVE RecordIsRight'
  <2>1. mounted'[FirstDrive] \in {InDrive(FirstDrive), NoTape} /\ UNCHANGED at
    BY <1>18, PlacesDiffer DEF Restart, library
  <2>q. QED
    BY <2>1, InDriveIs, PlacesDiffer DEF RecordIsRight
<1>q. QED
  BY <1>1, <1>2, <1>3, <1>4, <1>5, <1>6, <1>7, <1>8, <1>9, <1>10, <1>11, <1>12, <1>13,
  <1>14, <1>15, <1>16, <1>17, <1>18, <1>u DEF Next, CallStep, Operator

-----------------------------------------------------------------------------
(* The users of the first drive                                            *)

LEMMA MountStep == Typed /\ MountKnows /\ [Next]_vars => MountKnows'
<1> SUFFICES ASSUME Typed, MountKnows, [Next]_vars PROVE MountKnows'
  OBVIOUS
<1> DEFINE d == FirstDrive
<1>d. d \in Drives
  BY PlacesDiffer
<1>u. CASE UNCHANGED vars
  BY <1>u DEF vars, controller, MountKnows
<1>o. ASSUME NEW e \in Drives, e # d, CallStep(e) PROVE MountKnows'
  BY <1>o, OthersCall DEF OthersKeep, MountKnows
<1>1. ASSUME NEW t \in Tapes, NEW g \in {"load", "mount"}, Call(d, g, t)
       PROVE  MountKnows'
  <2>1. pc'[FirstDrive] \notin {"mountDo", "loadConfirm"}
    BY <1>1, <1>d, PlacesDiffer, CallKnows
    DEF Call, GotoWith, Typed, CallsOK, CallTypes, Unloading, ForTape
  <2>q. QED
    BY <2>1 DEF MountKnows
<1>2. ASSUME Call(d, "unload", NoTape) PROVE MountKnows'
  <2>1. pc'[FirstDrive] \notin {"mountDo", "loadConfirm"}
    BY <1>2, <1>d, PlacesDiffer, CallKnows
    DEF Call, GotoWith, Typed, CallsOK, CallTypes, Unloading, ForTape
  <2>q. QED
    BY <2>1 DEF MountKnows
<1>3. ASSUME LoadStatus(d) PROVE MountKnows'
  <2>1. \/ pc'[FirstDrive] \notin {"mountDo", "loadConfirm"}
        \/ /\ mounted'[FirstDrive] = call[FirstDrive].tape
           /\ pc'[FirstDrive] = "mountDo" /\ call'[FirstDrive].tape = call[FirstDrive].tape
        \/ pc'[FirstDrive] = "loadConfirm" /\ FirstDrive \in doubt'
    BY <1>3, <1>d, PlacesDiffer
    DEF LoadStatus, Loaded, LoadReturns, Goto, GotoWith, Doubtful, Typed, CallsOK,
        CallTypes, ControllerTypes
  <2>q. QED
    BY <2>1 DEF MountKnows
<1>4. ASSUME LoadScan(d) PROVE MountKnows'
  <2>1. pc'[FirstDrive] \notin {"mountDo", "loadConfirm"}
    BY <1>4, <1>d, PlacesDiffer, CallKnows
    DEF LoadScan, Goto, GotoWith, Typed, CallsOK, CallTypes, Unloading, ForTape
  <2>q. QED
    BY <2>1 DEF MountKnows
<1>5. ASSUME LoadIssue(d) PROVE MountKnows'
  <2>1. \/ pc'[FirstDrive] \notin {"mountDo", "loadConfirm"}
        \/ /\ mounted'[FirstDrive] = call[FirstDrive].tape
           /\ pc'[FirstDrive] = "mountDo" /\ call'[FirstDrive].tape = call[FirstDrive].tape
        \/ pc'[FirstDrive] = "loadConfirm" /\ FirstDrive \in doubt'
    BY <1>5, <1>d, PlacesDiffer
    DEF LoadIssue, Loaded, LoadReturns, Goto, GotoWith, Doubtful, Typed, CallsOK,
        CallTypes, ControllerTypes
  <2>q. QED
    BY <2>1 DEF MountKnows
<1>6. ASSUME LoadConfirm(d) PROVE MountKnows'
  <2>1. \/ pc'[FirstDrive] \notin {"mountDo", "loadConfirm"}
        \/ /\ mounted'[FirstDrive] = call[FirstDrive].tape
           /\ pc'[FirstDrive] = "mountDo" /\ call'[FirstDrive].tape = call[FirstDrive].tape
        \/ pc'[FirstDrive] = "loadConfirm" /\ FirstDrive \in doubt'
    BY <1>6, <1>d, PlacesDiffer
    DEF LoadConfirm, Loaded, LoadReturns, Goto, GotoWith, Doubtful, Typed, CallsOK,
        CallTypes, ControllerTypes
  <2>q. QED
    BY <2>1 DEF MountKnows
<1>7. ASSUME UnloadCheck(d) PROVE MountKnows'
  <2>1. pc'[FirstDrive] \notin {"mountDo", "loadConfirm"}
    BY <1>7, <1>d, PlacesDiffer, CallKnows
    DEF UnloadCheck, UnloadReturns, Goto, GotoWith, Typed, CallsOK, CallTypes, Unloading,
        ForTape
  <2>q. QED
    BY <2>1 DEF MountKnows
<1>8. ASSUME UnloadPrepare(d) PROVE MountKnows'
  <2>1. pc'[FirstDrive] \notin {"mountDo", "loadConfirm"}
    BY <1>8, <1>d, PlacesDiffer, CallKnows
    DEF UnloadPrepare, Goto, GotoWith, Typed, CallsOK, CallTypes, Unloading, ForTape
  <2>q. QED
    BY <2>1 DEF MountKnows
<1>9. ASSUME UnloadIssue(d) PROVE MountKnows'
  <2>1. pc'[FirstDrive] \notin {"mountDo", "loadConfirm"}
    BY <1>9, <1>d, PlacesDiffer, CallKnows
    DEF UnloadIssue, Unloaded, UnloadReturns, Goto, GotoWith, Typed, CallsOK, CallTypes,
        Unloading, ForTape
  <2>q. QED
    BY <2>1 DEF MountKnows
<1>10. ASSUME UnloadConfirm(d) PROVE MountKnows'
  <2>1. pc'[FirstDrive] \notin {"mountDo", "loadConfirm"}
    BY <1>10, <1>d, PlacesDiffer, CallKnows
    DEF UnloadConfirm, Unloaded, UnloadReturns, Goto, GotoWith, Typed, CallsOK, CallTypes,
        Unloading, ForTape
  <2>q. QED
    BY <2>1 DEF MountKnows
<1>11. ASSUME MountCheck(d) PROVE MountKnows'
  <2>1. \/ pc'[FirstDrive] \notin {"mountDo", "loadConfirm"}
        \/ /\ mounted'[FirstDrive] = call[FirstDrive].tape
           /\ pc'[FirstDrive] = "mountDo" /\ call'[FirstDrive].tape = call[FirstDrive].tape
        \/ pc'[FirstDrive] = "loadConfirm" /\ FirstDrive \in doubt'
    BY <1>11, <1>d, PlacesDiffer
    DEF MountCheck, Goto, GotoWith, controller, Typed, CallsOK, CallTypes, ControllerTypes
  <2>q. QED
    BY <2>1 DEF MountKnows
<1>12. ASSUME MountDo(d) PROVE MountKnows'
  <2>1. pc'[FirstDrive] \notin {"mountDo", "loadConfirm"}
    BY <1>12, <1>d, PlacesDiffer, CallKnows
    DEF MountDo, Goto, GotoWith, Typed, CallsOK, CallTypes, Unloading, ForTape
  <2>q. QED
    BY <2>1 DEF MountKnows
<1>13. ASSUME Unmount(d) PROVE MountKnows'
  <2>1. pc'[FirstDrive] \notin {"mountDo", "loadConfirm"}
    BY <1>13, <1>d, PlacesDiffer, CallKnows
    DEF Unmount, Goto, GotoWith, Typed, CallsOK, CallTypes, Unloading, ForTape
  <2>q. QED
    BY <2>1 DEF MountKnows
<1>14. ASSUME ArmStops PROVE MountKnows'
  BY <1>14 DEF ArmStops, MountKnows, controller
<1>15. ASSUME NEW s \in Slots, NEW u \in Slots, Transfer(s, u) PROVE MountKnows'
  BY <1>15 DEF Transfer, MountKnows, controller
<1>16. ASSUME NEW s \in Slots, NEW e \in Drives, MoveToDrive(s, e)
       PROVE  MountKnows'
  BY <1>16 DEF MoveToDrive, MountKnows
<1>17. ASSUME NEW s \in Slots, NEW e \in Drives, MoveToSlot(e, s)
       PROVE  MountKnows'
  <2>1. pc[d] = "mountDo" => d \in Running
    BY <1>d DEF Running
  <2>2. e # d => mounted'[d] = mounted[d]
    BY <1>17, <1>d DEF MoveToSlot, controller, Typed, ControllerTypes
  <2>q. QED
    BY <1>17, <2>1, <2>2 DEF MoveToSlot, MountKnows
<1>18. ASSUME Restart PROVE MountKnows'
  BY <1>18, PlacesDiffer DEF Restart, MountKnows
<1> HIDE DEF d
<1>q. QED
  BY <1>d, <1>1, <1>2, <1>3, <1>4, <1>5, <1>6, <1>7, <1>8, <1>9, <1>10, <1>11, <1>12,
  <1>13, <1>14, <1>15, <1>16, <1>17, <1>18, <1>o, <1>u DEF Next, CallStep, Operator

LEMMA UsesStep == Typed /\ MountsHold /\ RecordIsRight /\ MountKnows /\ UsesItsTape
                    /\ [Next]_vars => UsesItsTape'
<1> SUFFICES ASSUME Typed, MountsHold, RecordIsRight, MountKnows, UsesItsTape, [Next]_vars
             PROVE  UsesItsTape'
  OBVIOUS
<1> DEFINE d == FirstDrive
<1>d. d \in Drives
  BY PlacesDiffer
<1>u. CASE UNCHANGED vars
  BY <1>u DEF vars, UsesItsTape
<1>o. ASSUME NEW e \in Drives, e # d, CallStep(e) PROVE UsesItsTape'
  BY <1>o, OthersCall DEF OthersKeep, UsesItsTape
<1>1. ASSUME NEW t \in Tapes, NEW g \in {"load", "mount"}, Call(d, g, t)
       PROVE  UsesItsTape'
  <2>1. pc'[FirstDrive] \notin {"using"}
    BY <1>1, <1>d, PlacesDiffer, CallKnows
    DEF Call, GotoWith, Typed, CallsOK, CallTypes, Unloading, ForTape
  <2>q. QED
    BY <2>1 DEF UsesItsTape
<1>2. ASSUME Call(d, "unload", NoTape) PROVE UsesItsTape'
  <2>1. pc'[FirstDrive] \notin {"using"}
    BY <1>2, <1>d, PlacesDiffer, CallKnows
    DEF Call, GotoWith, Typed, CallsOK, CallTypes, Unloading, ForTape
  <2>q. QED
    BY <2>1 DEF UsesItsTape
<1>3. ASSUME LoadStatus(d) PROVE UsesItsTape'
  <2>1. pc'[FirstDrive] \notin {"using"}
    BY <1>3, <1>d, PlacesDiffer, CallKnows
    DEF LoadStatus, Loaded, LoadReturns, Goto, GotoWith, Typed, CallsOK, CallTypes,
        Unloading, ForTape
  <2>q. QED
    BY <2>1 DEF UsesItsTape
<1>4. ASSUME LoadScan(d) PROVE UsesItsTape'
  <2>1. pc'[FirstDrive] \notin {"using"}
    BY <1>4, <1>d, PlacesDiffer, CallKnows
    DEF LoadScan, Goto, GotoWith, Typed, CallsOK, CallTypes, Unloading, ForTape
  <2>q. QED
    BY <2>1 DEF UsesItsTape
<1>5. ASSUME LoadIssue(d) PROVE UsesItsTape'
  <2>1. pc'[FirstDrive] \notin {"using"}
    BY <1>5, <1>d, PlacesDiffer, CallKnows
    DEF LoadIssue, Loaded, LoadReturns, Goto, GotoWith, Typed, CallsOK, CallTypes,
        Unloading, ForTape
  <2>q. QED
    BY <2>1 DEF UsesItsTape
<1>6. ASSUME LoadConfirm(d) PROVE UsesItsTape'
  <2>1. pc'[FirstDrive] \notin {"using"}
    BY <1>6, <1>d, PlacesDiffer, CallKnows
    DEF LoadConfirm, Loaded, LoadReturns, Goto, GotoWith, Typed, CallsOK, CallTypes,
        Unloading, ForTape
  <2>q. QED
    BY <2>1 DEF UsesItsTape
<1>7. ASSUME UnloadCheck(d) PROVE UsesItsTape'
  <2>1. pc'[FirstDrive] \notin {"using"}
    BY <1>7, <1>d, PlacesDiffer, CallKnows
    DEF UnloadCheck, UnloadReturns, Goto, GotoWith, Typed, CallsOK, CallTypes, Unloading,
        ForTape
  <2>q. QED
    BY <2>1 DEF UsesItsTape
<1>8. ASSUME UnloadPrepare(d) PROVE UsesItsTape'
  <2>1. pc'[FirstDrive] \notin {"using"}
    BY <1>8, <1>d, PlacesDiffer, CallKnows
    DEF UnloadPrepare, Goto, GotoWith, Typed, CallsOK, CallTypes, Unloading, ForTape
  <2>q. QED
    BY <2>1 DEF UsesItsTape
<1>9. ASSUME UnloadIssue(d) PROVE UsesItsTape'
  <2>1. pc'[FirstDrive] \notin {"using"}
    BY <1>9, <1>d, PlacesDiffer, CallKnows
    DEF UnloadIssue, Unloaded, UnloadReturns, Goto, GotoWith, Typed, CallsOK, CallTypes,
        Unloading, ForTape
  <2>q. QED
    BY <2>1 DEF UsesItsTape
<1>10. ASSUME UnloadConfirm(d) PROVE UsesItsTape'
  <2>1. pc'[FirstDrive] \notin {"using"}
    BY <1>10, <1>d, PlacesDiffer, CallKnows
    DEF UnloadConfirm, Unloaded, UnloadReturns, Goto, GotoWith, Typed, CallsOK, CallTypes,
        Unloading, ForTape
  <2>q. QED
    BY <2>1 DEF UsesItsTape
<1>11. ASSUME MountCheck(d) PROVE UsesItsTape'
  <2>1. pc'[FirstDrive] \notin {"using"}
    BY <1>11, <1>d, PlacesDiffer, CallKnows
    DEF MountCheck, Goto, GotoWith, Typed, CallsOK, CallTypes, Unloading, ForTape
  <2>q. QED
    BY <2>1 DEF UsesItsTape
<1>12. ASSUME MountDo(d) PROVE UsesItsTape'
  <2>1. /\ pc[FirstDrive] = "mountDo" /\ FirstDrive \in doubt' <=> FirstDrive \in doubt
        /\ UNCHANGED <<at, mounted, doubt>>
    BY <1>12, <1>d DEF MountDo, library, controller
  <2>2. CASE FirstDrive \in doubt
    BY <2>1, <2>2 DEF UsesItsTape
  <2>3. CASE FirstDrive \notin doubt
    <3> DEFINE t == call[FirstDrive].tape
    <3>1. mounted[FirstDrive] = t /\ t \in Tapes /\ at[t] = FirstDrive
      BY <1>12, <1>d, <2>1, <2>3, CallFields, PlacesDiffer, LibraryAssumption
      DEF MountDo, MountKnows, RecordIsRight, ForTape
    <3>2. CASE pc'[FirstDrive] = "using"
      <4>1. fs'[FirstDrive] \in Tapes /\ at[fs'[FirstDrive]] = FirstDrive
        BY <1>12, <1>d, <3>2, PlacesDiffer
        DEF MountDo, MountDevice, MountsHold, Typed, LibraryOK, LibraryTypes, CallsOK,
            CallTypes, Goto
      <4>2. call'[FirstDrive].tape = t
        BY <1>12, <1>d, <3>2, PlacesDiffer DEF MountDo, Goto, Typed, CallsOK, CallTypes
      <4>q. QED
        BY <3>1, <4>1, <4>2 DEF UsesItsTape, Typed, LibraryOK
    <3>q. QED
      BY <3>2 DEF UsesItsTape
  <2>q. QED
    BY <2>2, <2>3
<1>13. ASSUME Unmount(d) PROVE UsesItsTape'
  <2>1. pc'[FirstDrive] \notin {"using"}
    BY <1>13, <1>d, PlacesDiffer, CallKnows
    DEF Unmount, Goto, GotoWith, Typed, CallsOK, CallTypes, Unloading, ForTape
  <2>q. QED
    BY <2>1 DEF UsesItsTape
<1>14. ASSUME ArmStops PROVE UsesItsTape'
  BY <1>14 DEF ArmStops, UsesItsTape
<1>15. ASSUME NEW s \in Slots, NEW u \in Slots, Transfer(s, u) PROVE UsesItsTape'
  BY <1>15 DEF Transfer, UsesItsTape
<1>16. ASSUME NEW s \in Slots, NEW e \in Drives, MoveToDrive(s, e)
       PROVE  UsesItsTape'
  BY <1>16 DEF MoveToDrive, UsesItsTape
<1>17. ASSUME NEW s \in Slots, NEW e \in Drives, MoveToSlot(e, s)
       PROVE  UsesItsTape'
  BY <1>17 DEF MoveToSlot, UsesItsTape
<1>18. ASSUME Restart PROVE UsesItsTape'
  BY <1>18, PlacesDiffer DEF Restart, UsesItsTape
<1> HIDE DEF d
<1>q. QED
  BY <1>d, <1>1, <1>2, <1>3, <1>4, <1>5, <1>6, <1>7, <1>8, <1>9, <1>10, <1>11, <1>12,
  <1>13, <1>14, <1>15, <1>16, <1>17, <1>18, <1>o, <1>u DEF Next, CallStep, Operator

-----------------------------------------------------------------------------
(* The home slot of the first drive's tape                                 *)

LEMMA InDriveFound ==
  ASSUME Typed, NEW t \in Tapes, NEW d \in Drives, at[t] = d
  PROVE  InDrive(d) = t
<1>1. InDrive(d) \in Tapes /\ at[InDrive(d)] = d
  BY DEF InDrive
<1>q. QED
  BY <1>1 DEF Typed, LibraryOK

\* When a status settles the doubt, the home slot has been compared with it.
LEMMA SettledHome ==
  ASSUME Typed, UNCHANGED library, doubt' = doubt \ Settled(FirstDrive),
         HomeIsOrigin \/ home'[FirstDrive][1] = origin[FirstDrive],
         home'[FirstDrive] # home[FirstDrive] =>
           home'[FirstDrive][1] = origin[FirstDrive] \/ FirstDrive \in doubt
  PROVE  HomeIsOrigin'
<1> SUFFICES ASSUME NEW s \in Slots, NEW t \in Tapes, home'[FirstDrive] = <<s, t>>,
                    at[t] = FirstDrive, FirstDrive \notin doubt', origin[FirstDrive] # s
             PROVE  FALSE
  BY DEF HomeIsOrigin, library
<1>1. InDrive(FirstDrive) = t /\ home'[FirstDrive][1] = s /\ home'[FirstDrive][2] = t
  BY InDriveFound, PlacesDiffer
<1>2. FirstDrive \notin Settled(FirstDrive)
  BY <1>1 DEF Settled
<1>3. FirstDrive \notin doubt /\ home'[FirstDrive] = home[FirstDrive]
  BY <1>1, <1>2
<1>q. QED
  BY <1>1, <1>3 DEF HomeIsOrigin

LEMMA HomeStep == Typed /\ ArmInDoubt /\ MountKnows /\ HomeIsOrigin
                    /\ [Next]_vars => HomeIsOrigin'
<1> SUFFICES ASSUME Typed, ArmInDoubt, MountKnows, HomeIsOrigin, [Next]_vars
             PROVE  HomeIsOrigin'
  OBVIOUS
<1> DEFINE d == FirstDrive
<1>d. d \in Drives
  BY PlacesDiffer
<1>u. CASE UNCHANGED vars
  BY <1>u DEF vars, library, controller, HomeIsOrigin
<1>o. ASSUME NEW e \in Drives, e # d, CallStep(e) PROVE HomeIsOrigin'
  <2>1. OthersKeep
    BY <1>o, OthersCall
  <2>2. CASE UNCHANGED library
    BY <2>1, <2>2 DEF OthersKeep, HomeIsOrigin, library
  <2>3. CASE LoadIssue(e)
    <3>1. PICK effect \in Effects : Command(call[e].slot, e, effect)
      BY <2>3 DEF LoadIssue
    <3>q. QED
      BY <1>o, <2>1, <3>1, OthersOrigin, CallFields, PlacesDiffer
      DEF OthersKeep, HomeIsOrigin
  <2>4. CASE UnloadIssue(e)
    <3>1. PICK effect \in Effects : Command(e, call[e].dest, effect)
      BY <2>4 DEF UnloadIssue
    <3>2. call[e].dest \in Slots
      BY <1>o, <2>4, CallKnows DEF UnloadIssue, CallsOK, CallOK
    <3>q. QED
      BY <1>o, <2>1, <3>1, <3>2, OthersOrigin, PlacesDiffer DEF OthersKeep, HomeIsOrigin
  <2>q. QED
    BY <1>o, <2>2, <2>3, <2>4
    DEF CallStep, Call, LoadStatus, LoadScan, LoadConfirm, UnloadCheck, UnloadPrepare,
        UnloadConfirm, MountCheck, MountDo, Unmount
<1>1. ASSUME NEW t \in Tapes, NEW g \in {"load", "mount"}, Call(d, g, t)
       PROVE  HomeIsOrigin'
  BY <1>1, <1>d DEF Call, GotoWith, HomeIsOrigin, library, controller
<1>2. ASSUME Call(d, "unload", NoTape) PROVE HomeIsOrigin'
  BY <1>2, <1>d DEF Call, GotoWith, HomeIsOrigin, library, controller
<1>3. ASSUME LoadStatus(d) PROVE HomeIsOrigin'
  <2>1. UNCHANGED library
    BY <1>3 DEF LoadStatus
  <2>2. CASE UNCHANGED <<controller, doubt>>
    BY <2>1, <2>2 DEF HomeIsOrigin, library, controller
  <2>3. CASE /\ doubt' = doubt \ Settled(d)
             /\ home' = IF origin[d] = NoSlot THEN home
                        ELSE [home EXCEPT ![d] = <<origin[d], call[d].tape>>]
    BY <1>d, <2>1, <2>3, SettledHome DEF Typed, ControllerTypes
  <2>q. QED
    BY <1>3, <2>2, <2>3 DEF LoadStatus, Loaded
<1>4. ASSUME LoadScan(d) PROVE HomeIsOrigin'
  BY <1>4, <1>d DEF LoadScan, Goto, GotoWith, HomeIsOrigin, library, controller
<1>5. ASSUME LoadIssue(d) PROVE HomeIsOrigin'
  <2>1. PICK effect \in Effects :
          /\ Command(call[d].slot, d, effect)
          /\ \/ d \in doubt'
             \/ /\ effect = "moved" /\ at[call[d].tape] = call[d].slot
                /\ home' = IF call[d].slot = NoSlot THEN home
                           ELSE [home EXCEPT ![d] = <<call[d].slot, call[d].tape>>]
    BY <1>5 DEF LoadIssue, Loaded, Doubtful
  <2>2. CASE d \in doubt'
    BY <2>2 DEF HomeIsOrigin
  <2>3. CASE /\ effect = "moved" /\ at[call[d].tape] = call[d].slot
             /\ home' = IF call[d].slot = NoSlot THEN home
                        ELSE [home EXCEPT ![d] = <<call[d].slot, call[d].tape>>]
    <3>1. PICK t \in Tapes : at[t] = call[d].slot /\ Moves(t, d)
      BY <2>1, <2>3, CommandEffect DEF Typed
    <3>2. at[t] # NoSlot
      BY LibraryAssumption DEF Typed, LibraryOK, LibraryTypes, Places
    <3>3. origin'[d] = call[d].slot
      BY <1>d, <3>1 DEF Moves
    <3>4. home'[d] = <<call[d].slot, call[d].tape>>
      BY <1>d, <2>3, <3>1, <3>2 DEF Typed, ControllerTypes
    <3>q. QED
      BY <3>3, <3>4 DEF HomeIsOrigin
  <2>q. QED
    BY <2>1, <2>2, <2>3
<1>6. ASSUME LoadConfirm(d) PROVE HomeIsOrigin'
  <2>1. UNCHANGED library /\ d \in doubt
    BY <1>6 DEF LoadConfirm, MountKnows
  <2>2. CASE UNCHANGED <<controller, doubt>>
    BY <2>1, <2>2 DEF HomeIsOrigin, library, controller
  <2>3. CASE doubt' = doubt \ Settled(d)
    BY <2>1, <2>3, SettledHome
  <2>q. QED
    BY <1>6, <2>2, <2>3 DEF LoadConfirm
<1>7. ASSUME UnloadCheck(d) PROVE HomeIsOrigin'
  <2>1. UNCHANGED <<library, doubt>>
    BY <1>7 DEF UnloadCheck
  <2>2. home'[d] = home[d] \/ home'[d][1] = origin[d]
    BY <1>7, <1>d DEF UnloadCheck, controller, Typed, ControllerTypes
  <2>q. QED
    BY <2>1, <2>2 DEF HomeIsOrigin, library
<1>8. ASSUME UnloadPrepare(d) PROVE HomeIsOrigin'
  BY <1>8, <1>d DEF UnloadPrepare, Goto, GotoWith, HomeIsOrigin, library, controller
<1>9. ASSUME UnloadIssue(d) PROVE HomeIsOrigin'
  <2>1. d \in doubt' \/ home'[d] = NoHome
    BY <1>9, <1>d DEF UnloadIssue, Unloaded, Doubtful, Typed, ControllerTypes
  <2>q. QED
    BY <2>1, PlacesDiffer, LibraryAssumption DEF HomeIsOrigin, NoHome
<1>10. ASSUME UnloadConfirm(d) PROVE HomeIsOrigin'
  <2>1. home'[d] = home[d] \/ home'[d] = NoHome
    BY <1>10, <1>d DEF UnloadConfirm, Unloaded, controller, Typed, ControllerTypes
  <2>2. UNCHANGED <<library, doubt>>
    BY <1>10 DEF UnloadConfirm
  <2>3. CASE home'[d] = home[d]
    BY <2>2, <2>3 DEF HomeIsOrigin, library
  <2>4. CASE home'[d] = NoHome
    BY <2>4, LibraryAssumption DEF HomeIsOrigin, NoHome
  <2>q. QED
    BY <2>1, <2>3, <2>4
<1>11. ASSUME MountCheck(d) PROVE HomeIsOrigin'
  BY <1>11, <1>d DEF MountCheck, Goto, GotoWith, HomeIsOrigin, library, controller
<1>12. ASSUME MountDo(d) PROVE HomeIsOrigin'
  BY <1>12, <1>d DEF MountDo, Goto, GotoWith, HomeIsOrigin, library, controller
<1>13. ASSUME Unmount(d) PROVE HomeIsOrigin'
  BY <1>13, <1>d DEF Unmount, Goto, GotoWith, HomeIsOrigin, library, controller
<1>14. ASSUME ArmStops PROVE HomeIsOrigin'
  <2>1. /\ arm # Still /\ Moves(arm[1], arm[2]) /\ UNCHANGED home /\ doubt \subseteq doubt'
    BY <1>14 DEF ArmStops, controller
  <2>2. CASE d \in {at[arm[1]], arm[2]}
    BY <2>1, <2>2 DEF ArmInDoubt, HomeIsOrigin
  <2>3. CASE d \notin {at[arm[1]], arm[2]}
    <3>1. origin'[d] = origin[d]
      BY <1>d, <2>1, <2>3 DEF Moves
    <3>2. \A t \in Tapes : at'[t] = d => at[t] = d
      BY <2>1, <2>3 DEF Moves, Typed, LibraryOK, LibraryTypes
    <3>q. QED
      BY <2>1, <3>1, <3>2 DEF HomeIsOrigin
  <2>q. QED
    BY <2>2, <2>3
<1>15. ASSUME NEW s \in Slots, NEW u \in Slots, Transfer(s, u)
       PROVE  HomeIsOrigin'
  <2>1. PICK effect \in Effects : Command(s, u, effect)
    BY <1>15 DEF Transfer
  <2>2. UNCHANGED home /\ doubt \subseteq doubt'
    BY <1>15 DEF Transfer, controller
  <2>q. QED
    BY <2>1, <2>2, OthersOrigin, PlacesDiffer DEF HomeIsOrigin
<1>16. ASSUME NEW s \in Slots, NEW e \in Drives, MoveToDrive(s, e)
       PROVE  HomeIsOrigin'
  <2>1. PICK effect \in Effects : Command(s, e, effect)
    BY <1>16 DEF MoveToDrive
  <2>2. doubt \subseteq doubt'
    BY <1>16 DEF MoveToDrive
  <2>3. CASE e = d
    <3>1. d \in doubt' \/ home'[d] = <<s, NoTape>>
      BY <1>16, <2>3 DEF MoveToDrive, Typed, ControllerTypes
    <3>q. QED
      BY <3>1, LibraryAssumption DEF HomeIsOrigin
  <2>4. CASE e # d
    <3>1. home'[d] = home[d]
      BY <1>16, <1>d, <2>4 DEF MoveToDrive, Typed, ControllerTypes
    <3>q. QED
      BY <2>1, <2>2, <2>4, <3>1, OthersOrigin, PlacesDiffer DEF HomeIsOrigin
  <2>q. QED
    BY <2>3, <2>4
<1>17. ASSUME NEW s \in Slots, NEW e \in Drives, MoveToSlot(e, s)
       PROVE  HomeIsOrigin'
  <2>1. PICK effect \in Effects : Command(e, s, effect)
    BY <1>17 DEF MoveToSlot
  <2>2. doubt \subseteq doubt'
    BY <1>17 DEF MoveToSlot
  <2>3. CASE e = d
    <3>1. d \in doubt' \/ home'[d] = NoHome
      BY <1>17, <2>3 DEF MoveToSlot, Typed, ControllerTypes
    <3>q. QED
      BY <3>1, PlacesDiffer, LibraryAssumption DEF HomeIsOrigin, NoHome
  <2>4. CASE e # d
    <3>1. home'[d] = home[d]
      BY <1>17, <1>d, <2>4 DEF MoveToSlot, controller, Typed, ControllerTypes
    <3>q. QED
      BY <2>1, <2>2, <2>4, <3>1, OthersOrigin, PlacesDiffer DEF HomeIsOrigin
  <2>q. QED
    BY <2>3, <2>4
<1>18. ASSUME Restart PROVE HomeIsOrigin'
  <2>1. UNCHANGED <<library, home>>
    BY <1>18 DEF Restart
  <2>2. CASE UNCHANGED doubt
    BY <2>1, <2>2 DEF HomeIsOrigin, library
  <2>3. CASE doubt' = doubt \ Settled(d)
    BY <2>1, <2>3, SettledHome
  <2>q. QED
    BY <1>18, <2>2, <2>3 DEF Restart
<1> HIDE DEF d
<1>q. QED
  BY <1>d, <1>1, <1>2, <1>3, <1>4, <1>5, <1>6, <1>7, <1>8, <1>9, <1>10, <1>11, <1>12,
  <1>13, <1>14, <1>15, <1>16, <1>17, <1>18, <1>o, <1>u DEF Next, CallStep, Operator

-----------------------------------------------------------------------------
(* The theorems                                                            *)

RecordInv == /\ Typed /\ ArmInDoubt /\ MountsHold /\ OriginFree
             /\ RecordIsRight /\ MountKnows /\ UsesItsTape /\ HomeIsOrigin

LEMMA RecordInit == Init => RecordInv
<1> SUFFICES ASSUME Init PROVE RecordInv
  OBVIOUS
<1>1. Typed
  BY TypedInit
<1>2. ArmInDoubt /\ MountsHold /\ OriginFree
  BY PlacesDiffer, LibraryAssumption DEF Init, ArmInDoubt, MountsHold, OriginFree
<1>3. RecordIsRight /\ MountKnows /\ UsesItsTape
  BY PlacesDiffer DEF Init, RecordIsRight, MountKnows, UsesItsTape
<1>4. HomeIsOrigin
  BY PlacesDiffer DEF Init, HomeIsOrigin, NoHome
<1>q. QED
  BY <1>1, <1>2, <1>3, <1>4 DEF RecordInv

LEMMA RecordInvStep == RecordInv /\ [Next]_vars => RecordInv'
BY TypedStep, ArmStep, MountsStep, OriginStep, RecordStep, MountStep, UsesStep, HomeStep
DEF RecordInv

LEMMA RecordInvAlways == Spec => []RecordInv
BY RecordInit, RecordInvStep, PTL DEF Spec

\* The record of the first drive is right after time-outs, late moves, restarts and any
\* calls on other drives, with the exceptions it names: RecordIsRight of TapeController.
THEOREM RecordCorrect == Spec => []RecordIsRight
<1>1. RecordInv => RecordIsRight
  BY DEF RecordInv
<1>q. QED
  BY <1>1, RecordInvAlways, PTL

\* Who has the first drive mounted for a tape has that tape's file system, with the same
\* exceptions: UsesItsTape of TapeController.
THEOREM UsesCorrect == Spec => []UsesItsTape
<1>1. RecordInv => UsesItsTape
  BY DEF RecordInv
<1>q. QED
  BY <1>1, RecordInvAlways, PTL

\* The slot remembered for the first drive's tape is free, unless a tape from elsewhere
\* was put there: HomeIsFree of TapeController.
THEOREM HomeCorrect == Spec => []HomeIsFree
<1>1. RecordInv => HomeIsFree
  BY DEF RecordInv, HomeIsFree, HomeIsOrigin, OriginFree
<1>q. QED
  BY <1>1, RecordInvAlways, PTL

-----------------------------------------------------------------------------
(* The first drive                                                         *)

\* The first drive of the library, as FirstDrive tells of it.
FD == INSTANCE FirstDrive WITH tape <- InDrive(FirstDrive), fs <- fs[FirstDrive],
                               recorded <- mounted[FirstDrive], doubt <- FirstDrive \in doubt,
                               using <- {}, crossed <- {}, misled <- {}

DriveInit == InDrive(FirstDrive) = NoTape /\ fs[FirstDrive] = NoTape

\* What FirstDrive's calls do to the tape and the file system: a tape comes or goes, or stays
\* and may lose its file system; or the file system of the tape that is there is mounted.
DriveStep ==
  \/ \E t \in Tapes \cup {NoTape} : FD!Gets(t)
  \/ FD!Mounts /\ UNCHANGED InDrive(FirstDrive)

LEMMA DriveHolds == Typed /\ MountsHold => FD!DriveOK
<1> SUFFICES ASSUME Typed, MountsHold PROVE FD!DriveOK
  OBVIOUS
<1>1. FirstDrive \in Drives /\ fs[FirstDrive] \in Tapes \cup {NoTape}
  BY LibraryAssumption DEF Typed, LibraryOK, LibraryTypes
<1>m. mounted[FirstDrive] \in Tapes \cup {NoTape}
  BY <1>1 DEF Typed, LibraryOK, LibraryTypes, ControllerTypes
<1>d. (FirstDrive \in doubt) \in BOOLEAN
  OBVIOUS
<1>2. CASE fs[FirstDrive] = NoTape
  BY <1>1, <1>m, <1>d, <1>2, InDriveIs DEF FD!DriveOK
<1>3. CASE fs[FirstDrive] # NoTape
  <2>1. at[fs[FirstDrive]] = FirstDrive
    BY <1>3 DEF MountsHold
  <2>2. InDrive(FirstDrive) = fs[FirstDrive]
    BY <1>1, <1>3, <2>1, InDriveFound
  <2>q. QED
    BY <1>1, <1>m, <1>d, <2>2 DEF FD!DriveOK
<1>q. QED
  BY <1>2, <1>3

\* While no tape moves, a file system goes, or that of the tape in the drive comes.
LEMMA QuietDrive ==
  ASSUME Typed, MountsHold, QuietStep
  PROVE  DriveStep \/ UNCHANGED <<InDrive(FirstDrive), fs[FirstDrive]>>
<1>1. at' = at /\ InDrive(FirstDrive)' = InDrive(FirstDrive)
  BY DEF QuietStep, library, InDrive
<1>2. FirstDrive \in Drives /\ MountDevice(FirstDrive) = FirstDrive
  BY LibraryAssumption DEF MountDevice
<1>3. CASE fs'[FirstDrive] = fs[FirstDrive]
  BY <1>1, <1>3
<1>4. CASE fs'[FirstDrive] = NoTape
  <2>1. FD!Gets(InDrive(FirstDrive))
    BY <1>1, <1>4 DEF FD!Gets
  <2>2. InDrive(FirstDrive) \in Tapes \cup {NoTape}
    BY DriveHolds DEF FD!DriveOK
  <2>q. QED
    BY <2>1, <2>2 DEF DriveStep
<1>5. CASE fs'[FirstDrive] \in Tapes /\ at[fs'[FirstDrive]] = MountDevice(FirstDrive)
  <2>1. InDrive(FirstDrive) = fs'[FirstDrive]
    BY <1>2, <1>5, InDriveFound
  <2>2. fs[FirstDrive] \in {NoTape, InDrive(FirstDrive)}
    BY DriveHolds DEF FD!DriveOK
  <2>3. FD!Mounts
    BY <1>1, <1>5, <2>1, <2>2, LibraryAssumption DEF FD!Mounts
  <2>q. QED
    BY <1>1, <2>3 DEF DriveStep
<1>q. QED
  BY <1>2, <1>3, <1>4, <1>5 DEF QuietStep, MountsKeep

\* A tape that moves goes to the drive when that is empty, leaves it unmounted, or has
\* nothing to do with it.
LEMMA MoveDrive ==
  ASSUME Typed, MountsHold, NEW t \in Tapes, NEW to \in Places,
         Free(to), Moves(t, to), UNCHANGED fs, \A d \in Drives : fs[d] # t, LibraryOK'
  PROVE  DriveStep \/ UNCHANGED <<InDrive(FirstDrive), fs[FirstDrive]>>
<1> USE LibraryAssumption
<1>1. at' = [at EXCEPT ![t] = to] /\ FirstDrive \in Drives /\ at \in [Tapes -> Places]
  BY DEF Moves, Typed, LibraryOK, LibraryTypes
<1>2. CASE to = FirstDrive
  <2>1. \A u \in Tapes : at[u] # FirstDrive
    BY <1>2 DEF Free
  <2>2. InDrive(FirstDrive) = NoTape /\ fs[FirstDrive] = NoTape
    BY <2>1, DriveHolds DEF InDrive, FD!DriveOK
  <2>3. \A u \in Tapes : at'[u] = FirstDrive <=> u = t
    BY <1>1, <1>2, <2>1
  <2>4. InDrive(FirstDrive)' = t
    BY <2>3 DEF InDrive
  <2>5. FD!Gets(t)
    BY <2>2, <2>4 DEF FD!Gets
  <2>q. QED
    BY <2>5 DEF DriveStep
<1>3. CASE to # FirstDrive /\ at[t] = FirstDrive
  <2>1. InDrive(FirstDrive) = t
    BY <1>1, <1>3, InDriveFound
  <2>2. fs[FirstDrive] = NoTape
    BY <1>1, <2>1, DriveHolds DEF FD!DriveOK
  <2>3. \A u \in Tapes : at'[u] # FirstDrive
    BY <1>1, <1>3 DEF Typed, LibraryOK
  <2>4. InDrive(FirstDrive)' = NoTape
    BY <2>3 DEF InDrive
  <2>5. FD!Gets(NoTape)
    BY <2>2, <2>4 DEF FD!Gets
  <2>q. QED
    BY <2>5 DEF DriveStep
<1>4. CASE to # FirstDrive /\ at[t] # FirstDrive
  <2>1. \A u \in Tapes : at'[u] = FirstDrive <=> at[u] = FirstDrive
    BY <1>1, <1>4
  <2>2. InDrive(FirstDrive)' = InDrive(FirstDrive)
    BY <2>1 DEF InDrive
  <2>q. QED
    BY <2>2
<1>q. QED
  BY <1>2, <1>3, <1>4

LEMMA DriveSteps ==
  ASSUME Typed, MountsHold, [Next]_vars
  PROVE  DriveStep \/ UNCHANGED <<InDrive(FirstDrive), fs[FirstDrive]>>
<1>l. LibraryOK'
  BY LibraryStep
<1>1. CASE QuietStep
  BY <1>1, QuietDrive
<1>2. CASE ArmStops
  <2>1. /\ arm[1] \in Tapes /\ arm[2] \in Places /\ Free(arm[2])
        /\ \A d \in Drives : fs[d] # arm[1]
    BY <1>2 DEF ArmStops, MountsHold, Typed, LibraryOK, LibraryTypes
  <2>q. QED
    BY <1>2, <1>l, <2>1, MoveDrive DEF ArmStops
<1>3. ASSUME NEW from \in Places \cup {NoSlot}, NEW to \in Places, NEW effect \in Effects,
             CommandStep(from, to, effect)
      PROVE  DriveStep \/ UNCHANGED <<InDrive(FirstDrive), fs[FirstDrive]>>
  <2>1. CASE effect = "moved"
    <3>1. PICK t \in Tapes : CanMove(t, to) /\ Moves(t, to)
      BY <1>3, <2>1, CommandEffect DEF CommandStep, Typed
    <3>q. QED
      BY <1>3, <1>l, <3>1, MoveDrive DEF CommandStep, CanMove
  <2>2. CASE effect # "moved"
    <3>1. UNCHANGED <<at, fs>>
      BY <1>3, <2>2, CommandEffect DEF CommandStep, Typed
    <3>q. QED
      BY <3>1 DEF InDrive
  <2>q. QED
    BY <2>1, <2>2
<1>q. QED
  BY <1>1, <1>2, <1>3, StepKinds DEF AnyCommand

\* Whatever is done through the controller, with time-outs, moves that come late and the
\* operator in between, the tape and the file system of the first drive go through the steps of
\* FirstDrive, on which DriveUsers builds its spanning jobs and restores: no tape comes or goes
\* with a file system mounted, and only that of the tape in the drive is.
THEOREM ImplementsFirstDrive ==
  Spec => /\ DriveInit
          /\ []FD!DriveOK
          /\ [][DriveStep]_<<InDrive(FirstDrive), fs[FirstDrive]>>
<1>1. Init => DriveInit
  BY LibraryAssumption DEF Init, DriveInit, InDrive
<1>2. RecordInv => FD!DriveOK
  BY DriveHolds DEF RecordInv
<1>3. RecordInv /\ [Next]_vars => [DriveStep]_<<InDrive(FirstDrive), fs[FirstDrive]>>
  BY DriveSteps DEF RecordInv
<1>q. QED
  BY <1>1, <1>2, <1>3, RecordInvAlways, PTL DEF Spec

-----------------------------------------------------------------------------
(* The file systems of all drives                                          *)

\* A mounted tape is in the drive whose device ltfs was given, and mounted once; who uses
\* a drive has something mounted there.
MountsInDevice == \A d \in Drives : fs[d] # NoTape => at[fs[d]] = MountDevice(d)
MountedOnce    == \A d, e \in Drives : fs[d] = fs[e] /\ fs[d] # NoTape => d = e
UsersMounted   == \A d \in Drives : pc[d] = "using" => fs[d] # NoTape

LEMMA InDeviceStep == Typed /\ MountsHold /\ MountsInDevice /\ [Next]_vars => MountsInDevice'
<1> SUFFICES ASSUME Typed, MountsHold, MountsInDevice, [Next]_vars PROVE MountsInDevice'
  OBVIOUS
<1>t. at \in [Tapes -> Places] /\ \A d \in Drives : fs[d] \in Tapes \cup {NoTape}
  BY DEF Typed, LibraryOK, LibraryTypes
<1>1. CASE QuietStep
  BY <1>1 DEF QuietStep, MountsKeep, MountsInDevice, MountDevice, library
<1>2. ASSUME NEW t \in Tapes, NEW to, at' = [at EXCEPT ![t] = to], UNCHANGED fs,
             \A d \in Drives : fs[d] # t
      PROVE  MountsInDevice'
  BY <1>t, <1>2 DEF MountsInDevice, MountDevice
<1>3. CASE ArmStops
  <2>1. arm[1] \in Tapes /\ \A d \in Drives : fs[d] # arm[1]
    BY <1>3 DEF ArmStops, MountsHold, Typed, LibraryOK, LibraryTypes
  <2>q. QED
    BY <1>2, <1>3, <2>1 DEF ArmStops, Moves
<1>4. ASSUME NEW from \in Places \cup {NoSlot}, NEW to \in Places, NEW effect \in Effects,
             CommandStep(from, to, effect)
      PROVE  MountsInDevice'
  <2>1. CASE effect = "moved"
    BY <1>2, <1>4, <2>1, CommandEffect DEF CommandStep, CanMove, Moves, Typed
  <2>2. CASE effect # "moved"
    <3>1. UNCHANGED <<at, fs>>
      BY <1>4, <2>2, CommandEffect DEF CommandStep, Typed
    <3>q. QED
      BY <3>1 DEF MountsInDevice, MountDevice
  <2>q. QED
    BY <2>1, <2>2
<1>q. QED
  BY <1>1, <1>3, <1>4, StepKinds DEF AnyCommand

LEMMA UsersStep ==
  Typed /\ MountedOnce /\ UsersMounted /\ [Next]_vars => MountedOnce' /\ UsersMounted'
<1> SUFFICES ASSUME Typed, MountedOnce, UsersMounted, [Next]_vars
             PROVE  MountedOnce' /\ UsersMounted'
  OBVIOUS
<1> USE DEF MountedOnce, UsersMounted
<1>t. /\ fs \in [Drives -> Tapes \cup {NoTape}] /\ NoTape \notin Tapes
      /\ pc = [d \in Drives |-> pc[d]]
  BY LibraryAssumption DEF Typed, LibraryOK, LibraryTypes, CallsOK, CallTypes
<1> DEFINE Leaves(d) == /\ UNCHANGED fs
                        /\ \E to : to # "using" /\ pc' = [pc EXCEPT ![d] = to]
<1>l. ASSUME NEW d \in Drives, Leaves(d) PROVE MountedOnce' /\ UsersMounted'
  BY <1>t, <1>l
<1>n. ASSUME NEW d \in Drives, fs' = [fs EXCEPT ![d] = NoTape],
             NEW to, to # "using", pc' = [pc EXCEPT ![d] = to]
      PROVE  MountedOnce' /\ UsersMounted'
  BY <1>t, <1>n
<1>u. CASE UNCHANGED vars
  BY <1>u DEF vars
<1>1. ASSUME NEW d \in Drives, NEW t \in Tapes \cup {NoTape},
             NEW g \in {"load", "mount", "unload"}, Call(d, g, t)
      PROVE  MountedOnce' /\ UsersMounted'
  BY <1>1, <1>l DEF Call, GotoWith
<1>2. ASSUME NEW d \in Drives,
             \/ LoadStatus(d) \/ LoadScan(d) \/ LoadIssue(d) \/ LoadConfirm(d) \/ MountCheck(d)
      PROVE  MountedOnce' /\ UsersMounted'
  <2>1. Leaves(d)
    BY <1>2 DEF LoadStatus, LoadScan, LoadIssue, LoadConfirm, MountCheck, Loaded, LoadReturns,
                Goto, GotoWith
  <2>q. QED
    BY <1>l, <2>1
<1>3. ASSUME NEW d \in Drives, UnloadCheck(d) \/ UnloadIssue(d) \/ UnloadConfirm(d)
      PROVE  MountedOnce' /\ UsersMounted'
  <2>1. call[d].next # "using"
    BY DEF Typed, CallsOK, CallTypes
  <2>2. Leaves(d)
    BY <1>3, <2>1 DEF UnloadCheck, UnloadIssue, UnloadConfirm, Unloaded, UnloadReturns,
                      Goto, GotoWith
  <2>q. QED
    BY <1>l, <2>2
<1>4. ASSUME NEW d \in Drives, UnloadPrepare(d) PROVE MountedOnce' /\ UsersMounted'
  <2>1. \E to \in {"idle", "unloadIssue"} : pc' = [pc EXCEPT ![d] = to]
    BY <1>4 DEF UnloadPrepare, Goto, GotoWith
  <2>2. fs' = [fs EXCEPT ![d] = NoTape] \/ UNCHANGED fs
    BY <1>4 DEF UnloadPrepare
  <2>q. QED
    BY <1>l, <1>n, <2>1, <2>2
<1>5. ASSUME NEW d \in Drives, MountDo(d) PROVE MountedOnce' /\ UsersMounted'
  <2>1. CASE fs[d] # NoTape /\ Goto(d, "using") /\ UNCHANGED fs
    BY <1>t, <2>1 DEF Goto
  <2>2. ASSUME NEW t \in Tapes, \A e \in Drives : fs[e] # t, fs' = [fs EXCEPT ![d] = t],
               Goto(d, "using")
        PROVE  MountedOnce' /\ UsersMounted'
    BY <1>t, <2>2 DEF Goto
  <2>3. CASE Goto(d, "idle") /\ UNCHANGED fs
    BY <1>l, <2>3 DEF Goto
  <2>q. QED
    BY <1>5, <2>1, <2>2, <2>3 DEF MountDo
<1>6. ASSUME NEW d \in Drives, Unmount(d) PROVE MountedOnce' /\ UsersMounted'
  BY <1>6, <1>l, <1>n DEF Unmount, Goto
<1>7. CASE ArmStops
  BY <1>7 DEF ArmStops
<1>8. ASSUME NEW s \in Slots, NEW u \in Slots, Transfer(s, u)
      PROVE  MountedOnce' /\ UsersMounted'
  BY <1>8 DEF Transfer
<1>9. ASSUME NEW s \in Slots, NEW d \in Drives, MoveToDrive(s, d) \/ MoveToSlot(d, s)
      PROVE  MountedOnce' /\ UsersMounted'
  BY <1>9 DEF MoveToDrive, MoveToSlot
<1>10. CASE Restart
  BY <1>10, <1>t DEF Restart
<1>q. QED
  BY <1>u, <1>1, <1>2, <1>3, <1>4, <1>5, <1>6, <1>7, <1>8, <1>9, <1>10
  DEF Next, CallStep, Operator

MountsInv == RecordInv /\ MountsInDevice /\ MountedOnce /\ UsersMounted

LEMMA MountsAlways == Spec => []MountsInv
<1>1. Init => MountsInDevice /\ MountedOnce /\ UsersMounted
  BY DEF Init, MountsInDevice, MountedOnce, UsersMounted
<1>2. MountsInv /\ [Next]_vars => MountsInv'
  BY RecordInvStep, InDeviceStep, UsersStep DEF MountsInv, RecordInv
<1>3. Init => MountsInv
  BY <1>1, RecordInit DEF MountsInv
<1>q. QED
  BY <1>2, <1>3, PTL DEF Spec

\* What ltfs makes of drive_sg: however many drives there are, one of them at most has a file
\* system at a time, and it is that of the tape in the first drive.
OneFileSystem ==
  HasDriveSg =>
    \A d \in Drives : fs[d] # NoTape =>
      /\ at[fs[d]] = FirstDrive
      /\ \A e \in Drives \ {d} : fs[e] = NoTape

\* OneFileSystem is an invariant: mount_ltfs gives ltfs drive_sg, which is the first drive's,
\* for every drive (src/backend/tape_controller.py:1507), and a drive has one tape, which
\* cannot be mounted twice.
THEOREM OneFileSystemMounted == Spec => []OneFileSystem
<1>1. MountsInv => OneFileSystem
  <2> SUFFICES ASSUME MountsInv, HasDriveSg, NEW d \in Drives, fs[d] # NoTape
               PROVE  /\ at[fs[d]] = FirstDrive
                      /\ \A e \in Drives \ {d} : fs[e] = NoTape
    BY DEF OneFileSystem
  <2>1. \A e \in Drives : fs[e] \in Tapes \cup {NoTape}
    BY DEF MountsInv, RecordInv, Typed, LibraryOK, LibraryTypes
  <2>2. \A e \in Drives : fs[e] # NoTape => at[fs[e]] = FirstDrive
    BY DEF MountsInv, MountsInDevice, MountDevice
  <2>3. \A e \in Drives : fs[e] # NoTape => fs[e] = fs[d]
    BY <2>1, <2>2 DEF MountsInv, RecordInv, Typed, LibraryOK
  <2>q. QED
    BY <2>2, <2>3 DEF MountsInv, MountedOnce
<1>q. QED
  BY <1>1, MountsAlways, PTL

===============================================================================
