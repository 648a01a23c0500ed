---------------------------- MODULE TapeController ----------------------------
(***************************************************************************)
(* TapeLibraryController (tape_controller.py) in library mode: where the   *)
(* tapes are, where the controller thinks they are, and the calls          *)
(* load_tape, unload_tape, mount_ltfs, unmount_ltfs and move_tape, built   *)
(* from mtx commands that may be refused, time out, or be carried out      *)
(* after the time-out.                                                     *)
(*                                                                         *)
(* The user of a drive makes one call at a time, as the drive's lock       *)
(* demands; calls on different drives interleave, and move_tape, which     *)
(* takes no lock, may come in between. Each mtx command is one step, since *)
(* _changer_lock covers it.                                                *)
(***************************************************************************)
EXTENDS Integers

CONSTANTS
  Tapes,
  Slots,       \* storage elements, by number
  Drives,      \* data transfer elements
  FirstDrive,  \* drive_number, the drive that get_drive_status reports on
  NoTape, NoSlot,
  HasDriveSg,  \* drive_sg was found
  Faulty,      \* commands may time out, and possible moves be refused
  Meddling     \* the operator may move tapes during a call

ASSUME LibraryAssumption ==
  /\ FirstDrive \in Drives
  /\ Slots \subseteq Nat
  /\ Slots \cap Drives = {}
  /\ NoTape \notin Tapes
  /\ NoSlot \notin Slots \cup Drives
  /\ {HasDriveSg, Faulty, Meddling} \subseteq BOOLEAN

VARIABLES
  at,      \* the slot or drive of each tape
  arm,     \* a move still under way after its command timed out: tape, target
  origin,  \* the slot each drive's tape came from, as mtx status tells it
  fs,      \* the tape whose file system is at each drive's mount point
  mounted, \* mounted_tapes
  home,    \* home_slots, persisted: slot and barcode
  pc,      \* where the call on each drive is
  call,    \* its arguments and local variables
  doubt,   \* drives the controller cannot know about: see Doubtful
  taken    \* slots that got their tape from elsewhere than the first drive

library    == <<at, arm, origin, taken>>
controller == <<mounted, home>>
vars == <<library, fs, controller, pc, call, doubt>>

NoCall == [goal |-> "none", tape |-> NoTape, slot |-> NoSlot, held |-> NoTape,
           dest |-> NoSlot, next |-> "none"]
NoHome == <<NoSlot, NoTape>>
Still  == <<NoTape, NoSlot>>
Effects == {"moved", "refused", "late"}

-----------------------------------------------------------------------------
(* The library                                                             *)

InDrive(d) == IF \E t \in Tapes : at[t] = d THEN CHOOSE t \in Tapes : at[t] = d ELSE NoTape

Free(place) == \A t \in Tapes : at[t] # place

\* LTFS locks the medium it has mounted; the arm does one move at a time.
CanMove(t, to) == arm = Still /\ Free(to) /\ \A d \in Drives : fs[d] # t

Moves(t, to) ==
  /\ at' = [at EXCEPT ![t] = to]
  /\ origin' = [d \in Drives |-> IF d = to THEN at[t] ELSE IF d = at[t] THEN NoSlot ELSE origin[d]]
  /\ taken' = (taken \ {at[t]}) \cup (IF at[t] = FirstDrive THEN {} ELSE {to} \cap Slots)

\* What an mtx load, unload or transfer may do.
Command(from, to, effect) ==
  LET able == {t \in Tapes : at[t] = from /\ CanMove(t, to)} IN
  \/ /\ effect = "moved"
     /\ \E t \in able : Moves(t, to)
     /\ UNCHANGED arm
  \/ /\ effect = "refused"
     /\ Faulty \/ able = {}
     /\ UNCHANGED library
  \/ /\ effect = "late" /\ Faulty
     /\ \E t \in able : arm' = <<t, to>>
     /\ UNCHANGED <<at, origin, taken>>

\* Calls that have read the state of the library and will act on it.
Running == {d \in Drives : pc[d] \notin {"idle", "using"}}

\* A drive is in doubt after a command for it that was refused, or timed out, or
\* brought another tape, and when tapes were moved by others during a call on it.
Overtaken(d, effect) == IF effect = "moved" THEN Running \ {d} ELSE {}
Doubtful(d, effect)  == doubt \cup {d} \cup Overtaken(d, effect)

\* A status read while the arm is still settles the doubt, if the home slot is right too.
Settled(d) ==
  LET found == InDrive(FirstDrive) IN
  IF arm = Still /\ (home'[d][2] = found => home'[d][1] = origin[FirstDrive]) THEN {d} ELSE {}

\* The arm completes what it was told before the time-out.
ArmStops ==
  /\ arm # Still
  /\ Moves(arm[1], arm[2])
  /\ arm' = Still
  /\ doubt' = doubt \cup Running
  /\ UNCHANGED <<fs, controller, pc, call>>

-----------------------------------------------------------------------------
(* Calls                                                                   *)

Goto(d, to) ==
  /\ pc' = [pc EXCEPT ![d] = to]
  /\ call' = [call EXCEPT ![d] = IF to = "idle" THEN NoCall ELSE @]

GotoWith(d, to, c) == pc' = [pc EXCEPT ![d] = to] /\ call' = [call EXCEPT ![d] = c]

Call(d, goal, t) ==
  /\ pc[d] = "idle"
  /\ GotoWith(d, CASE goal = "load" -> "loadStatus" [] goal = "mount" -> "mountCheck"
                   [] OTHER -> "unloadCheck", [NoCall EXCEPT !.goal = goal, !.tape = t])
  /\ UNCHANGED <<library, fs, controller, doubt>>

\* A load that returns lets mount_ltfs go on, or ends the call.
LoadReturns(d) == Goto(d, IF call[d].goal = "mount" THEN "mountDo" ELSE "idle")

\* Mutant of Loaded: the slot's index in the list of the scan for its number.
RemembersIndex(d, s) ==
  /\ mounted' = [mounted EXCEPT ![d] = call[d].tape]
  /\ home' = IF s = NoSlot THEN home ELSE [home EXCEPT ![d] = <<s - 1, call[d].tape>>]
  /\ LoadReturns(d)

Loaded(d, s) ==
  /\ mounted' = [mounted EXCEPT ![d] = call[d].tape]
  /\ home' = IF s = NoSlot THEN home ELSE [home EXCEPT ![d] = <<s, call[d].tape>>]
  /\ LoadReturns(d)

\* get_drive_status speaks of the first drive, whatever drive is loaded; a status that
\* times out reads as a drive not in use.
LoadStatus(d) ==
  LET found == InDrive(FirstDrive) IN
  /\ pc[d] = "loadStatus"
  /\ \/ /\ found = call[d].tape
        /\ Loaded(d, origin[FirstDrive])
        /\ doubt' = doubt \ Settled(d)
     \/ /\ found \notin {NoTape, call[d].tape}
        /\ GotoWith(d, "unloadCheck", [call[d] EXCEPT !.next = "loadScan"])
        /\ UNCHANGED <<controller, doubt>>
     \/ /\ found = NoTape \/ Faulty
        /\ Goto(d, "loadScan")
        /\ UNCHANGED <<controller, doubt>>
  /\ UNCHANGED <<library, fs>>

\* The slot of the barcode; then the tape the controller knows of is unloaded.
LoadScan(d) ==
  LET s == at[call[d].tape] IN
  /\ pc[d] = "loadScan"
  /\ \/ /\ s \in Slots
        /\ GotoWith(d, IF mounted[d] = NoTape THEN "loadIssue" ELSE "unloadCheck",
                    [call[d] EXCEPT !.slot = s, !.next = "loadIssue"])
     \/ /\ s \notin Slots \/ Faulty
        /\ Goto(d, "idle")
  /\ UNCHANGED <<library, fs, controller, doubt>>

\* _run_mtx_command returns before it looks at the return code: a refused command
\* counts as done.
LoadIssue(d) ==
  LET s == call[d].slot IN
  /\ pc[d] = "loadIssue"
  /\ \E effect \in Effects :
       /\ Command(s, d, effect)
       /\ \/ /\ Loaded(d, s)
             /\ doubt' = IF effect = "moved" /\ at[call[d].tape] = s
                         THEN (doubt \ {d}) \cup Overtaken(d, effect) ELSE Doubtful(d, effect)
          \/ /\ Faulty
             /\ Goto(d, "loadConfirm")
             /\ doubt' = Doubtful(d, effect)
             /\ UNCHANGED controller
  /\ UNCHANGED fs

\* Mutant of LoadConfirm: any tape in the drive confirms the load.
ConfirmsAnyTape(d) ==
  /\ pc[d] = "loadConfirm"
  /\ \/ /\ InDrive(FirstDrive) # NoTape
        /\ Loaded(d, call[d].slot)
        /\ doubt' = doubt \ Settled(d)
     \/ /\ InDrive(FirstDrive) = NoTape
        /\ Goto(d, "idle")
        /\ UNCHANGED <<controller, doubt>>
  /\ UNCHANGED <<library, fs>>

\* After a time-out: _confirm_drive_loaded.
LoadConfirm(d) ==
  /\ pc[d] = "loadConfirm"
  /\ \/ /\ InDrive(FirstDrive) = call[d].tape
        /\ Loaded(d, call[d].slot)
        /\ doubt' = doubt \ Settled(d)
     \/ /\ InDrive(FirstDrive) # call[d].tape \/ Faulty
        /\ Goto(d, "idle")
        /\ UNCHANGED <<controller, doubt>>
  /\ UNCHANGED <<library, fs>>

\* An unload that returns ends the call or lets load_tape go on.
UnloadReturns(d) == Goto(d, IF call[d].goal = "unload" THEN "idle" ELSE call[d].next)

\* The tape to unload is the recorded one, else the one in the first drive.
UnloadCheck(d) ==
  LET found == InDrive(FirstDrive)
      held  == IF mounted[d] # NoTape THEN mounted[d] ELSE found IN
  /\ pc[d] = "unloadCheck"
  /\ \/ /\ held # NoTape
        /\ GotoWith(d, "unloadPrepare", [call[d] EXCEPT !.held = held])
        /\ home' = IF mounted[d] # NoTape \/ origin[FirstDrive] = NoSlot THEN home
                   ELSE [home EXCEPT ![d] = <<origin[FirstDrive], held>>]
     \/ /\ mounted[d] = NoTape
        /\ found = NoTape \/ Faulty
        /\ UnloadReturns(d)
        /\ UNCHANGED home
  /\ UNCHANGED <<library, fs, mounted, doubt>>

\* _get_home_slot: the entry counts if it has no barcode or the tape's.
HomeSlot(d) == IF home[d][2] \in {NoTape, call[d].held} THEN home[d][1] ELSE NoSlot

FirstFreeSlot == {s \in Slots : Free(s) /\ \A u \in Slots : Free(u) => s <= u}

UnloadSlots(d) == IF HomeSlot(d) # NoSlot THEN {HomeSlot(d)} ELSE FirstFreeSlot

\* Mutant of UnloadPrepare: goes on without a slot.
UnloadsNowhere(d) ==
  /\ pc[d] = "unloadPrepare"
  /\ fs' = [fs EXCEPT ![d] = NoTape]
  /\ \E s \in {NoSlot} \cup UnloadSlots(d) :
       GotoWith(d, "unloadIssue", [call[d] EXCEPT !.dest = s])
  /\ UNCHANGED <<library, controller, doubt>>

\* LTFS is unmounted and a slot chosen; either may fail. A probe that fails takes a mount
\* point for unmounted, here and in MountDo.
UnloadPrepare(d) ==
  /\ pc[d] = "unloadPrepare"
  /\ \/ /\ fs[d] # NoTape
        /\ Goto(d, "idle")
        /\ UNCHANGED fs
     \/ /\ fs' = [fs EXCEPT ![d] = NoTape] \/ (Faulty /\ UNCHANGED fs)
        /\ \/ \E s \in UnloadSlots(d) : GotoWith(d, "unloadIssue", [call[d] EXCEPT !.dest = s])
           \/ /\ HomeSlot(d) = NoSlot
              /\ Faulty \/ FirstFreeSlot = {}
              /\ Goto(d, "idle")
  /\ UNCHANGED <<library, controller, doubt>>

Unloaded(d) ==
  /\ mounted' = [mounted EXCEPT ![d] = NoTape]
  /\ home' = [home EXCEPT ![d] = NoHome]
  /\ UnloadReturns(d)

UnloadIssue(d) ==
  /\ pc[d] = "unloadIssue"
  /\ \E effect \in Effects :
       /\ Command(d, call[d].dest, effect)
       /\ \/ /\ Unloaded(d)
             /\ doubt' = IF effect = "moved" THEN doubt \cup Overtaken(d, effect)
                         ELSE Doubtful(d, effect)
          \/ /\ Faulty
             /\ Goto(d, "unloadConfirm")
             /\ doubt' = Doubtful(d, effect)
             /\ UNCHANGED controller
  /\ UNCHANGED fs

\* After a time-out: _confirm_drive_unloaded, content with a status that fails.
UnloadConfirm(d) ==
  /\ pc[d] = "unloadConfirm"
  /\ \/ /\ InDrive(FirstDrive) = NoTape \/ Faulty
        /\ Unloaded(d)
     \/ /\ InDrive(FirstDrive) # NoTape
        /\ Goto(d, "idle")
        /\ UNCHANGED controller
  /\ UNCHANGED <<library, fs, doubt>>

\* Mutant of MountCheck: content with any tape in the drive.
MountsAnyTape(d) ==
  /\ pc[d] = "mountCheck"
  /\ Goto(d, IF mounted[d] # NoTape THEN "mountDo" ELSE "loadStatus")
  /\ UNCHANGED <<library, fs, controller, doubt>>

\* mount_ltfs loads a tape only if it is not the recorded one.
MountCheck(d) ==
  /\ pc[d] = "mountCheck"
  /\ Goto(d, IF mounted[d] = call[d].tape THEN "mountDo" ELSE "loadStatus")
  /\ UNCHANGED <<library, fs, controller, doubt>>

\* ltfs gets drive_sg, the first drive's, for every drive.
MountDevice(d) == IF HasDriveSg THEN FirstDrive ELSE d

\* What is mounted already is left mounted; the barcode is not compared.
MountDo(d) ==
  /\ pc[d] = "mountDo"
  /\ \/ /\ fs[d] # NoTape
        /\ Goto(d, "using")
        /\ UNCHANGED fs
     \/ /\ fs[d] = NoTape
        /\ \E t \in Tapes : /\ at[t] = MountDevice(d)
                            /\ \A e \in Drives : fs[e] # t
                            /\ arm[1] # t
                            /\ fs' = [fs EXCEPT ![d] = t]
        /\ Goto(d, "using")
     \/ /\ fs[d] = NoTape \/ Faulty
        /\ Goto(d, "idle")
        /\ UNCHANGED fs
  /\ UNCHANGED <<library, controller, doubt>>

\* unmount_ltfs: the user of a file system ends its work, or makes sure before a format
\* or after a job that nothing is mounted.
Unmount(d) ==
  /\ pc[d] \in {"idle", "using"}
  /\ fs' = [fs EXCEPT ![d] = NoTape] \/ UNCHANGED fs
  /\ Goto(d, "idle")
  /\ UNCHANGED <<library, controller, doubt>>

-----------------------------------------------------------------------------
(* The operator, and the service's restarts                                *)

Undisturbed == Meddling \/ \A d \in Drives : pc[d] = "idle"

\* move_tape between slots; a time-out raises an error and changes nothing else.
Transfer(s, u) ==
  /\ Undisturbed /\ s # u
  /\ \E effect \in Effects :
       /\ Command(s, u, effect)
       /\ doubt' = IF effect = "moved" THEN doubt \cup Running ELSE doubt
  /\ UNCHANGED <<fs, controller, pc, call>>

\* move_tape into a drive: the routes give no barcode, so mounted_tapes stays.
MoveToDrive(s, d) ==
  /\ Undisturbed
  /\ \E effect \in Effects :
       /\ Command(s, d, effect)
       /\ \/ /\ home' = [home EXCEPT ![d] = <<s, NoTape>>]
             /\ doubt' = IF effect = "moved" THEN doubt \cup Running ELSE doubt \cup {d}
          \/ /\ Faulty
             /\ UNCHANGED home
             /\ doubt' = doubt \cup {d} \cup Running
  /\ UNCHANGED <<fs, mounted, pc, call>>

MoveToSlot(d, s) ==
  /\ Undisturbed
  /\ \E effect \in Effects :
       /\ Command(d, s, effect)
       /\ \/ /\ mounted' = [mounted EXCEPT ![d] = NoTape]
             /\ home' = [home EXCEPT ![d] = NoHome]
             /\ doubt' = IF effect = "moved" THEN doubt \cup Running ELSE doubt \cup {d}
          \/ /\ Faulty
             /\ UNCHANGED controller
             /\ doubt' = doubt \cup {d} \cup Running
  /\ UNCHANGED <<fs, pc, call>>

\* __init__ finds home_slots in the state file, but nothing writes mounted_tapes to
\* it; recover_state_on_startup reads the first drive. The file systems may survive.
Restart ==
  /\ UNCHANGED <<library, home>>
  /\ pc' = [d \in Drives |-> "idle"]
  /\ call' = [d \in Drives |-> NoCall]
  /\ fs' = [d \in Drives |-> NoTape] \/ UNCHANGED fs
  /\ \/ /\ mounted' = [d \in Drives |-> IF d = FirstDrive THEN InDrive(d) ELSE NoTape]
        /\ doubt' = doubt \ Settled(FirstDrive)
     \/ /\ Faulty
        /\ mounted' = [d \in Drives |-> NoTape]
        /\ UNCHANGED doubt

-----------------------------------------------------------------------------
\* Before the first start every tape is in a slot of its own and nothing is recorded.
Init ==
  /\ at \in [Tapes -> Slots]
  /\ \A t, u \in Tapes : at[t] = at[u] => t = u
  /\ arm = Still
  /\ origin = [d \in Drives |-> NoSlot]
  /\ taken = {}
  /\ fs = [d \in Drives |-> NoTape]
  /\ mounted = [d \in Drives |-> NoTape]
  /\ home = [d \in Drives |-> NoHome]
  /\ pc = [d \in Drives |-> "idle"]
  /\ call = [d \in Drives |-> NoCall]
  /\ doubt = {}

CallStep(d) ==
  \/ \E t \in Tapes : Call(d, "load", t) \/ Call(d, "mount", t)
  \/ Call(d, "unload", NoTape)
  \/ LoadStatus(d) \/ LoadScan(d) \/ LoadIssue(d) \/ LoadConfirm(d)
  \/ UnloadCheck(d) \/ UnloadPrepare(d) \/ UnloadIssue(d) \/ UnloadConfirm(d)
  \/ MountCheck(d) \/ MountDo(d) \/ Unmount(d)

Operator ==
  \/ \E s, u \in Slots : Transfer(s, u)
  \/ \E s \in Slots, d \in Drives : MoveToDrive(s, d) \/ MoveToSlot(d, s)

Next == (\E d \in Drives : CallStep(d)) \/ ArmStops \/ Operator \/ Restart

Spec == Init /\ [][Next]_vars

-----------------------------------------------------------------------------
(* Properties                                                              *)

Places == Slots \cup Drives

LibraryTypes ==
  /\ at \in [Tapes -> Places]
  /\ arm \in {Still} \cup (Tapes \X Places)
  /\ origin \in [Drives -> Slots \cup {NoSlot}]
  /\ taken \subseteq Slots
  /\ fs \in [Drives -> Tapes \cup {NoTape}]

ControllerTypes ==
  /\ mounted \in [Drives -> Tapes \cup {NoTape}]
  /\ home \in [Drives -> (Slots \cup {NoSlot}) \X (Tapes \cup {NoTape})]
  /\ doubt \subseteq Drives

CallTypes ==
  /\ pc \in [Drives -> {"idle", "using", "loadStatus", "loadScan", "loadIssue", "loadConfirm",
                        "unloadCheck", "unloadPrepare", "unloadIssue", "unloadConfirm",
                        "mountCheck", "mountDo"}]
  /\ call \in [Drives -> [goal : {"none", "load", "mount", "unload"}, tape : Tapes \cup {NoTape},
                          slot : Slots \cup {NoSlot}, held : Tapes \cup {NoTape},
                          dest : Slots \cup {NoSlot}, next : {"none", "loadScan", "loadIssue"}]]

\* The kinds of the variables. A place holds one tape, and a mounted one is in a drive.
TypeOK ==
  /\ LibraryTypes /\ ControllerTypes /\ CallTypes
  /\ \A t, u \in Tapes : at[t] = at[u] => t = u

\* The tape recorded for the first drive is in it, through time-outs, late moves and
\* restarts, unless a command was refused or timed out, or tapes were moved meanwhile.
RecordIsRight ==
  mounted[FirstDrive] # NoTape =>
    at[mounted[FirstDrive]] = FirstDrive \/ FirstDrive \in doubt

\* Who has the first drive mounted for a tape has that tape's file system, with the
\* same exceptions.
UsesItsTape ==
  pc[FirstDrive] = "using" =>
    fs[FirstDrive] = call[FirstDrive].tape \/ FirstDrive \in doubt

\* The slot that the first drive's tape will go back to is free, unless a tape from
\* elsewhere was put there, or the drive is in doubt.
HomeIsFree ==
  \A s \in Slots, t \in Tapes :
    home[FirstDrive] = <<s, t>> /\ at[t] = FirstDrive =>
      Free(s) \/ s \in taken \/ FirstDrive \in doubt

=============================================================================
