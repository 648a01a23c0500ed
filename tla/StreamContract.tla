---------------------------- MODULE StreamContract ----------------------------
(***************************************************************************)
(* What a streaming backup promises: each run puts its own files on its    *)
(* own tape, each once, and ends when all of them are there, but           *)
(* for files that cannot be read from the source or written to the tape.   *)
(***************************************************************************)
EXTENDS Naturals

CONSTANTS
  Runs,   \* executions of the pipeline
  Count,  \* number of files of each
  Faulty  \* files that may be left out

VARIABLES
  phase,  \* each run is idle, active or ended
  tape    \* how often each file was written to each run's tape

FilesOf(r) == {r} \X (1 .. Count[r])
Files == UNION {FilesOf(r) : r \in Runs}

Init ==
  /\ phase = [r \in Runs |-> "idle"]
  /\ tape = [r \in Runs |-> [f \in Files |-> 0]]

Begin(r) ==
  /\ phase[r] = "idle"
  /\ phase' = [phase EXCEPT ![r] = "active"]
  /\ UNCHANGED tape

Write(r) ==
  /\ phase[r] = "active"
  /\ \E f \in FilesOf(r) : tape[r][f] = 0 /\ tape' = [tape EXCEPT ![r][f] = 1]
  /\ UNCHANGED phase

End(r) ==
  /\ phase[r] = "active"
  /\ \A f \in FilesOf(r) \ Faulty : tape[r][f] = 1
  /\ phase' = [phase EXCEPT ![r] = "ended"]
  /\ UNCHANGED tape

Next == \E r \in Runs : Begin(r) \/ Write(r) \/ End(r)

Spec == Init /\ [][Next]_<<phase, tape>>
=============================================================================
