---------------------------- MODULE ConnectionPool ----------------------------
(***************************************************************************)
(* ConnectionPool of database.py: the queue of free SQLite connections,    *)
(* the list of all of them, and each thread's own connection in a          *)
(* threading.local. get_connection takes several steps, of which only      *)
(* single queue operations and the creation of a connection are atomic.    *)
(*                                                                         *)
(* A connection may die (SELECT 1 raises) at any time. Nothing in the      *)
(* application calls close_all, which is left out.                         *)
(***************************************************************************)
EXTENDS Naturals, Sequences, FiniteSets

CONSTANTS
  Threads,
  Conns,     \* connection objects
  PoolSize,
  NoConn

ASSUME PoolAssumption ==
  /\ PoolSize \in Nat \ {0}
  /\ NoConn \notin Conns

VARIABLES
  pool,    \* _pool, the queue of free connections
  all,     \* _all_connections
  local,   \* _local.conn of each thread
  need,    \* where a thread is in get_connection
  dead,    \* connections on which SELECT 1 raises
  leaked   \* connections whose thread ended without returning them

poolVars == <<pool, all, local, need, dead, leaked>>

Needs == {"no", "take", "make", "wait", "timeout"}
Free  == {pool[i] : i \in 1..Len(pool)}
Held  == {local[t] : t \in Threads} \ {NoConn}
Fresh == Conns \ (all \cup dead)

PoolInit ==
  /\ pool = <<>>
  /\ all = {}
  /\ local = [t \in Threads |-> NoConn]
  /\ need = [t \in Threads |-> "no"]
  /\ dead = {}
  /\ leaked = {}

-----------------------------------------------------------------------------
(* get_connection                                                          *)

\* A thread that has a live connection gets the same one again.
Ready(t) == need[t] = "no" /\ local[t] \in Conns \ dead

Ask(t) ==
  /\ need[t] = "no"
  /\ local[t] = NoConn
  /\ need' = [need EXCEPT ![t] = "take"]
  /\ UNCHANGED <<pool, all, local, dead, leaked>>

\* The thread's own connection is dead: forget it and take another.
DropDead(t) ==
  /\ need[t] = "no"
  /\ local[t] \in dead
  /\ all' = all \ {local[t]}
  /\ local' = [local EXCEPT ![t] = NoConn]
  /\ need' = [need EXCEPT ![t] = "take"]
  /\ UNCHANGED <<pool, dead, leaked>>

Give(t, c) ==
  /\ local' = [local EXCEPT ![t] = c]
  /\ need' = [need EXCEPT ![t] = "no"]

\* The queue without waiting.
TakeFree(t) ==
  /\ need[t] = "take"
  /\ pool # <<>>
  /\ pool' = Tail(pool)
  /\ \/ /\ Head(pool) \notin dead
        /\ Give(t, Head(pool))
        /\ UNCHANGED all
     \/ /\ Head(pool) \in dead
        /\ all' = all \ {Head(pool)}
        /\ need' = [need EXCEPT ![t] = "make"]
        /\ UNCHANGED local
  /\ UNCHANGED <<dead, leaked>>

TakeNothing(t) ==
  /\ need[t] = "take"
  /\ pool = <<>>
  /\ need' = [need EXCEPT ![t] = "make"]
  /\ UNCHANGED <<pool, all, local, dead, leaked>>

\* With the pool's lock: a new connection if there are not enough.
\* Mutant of MayMake: one too many.
MayMakeOneMore == Cardinality(all) <= PoolSize

MayMake == Cardinality(all) < PoolSize
Make(t) ==
  /\ need[t] = "make"
  /\ \/ /\ MayMake
        /\ \E c \in Fresh :
             /\ all' = all \cup {c}
             /\ Give(t, c)
     \/ /\ ~MayMake
        /\ need' = [need EXCEPT ![t] = "wait"]
        /\ UNCHANGED <<all, local>>
  /\ UNCHANGED <<pool, dead, leaked>>

\* The queue with a time-out. A dead connection is replaced at once: it
\* stays in the list, and the size is not looked at.
WaitFree(t) ==
  /\ need[t] = "wait"
  /\ pool # <<>>
  /\ pool' = Tail(pool)
  /\ \/ /\ Head(pool) \notin dead
        /\ Give(t, Head(pool))
        /\ UNCHANGED all
     \/ /\ Head(pool) \in dead
        /\ \E c \in Fresh :
             /\ all' = all \cup {c}
             /\ Give(t, c)
  /\ UNCHANGED <<dead, leaked>>

TimeOut(t) ==
  /\ need[t] = "wait"
  /\ pool = <<>>
  /\ need' = [need EXCEPT ![t] = "timeout"]
  /\ UNCHANGED <<pool, all, local, dead, leaked>>

GetConnection(t) ==
  DropDead(t) \/ TakeFree(t) \/ TakeNothing(t) \/ Make(t) \/ WaitFree(t) \/ TimeOut(t)

-----------------------------------------------------------------------------
(* The end of a thread's work                                              *)

\* Mutant of Return: the thread keeps the connection it has put back.
ReturnAndKeep(t) ==
  /\ local[t] \in Conns
  /\ Len(pool) < PoolSize
  /\ pool' = Append(pool, local[t])
  /\ UNCHANGED <<local, all, dead>>

\* Mutant of Return: the thread's reference is cleared, and no more.
ReturnNothing(t) ==
  /\ local[t] \in Conns
  /\ local' = [local EXCEPT ![t] = NoConn]
  /\ UNCHANGED <<pool, all, dead>>

\* return_connection: a queue that is full has the connection closed.
Return(t) ==
  /\ local[t] \in Conns
  /\ local' = [local EXCEPT ![t] = NoConn]
  /\ \/ /\ Len(pool) < PoolSize
        /\ pool' = Append(pool, local[t])
        /\ UNCHANGED <<all, dead>>
     \/ /\ Len(pool) >= PoolSize
        /\ all' = all \ {local[t]}
        /\ dead' = dead \cup {local[t]}
        /\ UNCHANGED pool

\* release_connection, as the request's teardown and the log writer call it.
\* A thread whose get_connection timed out has nothing to return.
Release(t) ==
  /\ need[t] \in {"no", "timeout"}
  /\ need' = [need EXCEPT ![t] = "no"]
  /\ \/ Return(t)
     \/ /\ local[t] = NoConn
        /\ UNCHANGED <<pool, all, local, dead>>
  /\ UNCHANGED leaked

\* A thread that ends without release_connection: its threading.local is
\* gone, the connection stays in the list and never comes back.
EndThread(t) ==
  /\ need[t] \in {"no", "timeout"}
  /\ need' = [need EXCEPT ![t] = "no"]
  /\ local' = [local EXCEPT ![t] = NoConn]
  /\ leaked' = leaked \cup ({local[t]} \ {NoConn})
  /\ UNCHANGED <<pool, all, dead>>

\* SQLite fails, or a test closes the connection.
Dies(c) ==
  /\ c \in all \ dead
  /\ dead' = dead \cup {c}
  /\ UNCHANGED <<pool, all, local, need, leaked>>

PoolStep ==
  \/ \E t \in Threads : Ask(t) \/ GetConnection(t) \/ Release(t) \/ EndThread(t)
  \/ \E c \in Conns : Dies(c)

-----------------------------------------------------------------------------
(* Properties                                                              *)

\* The variables keep their types.
PoolTypeOK ==
  /\ pool \in Seq(Conns)
  /\ all \subseteq Conns
  /\ local \in [Threads -> Conns \cup {NoConn}]
  /\ need \in [Threads -> Needs]
  /\ dead \subseteq Conns
  /\ leaked \subseteq Conns

\* "Each thread gets its own connection": no connection is with two threads,
\* in the queue twice, or in the queue and with a thread. Statements of two
\* threads on one connection would be one transaction.
NoSharedConnection ==
  /\ \A s, t \in Threads : s # t /\ local[s] = local[t] => local[s] = NoConn
  /\ \A i, j \in 1..Len(pool) : pool[i] = pool[j] => i = j
  /\ Free \cap Held = {}
  /\ leaked \cap (Free \cup Held) = {}

InUse == Free \cup Held \cup leaked

\* However many connections die and are replaced without a look at the size,
\* at most PoolSize are free, with a thread or lost with one, and the queue
\* has room for every connection that is returned.
PoolBounded == Cardinality(InUse) <= PoolSize

\* Through every loss, replacement and time-out each connection has one place, and
\* there are no more of them than the pool was made for.
PoolIsSound == NoSharedConnection /\ PoolBounded

\* Only threads that end without release_connection lose a live connection:
\* on every other path, errors and time-outs included, it goes back.
OnlyLeaksLose == all \ dead \subseteq InUse
===============================================================================
