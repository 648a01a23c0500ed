---------------------------- MODULE DatabaseProofs ----------------------------
(* Proofs about the connection pool and the transactions of Database, for any  *)
(* number of threads and connections and any size of the pool.                 *)
EXTENDS Database, TLAPS, FiniteSetTheorems

-----------------------------------------------------------------------------
(* The queue of free connections                                           *)

LEMMA TailOf ==
  ASSUME NEW S, NEW q \in Seq(S), q # <<>>,
         \A i, j \in 1..Len(q) : q[i] = q[j] => i = j
  PROVE  /\ Head(q) \in S
         /\ Tail(q) \in Seq(S)
         /\ \A i, j \in 1..Len(Tail(q)) : Tail(q)[i] = Tail(q)[j] => i = j
         /\ {Tail(q)[i] : i \in 1..Len(Tail(q))} = {q[i] : i \in 1..Len(q)} \ {Head(q)}
         /\ Head(q) \in {q[i] : i \in 1..Len(q)}
<1>1. Len(q) \in Nat /\ Len(q) > 0 /\ Len(Tail(q)) = Len(q) - 1
  OBVIOUS
<1>2. \A i \in 1..Len(Tail(q)) : Tail(q)[i] = q[i + 1]
  OBVIOUS
<1>3. Head(q) = q[1]
  OBVIOUS
<1>4. \A i \in 1..Len(q) : i # 1 => i - 1 \in 1..Len(Tail(q)) /\ Tail(q)[i - 1] = q[i]
  BY <1>1, <1>2
<1>5. {Tail(q)[i] : i \in 1..Len(Tail(q))} \subseteq {q[i] : i \in 1..Len(q)} \ {Head(q)}
  BY <1>1, <1>2, <1>3
<1>6. {q[i] : i \in 1..Len(q)} \ {Head(q)} \subseteq {Tail(q)[i] : i \in 1..Len(Tail(q))}
  BY <1>1, <1>3, <1>4
<1>7. \A i, j \in 1..Len(Tail(q)) : Tail(q)[i] = Tail(q)[j] => i = j
  BY <1>1, <1>2
<1> QED
  BY <1>1, <1>3, <1>5, <1>6, <1>7

LEMMA AppendOf ==
  ASSUME NEW S, NEW q \in Seq(S), NEW c \in S,
         \A i, j \in 1..Len(q) : q[i] = q[j] => i = j,
         c \notin {q[i] : i \in 1..Len(q)}
  PROVE  /\ Append(q, c) \in Seq(S)
         /\ \A i, j \in 1..Len(Append(q, c)) : Append(q, c)[i] = Append(q, c)[j] => i = j
         /\ {Append(q, c)[i] : i \in 1..Len(Append(q, c))} = {q[i] : i \in 1..Len(q)} \cup {c}
<1>1. Len(q) \in Nat /\ Len(Append(q, c)) = Len(q) + 1 /\ Append(q, c)[Len(q) + 1] = c
  OBVIOUS
<1>2. \A i \in 1..Len(q) : Append(q, c)[i] = q[i]
  OBVIOUS
<1>3. \A i \in 1..Len(q) + 1 : i \in 1..Len(q) \/ i = Len(q) + 1
  BY <1>1
<1>4. {Append(q, c)[i] : i \in 1..Len(Append(q, c))} \subseteq {q[i] : i \in 1..Len(q)} \cup {c}
  BY <1>1, <1>2, <1>3
<1>5. {q[i] : i \in 1..Len(q)} \cup {c} \subseteq {Append(q, c)[i] : i \in 1..Len(Append(q, c))}
  BY <1>1, <1>2
<1> QED
  BY <1>1, <1>2, <1>3, <1>4, <1>5

-----------------------------------------------------------------------------
(* The pool                                                                *)

\* A thread inside get_connection has no connection yet.
Asking == \A t \in Threads : need[t] # "no" => local[t] = NoConn

PoolInv ==
  /\ PoolTypeOK
  /\ Asking
  /\ NoSharedConnection
  /\ InUse \subseteq all
  /\ IsFiniteSet(all)
  /\ PoolBounded
  /\ OnlyLeaksLose

\* What each step may do to the connections in use.
Kept == InUse' \subseteq InUse
Made == \E c \in Conns : InUse' \subseteq InUse \cup {c} /\ MayMake
Replaced == \E c \in Conns, d \in InUse : InUse' \subseteq (InUse \ {d}) \cup {c}

LEMMA OneMore ==
  ASSUME NEW S, NEW x, IsFiniteSet(S)
  PROVE  /\ IsFiniteSet(S \cup {x})
         /\ Cardinality(S) \in Nat
         /\ Cardinality(S \cup {x}) \in Nat
         /\ Cardinality(S \cup {x}) <= Cardinality(S) + 1
<1>1. /\ IsFiniteSet(S \cup {x})
      /\ Cardinality(S \cup {x}) = IF x \in S THEN Cardinality(S) ELSE Cardinality(S) + 1
  BY FS_AddElement
<1>2. Cardinality(S) \in Nat
  BY FS_CardinalityType
<1>3. CASE x \in S
  BY <1>1, <1>2, <1>3
<1>4. CASE x \notin S
  BY <1>1, <1>2, <1>4
<1> QED
  BY <1>1, <1>3, <1>4

LEMMA BoundKept ==
  ASSUME PoolInv, Kept \/ Made \/ Replaced PROVE PoolBounded'
<1> USE PoolAssumption DEF PoolInv, PoolBounded
<1>1. IsFiniteSet(InUse) /\ Cardinality(InUse) \in Nat /\ Cardinality(all) \in Nat
  BY FS_Subset, FS_CardinalityType
<1>2. CASE Kept
  BY <1>1, <1>2, FS_Subset, FS_CardinalityType DEF Kept
<1>3. CASE Made
  <2>1. PICK c \in Conns : InUse' \subseteq InUse \cup {c}
    BY <1>3 DEF Made
  <2>2. Cardinality(InUse) < PoolSize
    BY <1>1, <1>3, FS_Subset DEF Made, MayMake
  <2>3. IsFiniteSet(InUse \cup {c}) /\ Cardinality(InUse \cup {c}) <= Cardinality(InUse) + 1
    BY <1>1, OneMore
  <2>4. Cardinality(InUse') <= Cardinality(InUse \cup {c}) /\ Cardinality(InUse') \in Nat
        /\ Cardinality(InUse \cup {c}) \in Nat
    BY <2>1, <2>3, FS_Subset, FS_CardinalityType
  <2> QED
    BY <1>1, <2>2, <2>3, <2>4
<1>4. CASE Replaced
  <2>1. PICK c \in Conns, d \in InUse : InUse' \subseteq (InUse \ {d}) \cup {c}
    BY <1>4 DEF Replaced
  <2>2. IsFiniteSet(InUse \ {d}) /\ Cardinality(InUse \ {d}) = Cardinality(InUse) - 1
    BY <1>1, FS_RemoveElement
  <2>3. /\ IsFiniteSet((InUse \ {d}) \cup {c})
        /\ Cardinality(InUse \ {d}) \in Nat
        /\ Cardinality((InUse \ {d}) \cup {c}) \in Nat
        /\ Cardinality((InUse \ {d}) \cup {c}) <= Cardinality(InUse \ {d}) + 1
    BY <2>2, OneMore
  <2>4. /\ Cardinality(InUse') <= Cardinality((InUse \ {d}) \cup {c})
        /\ Cardinality(InUse') \in Nat
    BY <2>1, <2>3, FS_Subset, FS_CardinalityType
  <2> QED
    BY <1>1, <2>2, <2>3, <2>4
<1> QED
  BY <1>2, <1>3, <1>4

\* A thread that has no connection gets a fresh one or one taken from the queue.
LEMMA StepOf ==
  ASSUME PoolInv, PoolStep
  PROVE  /\ PoolTypeOK' /\ Asking' /\ NoSharedConnection' /\ InUse' \subseteq all'
         /\ IsFiniteSet(all') /\ OnlyLeaksLose'
         /\ Kept \/ Made \/ Replaced
<1> DEFINE Goal ==
  /\ PoolTypeOK' /\ Asking' /\ NoSharedConnection' /\ InUse' \subseteq all'
  /\ IsFiniteSet(all') /\ OnlyLeaksLose'
  /\ Kept \/ Made \/ Replaced
<1> USE PoolAssumption
<1>0. /\ PoolTypeOK /\ Asking /\ NoSharedConnection /\ InUse \subseteq all /\ IsFiniteSet(all)
      /\ OnlyLeaksLose
  BY DEF PoolInv
<1>1. ASSUME NEW t \in Threads, Ask(t) PROVE Goal
  BY <1>0, <1>1 DEF Ask, PoolTypeOK, Asking, NoSharedConnection, OnlyLeaksLose, InUse, Free, Held, Kept,
    Needs
<1>2. ASSUME NEW t \in Threads, DropDead(t) PROVE Goal
  <2>1. Held' = Held \ {local[t]} /\ local[t] \in Conns /\ local[t] \in Held
    BY <1>0, <1>2 DEF DropDead, PoolTypeOK, NoSharedConnection, Held
  <2>2. Free' = Free
    BY <1>2 DEF DropDead, Free
  <2>3. IsFiniteSet(all')
    BY <1>0, <1>2, FS_RemoveElement DEF DropDead
  <2>4. PoolTypeOK' /\ Asking' /\ NoSharedConnection'
    BY <1>0, <1>2, <2>1, <2>2 DEF DropDead, PoolTypeOK, Asking, NoSharedConnection, Needs
  <2>5. InUse' \subseteq all' /\ OnlyLeaksLose' /\ Kept
    BY <1>0, <1>2, <2>1, <2>2 DEF DropDead, NoSharedConnection, OnlyLeaksLose, InUse, Kept
  <2> QED
    BY <2>3, <2>4, <2>5
<1>3. ASSUME NEW t \in Threads, TakeFree(t) PROVE Goal
  <2>1. /\ Head(pool) \in Conns /\ pool' \in Seq(Conns) /\ Free' = Free \ {Head(pool)}
        /\ Head(pool) \in Free /\ local[t] = NoConn
        /\ \A i, j \in 1..Len(pool') : pool'[i] = pool'[j] => i = j
    <3>1. pool \in Seq(Conns) /\ pool # <<>> /\ \A i, j \in 1..Len(pool) : pool[i] = pool[j] => i = j
      BY <1>0, <1>3 DEF TakeFree, PoolTypeOK, NoSharedConnection
    <3>2. /\ Head(pool) \in Conns /\ Tail(pool) \in Seq(Conns) /\ Head(pool) \in Free
          /\ \A i, j \in 1..Len(Tail(pool)) : Tail(pool)[i] = Tail(pool)[j] => i = j
          /\ {Tail(pool)[i] : i \in 1..Len(Tail(pool))} = Free \ {Head(pool)}
      BY <3>1, TailOf DEF Free
    <3>3. pool' = Tail(pool) /\ local[t] = NoConn
      BY <1>0, <1>3 DEF TakeFree, Asking
    <3>4. Free' = {Tail(pool)[i] : i \in 1..Len(Tail(pool))}
      BY <3>3 DEF Free
    <3> QED
      BY <3>2, <3>3, <3>4
  <2>2. Head(pool) \in all /\ Head(pool) \notin Held /\ Head(pool) \notin leaked
    BY <1>0, <2>1 DEF NoSharedConnection, InUse
  <2>3. CASE Head(pool) \notin dead
    <3>1. Held' = Held \cup {Head(pool)}
      BY <1>0, <1>3, <2>1, <2>3 DEF TakeFree, Give, PoolTypeOK, Held
    <3>2. PoolTypeOK' /\ Asking'
      BY <1>0, <1>3, <2>1, <2>3 DEF TakeFree, Give, PoolTypeOK, Asking, Needs
    <3>3. \A u \in Threads \ {t} : local[u] # Head(pool)
      BY <2>1, <2>2 DEF Held
    <3>4. \A u, v \in Threads : u # v /\ local'[u] = local'[v] => local'[u] = NoConn
      BY <1>0, <1>3, <2>3, <3>3 DEF TakeFree, Give, PoolTypeOK, NoSharedConnection
    <3>5. NoSharedConnection'
      BY <1>0, <1>3, <2>1, <2>2, <3>1, <3>4 DEF TakeFree, NoSharedConnection
    <3>6. InUse' = InUse /\ all' = all /\ dead' = dead
      BY <1>3, <2>1, <2>3, <3>1 DEF TakeFree, InUse
    <3> QED
      BY <1>0, <3>2, <3>5, <3>6 DEF OnlyLeaksLose, Kept
  <2>4. CASE Head(pool) \in dead
    <3>1. Held' = Held /\ all' = all \ {Head(pool)} /\ InUse' = InUse \ {Head(pool)}
      BY <1>3, <2>1, <2>2, <2>4 DEF TakeFree, Held, InUse
    <3>2. PoolTypeOK' /\ Asking' /\ NoSharedConnection'
      BY <1>0, <1>3, <2>1, <2>4, <3>1 DEF TakeFree, PoolTypeOK, Asking, NoSharedConnection, Needs
    <3>3. IsFiniteSet(all')
      BY <1>0, <3>1, FS_RemoveElement
    <3> QED
      BY <1>0, <1>3, <2>4, <3>1, <3>2, <3>3 DEF TakeFree, OnlyLeaksLose, Kept
  <2> QED
    BY <2>3, <2>4
<1>4. ASSUME NEW t \in Threads, TakeNothing(t) PROVE Goal
  BY <1>0, <1>4 DEF TakeNothing, PoolTypeOK, Asking, NoSharedConnection, OnlyLeaksLose, InUse, Free, Held,
    Kept, Needs
<1>5. ASSUME NEW t \in Threads, Make(t) PROVE Goal
  <2>1. CASE MayMake
    <3>1. PICK c \in Fresh : all' = all \cup {c} /\ Give(t, c)
      BY <1>5, <2>1 DEF Make
    <3>2. c \in Conns /\ c \notin all /\ c \notin dead /\ c \notin InUse /\ c # NoConn
      BY <1>0, <3>1 DEF Fresh
    <3>3. Held' = Held \cup {c}
      BY <1>0, <1>5, <3>1, <3>2 DEF Give, PoolTypeOK, Held, Asking, Make
    <3>4. PoolTypeOK' /\ Asking'
      BY <1>0, <1>5, <3>1, <3>2 DEF Give, PoolTypeOK, Asking, Needs, Make
    <3>5. \A u, v \in Threads : u # v /\ local'[u] = local'[v] => local'[u] = NoConn
      BY <1>0, <3>1, <3>2 DEF Give, PoolTypeOK, NoSharedConnection, InUse, Held
    <3>6. NoSharedConnection'
      BY <1>0, <1>5, <3>2, <3>3, <3>5 DEF NoSharedConnection, InUse, Make, Free
    <3>7. IsFiniteSet(all')
      BY <1>0, <3>1, FS_AddElement
    <3>8. InUse' = InUse \cup {c} /\ dead' = dead
      BY <1>5, <3>3 DEF Make, InUse, Free
    <3>9. Made
      BY <2>1, <3>2, <3>8 DEF Made
    <3> QED
      BY <1>0, <3>1, <3>4, <3>6, <3>7, <3>8, <3>9 DEF OnlyLeaksLose
  <2>2. CASE ~MayMake
    <3>1. need' = [need EXCEPT ![t] = "wait"] /\ UNCHANGED <<pool, all, local, dead, leaked>>
      BY <1>5, <2>2 DEF Make
    <3>2. local[t] = NoConn
      BY <1>0, <1>5 DEF Make, Asking
    <3>3. Free' = Free /\ Held' = Held /\ InUse' = InUse
      BY <3>1 DEF Free, Held, InUse
    <3>4. PoolTypeOK' /\ Asking'
      BY <1>0, <3>1, <3>2 DEF PoolTypeOK, Asking, Needs
    <3> QED
      BY <1>0, <3>1, <3>3, <3>4 DEF NoSharedConnection, OnlyLeaksLose, Kept
  <2> QED
    BY <2>1, <2>2
<1>6. ASSUME NEW t \in Threads, WaitFree(t) PROVE Goal
  <2>1. /\ Head(pool) \in Conns /\ pool' \in Seq(Conns) /\ Free' = Free \ {Head(pool)}
        /\ Head(pool) \in Free /\ local[t] = NoConn
        /\ \A i, j \in 1..Len(pool') : pool'[i] = pool'[j] => i = j
    <3>1. pool \in Seq(Conns) /\ pool # <<>> /\ \A i, j \in 1..Len(pool) : pool[i] = pool[j] => i = j
      BY <1>0, <1>6 DEF WaitFree, PoolTypeOK, NoSharedConnection
    <3>2. /\ Head(pool) \in Conns /\ Tail(pool) \in Seq(Conns) /\ Head(pool) \in Free
          /\ \A i, j \in 1..Len(Tail(pool)) : Tail(pool)[i] = Tail(pool)[j] => i = j
          /\ {Tail(pool)[i] : i \in 1..Len(Tail(pool))} = Free \ {Head(pool)}
      BY <3>1, TailOf DEF Free
    <3>3. pool' = Tail(pool) /\ local[t] = NoConn
      BY <1>0, <1>6 DEF WaitFree, Asking
    <3>4. Free' = {Tail(pool)[i] : i \in 1..Len(Tail(pool))}
      BY <3>3 DEF Free
    <3> QED
      BY <3>2, <3>3, <3>4
  <2>2. Head(pool) \in all /\ Head(pool) \notin Held /\ Head(pool) \notin leaked
    BY <1>0, <2>1 DEF NoSharedConnection, InUse
  <2>3. CASE Head(pool) \notin dead
    <3>1. Held' = Held \cup {Head(pool)}
      BY <1>0, <1>6, <2>1, <2>3 DEF WaitFree, Give, PoolTypeOK, Held
    <3>2. PoolTypeOK' /\ Asking'
      BY <1>0, <1>6, <2>1, <2>3 DEF WaitFree, Give, PoolTypeOK, Asking, Needs
    <3>3. \A u \in Threads \ {t} : local[u] # Head(pool)
      BY <2>1, <2>2 DEF Held
    <3>4. \A u, v \in Threads : u # v /\ local'[u] = local'[v] => local'[u] = NoConn
      BY <1>0, <1>6, <2>3, <3>3 DEF WaitFree, Give, PoolTypeOK, NoSharedConnection
    <3>5. NoSharedConnection'
      BY <1>0, <1>6, <2>1, <2>2, <3>1, <3>4 DEF WaitFree, NoSharedConnection
    <3>6. InUse' = InUse /\ all' = all /\ dead' = dead
      BY <1>6, <2>1, <2>3, <3>1 DEF WaitFree, InUse
    <3> QED
      BY <1>0, <3>2, <3>5, <3>6 DEF OnlyLeaksLose, Kept
  <2>4. CASE Head(pool) \in dead
    <3>1. PICK c \in Fresh : all' = all \cup {c} /\ Give(t, c)
      BY <1>6, <2>4 DEF WaitFree
    <3>2. c \in Conns /\ c \notin all /\ c \notin dead /\ c \notin InUse /\ c # NoConn
      BY <1>0, <3>1 DEF Fresh
    <3>3. Held' = Held \cup {c}
      BY <1>0, <1>6, <2>1, <3>1, <3>2 DEF Give, PoolTypeOK, Held, Asking, WaitFree
    <3>4. PoolTypeOK' /\ Asking'
      BY <1>0, <1>6, <2>1, <3>1, <3>2 DEF Give, PoolTypeOK, Asking, Needs, WaitFree
    <3>5. \A u, v \in Threads : u # v /\ local'[u] = local'[v] => local'[u] = NoConn
      BY <1>0, <3>1, <3>2 DEF Give, PoolTypeOK, NoSharedConnection, InUse, Held
    <3>6. NoSharedConnection'
      BY <1>0, <1>6, <2>1, <2>2, <3>2, <3>3, <3>5 DEF NoSharedConnection, InUse, WaitFree
    <3>7. IsFiniteSet(all')
      BY <1>0, <3>1, FS_AddElement
    <3>8. InUse' = (InUse \ {Head(pool)}) \cup {c} /\ dead' = dead
      BY <1>6, <2>1, <2>2, <3>2, <3>3 DEF WaitFree, InUse
    <3>9. Replaced
      BY <2>1, <3>2, <3>8 DEF Replaced, InUse
    <3> QED
      BY <1>0, <2>4, <3>1, <3>4, <3>6, <3>7, <3>8, <3>9 DEF OnlyLeaksLose
  <2> QED
    BY <2>3, <2>4
<1>7. ASSUME NEW t \in Threads, TimeOut(t) PROVE Goal
  BY <1>0, <1>7 DEF TimeOut, PoolTypeOK, Asking, NoSharedConnection, OnlyLeaksLose, InUse, Free, Held,
    Kept, Needs
<1>8. ASSUME NEW t \in Threads, Release(t) PROVE Goal
  <2>1. CASE local[t] = NoConn
    BY <1>0, <1>8, <2>1 DEF Release, Return, PoolTypeOK, Asking, NoSharedConnection,
      OnlyLeaksLose, InUse, Free, Held, Kept, Needs
  <2>2. CASE local[t] # NoConn
    <3>1. /\ local[t] \in Conns /\ local[t] \in Held /\ local[t] \notin Free /\ Return(t)
          /\ local[t] \notin leaked
      BY <1>0, <1>8, <2>2 DEF Release, PoolTypeOK, Held, NoSharedConnection
    <3>2. Held' = Held \ {local[t]}
      BY <1>0, <3>1 DEF Return, PoolTypeOK, NoSharedConnection, Held
    <3>3. CASE Len(pool) < PoolSize
      <4>1. /\ pool' \in Seq(Conns) /\ Free' = Free \cup {local[t]} /\ pool' = Append(pool, local[t])
            /\ \A i, j \in 1..Len(pool') : pool'[i] = pool'[j] => i = j
        <5>1. /\ pool \in Seq(Conns) /\ local[t] \notin {pool[i] : i \in 1..Len(pool)}
              /\ \A i, j \in 1..Len(pool) : pool[i] = pool[j] => i = j
          BY <1>0, <3>1 DEF PoolTypeOK, NoSharedConnection, Free
        <5>2. /\ Append(pool, local[t]) \in Seq(Conns)
              /\ \A i, j \in 1..Len(Append(pool, local[t])) :
                   Append(pool, local[t])[i] = Append(pool, local[t])[j] => i = j
              /\ {Append(pool, local[t])[i] : i \in 1..Len(Append(pool, local[t]))}
                 = Free \cup {local[t]}
          BY <3>1, <5>1, AppendOf DEF Free
        <5>3. pool' = Append(pool, local[t])
          BY <1>0, <3>1, <3>3 DEF Return, PoolTypeOK
        <5>4. Free' = {Append(pool, local[t])[i] : i \in 1..Len(Append(pool, local[t]))}
          BY <5>3 DEF Free
        <5> QED
          BY <5>2, <5>3, <5>4
      <4>2. PoolTypeOK' /\ Asking'
        BY <1>0, <1>8, <3>1, <3>3, <4>1 DEF Release, Return, PoolTypeOK, Asking, Needs
      <4>3. NoSharedConnection'
        BY <1>0, <1>8, <3>1, <3>2, <4>1 DEF Release, Return, PoolTypeOK, NoSharedConnection
      <4>4. InUse' = InUse /\ all' = all /\ dead' = dead
        BY <1>8, <3>1, <3>2, <3>3, <4>1 DEF Release, Return, InUse
      <4> QED
        BY <1>0, <4>2, <4>3, <4>4 DEF OnlyLeaksLose, Kept
    <3>4. CASE Len(pool) >= PoolSize
      <4>1. Free' = Free /\ pool' = pool
        BY <1>0, <3>1, <3>4 DEF Return, Free, PoolTypeOK
      <4>2. all' = all \ {local[t]} /\ dead' = dead \cup {local[t]}
        BY <1>0, <3>1, <3>4 DEF Return, PoolTypeOK
      <4>3. PoolTypeOK' /\ Asking'
        BY <1>0, <1>8, <3>1, <4>1, <4>2 DEF Release, Return, PoolTypeOK, Asking, Needs
      <4>4. NoSharedConnection'
        BY <1>0, <1>8, <3>1, <3>2, <4>1 DEF Release, Return, PoolTypeOK, NoSharedConnection
      <4>5. InUse' = InUse \ {local[t]} /\ IsFiniteSet(all')
        BY <1>0, <1>8, <3>1, <3>2, <4>1, <4>2, FS_RemoveElement DEF Release, InUse
      <4> QED
        BY <1>0, <4>2, <4>3, <4>4, <4>5 DEF OnlyLeaksLose, Kept
    <3>5. Len(pool) \in Nat
      BY <1>0 DEF PoolTypeOK
    <3> QED
      BY <3>3, <3>4, <3>5
  <2> QED
    BY <2>1, <2>2
<1>9. ASSUME NEW t \in Threads, EndThread(t) PROVE Goal
  <2>1. Held' = Held \ {local[t]} /\ Free' = Free
    BY <1>0, <1>9 DEF EndThread, PoolTypeOK, NoSharedConnection, Held, Free
  <2>2. leaked' = leaked \cup ({local[t]} \ {NoConn}) /\ {local[t]} \ {NoConn} \subseteq Held
    BY <1>9 DEF EndThread, Held
  <2>3. PoolTypeOK' /\ Asking'
    BY <1>0, <1>9 DEF EndThread, PoolTypeOK, Asking, Needs
  <2>4. NoSharedConnection'
    BY <1>0, <1>9, <2>1, <2>2 DEF EndThread, PoolTypeOK, NoSharedConnection
  <2>5. InUse' = InUse /\ all' = all /\ dead' = dead
    BY <1>9, <2>1, <2>2 DEF EndThread, InUse, Held
  <2> QED
    BY <1>0, <2>3, <2>4, <2>5 DEF OnlyLeaksLose, Kept
<1>10. ASSUME NEW c \in Conns, Dies(c) PROVE Goal
  BY <1>0, <1>10 DEF Dies, PoolTypeOK, Asking, NoSharedConnection, OnlyLeaksLose, InUse, Free, Held, Kept
<1> QED
  BY <1>1, <1>2, <1>3, <1>4, <1>5, <1>6, <1>7, <1>8, <1>9, <1>10 DEF PoolStep, GetConnection

LEMMA PoolInitial == PoolInit => PoolInv
<1> SUFFICES ASSUME PoolInit PROVE PoolInv
  OBVIOUS
<1> USE PoolAssumption DEF PoolInit
<1>1. Free = {} /\ Held = {} /\ InUse = {}
  BY DEF Free, Held, InUse
<1>2. IsFiniteSet({}) /\ Cardinality({}) = 0
  BY FS_EmptySet
<1>3. PoolTypeOK /\ Asking /\ NoSharedConnection
  BY <1>1 DEF PoolTypeOK, Asking, NoSharedConnection, Needs
<1> QED
  BY <1>1, <1>2, <1>3 DEF PoolInv, PoolBounded, OnlyLeaksLose

LEMMA PoolStepInv == PoolInv /\ (PoolStep \/ UNCHANGED poolVars) => PoolInv'
<1> SUFFICES ASSUME PoolInv, PoolStep \/ UNCHANGED poolVars PROVE PoolInv'
  OBVIOUS
<1>1. CASE PoolStep
  BY <1>1, StepOf, BoundKept DEF PoolInv
<1>2. CASE UNCHANGED poolVars
  BY <1>2 DEF PoolInv, poolVars, PoolTypeOK, Asking, NoSharedConnection, PoolBounded,
    OnlyLeaksLose, InUse, Free, Held
<1> QED
  BY <1>1, <1>2

-----------------------------------------------------------------------------
(* The database uses the pool as the pool expects                          *)

LEMMA UsesPool == [Next]_vars => PoolStep \/ UNCHANGED poolVars
<1> SUFFICES ASSUME [Next]_vars PROVE PoolStep \/ UNCHANGED poolVars
  OBVIOUS
<1>1. ASSUME NEW t \in Threads, ThreadStep(t) PROVE PoolStep \/ UNCHANGED poolVars
  BY <1>1 DEF ThreadStep, PoolStep, Begin, Connect, ReadLastHash, AppendAudit, ImportFile,
    ImportCommit, ImportFails, WorkerWrites, Locked, Teardown, WorkerEnds, AddBackupSet, FailsWith
<1>2. CASE ConnectionDies
  BY <1>2 DEF ConnectionDies, PoolStep
<1> QED
  BY <1>1, <1>2 DEF Next, vars

\* The pool stays consistent, whatever its users do.
THEOREM PoolCorrect == Spec => []PoolInv
<1>1. Init => PoolInv
  BY PoolInitial DEF Init
<1>2. PoolInv /\ [Next]_vars => PoolInv'
  BY UsesPool, PoolStepInv
<1> QED
  BY <1>1, <1>2, PTL DEF Spec

\* PoolIsSound of ConnectionPool: no two threads, and no thread and the queue, share a
\* connection, and replacing dead connections never takes the pool beyond its size.
THEOREM PoolStaysSound == Spec => []PoolIsSound
<1>1. PoolInv => PoolIsSound
  BY DEF PoolInv, PoolIsSound
<1> QED
  BY <1>1, PoolCorrect, PTL

\* Live connections are lost only with threads that do not release them.
THEOREM OnlyUnreleasedAreLost == Spec => []OnlyLeaksLose
<1>1. PoolInv => OnlyLeaksLose
  BY DEF PoolInv
<1> QED
  BY <1>1, PoolCorrect, PTL

-----------------------------------------------------------------------------
(* Imports                                                                 *)

Importing(t) == step[t] = "import"

\* Imports have numbers of their own, and every uncommitted row is of an import
\* that failed or of the thread that has the connection.
Numbered ==
  /\ \A t \in Threads : Importing(t) \/ step[t] = "set" => t \in Requests
  /\ \A t \in Threads : Importing(t) => batch[t] \in 1..imports
  /\ \A s, t \in Threads : Importing(s) /\ Importing(t) /\ batch[s] = batch[t] => s = t
  /\ failed \subseteq 1..imports
  /\ \A i \in Imports : archived[i] # {} => i \in 1..imports
  /\ \A t \in Threads : step[t] \in {"idle", "set"} => inserted[t] = 0

Owner(c, i) == \E t \in Threads : Importing(t) /\ local[t] = c /\ batch[t] = i

Owned ==
  /\ \A c \in Conns, i \in Imports : tx[c][i] # {} => i \in failed \/ Owner(c, i)
  /\ \A c \in dead, i \in Imports : tx[c][i] = {}

\* The rows of an import under way are those its thread has inserted, on the
\* thread's connection, and none of them is committed.
Pending(t) ==
  Importing(t) /\ batch[t] \notin failed =>
    /\ archived[batch[t]] = {}
    /\ \A c \in Conns : tx[c][batch[t]] = IF local[t] = c THEN 1..inserted[t] ELSE {}
    /\ local[t] = NoConn => inserted[t] = 0

LEMMA TypeStep ==
  ASSUME TypeOK, Numbered, [Next]_vars, PoolTypeOK' PROVE TypeOK'
<1> USE DEF Imports, Files
<1>0. MaxImports \in Nat /\ CatalogSize \in Nat
  BY DatabaseAssumption
<1>n. NoRows \in [Imports -> SUBSET Files]
  BY DEF NoRows
<1>c. ASSUME NEW c \in Conns, Commit(c)
      PROVE  tx' \in [Conns -> [Imports -> SUBSET Files]] /\ archived' \in [Imports -> SUBSET Files]
  <2>1. tx[c] \in [Imports -> SUBSET Files]
    BY DEF TypeOK
  <2> QED
    BY <1>n, <1>c, <2>1 DEF Commit, TypeOK
<1>1. ASSUME NEW t \in Threads, ThreadStep(t) PROVE TypeOK'
  <2>1. CASE Begin(t)
    BY <2>1 DEF Begin, GoTo, TypeOK, Steps
  <2>9. CASE AddBackupSet(t)
    <3>1. local[t] \in Conns /\ Commit(local[t])
      BY <2>9 DEF AddBackupSet, Ready
    <3>2. imports' \in 0..MaxImports /\ batch' \in [Threads -> 0..MaxImports]
      BY <1>0, <2>9 DEF AddBackupSet, TypeOK
    <3> QED
      BY <1>c, <2>9, <3>1, <3>2 DEF AddBackupSet, GoTo, TypeOK, Steps
  <2>2. CASE Connect(t)
    BY <2>2 DEF Connect, TypeOK, Steps
  <2>8. CASE ReadLastHash(t)
    <3>1. local[t] \in Conns /\ Commit(local[t])
      BY <2>8 DEF ReadLastHash, Ready
    <3> QED
      BY <1>c, <2>8, <3>1 DEF ReadLastHash, LastHash, GoTo, TypeOK, Steps
  <2>3. CASE AppendAudit(t)
    <3>1. local[t] \in Conns /\ Commit(local[t])
      BY <2>3 DEF AppendAudit, Ready
    <3>2. audit' \in Seq([previous : Nat, fields : BOOLEAN])
      BY <2>3 DEF AppendAudit, TypeOK
    <3> QED
      BY <1>c, <2>3, <3>1, <3>2 DEF AppendAudit, GoTo, TypeOK, Steps
  <2>4. CASE ImportFile(t)
    <3>1. local[t] \in Conns /\ batch[t] \in Imports /\ inserted[t] \in Nat /\ inserted[t] + 1 \in Files
      BY <1>0, <2>4 DEF ImportFile, Ready, Numbered, Importing, TypeOK
    <3>2. tx' \in [Conns -> [Imports -> SUBSET Files]]
      BY <2>4, <3>1 DEF ImportFile, TypeOK
    <3>3. inserted' \in [Threads -> 0..CatalogSize]
      BY <1>0, <2>4, <3>1 DEF ImportFile, TypeOK
    <3> QED
      BY <2>4, <3>2, <3>3 DEF ImportFile, TypeOK
  <2>5. CASE ImportCommit(t) \/ WorkerWrites(t)
    <3>1. local[t] \in Conns /\ Commit(local[t])
      BY <2>5 DEF ImportCommit, WorkerWrites, Ready
    <3>2. step' \in [Threads -> Steps]
      BY <2>5 DEF ImportCommit, WorkerWrites, GoTo, TypeOK, Steps
    <3>3. 0 \in 0..CatalogSize
      BY <1>0
    <3>4. inserted' \in [Threads -> 0..CatalogSize]
      BY <2>5, <3>3 DEF ImportCommit, WorkerWrites, TypeOK
    <3> QED
      BY <1>c, <2>5, <3>1, <3>2, <3>4 DEF ImportCommit, WorkerWrites, TypeOK
  <2>6. CASE ImportFails(t) \/ Locked(t)
    <3>1. step[t] = "import" => batch[t] \in Imports
      BY <1>0, <2>6 DEF Numbered, Importing, TypeOK
    <3>2. failed' \subseteq Imports
      BY <2>6, <3>1 DEF ImportFails, Locked, FailsWith, TypeOK
    <3> QED
      BY <2>6, <3>2 DEF ImportFails, Locked, GoTo, TypeOK, Steps
  <2>7. CASE Teardown(t) \/ WorkerEnds(t)
    <3>1. /\ step' = [step EXCEPT ![t] = "idle"] /\ Forget(t)
          /\ tx' = tx \/ tx' = [c \in Conns |-> IF c \in dead' THEN NoRows ELSE tx[c]]
          /\ UNCHANGED <<archived, audit, imports, failed, overlapped>>
      BY <2>7 DEF Teardown, WorkerEnds, GoTo
    <3>2. tx' \in [Conns -> [Imports -> SUBSET Files]]
      BY <1>n, <3>1 DEF TypeOK
    <3> QED
      BY <1>0, <3>1, <3>2 DEF Forget, TypeOK, Steps
  <2> QED
    BY <1>1, <2>1, <2>2, <2>3, <2>4, <2>5, <2>6, <2>7, <2>8, <2>9 DEF ThreadStep
<1>2. CASE ConnectionDies
  BY <1>n, <1>2 DEF ConnectionDies, TypeOK
<1>3. CASE UNCHANGED vars
  BY <1>3 DEF vars, work, TypeOK
<1> QED
  BY <1>1, <1>2, <1>3 DEF Next

\* What the steps do to a thread's import.
LEMMA ThreadKinds ==
  ASSUME NEW t \in Threads, ThreadStep(t), TypeOK
  PROVE  /\ \A u \in Threads \ {t} :
              /\ step'[u] = step[u] /\ batch'[u] = batch[u] /\ inserted'[u] = inserted[u]
         /\ Importing(t)' =>
              \/ AddBackupSet(t) /\ imports' = imports + 1 /\ batch'[t] = imports + 1
              \/ Importing(t) /\ batch'[t] = batch[t]
         /\ imports' \in {imports, imports + 1}
BY DEF ThreadStep, Importing, TypeOK, GoTo, Forget, Begin, Connect, ReadLastHash, AppendAudit,
  ImportFile, ImportCommit, ImportFails, WorkerWrites, Locked, Teardown, WorkerEnds, AddBackupSet, FailsWith

LEMMA RowsNumbered ==
  ASSUME Numbered, Owned, NEW c \in Conns, NEW i \in Imports, tx[c][i] # {}
  PROVE  i \in 1..imports
<1>1. CASE i \in failed
  BY <1>1 DEF Numbered
<1>2. CASE Owner(c, i)
  BY <1>2 DEF Owner, Numbered
<1> QED
  BY <1>1, <1>2 DEF Owned

LEMMA NumberedStep ==
  ASSUME TypeOK, Numbered, Owned, [Next]_vars PROVE Numbered'
<1>0. \A c \in Conns, i \in Imports : tx[c][i] # {} => i \in 1..imports
  BY RowsNumbered
<1>1. ASSUME NEW t \in Threads, ThreadStep(t) PROVE Numbered'
  <2>1. /\ \A u \in Threads \ {t} :
             step'[u] = step[u] /\ batch'[u] = batch[u] /\ inserted'[u] = inserted[u]
        /\ Importing(t)' => \/ AddBackupSet(t) /\ imports' = imports + 1 /\ batch'[t] = imports + 1
                            \/ Importing(t) /\ batch'[t] = batch[t]
        /\ imports' \in {imports, imports + 1}
    BY <1>1, ThreadKinds
  <2>0. imports \in Nat
    BY DEF TypeOK
  <2>2. \A u \in Threads : Importing(u)' => batch'[u] \in 1..imports'
    BY <2>0, <2>1 DEF Numbered, Importing
  <2>7. \A u \in Threads : Importing(u)' \/ step'[u] = "set" => u \in Requests
    <3>1. Importing(t)' \/ step'[t] = "set" => Importing(t) \/ step[t] = "set" \/ t \in Requests
      BY <1>1 DEF ThreadStep, Importing, Begin, Connect, ReadLastHash, AppendAudit, ImportFile,
        ImportCommit, ImportFails, WorkerWrites, Locked, Teardown, WorkerEnds, AddBackupSet, GoTo,
        TypeOK
    <3> QED
      BY <2>1, <3>1 DEF Numbered, Importing
  <2>3. \A u, v \in Threads :
          Importing(u)' /\ Importing(v)' /\ batch'[u] = batch'[v] => u = v
    BY <2>0, <2>1 DEF Numbered, Importing
  <2>4. failed' \subseteq 1..imports'
    <3>1. failed' = failed \/ (Importing(t) /\ failed' = failed \cup {batch[t]})
      BY <1>1 DEF ThreadStep, Importing, Begin, Connect, ReadLastHash, AppendAudit, ImportFile,
        ImportCommit, ImportFails, WorkerWrites, Locked, Teardown, WorkerEnds, AddBackupSet, FailsWith
    <3>2. failed \subseteq 1..imports /\ (Importing(t) => batch[t] \in 1..imports)
      BY DEF Numbered
    <3>3. failed' \subseteq 1..imports
      BY <3>1, <3>2
    <3>4. 1..imports \subseteq 1..imports'
      BY <2>0, <2>1
    <3> QED
      BY <3>3, <3>4
  <2>5. \A i \in Imports : archived'[i] # {} => i \in 1..imports'
    <3>1. \/ archived' = archived
          \/ local[t] \in Conns /\ Commit(local[t])
      BY <1>1 DEF ThreadStep, Begin, Connect, ReadLastHash, AppendAudit, ImportFile, Ready,
        ImportCommit, ImportFails, WorkerWrites, Locked, Teardown, WorkerEnds, AddBackupSet, FailsWith
    <3>3. \A i \in Imports : archived'[i] # {} => i \in 1..imports
      BY <1>0, <3>1 DEF Commit, Numbered
    <3> QED
      BY <2>0, <2>1, <3>3
  <2>6. \A u \in Threads : step'[u] \in {"idle", "set"} => inserted'[u] = 0
    <3>1. step'[t] \in {"idle", "set"} => inserted'[t] = 0
      BY <1>1 DEF ThreadStep, Begin, Connect, ReadLastHash, AppendAudit, ImportFile, Numbered, GoTo,
        ImportCommit, ImportFails, WorkerWrites, Locked, Teardown, WorkerEnds, AddBackupSet, FailsWith, Forget, TypeOK
    <3> QED
      BY <2>1, <3>1 DEF Numbered
  <2> QED
    BY <2>2, <2>3, <2>4, <2>5, <2>6, <2>7 DEF Numbered
<1>2. CASE ConnectionDies
  <2>1. failed' \subseteq 1..imports
    BY <1>0, <1>2 DEF ConnectionDies, Numbered
  <2> QED
    BY <1>2, <2>1 DEF ConnectionDies, Numbered, Importing
<1>3. CASE UNCHANGED vars
  BY <1>3 DEF vars, work, Numbered, Importing
<1> QED
  BY <1>1, <1>2, <1>3 DEF Next

\* A thread's step changes the connection of no other thread.
LEMMA LocalKinds ==
  ASSUME PoolInv, NEW t \in Threads, ThreadStep(t)
  PROVE  /\ \A u \in Threads \ {t} : local'[u] = local[u]
         /\ \/ local'[t] = local[t]
            \/ local[t] \in dead \cup {NoConn}
            \/ step[t] = "done" /\ step' = [step EXCEPT ![t] = "idle"]
<1>0. local \in [Threads -> Conns \cup {NoConn}] /\ Asking
  BY DEF PoolInv, PoolTypeOK
<1>1. CASE Begin(t)
  BY <1>1 DEF Begin, Ask
<1>2. CASE Connect(t)
  BY <1>0, <1>2 DEF Connect, GetConnection, DropDead, TakeFree, TakeNothing, Make, WaitFree,
    TimeOut, Give, Asking
<1>3. CASE Teardown(t)
  BY <1>0, <1>3 DEF Teardown, Release, Return, GoTo
<1>4. CASE WorkerEnds(t)
  BY <1>0, <1>4 DEF WorkerEnds, EndThread, GoTo
<1>5. CASE UNCHANGED poolVars
  BY <1>5 DEF poolVars
<1> QED
  BY <1>1, <1>2, <1>3, <1>4, <1>5 DEF ThreadStep, ReadLastHash, AppendAudit, ImportFile,
    ImportCommit, ImportFails, WorkerWrites, Locked, AddBackupSet

LEMMA OwnedStep ==
  ASSUME TypeOK, PoolInv, Numbered, Owned, [Next]_vars PROVE Owned'
<1> USE DEF NoRows
<1>0. /\ tx \in [Conns -> [Imports -> SUBSET Files]] /\ step \in [Threads -> Steps]
      /\ batch \in [Threads -> 0..MaxImports] /\ dead \subseteq Conns
  BY DEF TypeOK, PoolTypeOK
<1>1. ASSUME NEW t \in Threads, ThreadStep(t) PROVE Owned'
  <2>1. /\ \A u \in Threads \ {t} :
             step'[u] = step[u] /\ batch'[u] = batch[u] /\ local'[u] = local[u]
    BY <1>1, ThreadKinds, LocalKinds
  <2>2. \A u \in Threads, c \in Conns, i \in Imports :
          u # t /\ Importing(u) /\ local[u] = c /\ batch[u] = i => Owner(c, i)'
    BY <2>1 DEF Owner, Importing
  <2>3. \A c \in dead', i \in Imports : tx'[c][i] = {}
    <3>1. CASE Teardown(t)
      <4>1. dead' \subseteq Conns /\ tx' = [c \in Conns |-> IF c \in dead' THEN NoRows ELSE tx[c]]
        BY <1>0, <3>1 DEF Teardown, Release, Return
      <4> QED
        BY <4>1
    <3>2. CASE ~Teardown(t)
      <4>1. dead' = dead
        BY <1>1, <3>2 DEF ThreadStep, Begin, Ask, Connect, GetConnection, DropDead, TakeFree,
          TakeNothing, Make, WaitFree, TimeOut, ReadLastHash, AppendAudit, ImportFile,
          ImportCommit, ImportFails, WorkerWrites, Locked, WorkerEnds, AddBackupSet, FailsWith, EndThread, poolVars
      <4>2. \/ tx' = tx
            \/ ImportFile(t)
            \/ local[t] \in Conns /\ tx' = [tx EXCEPT ![local[t]] = NoRows]
        BY <1>1, <3>2 DEF ThreadStep, Begin, Connect, ReadLastHash, AppendAudit, ImportCommit,
          ImportFails, WorkerWrites, Locked, WorkerEnds, AddBackupSet, FailsWith, Commit, Ready
      <4>3. CASE ImportFile(t)
        <5>1. local[t] \in Conns \ dead
          BY <4>3 DEF ImportFile, Ready
        <5>2. \A c \in dead : tx'[c] = tx[c]
          BY <1>0, <4>3, <5>1 DEF ImportFile
        <5> QED
          BY <4>1, <5>2 DEF Owned
      <4> QED
        BY <1>0, <4>1, <4>2, <4>3 DEF Owned
    <3> QED
      BY <3>1, <3>2
  <2>4. \A c \in Conns, i \in Imports : tx'[c][i] # {} => i \in failed' \/ Owner(c, i)'
    <3> SUFFICES ASSUME NEW c \in Conns, NEW i \in Imports, tx'[c][i] # {}, ~Owner(c, i)'
                 PROVE  i \in failed'
      OBVIOUS
    <3>1. failed \subseteq failed'
      BY <1>1 DEF ThreadStep, Begin, Connect, ReadLastHash, AppendAudit, ImportFile,
        ImportCommit, ImportFails, WorkerWrites, Locked, Teardown, WorkerEnds, AddBackupSet, FailsWith
    <3>2. CASE ImportFile(t)
      <4>1. CASE c = local[t] /\ i = batch[t]
        BY <3>2, <4>1 DEF ImportFile, Owner, Importing, poolVars
      <4>2. CASE ~(c = local[t] /\ i = batch[t])
        <5>1. tx'[c][i] = tx[c][i] /\ step' = step /\ batch' = batch /\ local' = local
          BY <1>0, <3>2, <4>2 DEF ImportFile, poolVars, Ready
        <5> QED
          BY <3>1, <5>1 DEF Owned, Owner, Importing
      <4> QED
        BY <4>1, <4>2
    <3>3. CASE ~ImportFile(t)
      <4>1. tx[c][i] # {} /\ (c # local[t] \/ tx' = tx \/ Teardown(t))
        BY <1>0, <1>1, <3>3 DEF ThreadStep, Begin, Connect, ReadLastHash, AppendAudit,
          ImportCommit, ImportFails, WorkerWrites, Locked, Teardown, WorkerEnds, AddBackupSet, FailsWith, Commit, Ready
      <4>2. CASE Importing(t) /\ local[t] = c /\ batch[t] = i
        <5>1. c \notin dead /\ c # NoConn
          BY <4>1, PoolAssumption DEF Owned
        <5>2. ImportFails(t) \/ Locked(t) \/ (step' = step /\ batch' = batch)
          <6>1. CASE Connect(t)
            <7>1. need[t] = "no" /\ need'[t] # "timeout"
              BY <4>2, <5>1, <6>1 DEF Connect, GetConnection, DropDead, TakeFree, TakeNothing,
                Make, WaitFree, TimeOut, PoolInv, Asking
            <7>2. step' = step
              BY <1>0, <6>1, <7>1 DEF Connect
            <7> QED
              BY <6>1, <7>2 DEF Connect
          <6>2. CASE ImportCommit(t)
            BY <1>0, <4>1, <4>2, <6>2 DEF ImportCommit, Commit, Importing, Teardown
          <6> QED
            BY <1>1, <3>3, <4>2, <6>1, <6>2 DEF ThreadStep, Importing, Begin, ReadLastHash,
              AppendAudit, WorkerWrites, Teardown, WorkerEnds, AddBackupSet
        <5>3. CASE ImportFails(t) \/ Locked(t)
          BY <4>2, <5>3 DEF ImportFails, Locked, FailsWith, Importing
        <5>4. CASE step' = step /\ batch' = batch
          <6>1. local'[t] = local[t]
            BY <1>1, <4>2, <5>1, LocalKinds DEF Importing
          <6> QED
            BY <4>2, <5>4, <6>1 DEF Owner, Importing
        <5> QED
          BY <5>2, <5>3, <5>4
      <4>3. CASE ~(Importing(t) /\ local[t] = c /\ batch[t] = i)
        BY <2>2, <3>1, <4>1, <4>3 DEF Owned, Owner
      <4> QED
        BY <4>2, <4>3
    <3> QED
      BY <3>2, <3>3
  <2> QED
    BY <2>3, <2>4 DEF Owned
<1>2. CASE ConnectionDies
  <2>1. PICK c \in Conns : /\ tx' = [tx EXCEPT ![c] = NoRows] /\ dead' = dead \cup {c}
                           /\ failed' = failed \cup {i \in Imports : tx[c][i] # {}}
                           /\ UNCHANGED <<step, batch, local>>
    BY <1>2 DEF ConnectionDies, Dies
  <2> QED
    BY <1>0, <2>1 DEF Owned, Owner, Importing
<1>3. CASE UNCHANGED vars
  BY <1>3 DEF vars, poolVars, work, Owned, Owner, Importing
<1> QED
  BY <1>1, <1>2, <1>3 DEF Next

\* A commit takes the rows of nobody but its thread and of failed imports.
LEMMA CommitsOwn ==
  ASSUME PoolInv, Owned, NEW t \in Threads, local[t] \in Conns,
         NEW i \in Imports \ failed, tx[local[t]][i] # {}
  PROVE  Importing(t) /\ batch[t] = i
<1>1. PICK u \in Threads : Importing(u) /\ local[u] = local[t] /\ batch[u] = i
  BY DEF Owned, Owner
<1> QED
  BY <1>1, PoolAssumption DEF PoolInv, NoSharedConnection

\* What a thread's step does to the rows.
LEMMA RowKinds ==
  ASSUME TypeOK, PoolInv, NEW t \in Threads, ThreadStep(t)
  PROVE  \/ archived' = archived /\ tx' = tx
         \/ local[t] \in Conns /\ Commit(local[t])
            /\ (Importing(t) => ImportCommit(t))
         \/ ImportFile(t)
         \/ Teardown(t) /\ archived' = archived
BY DEF TypeOK, ThreadStep, Begin, Connect, ReadLastHash, AppendAudit, ImportCommit, ImportFails,
  WorkerWrites, Locked, Teardown, WorkerEnds, AddBackupSet, FailsWith, Ready, Importing, GoTo

LEMMA PendingOthers ==
  ASSUME TypeOK, PoolInv, Numbered, Owned, NEW t \in Threads, ThreadStep(t),
         NEW u \in Threads \ {t}, Pending(u), Importing(u)', batch'[u] \notin failed'
  PROVE  Pending(u)'
<1> DEFINE i == batch[u]
<1> USE DEF NoRows
<1>1. /\ step'[u] = step[u] /\ batch'[u] = batch[u] /\ inserted'[u] = inserted[u]
      /\ local'[u] = local[u] /\ Importing(u)
  BY ThreadKinds, LocalKinds DEF Importing
<1>2. failed \subseteq failed'
  BY DEF ThreadStep, Begin, Connect, ReadLastHash, AppendAudit, ImportFile,
    ImportCommit, ImportFails, WorkerWrites, Locked, Teardown, WorkerEnds, AddBackupSet, FailsWith
<1>3. /\ i \in Imports \ failed /\ archived[i] = {}
      /\ \A c \in Conns : tx[c][i] = IF local[u] = c THEN 1..inserted[u] ELSE {}
      /\ local[u] = NoConn => inserted[u] = 0
  BY <1>1, <1>2 DEF Pending, Numbered, TypeOK, Imports
<1>4. local[t] \in Conns => local[u] # local[t] /\ tx[local[t]][i] = {}
  BY <1>3, PoolAssumption DEF PoolInv, NoSharedConnection
<1>5. tx \in [Conns -> [Imports -> SUBSET Files]]
  BY DEF TypeOK
<1>6. CASE local[t] \in Conns /\ Commit(local[t])
  BY <1>1, <1>3, <1>4, <1>5, <1>6 DEF Commit, Pending
<1>7. CASE ImportFile(t)
  <2>1. batch[t] # i
    BY <1>1, <1>7 DEF ImportFile, Importing, Numbered
  <2>2. \A c \in Conns : tx'[c][i] = tx[c][i]
    BY <1>5, <1>7, <2>1 DEF ImportFile
  <2>3. archived' = archived
    BY <1>7 DEF ImportFile
  <2> QED
    BY <1>1, <1>3, <2>2, <2>3 DEF Pending
<1>8. CASE Teardown(t) /\ archived' = archived
  <2>1. dead' \subseteq dead \cup ({local[t]} \cap Conns)
    BY <1>8 DEF Teardown, Release, Return
  <2>2. \A c \in Conns : tx'[c][i] = IF c \in dead' THEN {} ELSE tx[c][i]
    BY <1>3, <1>8 DEF Teardown
  <2>3. \A c \in dead' : tx[c][i] = {}
    BY <1>3, <1>4, <2>1 DEF Owned
  <2>4. \A c \in Conns : tx'[c][i] = tx[c][i]
    BY <2>2, <2>3
  <2> QED
    BY <1>1, <1>3, <1>8, <2>4 DEF Pending
<1>9. CASE archived' = archived /\ tx' = tx
  BY <1>1, <1>3, <1>9 DEF Pending
<1> QED
  BY <1>6, <1>7, <1>8, <1>9, RowKinds

LEMMA PendingOwn ==
  ASSUME TypeOK, PoolInv, Numbered, Owned, NEW t \in Threads, ThreadStep(t), Pending(t),
         Importing(t)', batch'[t] \notin failed'
  PROVE  Pending(t)'
<1> USE DEF NoRows
<1>0. /\ imports \in Nat /\ MaxImports \in Nat /\ imports <= MaxImports
      /\ tx \in [Conns -> [Imports -> SUBSET Files]] /\ archived \in [Imports -> SUBSET Files]
  BY DatabaseAssumption DEF TypeOK
<1>1. CASE AddBackupSet(t)
  <2>1. inserted'[t] = 0 /\ local' = local /\ local[t] \in Conns /\ Commit(local[t])
    BY <1>1 DEF AddBackupSet, Numbered, Ready, poolVars
  <2>2. batch'[t] = imports + 1 /\ batch'[t] \in Imports
    BY <1>0, <1>1 DEF AddBackupSet, TypeOK, Imports
  <2>3. archived[imports + 1] = {}
    BY <1>0, <2>2 DEF Numbered
  <2>4. \A c \in Conns : tx[c][imports + 1] = {}
    BY <1>0, <2>2, RowsNumbered
  <2>5. archived'[imports + 1] = {} /\ \A c \in Conns : tx'[c][imports + 1] = {}
    BY <1>0, <2>1, <2>2, <2>3, <2>4 DEF Commit
  <2> QED
    BY <2>1, <2>2, <2>5, PoolAssumption DEF Pending
<1>2. CASE ImportFile(t)
  <2>1. /\ local[t] \in Conns /\ batch[t] \in Imports /\ batch[t] \notin failed
        /\ inserted[t] \in Nat /\ inserted'[t] = inserted[t] + 1
    BY <1>0, <1>2 DEF ImportFile, Ready, Importing, Numbered, TypeOK, Imports
  <2>2. /\ archived[batch[t]] = {}
        /\ \A c \in Conns : tx[c][batch[t]] = IF local[t] = c THEN 1..inserted[t] ELSE {}
    BY <1>2, <2>1 DEF Pending, Importing, ImportFile
  <2>3. \A c \in Conns : tx'[c][batch[t]] = IF local[t] = c THEN 1..(inserted[t] + 1) ELSE {}
    <3>1. tx' = [tx EXCEPT ![local[t]][batch[t]] = @ \cup {inserted[t] + 1}]
      BY <1>2 DEF ImportFile
    <3>2. \A c \in Conns : c # local[t] => tx'[c][batch[t]] = tx[c][batch[t]]
      BY <1>0, <2>1, <3>1
    <3>3. tx'[local[t]][batch[t]] = tx[local[t]][batch[t]] \cup {inserted[t] + 1}
      BY <1>0, <2>1, <3>1
    <3>4. 1..(inserted[t] + 1) = 1..inserted[t] \cup {inserted[t] + 1}
      BY <2>1
    <3> QED
      BY <2>1, <2>2, <3>2, <3>3, <3>4
  <2>4. UNCHANGED <<step, batch, archived, failed, local>>
    BY <1>2 DEF ImportFile, poolVars
  <2> QED
    BY <2>1, <2>2, <2>3, <2>4, PoolAssumption DEF Pending
<1>3. CASE Connect(t)
  <2>1. step'[t] = step[t] /\ UNCHANGED <<batch, archived, tx, inserted, failed>>
    BY <1>3 DEF Connect, Importing, TypeOK
  <2>2. /\ archived[batch[t]] = {} /\ batch[t] \in Imports /\ inserted[t] \in Nat
        /\ \A c \in Conns : tx[c][batch[t]] = IF local[t] = c THEN 1..inserted[t] ELSE {}
        /\ local[t] = NoConn => inserted[t] = 0
    BY <1>0, <2>1 DEF Pending, Importing, Numbered, TypeOK, Imports
  <2>3. local[t] \in dead \/ local[t] = NoConn
    BY <1>3 DEF Connect, GetConnection, DropDead, TakeFree, TakeNothing, Make, WaitFree,
      TimeOut, PoolInv, Asking
  <2>4. dead \subseteq Conns
    BY DEF TypeOK, PoolTypeOK
  <2>5. local[t] \in dead => 1..inserted[t] = {}
    BY <2>2, <2>4 DEF Owned
  <2>6. inserted[t] = 0
    BY <2>2, <2>3, <2>5
  <2>7. \A c \in Conns : tx[c][batch[t]] = {}
    BY <2>2, <2>6
  <2> QED
    BY <2>1, <2>2, <2>6, <2>7 DEF Pending
<1>4. CASE ~(AddBackupSet(t) \/ ImportFile(t) \/ Connect(t))
  BY <1>4 DEF ThreadStep, Begin, ReadLastHash, AppendAudit, ImportCommit, ImportFails,
    WorkerWrites, Locked, Teardown, WorkerEnds, AddBackupSet, FailsWith, Importing, GoTo, TypeOK
<1> QED
  BY <1>1, <1>2, <1>3, <1>4

\* The rows wait for a commit on one connection at most.
SingleWriter == \A c, d \in Conns : tx[c] # NoRows /\ tx[d] # NoRows => c = d

\* Without an overlap one entry is made at a time, and the chain is whole.
SerialChain ==
  ~overlapped =>
    /\ \A s, t \in Threads : step[s] = "append" /\ step[t] = "append" => s = t
    /\ \A t \in Threads : step[t] = "append" => seen[t] = Len(audit)
    /\ \A i \in 1..Len(audit) : audit[i].previous = i - 1

ImportInv ==
  /\ TypeOK
  /\ PoolInv
  /\ Numbered
  /\ Owned
  /\ \A t \in Threads : Pending(t)
  /\ ImportsAreWhole
  /\ SingleWriter
  /\ SerialChain

LEMMA PendingStep ==
  ASSUME ImportInv, [Next]_vars, NEW u \in Threads, Importing(u)', batch'[u] \notin failed'
  PROVE  Pending(u)'
<1> USE DEF NoRows
<1>0. TypeOK /\ PoolInv /\ Numbered /\ Owned /\ Pending(u)
  BY DEF ImportInv
<1>1. ASSUME NEW t \in Threads, ThreadStep(t) PROVE Pending(u)'
  <2>1. CASE u = t
    BY <1>0, <1>1, <2>1, PendingOwn
  <2>2. CASE u # t
    BY <1>0, <1>1, <2>2, PendingOthers
  <2> QED
    BY <2>1, <2>2
<1>2. CASE ConnectionDies
  <2>1. PICK c \in Conns : /\ tx' = [tx EXCEPT ![c] = NoRows]
                           /\ failed' = failed \cup {i \in Imports : tx[c][i] # {}}
                           /\ UNCHANGED <<step, batch, local, inserted, archived>>
    BY <1>2 DEF ConnectionDies, Dies
  <2>2. /\ tx \in [Conns -> [Imports -> SUBSET Files]] /\ batch[u] \in Imports
        /\ batch[u] \notin failed /\ Importing(u)
    BY <1>0, <2>1, DatabaseAssumption DEF TypeOK, Numbered, Importing, Imports
  <2>3. tx[c][batch[u]] = {}
    BY <2>1, <2>2
  <2>4. \A d \in Conns : tx'[d][batch[u]] = tx[d][batch[u]]
    BY <2>1, <2>2, <2>3
  <2> QED
    BY <1>0, <2>1, <2>2, <2>4 DEF Pending
<1>3. CASE UNCHANGED vars
  BY <1>0, <1>3 DEF vars, poolVars, work, Pending, Importing
<1> QED
  BY <1>1, <1>2, <1>3 DEF Next

LEMMA WholeStep ==
  ASSUME ImportInv, [Next]_vars PROVE ImportsAreWhole'
<1> USE DEF NoRows
<1>0. TypeOK /\ PoolInv /\ Numbered /\ Owned /\ ImportsAreWhole
  BY DEF ImportInv
<1>1. ASSUME NEW t \in Threads, ThreadStep(t), NEW i \in Imports, i \notin failed'
      PROVE  archived'[i] \in {{}, Files}
  <2>1. i \notin failed
    BY <1>1 DEF ThreadStep, Begin, Connect, ReadLastHash, AppendAudit, ImportFile,
      ImportCommit, ImportFails, WorkerWrites, Locked, Teardown, WorkerEnds, AddBackupSet, FailsWith
  <2>2. CASE archived' = archived
    BY <1>0, <2>1, <2>2 DEF ImportsAreWhole
  <2>3. CASE local[t] \in Conns /\ Commit(local[t]) /\ (Importing(t) => ImportCommit(t))
    <3>1. archived'[i] = archived[i] \cup tx[local[t]][i]
      BY <2>3 DEF Commit
    <3>2. CASE tx[local[t]][i] = {}
      BY <1>0, <2>1, <3>1, <3>2 DEF ImportsAreWhole
    <3>3. CASE tx[local[t]][i] # {}
      <4>1. Importing(t) /\ batch[t] = i
        BY <1>0, <2>1, <2>3, <3>3, CommitsOwn
      <4>2. inserted[t] = CatalogSize
        BY <2>3, <4>1 DEF ImportCommit
      <4>3. archived[i] = {} /\ tx[local[t]][i] = 1..CatalogSize
        BY <2>1, <2>3, <4>1, <4>2 DEF ImportInv, Pending
      <4> QED
        BY <3>1, <4>3 DEF Files
    <3> QED
      BY <3>2, <3>3
  <2>4. archived' = archived \/ (local[t] \in Conns /\ Commit(local[t])
          /\ (Importing(t) => ImportCommit(t)))
    <3>1. CASE ImportFile(t)
      BY <3>1 DEF ImportFile
    <3> QED
      BY <1>0, <1>1, <3>1, RowKinds
  <2> QED
    BY <2>2, <2>3, <2>4
<1>2. CASE ConnectionDies
  BY <1>0, <1>2 DEF ConnectionDies, ImportsAreWhole
<1>3. CASE UNCHANGED vars
  BY <1>0, <1>3 DEF vars, work, ImportsAreWhole
<1> QED
  BY <1>1, <1>2, <1>3 DEF Next, ImportsAreWhole

LEMMA SingleWriterStep ==
  ASSUME ImportInv, [Next]_vars PROVE SingleWriter'
<1>0. TypeOK /\ PoolInv /\ SingleWriter /\ tx \in [Conns -> [Imports -> SUBSET Files]]
  BY DEF ImportInv, TypeOK
<1>1. ASSUME \A c \in Conns : tx'[c] = tx[c] \/ tx'[c] = NoRows PROVE SingleWriter'
  BY <1>0, <1>1 DEF SingleWriter
<1>2. ASSUME NEW t \in Threads, ThreadStep(t) PROVE SingleWriter'
  <2>1. CASE ImportFile(t)
    <3>1. \A c \in Conns \ {local[t]} : tx'[c] = NoRows
      BY <1>0, <2>1 DEF ImportFile, CanWrite
    <3> QED
      BY <3>1 DEF SingleWriter
  <2>2. CASE local[t] \in Conns /\ Commit(local[t])
    BY <1>0, <1>1, <2>2 DEF Commit
  <2>3. CASE Teardown(t)
    BY <1>1, <2>3 DEF Teardown
  <2> QED
    BY <1>0, <1>1, <1>2, <2>1, <2>2, <2>3, RowKinds
<1>3. CASE ConnectionDies
  BY <1>0, <1>1, <1>3 DEF ConnectionDies
<1>4. CASE UNCHANGED vars
  BY <1>1, <1>4 DEF vars, work
<1> QED
  BY <1>2, <1>3, <1>4 DEF Next

LEMMA SerialStep ==
  ASSUME TypeOK, SerialChain, [Next]_vars PROVE SerialChain'
<1>0. /\ step \in [Threads -> Steps] /\ seen \in [Threads -> Nat]
      /\ audit \in Seq([previous : Nat, fields : BOOLEAN]) /\ Len(audit) \in Nat
      /\ overlapped \in BOOLEAN
  BY DEF TypeOK
<1>1. ASSUME NEW t \in Threads, ThreadStep(t) PROVE SerialChain'
  <2>1. CASE ReadLastHash(t)
    BY <1>0, <2>1 DEF ReadLastHash, LastHash, GoTo, SerialChain
  <2>2. CASE AppendAudit(t)
    <3> SUFFICES ASSUME ~overlapped' PROVE SerialChain'
      BY DEF SerialChain
    <3>1. /\ step[t] = "append" /\ step' = [step EXCEPT ![t] = "done"] /\ ~overlapped
      BY <2>2 DEF AppendAudit, GoTo
    <3>2. PICK a \in [previous : Nat, fields : BOOLEAN] :
            audit' = Append(audit, a) /\ a.previous = seen[t]
      <4>1. PICK b \in BOOLEAN : audit' = Append(audit, [previous |-> seen[t], fields |-> ~b])
        BY <2>2 DEF AppendAudit
      <4>2. [previous |-> seen[t], fields |-> ~b] \in [previous : Nat, fields : BOOLEAN]
        BY <1>0
      <4>3. [previous |-> seen[t], fields |-> ~b].previous = seen[t]
        OBVIOUS
      <4> QED
        BY <4>1, <4>2, <4>3
    <3>3. seen[t] = Len(audit) /\ \A u \in Threads : step'[u] # "append"
      BY <1>0, <3>1 DEF SerialChain
    <3>4. \A i \in 1..Len(audit) : audit[i].previous = i - 1
      BY <3>1 DEF SerialChain
    <3>5. \A i \in 1..Len(audit') : audit'[i].previous = i - 1
      BY <1>0, <3>2, <3>3, <3>4
    <3> QED
      BY <3>3, <3>5 DEF SerialChain
  <2>3. CASE ~(ReadLastHash(t) \/ AppendAudit(t))
    <3>1. /\ \A u \in Threads : step'[u] = "append" => step[u] = "append" /\ seen'[u] = seen[u]
          /\ audit' = audit /\ overlapped' = overlapped
      BY <1>0, <1>1, <2>3 DEF ThreadStep, Begin, GoTo, Connect, ImportFile, ImportCommit,
        ImportFails, WorkerWrites, Locked, Teardown, WorkerEnds, AddBackupSet, FailsWith, Forget
    <3> QED
      BY <3>1 DEF SerialChain
  <2> QED
    BY <2>1, <2>2, <2>3
<1>2. CASE ConnectionDies
  BY <1>2 DEF ConnectionDies, SerialChain
<1>3. CASE UNCHANGED vars
  BY <1>3 DEF vars, work, SerialChain
<1> QED
  BY <1>1, <1>2, <1>3 DEF Next

LEMMA ImportInitial == Init => ImportInv
<1> SUFFICES ASSUME Init PROVE ImportInv
  OBVIOUS
<1>1. PoolInv
  BY PoolInitial DEF Init
<1>2. TypeOK
  <2>1. MaxImports \in Nat /\ CatalogSize \in Nat
    BY DatabaseAssumption
  <2>2. NoRows \in [Imports -> SUBSET Files]
    BY DEF NoRows
  <2>3. tx \in [Conns -> [Imports -> SUBSET Files]] /\ archived \in [Imports -> SUBSET Files]
    BY <2>2 DEF Init
  <2>4. audit \in Seq([previous : Nat, fields : BOOLEAN]) /\ failed \subseteq Imports
    BY DEF Init
  <2>5. /\ step \in [Threads -> Steps] /\ seen \in [Threads -> Nat] /\ overlapped \in BOOLEAN
    BY DEF Init, Steps
  <2>6. 0 \in 0..MaxImports /\ 0 \in 0..CatalogSize
    BY <2>1
  <2>7. /\ batch \in [Threads -> 0..MaxImports] /\ inserted \in [Threads -> 0..CatalogSize]
        /\ imports \in 0..MaxImports
    BY <2>6 DEF Init
  <2> QED
    BY <1>1, <2>3, <2>4, <2>5, <2>7 DEF TypeOK, PoolInv
<1>3. Numbered /\ Owned /\ (\A t \in Threads : Pending(t)) /\ ImportsAreWhole
  BY DEF Init, PoolInit, Numbered, Owned, Pending, Importing, ImportsAreWhole, NoRows, Imports
<1>4. SingleWriter /\ SerialChain
  <2>1. SingleWriter
    BY DEF Init, SingleWriter
  <2>2. Len(audit) = 0 /\ \A t \in Threads : step[t] # "append"
    BY DEF Init
  <2> QED
    BY <2>1, <2>2 DEF SerialChain
<1> QED
  BY <1>1, <1>2, <1>3, <1>4 DEF ImportInv

LEMMA ImportStep == ImportInv /\ [Next]_vars => ImportInv'
<1> SUFFICES ASSUME ImportInv, [Next]_vars PROVE ImportInv'
  OBVIOUS
<1>0. TypeOK /\ PoolInv /\ Numbered /\ Owned /\ SerialChain
  BY DEF ImportInv
<1>1. PoolInv'
  BY <1>0, UsesPool, PoolStepInv
<1>2. TypeOK'
  BY <1>0, <1>1, TypeStep DEF PoolInv
<1>3. Numbered' /\ Owned' /\ SerialChain'
  BY <1>0, NumberedStep, OwnedStep, SerialStep
<1>4. \A t \in Threads : Pending(t)'
  BY PendingStep DEF Pending
<1>5. ImportsAreWhole' /\ SingleWriter'
  BY WholeStep, SingleWriterStep
<1> QED
  BY <1>1, <1>2, <1>3, <1>4, <1>5 DEF ImportInv

LEMMA ImportCorrect == Spec => []ImportInv
BY ImportInitial, ImportStep, PTL DEF Spec

\* The variables of the database's users keep their types.
THEOREM TypeCorrect == Spec => []TypeOK
<1>1. ImportInv => TypeOK
  BY DEF ImportInv
<1> QED
  BY <1>1, ImportCorrect, PTL

\* An import that does not fail is visible as a whole or not at all, whatever
\* the pool does with the connections that failed imports left behind.
THEOREM ImportsStayWhole == Spec => []ImportsAreWhole
<1>1. ImportInv => ImportsAreWhole
  BY DEF ImportInv
<1> QED
  BY <1>1, ImportCorrect, PTL

\* Uncommitted rows are on one live connection, which is with its importer or
\* was left by a failed import.
THEOREM OneWriterAtATime == Spec => []OneWriter
<1>1. ASSUME ImportInv PROVE OneWriter
  <2> SUFFICES ASSUME NEW c \in Conns, tx[c] # NoRows
               PROVE  /\ \A d \in Conns \ {c} : tx[d] = NoRows
                      /\ c \notin dead
                      /\ \/ \E t \in Requests : local[t] = c /\ step[t] = "import"
                         \/ \E i \in failed : tx[c][i] # {}
    BY DEF OneWriter
  <2>0. TypeOK /\ Numbered /\ Owned /\ SingleWriter
    BY <1>1 DEF ImportInv
  <2>1. \A d \in Conns \ {c} : tx[d] = NoRows
    BY <2>0 DEF SingleWriter
  <2>2. tx[c] \in [Imports -> SUBSET Files]
    BY <2>0 DEF TypeOK
  <2>3. PICK i \in Imports : tx[c][i] # {}
    BY <2>2 DEF NoRows
  <2>4. c \notin dead
    BY <2>0, <2>3 DEF Owned
  <2>5. i \in failed \/ Owner(c, i)
    BY <2>0, <2>3 DEF Owned
  <2>6. Owner(c, i) => \E t \in Requests : local[t] = c /\ step[t] = "import"
    BY <2>0 DEF Owner, Numbered, Importing
  <2> QED
    BY <2>1, <2>3, <2>4, <2>5, <2>6
<1> QED
  BY <1>1, ImportCorrect, PTL

\* Audit entries that are made one at a time, from fields that are stored as
\* they were hashed, form a chain that verify_audit_chain accepts.
THEOREM SerialAuditsVerify == Spec => []SerialAuditVerifies
<1>1. ImportInv => SerialAuditVerifies
  BY DEF ImportInv, SerialChain, SerialAuditVerifies, VerifyAuditChain
<1> QED
  BY <1>1, ImportCorrect, PTL
===============================================================================
