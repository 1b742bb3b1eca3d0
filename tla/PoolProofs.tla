----------------------------- MODULE PoolProofs ------------------------------
(***************************************************************************)
(* Proofs about ConnectionPool, for every number of threads and            *)
(* connections, and about MysqlPool, for every number of rounds of its     *)
(* checking thread.  The lemmas of the first part are stated for any owner *)
(* of mutex_, so the second uses them for the users of the MySQL pool.     *)
(***************************************************************************)
EXTENDS MysqlPool, SequenceTheorems, FiniteSetTheorems, TLAPS

-----------------------------------------------------------------------------
(* The inductive invariant *)

\* A thread owns a connection exactly while it uses or returns it.
HeldInUse ==
  \A t \in Threads : pc[t] \in {"use", "push"} <=> held[t] # NoConnection

\* A thread about to sleep saw an empty queue and still has the mutex.
BlockSeesEmpty == \A t \in Threads : pc[t] = "block" => connections_ = <<>>

\* stop_ is written by Close only.
StopInv == stop_ <=> closer # "open"

\* The types of the variables.  Who else than the threads may own mutex_ is left
\* open: the checking thread of the MySQL pool does.
PoolTypes ==
  /\ connections_ \in Seq(Connections)
  /\ stop_ \in BOOLEAN
  /\ pc \in [Threads -> Places]
  /\ held \in [Threads -> Connections \cup {NoConnection}]
  /\ closer \in {"open", "stopped", "closed", "destroyed"}
  /\ \A t \in Threads : pc[t] \in Critical <=> mutex_ = t

PoolInv == PoolTypes /\ HeldInUse /\ TakeFindsConnection /\ BlockSeesEmpty /\ StopInv

\* The queue the constructor fills is a sequence of connections.
LEMMA InitialQueue ==
  Init => connections_ \in Seq(Connections)
<1> SUFFICES ASSUME Init PROVE connections_ \in Seq(Connections)
  OBVIOUS
<1>1. Cardinality(Connections) \in Nat
  BY ConnectionsAssumption, FS_CardinalityType
<1>2. connections_ \in [1 .. Cardinality(Connections) -> Connections]
  BY DEF Init
<1> QED
  BY <1>1, <1>2, SeqDef

\* The invariant holds when the pool has been constructed.
LEMMA InitPoolInv == Init => PoolInv
BY InitialQueue, ThreadsAssumption
   DEF Init, PoolInv, PoolTypes, HeldInUse, TakeFindsConnection, BlockSeesEmpty,
       StopInv, Places, Critical, At

\* A step of GetConnection preserves the invariant.
LEMMA GetPreserves ==
  ASSUME PoolInv, NEW t \in Threads,
         \/ EnterGet(t) \/ EvaluatePredicate(t) \/ Wait(t) \/ SpuriousWake(t)
         \/ Reacquire(t) \/ GetNothing(t) \/ GetFront(t)
  PROVE  PoolInv'
<1> USE ThreadsAssumption, ConnectionsAssumption
    DEF PoolInv, PoolTypes, HeldInUse, TakeFindsConnection, BlockSeesEmpty, StopInv,
        Places, Critical, At, Goto, Lock, Unlock
<1>1. CASE EnterGet(t)
  BY <1>1 DEF EnterGet
<1>2. CASE EvaluatePredicate(t)
  BY <1>2 DEF EvaluatePredicate, Predicate
<1>3. CASE Wait(t)
  BY <1>3 DEF Wait
<1>4. CASE SpuriousWake(t)
  BY <1>4 DEF SpuriousWake
<1>5. CASE Reacquire(t)
  BY <1>5 DEF Reacquire
<1>6. CASE GetNothing(t)
  BY <1>6 DEF GetNothing
<1>7. CASE GetFront(t)
  <2>1. connections_ # <<>>
    BY <1>7 DEF GetFront
  <2>2. Head(connections_) \in Connections /\ Tail(connections_) \in Seq(Connections)
    BY <2>1
  <2> QED
    BY <1>7, <2>1, <2>2 DEF GetFront
<1> QED
  BY <1>1, <1>2, <1>3, <1>4, <1>5, <1>6, <1>7

\* A step of ReturnConnection preserves the invariant.
LEMMA ReturnPreserves ==
  ASSUME PoolInv, NEW t \in Threads,
         ReturnToStopped(t) \/ EnterReturn(t) \/ Push(t)
  PROVE  PoolInv'
<1> USE ThreadsAssumption, ConnectionsAssumption
    DEF PoolInv, PoolTypes, HeldInUse, TakeFindsConnection, BlockSeesEmpty, StopInv,
        Places, Critical, At, Goto, Lock, Unlock
<1>1. CASE ReturnToStopped(t)
  BY <1>1 DEF ReturnToStopped
<1>2. CASE EnterReturn(t)
  BY <1>2 DEF EnterReturn
<1>3. CASE Push(t)
  <2>1. held[t] \in Connections
    BY <1>3 DEF Push
  <2>2. connections_' \in Seq(Connections) /\ connections_' # <<>>
    BY <1>3, <2>1 DEF Push
  <2>3. pc' \in [Threads -> Places] /\ pc'[t] = "idle"
    BY <1>3 DEF Push, PcAfterPush, Waiters
  <2>4. ASSUME NEW u \in Threads, u # t
        PROVE  pc'[u] = pc[u] \/ (pc[u] = "wait" /\ pc'[u] = "wake")
    BY <1>3, <2>4 DEF Push, PcAfterPush, Waiters
  <2> QED
    BY <1>3, <2>1, <2>2, <2>3, <2>4 DEF Push
<1> QED
  BY <1>1, <1>2, <1>3

\* Close and the destructor preserve the invariant.
LEMMA ClosePreserves ==
  ASSUME PoolInv, CloseStop \/ CloseNotifyAll \/ Destroy
  PROVE  PoolInv'
<1> USE DEF PoolInv, PoolTypes, HeldInUse, TakeFindsConnection, BlockSeesEmpty, StopInv,
        Places, Critical, At
<1>1. CASE CloseStop
  BY <1>1 DEF CloseStop
<1>2. CASE CloseNotifyAll
  BY <1>2 DEF CloseNotifyAll, Waiters
<1>3. CASE Destroy
  BY <1>3 DEF Destroy
<1> QED
  BY <1>1, <1>2, <1>3

\* Every step preserves the invariant.
LEMMA NextPreserves ==
  ASSUME PoolInv, [Next]_vars
  PROVE  PoolInv'
<1>1. CASE \E t \in Threads : ThreadStep(t)
  BY <1>1, GetPreserves, ReturnPreserves DEF ThreadStep, InCritical, Return
<1>2. CASE CloseStop \/ CloseNotifyAll \/ Destroy
  BY <1>2, ClosePreserves
<1>3. CASE UNCHANGED vars
  BY <1>3 DEF vars, PoolInv, PoolTypes, HeldInUse, TakeFindsConnection, BlockSeesEmpty,
              StopInv, At
<1> QED
  BY <1>1, <1>2, <1>3 DEF Next

\* PoolInv holds in every state of the pool.
THEOREM PoolInvariant == Spec => []PoolInv
BY InitPoolInv, NextPreserves, PTL DEF Spec

\* The pool's variables keep their types and at most one thread, the owner of
\* mutex_, is in a critical section.
THEOREM TypeCorrect == Spec => []TypeOK
<1> DEFINE Owned == mutex_ \in Threads \cup {NoThread}
<1>1. Init => Owned
  BY DEF Init
<1>2. Owned /\ [Next]_vars => Owned'
  BY DEF Next, ThreadStep, InCritical, Return, Lock, Unlock, EnterGet, EvaluatePredicate, Wait,
         SpuriousWake, Reacquire, GetNothing, GetFront, ReturnToStopped, EnterReturn, Push,
         CloseStop, CloseNotifyAll, Destroy, vars
<1>3. PoolInv /\ Owned => TypeOK
  BY DEF PoolInv, PoolTypes, TypeOK
<1> QED
  BY <1>1, <1>2, <1>3, PoolInvariant, PTL DEF Spec

\* A thread past the predicate of an open pool always finds a connection:
\* front() is never called on an empty queue.
THEOREM TakeIsSafe == Spec => []TakeFindsConnection
BY PoolInvariant, PTL DEF PoolInv

-----------------------------------------------------------------------------
(* No connection in two hands *)

LEMMA InitExclusive == Init => Exclusive
BY ConnectionsAssumption, InitialQueue DEF Init, Exclusive

\* Taking the front leaves its copies nowhere; appending a held connection
\* adds the only copy.
LEMMA NextExclusive ==
  ASSUME PoolInv, Exclusive, [Next]_vars
  PROVE  Exclusive'
<1> USE ConnectionsAssumption DEF PoolInv, PoolTypes, Exclusive, Goto
<1>1. ASSUME NEW t \in Threads, GetFront(t)
      PROVE  Exclusive'
  <2>1. connections_ # <<>>
    BY <1>1 DEF GetFront, TakeFindsConnection, At
  <2>2. DOMAIN connections_ = 1 .. Len(connections_) /\ Len(connections_) \in Nat \ {0}
    BY <2>1
  <2>3. DOMAIN connections_' = 1 .. Len(connections_) - 1
    BY <1>1, <2>1, <2>2 DEF GetFront
  <2>4. \A i \in DOMAIN connections_' :
          connections_'[i] = connections_[i + 1] /\ i + 1 \in DOMAIN connections_
    BY <1>1, <2>1, <2>2, <2>3 DEF GetFront
  <2>5. held' = [held EXCEPT ![t] = connections_[1]]
    BY <1>1, <2>1 DEF GetFront
  <2>6. 1 \in DOMAIN connections_
    BY <2>2
  <2>7. \A i, j \in DOMAIN connections_' : connections_'[i] = connections_'[j] => i = j
    BY <2>2, <2>3, <2>4
  <2>8. \A u \in Threads : \A i \in DOMAIN connections_' : held'[u] # connections_'[i]
    BY <2>2, <2>3, <2>4, <2>5, <2>6
  <2>9. \A u, v \in Threads :
          held'[u] = held'[v] /\ held'[u] # NoConnection => u = v
    BY <2>5, <2>6
  <2> QED
    BY <2>7, <2>8, <2>9
<1>2. ASSUME NEW t \in Threads, Push(t)
      PROVE  Exclusive'
  <2>1. held[t] \in Connections /\ held[t] # NoConnection
    BY <1>2 DEF Push, HeldInUse
  <2>2. connections_' = Append(connections_, held[t])
    BY <1>2 DEF Push
  <2>3. /\ DOMAIN connections_ = 1 .. Len(connections_)
        /\ DOMAIN connections_' = 1 .. Len(connections_) + 1
        /\ Len(connections_) \in Nat
    BY <2>1, <2>2
  <2>4. \A i \in DOMAIN connections_' :
          \/ i \in DOMAIN connections_ /\ connections_'[i] = connections_[i]
          \/ i = Len(connections_) + 1 /\ connections_'[i] = held[t]
    BY <2>1, <2>2, <2>3
  <2>5. held' = [held EXCEPT ![t] = NoConnection]
    BY <1>2 DEF Push
  <2>6. \A i \in DOMAIN connections_' : connections_'[i] \in Connections
    BY <2>1, <2>4
  <2> QED
    BY <2>1, <2>3, <2>4, <2>5, <2>6
<1>3. ASSUME NEW t \in Threads, ReturnToStopped(t)
      PROVE  Exclusive'
  <2>1. connections_' = connections_ /\ held' = [held EXCEPT ![t] = NoConnection]
    BY <1>3 DEF ReturnToStopped
  <2>2. \A i \in DOMAIN connections_ : connections_[i] \in Connections
    OBVIOUS
  <2> QED
    BY <2>1, <2>2
<1>4. CASE Destroy
  <2>1. connections_' = <<>> /\ held' = held
    BY <1>4 DEF Destroy
  <2> QED
    BY <2>1
<1>5. ASSUME connections_' = connections_, held' = held
      PROVE  Exclusive'
  BY <1>5
<1> QED
  BY <1>1, <1>2, <1>3, <1>4, <1>5
     DEF Next, ThreadStep, InCritical, Return, vars, EnterGet, EvaluatePredicate, Wait, SpuriousWake,
         Reacquire, GetNothing, EnterReturn, CloseStop, CloseNotifyAll

\* No connection is ever shared: each is in the queue once or with one thread.
THEOREM ConnectionsAreExclusive == Spec => []Exclusive
BY PoolInvariant, InitExclusive, NextExclusive, PTL DEF Spec

-----------------------------------------------------------------------------
(* Wake-ups *)

\* Sets of threads are finite.
LEMMA ThreadSets ==
  ASSUME NEW S \in SUBSET Threads
  PROVE  IsFiniteSet(S) /\ Cardinality(S) \in Nat
BY ThreadsAssumption, FS_Subset, FS_CardinalityType

LEMMA OneMore ==
  ASSUME NEW S \in SUBSET Threads, NEW t \in Threads, t \notin S
  PROVE  Cardinality(S \cup {t}) = Cardinality(S) + 1
BY ThreadSets, FS_AddElement

LEMMA OneLess ==
  ASSUME NEW S \in SUBSET Threads, NEW t \in S
  PROVE  Cardinality(S \ {t}) = Cardinality(S) - 1
BY ThreadSets, FS_RemoveElement

\* Every returned connection puts one waiter on its way, and only a thread on
\* its way takes a connection: the number of connections that nobody was woken
\* for does not grow.
WakeupsBut(k) ==
  ~ stop_ /\ Waiters # {} => Len(connections_) <= Cardinality(Awake) + k

LEMMA NextWakeups ==
  ASSUME PoolInv, NEW k \in Nat, WakeupsBut(k), [Next]_vars
  PROVE  WakeupsBut(k)'
<1> USE DEF PoolInv, PoolTypes, WakeupsBut, Waiters, Awake, At, Goto
<1>0. Awake \in SUBSET Threads /\ Awake' \in SUBSET Threads
  OBVIOUS
<1>1. Cardinality(Awake) \in Nat /\ IsFiniteSet(Awake) /\ Len(connections_) \in Nat
  BY <1>0, ThreadSets
<1>2. ASSUME NEW t \in Threads, EnterGet(t) \/ SpuriousWake(t)
      PROVE  WakeupsBut(k)'
  <2>1. Awake' = Awake \cup {t} /\ t \notin Awake
    BY <1>2 DEF EnterGet, SpuriousWake
  <2>2. Cardinality(Awake') = Cardinality(Awake) + 1
    <3> HIDE DEF Awake
    <3> QED BY <2>1, <1>0, OneMore
  <2>3. Waiters' \subseteq Waiters /\ connections_' = connections_ /\ stop_' = stop_
    BY <1>2 DEF EnterGet, SpuriousWake
  <2> QED
    BY <1>1, <2>2, <2>3
<1>3. ASSUME NEW t \in Threads, EvaluatePredicate(t)
      PROVE  WakeupsBut(k)'
  <2>1. CASE Predicate
    BY <1>3, <2>1 DEF EvaluatePredicate
  <2>2. CASE ~ Predicate
    <3>1. Len(connections_') = 0
      BY <1>3, <2>2 DEF EvaluatePredicate, Predicate
    <3> QED
      BY <3>1, <1>0, ThreadSets
  <2> QED
    BY <2>1, <2>2
<1>4. ASSUME NEW t \in Threads, Wait(t)
      PROVE  WakeupsBut(k)'
  <2>1. Len(connections_') = 0
    BY <1>4 DEF Wait, BlockSeesEmpty
  <2> QED
    BY <2>1, <1>0, ThreadSets
<1>5. ASSUME NEW t \in Threads, Reacquire(t)
      PROVE  WakeupsBut(k)'
  <2>1. Awake' = Awake /\ Waiters' = Waiters
    BY <1>5 DEF Reacquire
  <2> QED
    BY <1>5, <2>1 DEF Reacquire
<1>6. ASSUME NEW t \in Threads, GetFront(t)
      PROVE  WakeupsBut(k)'
  <2>1. Awake' = Awake \ {t} /\ t \in Awake /\ Waiters' = Waiters
    BY <1>6 DEF GetFront
  <2>2. Cardinality(Awake') = Cardinality(Awake) - 1
    <3> HIDE DEF Awake
    <3> QED BY <2>1, <1>0, OneLess
  <2>3. connections_ # <<>>
    BY <1>6 DEF GetFront, TakeFindsConnection
  <2>4. Len(connections_') = Len(connections_) - 1
    BY <1>6, <2>3 DEF GetFront
  <2> QED
    BY <1>1, <1>6, <2>1, <2>2, <2>4 DEF GetFront
<1>7. ASSUME NEW t \in Threads, Push(t)
      PROVE  WakeupsBut(k)'
  <2>1. held[t] \in Connections
    BY <1>7 DEF Push, HeldInUse
  <2>2. Len(connections_') = Len(connections_) + 1
    BY <1>7, <2>1 DEF Push
  <2>3. CASE Waiters = {}
    <3>1. Waiters' = {}
      BY <1>7, <2>3 DEF Push, PcAfterPush
    <3> QED
      BY <3>1
  <2>4. CASE Waiters # {}
    <3>1. PICK w \in Waiters :
            pc' = [[pc EXCEPT ![t] = "idle"] EXCEPT ![w] = "wake"]
      BY <1>7, <2>4 DEF Push, PcAfterPush
    <3>2. w # t /\ w \in Threads /\ w \notin Awake
      BY <1>7 DEF Push
    <3>3. Awake' = Awake \cup {w}
      BY <1>7, <3>1, <3>2 DEF Push
    <3>4. Cardinality(Awake') = Cardinality(Awake) + 1
      <4> HIDE DEF Awake, Waiters
      <4> QED BY <3>2, <3>3, <1>0, OneMore
    <3> QED
      BY <1>1, <1>7, <2>2, <2>4, <3>4 DEF Push
  <2> QED
    BY <2>3, <2>4
<1>8. ASSUME NEW t \in Threads, ReturnToStopped(t) \/ EnterReturn(t)
      PROVE  WakeupsBut(k)'
  <2>1. Awake' = Awake /\ Waiters' = Waiters
    BY <1>8 DEF ReturnToStopped, EnterReturn
  <2> QED
    BY <1>8, <2>1 DEF ReturnToStopped, EnterReturn
<1>9. ASSUME stop_' = TRUE
      PROVE  WakeupsBut(k)'
  BY <1>9
<1>10. CASE UNCHANGED vars
  BY <1>10 DEF vars
<1>11. CASE CloseStop \/ CloseNotifyAll \/ Destroy
  BY <1>11, <1>9 DEF CloseStop, CloseNotifyAll, Destroy, StopInv
<1>12. ASSUME NEW t \in Threads, GetNothing(t)
       PROVE  WakeupsBut(k)'
  BY <1>12, <1>9 DEF GetNothing
<1> QED
  BY <1>2, <1>3, <1>4, <1>5, <1>6, <1>7, <1>8, <1>10, <1>11, <1>12
     DEF Next, ThreadStep, InCritical, Return

\* No wake-up is lost between the users of an open pool.
THEOREM WakeupsSuffice == Spec => []NoLostWakeup
<1>1. Init => NoLostWakeup
  BY DEF Init, NoLostWakeup, Waiters, At
<1>2. PoolInv /\ NoLostWakeup /\ [Next]_vars => NoLostWakeup'
  <2> SUFFICES ASSUME PoolInv, NoLostWakeup, [Next]_vars PROVE NoLostWakeup'
    OBVIOUS
  <2>1. PoolInv'
    BY NextPreserves
  <2>2. Awake \in SUBSET Threads /\ Awake' \in SUBSET Threads
    BY DEF Awake, At
  <2>3. /\ Cardinality(Awake) + 0 = Cardinality(Awake)
        /\ Cardinality(Awake') + 0 = Cardinality(Awake')
    BY <2>2, ThreadSets
  <2>4. WakeupsBut(0)
    BY <2>3 DEF NoLostWakeup, WakeupsBut
  <2>5. WakeupsBut(0)'
    BY <2>4, NextWakeups
  <2> QED
    BY <2>3, <2>5 DEF NoLostWakeup, WakeupsBut
<1> QED
  BY <1>1, <1>2, PoolInvariant, PTL DEF Spec

\* After Close() has notified, the threads that still sleep, or still go to
\* sleep, are all one and the same.
SleepersAreOne ==
  closer = "closed" =>
    \A t, u \in Threads :
      pc[t] \in {"wait", "block"} /\ pc[u] \in {"wait", "block"} => t = u

LEMMA NextSleepersAreOne ==
  ASSUME PoolInv, SleepersAreOne, [Next]_vars
  PROVE  SleepersAreOne'
<1> USE DEF PoolInv, PoolTypes, SleepersAreOne, Goto, Places, Critical
<1>1. ASSUME NEW t \in Threads, ThreadStep(t)
      PROVE  SleepersAreOne'
  <2>1. closer' = closer
    BY <1>1 DEF ThreadStep, InCritical, Return, EnterGet, EvaluatePredicate, Wait, SpuriousWake, Reacquire,
                GetNothing, GetFront, ReturnToStopped, EnterReturn, Push
  <2>2. ASSUME closer = "closed", NEW u \in Threads, pc'[u] \in {"wait", "block"}
        PROVE  pc[u] \in {"wait", "block"}
    <3>1. stop_
      BY <2>2 DEF StopInv
    <3>2. CASE Push(t)
      BY <2>2, <3>2 DEF Push, PcAfterPush, Waiters, At
    <3>3. CASE EvaluatePredicate(t)
      BY <2>2, <3>1, <3>3 DEF EvaluatePredicate, Predicate
    <3> QED
      BY <1>1, <2>2, <3>2, <3>3
         DEF ThreadStep, InCritical, Return, EnterGet, Wait, SpuriousWake, Reacquire, GetNothing, GetFront,
             ReturnToStopped, EnterReturn
  <2> QED
    BY <2>1, <2>2
<1>2. CASE CloseStop
  BY <1>2 DEF CloseStop
<1>3. CASE CloseNotifyAll
  <2>1. \A t \in Threads : pc'[t] \in {"wait", "block"} => mutex_ = t
    BY <1>3 DEF CloseNotifyAll, Waiters, At
  <2> QED
    BY <2>1
<1>4. CASE Destroy
  BY <1>4 DEF Destroy
<1>5. CASE UNCHANGED vars
  BY <1>5 DEF vars
<1> QED
  BY <1>1, <1>2, <1>3, <1>4, <1>5 DEF Next

\* Close() can be missed by one thread at most: the one that had the mutex
\* and had already evaluated the predicate.
THEOREM CloseIsMissedByOne == Spec => []AtMostOneMissesClose
<1>1. Init => SleepersAreOne
  BY DEF Init, SleepersAreOne
<1>2. SleepersAreOne => AtMostOneMissesClose
  <2> SUFFICES ASSUME SleepersAreOne, closer = "closed"
               PROVE  Cardinality(Waiters \cup At("block")) <= 1
    BY DEF AtMostOneMissesClose
  <2> DEFINE S == Waiters \cup At("block")
  <2>1. \A t, u \in S : t = u
    BY DEF SleepersAreOne, Waiters, At
  <2>2. CASE S = {}
    BY <2>2, FS_EmptySet
  <2>3. CASE S # {}
    <3>1. PICK t \in S : S = {t}
      BY <2>1, <2>3
    <3> QED
      BY <3>1, FS_Singleton
  <2> QED
    BY <2>2, <2>3
<1> QED
  BY <1>1, <1>2, PoolInvariant, NextSleepersAreOne, PTL DEF Spec

-----------------------------------------------------------------------------
(* The pool implements ConnectionLease *)

\* The queue of the constructor holds all connections: as many places as
\* connections, and none twice.
LEMMA InitialLease == Init => Users!LeaseInit
<1> SUFFICES ASSUME Init PROVE Users!LeaseInit
  OBVIOUS
<1> DEFINE n == Cardinality(Connections)
<1>1. n \in Nat
  BY ConnectionsAssumption, FS_CardinalityType
<1>2. connections_ \in Injection(1 .. n, Connections)
  BY DEF Init, Injection, IsInjective
<1>3. Cardinality(1 .. n) = n
  BY <1>1, FS_Interval
<1>4. connections_ \in Surjection(1 .. n, Connections)
  BY <1>2, <1>3, ConnectionsAssumption, FS_Injection
<1>5. Idle = Connections
  <2>1. /\ connections_ \in [1 .. n -> Connections]
        /\ \A c \in Connections : \E i \in 1 .. n : connections_[i] = c
    BY <1>4 DEF Surjection
  <2> QED
    BY <2>1 DEF Idle
<1> QED
  BY <1>5 DEF Init, Users!LeaseInit

\* GetFront is a lease of the front, which is nowhere else in the queue.
LEMMA GetFrontLeases ==
  ASSUME PoolInv, Exclusive, NEW t \in Threads, GetFront(t)
  PROVE  Users!Lease(t)
<1> USE DEF PoolInv, PoolTypes
<1>1. connections_ # <<>> /\ pc[t] = "take" /\ held[t] = NoConnection
  BY DEF GetFront, Goto, TakeFindsConnection, At, HeldInUse
<1>2. DOMAIN connections_ = 1 .. Len(connections_) /\ Len(connections_) \in Nat \ {0}
  BY <1>1
<1>3. DOMAIN connections_' = 1 .. Len(connections_) - 1
  BY <1>1, <1>2 DEF GetFront
<1>4. \A i \in DOMAIN connections_' :
        connections_'[i] = connections_[i + 1] /\ i + 1 \in DOMAIN connections_
  BY <1>1, <1>2, <1>3 DEF GetFront
<1>5. held' = [held EXCEPT ![t] = connections_[1]]
  BY <1>1 DEF GetFront
<1>6. connections_[1] \in Idle
  BY <1>2 DEF Idle
<1>7. Idle' = Idle \ {connections_[1]}
  <2>1. ASSUME NEW c \in Idle' PROVE c \in Idle \ {connections_[1]}
    <3>1. PICK i \in DOMAIN connections_' : c = connections_'[i]
      BY DEF Idle
    <3>2. c = connections_[i + 1] /\ i + 1 \in DOMAIN connections_ /\ i + 1 # 1
      BY <1>3, <1>4, <3>1
    <3>3. 1 \in DOMAIN connections_
      BY <1>2
    <3> QED
      BY <3>2, <3>3 DEF Idle, Exclusive
  <2>2. ASSUME NEW c \in Idle \ {connections_[1]} PROVE c \in Idle'
    <3>1. PICK i \in DOMAIN connections_ : c = connections_[i]
      BY DEF Idle
    <3>2. i - 1 \in DOMAIN connections_' /\ connections_'[i - 1] = connections_[i]
      BY <1>2, <1>3, <1>4, <3>1, <2>2
    <3> QED
      BY <3>1, <3>2 DEF Idle
  <2> QED
    BY <2>1, <2>2
<1>8. ~ stop_ /\ stop_' = stop_
  BY DEF GetFront
<1> QED
  BY <1>1, <1>5, <1>6, <1>7, <1>8 DEF Users!Lease

\* Push gives the connection back.
LEMMA PushGivesBack ==
  ASSUME PoolInv, NEW t \in Threads, Push(t)
  PROVE  Users!GiveBack(t)
<1> USE DEF PoolInv, PoolTypes
<1>1. held[t] \in Connections /\ held[t] # NoConnection
  BY DEF Push, HeldInUse
<1>2. connections_' = Append(connections_, held[t]) /\ Len(connections_) \in Nat
  BY DEF Push
<1>3. /\ DOMAIN connections_ = 1 .. Len(connections_)
      /\ DOMAIN connections_' = 1 .. Len(connections_) + 1
      /\ \A i \in 1 .. Len(connections_) : connections_'[i] = connections_[i]
      /\ connections_'[Len(connections_) + 1] = held[t]
  BY <1>1, <1>2
<1>4. Idle' = Idle \cup {held[t]}
  BY <1>2, <1>3 DEF Idle
<1>5. held' = [held EXCEPT ![t] = NoConnection] /\ stop_' = stop_
  BY DEF Push
<1> QED
  BY <1>1, <1>4, <1>5 DEF Users!GiveBack, Users!EndLease

\* Every step of the pool is one of the lease or none.
LEMMA NextLease ==
  ASSUME PoolInv, Exclusive, [Next]_vars
  PROVE  [Users!LeaseNext]_(Users!leaseVars)
<1> USE DEF Users!LeaseNext, Users!leaseVars
<1>1. ASSUME NEW t \in Threads, GetFront(t)
      PROVE  Users!LeaseNext
  BY <1>1, GetFrontLeases
<1>2. ASSUME NEW t \in Threads, Push(t)
      PROVE  Users!LeaseNext
  BY <1>2, PushGivesBack
<1>3. ASSUME NEW t \in Threads, ReturnToStopped(t)
      PROVE  Users!LeaseNext
  <2>1. held[t] # NoConnection
    BY <1>3 DEF PoolInv, HeldInUse, ReturnToStopped, Goto
  <2>2. Idle' = Idle
    BY <1>3 DEF ReturnToStopped, Idle
  <2> QED
    BY <1>3, <2>1, <2>2 DEF ReturnToStopped, Users!Drop, Users!EndLease
<1>4. CASE CloseStop
  <2>1. ~ stop_
    BY <1>4 DEF CloseStop, PoolInv, StopInv
  <2>2. Idle' = Idle
    BY <1>4 DEF CloseStop, Idle
  <2> QED
    BY <1>4, <2>1, <2>2 DEF CloseStop, Users!Shut
<1>5. CASE Destroy
  <2>1. stop_ /\ \A t \in Threads : held[t] = NoConnection
    BY <1>5 DEF Destroy, PoolInv, StopInv, HeldInUse
  <2>2. Idle' = {}
    BY <1>5 DEF Destroy, Idle
  <2> QED
    BY <1>5, <2>1, <2>2 DEF Destroy, Users!Discard
<1>6. ASSUME connections_' = connections_, held' = held, stop_' = stop_
      PROVE  UNCHANGED Users!leaseVars
  BY <1>6 DEF Idle
<1> QED
  BY <1>1, <1>2, <1>3, <1>4, <1>5, <1>6
     DEF Next, ThreadStep, InCritical, Return, vars, EnterGet, EvaluatePredicate, Wait,
         SpuriousWake, Reacquire, GetNothing, EnterReturn, CloseNotifyAll

\* To its users the pool, with its queue, mutex and condition variable, is a
\* ConnectionLease.
THEOREM PoolImplementsLease == Spec => ImplementsLease
<1>1. Init => Users!LeaseInit
  BY InitialLease
<1>2. PoolInv /\ Exclusive /\ [Next]_vars => [Users!LeaseNext]_(Users!leaseVars)
  BY NextLease
<1> QED
  BY <1>1, <1>2, PoolInvariant, ConnectionsAreExclusive, PTL
     DEF Spec, ImplementsLease, Users!LeaseSpec

-----------------------------------------------------------------------------
(* The MySQL pool: the inductive invariant *)

\* Who owns mutex_ and what the checking thread still has to do.
CheckerInv ==
  /\ mutex_ \in Threads \cup {NoThread, Checker}
  /\ mutex_ # Checker => toCheck = 0
  /\ toCheck \in 0 .. Len(connections_)
  /\ checks \in Nat

\* What the pool has is what it has created.
CreatedInv ==
  /\ connections_ \in Seq(created)
  /\ held \in [Threads -> created \cup {NoConnection}]
  /\ Initial \subseteq created
  /\ created \subseteq Connections
  /\ idle \subseteq created
  /\ dead \subseteq created
  /\ found \subseteq dead

\* What the round that is under way may still create is counted already.
Creates == Cardinality(created) + toCheck <= Cardinality(Initial) * 2 ^ checks

MysqlInv ==
  /\ PoolInv
  /\ Exclusive
  /\ CheckerInv
  /\ CreatedInv
  /\ NoneLost
  /\ Creates
  /\ UnnoticedAreNew

\* Sets of connections are finite.
LEMMA ConnectionSets ==
  ASSUME NEW S \in SUBSET Connections
  PROVE  IsFiniteSet(S) /\ Cardinality(S) \in Nat
BY ConnectionsAssumption, FS_Subset, FS_CardinalityType

\* The power of two of one more is twice the power, by counting subsets.
LEMMA Doubling ==
  /\ 2 ^ 0 = 1
  /\ \A n \in Nat : 2 ^ n \in Nat /\ 2 ^ (n + 1) = 2 * 2 ^ n
<1>1. 2 ^ 0 = 1
  <2>1. SUBSET {} = {{}}
    OBVIOUS
  <2>2. Cardinality({{}}) = 1
    BY FS_Singleton
  <2>3. IsFiniteSet({}) /\ Cardinality({}) = 0
    BY FS_EmptySet
  <2>4. Cardinality(SUBSET {}) = 2 ^ Cardinality({})
    BY <2>3, FS_SUBSET
  <2> QED
    BY <2>1, <2>2, <2>3, <2>4
<1>2. ASSUME NEW n \in Nat PROVE 2 ^ n \in Nat /\ 2 ^ (n + 1) = 2 * 2 ^ n
  <2> DEFINE A == SUBSET (1 .. n)
             f == [S \in A |-> S \cup {n + 1}]
             B == {S \cup {n + 1} : S \in A}
  <2>1. /\ IsFiniteSet(1 .. n) /\ Cardinality(1 .. n) = n
        /\ IsFiniteSet(1 .. n + 1) /\ Cardinality(1 .. n + 1) = n + 1
    BY FS_Interval
  <2>2. /\ IsFiniteSet(A) /\ Cardinality(A) = 2 ^ n
        /\ Cardinality(SUBSET (1 .. n + 1)) = 2 ^ (n + 1)
    <3> HIDE DEF A
    <3>1. IsFiniteSet(SUBSET (1 .. n)) /\ Cardinality(SUBSET (1 .. n)) = 2 ^ Cardinality(1 .. n)
      BY <2>1, FS_SUBSET
    <3>2. Cardinality(SUBSET (1 .. n + 1)) = 2 ^ Cardinality(1 .. n + 1)
      BY <2>1, FS_SUBSET
    <3> QED
      BY <2>1, <3>1, <3>2 DEF A
  <2>3. n + 1 \notin 1 .. n
    OBVIOUS
  <2>4. f \in Bijection(A, B)
    <3>1. f \in [A -> B] /\ \A T \in B : \E S \in A : f[S] = T
      OBVIOUS
    <3>2. ASSUME NEW S \in A, NEW T \in A, f[S] = f[T] PROVE S = T
      BY <2>3, <3>2
    <3> QED
      BY <3>1, <3>2 DEF Bijection, Injection, IsInjective, Surjection
  <2>5. IsFiniteSet(B) /\ Cardinality(B) = Cardinality(A)
    <3>1. ExistsBijection(A, B)
      BY <2>4 DEF ExistsBijection
    <3> HIDE DEF A, B
    <3> QED
      BY <2>2, <3>1, FS_Bijection
  <2>6. A \cap B = {}
    BY <2>3
  <2>7. SUBSET (1 .. n + 1) = A \cup B
    <3>1. ASSUME NEW S \in SUBSET (1 .. n + 1) PROVE S \in A \cup B
      <4>1. S \ {n + 1} \in A
        OBVIOUS
      <4>2. CASE n + 1 \in S
        <5>1. S = (S \ {n + 1}) \cup {n + 1}
          BY <4>2
        <5> QED
          BY <4>1, <5>1
      <4>3. CASE n + 1 \notin S
        BY <4>3
      <4> QED
        BY <4>2, <4>3
    <3>2. 1 .. n \subseteq 1 .. n + 1 /\ n + 1 \in 1 .. n + 1
      OBVIOUS
    <3>3. A \cup B \subseteq SUBSET (1 .. n + 1)
      BY <3>2
    <3> QED
      BY <3>1, <3>3
  <2> HIDE DEF A, B
  <2>8. Cardinality(A \cup B) = Cardinality(A) + Cardinality(B) - Cardinality(A \cap B)
    BY <2>2, <2>5, FS_Union
  <2>9. Cardinality(A) \in Nat /\ Cardinality({}) = 0
    BY <2>2, FS_CardinalityType, FS_EmptySet
  <2> DEFINE p == 2 ^ n
             q == 2 ^ (n + 1)
             both == Cardinality(A \cup B)
  <2>10. p \in Nat /\ Cardinality(B) = p /\ Cardinality(A) = p
    BY <2>2, <2>5, <2>9
  <2>11. Cardinality(A \cap B) = 0
    BY <2>6, <2>9
  <2>12. q = both
    BY <2>2, <2>7
  <2> HIDE DEF p, q, both
  <2>13. both = p + p - 0
    BY <2>8, <2>10, <2>11 DEF both
  <2>14. q = 2 * p
    BY <2>10, <2>12, <2>13
  <2> QED
    BY <2>10, <2>14 DEF p, q
<1> QED
  BY <1>1, <1>2


-----------------------------------------------------------------------------
(* The steps of the pool's users *)

\* A sequence of connections all of which are in C is a sequence over C.
LEMMA SeqOfIdle ==
  ASSUME NEW C, NEW s \in Seq(Connections),
         {s[i] : i \in DOMAIN s} \subseteq C
  PROVE  s \in Seq(C)
<1>1. Len(s) \in Nat /\ DOMAIN s = 1 .. Len(s) /\ s \in [1 .. Len(s) -> Connections]
  OBVIOUS
<1>2. \A i \in 1 .. Len(s) : s[i] \in C
  BY <1>1
<1>3. s \in [1 .. Len(s) -> C]
  BY <1>1, <1>2
<1> QED
  BY <1>1, <1>3, SeqDef

\* While the checking thread has mutex_ nobody else touches the queue.
LEMMA CheckerExcludes ==
  ASSUME MysqlInv, Next, mutex_ = Checker
  PROVE  connections_' = connections_ /\ mutex_' = Checker
BY MysqlAssumption
   DEF MysqlInv, PoolInv, PoolTypes, Critical, Next, ThreadStep, InCritical, Return, Lock, Unlock,
       Goto, EnterGet, EvaluatePredicate, Wait, SpuriousWake, Reacquire, GetNothing, GetFront,
       ReturnToStopped, EnterReturn, Push, CloseStop, CloseNotifyAll, Destroy

\* What the users do keeps what the checking thread relies on.
LEMMA PoolKeepsChecker ==
  ASSUME MysqlInv, PoolInv', Next, UNCHANGED <<toCheck, checks>>
  PROVE  CheckerInv'
<1> USE MysqlAssumption DEF MysqlInv, CheckerInv
<1>1. CASE mutex_ = Checker
  BY <1>1, CheckerExcludes
<1>2. CASE mutex_ # Checker
  <2>1. Len(connections_') \in Nat /\ toCheck' = 0
    BY <1>2 DEF PoolInv, PoolTypes
  <2>2. mutex_' \in Threads \cup {NoThread}
    BY <1>2
       DEF Next, ThreadStep, InCritical, Return, Lock, Unlock, EnterGet, EvaluatePredicate,
           Wait, SpuriousWake, Reacquire, GetNothing, GetFront, ReturnToStopped, EnterReturn, Push,
           CloseStop, CloseNotifyAll, Destroy
  <2> QED
    BY <2>1, <2>2
<1> QED
  BY <1>1, <1>2

\* A step of the lease moves connections between the queue and the threads.
LEMMA LeaseMoves ==
  ASSUME PoolInv, PoolInv', [Users!LeaseNext]_(Users!leaseVars)
  PROVE  /\ Idle' \cup InUse' \subseteq Idle \cup InUse
         /\ ~ stop_' => ~ stop_ /\ Idle' \cup InUse' = Idle \cup InUse
<1> USE ConnectionsAssumption DEF PoolInv, PoolTypes, InUse, Users!leaseVars
<1>1. ASSUME NEW t \in Threads, Users!Lease(t)
      PROVE  Idle' \cup InUse' = Idle \cup InUse /\ stop_' = stop_
  <2>1. PICK c \in Idle : held' = [held EXCEPT ![t] = c] /\ Idle' = Idle \ {c}
    BY <1>1 DEF Users!Lease
  <2>2. c \in Connections /\ c # NoConnection
    BY DEF Idle
  <2>3. InUse' = InUse \cup {c}
    <3>1. held[t] = NoConnection
      BY <1>1 DEF Users!Lease
    <3> HIDE DEF Idle
    <3> QED
      BY <2>1, <2>2, <3>1
  <2> HIDE DEF Idle, InUse
  <2> QED
    BY <1>1, <2>1, <2>3 DEF Users!Lease
<1>2. ASSUME NEW t \in Threads, Users!EndLease(t)
      PROVE  InUse' \cup {held[t]} = InUse \cup {held[t]} /\ held[t] \in InUse /\ InUse' \subseteq InUse
  BY <1>2 DEF Users!EndLease
<1>3. ASSUME NEW t \in Threads, Users!GiveBack(t)
      PROVE  Idle' \cup InUse' = Idle \cup InUse /\ stop_' = stop_
  <2>1. Users!EndLease(t) /\ Idle' = Idle \cup {held[t]} /\ stop_' = stop_
    BY <1>3 DEF Users!GiveBack
  <2> HIDE DEF Idle, InUse
  <2> QED
    BY <2>1, <1>2
<1>4. ASSUME NEW t \in Threads, Users!Drop(t)
      PROVE  Idle' \cup InUse' \subseteq Idle \cup InUse /\ stop_'
  <2>1. Users!EndLease(t) /\ Idle' = Idle /\ stop_' = stop_ /\ stop_
    BY <1>4 DEF Users!Drop
  <2> HIDE DEF Idle, InUse
  <2> QED
    BY <2>1, <1>2
<1>5. CASE Users!Shut
  BY <1>5 DEF Users!Shut
<1>6. CASE Users!Discard
  BY <1>6 DEF Users!Discard
<1>7. CASE UNCHANGED Users!leaseVars
  BY <1>7
<1> QED
  BY <1>1, <1>3, <1>4, <1>5, <1>6, <1>7 DEF Users!LeaseNext

\* A step of a user of the pool preserves the invariant.
LEMMA PoolStepPreserves ==
  ASSUME MysqlInv, PoolStep
  PROVE  MysqlInv'
<1> USE DEF PoolStep
<1>1. PoolInv /\ Exclusive /\ [Next]_vars
  BY DEF MysqlInv
<1>2. PoolInv' /\ Exclusive'
  BY <1>1, NextPreserves, NextExclusive
<1>3. CheckerInv'
  BY <1>2, PoolKeepsChecker
<1>4. /\ Idle' \cup InUse' \subseteq Idle \cup InUse
      /\ ~ stop_' => ~ stop_ /\ Idle' \cup InUse' = Idle \cup InUse
  BY <1>1, <1>2, NextLease, LeaseMoves
<1>5. NoneLost'
  BY <1>4 DEF MysqlInv, NoneLost, Idle, InQueue
<1>6. CreatedInv'
  <2>1. Idle \cup InUse \subseteq created
    BY DEF MysqlInv, CreatedInv, Idle, InUse
  <2>2. Idle' \cup InUse' \subseteq created
    BY <1>4, <2>1
  <2>3. connections_' \in Seq(created)
    <3>1. connections_' \in Seq(Connections)
      BY <1>2 DEF PoolInv, PoolTypes
    <3> QED
      BY <2>2, <3>1, SeqOfIdle DEF Idle
  <2>4. held' \in [Threads -> created \cup {NoConnection}]
    BY <1>2, <2>2 DEF PoolInv, PoolTypes, InUse
  <2> QED
    BY <2>3, <2>4 DEF MysqlInv, CreatedInv
<1>7. Creates'
  BY DEF MysqlInv, Creates
<1>8. UnnoticedAreNew'
  <2>1. created \ Initial \in SUBSET Connections
    BY DEF MysqlInv, CreatedInv
  <2>2. Cardinality(created \ Initial) \in Nat
    BY <2>1, ConnectionSets
  <2>3. PICK k \in Nat : k = Cardinality(created \ Initial)
    BY <2>2
  <2>4. WakeupsBut(k)
    BY <2>3 DEF MysqlInv, UnnoticedAreNew, WakeupsBut
  <2>5. WakeupsBut(k)'
    BY <1>1, <2>4, NextWakeups
  <2> QED
    BY <2>3, <2>5 DEF UnnoticedAreNew, WakeupsBut
<1> QED
  BY <1>2, <1>3, <1>5, <1>6, <1>7, <1>8 DEF MysqlInv


-----------------------------------------------------------------------------
(* The steps of the checking thread *)

\* An open or a closed pool never holds more connections than it has created.
LEMMA FitsCreated ==
  ASSUME Exclusive, CreatedInv
  PROVE  Len(connections_) <= Cardinality(created)
<1>1. IsFiniteSet(created) /\ Cardinality(created) \in Nat
  BY ConnectionSets DEF CreatedInv
<1>2. /\ connections_ \in [1 .. Len(connections_) -> created]
      /\ Len(connections_) \in Nat /\ DOMAIN connections_ = 1 .. Len(connections_)
  BY DEF CreatedInv
<1>3. connections_ \in Injection(1 .. Len(connections_), created)
  BY <1>2 DEF Exclusive, Injection, IsInjective
<1>4. ASSUME NEW n \in Nat, NEW f \in Injection(1 .. n, created)
      PROVE  n <= Cardinality(created)
  <2>1. 1 \in Int /\ n \in Int
    OBVIOUS
  <2>2. IsFiniteSet(1 .. n) /\ Cardinality(1 .. n) = IF 1 > n THEN 0 ELSE n - 1 + 1
    BY <2>1, FS_Interval, Zenon
  <2>3. Cardinality(1 .. n) = n
    BY <2>2
  <2>4. Cardinality(1 .. n) <= Cardinality(created)
    BY <1>1, FS_Injection
  <2> QED
    BY <2>3, <2>4
<1> QED
  BY <1>2, <1>3, <1>4

\* The front of the queue put back at its end.
LEMMA Rotated ==
  ASSUME NEW C, NEW s \in Seq(C), s # <<>>, NEW r, r = Append(Tail(s), Head(s))
  PROVE  /\ r \in Seq(C) /\ Len(r) = Len(s)
         /\ \A i \in 1 .. Len(s) - 1 : r[i] = s[i + 1]
         /\ r[Len(s)] = s[1]
<1>1. Len(s) \in Nat \ {0} /\ Head(s) = s[1] /\ Head(s) \in C
  OBVIOUS
<1>2. /\ Tail(s) \in Seq(C) /\ Len(Tail(s)) = Len(s) - 1
      /\ \A i \in 1 .. Len(s) - 1 : Tail(s)[i] = s[i + 1]
  OBVIOUS
<1> QED
  BY <1>1, <1>2

\* The front put back behind a new element.
LEMMA RotatedAndAdded ==
  ASSUME NEW C, NEW s \in Seq(C), s # <<>>, NEW c \in C,
         NEW r, r = Append(Append(Tail(s), c), Head(s))
  PROVE  /\ r \in Seq(C) /\ Len(r) = Len(s) + 1
         /\ \A i \in 1 .. Len(s) - 1 : r[i] = s[i + 1]
         /\ r[Len(s)] = c
         /\ r[Len(s) + 1] = s[1]
<1>1. Len(s) \in Nat \ {0} /\ Head(s) = s[1] /\ Head(s) \in C
  OBVIOUS
<1>2. /\ Tail(s) \in Seq(C) /\ Len(Tail(s)) = Len(s) - 1
      /\ \A i \in 1 .. Len(s) - 1 : Tail(s)[i] = s[i + 1]
  OBVIOUS
<1> DEFINE q == Append(Tail(s), c)
<1>3. /\ q \in Seq(C) /\ Len(q) = Len(s)
      /\ \A i \in 1 .. Len(s) - 1 : q[i] = s[i + 1]
      /\ q[Len(s)] = c
  BY <1>1, <1>2
<1> HIDE DEF q
<1>4. r = Append(q, Head(s))
  BY DEF q
<1> QED
  BY <1>1, <1>3, <1>4

\* While the checking thread works no thread is in a critical section.
LEMMA NobodyElse ==
  ASSUME MysqlInv, mutex_ = Checker
  PROVE  \A t \in Threads : pc[t] \notin Critical
BY MysqlAssumption DEF MysqlInv, PoolInv, PoolTypes

\* A connection that is looked at and put back.
LEMMA KeepPreserves ==
  ASSUME MysqlInv, KeepFresh \/ KeepAlive
  PROVE  MysqlInv'
<1>1. /\ mutex_ = Checker /\ toCheck > 0 /\ toCheck' = toCheck - 1
      /\ connections_' = Append(Tail(connections_), Head(connections_))
      /\ UNCHANGED <<stop_, mutex_, pc, held, closer, dead, found, created, checks>>
      /\ idle' \subseteq idle
  BY DEF KeepFresh, KeepAlive, Checking, Front
<1>2. toCheck \in 1 .. Len(connections_) /\ Len(connections_) \in Nat \ {0}
      /\ connections_ # <<>>
  BY <1>1 DEF MysqlInv, CheckerInv, PoolInv, PoolTypes
<1>3. /\ connections_' \in Seq(created) /\ Len(connections_') = Len(connections_)
      /\ \A i \in 1 .. Len(connections_) - 1 : connections_'[i] = connections_[i + 1]
      /\ connections_'[Len(connections_)] = connections_[1]
  BY <1>1, <1>2, Rotated DEF MysqlInv, CreatedInv
<1>4. /\ DOMAIN connections_ = 1 .. Len(connections_)
      /\ DOMAIN connections_' = 1 .. Len(connections_)
  BY <1>3 DEF MysqlInv, CreatedInv
<1> DEFINE from(i) == IF i = Len(connections_) THEN 1 ELSE i + 1
<1>5. \A i \in DOMAIN connections_' :
        from(i) \in DOMAIN connections_ /\ connections_'[i] = connections_[from(i)]
  BY <1>2, <1>3, <1>4
<1>6. \A i, j \in DOMAIN connections_' : from(i) = from(j) => i = j
  BY <1>2, <1>4
<1>7. InQueue' = InQueue
  <2>1. \A i \in DOMAIN connections_ : \E j \in DOMAIN connections_' : from(j) = i
    <3>1. ASSUME NEW i \in DOMAIN connections_ PROVE \E j \in DOMAIN connections_' : from(j) = i
      <4>1. CASE i = 1
        BY <1>2, <1>4, <4>1
      <4>2. CASE i # 1
        <5>1. i - 1 \in DOMAIN connections_' /\ from(i - 1) = i
          BY <1>2, <1>4, <4>2
        <5> QED
          BY <5>1
      <4> QED
        BY <4>1, <4>2
    <3> QED
      BY <3>1
  <2> HIDE DEF from
  <2> QED
    BY <1>5, <2>1 DEF InQueue
<1>8. Exclusive'
  <2> HIDE DEF from
  <2> QED
    BY <1>1, <1>5, <1>6 DEF MysqlInv, Exclusive
<1>9. PoolInv'
  <2>1. connections_' \in Seq(Connections) /\ connections_' # <<>>
    BY <1>2, <1>3 DEF MysqlInv, CreatedInv
  <2>2. \A t \in Threads : pc[t] \notin Critical
    BY <1>1, NobodyElse
  <2> QED
    BY <1>1, <2>1, <2>2
       DEF MysqlInv, PoolInv, PoolTypes, HeldInUse, TakeFindsConnection, BlockSeesEmpty, StopInv, At,
           Critical
<1>10. CheckerInv'
  BY <1>1, <1>2, <1>3 DEF MysqlInv, CheckerInv
<1>11. CreatedInv'
  BY <1>1, <1>3 DEF MysqlInv, CreatedInv
<1>12. NoneLost'
  BY <1>1, <1>7 DEF MysqlInv, NoneLost, InUse
<1>13. Creates'
  <2>1. Cardinality(created) \in Nat
    BY ConnectionSets DEF MysqlInv, CreatedInv
  <2>2. Cardinality(Initial) * 2 ^ checks \in Nat
    BY Doubling, ConnectionSets, MysqlAssumption DEF MysqlInv, CheckerInv
  <2>3. /\ Cardinality(created') + toCheck' <= Cardinality(created) + toCheck
        /\ Cardinality(Initial) * 2 ^ checks' = Cardinality(Initial) * 2 ^ checks
    BY <1>1, <1>2, <2>1
  <2> DEFINE most == Cardinality(Initial) * 2 ^ checks
             most2 == Cardinality(Initial) * 2 ^ checks'
  <2>4. most2 = most /\ most \in Nat /\ Cardinality(created) + toCheck <= most
    BY <2>2, <2>3 DEF MysqlInv, Creates
  <2>5. Cardinality(created') \in Nat /\ toCheck' \in Nat
    BY <1>1, <1>2, <2>1
  <2> HIDE DEF most, most2
  <2>6. Cardinality(created') + toCheck' <= most2
    BY <1>2, <2>1, <2>3, <2>4, <2>5
  <2> QED
    BY <2>6 DEF Creates, most2
<1>14. UnnoticedAreNew'
  BY <1>1, <1>3 DEF MysqlInv, UnnoticedAreNew, Waiters, Awake, At
<1> QED
  BY <1>8, <1>9, <1>10, <1>11, <1>12, <1>13, <1>14 DEF MysqlInv


\* What the powers of two in Creates amount to.
LEMMA MostCreated ==
  ASSUME MysqlInv
  PROVE  /\ Cardinality(created) \in Nat
         /\ 2 ^ checks \in Nat
         /\ Cardinality(Initial) * 2 ^ checks \in Nat
         /\ Cardinality(Initial) * 2 ^ (checks + 1) = 2 * (Cardinality(Initial) * 2 ^ checks)
<1>1. Cardinality(created) \in Nat /\ Cardinality(Initial) \in Nat
  BY ConnectionSets, MysqlAssumption DEF MysqlInv, CreatedInv
<1>2. 2 ^ checks \in Nat /\ 2 ^ (checks + 1) = 2 * 2 ^ checks
  BY Doubling DEF MysqlInv, CheckerInv
<1> DEFINE n == Cardinality(Initial)
           p == 2 ^ checks
           q == 2 ^ (checks + 1)
<1>3. n \in Nat /\ p \in Nat /\ q = 2 * p
  BY <1>1, <1>2
<1> HIDE DEF n, p, q
<1>4. n * p \in Nat /\ n * q = 2 * (n * p)
  BY <1>3
<1> QED
  BY <1>1, <1>2, <1>4 DEF n, p, q

\* A dead connection that gets a new one beside it.
LEMMA ReplacePreserves ==
  ASSUME MysqlInv, Replace
  PROVE  MysqlInv'
<1>1. PICK new \in Connections \ created :
        /\ connections_' = Append(Append(Tail(connections_), new), Head(connections_))
        /\ created' = created \cup {new}
  BY DEF Replace, Front
<1>2. /\ mutex_ = Checker /\ toCheck > 0 /\ toCheck' = toCheck - 1
      /\ UNCHANGED <<stop_, mutex_, pc, held, closer, idle, dead, checks>>
      /\ found' = found \cup {Head(connections_)} /\ Head(connections_) \in dead
  BY DEF Replace, Checking, Front
<1>3. toCheck \in 1 .. Len(connections_) /\ Len(connections_) \in Nat \ {0}
      /\ connections_ # <<>>
  BY <1>2 DEF MysqlInv, CheckerInv, PoolInv, PoolTypes
<1>4. connections_ \in Seq(created') /\ new \in created'
  <2>1. created \subseteq created'
    BY <1>1
  <2> QED
    BY <1>1, <2>1 DEF MysqlInv, CreatedInv
<1>5. /\ connections_' \in Seq(created') /\ Len(connections_') = Len(connections_) + 1
      /\ \A i \in 1 .. Len(connections_) - 1 : connections_'[i] = connections_[i + 1]
      /\ connections_'[Len(connections_)] = new
      /\ connections_'[Len(connections_) + 1] = connections_[1]
  BY <1>1, <1>3, <1>4, RotatedAndAdded
<1>6. /\ DOMAIN connections_ = 1 .. Len(connections_)
      /\ DOMAIN connections_' = 1 .. Len(connections_) + 1
      /\ \A i \in DOMAIN connections_ : connections_[i] \in created
  BY <1>5 DEF MysqlInv, CreatedInv
<1> DEFINE n == Len(connections_)
           from(i) == IF i = n + 1 THEN 1 ELSE i + 1
<1>7. \A i \in DOMAIN connections_' \ {n} :
        from(i) \in DOMAIN connections_ /\ connections_'[i] = connections_[from(i)]
  <2> SUFFICES ASSUME NEW i \in 1 .. n + 1, i # n
               PROVE  from(i) \in 1 .. n /\ connections_'[i] = connections_[from(i)]
    BY <1>6
  <2>1. n \in Nat /\ n >= 1
    BY <1>3
  <2>2. CASE i = n + 1
    BY <1>5, <2>1, <2>2
  <2>3. CASE i # n + 1
    <3>1. i \in 1 .. n - 1
      BY <2>1, <2>3
    <3> QED
      BY <1>5, <2>1, <2>3, <3>1
  <2> QED
    BY <2>2, <2>3
<1>8. \A i, j \in DOMAIN connections_' \ {n} : from(i) = from(j) => i = j
  BY <1>3, <1>6
<1>9. InQueue' = InQueue \cup {new}
  <2>1. ASSUME NEW i \in DOMAIN connections_
        PROVE  \E j \in DOMAIN connections_' \ {n} : from(j) = i
    <3>1. CASE i = 1
      BY <1>3, <1>6, <3>1
    <3>2. CASE i # 1
      <4>1. i - 1 \in DOMAIN connections_' \ {n} /\ from(i - 1) = i
        BY <1>3, <1>6, <3>2
      <4> QED
        BY <4>1
    <3> QED
      BY <3>1, <3>2
  <2>2. n \in DOMAIN connections_' /\ connections_'[n] = new
    BY <1>3, <1>5, <1>6
  <2> HIDE DEF from, n
  <2> QED
    BY <1>7, <2>1, <2>2 DEF InQueue
<1>10. new # NoConnection /\ \A t \in Threads : held[t] # new
  BY <1>1, ConnectionsAssumption DEF MysqlInv, CreatedInv
<1>11. Exclusive'
  <2>1. connections_'[n] = new /\ \A i \in DOMAIN connections_' \ {n} : connections_'[i] # new
    BY <1>1, <1>5, <1>6, <1>7
  <2>2. ASSUME NEW i \in DOMAIN connections_', NEW j \in DOMAIN connections_',
               connections_'[i] = connections_'[j]
        PROVE  i = j
    <3> HIDE DEF from, n
    <3>1. CASE i = n \/ j = n
      BY <2>1, <2>2, <3>1
    <3>2. CASE i # n /\ j # n
      <4>1. connections_[from(i)] = connections_[from(j)]
        BY <1>7, <2>2, <3>2
      <4>2. from(i) = from(j)
        BY <1>7, <3>2, <4>1 DEF MysqlInv, Exclusive
      <4> QED
        BY <1>8, <3>2, <4>2
    <3> QED
      BY <3>1, <3>2
  <2>3. \A t \in Threads : \A i \in DOMAIN connections_' : held'[t] # connections_'[i]
    <3> HIDE DEF from, n
    <3> QED
      BY <1>2, <1>7, <1>10, <2>1 DEF MysqlInv, Exclusive
  <2> QED
    BY <1>2, <2>2, <2>3 DEF MysqlInv, Exclusive
<1>12. created' \subseteq Connections
  BY <1>1 DEF MysqlInv, CreatedInv
<1>13. PoolInv'
  <2>1. connections_' \in Seq(Connections) /\ connections_' # <<>>
    BY <1>3, <1>5, <1>12
  <2>2. \A t \in Threads : pc[t] \notin Critical
    BY <1>2, NobodyElse
  <2> QED
    BY <1>2, <2>1, <2>2
       DEF MysqlInv, PoolInv, PoolTypes, HeldInUse, TakeFindsConnection, BlockSeesEmpty, StopInv, At,
           Critical
<1>14. CheckerInv'
  BY <1>2, <1>3, <1>5 DEF MysqlInv, CheckerInv
<1>15. CreatedInv'
  BY <1>1, <1>2, <1>5, <1>12 DEF MysqlInv, CreatedInv
<1>16. NoneLost'
  BY <1>1, <1>2, <1>9 DEF MysqlInv, NoneLost, InUse
<1>17. /\ Cardinality(created') = Cardinality(created) + 1
       /\ Cardinality(created' \ Initial) = Cardinality(created \ Initial) + 1
       /\ Cardinality(created \ Initial) \in Nat
  <2>1. IsFiniteSet(created) /\ new \notin created
    BY <1>1, ConnectionSets DEF MysqlInv, CreatedInv
  <2>2. created \ Initial \in SUBSET Connections /\ new \notin created \ Initial
    BY <1>1 DEF MysqlInv, CreatedInv
  <2>3. IsFiniteSet(created \ Initial) /\ Cardinality(created \ Initial) \in Nat
    BY <2>2, ConnectionSets
  <2>4. created' \ Initial = (created \ Initial) \cup {new}
    BY <1>1 DEF MysqlInv, CreatedInv
  <2> QED
    BY <1>1, <2>1, <2>2, <2>3, <2>4, FS_AddElement
<1>18. Creates'
  <2> DEFINE most == Cardinality(Initial) * 2 ^ checks
             most2 == Cardinality(Initial) * 2 ^ checks'
  <2>1. most2 = most /\ most \in Nat /\ Cardinality(created) + toCheck <= most
    BY <1>2, MostCreated DEF MysqlInv, Creates
  <2>2. Cardinality(created) \in Nat
    BY MostCreated
  <2> HIDE DEF most, most2
  <2>3. Cardinality(created') + toCheck' <= most2
    BY <1>2, <1>3, <1>17, <2>1, <2>2
  <2> QED
    BY <2>3 DEF Creates, most2
<1>19. UnnoticedAreNew'
  <2>1. Awake' = Awake /\ Waiters' = Waiters
    BY <1>2 DEF Awake, Waiters, At
  <2>2. Cardinality(Awake) \in Nat
    <3>1. Awake \in SUBSET Threads
      BY DEF Awake, At
    <3> QED
      BY <3>1, ThreadSets
  <2> QED
    BY <1>2, <1>3, <1>5, <1>17, <2>1, <2>2 DEF MysqlInv, UnnoticedAreNew
<1> QED
  BY <1>11, <1>13, <1>14, <1>15, <1>16, <1>18, <1>19 DEF MysqlInv

\* The round begins and ends, the process dies in it.
LEMMA RoundPreserves ==
  ASSUME MysqlInv, CheckEnter \/ CheckLeave \/ ReplaceThrows
  PROVE  MysqlInv'
<1> USE MysqlAssumption, ThreadsAssumption
<1>1. /\ UNCHANGED <<connections_, stop_, pc, held, closer, idle, dead, found, created>>
      /\ \A t \in Threads : mutex_ = t <=> mutex_' = t
  <2>1. CASE CheckEnter
    BY <2>1 DEF CheckEnter, Lock, vars
  <2>2. CASE CheckLeave
    BY <2>2 DEF CheckLeave, Unlock, mysqlVars
  <2>3. CASE ReplaceThrows
    BY <2>3 DEF ReplaceThrows, vars
  <2> QED
    BY <2>1, <2>2, <2>3
<1>2. PoolInv' /\ Exclusive'
  BY <1>1
     DEF MysqlInv, PoolInv, PoolTypes, HeldInUse, TakeFindsConnection, BlockSeesEmpty, StopInv, At,
         Critical, Exclusive
<1>3. Len(connections_) \in Nat
  BY DEF MysqlInv, PoolInv, PoolTypes
<1>4. CheckerInv'
  <2>1. CASE CheckEnter
    BY <1>1, <1>3, <2>1 DEF MysqlInv, CheckerInv, CheckEnter, Lock, vars
  <2>2. CASE CheckLeave
    BY <1>1, <1>3, <2>2 DEF MysqlInv, CheckerInv, CheckLeave, Unlock, mysqlVars
  <2>3. CASE ReplaceThrows
    BY <1>1, <1>3, <2>3 DEF MysqlInv, CheckerInv, ReplaceThrows, Checking, vars
  <2> QED
    BY <2>1, <2>2, <2>3
<1>5. CreatedInv' /\ NoneLost' /\ UnnoticedAreNew'
  BY <1>1 DEF MysqlInv, CreatedInv, NoneLost, InQueue, InUse, UnnoticedAreNew, Waiters, Awake, At
<1>6. Creates'
  <2>1. CASE CheckEnter
    <3>1. checks' = checks + 1 /\ toCheck' = Len(connections_) /\ toCheck = 0
      BY <2>1 DEF CheckEnter, Lock, MysqlInv, CheckerInv
    <3>2. Len(connections_) <= Cardinality(created)
      BY FitsCreated DEF MysqlInv
    <3> DEFINE most == Cardinality(Initial) * 2 ^ checks
               most2 == Cardinality(Initial) * 2 ^ (checks + 1)
    <3>3. most \in Nat /\ most2 = 2 * most /\ Cardinality(created) \in Nat
      BY MostCreated
    <3>4. Cardinality(created) + 0 <= most
      BY <3>1 DEF MysqlInv, Creates
    <3> HIDE DEF most, most2
    <3>5. Cardinality(created) + Len(connections_) <= most2
      BY <1>3, <3>2, <3>3, <3>4
    <3> QED
      BY <1>1, <3>1, <3>5 DEF Creates, most2
  <2>2. CASE CheckLeave \/ ReplaceThrows
    BY <2>2 DEF CheckLeave, ReplaceThrows, mysqlVars, MysqlInv, Creates
  <2> QED
    BY <2>1, <2>2
<1> QED
  BY <1>2, <1>4, <1>5, <1>6 DEF MysqlInv


-----------------------------------------------------------------------------
(* The theorems about the MySQL pool *)

\* The constructor puts every initial connection into the queue, none twice.
LEMMA InitMysqlInv == MysqlInit => MysqlInv
<1> SUFFICES ASSUME MysqlInit PROVE MysqlInv
  OBVIOUS
<1> USE MysqlAssumption DEF MysqlInit
<1> DEFINE n == Cardinality(Initial)
<1>1. IsFiniteSet(Initial) /\ n \in Nat
  BY ConnectionSets
<1>2. connections_ \in Injection(1 .. n, Initial)
  BY DEF Injection, IsInjective
<1>3. Cardinality(1 .. n) = n
  BY <1>1, FS_Interval
<1>4. connections_ \in Surjection(1 .. n, Initial)
  BY <1>1, <1>2, <1>3, FS_Injection
<1>5. InQueue = Initial
  <2>1. /\ connections_ \in [1 .. n -> Initial]
        /\ \A c \in Initial : \E i \in 1 .. n : connections_[i] = c
    BY <1>4 DEF Surjection
  <2> QED
    BY <2>1 DEF InQueue
<1>6. connections_ \in Seq(Initial)
  BY <1>1, <1>2, SeqDef DEF Injection
<1>7. connections_ \in Seq(Connections) /\ Len(connections_) \in Nat
  BY <1>6
<1>8. PoolInv
  BY <1>7, ThreadsAssumption
     DEF PoolInv, PoolTypes, HeldInUse, TakeFindsConnection, BlockSeesEmpty, StopInv, Places,
         Critical, At
<1>9. Exclusive
  <2>1. \A i \in DOMAIN connections_ : connections_[i] \in Connections
    BY <1>7
  <2> QED
    BY <2>1, ConnectionsAssumption DEF Exclusive
<1>10. CheckerInv
  BY <1>7 DEF CheckerInv
<1>11. CreatedInv
  BY <1>6 DEF CreatedInv
<1>12. NoneLost
  BY <1>5 DEF NoneLost, InUse
<1>13. Creates
  <2>1. n * 2 ^ checks = n
    <3>1. 2 ^ checks = 1
      BY Doubling
    <3> HIDE DEF n
    <3> QED
      BY <1>1, <3>1
  <2> QED
    BY <1>1, <2>1 DEF Creates
<1>14. UnnoticedAreNew
  BY DEF UnnoticedAreNew, Waiters, At
<1> QED
  BY <1>8, <1>9, <1>10, <1>11, <1>12, <1>13, <1>14 DEF MysqlInv

\* Every step of the pool, of time, of the database and of the checking thread
\* preserves the invariant.
LEMMA NextMysqlInv == MysqlInv /\ [MysqlNext]_allVars => MysqlInv'
<1> SUFFICES ASSUME MysqlInv, [MysqlNext]_allVars PROVE MysqlInv'
  OBVIOUS
<1>1. ASSUME NEW c \in Connections, Age(c) \/ Die(c)
      PROVE  MysqlInv'
  <2>1. /\ UNCHANGED <<connections_, stop_, mutex_, pc, held, closer, created, toCheck, checks>>
        /\ idle' \subseteq created /\ dead' \subseteq created /\ found' \subseteq dead'
    BY <1>1 DEF Age, Die, vars, MysqlInv, CreatedInv
  <2>2. PoolInv' /\ Exclusive'
    BY <2>1 DEF MysqlInv, PoolInv, PoolTypes, HeldInUse, TakeFindsConnection, BlockSeesEmpty, StopInv, At,
                Critical, Exclusive
  <2>3. CheckerInv' /\ NoneLost'
    BY <2>1 DEF MysqlInv, CheckerInv, NoneLost, InQueue, InUse
  <2>4. CreatedInv'
    BY <2>1 DEF MysqlInv, CreatedInv
  <2>6. Creates'
    BY <2>1 DEF MysqlInv, Creates
  <2>5. UnnoticedAreNew'
    BY <2>1 DEF MysqlInv, UnnoticedAreNew, Waiters, Awake, At
  <2> QED
    BY <2>2, <2>3, <2>4, <2>5, <2>6 DEF MysqlInv
<1>2. CASE UNCHANGED allVars
  BY <1>2
     DEF allVars, mysqlVars, vars, MysqlInv, PoolInv, PoolTypes, HeldInUse, TakeFindsConnection,
         BlockSeesEmpty, StopInv, At, Exclusive, CheckerInv, CreatedInv, NoneLost, InQueue, InUse,
         Creates, UnnoticedAreNew, Waiters, Awake
<1>3. CASE CheckConnection
  BY <1>3, KeepPreserves, ReplacePreserves, RoundPreserves DEF CheckConnection
<1>4. CASE PoolStep
  BY <1>4, PoolStepPreserves
<1> QED
  BY <1>1, <1>2, <1>3, <1>4 DEF MysqlNext

\* MysqlInv holds in every state of the pool with its checking thread.
THEOREM MysqlInvariant == MysqlSpec => []MysqlInv
BY InitMysqlInv, NextMysqlInv, PTL DEF MysqlSpec

\* The variables have their types, and the connections that CheckConnection is
\* going to visit are in the queue.
THEOREM MysqlTyped == MysqlSpec => []MysqlTypeOK
<1>1. MysqlInv => MysqlTypeOK
  BY DEF MysqlInv, CheckerInv, CreatedInv, PoolInv, PoolTypes, MysqlTypeOK
<1> QED
  BY <1>1, MysqlInvariant, PTL

\* No MySQL session is ever with two threads or with a thread and in the queue,
\* whatever the checking thread puts there.
THEOREM MysqlExclusive == MysqlSpec => []Exclusive
<1>1. MysqlInv => Exclusive
  BY DEF MysqlInv
<1> QED
  BY <1>1, MysqlInvariant, PTL

\* An open pool loses no connection, and every round of CheckConnection at most
\* doubles what was created.
THEOREM MysqlPoolIsKept == MysqlSpec => []PoolIsKept
<1>1. MysqlInv => PoolIsKept
  <2> SUFFICES ASSUME MysqlInv PROVE AtMostDoubles
    BY DEF MysqlInv, PoolIsKept
  <2> DEFINE most == Cardinality(Initial) * 2 ^ checks
  <2>1. most \in Nat /\ Cardinality(created) \in Nat /\ toCheck \in Nat
    BY MostCreated DEF MysqlInv, CheckerInv, PoolInv, PoolTypes
  <2>2. Cardinality(created) + toCheck <= most
    BY DEF MysqlInv, Creates
  <2> HIDE DEF most
  <2>3. Cardinality(created) <= most
    BY <2>1, <2>2
  <2> QED
    BY <2>3 DEF AtMostDoubles, most
<1> QED
  BY <1>1, MysqlInvariant, PTL

\* The connections that CheckConnection adds without notify_one are the only ones
\* that may lie idle beside a sleeping thread.
THEOREM MysqlWakeups == MysqlSpec => []UnnoticedAreNew
<1>1. MysqlInv => UnnoticedAreNew
  BY DEF MysqlInv
<1> QED
  BY <1>1, MysqlInvariant, PTL
=============================================================================
