--------------------------- MODULE ConnectionPool ---------------------------
(***************************************************************************)
(* The connection pool that every server of the chat back end uses for its *)
(* MySQL, Redis and gRPC connections: the class template ConnectionPool of *)
(* common/connection_pool.h, whose text RedisConnectionPool repeats.       *)
(*                                                                         *)
(* The pool is a queue guarded by a mutex and a condition variable.  Each  *)
(* critical section is cut where another thread can see the difference:    *)
(* Close() takes no lock, so its two writes may fall between the predicate *)
(* of the wait and the wait itself.                                        *)
(***************************************************************************)
EXTENDS Naturals, Sequences, FiniteSets

CONSTANTS
  Threads,      \* threads that call GetConnection and ReturnConnection
  Connections,  \* connections the constructor of a derived pool creates
  NoThread,     \* mutex_ is free
  NoConnection  \* the thread holds no connection

ASSUME ThreadsAssumption ==
  /\ IsFiniteSet(Threads)
  /\ NoThread \notin Threads

ASSUME ConnectionsAssumption ==
  /\ IsFiniteSet(Connections)
  /\ NoConnection \notin Connections

VARIABLES
  connections_, \* the queue of idle connections
  stop_,        \* the atomic flag
  mutex_,       \* owner of the mutex
  pc,           \* where each thread is
  held,         \* the connection each thread has taken
  closer        \* progress of the one thread that calls Close

vars == <<connections_, stop_, mutex_, pc, held, closer>>

(***************************************************************************)
(* "idle"  outside the pool      "check" about to evaluate the predicate   *)
(* "block" predicate was false   "wait"  blocked on cond_                  *)
(* "wake"  notified, mutex_ not yet reacquired                             *)
(* "take"  predicate was true    "use"   owns a connection                 *)
(* "push"  inside ReturnConnection, stop_ was seen false                   *)
(***************************************************************************)
Places == {"idle", "check", "block", "wait", "wake", "take", "use", "push"}

Critical == {"check", "block", "take", "push"}

At(place) == {t \in Threads : pc[t] = place}

Waiters == At("wait")

Awake == At("wake") \cup At("check") \cup At("take")

Goto(t, from, to) == pc[t] = from /\ pc' = [pc EXCEPT ![t] = to]

\* Every derived pool fills the queue in its constructor.
Init ==
  /\ connections_ \in {s \in [1 .. Cardinality(Connections) -> Connections] :
                         \A i, j \in DOMAIN s : s[i] = s[j] => i = j}
  /\ stop_ = FALSE
  /\ mutex_ = NoThread
  /\ pc = [t \in Threads |-> "idle"]
  /\ held = [t \in Threads |-> NoConnection]
  /\ closer = "open"

-----------------------------------------------------------------------------
(* GetConnection *)

Lock(t) == mutex_ = NoThread /\ mutex_' = t

Unlock(t) == mutex_ = t /\ mutex_' = NoThread

EnterGet(t) ==
  /\ closer # "destroyed"
  /\ Goto(t, "idle", "check")
  /\ Lock(t)
  /\ UNCHANGED <<connections_, stop_, held, closer>>

\* Mutant: the wait forgets that the pool may be stopped.
PredicateIgnoringStop == connections_ # <<>>

Predicate == connections_ # <<>> \/ stop_

EvaluatePredicate(t) ==
  /\ Goto(t, "check", IF Predicate THEN "take" ELSE "block")
  /\ UNCHANGED <<connections_, stop_, mutex_, held, closer>>

\* Mutant: a wait that keeps the mutex.
WaitKeepingLock(t) ==
  /\ Goto(t, "block", "wait")
  /\ UNCHANGED <<connections_, stop_, mutex_, held, closer>>

\* cond_.wait releases mutex_ and starts to wait in one step.
Wait(t) ==
  /\ Goto(t, "block", "wait")
  /\ Unlock(t)
  /\ UNCHANGED <<connections_, stop_, held, closer>>

SpuriousWake(t) ==
  /\ Goto(t, "wait", "wake")
  /\ UNCHANGED <<connections_, stop_, mutex_, held, closer>>

\* Mutant: IF in place of WHILE, the predicate is not evaluated again.
ReacquireWithoutRecheck(t) ==
  /\ Goto(t, "wake", "take")
  /\ Lock(t)
  /\ UNCHANGED <<connections_, stop_, held, closer>>

\* The wait with a predicate is a loop: a woken thread evaluates it again.
Reacquire(t) ==
  /\ Goto(t, "wake", "check")
  /\ Lock(t)
  /\ UNCHANGED <<connections_, stop_, held, closer>>

GetNothing(t) ==
  /\ Goto(t, "take", "idle")
  /\ stop_
  /\ Unlock(t)
  /\ UNCHANGED <<connections_, stop_, held, closer>>

\* Mutant: the front is copied and stays in the queue.
GetFrontWithoutPop(t) ==
  /\ Goto(t, "take", "use")
  /\ ~ stop_
  /\ held' = [held EXCEPT ![t] = Head(connections_)]
  /\ Unlock(t)
  /\ UNCHANGED <<connections_, stop_, closer>>

\* Mutant: a stopped pool hands out what it still has.
GetFrontOfStopped(t) ==
  /\ Goto(t, "take", "use")
  /\ connections_ # <<>>
  /\ held' = [held EXCEPT ![t] = Head(connections_)]
  /\ connections_' = Tail(connections_)
  /\ Unlock(t)
  /\ UNCHANGED <<stop_, closer>>

GetFront(t) ==
  /\ Goto(t, "take", "use")
  /\ ~ stop_
  /\ held' = [held EXCEPT ![t] = Head(connections_)]
  /\ connections_' = Tail(connections_)
  /\ Unlock(t)
  /\ UNCHANGED <<stop_, closer>>

-----------------------------------------------------------------------------
(* ReturnConnection *)

\* On a stopped pool the caller's connection is not moved from: it is
\* destroyed by its owner.
ReturnToStopped(t) ==
  /\ Goto(t, "use", "idle")
  /\ mutex_ = NoThread
  /\ stop_
  /\ held' = [held EXCEPT ![t] = NoConnection]
  /\ UNCHANGED <<connections_, stop_, mutex_, closer>>

EnterReturn(t) ==
  /\ Goto(t, "use", "push")
  /\ ~ stop_
  /\ Lock(t)
  /\ UNCHANGED <<connections_, stop_, held, closer>>

\* Mutant: notify only when the queue was empty, as LogicSystem does.
PcAfterPushToEmpty(t) ==
  LET back == [pc EXCEPT ![t] = "idle"]
  IN  IF Waiters = {} \/ connections_ # <<>> THEN {back}
      ELSE {[back EXCEPT ![w] = "wake"] : w \in Waiters}

\* notify_one wakes one of the waiters, if there is one.
PcAfterPush(t) ==
  LET back == [pc EXCEPT ![t] = "idle"]
  IN  IF Waiters = {} THEN {back}
      ELSE {[back EXCEPT ![w] = "wake"] : w \in Waiters}

Push(t) ==
  /\ pc[t] = "push"
  /\ connections_' = Append(connections_, held[t])
  /\ held' = [held EXCEPT ![t] = NoConnection]
  /\ pc' \in PcAfterPush(t)
  /\ Unlock(t)
  /\ UNCHANGED <<stop_, closer>>

-----------------------------------------------------------------------------
(* Close, without mutex_ *)

CloseStop ==
  /\ closer = "open"
  /\ closer' = "stopped"
  /\ stop_' = TRUE
  /\ UNCHANGED <<connections_, mutex_, pc, held>>

\* Mutant: Close only sets the flag.
CloseSilently ==
  /\ closer = "stopped"
  /\ closer' = "closed"
  /\ UNCHANGED <<connections_, stop_, mutex_, pc, held>>

CloseNotifyAll ==
  /\ closer = "stopped"
  /\ closer' = "closed"
  /\ pc' = [t \in Threads |-> IF t \in Waiters THEN "wake" ELSE pc[t]]
  /\ UNCHANGED <<connections_, stop_, mutex_, held>>

\* ~ConnectionPool may only run when no thread is in or owns anything of the
\* pool; it drains the queue.
Destroy ==
  /\ closer = "closed"
  /\ mutex_ = NoThread
  /\ \A t \in Threads : pc[t] = "idle"
  /\ closer' = "destroyed"
  /\ connections_' = <<>>
  /\ UNCHANGED <<stop_, mutex_, pc, held>>

\* The thread that has the mutex runs on.
InCritical(t) ==
  \/ EvaluatePredicate(t)
  \/ Wait(t)
  \/ GetNothing(t)
  \/ GetFront(t)
  \/ Push(t)

Return(t) == ReturnToStopped(t) \/ EnterReturn(t)

ThreadStep(t) ==
  \/ EnterGet(t)
  \/ SpuriousWake(t)
  \/ Reacquire(t)
  \/ Return(t)
  \/ InCritical(t)

Next ==
  \/ \E t \in Threads : ThreadStep(t)
  \/ CloseStop
  \/ CloseNotifyAll
  \/ Destroy

(***************************************************************************)
(* A thread inside a critical section runs on; a lock that is free again   *)
(* and again is obtained; a call over a connection returns.  Nothing makes *)
(* a thread ask for a connection, and no wake-up comes by itself.          *)
(***************************************************************************)
Fairness ==
  /\ WF_vars(CloseNotifyAll)
  /\ \A t \in Threads :
       /\ WF_vars(InCritical(t))
       /\ SF_vars(Reacquire(t))
       /\ SF_vars(Return(t))

Spec == Init /\ [][Next]_vars

FairSpec == Spec /\ Fairness

-----------------------------------------------------------------------------
(* Properties *)

\* The variables have their types, and the critical sections exclude one another.
TypeOK ==
  /\ connections_ \in Seq(Connections)
  /\ stop_ \in BOOLEAN
  /\ mutex_ \in Threads \cup {NoThread}
  /\ pc \in [Threads -> Places]
  /\ held \in [Threads -> Connections \cup {NoConnection}]
  /\ closer \in {"open", "stopped", "closed", "destroyed"}
  /\ \A t \in Threads : pc[t] \in Critical <=> mutex_ = t

\* A connection is never in two hands: it is in the queue at most once, or
\* with one thread, so no two requests share a MySQL session or a Redis context.
Exclusive ==
  /\ \A i, j \in DOMAIN connections_ : connections_[i] = connections_[j] => i = j
  /\ \A t \in Threads : \A i \in DOMAIN connections_ : held[t] # connections_[i]
  /\ \A t, u \in Threads : held[t] = held[u] /\ held[t] # NoConnection => t = u

\* A thread past the predicate finds a connection to take, however many
\* threads were woken and whoever came in between: front() is never called
\* on an empty queue.
TakeFindsConnection ==
  \A t \in At("take") : stop_ \/ connections_ # <<>>

\* While threads wait on an open pool, every idle connection has a thread
\* that is awake and on its way to it: one notify_one per returned
\* connection is enough and no wake-up is lost between users of the pool.
NoLostWakeup ==
  ~ stop_ /\ Waiters # {} => Len(connections_) <= Cardinality(Awake)

\* Close() stores stop_ and notifies without mutex_, so a thread that
\* evaluated the predicate just before may sleep through it; only the one
\* thread that had the mutex can be caught that way.
AtMostOneMissesClose ==
  closer = "closed" => Cardinality(Waiters \cup At("block")) <= 1

\* Once the pool is closed, a thread that is awake in GetConnection leaves it
\* (with nothing), whatever the other threads do.
AwakeLeavesClosedPool ==
  \A t \in Threads : (closer = "closed" /\ t \in Awake) ~> (pc[t] = "idle")

\* If connections are idle while threads wait on an open pool, that does not
\* last: the queue is taken down or the waiters leave or the pool is closed.
IdleConnectionsAreTaken ==
  (connections_ # <<>> /\ Waiters # {})
    ~> (connections_ = <<>> \/ Waiters = {} \/ stop_)

-----------------------------------------------------------------------------
(* The promise to the users of the pool *)

Idle == {connections_[i] : i \in DOMAIN connections_}

Users == INSTANCE ConnectionLease WITH free <- Idle, lessee <- held, shut <- stop_

\* GetConnection, ReturnConnection, Close and the destructor, cut into their
\* steps and interleaved, look to the users like steps of ConnectionLease: no
\* connection is leased twice, none is leased after Close, none disappears
\* before it.
ImplementsLease == Users!LeaseSpec
=============================================================================
