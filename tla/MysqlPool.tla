----------------------------- MODULE MysqlPool ------------------------------
(***************************************************************************)
(* The MySQL connection pool: the ConnectionPool, whose steps this module  *)
(* takes over, with a thread that looks after idle connections.            *)
(*                                                                         *)
(* CheckConnection holds mutex_ from beginning to end and takes every      *)
(* connection that was in the queue out and puts it back, by a Defer, also *)
(* when the connection has died and a new one has been put in its place,   *)
(* and also when the new one cannot be created: then the exception leaves  *)
(* the thread and the process ends.                                        *)
(***************************************************************************)
EXTENDS ConnectionPool, TLC

CONSTANTS
  Initial,  \* the connections of the constructor; the others are created later
  Checker,  \* the checking thread, as the owner of mutex_
  MaxChecks \* bound on the rounds of the checking thread

ASSUME MysqlAssumption ==
  /\ Initial \subseteq Connections
  /\ Checker \notin Threads \cup {NoThread}
  /\ MaxChecks \in Nat

VARIABLES
  idle,    \* connections whose last_use_time_ is 60 s ago or more
  dead,    \* connections that the database server has given up
  found,   \* connections that a probe found dead
  created, \* connections that exist or have existed
  toCheck, \* how many the loop of CheckConnection has before it
  checks,  \* rounds so far
  crashed  \* std::terminate was called

mysqlVars == <<idle, dead, found, created, toCheck, checks, crashed>>

allVars == <<vars, mysqlVars>>

MysqlInit ==
  /\ connections_ \in {s \in [1 .. Cardinality(Initial) -> Initial] :
                         \A i, j \in DOMAIN s : s[i] = s[j] => i = j}
  /\ stop_ = FALSE
  /\ mutex_ = NoThread
  /\ pc = [t \in Threads |-> "idle"]
  /\ held = [t \in Threads |-> NoConnection]
  /\ closer = "open"
  /\ idle = {}
  /\ dead = {}
  /\ found = {}
  /\ created = Initial
  /\ toCheck = 0
  /\ checks = 0
  /\ crashed = FALSE

\* A thread sets last_use_time_ before it gives its connection back.
GivesBack(t) == pc[t] = "use" /\ pc'[t] # "use"

PoolStep ==
  /\ ~ crashed
  /\ Next
  /\ idle' = idle \ {held[t] : t \in {u \in Threads : GivesBack(u)}}
  /\ UNCHANGED <<dead, found, created, toCheck, checks, crashed>>

\* 60 s pass since last_use_time_.
Age(c) ==
  /\ ~ crashed
  /\ c \in created \ idle
  /\ idle' = idle \cup {c}
  /\ UNCHANGED <<vars, dead, found, created, toCheck, checks, crashed>>

\* The database server closes a connection, or restarts.
Die(c) ==
  /\ ~ crashed
  /\ c \in created \ dead
  /\ dead' = dead \cup {c}
  /\ UNCHANGED <<vars, idle, found, created, toCheck, checks, crashed>>

-----------------------------------------------------------------------------
(* CheckConnection *)

\* Mutant: the size is taken before the lock.
CheckEnterUnlocked ==
  /\ ~ crashed
  /\ closer # "destroyed"
  /\ checks < MaxChecks
  /\ Lock(Checker)
  /\ checks' = checks + 1
  /\ toCheck' \in Len(connections_) .. Cardinality(created)
  /\ UNCHANGED <<connections_, stop_, pc, held, closer, idle, dead, found, created, crashed>>

\* The thread looks at stop_ before it sleeps, not after: a round may begin on
\* a pool that has been closed.
CheckEnter ==
  /\ ~ crashed
  /\ closer # "destroyed"
  /\ checks < MaxChecks
  /\ Lock(Checker)
  /\ checks' = checks + 1
  /\ toCheck' = Len(connections_)
  /\ UNCHANGED <<connections_, stop_, pc, held, closer, idle, dead, found, created, crashed>>

Checking == ~ crashed /\ mutex_ = Checker /\ toCheck > 0

Front == Head(connections_)

\* Mutant: continue before the Defer, so that the connection is not put back.
KeepFreshNot ==
  /\ Checking
  /\ Front \notin idle
  /\ connections_' = Tail(connections_)
  /\ toCheck' = toCheck - 1
  /\ UNCHANGED <<stop_, mutex_, pc, held, closer, idle, dead, found, created, checks, crashed>>

KeepFresh ==
  /\ Checking
  /\ Front \notin idle
  /\ connections_' = Append(Tail(connections_), Front)
  /\ toCheck' = toCheck - 1
  /\ UNCHANGED <<stop_, mutex_, pc, held, closer, idle, dead, found, created, checks, crashed>>

KeepAlive ==
  /\ Checking
  /\ Front \in idle \ dead
  /\ connections_' = Append(Tail(connections_), Front)
  /\ idle' = idle \ {Front}
  /\ toCheck' = toCheck - 1
  /\ UNCHANGED <<stop_, mutex_, pc, held, closer, dead, found, created, checks, crashed>>

\* The probe failed: the new connection is pushed in the handler of the
\* exception, the old one by the Defer after it.
Replace ==
  /\ Checking
  /\ Front \in idle \cap dead
  /\ found' = found \cup {Front}
  /\ \E new \in Connections \ created :
       /\ connections_' = Append(Append(Tail(connections_), new), Front)
       /\ created' = created \cup {new}
  /\ toCheck' = toCheck - 1
  /\ UNCHANGED <<stop_, mutex_, pc, held, closer, idle, dead, checks, crashed>>

\* CreateConnection throws in that handler, and nothing catches it.
ReplaceThrows ==
  /\ Checking
  /\ Front \in idle \cap dead
  /\ crashed' = TRUE
  /\ UNCHANGED <<vars, idle, dead, found, created, toCheck, checks>>

CheckLeave ==
  /\ ~ crashed
  /\ toCheck = 0
  /\ Unlock(Checker)
  /\ UNCHANGED <<connections_, stop_, pc, held, closer, mysqlVars>>

CheckConnection ==
  CheckEnter \/ KeepFresh \/ KeepAlive \/ Replace \/ ReplaceThrows \/ CheckLeave

MysqlNext ==
  \/ PoolStep
  \/ \E c \in Connections : Age(c) \/ Die(c)
  \/ CheckConnection

MysqlSpec == MysqlInit /\ [][MysqlNext]_allVars

-----------------------------------------------------------------------------
(* Properties *)

InQueue == {connections_[i] : i \in DOMAIN connections_}

InUse == {held[t] : t \in Threads} \ {NoConnection}

\* The variables have their types, the lock has one owner, and the checking
\* thread always finds the connections that it is going to visit.
MysqlTypeOK ==
  /\ connections_ \in Seq(created)
  /\ created \subseteq Connections
  /\ idle \subseteq created
  /\ dead \subseteq created
  /\ found \subseteq dead
  /\ mutex_ \in Threads \cup {NoThread, Checker}
  /\ toCheck \in 0 .. Len(connections_)
  /\ \A t \in Threads : pc[t] \in Critical <=> mutex_ = t

\* Until the pool is closed it loses none of the connections ever created, so
\* it never has fewer than it was constructed with.
NoneLost == ~ stop_ => InQueue \cup InUse = created

\* What a dead database costs: a round adds at most one connection for each
\* that the pool had, so the pool at most doubles in a round.
AtMostDoubles ==
  Cardinality(created) <= Cardinality(Initial) * 2 ^ checks

\* What the pool has created, between the least and the most it can be.
PoolIsKept == NoneLost /\ AtMostDoubles

\* CheckConnection does not notify for the connections it adds, so a waiting
\* thread may sleep beside an idle one, but only one thread for each.
UnnoticedAreNew ==
  ~ stop_ /\ Waiters # {} =>
    Len(connections_) <= Cardinality(Awake) + Cardinality(created \ Initial)

\* Refuted: "防止连接超时" (mysql_pool.h): the checking thread keeps the pool
\* from handing out connections that have timed out.  Between two rounds the
\* queue holds none that a probe has found dead.
FoundDeadAreGone == mutex_ # Checker => InQueue \cap found = {}

\* Sound for the invariants: connections are alike if both exist at the
\* beginning or neither does.
Symmetry ==
  Permutations(Threads) \cup Permutations(Initial) \cup Permutations(Connections \ Initial)
=============================================================================
