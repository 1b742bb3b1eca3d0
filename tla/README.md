# Formal models of pycstl

TLA+ models, TLC runs and TLAPS proofs for this repository: the chat back end and its client
(`src/chat`), the concurrency library (`src/concurrency`), the coroutine runtime (`src/co_async`),
the little database (`src/tiny_db`), the session library (`src/network`), the Monkey interpreter
(`src/monkey`), the container templates (`src/pycstl`), Tetris and the games (`src/tetris`,
`src/sdl2`, `src/sdl3`).

## 1. Inventory

### Chat back end (`src/chat/server`, `src/common`)

Four kinds of processes. A client registers and logs in at the **gate server** (HTTP), which asks
the **verify server** (node.js) for e-mail codes and the **status server** for a chat server and a
token, and then talks TCP to one of the **chat servers**. The processes share Redis (codes, tokens,
login counts, the server each user is on, cached user records) and MySQL (users, friend
applications, friendships); chat servers call one another over gRPC to hand a message to a user of
another server.

| part | state it keeps | operations | what makes it correct |
|---|---|---|---|
| connection pool (`common/connection_pool.h`, `redis_connection_pool.cpp`) | queue of connections, `stop_`, mutex, condition variable | GetConnection, ReturnConnection, Close, destructor | a connection has one user at a time; no wake-up is lost; Close lets everybody go |
| MySQL pool (`mysql_pool.cpp`) | the same, plus the age of each connection and a checking thread | CheckConnection every 60 s | the pool keeps its size and its live connections |
| TCP server and sessions (`cserver.cpp`, `csession.cpp`) | `sessions_` by session id; per session: closed flag, `user_id_`, send queue | accept, read head, read body, write, Close, ClearSession | a closed session is forgotten; a message is sent once, in order |
| logic system (`chat_server/src/logic_system.cpp`) | message queue, `is_stop_`, one worker thread | PostMsgToQueue, DealMsg, the five handlers, destructor | every posted message is handled once, in order, by one thread; the destructor returns |
| user manager (`user_mgr.cpp`) | `sessions_` by user id | GetSession, SetUserSession, RemoveUserSeesion | a user who is logged in and connected can be reached |
| peer calls (`chat_grpc_client.cpp`, `chat_service_impl.cpp`) | a pool of stubs per peer | NotifyAddFriend, NotifyAuthFriend, NotifyTextChatMsg | a message for a user reaches the session he is on |
| gate (`gate_server`) | none of its own | get_varify_code, user_register, reset_pwd, user_login | an account needs a code sent to its e-mail; an error is answered as an error |
| verify server (`verify_server/*.js`) | none of its own (codes in Redis) | GetVerifyCode | one valid code per e-mail |
| status server (`status_service_impl.cpp`) | none of its own | GetChatServer, Login | the least loaded server; the token that was stored |
| SQL schema (`mysql/sql`, `mysql_mgr.cpp`) | user, user_id, friend, friend_apply | reg_user, AddFriendAppply, AuthFriendApply, AddFriend | names and e-mails are unique; friendship is symmetric; an accepted application is a friendship |

### Concurrency library (`src/concurrency`)

| part | state | operations | what makes it correct |
|---|---|---|---|
| circular queues (light, sync, lock, seq) | ring of N+1 slots, atomic indexes | Push, Pop | first in first out, nothing lost or seen twice |
| lock-free stacks (plain, hazard pointers, reference counts) | linked nodes, reclamation state | Push, Pop | linearizable; a node is freed once, after its last reader |
| lock-free queue | linked nodes with split reference counts | Emplace, Pop | as above |
| locked queues, stack, list, hash table | nodes, one or several mutexes | push, pop, steal, for-each, remove-if | no lost wake-up, no deadlock, no stale node |
| channel | bounded queue, closed flag, two condition variables | Send, Receive, Close | a bounded queue in Go's sense |
| thread pools (simple, plain, work stealing) | task queues, stop flag | Commit, worker, Stop, Start | every committed task runs once; Stop returns |
| interruptible thread, parallel algorithms, sorter, spin lock | flags and futures | interrupt, wait, find, sort | an interrupt is seen; a promise is set once |

### Other parts

| part | state | what makes it correct |
|---|---|---|
| coroutine runtime (`src/co_async`) | timer loop (two indexes over timers), when_all, when_any, tasks | a timer fires once, a waiting coroutine is resumed once, nothing destroyed is resumed |
| little database (`src/tiny_db`) | a B+ tree of pages, 3 children to a node, and a file | keys stay sorted, parents and children point at each other, a split loses nothing |
| network library (`src/network`) | sessions, framing, send queues, the logic system the chat server grew from | messages are what was sent however the stream is cut; what was started can be stopped |
| chat client (`src/chat/client`) | friends and messages in UserMgr, copies of them in the dialogs, the framing of TcpMgr | the dialogs show and send what their handlers were told |
| Monkey (`src/monkey`) | lexer, parser, evaluator; compiler, symbol tables, stack and frames of the VM | a line means to the VM what it means to the evaluator; a line parses as it was meant |
| container templates (`src/pycstl`) | raw memory and the elements in it, owners of a pointer | every element is constructed once and destroyed once; the container is a sequence |
| Tetris (`src/tetris`) | the field and the piece, used by two threads | the piece is where the field has room, cells are those of locked pieces |
| sunny_land, ghost_escape (`src/sdl3`), shooter, chicken_evil (`src/sdl2`) | stack of scenes, objects, physics, input, saved files | scores and health are true, scenes fit, files are read back |

### Not modelled

Within the parts that are modelled: a call of the detached thread of CheckConnection after the pool
was destroyed (`mysql_pool.cpp:43`); the limit of 100 hazard pointers, past which a Pop throws
(`hazard_pointer_stack.h:32`); the interruptible wait without a predicate, which is one sleep of a
millisecond (`interruptible_thread.cpp:14`); a typed text that spells a url, or HTML markup in one,
in the search for pictures.

Start-up, configuration and the io threads of the servers (the io threads appear as the interleaving
of the sessions), the logger, build and start scripts, the SQL queries that only fill a reply,
`http_connection.cpp`, `thread_safe_list.h` (the walk of the list that is modelled over one link
instead of two), ParallelForEach (its threads share nothing), `array`, `optional`, `variant` and
`function` of pycstl (one value, or a fixed number of them), the notepad, all drawing and sound, the
exercises (`src/cpp20_stl`, `src/design_pattern`, `src/hello_world`), tests, examples and
`third_party`.

## 2. Modules

```
ConnectionLease        what a pool promises its users (abstract)
   ^ implemented by
ConnectionPool  <---- MysqlPool            (adds the checking thread)     PoolProofs
LogicQueue  <--+
SendQueue   <--+----- ServerPipeline       (request -> queue -> handler -> send queue)  QueueProofs
ChatServer             servers, sessions, users, Redis, peers             ChatServerProofs
Accounts   <-+ MCAccounts                  (codes, registration, logins)  AccountProofs
Friendship <-+                             (applications, two transactions)

LinkedStack <-- LockFreeStack, HazardPointerStack
ThreadPool, ThreadSafeQueue, CircularQueue, LockFreeQueue                 QueueProofs
RefCountStack  LockFreeQueue  CircularQueue  ThreadSafeQueue
LockedContainers  Channel  Database  ContainerTemplates  Tetris      <-- MCContainers
ThreadPool  InterruptFlag  ParallelAlgorithms  CoTimers
ClientDialogs  SunnyWorld                                            <-- MCThreads
MonkeyEvaluator <-- MonkeySession, MonkeyParser
NetworkSession  ChatClient  RedisMgr  SunnyScenes  SunnyEngine
GhostEscape  Arcade                                                  <-- MCPrograms
```

Modules of the second half are machines over two variables, `obj` (the object) and `th` (where its
threads are), so that one instance can run many of them: MCContainers, MCThreads and MCPrograms
choose a `part` in the initial state, and a behaviour is one of that part. Their properties are
conjunctions of implications `part = "..." => property of the module`.

### ConnectionPool, ConnectionLease

`connections_`, `stop_`, `mutex_` are the members of the class; `pc` says where each thread is.
`GetConnection` is cut into EnterGet (lock), EvaluatePredicate, Wait (unlock and sleep in one step,
as `std::condition_variable` promises), Reacquire, then GetNothing or GetFront; `ReturnConnection`
into ReturnToStopped or EnterReturn and Push, whose `notify_one` picks any waiter. A thread may also
wake for no reason. `Close` takes no lock, so its write and its notification are two free steps that
may fall between the predicate and the wait. Destroy needs that no thread is inside.
`RedisConnectionPool` is the same text without the template.

ConnectionLease has neither queue nor lock: a connection is free or leased, and a shut pool leases
nothing. `ImplementsLease` maps the queue to the set of free connections, `held` to the lessees and
`stop_` to `shut`.

### MysqlPool

All steps of ConnectionPool, and the thread that runs `CheckConnection` once a minute while it holds
the mutex: CheckEnter reads the size once; each turn of the loop is KeepFresh (used within the
minute), KeepAlive (the probe succeeds), Replace (it throws) or ReplaceThrows (so does
`CreateConnection`, and the process ends). Age and Die are the clock and the database server. The
Defer of line 82 is part of every turn: the connection taken out is always put back.

### LogicQueue

`LogicSystem` of the chat server and of `src/network`. `PostMsgToQueue` is one step, because it
holds the mutex from beginning to end; the worker's loop is Lock, Test, Wait, Relock, Branch,
Handle, Drain, Exit; the destructor is Stop, Notify, Join. `is_stop_` is a plain bool written
without the mutex: the race is between its old and its new value. `posted`, `handled` and `atStop`
are history.

### SendQueue

`CSession::Send` and `HandleWrite` (and `Session` of `src/network`). A node is the number of the
call that sent it. `writes` are the `async_write` operations that have not called back: flying, done
or failed. Send starts a write only if the queue was empty, HandleWritten pops and writes the next,
HandleFailed only closes.

### ServerPipeline

LogicQueue and SendQueue composed: a session reads and posts, the handler calls Send, other handlers
and peers put notifications into the same send queue. `answers` records which request each call of
Send answers.

### ChatServer

Servers with an acceptor, an io thread per session, a worker and gRPC threads; sessions used once;
users; the Redis hash of login counts and the keys that name a user's server. Accept starts the
session before Emplace puts it into `sessions_`, as in the code. A Close is a look-up without the
lock (which may race and miss), RemoveUserSession by the *user id of the session*, and EraseSession.
The handlers are cut at each access to shared state: LoginBind (HINCRBY, SetUserId), LoginIp (the
server's name goes to Redis), LoginMap (SetUserSession), LookupServer, FindSession and SendNotify,
here or at the peer. JustReply stands for every path that changes nothing: invalid input, unknown
users, Redis and database errors, SearchInfo. The replies of all handlers are sent by their Defer,
before the message is popped. A Restart of a server loses its memory and sets its login count to 0,
as `main` does, or fails to; Redis keeps the names. RemoveUserSession is one step, though it reads
the id of the session and then erases the user's entry (`cserver.cpp:28`): a login between the two
maps its user later than either. A session may post after its Close, when the read was complete
before a write failed. Input on which `.value()` or `std::stoi` throws (`logic_system.cpp:169`,
`242`, `253`, `284`) ends the process: that is a Restart.

LoginAnnounced (a part of RedisCoversLogins) asks more than that the name be one of some login: it is
that of the *last* login, whatever closed or died before; or of one such that all later logins are on
other servers, one on each, each of which was under way when that one stored its name (LastButRaced:
two workers store names in the order of Redis and map sessions in theirs); or of a login that is
between LoginIp and LoginMap, or whose server died there (`cut`).

The memory of `user_id_` before a login is not initialised by the code: Accept chooses it from the
constant `Garbage`.

### Accounts

The verify server answers calls of GetVerifyCode: query the code, set one, give it its expiry, read
it back, mail it. It is one thread, but other calls run at every await, so an action reaches from
one await to the next, and each command may fail, carried out or not: a code whose set was carried
out and then failed (`redis.js:52`) has no expiry and no mail. The gate's requests compare the code
and then run `reg_user` statement by statement (the look at names and e-mails, `user_id` under its
row lock, the insert) or change a password. A login asks the status server, which reads the counts
of the servers one by one, chooses the least, and stores a token; the client connects while that
chat server runs (Connect), which compares the token (CheckToken, which also refuses when Redis or
the look-up of the user fails) and adds one to its count (CountLogin, where HINCRBY may fail
unnoticed). A count that is not there is NoCount, for which the code has INT_MAX. Start resets the
count of a server or fails to, Stop is the signal, after which the count is deleted or not while the
worker still handles what is queued, and Die the end of the process at any moment. Nothing ever
takes a login back when its session ends. CountsItsOwnLogins says what the count is nevertheless
good for: while a server runs whose reset succeeded, it counts logins of this process only, and all
but those whose HINCRBY failed. `overlap`, the records of calls and forms and, in a login, `stored`,
`moved`, `reset`, `counted` and `fault` are history.

### Friendship

`friend_apply` and `friend` as sets of pairs; a worker per chat server handles AddFriendApply and
AuthFriendApply, whose two updates commit by themselves and whose two inserts are a transaction with
row locks. Any statement may answer with an error, and an autocommitted one or a COMMIT whose answer
is lost may have been carried out; a transaction that fails rolls back, and the acceptance stays. End
is the end of a chat server inside a handler, between the two transactions as well. `broken` is the
history of acceptances that ended so.

### RedisMgr

Every command as the words of its text, with the test of its reply, over connections that go through
outages: one on which an error occurred goes back to the pool and is refused by hiredis for ever.
The cache of user records (`GetBaseInfo`) is a Get, a query and a Set by two workers.

### Lock-free structures and locked containers

* **LinkedStack** is what LockFreeStack (list of pending nodes, counter of threads in Pop) and
  HazardPointerStack share. **RefCountStack** swaps a node together with a count. One step is one
  access to a shared atomic or to a node another thread may reach. A freed node is not reused; a
  read of one is what MemorySafe forbids.
* **LockFreeQueue** has split counts at head, tail and node, and pushers that help one another.
* **CircularQueue** counts its indices up and compares them modulo the capacity, as the code's swaps
  do; a swap that succeeds on an index that has gone round shows as `lapped`.
* **ThreadSafeQueue** is the list with a mutex at each end, with its destructor, which frees each
  node that is left twice (`thread_safe_queue.h:35`); **Channel** the bounded queue with two
  condition variables; **LockedContainers** the hash table, the two locked rings, the stack and the
  simple queue, and the list that takes a lock for a node: FindFirstIf and RemoveIf go on with the
  node they hold, ForEach unlocks a node and then reads the pointer in it again
  (`double_push_list.h:94`), which another thread may have freed, cleared or changed in the meantime
  (Strays, GoOn). `crowd` is the history of threads in whose walk others changed the list: only they
  may go astray.
* **Database** is the B+ tree of pages: insertion with both kinds of split, search, `.exit`.
* **ContainerTemplates**: a slot or a node is raw memory or holds an element; each operation
  constructs, assigns, destroys and frees as the templates do, beside the sequence that a container
  of the standard library would hold. Unset is a vector made with an allocator only (`vector.h:30`),
  whose members are whatever the memory held.
* **Tetris**: the thread that runs the frames and the one that reads keys, once between the frames
  and once at any time.

### Threads, coroutines, dialogs

* **ThreadPool** has both pools: Commit, the workers, Stop; and a queue for each worker with
  stealing. **InterruptFlag** is the interruptible thread with its three waits: on a
  condition_variable_any, with a predicate, and for a future, each with a thread that interrupts.
  **ParallelAlgorithms** is ParallelFind (blocks, `found`, the promise) and the sorter (a stack of
  chunks; DoSort calls itself, so a thread is a stack of frames).
* **CoTimers**: when_all and when_any over tasks that sleep and return or throw.
* **ClientDialogs**: labels, chat lists and pages with search and applications, the text edit, the
  forms before the login: four machines, one step a handler. ToHtml is what `toHtml` does to an
  ampersand in a url; a button for codes disables itself only in the register form and only by the
  mouse (`timer_btn.cpp:23`, `reset_dialog.ui:178`).
* **SunnyWorld**: a frame of a level, physics, states of the player, enemies.

### Programs

* **MonkeyEvaluator** is the evaluator over trees, recursive; **MonkeySession** the REPL: compiler
  and VM, an instruction a step, next to the evaluator on the same lines; **MonkeyParser** enters a
  line with and without a slip of the keys and parses it, and prints the tree.
* **NetworkSession**: acceptor, sessions with framing and send queues, the worker, stopping.
  **ChatClient**: login, the connection and its framing, friends, texts and the chat dialog, with
  login answers that are no JSON and notifications without texts.
* **SunnyScenes** (stack of scenes and its one pending request, saves, health), **SunnyEngine**
  (input and menus, objects and their bodies, loading of levels; what a touched enemy does depends on
  how it was touched, which is left open), **GhostEscape**, **Arcade**
  (shooter and chicken_evil).

## 3. Runs

| run | instance | what it shows |
|---|---|---|
| `pool` | ConnectionPool, fair: 4 threads, 2 connections, with Close and destruction | no connection has two users (Exclusive); a thread past the predicate finds a connection (TakeFindsConnection); one `notify_one` per return loses no wake-up (NoLostWakeup); one thread at most misses Close (AtMostOneMissesClose), the awake ones leave (AwakeLeavesClosedPool), idle connections are taken (IdleConnectionsAreTaken); ConnectionLease is implemented (ImplementsLease) |
| `mysql_check` | MysqlPool: 4 threads, 2 connections and 3 that may be created, one round | a round loses and doubles no connection and at most doubles the pool (PoolIsKept); only connections added without a notification lie beside a sleeper (UnnoticedAreNew) |
| `mysql_dead` | the same | **violated** (FoundDeadAreGone): a connection found dead is handed out again |
| `pipeline` | ServerPipeline: 3 posts, 1 notification, 4 sends, capacity 1, with failing writes, Close and Stop anywhere | handled once and in order, also while draining (HandledInOrder, StopLosesNothing); the worker never sleeps beside a message; one write at a time, of the front, in order, nothing stranded (WritesTheFront, WireInOrder, NoneStranded); each request answered once, in the order of the requests (RepliesAnswerRequests); a queue is served (QueueIsServed) |
| `queue_stop` | LogicQueue: 2 posts | **violated** (StopIsSeen): the destructor may wait for ever |
| `chat_safety` | 2 servers, 2 sessions, 2 users, 3 messages, a restart | messages reach only sessions that showed the user's token (OnlyToTheUser); requests are answered in order (AnsweredInOrder); the maps hold the latest login (MapHoldsLatestLogin); Redis names the server of the user's last login but for races and deaths in the middle of one, and its count covers the open sessions (RedisCoversLogins); what a close may leave behind, and when (ClosedLeavesNothing) |
| `chat_answers` | 2 servers, 2 users who write to each other, 4 messages, a restart, fair | handlers that call one another's servers never wait for each other for ever (AllAnswered) |
| `chat_close_binding` | 1 server, 1 user on 2 sessions | **violated** (CloseEndsOwnBinding): closing an old session unmaps the new one |
| `accounts` | MCAccounts: parts `registration`, `login`, `friendship` | what a mailed code, a row, an answer at the gate mean whatever overlaps (RegistrationInv); friendship is mutual and accepted (FriendshipInv); codes overwritten, passwords reset, tokens refused and servers chosen only for the reasons named, and counts that count the logins of a process (AccountSteps) |
| `containers` | MCContainers: parts `ring`, `pending`, `hazard`, `counted`, `queue`, `locked`, `channel`, `list`, `locks`, `tree`, `stored`, `templates`, `blocks`, `race` | no freed node is used, no slot misused (MemorySafe); popped nodes are freed or wait where they will be found (Reclaimed); a stack, queue, tree, table, vector or field holds what was put (HoldsWhatWasPut); nobody sleeps on what is there (NoneSleepsInVain) |
| `threads` | MCThreads: `pool`, `steal`, `interrupt`, `parallel`, `co`, `labels`, `chat`, `edit`, `forms`, `climbs`, `enemies`, `frogs` | tasks once and in order, searches and sorts right, dialogs and bodies as the handlers say (WorkIsServed); an interrupt during a wait with a predicate is kept and thrown when it holds, no wait returns early (WorkIsServed); coroutines resumed once and alive (CoroutinesAreServed); under fairness committed tasks are run and interrupts end all three waits (WorkIsDone) |
| `programs` | MCPrograms: `monkey`, `repl`, `parser`, `network`, `logins`, `notified`, `texts`, `batches`, `redis`, `cache`, `scenes`, `ui`, `stage`, `lost`, `loader`, `ghosts`, `buttons`, `shooter`, `board`, `ranks`, `chicken` | VM and evaluator agree, lines parse as meant, lists, results and scores are true (ShowsWhatIsThere); frames, answers, tokens and scenes keep their order (StaysInOrder); a program fails only for the reasons named (FailsOnlyAsKnown) |

Many properties of the last three runs name the exact condition under which the code goes wrong
(DeadOnlyIfOdd, QueueUnlessLapped, CrashNeedsRace, SleepsOnItemOnlyIfMissed, GivesUpLate,
LifetimesAsKnown, OutageIsFinal, OnlyEarlyStopsStay): section 5 says what goes wrong then.

### Bounds

* *Threads and connections of the pool.* Four threads and two connections give two users, a waiter
  and a newcomer who competes with the woken waiter, and two waiters at once with one that misses
  Close. The theorems cover every number.
* *Posts and capacity.* The worker is one; three posts fill the queue while it handles, find it
  empty while it sleeps and are drained after a stop. A capacity of 1 is exceeded by two nodes, so
  refusal happens. The theorems about both queues cover every number of posts and every capacity.
* *Rounds of the check.* One round over two connections; it may find both dead, and three
  connections may be created. A round starts from any state of the pool. The theorems cover every
  number of rounds.
* *Chat servers.* Two servers are a server and its peer. Two sessions give a new login beside an old
  one on the same server or on the other one, and a close in between; two users are needed for a
  session that logs in twice and for calls in both directions. Three messages are two logins and a
  message that uses them; `chat_answers` has four: one login and one message from each side, so that
  each worker can be inside a call to the other. `RedisFails` is `{FALSE}` in the runs:
  RedisCoversLogins says what holds if Redis does not fail. The other theorems cover failures as
  well. `Garbage` is the first user in `chat_safety`. Each has one restart, at any moment: of a
  server with logins, in the middle of one, or of the peer that a handler is calling; one suffices
  to leave a name in Redis, and the theorems cover every number.
* *Accounts.* Servers start, stop and die any number of times. Two e-mails, names and calls, three
  requests (two that race and one before or after); two accounts, servers and three logins; two
  people, two workers, three requests. The theorems cover every number.
* *Containers.* Three threads give two that race and one that overtakes both; the channel has four,
  two senders and two receivers. Three nodes (four in the queue, whose last is empty) and three pops
  let a node be taken, freed and missed. A ring of one element goes round in three pushes. Channels
  hold 0, 1 or 2. The tree splits its leaves at two keys and its inner pages at three children, so
  six keys split the root twice; five keys for the tree that is also stored and opened again. Four
  calls, two values and two buckets for the locked containers;
  vectors of two elements that grow; a field of 5 by 4 cells with two pieces for Tetris, 4 by 4 for
  its race.
* *Threads.* One worker and two committers with three tasks; three workers that steal two; arrays of
  up to 6 on 3 processors, sorting up to 3 elements; two coroutines that await two tasks each.
  Levels of 5 by 5 tiles with a ladder, a slope, a platform, a pit and thorns.
* *Programs.* Two lines of Monkey, each construct with operands of each kind, or four lines from a
  small set; stacks of 8, 4 frames, words that hold 10 so that their limits are met. One slip in a
  line. Streams of up to three messages, cut anywhere (`network`, `logins`) or in
  whole messages. One or two threads over Redis with one
  outage. Names of up to four letters, two places in a leader board and four games to fill it.

Symmetry (threads, nodes, sessions, and the model values of accounts and chat servers) is used only
in runs whose properties are invariants or action properties. `CHECK_DEADLOCK FALSE` is set because
every system here may stop: a pool is destroyed, a logic system joined, clients owe nothing, threads
have made their calls.

### Fairness

A thread in a critical section runs on, and so do the worker, the destructor, the acceptor and a
Close that has begun: weak fairness, since nothing disables their steps but themselves. A thread
that wants a mutex that is free again and again gets it: strong fairness of Reacquire and Return,
which the scheduler of the operating system gives in practice and the waiters of a pool rely on;
Return also says that a call over a connection returns. In `chat_answers` the worker of a server,
the acceptor between start and Emplace, and a Close that has begun are weakly fair. In `threads` the
same is said of a worker, of a Commit that has begun (Enqueue, NotifyOne), of Stop's NotifyAll, of
the owner of a stolen queue (Push, Thief(0)) and of a thread that is on its way into a wait or
interrupts one. Nothing is assumed of clients, of the network, of the kernel's writes, of spurious
wake-ups and of calls to peers that fail: gRPC calls have no deadline in this code.

## 4. Proofs

All for every value of the constants, as far as the named ASSUMEs say: finite sets of threads,
connections and logins, names distinct from "nobody", bounds that are naturals. Each inductive
invariant was first checked by TLC on the instance of its run.

* **PoolProofs, ConnectionPool.** `PoolInv` is inductive: types with the exclusion of critical
  sections, TakeFindsConnection, and three facts the code relies on in silence: a thread holds a
  connection exactly between GetFront and Push (HeldInUse), one about to sleep saw an empty queue
  and has kept the mutex since (BlockSeesEmpty), `stop_` is the word of Close (StopInv). Upon it:
  - `ConnectionsAreExclusive`: by the positions of the queue after Head, Tail and Append.
  - `WakeupsSuffice` counts the awake threads. A push adds one connection and, if anybody waits, one
    awake thread; a take removes one of each; a thread that goes to sleep saw no connection.
  - `CloseIsMissedByOne`: after the notification, those that still sleep or go to sleep are the
    owner of the mutex at that moment (SleepersAreOne).
  - `PoolImplementsLease`: GetFront is Lease, Push is GiveBack, ReturnToStopped is Drop, CloseStop
    is Shut, Destroy is Discard, all else stutters. Exclusive is what makes `Idle \ {c}` the queue
    after `pop`.
* **PoolProofs, MysqlPool.** The lemmas about the pool are stated for any owner of `mutex_`, so they
  hold beside the checking thread too. `MysqlInv` adds where the checker is, that all connections
  are ones that were created, and that each turn of the loop creates at most one (`Creates`, a bound
  on created connections plus turns to come). Hence `MysqlExclusive`, `MysqlPoolIsKept` (nothing is
  lost; after n rounds at most 2^n times as many connections) and `MysqlWakeups`: only what the
  checker adds can lie beside a sleeper.
* **QueueProofs.** `QueueInv` adds to the checked invariants that a worker about to sleep has seen
  an empty queue while it holds the mutex, that one past the wait has a message or the stop, and
  that only a stopped worker drains. Hence NeverSleepsOnMessage although a post notifies only at
  size 1, and StopLosesNothing. The invariant of the send queue says with `Unwritten` exactly where
  the wire is: what was accepted is what was written followed by the queue, less its front between
  the kernel's completion and the callback.
* **QueueProofs, ServerPipeline.** Every step of the pipeline is a step or a stutter of each part
  (`PipelineImplementsParts`, fairness of the worker included), so the theorems about the parts hold
  of the pipeline without another induction. `PipelineReplies` needs one of its own: each handled
  request has one answer, and the answers are in the order of the requests.
* **ChatServerProofs.** `ChatInv` adds to the checked invariants what handlers rely on between their
  accesses: what is queued was posted by its session and in its order, a handler in the middle of a
  login holds the session that showed the token (HandlersKnow), a mapped session has logged in on
  that server (Mapped), a session that is not in `sessions_` was started before Emplace or closed
  (Unmapped). One lemma for each conjunct and group of actions. RedisCovers assumes that
  Redis does not fail; its invariant follows the last login of each user through LoginIp and LoginMap
  of all the workers and the deaths of servers.
* **AccountProofs.** Three inductive invariants. `VerifyInv`: a code in Redis was made by a call
  that is past its set; two calls in flight overlap; one that sets saw no code or could not ask.
  `GateInv`, relative to it: rows are numbered by the lock of `user_id`, a request has seen the rows
  up to `seen` and none of them bears its name or e-mail, a row was made with a code mailed to its
  e-mail. `LoginInv`: a stored token is there until a later login of the account replaces it
  (TokensHold); the count of a server is the number of logins counted since it was last reset or
  deleted (CountsHold), and while it runs after a reset, all that it has accepted are among them or
  had a failing HINCRBY (ServesHold); what a login has read differs from the counts by what moved or
  was reset since (ReadsHold). The action properties (`OverwritesAreRaced`,
  `ResetsAreOwn`, `RefusedTokensAreLost`, `LeastIsChosen`) follow from them step by step;
  `AccountStepsHold` is their conjunction, as the run checks it.
* **AccountProofs, Friendship.** `FrInd` adds the shape of the workers, that a locked row is one its
  worker has inserted, and that it inserts only what was accepted; one lemma for each action, the
  end of a server included. `FriendshipHolds` adds that a success which a client was told is final.
* **Channel.** `ChannelInv` replaces the property about sleeping senders by one that is inductive:
  if a sender sleeps, every free place has a sender that is awake (PlacesAreFilled), as each element
  has a receiver (ElementsAreFetched). The counting needs finitely many threads, nothing about the
  capacity.
* **RefCountStack.** MemorySafe is not inductive: that nobody frees a node too early follows only
  from what the two counts add up to. `CountInv` says it for each node, by where the node is: absent
  (not made, or freed, and held by nobody), pushed (one thread is about to link it), stacked (the
  pointer to it counts one for itself, one for each holder and one for each that has counted itself
  out in `dec`), unlinked (the same, with the pointer in the hands of the thread that settles it) or
  settled (`dec` is the number of holders, and at least one). With it: the nodes of the stack are
  distinct and linked in order, each thread in Pop knows the `next` of its node if the head is
  unchanged. One lemma for each kind of step (count in, unlink, count out). MemorySafe, NoLeak and
  LinkedAsStack follow, for any finite set of threads and any nodes; TLC had checked `CountInv` as
  an invariant.
* **HazardPointerStack.** MemorySafe is about a thread's view of one node; `HpInv` says where every
  node is. A live node is in exactly one place (NodeHolds): in the stack, on the list to reclaim, on
  the list that a thread goes through, or in the hands of the thread that pushes it or has popped
  it. A thread that has announced a node and found it to be the head guards it until its swap
  (NodeIsGuarded): the node is not freed, and a thread that examines it has the announcer still
  among those whose pointer it must read (`left`), since the announcement came before the node was
  popped, thus before the scan began. So a scan that has read all hazard pointers and met none may
  free the node. Without the check of the head after the announcement the scan may have passed
  already, which is the mutant of the run. LinkedAsStack, NoneMislaid and CrashNeedsRace follow
  from the same invariant, for any sets of threads and nodes, the null pointer not being a node.
* **LockFreeStack.** `LfInv` has the same places, and the counter instead of the scan: `inPop` is the
  number of threads in Pop and of the pops of an empty stack that never uncounted themselves
  (EmptyPopsStayCounted). A thread that has swapped the head and sees `inPop = 1` has the node for
  itself: nobody who read it from the head is still before its own swap. That is what NodeIsGuarded
  says, since a Pop that begins later no longer finds the node (Retires). The taken pending list is
  freed only if `inPop` is still 1 when the thread uncounts itself, so that whoever has read one of
  its nodes would be counted, and is chained back otherwise. The counting needs finitely many
  threads. MemorySafe, LinkedAsStack, NoneMislaid and EmptyPopsStayCounted follow.
* **QueueProofs, ThreadPool.** `PoolInv` has what the notifications give: while a worker sleeps and
  the pool is not stopped, there are no more tasks than notifications still to be sent and workers
  about to test (TasksAreFetched). It rests on SleeperHasMutex: between its test and its sleep a
  worker keeps every Commit out. The destructor writes `stop_` without the mutex, so that its
  notification can find one worker in that gap, and no more, for the same reason.
* **QueueProofs, stealing.** `StealInv`: every task that was committed is with its Commit, at one
  place of one queue, or run (EachTaskOnce), and the three add up (TasksAddUp, by counting the
  places of the queues that are filled). It holds whatever the stop flag does. Popping at the front
  and stealing at the back are the two cases of one lemma.
* **QueueProofs, ThreadSafeQueue.** `ListInv` ties each mutex to the places of its holder. The
  notification is sent under the other mutex than the one of the wait, so the count is weaker than
  the pool's: only beside a waiter that no notification missed are there no more items than threads
  at work on one (ItemsAreFetched). The destructor runs when nobody is inside: if each node was freed
  once, all that was put in was taken (FreedIsEmpty). When nobody is at work, that is the property.
* **QueueProofs, CircularQueue.** `RingInv` says what a thread may rely on as long as the index it
  read is still the present one (RingKnows): a producer that there is room, though `head_` was
  compared modulo the capacity, since an index is never more than a round ahead; a consumer that
  there is an element, and then that it has copied it. Reserved indices are distinct
  (WritersApart), less than a round apart, so their cells are too (CellsApart): a write harms
  no element, and `tail_update_` passes only what is written.
* **QueueProofs, LockFreeQueue.** `FqInv` gives the nodes positions in the order in which they were
  linked, and names for each node the thread that moved the head from it and the one that moved the
  tail, until they settle its counts. `external` counts the ends that have not passed the node or
  whose mover has not settled; the threads that hold it are `internal` plus what the ends and the
  unsettled movers have counted (FqCounts). So the counts come to nothing only when the last thread
  leaves, and then the node is freed. The head does not pass the tail, a thread that counted itself
  in at an end knows on which side of that end its node is (FqKnows), and a node that is not linked
  is the spare of one pusher or deleted (FqOwners), helpers included. The positions and movers are
  bound by `\E`, not state: a step of Link gives the new node its position, a swap of an end names
  the mover, Settle unnames it. LinkedMemorySafe and LinkedNoLeak follow, for any finite set of
  threads and any nodes; TLC had checked `FqInv` with positions and movers as variables.
* Lemmas stated once: what Append, `\o`, Head and Tail do to "what is behind, followed by what is
  ahead" (queues), what EXCEPT does to the records of calls, forms and logins (accounts, channel),
  cardinalities of sets of threads that gain or lose one.

Only model-checked: all liveness (AllAnswered, QueueIsServed, AwakeLeavesClosedPool,
IdleConnectionsAreTaken, WorkIsDone), since fairness and ENABLED are beyond the prover; the
properties of `containers`, `threads` and `programs` except those of the channel, the three
lock-free stacks, the ring, the two-mutex queue and the thread pools, and the memory safety of the
lock-free queue. FifoButLost of that queue is left to TLC: it compares a sequence without the lost
values (SelectSeq) with what was popped, which needs induction; Monkey's evaluator, parser and
compiler, the tree and the sorter are recursive over data, which the prover cannot induct over.
Their machines are sequential or have small state, and the runs enumerate their inputs.

## 5. Where code and comments disagree

Three runs expect a violation:

* `chat_close_binding`: `ClearSession` (`cserver.cpp:28`) removes the mapping of the *user id*. When
  a user has logged in again on a second session of the same server, closing the first one unmaps
  the second, and the user gets no more messages though connected. A session that never logged in
  removes whoever's id its memory holds.
* `queue_stop`: `~LogicSystem` (`logic_system.cpp:24`) writes the flag and notifies without the
  mutex. Both may fall between the worker's test and its sleep; `join` then never returns. `Close`
  of the pool has the same window, where AtMostOneMissesClose is the limit.
* `mysql_dead`: when the probe of a connection throws, its replacement is pushed in the handler and
  the Defer pushes the dead connection too (`mysql_pool.cpp:95`, `:82`).

Seen while modelling; the properties of the other runs hold because they name these cases:

*Servers.* The send queue holds one node more than `kMaxSendQueue`. An exception of
`CreateConnection` in the checking thread ends the process. A dead connection that is used every
minute is never probed: a failing use refreshes its time too. The login count of a server is never
taken back when a session ends, a killed server's stays until its next start, and a failing HINCRBY
is not noticed. The gate's deadline is not renewed (`http_connection.h:37`).
RedisMgr: an outage is final for the connections it met, and with no connection at start
GetConnection waits for ever; a value of several words is refused by SET and HSET, and LPush pushes
each word; Del and Exists of two words count 2, which is taken as a failure; "%" is an unfilled
directive; so records with a space are never cached, and cached records are never refreshed. A
failed result may have been carried out. Network library: a session that ends before it is in the
map stays in it (`server.cpp:21`); an empty message waits for bytes that do not come; malformed JSON
ends the process.

*Concurrency library.* A ring can be lapped between the read and the swap of an index. A Pop of the
empty LockFreeStack never reclaims. HazardPointerStack dereferences null when another thread empties
it between two reads. LockFreeQueue can lose a push. ThreadSafeQueue and ThreadPool's stop notify
without the mutex that the waiter tests under. ParallelFind computes `last` early and may set its
promise twice. The sorter changes `threads_` without a lock (`sorter.h:50`), a started thread sorts
one chunk, and `hardware_concurrency() - 1` wraps at 0. ForEach of both locked lists uses a pointer
in a node that it has unlocked (`double_push_list.h:94`, `thread_safe_list.h:77`).
`~ThreadSafeQueue` frees the same node again and again if the queue is not empty
(`thread_safe_queue.h:35`). CircularQueueSeq and CircularQueueLock never destroy the moved-from
element; pushing at the front of the empty doubly linked list leaves a stale tail. Of two timers of
equal time the second is not inserted and the first may be deleted in its place
(`timer_loop.cpp:15`); when_all and when_any can be resumed while they still start tasks. A wait
with a predicate sees an interrupt only when the predicate holds (`interruptible_thread.h:121`), a
channel of capacity 0 takes an element that nobody asked for (`channel.h:22`).

*Database.* A split of an inner page tells only its last child of the new parent (`table.cpp:185`),
the first split writes a junk parent, and a third level ends the process in the middle of an
insertion.

*Monkey.* VM and evaluator differ where a block leaves no value, values of two types are compared or
one that is no Boolean negated, keys of a hash repeat, a local is read before it is set, `return`
stands outside a function, calls nest deeply, operands are wider than their bytes, and after a line
that failed (`repl.cpp:89`). `let x = ;` dereferences null (`parser.cpp:113`), an integer out of
range is an uncaught exception (`parser.cpp:176`), unclosed blocks are accepted, pairs of a hash are
ordered by addresses, a printed tree does not always parse back.

*Chat client.* Of several heads read at once some are dropped (`tcp_mgr.cpp:31`); the first text of
a friend is kept twice and a stranger's dereferences null (`chat_dialog.cpp:444`), and of a list
without texts the front is read (`chat_dialog.cpp:423`); friends notified live are doubled
(`user_mgr.cpp:28`); the login button stays disabled (`login_dialog.cpp:112`); `buffer_` is stale
after a reconnection; limits count characters or bytes by turns (`chat_page.cpp:62`); an application
that arrives live cannot be accepted from the list; a search can stay pending for ever
(`tcp_mgr.cpp:136`) or be deleted twice (`search_list.cpp:69`); labels use an iterator after its
erase (`apply_friend_dialog.cpp:291`) and are never sent; pictures are matched by insertion and
substring of the HTML, where an ampersand reads `&amp;`, so that an object whose url has one is
dropped (`message_text_edit.cpp:30`); a code can be asked for again at once in the reset form, and
by a key in the other (`timer_btn.cpp:23`); an answer of an earlier form is taken for the present
one.

*pycstl.* `empty()` of Vector and List is inverted; Vector's constructor from an allocator leaves its
members uninitialised (`vector.h:30`); Vector's `reserve` does not destroy; the
assignment of an initializer list and inserting an own element use what was moved; moving an empty
List (`list.h:198`) and the results of insert and splice. `shared_ptr.h`: the copy assignment does
not compile, `:128` reads a freed node, casts of an empty pointer dereference null, `ptr_` is
uninitialised (`:52`), arrays are deleted with `delete`.

*Tetris.* The swap from hold keeps the turn and may put the piece outside the field; Hold while a
piece locks; both threads move the same piece; Reset races with Lock; help covers "Game Over!".

*Games.* sunny_land: one pending request, so one of two is lost; damage of objects never reaches the
session; a player killed in the frame of an exit enters the next level; a high score is lost at
Menu, quit; tiles are tested at two corners, so a body larger than a tile enters one; the bounds of
the world set no flag (`patrol_behavior.cpp:41`); events of one poll overwrite one another
(`input_manager.cpp:35`); pairs of destroyed objects are still handled (`game_scene.cpp:92`); a
dropped object's body stays registered (`level_loader.cpp:257`); polygons throw
(`level_loader.cpp:154`). ghost_escape: a release triggers a button that was not pressed
(`hud_button.cpp:33`), a failed save loses the best score. shooter: names with a space break the
board (`game.cpp:276`), a failing start saves an empty one (`game.cpp:23`), Escape loses a score.
chicken_evil: clean and destroy run twice, the engine is captured by reference (`engine.cpp:48`), a
Timer fires at most once an update.

## 6. Plan

Done: the servers and their pools, queues, accounts and friendships, and of the concurrency library
the channel, the three lock-free stacks, the ring, the two-mutex queue, the thread pools and the
memory of the lock-free queue, proved for every instance; all other parts that share or keep state,
model-checked. Left: RedisMgr's ConnectionsComeBack and OutageIsFinal, NetworkSession's
FramesAreKept.
