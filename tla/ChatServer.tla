----------------------------- MODULE ChatServer -----------------------------
(***************************************************************************)
(* The chat servers: TCP sessions, the worker thread of LogicSystem with   *)
(* its handlers, the map from users to sessions, and the two Redis records *)
(* by which servers find one another's users.                              *)
(*                                                                         *)
(* Threads: on each server one acceptor, an io thread per session (two     *)
(* sessions of one io_context only have fewer interleavings), one worker,  *)
(* and the gRPC threads that serve the peers.  The worker holds the mutex  *)
(* of the message queue while it runs a handler, so nothing is posted      *)
(* meanwhile.  Every access to state that another thread can see is a step *)
(* of its own.                                                             *)
(*                                                                         *)
(* A server may die and be started again; nothing it kept in memory is     *)
(* left, what Redis holds stays.                                           *)
(***************************************************************************)
EXTENDS Naturals, Sequences, FiniteSets, SequencesExt

CONSTANTS
  Servers,      \* the chat servers, peers of one another
  Sessions,     \* TCP connections, each used once
  Users,        \* user ids
  Messages,     \* the messages that the client of each session may send
  NoServer, NoSession, NoUser,
  Patient,      \* sessions whose clients do not hang up
  Garbage,      \* what the memory of user_id_ may hold before a login
  RedisFails,   \* values of "a Redis command fails" to consider
  MaxPosts,     \* bound on the messages read from all sessions
  MaxRestarts   \* bound on restarts of servers

NotifyKinds == {"add_friend", "auth_friend", "text"}

\* The messages that have a handler.
Kinds == {"login", "search"} \cup NotifyKinds

\* valid: the body parses, the token is the stored one and the users exist.
MessageType ==
  [kind : Kinds, uid : Users, valid : BOOLEAN] \cup [kind : {"unhandled"}]

ASSUME ChatServerAssumption ==
  /\ IsFiniteSet(Servers) /\ IsFiniteSet(Sessions)
  /\ NoServer \notin Servers
  /\ NoSession \notin Sessions
  /\ NoUser \notin Users
  /\ Messages \in [Sessions -> SUBSET MessageType]
  /\ Patient \subseteq Sessions
  /\ Garbage \subseteq Users \cup {NoUser}
  /\ RedisFails \subseteq BOOLEAN
  /\ MaxPosts \in Nat /\ MaxRestarts \in Nat

VARIABLES
  (* CSession *)
  home,       \* the server that accepted the session
  userId,     \* user_id_, not initialised by the constructor
  closing,    \* progress of Close: is_closed_ is set unless it is "no"
  (* CServer *)
  acceptor,   \* the session that runs already and is not in sessions_ yet
  sessions,   \* sessions_ of each server
  (* UserMgr *)
  userMgr,    \* sessions_ of each server's UserMgr
  (* LogicSystem *)
  queue,      \* msg_queue_
  worker,     \* the step of the handler that runs, and what it has looked up
  (* Redis *)
  uip,        \* the server a user logged in on
  loginCount, \* logins per server
  (* what the clients see *)
  posted,     \* messages read from each session
  replies,    \* replies put into each session's send queue, by the number
              \* of the message that each one answers
  notified,   \* users whose notifications were put into it
  (* history *)
  logins,     \* sessions that logged in as each user, in order
  early,      \* sessions that Close did not find in sessions_
  late,       \* sessions that logged in when already closed
  cut,        \* the server that died between storing its name for a user and
              \* mapping him, if no name has been stored for him since
  restarts

sessionVars == <<home, userId, closing>>
serverVars  == <<acceptor, sessions>>
logicVars   == <<queue, worker>>
redisVars   == <<uip, loginCount>>
clientVars  == <<posted, replies, notified>>
history     == <<logins, early, late, cut>>

vars == <<sessionVars, serverVars, userMgr, logicVars, redisVars, clientVars,
          history, restarts>>

Idle == [step |-> "idle"]

Init ==
  /\ home = [s \in Sessions |-> NoServer]
  /\ userId = [s \in Sessions |-> NoUser]
  /\ closing = [s \in Sessions |-> "no"]
  /\ acceptor = [v \in Servers |-> NoSession]
  /\ sessions = [v \in Servers |-> {}]
  /\ userMgr = [v \in Servers |-> [u \in Users |-> NoSession]]
  /\ queue = [v \in Servers |-> <<>>]
  /\ worker = [v \in Servers |-> Idle]
  /\ uip = [u \in Users |-> NoServer]
  /\ loginCount = [v \in Servers |-> 0]
  /\ posted = [s \in Sessions |-> <<>>]
  /\ replies = [s \in Sessions |-> <<>>]
  /\ notified = [s \in Sessions |-> {}]
  /\ logins = [u \in Users |-> <<>>]
  /\ early = {}
  /\ late = {}
  /\ cut = [u \in Users |-> NoServer]
  /\ restarts = 0

-----------------------------------------------------------------------------
(* CServer and CSession *)

\* The completion handler of async_accept starts the session, and only then
\* takes the lock to emplace it.  user_id_ is whatever the memory held.
Accept(v, s) ==
  /\ home[s] = NoServer
  /\ acceptor[v] = NoSession
  /\ acceptor' = [acceptor EXCEPT ![v] = s]
  /\ home' = [home EXCEPT ![s] = v]
  /\ \E u \in Garbage : userId' = [userId EXCEPT ![s] = u]
  /\ UNCHANGED <<closing, sessions, userMgr, logicVars, redisVars, clientVars,
                 history, restarts>>

Emplace(v) ==
  /\ acceptor[v] # NoSession
  /\ sessions' = [sessions EXCEPT ![v] = @ \cup {acceptor[v]}]
  /\ acceptor' = [acceptor EXCEPT ![v] = NoSession]
  /\ UNCHANGED <<sessionVars, userMgr, logicVars, redisVars, clientVars, history,
                 restarts>>

PostCount == FoldFunctionOnSet(LAMBDA p, n : Len(p) + n, 0, posted, Sessions)

\* Mutant: logins go first.
PostLoginsFirst(s, m) ==
  LET v == home[s]
      item == [session |-> s, msg |-> m, nth |-> Len(posted[s]) + 1]
  IN
  /\ v # NoServer
  /\ closing[s] \in {"no", "done"}
  /\ worker[v] = Idle
  /\ PostCount < MaxPosts
  /\ queue' = [queue EXCEPT ![v] = IF m.kind = "login" THEN <<item>> \o @
                                    ELSE Append(@, item)]
  /\ posted' = [posted EXCEPT ![s] = Append(@, m)]
  /\ UNCHANGED <<sessionVars, serverVars, userMgr, worker, redisVars, replies,
                 notified, history, restarts>>

\* A whole message has been read: it is posted under the mutex of the queue,
\* which the worker holds while it handles another one.  Nothing tests whether
\* the session is closed: a read that was complete when a write failed is
\* posted after the Close.  (nth, its number among the messages of the session,
\* only serves the properties.)
Post(s, m) ==
  LET v == home[s]
      item == [session |-> s, msg |-> m, nth |-> Len(posted[s]) + 1]
  IN
  /\ v # NoServer
  /\ closing[s] \in {"no", "done"}
  /\ worker[v] = Idle
  /\ PostCount < MaxPosts
  /\ queue' = [queue EXCEPT ![v] = Append(@, item)]
  /\ posted' = [posted EXCEPT ![s] = Append(@, m)]
  /\ UNCHANGED <<sessionVars, serverVars, userMgr, worker, redisVars, replies,
                 notified, history, restarts>>

\* ClearSession looks the session up without the lock.  While another thread
\* changes sessions_ that is a data race, and the look-up may miss.
LookupRaces(v, s) ==
  \/ acceptor[v] # NoSession
  \/ \E r \in Sessions \ {s} : home[r] = v /\ closing[r] = "erase"

\* The client is gone, sent nonsense, or a write failed.
Close(s) ==
  LET v == home[s] IN
  /\ v # NoServer
  /\ s \notin Patient
  /\ closing[s] = "no"
  /\ \/ s \in sessions[v] /\ closing' = [closing EXCEPT ![s] = "unmap"] /\ UNCHANGED early
     \/ /\ s \notin sessions[v] \/ LookupRaces(v, s)
        /\ closing' = [closing EXCEPT ![s] = "erase"]
        /\ early' = early \cup {s}
  /\ UNCHANGED <<home, userId, serverVars, userMgr, logicVars, redisVars, clientVars,
                 logins, late, cut, restarts>>

RemoveUserSession(s) ==
  /\ closing[s] = "unmap"
  /\ closing' = [closing EXCEPT ![s] = "erase"]
  /\ userMgr' = [userMgr EXCEPT ![home[s]] =
                   [u \in Users |-> IF u = userId[s] THEN NoSession ELSE @[u]]]
  /\ UNCHANGED <<home, userId, serverVars, logicVars, redisVars, clientVars, history,
                 restarts>>

EraseSession(s) ==
  /\ closing[s] = "erase"
  /\ closing' = [closing EXCEPT ![s] = "done"]
  /\ sessions' = [sessions EXCEPT ![home[s]] = @ \ {s}]
  /\ UNCHANGED <<home, userId, acceptor, userMgr, logicVars, redisVars, clientVars,
                 history, restarts>>

-----------------------------------------------------------------------------
(* LogicSystem: the worker and its handlers *)

Sender(v) == Head(queue[v]).session
Msg(v) == Head(queue[v]).msg

\* The worker is between two handlers and finds a message of one of the kinds.
Starts(v, kinds) ==
  worker[v] = Idle /\ queue[v] # <<>> /\ Msg(v).kind \in kinds

Goto(v, step) == worker' = [worker EXCEPT ![v] = [step |-> step]]

\* A message without a handler is dropped without a reply.
HandleNothing(v) ==
  /\ Starts(v, {"unhandled"})
  /\ queue' = [queue EXCEPT ![v] = Tail(@)]
  /\ UNCHANGED <<sessionVars, serverVars, userMgr, worker, redisVars, clientVars,
                 history, restarts>>

\* The handler returns: its Defer sends the reply, then the message is popped.
Reply(v) ==
  /\ replies' = [replies EXCEPT ![Sender(v)] = Append(@, Head(queue[v]).nth)]
  /\ queue' = [queue EXCEPT ![v] = Tail(@)]
  /\ worker' = [worker EXCEPT ![v] = Idle]
  /\ UNCHANGED <<sessionVars, serverVars, userMgr, redisVars, posted, notified, history,
                 restarts>>

\* SearchInfoHandler, which only reads, and a handler that fails before it has
\* changed anything that this module sees: invalid input, an unknown user, a
\* Redis or a database error.  (Of the invalid inputs, a member of the wrong type
\* and a number too long for stoi throw, and nothing catches: Restart.)
JustReply(v) == Starts(v, Kinds) /\ Reply(v)

\* Mutant: the token is not compared.
LoginBindAnyToken(v) ==
  /\ Starts(v, {"login"})
  /\ loginCount' = [loginCount EXCEPT ![v] = @ + 1]
  /\ userId' = [userId EXCEPT ![Sender(v)] = Msg(v).uid]
  /\ Goto(v, "login_ip")
  /\ UNCHANGED <<home, closing, serverVars, userMgr, queue, uip, clientVars, history,
                 restarts>>

\* Mutant: the session never learns its user.
LoginBindNobody(v) ==
  /\ Starts(v, {"login"})
  /\ Msg(v).valid
  /\ loginCount' = [loginCount EXCEPT ![v] = @ + 1]
  /\ Goto(v, "login_ip")
  /\ UNCHANGED <<sessionVars, serverVars, userMgr, queue, uip, clientVars, history,
                 restarts>>

\* LoginHandler, after the token and the user's record: HINCRBY, which may
\* fail unnoticed, and SetUserId.
LoginBind(v) ==
  /\ Starts(v, {"login"})
  /\ Msg(v).valid
  /\ \E fails \in RedisFails :
       loginCount' = [loginCount EXCEPT ![v] = IF fails THEN @ ELSE @ + 1]
  /\ userId' = [userId EXCEPT ![Sender(v)] = Msg(v).uid]
  /\ Goto(v, "login_ip")
  /\ UNCHANGED <<home, closing, serverVars, userMgr, queue, uip, clientVars, history,
                 restarts>>

\* Mutant: a name that is there already is kept.
LoginIpOnce(v) ==
  /\ worker[v].step = "login_ip"
  /\ uip' = [uip EXCEPT ![Msg(v).uid] = IF @ = NoServer THEN v ELSE @]
  /\ cut' = [cut EXCEPT ![Msg(v).uid] = NoServer]
  /\ Goto(v, "login_map")
  /\ UNCHANGED <<sessionVars, serverVars, userMgr, queue, loginCount, clientVars,
                 logins, early, late, restarts>>

\* The server's name is stored for the user; the result is not looked at.
LoginIp(v) ==
  /\ worker[v].step = "login_ip"
  /\ \E fails \in RedisFails :
       /\ uip' = [uip EXCEPT ![Msg(v).uid] = IF fails THEN @ ELSE v]
       /\ cut' = [cut EXCEPT ![Msg(v).uid] = IF fails THEN @ ELSE NoServer]
  /\ Goto(v, "login_map")
  /\ UNCHANGED <<sessionVars, serverVars, userMgr, queue, loginCount, clientVars,
                 logins, early, late, restarts>>

\* Mutant: emplace, which does not replace an older session.
LoginMapOnce(v) ==
  LET s == Sender(v) IN
  /\ worker[v].step = "login_map"
  /\ userMgr' = [userMgr EXCEPT ![v][Msg(v).uid] = IF @ = NoSession THEN s ELSE @]
  /\ logins' = [logins EXCEPT ![Msg(v).uid] = Append(@, s)]
  /\ late' = IF closing[s] = "no" THEN late ELSE late \cup {s}
  /\ Goto(v, "succeed")
  /\ UNCHANGED <<sessionVars, serverVars, queue, redisVars, clientVars, early, cut,
                 restarts>>

\* SetUserSession replaces whatever session the user had on this server.
LoginMap(v) ==
  LET s == Sender(v) IN
  /\ worker[v].step = "login_map"
  /\ userMgr' = [userMgr EXCEPT ![v][Msg(v).uid] = s]
  /\ logins' = [logins EXCEPT ![Msg(v).uid] = Append(@, s)]
  /\ late' = IF closing[s] = "no" THEN late ELSE late \cup {s}
  /\ Goto(v, "succeed")
  /\ UNCHANGED <<sessionVars, serverVars, queue, redisVars, clientVars, early, cut,
                 restarts>>

\* Mutant: the message is moved out of the queue before it is handled.
LookupServerPopping(v) ==
  /\ Starts(v, NotifyKinds)
  /\ Msg(v).valid
  /\ Goto(v, "succeed")
  /\ queue' = [queue EXCEPT ![v] = Tail(@)]
  /\ UNCHANGED <<sessionVars, serverVars, userMgr, redisVars, clientVars, history,
                 restarts>>

\* AddFriendHandler, AuthFriendHandler and TextChatMsgHandler end alike: the
\* outcome is decided, then the peer is looked up and notified.
LookupServer(v) ==
  /\ Starts(v, NotifyKinds)
  /\ Msg(v).valid
  /\ \E fails \in RedisFails :
       LET at == uip[Msg(v).uid] IN
         IF fails \/ at = NoServer
         THEN Goto(v, "succeed")
         ELSE worker' = [worker EXCEPT ![v] = [step |-> "find", at |-> at]]
  /\ UNCHANGED <<sessionVars, serverVars, userMgr, queue, redisVars, clientVars,
                 history, restarts>>

\* Mutant: the gRPC service takes the mutex of the logic system, which the
\* worker of that server may hold.
FindSessionLocking(v) ==
  /\ worker[v].step = "find"
  /\ LET p == worker[v].at
         s == userMgr[p][Msg(v).uid]
     IN  /\ p # v => worker[p] = Idle
         /\ IF s = NoSession
            THEN Goto(v, "succeed")
            ELSE worker' = [worker EXCEPT ![v] = [step |-> "send", at |-> p, to |-> s]]
  /\ UNCHANGED <<sessionVars, serverVars, userMgr, queue, redisVars, clientVars,
                 history, restarts>>

\* GetSession, here or in the gRPC service of the peer.
FindSession(v) ==
  /\ worker[v].step = "find"
  /\ LET s == userMgr[worker[v].at][Msg(v).uid] IN
       IF s = NoSession
       THEN Goto(v, "succeed")
       ELSE worker' = [worker EXCEPT ![v] = [step |-> "send", at |-> worker[v].at, to |-> s]]
  /\ UNCHANGED <<sessionVars, serverVars, userMgr, queue, redisVars, clientVars,
                 history, restarts>>

SendNotify(v) ==
  /\ worker[v].step = "send"
  /\ notified' = [notified EXCEPT ![worker[v].to] = @ \cup {Msg(v).uid}]
  /\ Goto(v, "succeed")
  /\ UNCHANGED <<sessionVars, serverVars, userMgr, queue, redisVars, posted, replies,
                 history, restarts>>

\* A call to a peer may break at any point; the result is not looked at.
RpcFails(v) ==
  /\ worker[v].step \in {"find", "send"}
  /\ worker[v].at # v
  /\ Goto(v, "succeed")
  /\ UNCHANGED <<sessionVars, serverVars, userMgr, queue, redisVars, clientVars,
                 history, restarts>>

Succeed(v) == worker[v].step = "succeed" /\ Reply(v)

-----------------------------------------------------------------------------
\* The worker of v has stored its name for u and not mapped u to the sender yet.
LoggingIn(v, u) == worker[v].step = "login_map" /\ Msg(v).uid = u

\* A server dies, with all its sessions, and is started again: main resets
\* its login count, which may fail unnoticed, and keeps nothing else.  The calls
\* it was serving break.
Restart(v) ==
  /\ restarts < MaxRestarts
  /\ restarts' = restarts + 1
  /\ \E fails \in RedisFails :
       loginCount' = [loginCount EXCEPT ![v] = IF fails THEN @ ELSE 0]
  /\ acceptor' = [acceptor EXCEPT ![v] = NoSession]
  /\ sessions' = [sessions EXCEPT ![v] = {}]
  /\ userMgr' = [userMgr EXCEPT ![v] = [u \in Users |-> NoSession]]
  /\ queue' = [queue EXCEPT ![v] = <<>>]
  /\ worker' = [w \in Servers |->
                  IF w = v THEN Idle
                  ELSE IF worker[w].step = "send" /\ worker[w].at = v
                       THEN [step |-> "succeed"]
                       ELSE worker[w]]
  /\ closing' = [s \in Sessions |-> IF home[s] = v THEN "lost" ELSE closing[s]]
  /\ cut' = [u \in Users |-> IF LoggingIn(v, u) /\ uip[u] = v THEN v ELSE cut[u]]
  /\ UNCHANGED <<home, userId, uip, clientVars, logins, early, late>>

Worker(v) ==
  \/ HandleNothing(v)
  \/ JustReply(v)
  \/ LoginBind(v)
  \/ LoginIp(v)
  \/ LoginMap(v)
  \/ LookupServer(v)
  \/ FindSession(v)
  \/ SendNotify(v)
  \/ Succeed(v)

Session(s) ==
  \/ \E m \in Messages[s] : Post(s, m)
  \/ Close(s)
  \/ RemoveUserSession(s)
  \/ EraseSession(s)

Next ==
  \/ \E v \in Servers : Worker(v) \/ RpcFails(v) \/ Emplace(v) \/ Restart(v)
  \/ \E v \in Servers, s \in Sessions : Accept(v, s)
  \/ \E s \in Sessions : Session(s)

(***************************************************************************)
(* The worker, the acceptor and a Close that has begun run on.  A call to  *)
(* a peer has no deadline: nothing makes it fail while the peer is alive.  *)
(* Clients owe nothing.                                                    *)
(***************************************************************************)
Fairness ==
  /\ \A v \in Servers : WF_vars(Worker(v)) /\ WF_vars(Emplace(v))
  /\ \A s \in Sessions : WF_vars(RemoveUserSession(s) \/ EraseSession(s))

Spec == Init /\ [][Next]_vars

FairSpec == Spec /\ Fairness

-----------------------------------------------------------------------------
(* Properties *)

Items == [session : Sessions, msg : MessageType, nth : Nat]

Steps ==
  [step : {"idle", "login_ip", "login_map", "succeed"}]
    \cup [step : {"find"}, at : Servers]
    \cup [step : {"send"}, at : Servers, to : Sessions]

\* The variables have their types, and the worker is inside a handler only
\* while the message it handles is still the first of the queue.
TypeOK ==
  /\ home \in [Sessions -> Servers \cup {NoServer}]
  /\ userId \in [Sessions -> Users \cup {NoUser}]
  /\ closing \in [Sessions -> {"no", "unmap", "erase", "done", "lost"}]
  /\ acceptor \in [Servers -> Sessions \cup {NoSession}]
  /\ sessions \in [Servers -> SUBSET Sessions]
  /\ userMgr \in [Servers -> [Users -> Sessions \cup {NoSession}]]
  /\ queue \in [Servers -> Seq(Items)]
  /\ worker \in [Servers -> Steps]
  /\ uip \in [Users -> Servers \cup {NoServer}]
  /\ loginCount \in [Servers -> Nat]
  /\ posted \in [Sessions -> Seq(MessageType)]
  /\ replies \in [Sessions -> Seq(Nat)]
  /\ notified \in [Sessions -> SUBSET Users]
  /\ logins \in [Users -> Seq(Sessions)]
  /\ early \subseteq Sessions
  /\ late \subseteq Sessions
  /\ cut \in [Users -> Servers \cup {NoServer}]
  /\ restarts \in 0 .. MaxRestarts
  /\ \A v \in Servers : worker[v] # Idle => queue[v] # <<>> /\ Msg(v).kind \in Kinds

LoggedInAs(s, u) == s \in Range(logins[u])

\* The users whose tokens the client of s has shown.
UsersOf(s) ==
  {u \in Users : \E m \in Range(posted[s]) : m.kind = "login" /\ m.uid = u /\ m.valid}

\* The numbers of the messages of s that have a handler.
Requests(s) == {n \in DOMAIN posted[s] : posted[s][n].kind \in Kinds}

Answered(s) == Range(replies[s])

\* The numbers of those that are queued, the one that is being handled included.
Waiting(s) == {item.nth : item \in {i \in Range(queue[home[s]]) : i.session = s}}

\* A user's messages reach only sessions that presented the user's token,
\* whatever sessions were opened, closed, replaced or lost meanwhile, and
\* even if a session was looked up before it was closed.
OnlyToTheUser ==
  \A s \in Sessions : notified[s] \subseteq UsersOf(s)

\* Every request of a session is either answered or still queued, and those
\* answered came before those queued: no request is answered twice, out of
\* order or never, and nothing else is.
AnsweredInOrder ==
  \A s \in Sessions : home[s] # NoServer /\ closing[s] # "lost" =>
    /\ Answered(s) \subseteq Requests(s)
    /\ Requests(s) \subseteq Answered(s) \cup Waiting(s)
    /\ \A i, j \in DOMAIN replies[s] : i < j => replies[s][i] < replies[s][j]
    /\ \A n \in Answered(s), m \in Waiting(s) : n < m

\* A session that the user manager maps a user to is the one of the user's
\* last login on that server, never an older one.
MapHoldsLatestLogin ==
  \A v \in Servers, u \in Users : userMgr[v][u] # NoSession =>
    \E i \in DOMAIN logins[u] :
      /\ logins[u][i] = userMgr[v][u]
      /\ home[logins[u][i]] = v
      /\ \A j \in DOMAIN logins[u] : j > i => home[logins[u][j]] # v

\* The n-th login of u is on v, and all later ones are on other servers, one on
\* each at most: each was under way when the n-th stored its name.
LastButRaced(v, u, n) ==
  /\ home[logins[u][n]] = v
  /\ \A j \in n + 1 .. Len(logins[u]) :
       /\ home[logins[u][j]] # v
       /\ ~ LoggingIn(home[logins[u][j]], u)
       /\ \A k \in n + 1 .. Len(logins[u]) : k # j => home[logins[u][j]] # home[logins[u][k]]

\* If Redis does not fail, the name it holds for a user is that of the server
\* of his last login, or of one that all later ones raced with; or of a login
\* that is about to be mapped, or that the death of its server cut off there.
\* Logins before the last, on servers that died since or on the same one, on
\* sessions that are closed or not, never leave theirs.
LoginAnnounced ==
  \A u \in Users :
    IF uip[u] = NoServer THEN logins[u] = <<>>
    ELSE \/ \E n \in DOMAIN logins[u] : LastButRaced(uip[u], u, n)
         \/ LoggingIn(uip[u], u)
         \/ cut[u] = uip[u]

\* If Redis does not fail: the count by which the status server chooses is
\* never less than the number of open sessions that logged in there.
LoginCountCovers ==
  \A v \in Servers :
    loginCount[v] >= Cardinality({s \in Sessions :
      home[s] = v /\ closing[s] = "no" /\ \E u \in Users : LoggedInAs(s, u)})

\* A closed session stays in sessions_ for ever only if its Close could not
\* find it: it came before the acceptor had emplaced the session, or raced.
OnlyEarlyCloseLeaks ==
  \A s \in Sessions :
    closing[s] = "done" /\ s \in sessions[home[s]] => s \in early

\* A closed session has no user mapped to it, unless its Close did not find
\* it, its login was completed after the Close, or it logged in as two users.
ClosedIsUnmapped ==
  \A s \in Sessions :
    /\ closing[s] = "done"
    /\ s \notin early \cup late
    /\ \A a, b \in UsersOf(s) : a = b
    => \A u \in Users : userMgr[home[s]][u] # s

\* What Redis says of logins covers those that there are: the server of a user and the
\* count of a server.
RedisCoversLogins == LoginAnnounced /\ LoginCountCovers

\* What a closed session leaves behind: no entry in sessions_ and none of its user.
ClosedLeavesNothing == OnlyEarlyCloseLeaks /\ ClosedIsUnmapped

\* Every message that has a handler is answered, unless the server dies: the
\* workers, which call one another's servers inside their handlers, never
\* wait for each other for ever.
AllAnswered ==
  \A s \in Sessions :
    (Answered(s) # Requests(s)) ~> (Answered(s) = Requests(s) \/ closing[s] = "lost")

\* Refuted: "uid 和 session 绑定" (logic_system.cpp): closing a session ends
\* only the binding of that session.  ClearSession removes by user id, so it
\* ends the binding of a session that logged in later, or, if the session
\* never logged in, of anybody whose id its memory holds.
CloseEndsOwnBinding ==
  [][\A v \in Servers, u \in Users :
       userMgr[v][u] # NoSession /\ userMgr'[v][u] = NoSession
         => closing[userMgr[v][u]] # "no"]_vars
=============================================================================
