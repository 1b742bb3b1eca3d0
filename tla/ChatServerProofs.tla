-------------------------- MODULE ChatServerProofs --------------------------
(***************************************************************************)
(* Proofs about ChatServer, for every set of servers, sessions, users and  *)
(* messages and every number of restarts.                                  *)
(***************************************************************************)
EXTENDS ChatServer, SequenceTheorems, FiniteSetTheorems, TLAPS

-----------------------------------------------------------------------------
(* Facts about the messages *)

\* What is appended is in the range, and nothing else is new there.
LEMMA RangeOfAppend ==
  ASSUME NEW S, NEW q \in Seq(S), NEW e \in S
  PROVE  Range(Append(q, e)) = Range(q) \cup {e}
<1>1. /\ DOMAIN q = 1 .. Len(q) /\ Len(q) \in Nat
      /\ DOMAIN Append(q, e) = 1 .. Len(q) + 1
      /\ \A i \in 1 .. Len(q) : Append(q, e)[i] = q[i]
      /\ Append(q, e)[Len(q) + 1] = e
  OBVIOUS
<1> QED
  BY <1>1 DEF Range

\* An element of an extended sequence is an old one or the new one.
LEMMA ElementsOfAppend ==
  ASSUME NEW S, NEW q \in Seq(S), NEW e \in S
  PROVE  /\ DOMAIN q = 1 .. Len(q) /\ Len(q) \in Nat
         /\ \A i \in DOMAIN Append(q, e) :
              \/ i \in DOMAIN q /\ Append(q, e)[i] = q[i]
              \/ i = Len(q) + 1 /\ Append(q, e)[i] = e
OBVIOUS

\* A message that has a handler names a user and is valid or not.
LEMMA Handled ==
  ASSUME NEW m \in MessageType, m.kind \in Kinds
  PROVE  m.uid \in Users /\ m.valid \in BOOLEAN
<1>1. "unhandled" \notin Kinds
  BY DEF Kinds, NotifyKinds
<1> QED
  BY <1>1 DEF MessageType

\* The messages of a queue.
LEMMA ItemsOfQueue ==
  ASSUME TypeOK, NEW v \in Servers
  PROVE  /\ queue[v] \in Seq(Items)
         /\ Len(queue[v]) \in Nat
         /\ DOMAIN queue[v] = 1 .. Len(queue[v])
         /\ \A i \in DOMAIN queue[v] :
              /\ queue[v][i] \in Items
              /\ queue[v][i].session \in Sessions
              /\ queue[v][i].msg \in MessageType
              /\ queue[v][i].nth \in Nat
<1>1. queue[v] \in Seq(Items)
  BY DEF TypeOK
<1>2. \A i \in 1 .. Len(queue[v]) : queue[v][i] \in Items
  BY <1>1, ElementOfSeq
<1> QED
  BY <1>1, <1>2 DEF Items

\* The first message of a queue.
LEMMA FirstOfQueue ==
  ASSUME TypeOK, NEW v \in Servers, queue[v] # <<>>
  PROVE  /\ Head(queue[v]) \in Items
         /\ Head(queue[v]) = queue[v][1]
         /\ Sender(v) \in Sessions
         /\ Msg(v) \in MessageType
         /\ Head(queue[v]).nth \in Nat
         /\ Msg(v).kind \in Kinds => Msg(v).uid \in Users /\ Msg(v).valid \in BOOLEAN
         /\ Tail(queue[v]) \in Seq(Items)
         /\ Len(Tail(queue[v])) = Len(queue[v]) - 1
         /\ \A i \in 1 .. Len(Tail(queue[v])) : Tail(queue[v])[i] = queue[v][i + 1]
<1>1. queue[v] \in Seq(Items)
  BY DEF TypeOK
<1>2. /\ Head(queue[v]) \in Items /\ Head(queue[v]) = queue[v][1]
      /\ Tail(queue[v]) \in Seq(Items) /\ Len(Tail(queue[v])) = Len(queue[v]) - 1
      /\ \A i \in 1 .. Len(Tail(queue[v])) : Tail(queue[v])[i] = queue[v][i + 1]
  BY <1>1, HeadTailProperties
<1>3. Sender(v) \in Sessions /\ Msg(v) \in MessageType /\ Head(queue[v]).nth \in Nat
  BY <1>2 DEF Items, Sender, Msg
<1> QED
  BY <1>2, <1>3, Handled

-----------------------------------------------------------------------------
(* Types *)

\* The steps of the worker that keep what they have looked up.
LEMMA StepTypes ==
  ASSUME NEW w \in Steps
  PROVE  /\ w.step = "idle" <=> w = Idle
         /\ w.step = "find" => w.at \in Servers
         /\ w.step = "send" => w.at \in Servers /\ w.to \in Sessions
BY DEF Steps, Idle

\* A step of a worker leaves the others where they are.
LEMMA GotoTypes ==
  ASSUME TypeOK, NEW v \in Servers, NEW w \in Steps, worker' = [worker EXCEPT ![v] = w]
  PROVE  /\ worker' \in [Servers -> Steps]
         /\ worker'[v] = w
         /\ \A u \in Servers \ {v} : worker'[u] = worker[u]
BY DEF TypeOK

LEMMA SimpleSteps ==
  /\ Idle \in Steps
  /\ \A x \in {"idle", "login_ip", "login_map", "succeed"} : [step |-> x] \in Steps
BY DEF Steps, Idle

LEMMA InitType == Init => TypeOK
<1> SUFFICES ASSUME Init PROVE TypeOK
  OBVIOUS
<1>1. /\ <<>> \in Seq(Items) /\ <<>> \in Seq(MessageType) /\ <<>> \in Seq(Nat)
      /\ <<>> \in Seq(Sessions)
  BY EmptySeq
<1>2. Idle \in Steps
  BY DEF Idle, Steps
<1>3. 0 \in 0 .. MaxRestarts
  BY ChatServerAssumption
<1> QED
  BY <1>1, <1>2, <1>3 DEF Init, TypeOK

LEMMA NextType ==
  ASSUME TypeOK, [Next]_vars
  PROVE  TypeOK'
<1> USE DEF sessionVars, serverVars, logicVars, redisVars, clientVars, history
<1>1. ASSUME NEW v \in Servers, NEW s \in Sessions, Accept(v, s) PROVE TypeOK'
  <2>1. userId' \in [Sessions -> Users \cup {NoUser}]
    BY <1>1, ChatServerAssumption DEF Accept, TypeOK
  <2> QED
    BY <1>1, <2>1 DEF Accept, TypeOK, Msg
<1>2. ASSUME NEW v \in Servers, Emplace(v) PROVE TypeOK'
  BY <1>2 DEF Emplace, TypeOK, Msg
<1>3. ASSUME NEW s \in Sessions, NEW m \in Messages[s], Post(s, m) PROVE TypeOK'
  <2>1. m \in MessageType
    BY ChatServerAssumption
  <2>2. /\ home[s] \in Servers
        /\ [session |-> s, msg |-> m, nth |-> Len(posted[s]) + 1] \in Items
    BY <1>3, <2>1 DEF Post, TypeOK, Items
  <2>3. /\ queue' \in [Servers -> Seq(Items)]
        /\ posted' \in [Sessions -> Seq(MessageType)]
    BY <1>3, <2>1, <2>2 DEF Post, TypeOK
  <2>4. ASSUME NEW v \in Servers, worker[v] # Idle
        PROVE  queue'[v] = queue[v]
    BY <1>3, <2>4 DEF Post, TypeOK
  <2> QED
    BY <1>3, <2>3, <2>4 DEF Post, TypeOK, Msg
<1>4. ASSUME NEW s \in Sessions, Close(s) PROVE TypeOK'
  <2>1. /\ \E c \in {"unmap", "erase"} : closing' = [closing EXCEPT ![s] = c]
        /\ early' \in {early, early \cup {s}}
    BY <1>4 DEF Close
  <2>2. UNCHANGED <<home, userId, serverVars, userMgr, logicVars, redisVars, clientVars,
                    logins, late, cut, restarts>>
    BY <1>4 DEF Close
  <2> QED
    BY <2>1, <2>2 DEF TypeOK, Msg
<1>5. ASSUME NEW s \in Sessions, RemoveUserSession(s) PROVE TypeOK'
  <2> DEFINE left(v) == [u \in Users |-> IF u = userId[s] THEN NoSession ELSE userMgr[v][u]]
  <2>1. \A v \in Servers : left(v) \in [Users -> Sessions \cup {NoSession}]
    BY DEF TypeOK
  <2>2. \A v \in Servers : userMgr'[v] = IF v = home[s] THEN left(v) ELSE userMgr[v]
    BY <1>5 DEF RemoveUserSession, TypeOK
  <2>3. userMgr' = [v \in Servers |-> IF v = home[s] THEN left(v) ELSE userMgr[v]]
    BY <1>5 DEF RemoveUserSession, TypeOK
  <2>4. userMgr' \in [Servers -> [Users -> Sessions \cup {NoSession}]]
    <3> HIDE DEF left
    <3> QED
      BY <2>1, <2>3 DEF TypeOK
  <2> QED
    BY <1>5, <2>4 DEF RemoveUserSession, TypeOK, Msg
<1>6. ASSUME NEW s \in Sessions, EraseSession(s) PROVE TypeOK'
  BY <1>6 DEF EraseSession, TypeOK, Msg
<1>7. ASSUME NEW v \in Servers, HandleNothing(v) PROVE TypeOK'
  <2>1. worker[v] = Idle /\ Tail(queue[v]) \in Seq(Items)
    BY <1>7, FirstOfQueue DEF HandleNothing, Starts
  <2> QED
    BY <1>7, <2>1 DEF HandleNothing, TypeOK, Msg
<1>8. ASSUME NEW v \in Servers, JustReply(v) \/ Succeed(v) PROVE TypeOK'
  <2>1. Reply(v) /\ queue[v] # <<>>
    BY <1>8 DEF JustReply, Starts, Succeed, TypeOK, Idle
  <2>2. /\ Tail(queue[v]) \in Seq(Items) /\ Sender(v) \in Sessions
        /\ Head(queue[v]).nth \in Nat
    BY <2>1, FirstOfQueue
  <2>3. replies' \in [Sessions -> Seq(Nat)] /\ queue' \in [Servers -> Seq(Items)]
    BY <2>1, <2>2 DEF Reply, TypeOK
  <2> QED
    BY <2>1, <2>3, SimpleSteps, GotoTypes DEF Reply, TypeOK, Msg, Idle
<1>9. ASSUME NEW v \in Servers, LoginBind(v) PROVE TypeOK'
  <2>1. queue[v] # <<>> /\ Msg(v).kind \in Kinds
    BY <1>9 DEF LoginBind, Starts, Kinds
  <2>2. Sender(v) \in Sessions /\ Msg(v).uid \in Users
    BY <2>1, FirstOfQueue
  <2>3. loginCount' \in [Servers -> Nat] /\ userId' \in [Sessions -> Users \cup {NoUser}]
    BY <1>9, <2>2 DEF LoginBind, TypeOK
  <2> QED
    BY <1>9, <2>1, <2>3, SimpleSteps, GotoTypes DEF LoginBind, Goto, TypeOK, Msg
<1>10. ASSUME NEW v \in Servers, LoginIp(v) PROVE TypeOK'
  <2>1. queue[v] # <<>> /\ Msg(v).kind \in Kinds
    BY <1>10 DEF LoginIp, TypeOK, Idle
  <2>2. uip' \in [Users -> Servers \cup {NoServer}] /\ cut' \in [Users -> Servers \cup {NoServer}]
    BY <1>10, <2>1, FirstOfQueue DEF LoginIp, TypeOK
  <2> QED
    BY <1>10, <2>1, <2>2, SimpleSteps, GotoTypes DEF LoginIp, Goto, TypeOK, Msg
<1>11. ASSUME NEW v \in Servers, LoginMap(v) PROVE TypeOK'
  <2>1. queue[v] # <<>> /\ Msg(v).kind \in Kinds
    BY <1>11 DEF LoginMap, TypeOK, Idle
  <2>2. Sender(v) \in Sessions /\ Msg(v).uid \in Users
    BY <2>1, FirstOfQueue
  <2>3. /\ userMgr' \in [Servers -> [Users -> Sessions \cup {NoSession}]]
        /\ logins' \in [Users -> Seq(Sessions)]
        /\ late' \subseteq Sessions
    BY <1>11, <2>2 DEF LoginMap, TypeOK
  <2> QED
    BY <1>11, <2>1, <2>3, SimpleSteps, GotoTypes DEF LoginMap, Goto, TypeOK, Msg
<1>12. ASSUME NEW v \in Servers, LookupServer(v) PROVE TypeOK'
  <2>1. queue[v] # <<>> /\ Msg(v).kind \in Kinds
    BY <1>12 DEF LookupServer, Starts, Kinds
  <2>2. [step |-> "succeed"] \in Steps
    BY DEF Steps
  <2>3. \A at \in Servers : [step |-> "find", at |-> at] \in Steps
    BY DEF Steps
  <2>4. \E w \in Steps : worker' = [worker EXCEPT ![v] = w]
    BY <1>12, <2>1, <2>2, <2>3, FirstOfQueue DEF LookupServer, Goto, TypeOK
  <2>5. UNCHANGED <<sessionVars, serverVars, userMgr, queue, redisVars, clientVars,
                    history, restarts>>
    BY <1>12 DEF LookupServer
  <2> QED
    BY <2>1, <2>4, <2>5 DEF TypeOK, Msg
<1>13. ASSUME NEW v \in Servers, FindSession(v) PROVE TypeOK'
  <2>1. worker[v].at \in Servers /\ queue[v] # <<>> /\ Msg(v).kind \in Kinds
    BY <1>13, StepTypes DEF FindSession, TypeOK, Idle
  <2>2. userMgr[worker[v].at][Msg(v).uid] \in Sessions \cup {NoSession}
    BY <2>1, FirstOfQueue DEF TypeOK
  <2>3. [step |-> "succeed"] \in Steps
    BY DEF Steps
  <2>4. \A at \in Servers, to \in Sessions : [step |-> "send", at |-> at, to |-> to] \in Steps
    BY DEF Steps
  <2>5. \E w \in Steps : worker' = [worker EXCEPT ![v] = w]
    BY <1>13, <2>1, <2>2, <2>3, <2>4 DEF FindSession, Goto
  <2>6. UNCHANGED <<sessionVars, serverVars, userMgr, queue, redisVars, clientVars,
                    history, restarts>>
    BY <1>13 DEF FindSession
  <2> QED
    BY <2>1, <2>5, <2>6 DEF TypeOK, Msg
<1>14. ASSUME NEW v \in Servers, SendNotify(v) PROVE TypeOK'
  <2>1. worker[v].to \in Sessions /\ queue[v] # <<>> /\ Msg(v).kind \in Kinds
    BY <1>14, StepTypes DEF SendNotify, TypeOK, Idle
  <2>2. notified' \in [Sessions -> SUBSET Users]
    BY <1>14, <2>1, FirstOfQueue DEF SendNotify, TypeOK
  <2> QED
    BY <1>14, <2>1, <2>2, SimpleSteps, GotoTypes DEF SendNotify, Goto, TypeOK, Msg
<1>15. ASSUME NEW v \in Servers, RpcFails(v) PROVE TypeOK'
  BY <1>15, SimpleSteps, GotoTypes DEF RpcFails, Goto, TypeOK, Msg, Idle
<1>16. ASSUME NEW v \in Servers, Restart(v) PROVE TypeOK'
  <2>1. restarts' \in 0 .. MaxRestarts
    BY <1>16, ChatServerAssumption DEF Restart, TypeOK
  <2>2. \A w \in Servers : worker'[w] \in Steps /\ (worker'[w] # Idle => w # v /\ worker[w] # Idle)
    BY <1>16, SimpleSteps DEF Restart, TypeOK, Idle
  <2>3. queue' \in [Servers -> Seq(Items)] /\ \A w \in Servers \ {v} : queue'[w] = queue[w]
    BY <1>16 DEF Restart, TypeOK
  <2>4. loginCount' \in [Servers -> Nat]
    BY <1>16 DEF Restart, TypeOK
  <2>5. cut' \in [Users -> Servers \cup {NoServer}]
    BY <1>16 DEF Restart, TypeOK
  <2> QED
    BY <1>16, <2>1, <2>2, <2>3, <2>4, <2>5 DEF Restart, TypeOK, Msg
<1>17. CASE UNCHANGED vars
  BY <1>17 DEF vars, TypeOK, Msg
<1> QED
  BY <1>1, <1>2, <1>3, <1>4, <1>5, <1>6, <1>7, <1>8, <1>9, <1>10, <1>11, <1>12, <1>13,
     <1>14, <1>15, <1>16, <1>17 DEF Next, Worker, Session

-----------------------------------------------------------------------------
(* What only grows *)

\* A session keeps its server, what it has sent and whom it has shown to be.
LEMMA Growing ==
  ASSUME TypeOK, [Next]_vars
  PROVE  /\ \A s \in Sessions : home[s] # NoServer => home'[s] = home[s]
         /\ \A s \in Sessions : \A n \in DOMAIN posted[s] :
              n \in DOMAIN posted'[s] /\ posted'[s][n] = posted[s][n]
         /\ \A s \in Sessions : UsersOf(s) \subseteq UsersOf(s)'
<1> USE DEF sessionVars, serverVars, logicVars, redisVars, clientVars, history
<1>1. \/ home' = home
      \/ \E v \in Servers, s \in Sessions : home[s] = NoServer /\ home' = [home EXCEPT ![s] = v]
  BY DEF Next, Worker, Session, Accept, Emplace, Post, Close, RemoveUserSession, EraseSession,
         HandleNothing, JustReply, Reply, LoginBind, LoginIp, LoginMap, LookupServer, FindSession,
         SendNotify, RpcFails, Succeed, Restart, vars
<1>2. \/ posted' = posted
      \/ \E s \in Sessions : \E m \in Messages[s] :
           posted' = [posted EXCEPT ![s] = Append(@, m)]
  BY DEF Next, Worker, Session, Accept, Emplace, Post, Close, RemoveUserSession, EraseSession,
         HandleNothing, JustReply, Reply, LoginBind, LoginIp, LoginMap, LookupServer, FindSession,
         SendNotify, RpcFails, Succeed, Restart, vars
<1>3. CASE posted' = posted
  BY <1>1, <1>3 DEF UsersOf, TypeOK
<1>4. ASSUME NEW s \in Sessions, NEW m \in Messages[s],
             posted' = [posted EXCEPT ![s] = Append(@, m)]
      PROVE  /\ \A r \in Sessions \ {s} : posted'[r] = posted[r]
             /\ \A n \in DOMAIN posted[s] : n \in DOMAIN posted'[s] /\ posted'[s][n] = posted[s][n]
             /\ Range(posted'[s]) = Range(posted[s]) \cup {m}
  <2>1. m \in MessageType /\ posted[s] \in Seq(MessageType)
    BY ChatServerAssumption DEF TypeOK
  <2>2. posted'[s] = Append(posted[s], m) /\ \A r \in Sessions \ {s} : posted'[r] = posted[r]
    BY <1>4 DEF TypeOK
  <2> QED
    BY <2>1, <2>2, RangeOfAppend
<1>5. \A s \in Sessions : \A n \in DOMAIN posted[s] :
        n \in DOMAIN posted'[s] /\ posted'[s][n] = posted[s][n]
  BY <1>2, <1>4
<1>6. \A s \in Sessions : Range(posted[s]) \subseteq Range(posted'[s])
  BY <1>2, <1>4
<1> QED
  BY <1>1, <1>5, <1>6 DEF UsersOf, TypeOK

-----------------------------------------------------------------------------
(* The inductive invariant *)

\* A queued message is one that its session, which is alive, has posted here.
QueuedArePosted ==
  \A v \in Servers : \A i \in DOMAIN queue[v] :
    LET item == queue[v][i] IN
    /\ home[item.session] = v
    /\ closing[item.session] # "lost"
    /\ item.nth \in DOMAIN posted[item.session]
    /\ posted[item.session][item.nth] = item.msg

LEMMA QueuedStep ==
  ASSUME TypeOK, QueuedArePosted, [Next]_vars
  PROVE  QueuedArePosted'
<1> USE DEF sessionVars, serverVars, logicVars, redisVars, clientVars, history
<1>1. CASE queue' = queue /\ \A s \in Sessions : closing'[s] = "lost" => closing[s] = "lost"
  BY <1>1, Growing, ItemsOfQueue, ChatServerAssumption DEF QueuedArePosted
<1>2. ASSUME NEW s \in Sessions, NEW m \in Messages[s], Post(s, m) PROVE QueuedArePosted'
  <2> DEFINE item == [session |-> s, msg |-> m, nth |-> Len(posted[s]) + 1]
  <2>1. m \in MessageType /\ home[s] \in Servers /\ posted[s] \in Seq(MessageType)
    BY <1>2, ChatServerAssumption DEF Post, TypeOK
  <2>2. /\ queue'[home[s]] = Append(queue[home[s]], item)
        /\ \A w \in Servers \ {home[s]} : queue'[w] = queue[w]
        /\ home' = home /\ closing' = closing
        /\ posted'[s] = Append(posted[s], m)
    BY <1>2 DEF Post, TypeOK
  <2>3. item.nth \in DOMAIN posted'[s] /\ posted'[s][item.nth] = m
    BY <2>1, <2>2
  <2>5. ASSUME NEW i \in DOMAIN queue'[home[s]]
        PROVE  \/ i \in DOMAIN queue[home[s]] /\ queue'[home[s]][i] = queue[home[s]][i]
               \/ queue'[home[s]][i] = item
    BY <2>1, <2>2, ItemsOfQueue
  <2>6. closing[s] # "lost"
    BY <1>2 DEF Post
  <2>7. ASSUME NEW w \in Servers, NEW i \in DOMAIN queue'[w]
        PROVE  \/ i \in DOMAIN queue[w] /\ queue'[w][i] = queue[w][i]
               \/ w = home[s] /\ queue'[w][i] = item
    BY <2>2, <2>5
  <2>8. ASSUME NEW w \in Servers, NEW i \in DOMAIN queue[w]
        PROVE  LET old == queue[w][i] IN
               /\ home'[old.session] = w
               /\ closing'[old.session] # "lost"
               /\ old.nth \in DOMAIN posted'[old.session]
               /\ posted'[old.session][old.nth] = old.msg
    <3> DEFINE old == queue[w][i]
    <3>1. /\ home[old.session] = w /\ closing[old.session] # "lost"
          /\ old.nth \in DOMAIN posted[old.session]
          /\ posted[old.session][old.nth] = old.msg
      BY DEF QueuedArePosted
    <3>2. old.session \in Sessions
      BY ItemsOfQueue
    <3> HIDE DEF old
    <3>3. home'[old.session] = w /\ closing'[old.session] # "lost"
      BY <2>2, <3>1
    <3>4. /\ old.nth \in DOMAIN posted'[old.session]
          /\ posted'[old.session][old.nth] = posted[old.session][old.nth]
      BY <3>1, <3>2, Growing
    <3> QED
      BY <3>1, <3>3, <3>4 DEF old
  <2>9. item.session = s /\ item.msg = m
    OBVIOUS
  <2> HIDE DEF item
  <2>10. ASSUME NEW w \in Servers, NEW i \in DOMAIN queue'[w]
         PROVE  LET new == queue'[w][i] IN
                /\ home'[new.session] = w
                /\ closing'[new.session] # "lost"
                /\ new.nth \in DOMAIN posted'[new.session]
                /\ posted'[new.session][new.nth] = new.msg
    <3>1. CASE w = home[s] /\ queue'[w][i] = item
      BY <2>2, <2>3, <2>6, <2>9, <3>1
    <3>2. CASE i \in DOMAIN queue[w] /\ queue'[w][i] = queue[w][i]
      BY <2>8, <3>2
    <3> QED
      BY <2>7, <3>1, <3>2
  <2> QED
    BY <2>10 DEF QueuedArePosted
<1>3. ASSUME NEW v \in Servers, HandleNothing(v) \/ JustReply(v) \/ Succeed(v)
      PROVE  QueuedArePosted'
  <2>1. queue[v] # <<>>
    BY <1>3 DEF HandleNothing, JustReply, Succeed, Starts, TypeOK, Idle
  <2>2. queue' = [queue EXCEPT ![v] = Tail(@)] /\ home' = home /\ closing' = closing /\ posted' = posted
    BY <1>3 DEF HandleNothing, JustReply, Succeed, Reply
  <2>3. queue[v] \in Seq(Items)
    BY DEF TypeOK
  <2>4. ASSUME NEW w \in Servers, NEW i \in DOMAIN queue'[w]
        PROVE  \E j \in DOMAIN queue[w] : queue'[w][i] = queue[w][j]
    <3>1. CASE w = v
      <4>1. i \in 1 .. Len(Tail(queue[v])) /\ queue'[v] = Tail(queue[v])
        BY <2>1, <2>2, <2>3, <3>1, HeadTailProperties DEF TypeOK
      <4> QED
        BY <2>1, <3>1, <4>1, FirstOfQueue, ItemsOfQueue
    <3>2. CASE w # v
      BY <2>2, <3>2 DEF TypeOK
    <3> QED
      BY <3>1, <3>2
  <2> QED
    BY <2>2, <2>4 DEF QueuedArePosted
<1>4. ASSUME NEW v \in Servers, Restart(v) PROVE QueuedArePosted'
  <2>1. /\ queue'[v] = <<>> /\ \A w \in Servers \ {v} : queue'[w] = queue[w]
        /\ home' = home /\ posted' = posted
        /\ \A s \in Sessions : home[s] # v => closing'[s] = closing[s]
    BY <1>4 DEF Restart, TypeOK
  <2> QED
    BY <2>1, ItemsOfQueue DEF QueuedArePosted
<1>5. ASSUME NEW s \in Sessions, Close(s) \/ RemoveUserSession(s) \/ EraseSession(s)
      PROVE  queue' = queue /\ \A r \in Sessions : closing'[r] = "lost" => closing[r] = "lost"
  BY <1>5 DEF Close, RemoveUserSession, EraseSession, TypeOK
<1>6. ASSUME NEW v \in Servers,
             \/ Emplace(v) \/ LoginBind(v) \/ LoginIp(v) \/ LoginMap(v) \/ LookupServer(v)
             \/ FindSession(v) \/ SendNotify(v) \/ RpcFails(v)
             \/ \E s \in Sessions : Accept(v, s)
      PROVE  queue' = queue /\ closing' = closing
  BY <1>6 DEF Emplace, LoginBind, LoginIp, LoginMap, LookupServer, FindSession, SendNotify,
              RpcFails, Accept
<1>7. CASE UNCHANGED vars
  BY <1>1, <1>7 DEF vars
<1> QED
  BY <1>1, <1>2, <1>3, <1>4, <1>5, <1>6, <1>7 DEF Next, Worker, Session

\* The messages of a session are queued in the order in which it posted them.
QueuedInOrder ==
  \A v \in Servers : \A i, j \in DOMAIN queue[v] :
    i < j /\ queue[v][i].session = queue[v][j].session => queue[v][i].nth < queue[v][j].nth

LEMMA QueuedInOrderStep ==
  ASSUME TypeOK, QueuedArePosted, QueuedInOrder, [Next]_vars
  PROVE  QueuedInOrder'
<1> USE DEF sessionVars, serverVars, logicVars, redisVars, clientVars, history
<1>1. ASSUME NEW s \in Sessions, NEW m \in Messages[s], Post(s, m) PROVE QueuedInOrder'
  <2> DEFINE item == [session |-> s, msg |-> m, nth |-> Len(posted[s]) + 1]
  <2>1. home[s] \in Servers /\ posted[s] \in Seq(MessageType)
    BY <1>1 DEF Post, TypeOK
  <2>2. /\ queue'[home[s]] = Append(queue[home[s]], item)
        /\ \A w \in Servers \ {home[s]} : queue'[w] = queue[w]
    BY <1>1 DEF Post, TypeOK
  <2>3. /\ item.session = s /\ item.nth = Len(posted[s]) + 1
        /\ item \in Items
        /\ \A i \in DOMAIN queue[home[s]] :
             queue[home[s]][i].session = s => queue[home[s]][i].nth < item.nth
    BY <2>1, ItemsOfQueue, ChatServerAssumption DEF QueuedArePosted, Items
  <2> HIDE DEF item
  <2>4. ASSUME NEW w \in Servers, NEW i \in DOMAIN queue'[w], NEW j \in DOMAIN queue'[w], i < j
        PROVE  /\ i \in DOMAIN queue[w] /\ queue'[w][i] = queue[w][i]
               /\ \/ j \in DOMAIN queue[w] /\ queue'[w][j] = queue[w][j]
                  \/ w = home[s] /\ queue'[w][j] = item
    <3>1. CASE w = home[s]
      <4>1. queue'[w] = Append(queue[w], item) /\ queue[w] \in Seq(Items) /\ item \in Items
        BY <2>2, <2>3, <3>1, ItemsOfQueue
      <4>2. /\ DOMAIN queue[w] = 1 .. Len(queue[w]) /\ Len(queue[w]) \in Nat
            /\ \A k \in DOMAIN queue'[w] :
                 \/ k \in DOMAIN queue[w] /\ queue'[w][k] = queue[w][k]
                 \/ k = Len(queue[w]) + 1 /\ queue'[w][k] = item
        BY <4>1, ElementsOfAppend
      <4> QED
        BY <2>4, <3>1, <4>2
    <3>2. CASE w # home[s]
      BY <2>2, <2>4, <3>2
    <3> QED
      BY <3>1, <3>2
  <2> QED
    BY <2>1, <2>3, <2>4 DEF QueuedInOrder
<1>2. ASSUME NEW v \in Servers, HandleNothing(v) \/ JustReply(v) \/ Succeed(v)
      PROVE  QueuedInOrder'
  <2>1. queue[v] # <<>>
    BY <1>2 DEF HandleNothing, JustReply, Succeed, Starts, TypeOK, Idle
  <2>2. queue'[v] = Tail(queue[v]) /\ \A w \in Servers \ {v} : queue'[w] = queue[w]
    BY <1>2 DEF HandleNothing, JustReply, Succeed, Reply, TypeOK
  <2>3. \A i \in DOMAIN queue'[v] : i \in Nat /\ i + 1 \in DOMAIN queue[v] /\ queue'[v][i] = queue[v][i + 1]
    BY <2>1, <2>2, FirstOfQueue, ItemsOfQueue
  <2>4. ASSUME NEW w \in Servers, NEW i \in DOMAIN queue'[w], NEW j \in DOMAIN queue'[w],
               i < j, queue'[w][i].session = queue'[w][j].session
        PROVE  queue'[w][i].nth < queue'[w][j].nth
    <3>1. CASE w = v
      <4>1. i + 1 < j + 1
        BY <2>3, <2>4, <3>1
      <4> QED
        BY <2>3, <2>4, <3>1, <4>1 DEF QueuedInOrder
    <3>2. CASE w # v
      BY <2>2, <2>4, <3>2 DEF QueuedInOrder
    <3> QED
      BY <3>1, <3>2
  <2> QED
    BY <2>4 DEF QueuedInOrder
<1>3. ASSUME NEW v \in Servers, Restart(v) PROVE QueuedInOrder'
  BY <1>3 DEF Restart, TypeOK, QueuedInOrder
<1>4. CASE queue' = queue
  BY <1>4 DEF QueuedInOrder
<1> QED
  BY <1>1, <1>2, <1>3, <1>4
     DEF Next, Worker, Session, vars, Accept, Emplace, Close, RemoveUserSession, EraseSession,
         LoginBind, LoginIp, LoginMap, LookupServer, FindSession, SendNotify, RpcFails

\* A connection that is not accepted yet has neither sent nor received anything.
NotAccepted ==
  \A s \in Sessions : home[s] = NoServer =>
    closing[s] = "no" /\ posted[s] = <<>> /\ replies[s] = <<>>

LEMMA NotAcceptedStep ==
  ASSUME TypeOK, QueuedArePosted, NotAccepted, [Next]_vars
  PROVE  NotAccepted'
<1> USE DEF sessionVars, serverVars, logicVars, redisVars, clientVars, history
<1>1. ASSUME NEW s \in Sessions, NEW m \in Messages[s], Post(s, m) PROVE NotAccepted'
  BY <1>1 DEF Post, NotAccepted, TypeOK
<1>2. ASSUME NEW v \in Servers, JustReply(v) \/ Succeed(v)
      PROVE  NotAccepted'
  <2>1. queue[v] # <<>>
    BY <1>2 DEF JustReply, Succeed, Starts, TypeOK, Idle
  <2>2. home[Sender(v)] = v
    BY <2>1, FirstOfQueue, ItemsOfQueue DEF QueuedArePosted, Sender
  <2> QED
    BY <1>2, <2>2, ChatServerAssumption DEF JustReply, Succeed, Reply, NotAccepted, TypeOK
<1>3. ASSUME NEW v \in Servers, Restart(v) PROVE NotAccepted'
  BY <1>3, ChatServerAssumption DEF Restart, NotAccepted
<1>4. ASSUME NEW s \in Sessions, Close(s) \/ RemoveUserSession(s) \/ EraseSession(s)
      PROVE  NotAccepted'
  BY <1>4 DEF Close, RemoveUserSession, EraseSession, NotAccepted, TypeOK
<1>5. ASSUME NEW v \in Servers, NEW s \in Sessions, Accept(v, s) PROVE NotAccepted'
  BY <1>5, ChatServerAssumption DEF Accept, NotAccepted, TypeOK
<1>6. CASE UNCHANGED <<home, closing, posted, replies>>
  BY <1>6 DEF NotAccepted
<1> QED
  BY <1>1, <1>2, <1>3, <1>4, <1>5, <1>6
     DEF Next, Worker, Session, vars, Emplace, HandleNothing, LoginBind, LoginIp, LoginMap,
         LookupServer, FindSession, SendNotify, RpcFails

\* What a step may do to the worker of a server.
LEMMA WorkerSteps ==
  ASSUME TypeOK, [Next]_vars, NEW v \in Servers
  PROVE  \/ worker'[v] = worker[v]
         \/ worker'[v].step \in {"idle", "succeed", "find"}
         \/ LoginBind(v) /\ worker'[v].step = "login_ip"
         \/ LoginIp(v) /\ worker'[v].step = "login_map"
         \/ FindSession(v) /\ worker'[v].step = "send"
<1> USE DEF sessionVars, serverVars, logicVars, redisVars, clientVars, history
<1> DEFINE Goal ==
      \/ worker'[v] = worker[v]
      \/ worker'[v].step \in {"idle", "succeed", "find"}
      \/ LoginBind(v) /\ worker'[v].step = "login_ip"
      \/ LoginIp(v) /\ worker'[v].step = "login_map"
      \/ FindSession(v) /\ worker'[v].step = "send"
<1>1. ASSUME NEW w \in Servers, LoginBind(w) PROVE Goal
  BY <1>1 DEF LoginBind, Goto, TypeOK
<1>2. ASSUME NEW w \in Servers, LoginIp(w) PROVE Goal
  <2>1. worker' = [worker EXCEPT ![w] = [step |-> "login_map"]]
    BY <1>2 DEF LoginIp, Goto
  <2> QED
    BY <1>2, <2>1 DEF TypeOK
<1>3. ASSUME NEW w \in Servers, FindSession(w) PROVE Goal
  <2>1. CASE w = v
    BY <1>3, <2>1 DEF FindSession, Goto, TypeOK
  <2>2. CASE w # v
    BY <1>3, <2>2 DEF FindSession, Goto, TypeOK
  <2> QED
    BY <2>1, <2>2
<1>4. ASSUME NEW w \in Servers, LookupServer(w) PROVE Goal
  <2>1. CASE w = v
    BY <1>4, <2>1 DEF LookupServer, Goto, TypeOK
  <2>2. CASE w # v
    BY <1>4, <2>2 DEF LookupServer, Goto, TypeOK
  <2> QED
    BY <2>1, <2>2
<1>5. ASSUME NEW w \in Servers, LoginMap(w) \/ SendNotify(w) \/ RpcFails(w) PROVE Goal
  BY <1>5 DEF LoginMap, SendNotify, RpcFails, Goto, TypeOK
<1>6. ASSUME NEW w \in Servers, JustReply(w) \/ Succeed(w) PROVE Goal
  BY <1>6 DEF JustReply, Succeed, Reply, Idle, TypeOK
<1>7. ASSUME NEW w \in Servers, Restart(w) PROVE Goal
  BY <1>7 DEF Restart, Idle, TypeOK
<1>8. ASSUME NEW s \in Sessions,
             \/ Session(s) \/ \E w \in Servers : Accept(w, s)
      PROVE  worker' = worker
  BY <1>8 DEF Session, Accept, Post, Close, RemoveUserSession, EraseSession
<1>9. ASSUME NEW w \in Servers, Emplace(w) \/ HandleNothing(w)
      PROVE  worker' = worker
  BY <1>9 DEF Emplace, HandleNothing
<1>10. CASE UNCHANGED vars
  BY <1>10 DEF vars
<1> QED
  BY <1>1, <1>2, <1>3, <1>4, <1>5, <1>6, <1>7, <1>8, <1>9, <1>10 DEF Next, Worker

\* A handler that has looked something up still has its message.
LEMMA MessageStays ==
  ASSUME TypeOK, [Next]_vars, NEW v \in Servers, worker'[v] # Idle
  PROVE  queue'[v] = queue[v] /\ Msg(v)' = Msg(v) /\ Sender(v)' = Sender(v)
<1> USE DEF sessionVars, serverVars, logicVars, redisVars, clientVars, history
<1>1. CASE queue' = queue
  BY <1>1 DEF Msg, Sender
<1>2. ASSUME NEW s \in Sessions, NEW m \in Messages[s], Post(s, m)
      PROVE  queue'[v] = queue[v]
  BY <1>2 DEF Post, TypeOK
<1>3. ASSUME NEW w \in Servers, HandleNothing(w) \/ JustReply(w) \/ Succeed(w)
      PROVE  queue'[v] = queue[v]
  <2>1. worker'[w] = Idle
    BY <1>3 DEF HandleNothing, JustReply, Succeed, Starts, Reply, TypeOK
  <2> QED
    BY <1>3, <2>1 DEF HandleNothing, JustReply, Succeed, Reply, TypeOK
<1>4. ASSUME NEW w \in Servers, Restart(w)
      PROVE  queue'[v] = queue[v]
  BY <1>4 DEF Restart, TypeOK
<1>5. queue'[v] = queue[v]
  BY <1>1, <1>2, <1>3, <1>4
     DEF Next, Worker, Session, vars, Accept, Emplace, Close, RemoveUserSession, EraseSession,
         LoginBind, LoginIp, LoginMap, LookupServer, FindSession, SendNotify, RpcFails
<1> QED
  BY <1>5 DEF Msg, Sender

\* A login that is being completed is a valid one, of a session that is bound
\* to a user it has shown to be; a message on its way goes to such a session.
HandlersKnow ==
  \A v \in Servers :
    /\ worker[v].step \in {"login_ip", "login_map"} =>
         /\ Msg(v).kind = "login" /\ Msg(v).valid
         /\ userId[Sender(v)] \in UsersOf(Sender(v))
    /\ worker[v].step = "send" => Msg(v).uid \in UsersOf(worker[v].to)

\* A session that a user is mapped to is one of that server, has shown to be
\* the user, and is bound to a user it has shown to be.
Mapped ==
  \A v \in Servers, u \in Users :
    LET s == userMgr[v][u] IN
    s # NoSession => home[s] = v /\ {u, userId[s]} \subseteq UsersOf(s)

\* A valid login shows the user to the session that sent it.
LEMMA LoginShows ==
  ASSUME TypeOK, QueuedArePosted, NEW v \in Servers, queue[v] # <<>>
  PROVE  /\ home[Sender(v)] = v
         /\ closing[Sender(v)] # "lost"
         /\ Msg(v).kind = "login" /\ Msg(v).valid => Msg(v).uid \in UsersOf(Sender(v))
<1>1. 1 \in DOMAIN queue[v] /\ Head(queue[v]) = queue[v][1]
  BY FirstOfQueue, ItemsOfQueue
<1>2. /\ home[Sender(v)] = v
      /\ closing[Sender(v)] # "lost"
      /\ Msg(v) \in Range(posted[Sender(v)])
  BY <1>1 DEF QueuedArePosted, Sender, Msg, Range
<1>3. Msg(v).kind = "login" => Msg(v).uid \in Users
  BY FirstOfQueue DEF Kinds
<1> QED
  BY <1>2, <1>3 DEF UsersOf

LEMMA HandlersStep ==
  ASSUME TypeOK, QueuedArePosted, HandlersKnow, Mapped, [Next]_vars
  PROVE  HandlersKnow'
<1> USE DEF sessionVars, serverVars, logicVars, redisVars, clientVars, history
<1> SUFFICES ASSUME NEW v \in Servers
             PROVE  /\ worker'[v].step \in {"login_ip", "login_map"} =>
                         /\ Msg(v)'.kind = "login" /\ Msg(v)'.valid
                         /\ (userId[Sender(v)] \in UsersOf(Sender(v)))'
                    /\ worker'[v].step = "send" => Msg(v)'.uid \in UsersOf(worker[v].to)'
  BY DEF HandlersKnow
<1>1. CASE worker'[v].step \in {"login_ip", "login_map"}
  <2>1. worker'[v] # Idle
    BY <1>1 DEF Idle
  <2>2. Msg(v)' = Msg(v) /\ Sender(v)' = Sender(v)
    BY <2>1, MessageStays
  <2>3. CASE LoginBind(v)
    <3>1. queue[v] # <<>> /\ Msg(v).kind = "login" /\ Msg(v).valid /\ Sender(v) \in Sessions
      BY <2>3, FirstOfQueue DEF LoginBind, Starts
    <3>2. userId'[Sender(v)] = Msg(v).uid
      BY <2>3, <3>1 DEF LoginBind, TypeOK
    <3>3. Msg(v).uid \in UsersOf(Sender(v))'
      BY <2>2, <3>1, LoginShows, Growing DEF UsersOf
    <3> QED
      BY <1>1, <2>2, <3>1, <3>2, <3>3
  <2>4. CASE ~ LoginBind(v)
    <3>1. worker[v].step \in {"login_ip", "login_map"}
      BY <1>1, <2>4, WorkerSteps DEF LoginIp
    <3>2. queue[v] # <<>> /\ Sender(v) \in Sessions /\ home[Sender(v)] = v
      BY <3>1, FirstOfQueue, LoginShows DEF TypeOK, Idle
    <3>3. ASSUME NEW w \in Servers, LoginBind(w)
          PROVE  userId'[Sender(v)] = userId[Sender(v)]
      <4>1. w # v /\ queue[w] # <<>>
        BY <2>4, <3>3 DEF LoginBind, Starts
      <4>2. home[Sender(w)] = w
        BY <4>1, LoginShows
      <4> QED
        BY <3>2, <3>3, <4>1, <4>2 DEF LoginBind, TypeOK
    <3>4. ASSUME NEW w \in Servers, NEW s \in Sessions, Accept(w, s)
          PROVE  userId'[Sender(v)] = userId[Sender(v)]
      BY <3>2, <3>4, ChatServerAssumption DEF Accept, TypeOK
    <3>5. userId'[Sender(v)] = userId[Sender(v)]
      BY <3>3, <3>4
         DEF Next, Worker, Session, vars, Emplace, Post, Close, RemoveUserSession,
             EraseSession, HandleNothing, JustReply, Reply, LoginIp, LoginMap,
             LookupServer, FindSession, SendNotify, RpcFails, Succeed, Restart
    <3>6. userId[Sender(v)] \in UsersOf(Sender(v)) /\ Msg(v).kind = "login" /\ Msg(v).valid
      BY <3>1 DEF HandlersKnow
    <3>7. UsersOf(Sender(v)) \subseteq UsersOf(Sender(v))'
      BY <2>2, <3>2, Growing DEF UsersOf
    <3> QED
      BY <1>1, <2>2, <3>5, <3>6, <3>7
  <2> QED
    BY <2>3, <2>4
<1>2. CASE worker'[v].step = "send"
  <2>1. Msg(v)' = Msg(v)
    BY <1>2, MessageStays DEF Idle
  <2>2. CASE FindSession(v)
    <3>1. worker[v].at \in Servers /\ queue[v] # <<>> /\ Msg(v).uid \in Users
      BY <2>2, StepTypes, FirstOfQueue DEF FindSession, TypeOK, Idle
    <3> DEFINE s == userMgr[worker[v].at][Msg(v).uid]
    <3>2. s # NoSession /\ worker'[v].to = s
      BY <1>2, <2>2 DEF FindSession, Goto, TypeOK
    <3>3. s \in Sessions /\ Msg(v).uid \in UsersOf(s)
      BY <3>1, <3>2 DEF Mapped, TypeOK
    <3>4. UsersOf(s) \subseteq UsersOf(worker[v].to)'
      <4> HIDE DEF s
      <4> QED
        BY <3>2, <3>3, Growing DEF UsersOf
    <3> QED
      BY <1>2, <2>1, <3>3, <3>4
  <2>3. CASE ~ FindSession(v)
    <3>1. worker'[v] = worker[v]
      BY <1>2, <2>3, WorkerSteps
    <3>2. worker[v].to \in Sessions
      BY <1>2, <3>1, StepTypes DEF TypeOK
    <3>3. UsersOf(worker[v].to) \subseteq UsersOf(worker[v].to)'
      BY <3>1, <3>2, Growing DEF UsersOf
    <3> QED
      BY <1>2, <2>1, <3>1, <3>3 DEF HandlersKnow
  <2> QED
    BY <2>2, <2>3
<1> QED
  BY <1>1, <1>2

\* Only SetUserSession maps a user to a session.
LEMMA MapSteps ==
  ASSUME TypeOK, [Next]_vars, NEW v \in Servers, NEW u \in Users
  PROVE  \/ userMgr'[v][u] = NoSession
         \/ userMgr'[v][u] = userMgr[v][u] /\ ~ (LoginMap(v) /\ u = Msg(v).uid)
         \/ LoginMap(v) /\ u = Msg(v).uid /\ userMgr'[v][u] = Sender(v)
<1> USE DEF sessionVars, serverVars, logicVars, redisVars, clientVars, history
<1> DEFINE Goal ==
      \/ userMgr'[v][u] = NoSession
      \/ userMgr'[v][u] = userMgr[v][u] /\ ~ (LoginMap(v) /\ u = Msg(v).uid)
      \/ LoginMap(v) /\ u = Msg(v).uid /\ userMgr'[v][u] = Sender(v)
<1>1. CASE LoginMap(v)
  <2>1. userMgr'[v][u] = IF u = Msg(v).uid THEN Sender(v) ELSE userMgr[v][u]
    BY <1>1 DEF LoginMap, TypeOK
  <2> QED
    BY <1>1, <2>1
<1>2. ASSUME NEW w \in Servers, LoginMap(w) PROVE Goal
  <2>1. CASE w = v
    BY <1>1, <1>2, <2>1
  <2>2. CASE w # v
    <3>1. userMgr'[v] = userMgr[v] /\ worker'[v] = worker[v] /\ worker' # worker
      BY <1>2, <2>2 DEF LoginMap, Goto, TypeOK
    <3>2. ~ LoginMap(v)
      BY <3>1 DEF LoginMap, Goto, TypeOK
    <3> QED
      BY <3>1, <3>2
  <2> QED
    BY <2>1, <2>2
<1>3. ASSUME NEW s \in Sessions, RemoveUserSession(s) PROVE Goal
  <2>1. worker' = worker
    BY <1>3 DEF RemoveUserSession
  <2>2. ~ LoginMap(v)
    BY <2>1 DEF LoginMap, Goto, TypeOK
  <2>3. CASE home[s] = v
    BY <1>3, <2>2, <2>3 DEF RemoveUserSession, TypeOK
  <2>4. CASE home[s] # v
    BY <1>3, <2>2, <2>4 DEF RemoveUserSession, TypeOK
  <2> QED
    BY <2>3, <2>4
<1>4. ASSUME NEW w \in Servers, Restart(w) PROVE Goal
  <2>1. restarts' # restarts
    BY <1>4, ChatServerAssumption DEF Restart, TypeOK
  <2>2. ~ LoginMap(v)
    BY <2>1 DEF LoginMap
  <2> QED
    BY <1>4, <2>2 DEF Restart, TypeOK
<1>5. CASE userMgr' = userMgr
  <2>1. CASE LoginMap(v)
    BY <1>1, <2>1
  <2>2. CASE ~ LoginMap(v)
    BY <1>5, <2>2
  <2> QED
    BY <2>1, <2>2
<1>6. ASSUME NEW s \in Sessions,
             \/ \E m \in Messages[s] : Post(s, m)
             \/ Close(s) \/ EraseSession(s)
             \/ \E w \in Servers : Accept(w, s)
      PROVE  userMgr' = userMgr
  BY <1>6 DEF Accept, Post, Close, EraseSession
<1>7. ASSUME NEW w \in Servers,
             \/ Emplace(w) \/ HandleNothing(w) \/ JustReply(w) \/ LoginBind(w) \/ LoginIp(w)
             \/ LookupServer(w) \/ FindSession(w) \/ SendNotify(w) \/ Succeed(w) \/ RpcFails(w)
      PROVE  userMgr' = userMgr
  BY <1>7 DEF Emplace, HandleNothing, JustReply, Reply, LoginBind, LoginIp, LookupServer,
              FindSession, SendNotify, Succeed, RpcFails
<1>8. ASSUME UNCHANGED vars PROVE userMgr' = userMgr
  BY <1>8 DEF vars
<1> QED
  BY <1>2, <1>3, <1>4, <1>5, <1>6, <1>7, <1>8 DEF Next, Worker, Session

\* A session's user_id_ changes when it is accepted and when it logs in.
LEMMA UserIdSteps ==
  ASSUME TypeOK, QueuedArePosted, [Next]_vars, NEW s \in Sessions, home[s] # NoServer
  PROVE  userId'[s] = userId[s] \/ userId'[s] \in UsersOf(s)
<1> USE DEF sessionVars, serverVars, logicVars, redisVars, clientVars, history
<1>1. ASSUME NEW w \in Servers, LoginBind(w) PROVE userId'[s] = userId[s] \/ userId'[s] \in UsersOf(s)
  <2>1. queue[w] # <<>> /\ Msg(w).kind = "login" /\ Msg(w).valid
    BY <1>1 DEF LoginBind, Starts
  <2>2. Msg(w).uid \in UsersOf(Sender(w))
    BY <2>1, LoginShows
  <2> QED
    BY <1>1, <2>2 DEF LoginBind, TypeOK
<1>2. ASSUME NEW w \in Servers, NEW r \in Sessions, Accept(w, r) PROVE userId'[s] = userId[s]
  BY <1>2 DEF Accept, TypeOK
<1>3. CASE userId' = userId
  BY <1>3
<1>4. ASSUME NEW r \in Sessions, Session(r) PROVE userId' = userId
  BY <1>4 DEF Session, Post, Close, RemoveUserSession, EraseSession
<1>5. ASSUME NEW w \in Servers,
             \/ Emplace(w) \/ HandleNothing(w) \/ JustReply(w) \/ LoginIp(w) \/ LoginMap(w)
             \/ LookupServer(w) \/ FindSession(w) \/ SendNotify(w) \/ Succeed(w) \/ RpcFails(w)
             \/ Restart(w)
      PROVE  userId' = userId
  BY <1>5 DEF Emplace, HandleNothing, JustReply, Reply, LoginIp, LoginMap, LookupServer,
              FindSession, SendNotify, Succeed, RpcFails, Restart
<1>6. CASE UNCHANGED vars
  BY <1>6 DEF vars
<1> QED
  BY <1>1, <1>2, <1>3, <1>4, <1>5, <1>6 DEF Next, Worker

\* The handler that maps a user to a session: both are known to belong together.
LEMMA LoginMapFacts ==
  ASSUME TypeOK, QueuedArePosted, HandlersKnow, NEW v \in Servers, LoginMap(v)
  PROVE  /\ queue[v] # <<>> /\ Sender(v) \in Sessions /\ Msg(v).uid \in Users
         /\ home[Sender(v)] = v
         /\ {Msg(v).uid, userId[Sender(v)]} \subseteq UsersOf(Sender(v))
<1>1. worker[v].step = "login_map" /\ worker[v] # Idle
  BY DEF LoginMap, Idle
<1>2. queue[v] # <<>> /\ Msg(v).kind = "login" /\ Msg(v).valid
      /\ userId[Sender(v)] \in UsersOf(Sender(v))
  BY <1>1 DEF HandlersKnow, TypeOK
<1> QED
  BY <1>2, FirstOfQueue, LoginShows DEF Kinds

LEMMA MappedStep ==
  ASSUME TypeOK, QueuedArePosted, HandlersKnow, Mapped, [Next]_vars
  PROVE  Mapped'
<1> SUFFICES ASSUME NEW v \in Servers, NEW u \in Users, userMgr'[v][u] # NoSession
             PROVE  LET s == userMgr'[v][u] IN
                    home'[s] = v /\ u \in UsersOf(userMgr[v][u])' /\ userId'[s] \in UsersOf(userMgr[v][u])'
  BY DEF Mapped
<1>1. PICK s \in Sessions : /\ userMgr'[v][u] = s /\ home[s] = v
                            /\ {u, userId[s]} \subseteq UsersOf(s)
  <2>1. CASE userMgr'[v][u] = userMgr[v][u]
    BY <2>1 DEF Mapped, TypeOK
  <2>2. CASE LoginMap(v) /\ u = Msg(v).uid /\ userMgr'[v][u] = Sender(v)
    BY <2>2, LoginMapFacts
  <2> QED
    BY <2>1, <2>2, MapSteps
<1>2. home'[s] = v /\ UsersOf(s) \subseteq UsersOf(s)'
  BY <1>1, Growing, ChatServerAssumption
<1>3. userId'[s] \in UsersOf(s)
  BY <1>1, UserIdSteps, ChatServerAssumption
<1>4. UsersOf(userMgr[v][u])' = UsersOf(s)'
  BY <1>1 DEF UsersOf
<1> QED
  BY <1>1, <1>2, <1>3, <1>4

LEMMA OnlyToTheUserStep ==
  ASSUME TypeOK, HandlersKnow, OnlyToTheUser, [Next]_vars
  PROVE  OnlyToTheUser'
<1> USE DEF sessionVars, serverVars, logicVars, redisVars, clientVars, history
<1>1. ASSUME NEW v \in Servers, SendNotify(v) PROVE \A s \in Sessions : notified'[s] \subseteq UsersOf(s)
  <2>1. worker[v].step = "send" /\ worker[v].to \in Sessions
    BY <1>1, StepTypes DEF SendNotify, TypeOK
  <2>2. Msg(v).uid \in UsersOf(worker[v].to)
    BY <2>1 DEF HandlersKnow
  <2> QED
    BY <1>1, <2>1, <2>2 DEF SendNotify, OnlyToTheUser, TypeOK
<1>2. ASSUME NEW s \in Sessions, Session(s) \/ \E w \in Servers : Accept(w, s)
      PROVE  notified' = notified
  BY <1>2 DEF Session, Accept, Post, Close, RemoveUserSession, EraseSession
<1>3. ASSUME NEW w \in Servers,
             \/ Emplace(w) \/ HandleNothing(w) \/ JustReply(w) \/ LoginBind(w) \/ LoginIp(w)
             \/ LoginMap(w) \/ LookupServer(w) \/ FindSession(w) \/ Succeed(w) \/ RpcFails(w)
             \/ Restart(w)
      PROVE  notified' = notified
  BY <1>3 DEF Emplace, HandleNothing, JustReply, Reply, LoginBind, LoginIp, LoginMap, LookupServer,
              FindSession, Succeed, RpcFails, Restart
<1>4. ASSUME UNCHANGED vars PROVE notified' = notified
  BY <1>4 DEF vars
<1>5. \A s \in Sessions : notified'[s] \subseteq UsersOf(s)
  BY <1>1, <1>2, <1>3, <1>4 DEF Next, Worker, OnlyToTheUser
<1> QED
  BY <1>5, Growing DEF OnlyToTheUser

\* Whoever has logged in was accepted.
LoginsAccepted ==
  \A u \in Users : \A i \in DOMAIN logins[u] : home[logins[u][i]] \in Servers

\* Only SetUserSession adds to the logins, and it adds the sender.
LEMMA LoginSteps ==
  ASSUME TypeOK, [Next]_vars
  PROVE  \/ logins' = logins /\ \A v \in Servers : ~ LoginMap(v)
         \/ \E v \in Servers :
              LoginMap(v) /\ logins' = [logins EXCEPT ![Msg(v).uid] = Append(@, Sender(v))]
<1> USE DEF sessionVars, serverVars, logicVars, redisVars, clientVars, history
<1>1. ASSUME NEW v \in Servers, LoginMap(v)
      PROVE  logins' = [logins EXCEPT ![Msg(v).uid] = Append(@, Sender(v))]
  BY <1>1 DEF LoginMap
<1>2. ASSUME NEW s \in Sessions, Session(s) \/ \E w \in Servers : Accept(w, s)
      PROVE  logins' = logins
  BY <1>2 DEF Session, Accept, Post, Close, RemoveUserSession, EraseSession
<1>3. ASSUME NEW w \in Servers,
             \/ Emplace(w) \/ HandleNothing(w) \/ JustReply(w) \/ LoginBind(w) \/ LoginIp(w)
             \/ LookupServer(w) \/ FindSession(w) \/ SendNotify(w) \/ Succeed(w) \/ RpcFails(w)
             \/ Restart(w)
      PROVE  logins' = logins
  BY <1>3 DEF Emplace, HandleNothing, JustReply, Reply, LoginBind, LoginIp, LookupServer,
              FindSession, SendNotify, Succeed, RpcFails, Restart
<1>4. ASSUME UNCHANGED vars PROVE logins' = logins
  BY <1>4 DEF vars
<1> QED
  BY <1>1, <1>2, <1>3, <1>4 DEF Next, Worker

\* The logins of a user.
LEMMA LoginTypes ==
  ASSUME TypeOK, NEW u \in Users
  PROVE  /\ logins[u] \in Seq(Sessions) /\ Len(logins[u]) \in Nat
         /\ DOMAIN logins[u] = 1 .. Len(logins[u])
         /\ \A i \in DOMAIN logins[u] : logins[u][i] \in Sessions
<1>1. logins[u] \in Seq(Sessions)
  BY DEF TypeOK
<1> QED
  BY <1>1, ElementOfSeq

LEMMA LatestLoginStep ==
  ASSUME TypeOK, QueuedArePosted, HandlersKnow, LoginsAccepted, MapHoldsLatestLogin, [Next]_vars
  PROVE  LoginsAccepted' /\ MapHoldsLatestLogin'
<1>1. ASSUME NEW u \in Users, NEW i \in DOMAIN logins[u]
      PROVE  home'[logins[u][i]] = home[logins[u][i]] /\ home[logins[u][i]] \in Servers
  BY LoginTypes, Growing, ChatServerAssumption DEF LoginsAccepted
<1>2. CASE logins' = logins /\ \A v \in Servers : ~ LoginMap(v)
  <2>1. LoginsAccepted'
    BY <1>1, <1>2 DEF LoginsAccepted
  <2>2. ASSUME NEW v \in Servers, NEW u \in Users, userMgr'[v][u] # NoSession
        PROVE  userMgr'[v][u] = userMgr[v][u]
    BY <1>2, <2>2, MapSteps
  <2> QED
    BY <1>1, <1>2, <2>1, <2>2 DEF MapHoldsLatestLogin
<1>3. ASSUME NEW v \in Servers, LoginMap(v),
             logins' = [logins EXCEPT ![Msg(v).uid] = Append(@, Sender(v))]
      PROVE  LoginsAccepted' /\ MapHoldsLatestLogin'
  <2> DEFINE s == Sender(v)
             u == Msg(v).uid
             last == Len(logins[u]) + 1
  <2>1. s \in Sessions /\ u \in Users /\ home[s] = v /\ home'[s] = v
    BY <1>3, LoginMapFacts, Growing, ChatServerAssumption
  <2>2. logins'[u] = Append(logins[u], s) /\ \A a \in Users \ {u} : logins'[a] = logins[a]
    BY <1>3, <2>1 DEF TypeOK
  <2> HIDE DEF s, u
  <2>3. /\ last \in DOMAIN logins'[u] /\ logins'[u][last] = s
        /\ \A i \in DOMAIN logins[u] : i \in DOMAIN logins'[u] /\ logins'[u][i] = logins[u][i] /\ i < last
        /\ \A i \in DOMAIN logins'[u] : i \in DOMAIN logins[u] \/ i = last
    BY <2>1, <2>2, LoginTypes
  <2> HIDE DEF last
  <2>4. LoginsAccepted'
    BY <1>1, <2>1, <2>2, <2>3 DEF LoginsAccepted
  <2>5. ASSUME NEW w \in Servers, NEW a \in Users, userMgr'[w][a] # NoSession
        PROVE  \E i \in DOMAIN logins'[a] :
                 /\ logins'[a][i] = userMgr'[w][a]
                 /\ home'[logins'[a][i]] = w
                 /\ \A j \in DOMAIN logins'[a] : j > i => home'[logins'[a][j]] # w
    <3>1. CASE w = v /\ a = u
      <4>1. userMgr'[w][a] = s
        BY <1>3, <2>5, <3>1, MapSteps DEF s, u
      <4>2. \A j \in DOMAIN logins'[u] : ~ (j > last)
        BY <2>1, <2>3, LoginTypes DEF last
      <4> QED
        BY <2>1, <2>3, <3>1, <4>1, <4>2
    <3>2. CASE ~ (w = v /\ a = u)
      <4>1. userMgr'[w][a] = userMgr[w][a]
        <5>1. CASE w = v
          BY <2>5, <3>2, <5>1, MapSteps DEF u
        <5>2. CASE w # v
          BY <1>3, <2>1, <5>2 DEF LoginMap, TypeOK, u
        <5> QED
          BY <5>1, <5>2
      <4>2. PICK i \in DOMAIN logins[a] :
                 /\ logins[a][i] = userMgr[w][a]
                 /\ home[logins[a][i]] = w
                 /\ \A j \in DOMAIN logins[a] : j > i => home[logins[a][j]] # w
        BY <2>5, <4>1 DEF MapHoldsLatestLogin
      <4>3. CASE a # u
        BY <1>1, <2>2, <4>1, <4>2, <4>3
      <4>4. CASE a = u
        <5>1. w # v
          BY <3>2, <4>4
        <5> QED
          BY <1>1, <2>1, <2>3, <4>1, <4>2, <4>4, <5>1
      <4> QED
        BY <4>3, <4>4
    <3> QED
      BY <3>1, <3>2
  <2> QED
    BY <2>4, <2>5 DEF MapHoldsLatestLogin
<1> QED
  BY <1>2, <1>3, LoginSteps

\* What a step may do to what a session has posted and to its replies.
LEMMA RequestSteps ==
  ASSUME TypeOK, [Next]_vars
  PROVE  \/ UNCHANGED <<queue, posted, replies>>
         \/ \E s \in Sessions : \E m \in Messages[s] : Post(s, m)
         \/ \E v \in Servers : HandleNothing(v)
         \/ \E v \in Servers : Reply(v) /\ queue[v] # <<>> /\ Msg(v).kind \in Kinds
         \/ \E v \in Servers : Restart(v)
<1> USE DEF sessionVars, serverVars, logicVars, redisVars, clientVars, history
<1>1. ASSUME NEW v \in Servers, JustReply(v) \/ Succeed(v)
      PROVE  Reply(v) /\ queue[v] # <<>> /\ Msg(v).kind \in Kinds
  BY <1>1 DEF JustReply, Succeed, Starts, TypeOK, Idle
<1>2. ASSUME NEW s \in Sessions,
             \/ Close(s) \/ RemoveUserSession(s) \/ EraseSession(s)
             \/ \E w \in Servers : Accept(w, s)
      PROVE  UNCHANGED <<queue, posted, replies>>
  BY <1>2 DEF Accept, Close, RemoveUserSession, EraseSession
<1>3. ASSUME NEW w \in Servers,
             \/ Emplace(w) \/ LoginBind(w) \/ LoginIp(w) \/ LoginMap(w)
             \/ LookupServer(w) \/ FindSession(w) \/ SendNotify(w) \/ RpcFails(w)
      PROVE  UNCHANGED <<queue, posted, replies>>
  BY <1>3 DEF Emplace, LoginBind, LoginIp, LoginMap, LookupServer, FindSession, SendNotify, RpcFails
<1>4. ASSUME UNCHANGED vars PROVE UNCHANGED <<queue, posted, replies>>
  BY <1>4 DEF vars
<1> QED
  BY <1>1, <1>2, <1>3, <1>4 DEF Next, Worker, Session

\* A session that is lost stays lost, and is if its server dies.
LEMMA LostSteps ==
  ASSUME TypeOK, [Next]_vars, NEW s \in Sessions, closing'[s] # "lost"
  PROVE  closing[s] # "lost" /\ \A v \in Servers : Restart(v) => home[s] # v
<1> USE DEF sessionVars, serverVars, logicVars, redisVars, clientVars, history
<1>1. ASSUME NEW v \in Servers, Restart(v) PROVE closing[s] # "lost" /\ home[s] # v
  BY <1>1 DEF Restart, TypeOK
<1>2. ASSUME NEW r \in Sessions, Session(r) \/ \E v \in Servers : Accept(v, r)
      PROVE  closing[s] # "lost"
  BY <1>2 DEF Session, Post, Close, RemoveUserSession, EraseSession, Accept, TypeOK
<1>3. ASSUME NEW w \in Servers,
             \/ Emplace(w) \/ HandleNothing(w) \/ JustReply(w) \/ LoginBind(w) \/ LoginIp(w)
             \/ LoginMap(w) \/ LookupServer(w) \/ FindSession(w) \/ SendNotify(w) \/ Succeed(w)
             \/ RpcFails(w)
      PROVE  closing' = closing
  BY <1>3 DEF Emplace, HandleNothing, JustReply, Reply, LoginBind, LoginIp, LoginMap, LookupServer,
              FindSession, SendNotify, Succeed, RpcFails
<1>4. ASSUME UNCHANGED vars PROVE closing' = closing
  BY <1>4 DEF vars
<1> QED
  BY <1>1, <1>2, <1>3, <1>4 DEF Next, Worker

\* The numbers of waiting messages, by their places in the queue.
LEMMA WaitingPlaces ==
  ASSUME NEW s \in Sessions
  PROVE  /\ \A n : n \in Waiting(s) <=>
              \E i \in DOMAIN queue[home[s]] : queue[home[s]][i].session = s /\ n = queue[home[s]][i].nth
         /\ \A n : n \in Waiting(s)' <=>
              \E i \in DOMAIN queue'[home'[s]] :
                queue'[home'[s]][i].session = s /\ n = queue'[home'[s]][i].nth
BY DEF Waiting, Range

AnsweredFor(s) ==
  /\ Answered(s) \subseteq Requests(s)
  /\ Requests(s) \subseteq Answered(s) \cup Waiting(s)
  /\ \A i, j \in DOMAIN replies[s] : i < j => replies[s][i] < replies[s][j]
  /\ \A n \in Answered(s), m \in Waiting(s) : n < m

LEMMA AnsweredStep ==
  ASSUME TypeOK, QueuedArePosted, QueuedInOrder, NotAccepted, AnsweredInOrder, [Next]_vars
  PROVE  AnsweredInOrder'
<1> SUFFICES ASSUME NEW s \in Sessions, home'[s] # NoServer, closing'[s] # "lost"
             PROVE  AnsweredFor(s)'
  BY DEF AnsweredInOrder, AnsweredFor
<1>1. closing[s] # "lost" /\ \A v \in Servers : Restart(v) => home[s] # v
  BY LostSteps
<1>2. CASE home[s] = NoServer
  <2>1. posted[s] = <<>> /\ replies[s] = <<>>
    BY <1>2 DEF NotAccepted
  <2>2. ASSUME NEW r \in Sessions, NEW m \in Messages[r], Post(r, m)
        PROVE  posted'[s] = posted[s] /\ replies'[s] = replies[s]
    BY <1>2, <2>2 DEF Post, TypeOK
  <2>3. ASSUME NEW v \in Servers, HandleNothing(v) \/ Restart(v)
        PROVE  posted'[s] = posted[s] /\ replies'[s] = replies[s]
    BY <2>3 DEF HandleNothing, Restart, clientVars
  <2>4. ASSUME NEW v \in Servers, Reply(v), queue[v] # <<>>
        PROVE  posted'[s] = posted[s] /\ replies'[s] = replies[s]
    <3>1. home[Sender(v)] = v
      BY <2>4, LoginShows
    <3> QED
      BY <1>2, <2>4, <3>1, ChatServerAssumption DEF Reply, TypeOK
  <2>5. posted'[s] = <<>> /\ replies'[s] = <<>>
    BY <2>1, <2>2, <2>3, <2>4, RequestSteps
  <2>6. Requests(s)' = {} /\ Answered(s)' = {} /\ DOMAIN replies'[s] = {}
    BY <2>5 DEF Requests, Answered, Range
  <2> QED
    BY <2>6 DEF AnsweredFor
<1>3. CASE home[s] # NoServer
  <2> DEFINE v == home[s]
  <2>1. /\ home'[s] = v /\ v \in Servers /\ AnsweredFor(s)
    BY <1>1, <1>3, Growing DEF AnsweredInOrder, AnsweredFor, TypeOK
  <2> HIDE DEF v
  <2>2. CASE UNCHANGED <<queue, posted, replies>>
    BY <2>1, <2>2 DEF AnsweredFor, Answered, Requests, Waiting, v
  <2>3. CASE \E w \in Servers : Restart(w)
    <3>1. queue'[v] = queue[v] /\ posted' = posted /\ replies' = replies
      BY <1>1, <2>1, <2>3 DEF Restart, clientVars, TypeOK, v
    <3> QED
      BY <2>1, <3>1 DEF AnsweredFor, Answered, Requests, Waiting, v
  <2>4. ASSUME NEW q \in Sessions, NEW m \in Messages[q], Post(q, m)
        PROVE  AnsweredFor(s)'
    <3> DEFINE item == [session |-> q, msg |-> m, nth |-> Len(posted[q]) + 1]
    <3>1. /\ replies' = replies /\ home[q] \in Servers
          /\ posted[s] \in Seq(MessageType) /\ posted[q] \in Seq(MessageType) /\ m \in MessageType
          /\ posted' = [posted EXCEPT ![q] = Append(@, m)]
          /\ queue' = [queue EXCEPT ![home[q]] = Append(@, item)]
      BY <2>4, ChatServerAssumption DEF Post, TypeOK
    <3>2. item \in Items /\ item.session = q /\ item.nth = Len(posted[q]) + 1
      BY <3>1 DEF Items
    <3> HIDE DEF item
    <3>3. queue'[v] = IF v = home[q] THEN Append(queue[v], item) ELSE queue[v]
      BY <2>1, <3>1 DEF TypeOK
    <3>4. ASSUME NEW n PROVE n \in Waiting(s)' <=> n \in Waiting(s) \/ (q = s /\ n = item.nth)
      <4>1. CASE v = home[q]
        <5>1. /\ \A i \in DOMAIN queue[v] : i \in DOMAIN queue'[v] /\ queue'[v][i] = queue[v][i]
              /\ \A i \in DOMAIN queue'[v] :
                   (i \in DOMAIN queue[v] /\ queue'[v][i] = queue[v][i]) \/ queue'[v][i] = item
              /\ \E i \in DOMAIN queue'[v] : queue'[v][i] = item
          <6>1. queue[v] \in Seq(Items) /\ queue'[v] = Append(queue[v], item)
            BY <2>1, <3>3, <4>1, ItemsOfQueue
          <6>2. /\ DOMAIN queue[v] = 1 .. Len(queue[v]) /\ Len(queue[v]) \in Nat
                /\ DOMAIN queue'[v] = 1 .. Len(queue[v]) + 1
                /\ \A i \in 1 .. Len(queue[v]) : queue'[v][i] = queue[v][i]
                /\ queue'[v][Len(queue[v]) + 1] = item
            BY <3>2, <6>1
          <6> QED
            BY <6>2
        <5>2. \A k : k \in Waiting(s) <=>
                      \E i \in DOMAIN queue[v] : queue[v][i].session = s /\ k = queue[v][i].nth
          BY WaitingPlaces DEF v
        <5>3. \A k : k \in Waiting(s)' <=>
                      \E i \in DOMAIN queue'[v] : queue'[v][i].session = s /\ k = queue'[v][i].nth
          BY <2>1, WaitingPlaces
        <5>4. ASSUME n \in Waiting(s) PROVE n \in Waiting(s)'
          BY <5>1, <5>2, <5>3, <5>4
        <5>5. ASSUME n \in Waiting(s)' PROVE n \in Waiting(s) \/ (q = s /\ n = item.nth)
          BY <3>2, <5>1, <5>2, <5>3, <5>5
        <5>6. ASSUME q = s, n = item.nth PROVE n \in Waiting(s)'
          BY <3>2, <5>1, <5>3, <5>6
        <5> QED
          BY <5>4, <5>5, <5>6
      <4>2. CASE v # home[q]
        BY <2>1, <3>3, <4>2, WaitingPlaces DEF v
      <4> QED
        BY <4>1, <4>2
    <3>5. CASE q # s
      <4>1. posted'[s] = posted[s]
        BY <3>1, <3>5 DEF TypeOK
      <4> QED
        BY <2>1, <3>1, <3>4, <3>5, <4>1 DEF AnsweredFor, Answered, Requests
    <3>6. CASE q = s
      <4>1. posted'[s] = Append(posted[s], m)
        BY <3>1, <3>6 DEF TypeOK
      <4>2. /\ Requests(s) \subseteq Requests(s)'
            /\ Requests(s)' \subseteq Requests(s) \cup {item.nth}
            /\ \A n \in Requests(s) : n < item.nth
        BY <3>1, <3>2, <3>6, <4>1 DEF Requests
      <4>3. Answered(s)' = Answered(s)
        BY <3>1 DEF Answered
      <4> QED
        BY <2>1, <3>1, <3>4, <3>6, <4>2, <4>3 DEF AnsweredFor
    <3> QED
      BY <3>5, <3>6
  <2>5. ASSUME NEW w \in Servers \ {v}, queue' = [queue EXCEPT ![w] = Tail(@)]
        PROVE  Waiting(s)' = Waiting(s)
    <3>1. queue'[v] = queue[v]
      BY <2>1, <2>5 DEF TypeOK
    <3> QED
      BY <2>1, <3>1 DEF Waiting, v
  <2>6. ASSUME queue[v] # <<>>, queue' = [queue EXCEPT ![v] = Tail(@)]
        PROVE  /\ Waiting(s)' \subseteq Waiting(s)
               /\ \A n \in Waiting(s) :
                    n \in Waiting(s)' \/ (Sender(v) = s /\ n = Head(queue[v]).nth)
               /\ Sender(v) = s => Head(queue[v]).nth \in Waiting(s)
               /\ Sender(v) = s => \A n \in Waiting(s)' : Head(queue[v]).nth < n
    <3>1. /\ 1 \in DOMAIN queue[v] /\ Head(queue[v]) = queue[v][1]
          /\ \A i \in DOMAIN queue'[v] : i + 1 \in DOMAIN queue[v] /\ 1 < i + 1 /\ queue'[v][i] = queue[v][i + 1]
          /\ \A i \in DOMAIN queue[v] :
               i # 1 => i - 1 \in DOMAIN queue'[v] /\ queue'[v][i - 1] = queue[v][i]
      <4>1. queue'[v] = Tail(queue[v])
        BY <2>1, <2>6 DEF TypeOK
      <4>2. /\ Len(queue[v]) \in Nat /\ DOMAIN queue[v] = 1 .. Len(queue[v])
            /\ Head(queue[v]) = queue[v][1] /\ queue[v] # <<>> /\ queue[v] \in Seq(Items)
            /\ Tail(queue[v]) \in Seq(Items) /\ Len(Tail(queue[v])) = Len(queue[v]) - 1
            /\ \A i \in 1 .. Len(Tail(queue[v])) : Tail(queue[v])[i] = queue[v][i + 1]
        BY <2>1, <2>6, FirstOfQueue, ItemsOfQueue
      <4>3. Len(queue[v]) # 0
        BY <4>2
      <4>4. DOMAIN queue'[v] = 1 .. Len(queue[v]) - 1
        BY <4>1, <4>2
      <4> QED
        BY <4>1, <4>2, <4>3, <4>4
    <3>2. Waiting(s)' \subseteq Waiting(s)
      BY <2>1, <3>1, WaitingPlaces DEF v
    <3>3. ASSUME NEW n \in Waiting(s), n \notin Waiting(s)'
          PROVE  Sender(v) = s /\ n = Head(queue[v]).nth
      BY <2>1, <3>1, <3>3, WaitingPlaces DEF v, Sender
    <3>4. Sender(v) = s => Head(queue[v]).nth \in Waiting(s)
      BY <2>1, <3>1, WaitingPlaces DEF v, Sender
    <3>5. ASSUME Sender(v) = s, NEW n \in Waiting(s)'
          PROVE  Head(queue[v]).nth < n
      <4>1. PICK i \in DOMAIN queue'[v] : queue'[v][i].session = s /\ n = queue'[v][i].nth
        BY <2>1, <3>5, WaitingPlaces
      <4> QED
        BY <2>1, <3>1, <3>5, <4>1 DEF QueuedInOrder, Sender
    <3> QED
      BY <3>2, <3>3, <3>4, <3>5
  <2>7. ASSUME NEW w \in Servers, queue[w] # <<>>, Sender(w) = s
        PROVE  /\ w = v
               /\ Head(queue[w]).nth \in Requests(s) <=> Msg(w).kind \in Kinds
    <3>1. 1 \in DOMAIN queue[w] /\ Head(queue[w]) = queue[w][1]
      BY <2>7, FirstOfQueue, ItemsOfQueue
    <3> QED
      BY <2>7, <3>1 DEF QueuedArePosted, Sender, Msg, Requests, v
  <2>8. ASSUME NEW w \in Servers, HandleNothing(w)
        PROVE  AnsweredFor(s)'
    <3>1. /\ queue[w] # <<>> /\ Msg(w).kind \notin Kinds
          /\ queue' = [queue EXCEPT ![w] = Tail(@)] /\ posted' = posted /\ replies' = replies
      BY <2>8 DEF HandleNothing, Starts, Kinds, NotifyKinds, clientVars
    <3>2. Requests(s)' = Requests(s) /\ Answered(s)' = Answered(s)
      BY <3>1 DEF Requests, Answered
    <3>3. CASE w # v
      <4>1. Waiting(s)' = Waiting(s)
        BY <2>5, <3>1, <3>3
      <4> QED
        BY <2>1, <3>1, <3>2, <4>1 DEF AnsweredFor
    <3>4. CASE w = v
      <4>1. /\ Waiting(s)' \subseteq Waiting(s)
            /\ \A n \in Waiting(s) :
                 n \in Waiting(s)' \/ (Sender(v) = s /\ n = Head(queue[v]).nth)
        BY <2>6, <3>1, <3>4
      <4>2. Sender(v) = s => Head(queue[v]).nth \notin Requests(s)
        BY <2>7, <3>1, <3>4
      <4> QED
        BY <2>1, <3>1, <3>2, <4>1, <4>2 DEF AnsweredFor
    <3> QED
      BY <3>3, <3>4
  <2>9. ASSUME NEW w \in Servers, Reply(w), queue[w] # <<>>, Msg(w).kind \in Kinds
        PROVE  AnsweredFor(s)'
    <3>1. /\ queue' = [queue EXCEPT ![w] = Tail(@)] /\ posted' = posted
          /\ replies' = [replies EXCEPT ![Sender(w)] = Append(@, Head(queue[w]).nth)]
      BY <2>9 DEF Reply
    <3>2. Requests(s)' = Requests(s)
      BY <3>1 DEF Requests
    <3>3. CASE Sender(w) # s
      <4>1. replies'[s] = replies[s]
        BY <3>1, <3>3 DEF TypeOK
      <4>2. Answered(s)' = Answered(s)
        BY <4>1 DEF Answered
      <4>3. Waiting(s)' = Waiting(s)
        <5>1. CASE w # v
          BY <2>5, <2>9, <3>1, <5>1
        <5>2. CASE w = v
          BY <2>9, <2>6, <3>1, <3>3, <5>2
        <5> QED
          BY <5>1, <5>2
      <4> QED
        BY <2>1, <3>2, <4>1, <4>2, <4>3 DEF AnsweredFor
    <3>4. CASE Sender(w) = s
      <4> DEFINE n == Head(queue[w]).nth
      <4>1. /\ w = v /\ n \in Requests(s) /\ n \in Waiting(s) /\ n \in Nat
            /\ \A k \in Waiting(s)' : n < k
            /\ Waiting(s)' \subseteq Waiting(s) /\ Waiting(s) \subseteq Waiting(s)' \cup {n}
        <5>1. w = v /\ n \in Requests(s) /\ n \in Nat
          BY <2>7, <2>9, <3>4, FirstOfQueue
        <5> QED
          BY <2>9, <2>6, <3>1, <3>4, <5>1
      <4>2. replies[s] \in Seq(Nat) /\ replies'[s] = Append(replies[s], n)
        BY <3>1, <3>4 DEF TypeOK
      <4> HIDE DEF n
      <4>3. Answered(s)' = Answered(s) \cup {n}
        BY <4>1, <4>2, RangeOfAppend DEF Answered
      <4>4. \A i, j \in DOMAIN replies'[s] : i < j => replies'[s][i] < replies'[s][j]
        <5>1. \A i \in DOMAIN replies[s] : replies[s][i] < n
          BY <2>1, <4>1 DEF AnsweredFor, Answered, Range
        <5>2. \A i \in DOMAIN replies'[s] :
                \/ i \in DOMAIN replies[s] /\ replies'[s][i] = replies[s][i]
                \/ i = Len(replies[s]) + 1 /\ replies'[s][i] = n
          BY <4>1, <4>2, ElementsOfAppend
        <5>3. DOMAIN replies[s] = 1 .. Len(replies[s]) /\ Len(replies[s]) \in Nat
          BY <4>2
        <5>4. \A i, j \in DOMAIN replies[s] : i < j => replies[s][i] < replies[s][j]
          BY <2>1 DEF AnsweredFor
        <5> QED
          BY <5>1, <5>2, <5>3, <5>4
      <4> QED
        BY <2>1, <3>2, <4>1, <4>3, <4>4 DEF AnsweredFor
    <3> QED
      BY <3>3, <3>4
  <2> QED
    BY <2>1, <2>2, <2>3, <2>4, <2>8, <2>9, RequestSteps
<1> QED
  BY <1>2, <1>3

\* The sessions of a server were accepted there; one that the acceptor has not
\* emplaced yet is not among them, and a Close of it has not found it.
AcceptedFirst ==
  \A v \in Servers :
    /\ \A s \in sessions[v] : home[s] = v
    /\ LET s == acceptor[v] IN
       s # NoSession => /\ home[s] = v
                        /\ s \notin sessions[v]
                        /\ closing[s] # "no" => s \in early

LEMMA LeaksStep ==
  ASSUME TypeOK, NotAccepted, AcceptedFirst, OnlyEarlyCloseLeaks, [Next]_vars
  PROVE  AcceptedFirst' /\ OnlyEarlyCloseLeaks'
<1> USE DEF sessionVars, serverVars, logicVars, redisVars, clientVars, history
<1> DEFINE Goal == AcceptedFirst' /\ OnlyEarlyCloseLeaks'
<1>1. ASSUME NEW v \in Servers, NEW s \in Sessions, Accept(v, s) PROVE Goal
  <2>1. /\ home[s] = NoServer /\ closing[s] = "no" /\ s # NoSession
        /\ acceptor' = [acceptor EXCEPT ![v] = s] /\ home' = [home EXCEPT ![s] = v]
        /\ UNCHANGED <<closing, sessions, early>>
    BY <1>1, ChatServerAssumption DEF Accept, NotAccepted
  <2>2. \A w \in Servers : s \notin sessions[w]
    BY <2>1, ChatServerAssumption DEF AcceptedFirst
  <2>3. /\ \A w \in Servers : acceptor'[w] = IF w = v THEN s ELSE acceptor[w]
        /\ \A r \in Sessions : home'[r] = IF r = s THEN v ELSE home[r]
    BY <2>1 DEF TypeOK
  <2>4. \A w \in Servers : acceptor[w] # s
    BY <2>1, ChatServerAssumption DEF AcceptedFirst
  <2>5. AcceptedFirst'
    BY <2>1, <2>2, <2>3, <2>4 DEF AcceptedFirst, TypeOK
  <2>6. OnlyEarlyCloseLeaks'
    BY <2>1, <2>2, <2>3 DEF OnlyEarlyCloseLeaks
  <2> QED
    BY <2>5, <2>6
<1>2. ASSUME NEW v \in Servers, Emplace(v) PROVE Goal
  BY <1>2 DEF Emplace, AcceptedFirst, OnlyEarlyCloseLeaks, TypeOK
<1>3. ASSUME NEW s \in Sessions, Close(s) PROVE Goal
  BY <1>3 DEF Close, AcceptedFirst, OnlyEarlyCloseLeaks, TypeOK
<1>4. ASSUME NEW s \in Sessions, RemoveUserSession(s) PROVE Goal
  <2>1. /\ closing[s] # "no" /\ UNCHANGED <<home, acceptor, sessions, early>>
        /\ closing'[s] = "erase" /\ \A r \in Sessions \ {s} : closing'[r] = closing[r]
    BY <1>4 DEF RemoveUserSession, TypeOK
  <2>2. AcceptedFirst'
    BY <2>1 DEF AcceptedFirst, TypeOK
  <2>3. OnlyEarlyCloseLeaks'
    BY <2>1 DEF OnlyEarlyCloseLeaks
  <2> QED
    BY <2>2, <2>3
<1>5. ASSUME NEW s \in Sessions, EraseSession(s) PROVE Goal
  <2>1. /\ closing[s] # "no" /\ UNCHANGED <<home, acceptor, early>>
        /\ closing'[s] = "done" /\ \A r \in Sessions \ {s} : closing'[r] = closing[r]
        /\ home[s] \in Servers
        /\ \A w \in Servers : sessions'[w] = IF w = home[s] THEN sessions[w] \ {s} ELSE sessions[w]
    BY <1>5 DEF EraseSession, TypeOK, NotAccepted
  <2>2. AcceptedFirst'
    <3> SUFFICES ASSUME NEW w \in Servers
                 PROVE  /\ \A r \in sessions'[w] : home'[r] = w
                        /\ acceptor'[w] # NoSession =>
                             /\ home'[acceptor'[w]] = w
                             /\ acceptor'[w] \notin sessions'[w]
                             /\ closing'[acceptor'[w]] # "no" => acceptor'[w] \in early'
      BY DEF AcceptedFirst
    <3>1. sessions'[w] \subseteq sessions[w] /\ acceptor'[w] = acceptor[w]
          /\ acceptor[w] \in Sessions \cup {NoSession}
      BY <2>1 DEF TypeOK
    <3> QED
      BY <2>1, <3>1 DEF AcceptedFirst
  <2>3. OnlyEarlyCloseLeaks'
    <3> SUFFICES ASSUME NEW r \in Sessions, closing'[r] = "done", r \in sessions'[home[r]]
                 PROVE  r \in early
      BY <2>1 DEF OnlyEarlyCloseLeaks
    <3>1. r # s
      BY <2>1
    <3>2. closing[r] = "done"
      BY <2>1, <3>1
    <3>3. home[r] \in Servers
      BY <3>2 DEF NotAccepted, TypeOK
    <3>4. r \in sessions[home[r]]
      BY <2>1, <3>1, <3>3
    <3> QED
      BY <3>2, <3>4 DEF OnlyEarlyCloseLeaks
  <2> QED
    BY <2>2, <2>3
<1>6. ASSUME NEW v \in Servers, Restart(v) PROVE Goal
  BY <1>6, ChatServerAssumption DEF Restart, AcceptedFirst, OnlyEarlyCloseLeaks, TypeOK
<1>7. CASE UNCHANGED <<home, closing, acceptor, sessions, early>>
  BY <1>7 DEF AcceptedFirst, OnlyEarlyCloseLeaks
<1>8. ASSUME NEW w \in Servers,
             \/ HandleNothing(w) \/ JustReply(w) \/ LoginBind(w) \/ LoginIp(w)
             \/ LoginMap(w) \/ LookupServer(w) \/ FindSession(w) \/ SendNotify(w) \/ Succeed(w)
             \/ RpcFails(w)
      PROVE  UNCHANGED <<home, closing, acceptor, sessions, early>>
  BY <1>8 DEF HandleNothing, JustReply, Reply, LoginBind, LoginIp, LoginMap, LookupServer,
              FindSession, SendNotify, Succeed, RpcFails
<1>9. ASSUME NEW s \in Sessions, NEW m \in Messages[s], Post(s, m)
      PROVE  UNCHANGED <<home, closing, acceptor, sessions, early>>
  BY <1>9 DEF Post
<1>10. ASSUME UNCHANGED vars PROVE UNCHANGED <<home, closing, acceptor, sessions, early>>
  BY <1>10 DEF vars
<1> QED
  BY <1>1, <1>2, <1>3, <1>4, <1>5, <1>6, <1>7, <1>8, <1>9, <1>10 DEF Next, Worker, Session

\* No user is mapped to a session whose Close has come past RemoveUserSession,
\* unless the Close did not find it or the login was completed afterwards, or
\* the client showed two users' tokens.
Unmapped ==
  \A s \in Sessions :
    /\ closing[s] \in {"erase", "done"}
    /\ s \notin early \cup late
    /\ \A a, b \in UsersOf(s) : a = b
    => \A v \in Servers, u \in Users : userMgr[v][u] # s

LEMMA UnmappedStep ==
  ASSUME TypeOK, QueuedArePosted, NotAccepted, HandlersKnow, Mapped, Unmapped, [Next]_vars
  PROVE  Unmapped'
<1> USE DEF sessionVars, serverVars, logicVars, redisVars, clientVars, history
<1> SUFFICES ASSUME NEW s \in Sessions,
                    closing'[s] \in {"erase", "done"},
                    s \notin early' \cup late',
                    \A a, b \in UsersOf(s)' : a = b,
                    NEW v \in Servers, NEW u \in Users, userMgr'[v][u] = s
             PROVE  FALSE
  BY DEF Unmapped
<1>1. /\ early \subseteq early' /\ late \subseteq late'
      /\ \/ closing[s] = closing'[s]
         \/ RemoveUserSession(s) /\ closing[s] = "unmap"
         \/ EraseSession(s) /\ closing[s] = "erase"
  <2>1. ASSUME NEW r \in Sessions, Close(r)
        PROVE  /\ early \subseteq early' /\ late = late'
               /\ closing[s] = closing'[s]
    BY <2>1 DEF Close, TypeOK
  <2>2. ASSUME NEW r \in Sessions, RemoveUserSession(r) \/ EraseSession(r)
        PROVE  /\ early = early' /\ late = late'
               /\ r # s => closing'[s] = closing[s]
               /\ RemoveUserSession(r) => closing[r] = "unmap"
               /\ EraseSession(r) => closing[r] = "erase"
    BY <2>2 DEF RemoveUserSession, EraseSession, TypeOK
  <2>3. ASSUME NEW r \in Sessions,
               \/ \E m \in Messages[r] : Post(r, m)
               \/ \E w \in Servers : Accept(w, r)
        PROVE  UNCHANGED <<closing, early, late>>
    BY <2>3 DEF Post, Accept
  <2>4. ASSUME NEW w \in Servers,
               \/ Emplace(w) \/ HandleNothing(w) \/ JustReply(w) \/ LoginBind(w) \/ LoginIp(w)
               \/ LookupServer(w) \/ FindSession(w) \/ SendNotify(w) \/ Succeed(w)
               \/ RpcFails(w)
        PROVE  UNCHANGED <<closing, early, late>>
    BY <2>4 DEF Emplace, HandleNothing, JustReply, Reply, LoginBind, LoginIp, LookupServer,
                FindSession, SendNotify, Succeed, RpcFails
  <2>5. ASSUME NEW w \in Servers, LoginMap(w)
        PROVE  closing' = closing /\ early' = early /\ late \subseteq late'
    BY <2>5 DEF LoginMap
  <2>6. ASSUME NEW w \in Servers, Restart(w)
        PROVE  closing'[s] = closing[s] /\ early' = early /\ late' = late
    BY <2>6 DEF Restart
  <2>7. ASSUME UNCHANGED vars PROVE UNCHANGED <<closing, early, late>>
    BY <2>7 DEF vars
  <2> QED
    BY <2>1, <2>2, <2>3, <2>4, <2>5, <2>6, <2>7 DEF Next, Worker, Session
<1>2. closing[s] # "no" /\ home[s] # NoServer
  BY <1>1 DEF NotAccepted
<1>3. UsersOf(s) \subseteq UsersOf(s)'
  BY Growing
<1>4. CASE LoginMap(v) /\ u = Msg(v).uid /\ userMgr'[v][u] = Sender(v)
  <2>1. closing' = closing /\ s \in late'
    BY <1>2, <1>4 DEF LoginMap
  <2> QED
    BY <2>1
<1>5. CASE userMgr'[v][u] = userMgr[v][u]
  <2>1. CASE closing[s] \in {"erase", "done"}
    BY <1>1, <1>3, <1>5, <2>1 DEF Unmapped
  <2>2. CASE RemoveUserSession(s)
    <3>1. s # NoSession /\ home[s] = v /\ {u, userId[s]} \subseteq UsersOf(s)
      BY <1>5, ChatServerAssumption DEF Mapped
    <3>2. u = userId[s]
      BY <1>3, <3>1
    <3>3. userMgr'[v][u] = NoSession
      BY <2>2, <3>1, <3>2 DEF RemoveUserSession, TypeOK
    <3> QED
      BY <3>1, <3>3
  <2> QED
    BY <1>1, <2>1, <2>2
<1> QED
  BY <1>4, <1>5, MapSteps, ChatServerAssumption

-----------------------------------------------------------------------------
(* What Redis knows, if it does not fail *)

\* A login that has been counted goes on until the session is mapped, unless
\* the server dies.
LEMMA LoginGoesOn ==
  ASSUME TypeOK, [Next]_vars, NEW v \in Servers, worker[v].step \in {"login_ip", "login_map"}
  PROVE  \/ worker'[v] = worker[v]
         \/ LoginIp(v) \/ LoginMap(v) \/ Restart(v)
<1> USE DEF sessionVars, serverVars, logicVars, redisVars, clientVars, history
<1> DEFINE Goal == \/ worker'[v] = worker[v]
                   \/ LoginIp(v) \/ LoginMap(v) \/ Restart(v)
<1>1. worker[v] # Idle
  BY DEF Idle
<1>2. ASSUME NEW w \in Servers,
             \/ JustReply(w) \/ Succeed(w) \/ LoginBind(w) \/ LookupServer(w) \/ FindSession(w)
             \/ SendNotify(w) \/ RpcFails(w)
      PROVE  w # v
  BY <1>1, <1>2 DEF JustReply, Succeed, LoginBind, LookupServer, FindSession, SendNotify, RpcFails,
                    Starts
<1>3. ASSUME NEW w \in Servers, w # v,
             \/ Reply(w) \/ LoginBind(w) \/ LoginIp(w) \/ LoginMap(w) \/ SendNotify(w) \/ RpcFails(w)
      PROVE  worker'[v] = worker[v]
  BY <1>3 DEF Reply, LoginBind, LoginIp, LoginMap, SendNotify, RpcFails, Goto, TypeOK
<1>4. ASSUME NEW w \in Servers, w # v, LookupServer(w) PROVE worker'[v] = worker[v]
  BY <1>4 DEF LookupServer, Goto, TypeOK
<1>5. ASSUME NEW w \in Servers, w # v, FindSession(w) PROVE worker'[v] = worker[v]
  BY <1>5 DEF FindSession, Goto, TypeOK
<1>6. ASSUME NEW w \in Servers, Worker(w) \/ RpcFails(w) PROVE Goal
  <2>1. CASE w = v
    BY <1>2, <1>6, <2>1 DEF Worker, HandleNothing
  <2>2. CASE w # v
    BY <1>3, <1>4, <1>5, <1>6, <2>2 DEF Worker, HandleNothing, JustReply, Succeed
  <2> QED
    BY <2>1, <2>2
<1>7. ASSUME NEW w \in Servers, Restart(w) PROVE Goal
  BY <1>7, ZenonT(60) DEF Restart, TypeOK
<1>8. ASSUME NEW s \in Sessions, Session(s) \/ \E w \in Servers : Accept(w, s)
      PROVE  worker' = worker
  BY <1>8 DEF Session, Accept, Post, Close, RemoveUserSession, EraseSession
<1>9. ASSUME NEW w \in Servers, Emplace(w) PROVE worker' = worker
  BY <1>9 DEF Emplace
<1>10. ASSUME UNCHANGED vars PROVE worker' = worker
  BY <1>10 DEF vars
<1> QED
  BY <1>6, <1>7, <1>8, <1>9, <1>10 DEF Next

\* Beside what Redis names for a user: if it names no server, nobody is about to
\* map him.
Announced ==
  /\ LoginAnnounced
  /\ \A u \in Users, v \in Servers : LoggingIn(v, u) => uip[u] # NoServer

\* What a step does to the names, if Redis does not fail.
LEMMA NameSteps ==
  ASSUME RedisFails = {FALSE}, TypeOK, HandlersKnow, [Next]_vars, NEW u \in Users
  PROVE  \/ /\ uip'[u] = uip[u]
            /\ \A v \in Servers : LoggingIn(v, u)' => LoggingIn(v, u)
            /\ \/ cut'[u] = cut[u]
               \/ cut'[u] = uip[u]
         \/ \E v \in Servers : uip'[u] = v /\ LoggingIn(v, u)'
<1> USE DEF sessionVars, serverVars, logicVars, redisVars, clientVars, history
<1> DEFINE Stays == uip'[u] = uip[u] /\ cut'[u] = cut[u]
<1>1. \A v \in Servers : LoggingIn(v, u)' => LoggingIn(v, u) \/ (LoginIp(v) /\ Msg(v).uid = u)
  BY WorkerSteps, MessageStays DEF LoggingIn, Idle, LoginIp, LoginBind
<1>2. ASSUME NEW v \in Servers, LoginIp(v), Msg(v).uid = u
      PROVE  uip'[u] = v /\ LoggingIn(v, u)'
  <2>1. uip'[u] = v /\ worker'[v].step = "login_map"
    BY <1>2 DEF LoginIp, Goto, TypeOK
  <2>2. Msg(v)' = Msg(v)
    BY <2>1, MessageStays DEF Idle
  <2> QED
    BY <1>2, <2>1, <2>2 DEF LoggingIn
<1>3. ASSUME NEW v \in Servers, LoginIp(v), Msg(v).uid # u PROVE Stays
  BY <1>3 DEF LoginIp, TypeOK
<1>4. ASSUME NEW v \in Servers, Restart(v)
      PROVE  uip'[u] = uip[u] /\ cut'[u] \in {cut[u], uip[u]}
  BY <1>4 DEF Restart
<1>5. ASSUME NEW s \in Sessions, Session(s) \/ \E w \in Servers : Accept(w, s) PROVE Stays
  BY <1>5 DEF Session, Accept, Post, Close, RemoveUserSession, EraseSession
<1>6. ASSUME NEW w \in Servers,
             \/ Emplace(w) \/ HandleNothing(w) \/ JustReply(w) \/ LoginBind(w) \/ LoginMap(w)
             \/ LookupServer(w) \/ FindSession(w) \/ SendNotify(w) \/ Succeed(w) \/ RpcFails(w)
      PROVE  Stays
  BY <1>6 DEF Emplace, HandleNothing, JustReply, Reply, LoginBind, LoginMap, LookupServer,
              FindSession, SendNotify, Succeed, RpcFails
<1>7. ASSUME UNCHANGED vars PROVE Stays
  BY <1>7 DEF vars
<1>8. CASE \E v \in Servers : LoginIp(v) /\ Msg(v).uid = u
  BY <1>2, <1>8
<1>9. CASE \A v \in Servers : ~ (LoginIp(v) /\ Msg(v).uid = u)
  <2>1. uip'[u] = uip[u] /\ cut'[u] \in {cut[u], uip[u]}
    BY <1>3, <1>4, <1>5, <1>6, <1>7, <1>9 DEF Next, Worker
  <2> QED
    BY <1>1, <1>9, <2>1
<1> QED
  BY <1>8, <1>9

\* A server that is about to map a user goes on to, or dies.
LEMMA LoggingInGoesOn ==
  ASSUME TypeOK, [Next]_vars, NEW v \in Servers, NEW u \in Users, LoggingIn(v, u)
  PROVE  \/ LoggingIn(v, u)'
         \/ LoginMap(v)
         \/ uip[u] = v => cut'[u] = v
<1> SUFFICES ASSUME ~ LoginMap(v), ~ LoggingIn(v, u)' PROVE uip[u] = v => cut'[u] = v
  OBVIOUS
<1>1. CASE worker'[v] = worker[v]
  BY <1>1, MessageStays DEF LoggingIn, Idle
<1>2. CASE Restart(v)
  BY <1>2 DEF Restart
<1> QED
  BY <1>1, <1>2, LoginGoesOn DEF LoggingIn, LoginIp

LEMMA AnnouncedStep ==
  ASSUME RedisFails = {FALSE}, TypeOK, QueuedArePosted, HandlersKnow, LoginsAccepted, Announced,
         [Next]_vars
  PROVE  Announced'
<1> SUFFICES ASSUME NEW u \in Users
             PROVE  /\ \A v \in Servers : LoggingIn(v, u)' => uip'[u] # NoServer
                    /\ IF uip'[u] = NoServer THEN logins'[u] = <<>>
                       ELSE \/ \E n \in DOMAIN logins'[u] : LastButRaced(uip[u], u, n)'
                            \/ LoggingIn(uip[u], u)'
                            \/ cut'[u] = uip'[u]
  BY DEF Announced, LoginAnnounced
<1>1. /\ \A i \in DOMAIN logins[u] : home'[logins[u][i]] = home[logins[u][i]]
      /\ \A i \in DOMAIN logins[u] : home[logins[u][i]] \in Servers
  BY LoginTypes, Growing, ChatServerAssumption DEF LoginsAccepted
<1>2. CASE \E v \in Servers : uip'[u] = v /\ LoggingIn(v, u)'
  BY <1>2, ChatServerAssumption
<1>3. ASSUME uip'[u] = uip[u],
             \A v \in Servers : LoggingIn(v, u)' => LoggingIn(v, u),
             cut'[u] = cut[u] \/ cut'[u] = uip[u]
      PROVE  /\ \A v \in Servers : LoggingIn(v, u)' => uip'[u] # NoServer
             /\ IF uip'[u] = NoServer THEN logins'[u] = <<>>
                ELSE \/ \E n \in DOMAIN logins'[u] : LastButRaced(uip[u], u, n)'
                     \/ LoggingIn(uip[u], u)'
                     \/ cut'[u] = uip'[u]
  <2>1. \A v \in Servers : LoggingIn(v, u)' => uip'[u] # NoServer
    BY <1>3 DEF Announced
  <2>2. CASE logins'[u] = logins[u] /\ \A v \in Servers : ~ (LoginMap(v) /\ Msg(v).uid = u)
    <3>1. ASSUME NEW n \in DOMAIN logins[u], LastButRaced(uip[u], u, n)
          PROVE  n \in DOMAIN logins'[u] /\ LastButRaced(uip[u], u, n)'
      <4>1. \A j \in n + 1 .. Len(logins[u]) : j \in DOMAIN logins[u]
        BY LoginTypes
      <4> QED
        BY <1>1, <1>3, <2>2, <3>1, <4>1 DEF LastButRaced
    <3>2. ASSUME LoggingIn(uip[u], u), uip[u] # NoServer
          PROVE  LoggingIn(uip[u], u)' \/ cut'[u] = uip'[u]
      <4>1. uip[u] \in Servers
        BY <3>2 DEF TypeOK
      <4>2. ~ LoginMap(uip[u])
        BY <2>2, <3>2, <4>1 DEF LoggingIn
      <4> QED
        BY <1>3, <3>2, <4>1, <4>2, LoggingInGoesOn
    <3> QED
      BY <1>3, <2>1, <2>2, <3>1, <3>2 DEF Announced, LoginAnnounced
  <2>3. ASSUME NEW w \in Servers, LoginMap(w), Msg(w).uid = u,
               logins'[u] = Append(logins[u], Sender(w))
        PROVE  \/ \E n \in DOMAIN logins'[u] : LastButRaced(uip[u], u, n)'
               \/ LoggingIn(uip[u], u)'
               \/ cut'[u] = uip'[u]
    <3> PICK N \in Nat : N = Len(logins[u])
      BY LoginTypes
    <3>1. /\ LoggingIn(w, u) /\ Sender(w) \in Sessions
          /\ home'[Sender(w)] = w
      <4>1. /\ queue[w] # <<>> /\ Sender(w) \in Sessions
            /\ home[Sender(w)] = w /\ home' = home
        BY <2>3, LoginMapFacts DEF LoginMap, sessionVars
      <4> QED
        BY <2>3, <4>1 DEF LoggingIn, LoginMap
    <3>2. worker'[w].step = "succeed" /\ ~ LoggingIn(w, u)'
      BY <2>3 DEF LoginMap, Goto, TypeOK, LoggingIn
    <3>3. /\ N \in Nat /\ DOMAIN logins[u] = 1 .. N
          /\ Len(logins'[u]) = N + 1 /\ DOMAIN logins'[u] = 1 .. N + 1
          /\ logins'[u][N + 1] = Sender(w)
          /\ \A i \in 1 .. N : logins'[u][i] = logins[u][i]
      BY <2>3, <3>1, LoginTypes
    <3>4. CASE uip[u] = w
      <4>1. N + 1 \in DOMAIN logins'[u] /\ N + 1 + 1 .. N + 1 = {}
        BY <3>3
      <4>2. LastButRaced(uip[u], u, N + 1)'
        BY <1>3, <3>1, <3>3, <3>4, <4>1 DEF LastButRaced
      <4> QED
        BY <4>1, <4>2
    <3>5. CASE uip[u] # w /\ LoggingIn(uip[u], u)
      <4>1. uip[u] \in Servers
        BY <2>3, <3>1 DEF Announced, TypeOK
      <4>2. worker'[uip[u]] = worker[uip[u]]
        BY <2>3, <3>5, <4>1 DEF LoginMap, Goto, TypeOK
      <4> QED
        BY <1>3, <3>5, <4>1, <4>2, MessageStays DEF LoggingIn, Idle
    <3>6. CASE cut[u] = uip[u]
      BY <1>3, <3>6
    <3>7. ASSUME NEW n \in DOMAIN logins[u], LastButRaced(uip[u], u, n), uip[u] # w
          PROVE  \E m \in DOMAIN logins'[u] : LastButRaced(uip[u], u, m)'
      <4>1. n \in 1 .. N /\ n \in DOMAIN logins'[u]
        BY <3>3
      <4>2. home'[logins'[u][n]] = uip'[u]
        BY <1>1, <1>3, <3>3, <3>7, <4>1 DEF LastButRaced
      <4>3. ASSUME NEW j \in n + 1 .. N
            PROVE  /\ home'[logins'[u][j]] = home[logins[u][j]]
                   /\ home[logins[u][j]] \in Servers
                   /\ home[logins[u][j]] # uip[u]
                   /\ ~ LoggingIn(home[logins[u][j]], u)
                   /\ \A k \in n + 1 .. N : k # j => home[logins[u][j]] # home[logins[u][k]]
        <5>1. j \in 1 .. N
          BY <3>3, <4>1
        <5> QED
          BY <1>1, <3>3, <3>7, <5>1 DEF LastButRaced
      <4>4. \A j \in n + 1 .. N : home[logins[u][j]] # w /\ ~ LoggingIn(home[logins[u][j]], u)'
        BY <1>3, <3>1, <4>3
      <4>5. home'[logins'[u][N + 1]] = w
        BY <3>1, <3>3
      <4>6. \A j \in n + 1 .. N + 1 : j \in n + 1 .. N \/ j = N + 1
        BY <3>3, <4>1
      <4>7. ASSUME NEW j \in n + 1 .. N + 1
            PROVE  /\ home'[logins'[u][j]] # uip'[u]
                   /\ ~ LoggingIn(home[logins[u][j]], u)'
                   /\ \A k \in n + 1 .. N + 1 : k # j => home'[logins'[u][j]] # home'[logins'[u][k]]
        <5>1. CASE j = N + 1
          BY <1>3, <3>2, <3>7, <4>3, <4>4, <4>5, <4>6, <5>1
        <5>2. CASE j \in n + 1 .. N
          <6>1. ASSUME NEW k \in n + 1 .. N + 1, k # j
                PROVE  home'[logins'[u][j]] # home'[logins'[u][k]]
            BY <4>3, <4>4, <4>5, <4>6, <5>2, <6>1
          <6> QED
            BY <1>3, <4>3, <4>4, <5>2, <6>1
        <5> QED
          BY <4>6, <5>1, <5>2
      <4> QED
        BY <3>3, <4>1, <4>2, <4>7 DEF LastButRaced
    <3>8. uip[u] # NoServer
      BY <2>3, <3>1 DEF Announced
    <3> QED
      BY <3>4, <3>5, <3>6, <3>7, <3>8 DEF Announced, LoginAnnounced
  <2>4. ASSUME NEW w \in Servers, LoginMap(w), Msg(w).uid = u PROVE uip'[u] # NoServer
    BY <1>3, <2>4 DEF Announced, LoggingIn, LoginMap
  <2>5. \/ logins'[u] = logins[u] /\ \A v \in Servers : ~ (LoginMap(v) /\ Msg(v).uid = u)
        \/ \E w \in Servers : /\ LoginMap(w) /\ Msg(w).uid = u
                              /\ logins'[u] = Append(logins[u], Sender(w))
    <3>1. CASE logins' = logins /\ \A v \in Servers : ~ LoginMap(v)
      BY <3>1
    <3>2. ASSUME NEW w \in Servers, LoginMap(w),
                 logins' = [logins EXCEPT ![Msg(w).uid] = Append(@, Sender(w))]
          PROVE  \/ logins'[u] = logins[u] /\ \A v \in Servers : ~ (LoginMap(v) /\ Msg(v).uid = u)
                 \/ LoginMap(w) /\ Msg(w).uid = u /\ logins'[u] = Append(logins[u], Sender(w))
      <4>1. \A v \in Servers : LoginMap(v) => v = w
        <5> SUFFICES ASSUME NEW v \in Servers, LoginMap(v), v # w PROVE FALSE
          OBVIOUS
        <5>1. worker'[v].step = "succeed" /\ worker[v].step = "login_map"
          BY DEF LoginMap, Goto, TypeOK
        <5>2. worker'[v] = worker[v]
          BY <3>2 DEF LoginMap, Goto, TypeOK
        <5> QED
          BY <5>1, <5>2
      <4>2. logins'[u] = IF Msg(w).uid = u THEN Append(logins[u], Sender(w)) ELSE logins[u]
        BY <3>2 DEF TypeOK
      <4> QED
        BY <3>2, <4>1, <4>2
    <3> QED
      BY <3>1, <3>2, LoginSteps
  <2> QED
    BY <2>1, <2>2, <2>3, <2>4, <2>5
<1> QED
  BY <1>2, <1>3, NameSteps

\* The sessions that the count of a server is about.
Open(v) ==
  {s \in Sessions : home[s] = v /\ closing[s] = "no" /\ \E u \in Users : LoggedInAs(s, u)}

\* The login that is counted already while its session is not mapped yet.
Coming(v) == IF worker[v].step \in {"login_ip", "login_map"} THEN 1 ELSE 0

\* The count covers the open sessions and the login that is being completed.
Counted ==
  \A v \in Servers : loginCount[v] >= Cardinality(Open(v)) + Coming(v)

LEMMA OpenSteps ==
  ASSUME TypeOK, QueuedArePosted, HandlersKnow, NotAccepted, LoginsAccepted, [Next]_vars,
         NEW v \in Servers
  PROVE  /\ IsFiniteSet(Open(v)) /\ IsFiniteSet(Open(v)')
         /\ \/ Open(v)' \subseteq Open(v)
            \/ LoginMap(v) /\ Open(v)' \subseteq Open(v) \cup {Sender(v)}
         /\ Restart(v) => Open(v)' = {}
<1> USE DEF sessionVars, serverVars, logicVars, redisVars, clientVars, history
<1>1. ASSUME NEW s \in Sessions, closing'[s] = "no" PROVE closing[s] = "no"
  <2>1. ASSUME NEW r \in Sessions, Session(r) PROVE closing[s] = "no"
    BY <1>1, <2>1 DEF Session, Post, Close, RemoveUserSession, EraseSession, TypeOK
  <2>2. ASSUME NEW w \in Servers, Restart(w) PROVE closing[s] = "no"
    BY <1>1, <2>2 DEF Restart
  <2>3. ASSUME NEW w \in Servers,
               \/ Worker(w) \/ RpcFails(w) \/ Emplace(w)
               \/ \E r \in Sessions : Accept(w, r)
        PROVE  closing' = closing
    BY <2>3 DEF Worker, Emplace, HandleNothing, JustReply, Reply, LoginBind, LoginIp, LoginMap,
                LookupServer, FindSession, SendNotify, Succeed, RpcFails, Accept
  <2> QED
    BY <1>1, <2>1, <2>2, <2>3 DEF Next, vars
<1>2. ASSUME NEW s \in Sessions, NEW u \in Users, LoggedInAs(s, u)
      PROVE  home[s] \in Servers /\ home'[s] = home[s]
  BY <1>2, Growing, ChatServerAssumption DEF LoggedInAs, LoginsAccepted, Range
<1>3. ASSUME NEW s \in Sessions, NEW u \in Users, LoggedInAs(s, u)'
      PROVE  \/ LoggedInAs(s, u)
             \/ \E w \in Servers : LoginMap(w) /\ s = Sender(w) /\ home'[s] = w
  <2>1. CASE logins' = logins
    BY <1>3, <2>1 DEF LoggedInAs
  <2>2. ASSUME NEW w \in Servers, LoginMap(w),
               logins' = [logins EXCEPT ![Msg(w).uid] = Append(@, Sender(w))]
        PROVE  LoggedInAs(s, u) \/ (s = Sender(w) /\ home'[s] = w)
    <3>1. Sender(w) \in Sessions /\ home'[Sender(w)] = w
      BY <2>2, LoginMapFacts DEF LoginMap
    <3>2. logins'[u] = IF u = Msg(w).uid THEN Append(logins[u], Sender(w)) ELSE logins[u]
      BY <2>2 DEF TypeOK
    <3>3. Range(logins'[u]) \subseteq Range(logins[u]) \cup {Sender(w)}
      BY <3>1, <3>2, LoginTypes, RangeOfAppend
    <3> QED
      BY <1>3, <3>1, <3>3 DEF LoggedInAs
  <2> QED
    BY <2>1, <2>2, LoginSteps
<1>4. \/ Open(v)' \subseteq Open(v)
      \/ LoginMap(v) /\ Open(v)' \subseteq Open(v) \cup {Sender(v)}
  <2>1. ASSUME NEW s \in Open(v)'
        PROVE  s \in Open(v) \/ (LoginMap(v) /\ s = Sender(v))
    <3>1. /\ s \in Sessions /\ home'[s] = v /\ closing'[s] = "no"
          /\ \E u \in Users : LoggedInAs(s, u)'
      BY DEF Open
    <3>2. CASE \E u \in Users : LoggedInAs(s, u)
      BY <1>1, <1>2, <3>1, <3>2 DEF Open
    <3>3. CASE \E w \in Servers : LoginMap(w) /\ s = Sender(w) /\ home'[s] = w
      BY <3>1, <3>3
    <3> QED
      BY <1>3, <3>1, <3>2, <3>3
  <2> QED
    BY <2>1
<1>5. Restart(v) => Open(v)' = {}
  BY DEF Restart, Open
<1>6. IsFiniteSet(Open(v)) /\ IsFiniteSet(Open(v)')
  <2>1. Open(v) \subseteq Sessions /\ Open(v)' \subseteq Sessions
    BY DEF Open
  <2> QED
    BY <2>1, ChatServerAssumption, FS_Subset
<1> QED
  BY <1>4, <1>5, <1>6

LEMMA CountedStep ==
  ASSUME RedisFails = {FALSE}, TypeOK, QueuedArePosted, HandlersKnow, NotAccepted, LoginsAccepted,
         Counted, [Next]_vars
  PROVE  Counted'
<1> USE DEF sessionVars, serverVars, logicVars, redisVars, clientVars, history
<1> SUFFICES ASSUME NEW v \in Servers
             PROVE  loginCount'[v] >= Cardinality(Open(v)') + Coming(v)'
  BY DEF Counted
<1> DEFINE open == Cardinality(Open(v))
           opened == Cardinality(Open(v)')
<1>1. /\ IsFiniteSet(Open(v)) /\ IsFiniteSet(Open(v)')
      /\ open \in Nat /\ opened \in Nat
      /\ loginCount[v] \in Nat /\ Coming(v) \in {0, 1} /\ Coming(v)' \in {0, 1}
      /\ loginCount[v] >= open + Coming(v)
  BY OpenSteps, FS_CardinalityType DEF Counted, TypeOK, Coming
<1>2. CASE Restart(v)
  <2>1. /\ Open(v)' = {} /\ loginCount'[v] = 0 /\ worker'[v] = Idle
    BY <1>2, OpenSteps DEF Restart, TypeOK
  <2> QED
    BY <2>1, FS_EmptySet DEF Coming, Idle
<1>3. ASSUME ~ Restart(v), ~ LoginBind(v) PROVE loginCount'[v] = loginCount[v]
  <2>1. ASSUME NEW w \in Servers, LoginBind(w) PROVE loginCount'[v] = loginCount[v]
    BY <1>3, <2>1 DEF LoginBind, TypeOK
  <2>2. ASSUME NEW w \in Servers, Restart(w) PROVE loginCount'[v] = loginCount[v]
    <3>1. PICK n : loginCount' = [loginCount EXCEPT ![w] = n]
      BY <2>2 DEF Restart
    <3>2. w # v
      BY <1>3, <2>2
    <3> QED
      BY <3>1, <3>2 DEF TypeOK
  <2>3. ASSUME NEW s \in Sessions, Session(s) \/ \E w \in Servers : Accept(w, s)
        PROVE  loginCount' = loginCount
    BY <2>3 DEF Session, Accept, Post, Close, RemoveUserSession, EraseSession
  <2>4. ASSUME NEW w \in Servers,
               \/ Emplace(w) \/ HandleNothing(w) \/ JustReply(w) \/ LoginIp(w) \/ LoginMap(w)
               \/ LookupServer(w) \/ FindSession(w) \/ SendNotify(w) \/ Succeed(w) \/ RpcFails(w)
        PROVE  loginCount' = loginCount
    BY <2>4 DEF Emplace, HandleNothing, JustReply, Reply, LoginIp, LoginMap, LookupServer,
                FindSession, SendNotify, Succeed, RpcFails
  <2> QED
    BY <2>1, <2>2, <2>3, <2>4 DEF Next, Worker, vars
<1>4. CASE LoginBind(v)
  <2>1. /\ loginCount'[v] = loginCount[v] + 1
        /\ worker[v] = Idle /\ worker'[v].step = "login_ip"
    BY <1>4 DEF LoginBind, Starts, Goto, TypeOK
  <2>2. Open(v)' \subseteq Open(v)
    BY <2>1, OpenSteps DEF LoginMap, Idle
  <2>3. opened <= open
    BY <1>1, <2>2, FS_Subset
  <2>4. Coming(v) = 0 /\ Coming(v)' = 1
    BY <2>1 DEF Coming, Idle
  <2> QED
    BY <1>1, <2>1, <2>3, <2>4
<1>5. CASE LoginMap(v)
  <2>1. worker[v].step = "login_map" /\ worker'[v].step = "succeed"
    BY <1>5 DEF LoginMap, Goto, TypeOK
  <2>2. ~ LoginBind(v) /\ (~ Restart(v) => loginCount'[v] = loginCount[v])
    BY <1>3, <2>1 DEF LoginBind, Starts, Idle
  <2>3. Coming(v) = 1 /\ Coming(v)' = 0
    BY <2>1 DEF Coming
  <2>4. opened <= open + 1
    <3>1. /\ Cardinality(Open(v) \cup {Sender(v)}) \in {open, open + 1}
          /\ IsFiniteSet(Open(v) \cup {Sender(v)})
      BY <1>1, FS_AddElement
    <3>2. opened <= Cardinality(Open(v) \cup {Sender(v)})
      BY <3>1, OpenSteps, FS_Subset
    <3> QED
      BY <1>1, <3>1, <3>2
  <2> QED
    BY <1>1, <1>2, <2>2, <2>3, <2>4
<1>6. CASE ~ Restart(v) /\ ~ LoginBind(v) /\ ~ LoginMap(v)
  <2>1. opened <= open
    BY <1>1, <1>6, OpenSteps, FS_Subset
  <2>2. Coming(v)' <= Coming(v)
    <3>1. worker'[v].step \in {"login_ip", "login_map"} => worker[v].step \in {"login_ip", "login_map"}
      BY <1>6, WorkerSteps DEF LoginIp
    <3> QED
      BY <3>1 DEF Coming
  <2> QED
    BY <1>1, <1>3, <1>6, <2>1, <2>2
<1> QED
  BY <1>2, <1>4, <1>5, <1>6

-----------------------------------------------------------------------------
(* The invariants *)

\* What holds whatever Redis does.
ChatInv ==
  /\ TypeOK
  /\ QueuedArePosted
  /\ QueuedInOrder
  /\ NotAccepted
  /\ HandlersKnow
  /\ Mapped
  /\ LoginsAccepted
  /\ AcceptedFirst
  /\ Unmapped
  /\ OnlyToTheUser
  /\ AnsweredInOrder
  /\ MapHoldsLatestLogin
  /\ OnlyEarlyCloseLeaks

LEMMA InitChatInv == Init => ChatInv /\ Announced /\ Counted
<1> SUFFICES ASSUME Init PROVE ChatInv /\ Announced /\ Counted
  OBVIOUS
<1>1. TypeOK
  BY InitType
<1>2. QueuedArePosted /\ QueuedInOrder
  BY DEF Init, QueuedArePosted, QueuedInOrder
<1>3. NotAccepted /\ LoginsAccepted
  BY DEF Init, NotAccepted, LoginsAccepted
<1>4. HandlersKnow
  BY DEF Init, HandlersKnow, Idle
<1>5. Mapped /\ Unmapped /\ MapHoldsLatestLogin
  BY ChatServerAssumption DEF Init, Mapped, Unmapped, MapHoldsLatestLogin
<1>6. AcceptedFirst /\ OnlyEarlyCloseLeaks
  BY DEF Init, AcceptedFirst, OnlyEarlyCloseLeaks
<1>7. OnlyToTheUser /\ AnsweredInOrder
  BY DEF Init, OnlyToTheUser, AnsweredInOrder
<1>8. Announced
  BY DEF Init, Announced, LoginAnnounced, LoggingIn, Idle
<1>9. Counted
  <2> SUFFICES ASSUME NEW v \in Servers PROVE loginCount[v] >= Cardinality(Open(v)) + Coming(v)
    BY DEF Counted
  <2>1. Open(v) = {}
    BY ChatServerAssumption DEF Init, Open
  <2>2. Coming(v) = 0 /\ loginCount[v] = 0
    BY DEF Init, Coming, Idle
  <2> QED
    BY <2>1, <2>2, FS_EmptySet
<1> QED
  BY <1>1, <1>2, <1>3, <1>4, <1>5, <1>6, <1>7, <1>8, <1>9 DEF ChatInv

LEMMA NextChatInv == ChatInv /\ [Next]_vars => ChatInv'
<1> SUFFICES ASSUME ChatInv, [Next]_vars PROVE ChatInv'
  OBVIOUS
<1> USE DEF ChatInv
<1>1. TypeOK'
  BY NextType
<1>2. QueuedArePosted' /\ QueuedInOrder'
  BY QueuedStep, QueuedInOrderStep
<1>3. NotAccepted' /\ HandlersKnow' /\ Mapped'
  BY NotAcceptedStep, HandlersStep, MappedStep
<1>4. LoginsAccepted' /\ MapHoldsLatestLogin'
  BY LatestLoginStep
<1>5. AcceptedFirst' /\ OnlyEarlyCloseLeaks' /\ Unmapped'
  BY LeaksStep, UnmappedStep
<1>6. OnlyToTheUser' /\ AnsweredInOrder'
  BY OnlyToTheUserStep, AnsweredStep
<1> QED
  BY <1>1, <1>2, <1>3, <1>4, <1>5, <1>6

LEMMA SpecChatInv == Spec => []ChatInv
BY InitChatInv, NextChatInv, PTL DEF Spec

\* The variables have their types, and a worker that is inside a handler still
\* has its message.
THEOREM ChatTypes == Spec => []TypeOK
<1>1. ChatInv => TypeOK
  BY DEF ChatInv
<1> QED
  BY <1>1, SpecChatInv, PTL

\* A user's messages reach only sessions that presented the user's token.
THEOREM DeliveredToTheUser == Spec => []OnlyToTheUser
<1>1. ChatInv => OnlyToTheUser
  BY DEF ChatInv
<1> QED
  BY <1>1, SpecChatInv, PTL

\* The requests of a session are answered once each, in order, and none is
\* passed over.
THEOREM RequestsAnswered == Spec => []AnsweredInOrder
<1>1. ChatInv => AnsweredInOrder
  BY DEF ChatInv
<1> QED
  BY <1>1, SpecChatInv, PTL

\* The user manager never maps a user to an older login than the last one.
THEOREM LatestLoginMapped == Spec => []MapHoldsLatestLogin
<1>1. ChatInv => MapHoldsLatestLogin
  BY DEF ChatInv
<1> QED
  BY <1>1, SpecChatInv, PTL

\* What a closed session can leave in sessions_ and in the user manager.
THEOREM ClosedSessions == Spec => []ClosedLeavesNothing
<1>1. ChatInv => ClosedLeavesNothing
  <2> SUFFICES ASSUME ChatInv PROVE ClosedLeavesNothing
    OBVIOUS
  <2>1. OnlyEarlyCloseLeaks
    BY DEF ChatInv
  <2>2. \A s \in Sessions : closing[s] = "done" => home[s] \in Servers
    BY DEF ChatInv, NotAccepted, TypeOK
  <2>3. ClosedIsUnmapped
    BY <2>2 DEF ChatInv, Unmapped, ClosedIsUnmapped
  <2> QED
    BY <2>1, <2>3 DEF ClosedLeavesNothing
<1> QED
  BY <1>1, SpecChatInv, PTL

LEMMA NextRedisInv ==
  ASSUME RedisFails = {FALSE}
  PROVE  ChatInv /\ Announced /\ Counted /\ [Next]_vars => Announced' /\ Counted'
BY AnnouncedStep, CountedStep DEF ChatInv

\* If Redis does not fail, the server it names for a user and the count by
\* which a server is chosen cover the logins that there are.
THEOREM RedisCovers ==
  ASSUME RedisFails = {FALSE}
  PROVE  Spec => []RedisCoversLogins
<1>1. ChatInv /\ Announced /\ Counted => RedisCoversLogins
  <2> SUFFICES ASSUME ChatInv, Announced, Counted PROVE RedisCoversLogins
    OBVIOUS
  <2>1. LoginAnnounced
    BY DEF Announced
  <2>2. LoginCountCovers
    <3> SUFFICES ASSUME NEW v \in Servers PROVE loginCount[v] >= Cardinality(Open(v))
      BY DEF LoginCountCovers, Open
    <3>1. IsFiniteSet(Open(v))
      BY ChatServerAssumption, FS_Subset DEF Open
    <3>2. Cardinality(Open(v)) \in Nat /\ loginCount[v] \in Nat /\ Coming(v) \in {0, 1}
      BY <3>1, FS_CardinalityType DEF ChatInv, TypeOK, Coming
    <3> QED
      BY <3>2 DEF Counted
  <2> QED
    BY <2>1, <2>2 DEF RedisCoversLogins
<1> QED
  BY <1>1, InitChatInv, NextChatInv, NextRedisInv, PTL DEF Spec

=============================================================================
