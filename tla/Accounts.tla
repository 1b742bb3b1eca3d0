------------------------------ MODULE Accounts ------------------------------
(***************************************************************************)
(* How an account comes to be: the verify server (verify_server/server.js) *)
(* keeps one code per e-mail in Redis and mails it; the gate server        *)
(* compares the code and calls the stored procedure reg_user, or changes   *)
(* a password.                                                             *)
(*                                                                         *)
(* The verify server is one thread, but other calls run at every await, so *)
(* an action reaches from one await to the next.  The gate server answers  *)
(* on several io threads: an action is one Redis command or one statement. *)
(* A call of the verify server makes at most one code, so the call names   *)
(* it (two prefixes of a uuid are taken to differ), and a request sets the *)
(* password that bears its name.                                           *)
(***************************************************************************)
EXTENDS Naturals, Sequences, FiniteSets

CONSTANTS Emails, Names,
          Calls,          \* calls of GetVerifyCode
          Forms,          \* requests to register or to reset a password
          Unset           \* no code, no e-mail, no request

ASSUME RegAssumption == Unset \notin Emails \cup Names \cup Calls \cup Forms

VARIABLES call,           \* a call of GetVerifyCode
          codes,          \* Redis: the code of an e-mail and whether it expires
          mailed,         \* the codes in the mailboxes
          form,           \* a request at the gate
          users,          \* table user, by id
          userId,         \* table user_id: accounts numbered so far
          idLock,         \* the request whose transaction holds the row of user_id
          overlap         \* history: calls that ran at the same time

regVars == <<call, codes, mailed, form, users, userId, idLock, overlap>>

NoKey == [code |-> Unset, ttl |-> FALSE]
NoCall == [pc |-> "idle", email |-> Unset, code |-> Unset, blind |-> FALSE]
NoForm == [pc |-> "idle", kind |-> "none", name |-> Unset, email |-> Unset, code |-> Unset,
           seen |-> 0, answer |-> "none", uid |-> 0]
InFlight == {v \in Calls : call[v].pc \notin {"idle", "answered", "failed"}}

RegInit ==
    /\ call = [v \in Calls |-> NoCall]
    /\ codes = [e \in Emails |-> NoKey]
    /\ mailed = {}
    /\ form = [f \in Forms |-> NoForm]
    /\ users = <<>>
    /\ userId = 0
    /\ idLock = Unset
    /\ overlap = {}

-----------------------------------------------------------------------------
(* GetVerifyCode                                                           *)

Move(v, pc) == call' = [call EXCEPT ![v].pc = pc]

\* The reply of a call; one that has set no code leaves no trace.
Reply(v) ==
    IF call[v].code = v THEN Move(v, "answered") /\ UNCHANGED overlap
    ELSE call' = [call EXCEPT ![v] = NoCall] /\ overlap' = {p \in overlap : v \notin p}

Ask(v, e) ==
    /\ call[v].pc = "idle"
    /\ call' = [call EXCEPT ![v].pc = "query", ![v].email = e]
    /\ overlap' = overlap \cup {{u, v} : u \in InFlight}
    /\ UNCHANGED <<codes, mailed>>

\* await QueryRedis: an error of Redis looks like a key that is not there.
Query(v) ==
    /\ call[v].pc = "query"
    /\ \E fails \in BOOLEAN :
         IF fails \/ codes[call[v].email] = NoKey
         THEN call' = [call EXCEPT ![v].pc = "set", ![v].blind = fails]
         ELSE Move(v, "get")
    /\ UNCHANGED <<codes, mailed, overlap>>

\* await set, then await expire, each of which may throw, whether Redis has carried it out
\* or not; the call is then answered with RedisErr and nothing is mailed.
SetCode(v) ==
    /\ call[v].pc = "set"
    /\ \/ /\ codes' = [codes EXCEPT ![call[v].email] = [code |-> v, ttl |-> FALSE]]
          /\ \E pc \in {"expire", "failed"} : call' = [call EXCEPT ![v].pc = pc, ![v].code = v]
          /\ UNCHANGED overlap
       \/ Reply(v) /\ UNCHANGED codes
    /\ UNCHANGED mailed

SetExpire(v) ==
    /\ call[v].pc = "expire"
    /\ \/ /\ codes' = [codes EXCEPT ![call[v].email].ttl = (codes[call[v].email] # NoKey)]
          /\ \E pc \in {"mail", "failed"} : Move(v, pc)
       \/ Move(v, "failed") /\ UNCHANGED codes
    /\ UNCHANGED <<mailed, overlap>>

\* await GetRedis: the key may have expired since the query.
GetCode(v) ==
    /\ call[v].pc = "get"
    /\ \/ /\ codes[call[v].email] # NoKey
          /\ call' = [call EXCEPT ![v].pc = "mail", ![v].code = codes[call[v].email].code]
          /\ UNCHANGED overlap
       \/ Reply(v)
    /\ UNCHANGED <<codes, mailed>>

SendMail(v) ==
    /\ call[v].pc = "mail"
    /\ Reply(v)
    /\ mailed' = mailed \cup {<<call[v].email, call[v].code>>} \/ UNCHANGED mailed
    /\ UNCHANGED codes

\* Redis: three minutes have passed.
Expire(e) ==
    /\ codes[e].ttl
    /\ codes' = [codes EXCEPT ![e] = NoKey]
    /\ UNCHANGED <<call, mailed, overlap>>

-----------------------------------------------------------------------------
(* The handlers user_register and reset_pwd                                *)

Answer(f, what, uid) ==
    form' = [form EXCEPT ![f].pc = "answered", ![f].answer = what, ![f].uid = uid]

\* An error that left the database as it was; the client may send the form again.
Refuse(f) == form' = [form EXCEPT ![f] = NoForm]

\* Mutant: names are not looked up.
NameNeverTaken(n) == FALSE
NameTaken(n) == \E i \in DOMAIN users : users[i].name = n
EmailTaken(e) == \E i \in DOMAIN users : users[i].email = e

\* Up to the comparison with the code in Redis a handler only reads: the passwords must
\* agree, the code must be there (not expired) and match, or the client is refused, which
\* changes nothing.  The client fills in a code from one of its mails, or a wrong one.
CodeMatches(e, c) == codes[e].code = c
Submit(f, kind, n, e, c) ==
    /\ form[f].pc = "idle"
    /\ c = Unset \/ \E m \in mailed : m[2] = c
    /\ codes[e] # NoKey
    /\ CodeMatches(e, c)
    /\ form' = [form EXCEPT ![f].pc = kind, ![f].kind = kind, ![f].name = n, ![f].email = e, ![f].code = c]
    /\ UNCHANGED <<users, userId, idLock>>

\* The two EXISTS of reg_user read one snapshot; no connection is the other answer.
Exists(f) ==
    /\ form[f].pc = "register"
    /\ \/ Refuse(f)
       \/ (NameTaken(form[f].name) \/ EmailTaken(form[f].email)) /\ Answer(f, "UserExist", 0)
       \/ /\ ~NameTaken(form[f].name) /\ ~EmailTaken(form[f].email)
          /\ form' = [form EXCEPT ![f].pc = "update", ![f].seen = Len(users)]
    /\ UNCHANGED <<users, userId, idLock>>

\* UPDATE user_id locks the row until the transaction ends; it may time out.
IdRowFree(f) == idLock = Unset
UpdateId(f) ==
    /\ form[f].pc = "update"
    /\ \/ /\ IdRowFree(f)
          /\ idLock' = f /\ userId' = userId + 1
          /\ form' = [form EXCEPT ![f].pc = "insert"]
       \/ Answer(f, "RolledBack", 0) /\ UNCHANGED <<userId, idLock>>
    /\ UNCHANGED users

\* INSERT and COMMIT.  A duplicate e-mail, or any error, rolls back and the procedure
\* returns -1, which the gate server takes for a success.
Insert(f) ==
    /\ form[f].pc = "insert"
    /\ idLock' = Unset
    /\ \/ /\ ~EmailTaken(form[f].email)
          /\ users' = Append(users, [uid |-> userId, name |-> form[f].name, email |-> form[f].email,
                                     pwd |-> f, by |-> f])
          /\ \/ Answer(f, "Success", userId)
             \/ Answer(f, "NetworkError", 0)        \* the connection broke after the commit
          /\ UNCHANGED userId
       \/ /\ Answer(f, IF EmailTaken(form[f].email) THEN "Duplicate" ELSE "RolledBack", 0)
          /\ userId' = userId - 1 /\ UNCHANGED users

\* CheckEmail reads the e-mail of the first row with this name.
FirstNamed(n) == CHOOSE i \in DOMAIN users : users[i].name = n /\ \A j \in 1..(i - 1) : users[j].name # n
CheckEmail(f) ==
    /\ form[f].pc = "reset"
    /\ \/ Refuse(f)
       \/ IF NameTaken(form[f].name) /\ users[FirstNamed(form[f].name)].email = form[f].email
          THEN form' = [form EXCEPT ![f].pc = "password"]
          ELSE Refuse(f)
    /\ UNCHANGED <<users, userId, idLock>>

\* UpdatePassword sets the password of every row with this name, and succeeds if one changed.
UpdatePassword(f) ==
    /\ form[f].pc = "password"
    /\ LET hit == {i \in DOMAIN users : users[i].name = form[f].name}
       IN  \/ /\ users' = [i \in DOMAIN users |-> IF i \in hit THEN [users[i] EXCEPT !.pwd = f] ELSE users[i]]
              /\ \/ Answer(f, IF Cardinality(hit) = 1 THEN "Success" ELSE "PasswordUpdateFail", 0)
                 \/ Answer(f, "NetworkError", 0)      \* the connection broke after the statement
           \/ Refuse(f) /\ UNCHANGED users
    /\ UNCHANGED <<userId, idLock>>

-----------------------------------------------------------------------------
VerifyStep == \E v \in Calls :
    \/ \E e \in Emails : Ask(v, e)
    \/ Query(v) \/ SetCode(v) \/ SetExpire(v) \/ GetCode(v) \/ SendMail(v)

GateStep == \E f \in Forms :
    \/ \E kind \in {"register", "reset"}, n \in Names, e \in Emails, c \in Calls \cup {Unset} : Submit(f, kind, n, e, c)
    \/ Exists(f) \/ UpdateId(f) \/ Insert(f)
    \/ CheckEmail(f) \/ UpdatePassword(f)

RegNext ==
    \/ (VerifyStep \/ \E e \in Emails : Expire(e)) /\ UNCHANGED <<form, users, userId, idLock>>
    \/ GateStep /\ UNCHANGED <<call, codes, mailed, overlap>>

RegSpec == RegInit /\ [][RegNext]_regVars

-----------------------------------------------------------------------------
(* The types, with what the lock of user_id gives: uids are 1, 2, ... in   *)
(* the order of the rows, and the transaction that holds the lock has      *)
(* counted one more (init-script.sql:150-154).                             *)
RegTypeOK ==
    /\ \A e \in Emails : codes[e].code \in Calls \cup {Unset} /\ codes[e].ttl \in BOOLEAN
    /\ mailed \subseteq Emails \X Calls
    /\ idLock \in Forms \cup {Unset}
    /\ \A i \in DOMAIN users : users[i].uid = i
    /\ userId = Len(users) + (IF idLock = Unset THEN 0 ELSE 1)

(* A code in Redis that does not expire was set by a call that is between *)
(* its set and its expire, or was answered with an error although its set  *)
(* was carried out (redis.js:52-53), whatever other calls for the same     *)
(* e-mail set, let expire or failed to.                                    *)
StoredCodesExpire ==
    \A e \in Emails : (codes[e] # NoKey /\ ~codes[e].ttl) =>
        LET v == codes[e].code IN call[v].email = e /\ call[v].pc \in {"expire", "failed"}

(* A code is overwritten by another only if the call that overwrites it    *)
(* was running beside the one that had set it, or could not ask Redis      *)
(* (server.js:16-24): the code in the mailbox no longer works.             *)
OverwrittenByOverlap ==
    [][\A e \in Emails :
         LET old == codes[e].code
             new == codes'[e].code
         IN  (old # Unset /\ new \notin {Unset, old}) => ({old, new} \in overlap \/ call[new].blind)]_regVars

(* Every account was made with a code that had been mailed to its e-mail.  *)
CodeProvesMail == \A i \in DOMAIN users : <<users[i].email, form[users[i].by].code>> \in mailed

(* Two accounts have the same name only if the later one had looked the    *)
(* name up before the earlier one was committed: the index on the name is  *)
(* not unique (init-script.sql:74, 140).                                   *)
SameNameOnlyIfRaced ==
    \A i, j \in DOMAIN users : (i < j /\ users[i].name = users[j].name) => form[users[j].by].seen < i

(* Resetting a password changes the account whose e-mail got the code, and *)
(* another one only if it bears the same name (mysql_mgr.cpp:73).          *)
ResetsItsOwn ==
    [][\A f \in Forms : UpdatePassword(f) =>
         \A i \in DOMAIN users : users'[i].pwd # users[i].pwd =>
            \/ users[i].email = form[f].email
            \/ \E j \in 1..(i - 1) : users[j].email = form[f].email /\ users[j].name = users[i].name]_regVars

(* What the client is told: a success with a uid has its account, and "the *)
(* user exists" is true.  The -1 of a rolled back registration, which the  *)
(* gate reports as a success (logic_system.cpp:115), means that an account *)
(* with the e-mail was committed in between, or that the database failed.  *)
RegAnswersAreTrue ==
    \A f \in Forms : form[f].kind = "register" =>
        /\ form[f].answer = "Success" => \E i \in DOMAIN users : users[i].uid = form[f].uid /\ users[i].by = f
        /\ form[f].answer = "UserExist" => NameTaken(form[f].name) \/ EmailTaken(form[f].email)
        /\ form[f].answer = "Duplicate" =>
              \E i \in DOMAIN users : i > form[f].seen /\ users[i].email = form[f].email /\ users[i].by # f

(* All of the invariants above.                                            *)
RegistrationInv ==
    RegTypeOK /\ StoredCodesExpire /\ CodeProvesMail /\ SameNameOnlyIfRaced /\ RegAnswersAreTrue

(* And of the action properties.                                           *)
RegistrationSteps == OverwrittenByOverlap /\ ResetsItsOwn

-----------------------------------------------------------------------------
(***************************************************************************)
(* From a password to a session: the gate checks the password, the status  *)
(* server picks a chat server by the login counts in Redis and stores a    *)
(* token, the chat server compares the token and counts the login.  Chat   *)
(* servers start, stop and die; what they stored in Redis may stay.        *)
(* An action is one statement or one Redis command, each of which may fail *)
(* (a command whose answer is lost is one that was carried out: no caller  *)
(* here looks at the answer but for a value).  A login makes one token,    *)
(* which bears its name.                                                   *)
(***************************************************************************)

CONSTANTS Logins, Accounts, ChatServers, NoToken

\* Finitely many logins: fewer than INT_MAX, which NoCount stands for.
ASSUME LoginAssumption == NoToken \notin Logins /\ ChatServers # {} /\ IsFiniteSet(Logins)

\* A count that is not there, or cannot be read, is taken for INT_MAX: more than any count.
NoCount == Cardinality(Logins) + 1

VARIABLES login,          \* where a login is, its account, server, and what it read
          tokens,         \* Redis: the token of an account
          loginCount,     \* Redis: login_count of a chat server
          selecting,      \* the login that holds mtx_ of the status server
          serving         \* whether a chat server runs; "unset": its count was not reset

lgVars == <<login, tokens, loginCount, selecting, serving>>

\* History: stored, the tokens of the account that were stored until then; moved and reset,
\* the increments and the resets of counts while a login reads them; counted, whether the
\* login is in the count of its server; fault, whether Redis or MySQL failed it.
Fresh == [pc |-> "idle", account |-> NoToken, read |-> <<>>, server |-> NoToken,
          stored |-> {}, moved |-> 0, reset |-> {}, counted |-> FALSE, fault |-> FALSE]

LgInit ==
    /\ login = [l \in Logins |-> Fresh]
    /\ tokens = [a \in Accounts |-> NoToken]
    /\ loginCount = [s \in ChatServers |-> NoCount]
    /\ serving = [s \in ChatServers |-> "down"]
    /\ selecting = NoToken

At(l, pc) == login[l].pc = pc

\* user_login: wrong passwords are refused and leave no trace.
CheckPassword(l, a) ==
    /\ At(l, "idle")
    /\ login' = [login EXCEPT ![l].pc = "select", ![l].account = a]
    /\ UNCHANGED <<tokens, loginCount, selecting, serving>>

\* selectChatServer reads the counts one by one, holding mtx_.
EnterSelect(l) ==
    /\ At(l, "select") /\ selecting = NoToken
    /\ selecting' = l
    /\ login' = [login EXCEPT ![l].pc = "read"]
    /\ UNCHANGED <<tokens, loginCount, serving>>

ReadCount(l, s) ==
    /\ At(l, "read") /\ s \notin DOMAIN login[l].read
    /\ \E n \in {loginCount[s], NoCount} :
         login' = [login EXCEPT ![l].read = [t \in DOMAIN @ \cup {s} |-> IF t = s THEN n ELSE @[t]]]
    /\ UNCHANGED <<tokens, loginCount, selecting, serving>>

LeastRead(l) == {s \in ChatServers : \A t \in ChatServers : login[l].read[s] <= login[l].read[t]}
SelectServer(l) ==
    /\ At(l, "read") /\ DOMAIN login[l].read = ChatServers
    /\ \E s \in LeastRead(l) : login' = [login EXCEPT ![l].pc = "store", ![l].server = s]
    /\ selecting' = NoToken
    /\ UNCHANGED <<tokens, loginCount, serving>>

\* The answer is a success whether the token could be stored or not; the answer of the
\* status server may be lost on its way to the gate.
\* Mutant: a token that is there is not replaced.
SetTokenOnce(a, l) == tokens' = IF tokens[a] = NoToken THEN [tokens EXCEPT ![a] = l] ELSE tokens
SetToken(a, l) == tokens' = [tokens EXCEPT ![a] = l]

StoreToken(l) ==
    /\ At(l, "store")
    /\ \E ok \in BOOLEAN, answer \in {"told", "refused"} :
         /\ IF ok THEN SetToken(login[l].account, l) ELSE UNCHANGED tokens
         /\ login' = [login EXCEPT ![l].pc = answer, ![l].read = <<>>, ![l].moved = 0, ![l].reset = {},
                                   ![l].stored = IF ok THEN {k \in Logins : k \in login[k].stored} \cup {l} ELSE {}]
    /\ UNCHANGED <<loginCount, selecting, serving>>

\* The chat server queues what the client sends while it runs.
Connect(l) ==
    /\ At(l, "told") /\ serving[login[l].server] \in {"up", "unset"}
    /\ login' = [login EXCEPT ![l].pc = "queued"]
    /\ UNCHANGED <<tokens, loginCount, selecting, serving>>

\* LoginHandler: the token must be the one in Redis, and the user be found.
CheckToken(l) ==
    /\ At(l, "queued")
    /\ LET token == tokens[login[l].account]
       IN  \/ token = l /\ login' = [login EXCEPT ![l].pc = "count"]
           \/ token = NoToken /\ login' = [login EXCEPT ![l].pc = "uidInvalid"]
           \/ token \notin {l, NoToken} /\ login' = [login EXCEPT ![l].pc = "tokenInvalid"]
           \/ login' = [login EXCEPT ![l].pc = "uidInvalid", ![l].fault = TRUE]
    /\ UNCHANGED <<tokens, loginCount, selecting, serving>>

\* HINCRBY, which makes a field that is not there, and whose failure is ignored.  Nothing in
\* the code takes a login back from the count when its session ends.
Incremented(s) == IF loginCount[s] = NoCount THEN 1 ELSE loginCount[s] + 1
CountLogin(l) ==
    /\ At(l, "count")
    /\ \/ /\ loginCount' = [loginCount EXCEPT ![login[l].server] = Incremented(login[l].server)]
          /\ login' = [k \in Logins |-> IF k = l THEN [login[k] EXCEPT !.pc = "open", !.counted = TRUE]
                                       ELSE IF At(k, "read") THEN [login[k] EXCEPT !.moved = @ + 1]
                                       ELSE login[k]]
       \/ login' = [login EXCEPT ![l].pc = "open", ![l].fault = TRUE] /\ UNCHANGED loginCount
    /\ UNCHANGED <<tokens, selecting, serving>>

\* HSET or HDEL of the count of a server.
SetCount(s, n) ==
    /\ loginCount' = [loginCount EXCEPT ![s] = n]
    /\ login' = [k \in Logins |->
                   [login[k] EXCEPT !.counted = @ /\ login[k].server # s,
                                    !.reset = IF At(k, "read") THEN @ \cup {s} ELSE @]]

\* main of a chat server resets its count before it listens, and goes on if that fails.
Start(s) ==
    /\ serving[s] = "down"
    /\ \/ SetCount(s, 0) /\ serving' = [serving EXCEPT ![s] = "up"]
       \/ serving' = [serving EXCEPT ![s] = "unset"] /\ UNCHANGED <<login, loginCount>>
    /\ UNCHANGED <<tokens, selecting>>

\* A signal stops it: it accepts nothing more and deletes its count, while the worker goes
\* on with what is queued, until it is destroyed when main has returned.
Stop(s) ==
    /\ serving[s] \in {"up", "unset"}
    /\ SetCount(s, NoCount) \/ UNCHANGED <<login, loginCount>>
    /\ serving' = [serving EXCEPT ![s] = "leaving"]
    /\ UNCHANGED <<tokens, selecting>>

\* The process ends, or is killed, and its sessions with it.
Die(s) ==
    /\ serving[s] # "down"
    /\ serving' = [serving EXCEPT ![s] = "down"]
    /\ login' = [k \in Logins |-> IF login[k].server = s /\ login[k].pc \in {"queued", "count", "open"}
                                 THEN [login[k] EXCEPT !.pc = "ended"] ELSE login[k]]
    /\ UNCHANGED <<tokens, loginCount, selecting>>

LgNext ==
    \/ \E l \in Logins :
         \/ \E a \in Accounts : CheckPassword(l, a)
         \/ EnterSelect(l) \/ \E s \in ChatServers : ReadCount(l, s)
         \/ SelectServer(l) \/ StoreToken(l)
         \/ Connect(l) \/ CheckToken(l) \/ CountLogin(l)
    \/ \E s \in ChatServers : Start(s) \/ Stop(s) \/ Die(s)

LgSpec == LgInit /\ [][LgNext]_lgVars

-----------------------------------------------------------------------------
(* The types, with what the counts are made of.                            *)
Counted(s) == {l \in Logins : login[l].counted /\ login[l].server = s}
LgTypeOK ==
    /\ \A a \in Accounts : tokens[a] \in Logins \cup {NoToken}
    /\ selecting \in Logins \cup {NoToken}
    /\ \A s \in ChatServers : /\ serving[s] \in {"down", "up", "unset", "leaving"}
                              /\ IF loginCount[s] = NoCount THEN Counted(s) = {}
                                 ELSE loginCount[s] = Cardinality(Counted(s))

(* While a server runs whose count was reset when it started, the count is *)
(* of the logins that this process accepted, but for those whose increment *)
(* failed: none of an earlier process is left in it, killed or not, with   *)
(* its last logins counted before or after it had deleted the count        *)
(* (chat_server.cpp:25, 58, logic_system.cpp:217).                         *)
CountsItsOwnLogins ==
    \A s \in ChatServers : serving[s] = "up" =>
        \A l \in Logins : login[l].server = s =>
            /\ login[l].counted => At(l, "open")
            /\ At(l, "open") => login[l].counted \/ login[l].fault

(* A client that was given a token is told by the chat server that it is   *)
(* not the right one only if the token could not be stored, although the   *)
(* client was told success (status_service_impl.cpp:62), or a later login  *)
(* of the account stored another one; that there is none, only then, or if *)
(* Redis or MySQL failed (logic_system.cpp:174-188).                       *)
TokenRefusedOnlyIfLost ==
    [][\A l \in Logins :
         (/\ At(l, "queued")
          /\ login'[l].pc \in {"tokenInvalid", "uidInvalid"}
          /\ login'[l].pc = "uidInvalid" => ~login'[l].fault) =>
         \/ l \notin login[l].stored
         \/ \E k \in Logins \ {l} : {k, l} \subseteq login[k].stored /\ login[k].account = login[l].account]_lgVars

(* The server chosen for a login has no greater count than any other, but  *)
(* for the logins counted and the counts reset or deleted while they were  *)
(* read; a server whose count is not there or could not be read is chosen  *)
(* only if that is so of all (status_service_impl.cpp:32-44).              *)
LeastLoadedIsChosen ==
    [][\A l \in Logins : SelectServer(l) =>
         LET s == login'[l].server
             known == {t \in ChatServers : login[l].read[t] # NoCount}
         IN  known # {} =>
               /\ s \in known
               /\ \A t \in known : {s, t} \cap login[l].reset = {} =>
                                      loginCount[s] <= loginCount[t] + login[l].moved]_lgVars

(* All of these.                                                           *)
LoginSteps == [](LgTypeOK /\ CountsItsOwnLogins) /\ TokenRefusedOnlyIfLost /\ LeastLoadedIsChosen

(* The action properties of registering and of logging in.                 *)
AccountSteps == RegistrationSteps /\ LoginSteps
=============================================================================
