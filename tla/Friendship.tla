----------------------------- MODULE Friendship -----------------------------
(***************************************************************************)
(* Applications and friendships in MySQL (chat_server/logic_system.cpp,    *)
(* common/mysql_mgr.cpp).  Every chat server has one worker, so as many    *)
(* handlers run at once as there are servers; an action is one statement.  *)
(* Statements commit by themselves except those of AddFriend, whose        *)
(* transaction locks each row it inserts until it ends.  InnoDB answers a  *)
(* deadlock, a time-out or a lost connection with an error, and a statement*)
(* or a commit whose answer is lost may have been carried out.  A server   *)
(* may end inside a handler; MySQL then rolls its transaction back.        *)
(***************************************************************************)
EXTENDS Naturals, FiniteSets

CONSTANTS People, Workers, Nobody,
          MaxRequests         \* bound: requests handled by a worker

ASSUME FriendAssumption == Nobody \notin Workers /\ MaxRequests \in Nat

VARIABLES applied,            \* rows of friend_apply
          accepted,           \* those with status 1
          friends,            \* committed rows of friend: <<self_id, friend_id>>
          rowLock,            \* the worker that inserted a row and has not committed
          work,               \* the request a worker handles
          handledReqs,        \* requests a worker has begun
          broken              \* history: accepted pairs whose AddFriend was not reached,
                              \* failed, or was cut off by the end of the server

frVars == <<applied, accepted, friends, rowLock, work, handledReqs, broken>>

Pairs == {p \in People \X People : p[1] # p[2]}
Back(p) == <<p[2], p[1]>>
Idle == [pc |-> "idle", pair |-> Nobody, answer |-> "none"]

FrInit ==
    /\ applied = {} /\ accepted = {} /\ friends = {} /\ broken = {}
    /\ rowLock = [p \in Pairs |-> Nobody]
    /\ work = [w \in Workers |-> Idle]
    /\ handledReqs = [w \in Workers |-> 0]

To(w, pc) == work' = [work EXCEPT ![w] = [pc |-> pc, pair |-> @.pair, answer |-> @.answer]]
Finish(w, answer) == work' = [work EXCEPT ![w] = [pc |-> "idle", pair |-> @.pair, answer |-> answer]]

Receive(w, kind, p) ==
    /\ work[w].pc = "idle"
    /\ handledReqs[w] < MaxRequests
    /\ work' = [work EXCEPT ![w] = [pc |-> kind, pair |-> p, answer |-> "none"]]
    /\ handledReqs' = [handledReqs EXCEPT ![w] = @ + 1]
    /\ UNCHANGED <<applied, accepted, friends, rowLock, broken>>

\* AddFriendHandler.  A second application changes no row, which the server reports as an
\* affected row or not, as its session is set up.
Apply(w) ==
    /\ work[w].pc = "apply"
    /\ \/ /\ applied' = applied \cup {work[w].pair}
          /\ Finish(w, "applied") \/ Finish(w, "error")     \* its answer is lost
       \/ UNCHANGED applied /\ Finish(w, "error")          \* no user, no row changed, no connection
    /\ UNCHANGED <<accepted, friends, rowLock, handledReqs, broken>>

\* AuthFriendHandler, AuthFriendApply: the application of the other one.
AcceptTheirs(w) ==
    /\ work[w].pc = "auth"
    /\ LET theirs == Back(work[w].pair) IN
         \/ /\ theirs \in applied
            /\ accepted' = accepted \cup {theirs}
            /\ \/ To(w, "own") /\ UNCHANGED broken
               \/ Finish(w, "error") /\ broken' = broken \cup {theirs}     \* its answer is lost
         \/ /\ theirs \notin applied \/ theirs \in accepted       \* no row is affected
            /\ Finish(w, "error") /\ UNCHANGED <<accepted, broken>>
         \/ Finish(w, "error") /\ UNCHANGED <<accepted, broken>>    \* no user, no connection
    /\ UNCHANGED <<applied, friends, rowLock, handledReqs>>

\* Their own application as well, if there is one.
AcceptOwn(w) ==
    /\ work[w].pc = "own"
    /\ \/ /\ accepted' = accepted \cup ({work[w].pair} \cap applied)
          /\ \/ To(w, "first") /\ UNCHANGED broken
             \/ Finish(w, "error") /\ broken' = broken \cup {Back(work[w].pair)}
       \/ UNCHANGED accepted /\ Finish(w, "error") /\ broken' = broken \cup {Back(work[w].pair)}
    /\ UNCHANGED <<applied, friends, rowLock, handledReqs>>

\* AddFriend.  INSERT IGNORE waits for the worker that holds the row, and affects no row
\* if it is there already.
Unlock(w) == [p \in Pairs |-> IF rowLock[p] = w THEN Nobody ELSE rowLock[p]]
Rollback(w) ==
    /\ rowLock' = Unlock(w)
    /\ broken' = broken \cup {Back(work[w].pair)}
    /\ Finish(w, "error")

InsertIgnore(w, p, next) ==
    \/ /\ rowLock[p] = Nobody /\ p \notin friends
       /\ rowLock' = [rowLock EXCEPT ![p] = w]
       /\ To(w, next) /\ UNCHANGED broken
    \/ rowLock[p] = Nobody /\ p \in friends /\ Rollback(w)
    \/ Rollback(w)                                   \* deadlock, time-out, error

InsertFirst(w) ==
    /\ work[w].pc = "first"
    /\ InsertIgnore(w, work[w].pair, "second")
    /\ UNCHANGED <<applied, accepted, friends, handledReqs>>

\* Mutant: the applicant's row is forgotten.
InsertSecondNot(w) ==
    work[w].pc = "second" /\ To(w, "commit") /\ UNCHANGED <<applied, accepted, friends, rowLock, handledReqs, broken>>

InsertSecond(w) ==
    /\ work[w].pc = "second"
    /\ InsertIgnore(w, Back(work[w].pair), "commit")
    /\ UNCHANGED <<applied, accepted, friends, handledReqs>>

Commit(w) ==
    /\ work[w].pc = "commit"
    /\ \/ /\ friends' = friends \cup {p \in Pairs : rowLock[p] = w}
          /\ rowLock' = Unlock(w) /\ UNCHANGED broken
          /\ Finish(w, "friends") \/ Finish(w, "error")    \* its answer is lost
       \/ Rollback(w) /\ UNCHANGED friends
    /\ UNCHANGED <<applied, accepted, handledReqs>>

\* The server ends, whatever its handler was at, and is started again.
End(w) ==
    /\ work[w].pc # "idle"
    /\ rowLock' = Unlock(w)
    /\ broken' = IF work[w].pc \in {"own", "first", "second", "commit"}
                 THEN broken \cup {Back(work[w].pair)} ELSE broken
    /\ Finish(w, "none")
    /\ UNCHANGED <<applied, accepted, friends, handledReqs>>

WorkStep(w) ==
    \/ Apply(w) \/ AcceptTheirs(w) \/ AcceptOwn(w)
    \/ InsertFirst(w) \/ InsertSecond(w) \/ Commit(w)
    \/ End(w)

FrNext == \E w \in Workers :
    \/ \E kind \in {"apply", "auth"}, p \in Pairs : Receive(w, kind, p)
    \/ WorkStep(w)

FrSpec == FrInit /\ [][FrNext]_frVars

-----------------------------------------------------------------------------
FrTypeOK ==
    /\ accepted \subseteq applied /\ applied \subseteq Pairs /\ friends \subseteq Pairs
    /\ \A p \in Pairs : rowLock[p] \in Workers \cup {Nobody}
    /\ \A w \in Workers : work[w].pc \in {"idle", "apply", "auth", "own", "first", "second", "commit"}

(* Friendship is mutual in every committed state, whatever accepts ran at  *)
(* the same time, from either side, and wherever they failed: both rows    *)
(* are inserted or none (mysql_mgr.cpp:209).                               *)
FriendshipIsMutual == \A p \in friends : Back(p) \in friends

(* Friends have applied, one of them at least, and been accepted.          *)
FriendsWereAccepted == \A p \in friends : {p, Back(p)} \cap accepted # {}

(* An accepted application is a friendship, or its acceptance is still     *)
(* being handled, or one ended between the two transactions: with an error *)
(* of a statement, carried out or not, or with the server                  *)
(* (logic_system.cpp:370, mysql_mgr.cpp:183-201).                          *)
AcceptedBecomesFriends ==
    \A p \in accepted : \/ p \in friends
                        \/ {p, Back(p)} \cap broken # {}
                        \/ \E w \in Workers : /\ work[w].pair \in {p, Back(p)}
                                              /\ work[w].pc \in {"own", "first", "second", "commit"}

(* A success is final, whatever the others do: who was told so has applied,*)
(* or is a friend of whoever applied.                                      *)
SuccessIsTrue ==
    \A w \in Workers :
        /\ work[w].answer = "applied" => work[w].pair \in applied
        /\ work[w].answer = "friends" =>
              Back(work[w].pair) \in accepted /\ {work[w].pair, Back(work[w].pair)} \subseteq friends

(* What friendship means.                                                  *)
FriendshipInv ==
    FrTypeOK /\ FriendshipIsMutual /\ FriendsWereAccepted /\ AcceptedBecomesFriends /\ SuccessIsTrue

=============================================================================
