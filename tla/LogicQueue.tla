----------------------------- MODULE LogicQueue -----------------------------
(***************************************************************************)
(* The message queue of LogicSystem, in the chat server and in the network *)
(* library: any number of io threads post, one worker thread handles, and  *)
(* the destructor stops the worker.                                        *)
(*                                                                         *)
(* A post is one step, its accesses are all under mutex_ and so is its     *)
(* notification.  The worker owns mutex_ from "test" to the end of the     *)
(* handler and gives it up only at the top of its loop and while it waits. *)
(* The destructor writes the plain bool is_stop_ and notifies with no lock *)
(* at all: the race is between an old value and the new one.               *)
(***************************************************************************)
EXTENDS Naturals, Sequences

CONSTANTS
  Messages,  \* what is posted; equal messages may be posted again
  MaxPosts   \* bound on the number of posts

ASSUME MaxPostsAssumption == MaxPosts \in Nat

VARIABLES
  msg_queue_,
  is_stop_,
  worker,  \* where the worker thread is
  dtor,    \* progress of ~LogicSystem
  posted,  \* all messages ever pushed, in order
  handled, \* all messages whose handler has run, in order
  atStop   \* how many had been pushed when is_stop_ was written

queueVars == <<msg_queue_, is_stop_, worker, dtor, posted, handled, atStop>>

(***************************************************************************)
(* "lock"   top of the loop            "test"   evaluates the condition    *)
(* "block"  it was true: will wait     "wait"   sleeps on consume_         *)
(* "wake"   notified, not locked yet   "branch" looks at is_stop_          *)
(* "handle" one message                "drain"  all of them                *)
(***************************************************************************)
WorkerPlaces == {"lock", "test", "block", "wait", "wake", "branch", "handle", "drain", "exited"}

\* The worker owns mutex_.
Owning == {"test", "block", "branch", "handle", "drain"}

QueueInit ==
  /\ msg_queue_ = <<>>
  /\ is_stop_ = FALSE
  /\ worker = "lock"
  /\ dtor = "no"
  /\ posted = <<>>
  /\ handled = <<>>
  /\ atStop = 0

Go(from, to) == worker = from /\ worker' = to

\* A notification wakes the worker if it sleeps; it is the only waiter.
Notified == IF worker = "wait" THEN "wake" ELSE worker

\* Mutant: the size is compared before the push.
NotifiedUnlessEmpty(size) == IF size = 2 THEN Notified ELSE worker

\* PostMsgToQueue notifies only when the queue was empty.
NotifiedByPost(size) == IF size = 1 THEN Notified ELSE worker

Post(m) ==
  /\ worker \notin Owning
  /\ dtor # "joined"
  /\ Len(posted) < MaxPosts
  /\ msg_queue_' = Append(msg_queue_, m)
  /\ posted' = Append(posted, m)
  /\ worker' = NotifiedByPost(Len(msg_queue_'))
  /\ UNCHANGED <<is_stop_, dtor, handled, atStop>>

-----------------------------------------------------------------------------
(* DealMsg *)

Lock == Go("lock", "test") /\ UNCHANGED <<msg_queue_, is_stop_, dtor, posted, handled, atStop>>

\* Mutant: the loop waits for messages only.
MustWaitForMessage == msg_queue_ = <<>>

MustWait == msg_queue_ = <<>> /\ ~ is_stop_

Test ==
  /\ Go("test", IF MustWait THEN "block" ELSE "branch")
  /\ UNCHANGED <<msg_queue_, is_stop_, dtor, posted, handled, atStop>>

\* consume_.wait gives mutex_ up and sleeps in one step.
Wait == Go("block", "wait") /\ UNCHANGED <<msg_queue_, is_stop_, dtor, posted, handled, atStop>>

SpuriousWake ==
  Go("wait", "wake") /\ UNCHANGED <<msg_queue_, is_stop_, dtor, posted, handled, atStop>>

\* Mutant: if instead of while.
RelockOnce ==
  Go("wake", "branch") /\ UNCHANGED <<msg_queue_, is_stop_, dtor, posted, handled, atStop>>

Relock == Go("wake", "test") /\ UNCHANGED <<msg_queue_, is_stop_, dtor, posted, handled, atStop>>

\* Mutant: a stopped worker leaves at once.
BranchLeaving ==
  /\ Go("branch", IF is_stop_ THEN "exited" ELSE "handle")
  /\ UNCHANGED <<msg_queue_, is_stop_, dtor, posted, handled, atStop>>

Branch ==
  /\ Go("branch", IF is_stop_ THEN "drain" ELSE "handle")
  /\ UNCHANGED <<msg_queue_, is_stop_, dtor, posted, handled, atStop>>

DealFirstMsg ==
  /\ handled' = Append(handled, Head(msg_queue_))
  /\ msg_queue_' = Tail(msg_queue_)

Handle ==
  /\ Go("handle", "lock")
  /\ DealFirstMsg
  /\ UNCHANGED <<is_stop_, dtor, posted, atStop>>

\* Mutant: what is left is thrown away.
DrainClearing ==
  /\ worker = "drain"
  /\ msg_queue_ # <<>>
  /\ msg_queue_' = <<>>
  /\ UNCHANGED <<is_stop_, worker, dtor, posted, handled, atStop>>

Drain ==
  /\ worker = "drain"
  /\ msg_queue_ # <<>>
  /\ DealFirstMsg
  /\ UNCHANGED <<is_stop_, worker, dtor, posted, atStop>>

Exit ==
  /\ Go("drain", "exited")
  /\ msg_queue_ = <<>>
  /\ UNCHANGED <<msg_queue_, is_stop_, dtor, posted, handled, atStop>>

-----------------------------------------------------------------------------
(* ~LogicSystem *)

Stop ==
  /\ dtor = "no"
  /\ dtor' = "stopping"
  /\ is_stop_' = TRUE
  /\ atStop' = Len(posted)
  /\ UNCHANGED <<msg_queue_, worker, posted, handled>>

Notify ==
  /\ dtor = "stopping"
  /\ dtor' = "joining"
  /\ worker' = Notified
  /\ UNCHANGED <<msg_queue_, is_stop_, posted, handled, atStop>>

Join ==
  /\ dtor = "joining"
  /\ worker = "exited"
  /\ dtor' = "joined"
  /\ UNCHANGED <<msg_queue_, is_stop_, worker, posted, handled, atStop>>

\* What the worker thread does of itself.
DealMsg == Lock \/ Test \/ Wait \/ Relock \/ Branch \/ Handle \/ Drain \/ Exit

QueueNext ==
  \/ \E m \in Messages : Post(m)
  \/ DealMsg
  \/ SpuriousWake
  \/ Stop
  \/ Notify
  \/ Join

\* The worker and the destructor run on; nobody has to post, and no wake-up
\* comes by itself.
QueueFairness == WF_queueVars(DealMsg) /\ WF_queueVars(Notify) /\ WF_queueVars(Join)

QueueSpec == QueueInit /\ [][QueueNext]_queueVars

QueueFairSpec == QueueSpec /\ QueueFairness

-----------------------------------------------------------------------------
(* Properties *)

\* The variables have their types, and the worker calls front() on a queue
\* that has one.
QueueTypeOK ==
  /\ msg_queue_ \in Seq(Messages)
  /\ is_stop_ \in BOOLEAN
  /\ worker \in WorkerPlaces
  /\ dtor \in {"no", "stopping", "joining", "joined"}
  /\ posted \in Seq(Messages)
  /\ handled \in Seq(Messages)
  /\ atStop \in Nat
  /\ worker = "handle" => msg_queue_ # <<>>

\* Every message is handled once and in the order of the posts: what was
\* handled and what is queued is what was posted, also while the worker
\* drains the queue of a stopped system.
HandledInOrder == posted = handled \o msg_queue_

\* The worker never sleeps while a message is queued: to notify only when the
\* queue was empty is enough for one worker, whatever posts come between.
NeverSleepsOnMessage == worker = "wait" => msg_queue_ = <<>>

\* A worker that has left has handled all that was posted before the stop.
StopLosesNothing == worker = "exited" => Len(handled) >= atStop

\* A message posted before the stop is handled.
PostedIsHandled ==
  \A i \in 1 .. MaxPosts : (Len(posted) >= i /\ ~ is_stop_) ~> (Len(handled) >= i)

\* A worker that is awake when the destructor has notified it leaves.
StopSeenIfAwake ==
  (dtor = "joining" /\ worker \notin {"block", "wait"}) ~> (dtor = "joined")

\* Refuted: "关闭状态, 及时处理清空队列" (in DealMsg): once stopped, the worker
\* promptly empties the queue and leaves, so that the destructor returns.
\* is_stop_ and the notification may come after the worker has evaluated its
\* condition and before it sleeps.
StopIsSeen == (dtor = "joining") ~> (dtor = "joined")
=============================================================================
