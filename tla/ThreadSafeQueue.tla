-------------------------- MODULE ThreadSafeQueue --------------------------
(***************************************************************************)
(* ThreadSafeQueue (thread_safe_queue.h): a list with a mutex at each end, *)
(* whose last node is empty, so that head_ = tail_ means an empty queue.   *)
(* The condition variable is waited on under head_mtx_ and notified under  *)
(* tail_mtx_; head_ is compared with tail_ without the mutex of the tail.  *)
(* The nodes between head_ and tail_ are a sequence of what they hold.     *)
(***************************************************************************)
EXTENDS Naturals, Sequences, FiniteSets

CONSTANTS Threads, Null,
          MaxPushes, MaxPops    \* bounds: calls of Emplace, calls that pop

VARIABLES obj, th

vars == <<obj, th>>

Init ==
    /\ obj = [items |-> <<>>, headMtx |-> Null, tailMtx |-> Null, waiting |-> {},
              pushes |-> 0, pops |-> 0, gone |-> "no",
              taken |-> {},         \* history: what was returned
              missed |-> {}]        \* history: threads that a notification found between test and sleep
    /\ th = [t \in Threads |-> "idle"]

At(t, pcs) == th[t] \in pcs
Go(t, pc) == th' = [th EXCEPT ![t] = pc]

(***************************************************************************)
(* Emplace.                                                                *)
(***************************************************************************)
LockTail(t) ==
    /\ At(t, {"idle"})
    /\ obj.tailMtx = Null
    /\ obj.pushes < MaxPushes
    /\ obj' = [obj EXCEPT !.tailMtx = t, !.pushes = @ + 1]
    /\ Go(t, "append")

Append1(t) ==
    /\ At(t, {"append"})
    /\ obj' = [obj EXCEPT !.items = Append(@, obj.pushes)]
    /\ Go(t, "notify")

\* notify_one and the end of the scope of the lock.
Notify(t) ==
    /\ At(t, {"notify"})
    /\ LET o == [obj EXCEPT !.tailMtx = Null, !.missed = @ \union {u \in Threads : At(u, {"sleep"})}]
       IN  \/ /\ obj.waiting = {}
              /\ obj' = o
              /\ Go(t, "idle")
           \/ \E u \in obj.waiting :
                /\ obj' = [o EXCEPT !.waiting = @ \ {u}]
                /\ th' = [th EXCEPT ![t] = "idle", ![u] = "woken"]

(***************************************************************************)
(* WaitAndPop ("wait"), TryPop ("try"), TrySteal ("steal").                *)
(***************************************************************************)
LockHead(t) ==
    /\ obj.headMtx = Null
    /\ \/ /\ At(t, {"idle"})
          /\ obj.pops < MaxPops
          /\ \E call \in {"wait", "try", "steal"} :
                /\ call = "steal" => obj.tailMtx = Null
                /\ obj' = [obj EXCEPT !.headMtx = t, !.pops = @ + 1,
                                      !.tailMtx = IF call = "steal" THEN t ELSE @]
                /\ Go(t, call)
       \/ At(t, {"woken"}) /\ obj' = [obj EXCEPT !.headMtx = t] /\ Go(t, "wait")

Test(t) ==
    /\ At(t, {"wait", "try", "steal"})
    /\ \/ /\ obj.items # <<>>
          /\ Go(t, IF th[t] = "steal" THEN "popTail" ELSE "popHead")
          /\ UNCHANGED obj
       \/ obj.items = <<>> /\ At(t, {"wait"}) /\ Go(t, "sleep") /\ UNCHANGED obj
       \/ /\ obj.items = <<>> /\ At(t, {"try", "steal"})
          /\ obj' = [obj EXCEPT !.headMtx = Null, !.tailMtx = IF th[t] = "steal" THEN Null ELSE @]
          /\ Go(t, "idle")

\* The wait gives up head_mtx_ and sleeps in one step, but tail_mtx_ was not held.
Sleep(t) ==
    /\ At(t, {"sleep"})
    /\ obj' = [obj EXCEPT !.headMtx = Null, !.waiting = @ \union {t}]
    /\ Go(t, "asleep")

PopHead(t) ==
    /\ At(t, {"popHead"})
    /\ obj' = [obj EXCEPT !.items = Tail(@), !.taken = @ \union {Head(obj.items)}, !.headMtx = Null]
    /\ Go(t, "idle")

PopTail(t) ==
    /\ At(t, {"popTail"})
    /\ LET n == Len(obj.items)
       IN  obj' = [obj EXCEPT !.items = SubSeq(@, 1, n - 1), !.taken = @ \union {obj.items[n]},
                              !.headMtx = Null, !.tailMtx = Null]
    /\ Go(t, "idle")

\* The destructor, when no call is under way.  It frees the first node and goes on with that
\* node: unless the queue is empty it is read and freed again ("twice"), and the model stops.
Destroy ==
    /\ \A t \in Threads : At(t, {"idle"})
    /\ obj' = [obj EXCEPT !.gone = IF obj.items = <<>> THEN "freed" ELSE "twice"]
    /\ UNCHANGED th

Next ==
    /\ obj.gone = "no"
    /\ \/ Destroy
       \/ \E t \in Threads :
            \/ LockTail(t) \/ Append1(t) \/ Notify(t)
            \/ LockHead(t) \/ Test(t) \/ Sleep(t) \/ PopHead(t) \/ PopTail(t)

Spec == Init /\ [][Next]_vars

(***************************************************************************)
(* Properties.                                                             *)
(***************************************************************************)
\* Whoever has seen the queue not empty under head_mtx_ finds an element, however
\* often the tail was moved or stolen from since; nothing is lost or taken twice.  The
\* destructor frees each node once only where all that was put into the queue was taken.
PopFinds ==
    /\ \A t \in Threads : At(t, {"popHead", "popTail"}) => obj.items # <<>>
    /\ obj.gone = "freed" => Cardinality(obj.taken) = obj.pushes
    /\ Cardinality(obj.taken) + Len(obj.items)
        + Cardinality({t \in Threads : At(t, {"append"})}) = obj.pushes

\* When nobody is at work, a waiter sleeps although the queue is not empty only if
\* some notification came between its test and its sleep: the mutex under which
\* Emplace notifies is not the one under which it waits.
SleepsOnItemOnlyIfMissed ==
    /\ obj.items # <<>>
    /\ obj.waiting # {}
    /\ \A t \in Threads : At(t, {"idle", "asleep"})
    => obj.waiting \cap obj.missed # {}
=============================================================================
