--------------------------- MODULE LockFreeQueue ---------------------------
(***************************************************************************)
(* LockFreeQueue (lock_free_queue.h): a list of nodes whose last is empty. *)
(* A pusher stores its value into that node, links a new one after it and  *)
(* moves the tail; another pusher that finds the node taken helps.  Head   *)
(* and tail count the threads that have read their node; a node's own      *)
(* counts tell when it may be freed.  One step is one access to a shared   *)
(* atomic; a load followed by a swap that is retried until it succeeds is  *)
(* one step where the loaded value decides nothing.                        *)
(***************************************************************************)
EXTENDS Integers, Sequences, FiniteSets

CONSTANTS Threads, Nodes, Null,
          MaxPushes, MaxPops,   \* bounds: calls of Emplace and Pop
          MaxCount              \* bound: how far head or tail is counted

VARIABLES obj, th

vars == <<obj, th>>

Ref(c, n) == [count |-> c, node |-> n]       \* CountedNodePtr
Nowhere == Ref(0, Null)
NodeCounter == [internal |-> 0, external |-> 2]
Idle == [pc |-> "idle", ref |-> Nowhere, node |-> Null, to |-> Nowhere, new |-> Nowhere, val |-> 0, then |-> "idle"]

Init ==
    /\ \E dummy \in Nodes :
        obj = [head |-> Ref(1, dummy), tail |-> Ref(1, dummy),
               data |-> [n \in Nodes |-> 0], next |-> [n \in Nodes |-> Nowhere],
               count |-> [n \in Nodes |-> NodeCounter],
               at |-> [n \in Nodes |-> IF n = dummy THEN "live" ELSE "new"],
               pushes |-> 0, pops |-> 0,
               in |-> <<>>, out |-> <<>>,    \* history: values stored, values the head moved past
               taken |-> {}, lost |-> {}]    \* history: nodes popped, values stored into one of them
    /\ th = [t \in Threads |-> Idle]

At(t, pcs) == th[t].pc \in pcs
Freed(n) == IF obj.at[n] = "live" THEN "freed" ELSE "twice"

(***************************************************************************)
(* The counts: IncreaseExternalCount of head_ or tail_, FreeExternalCount  *)
(* and ReleaseRef of the node a thread is done with.                       *)
(***************************************************************************)
Count(t) ==
    /\ At(t, {"countTail", "countHead"})
    /\ LET end == IF At(t, {"countTail"}) THEN "tail" ELSE "head"
           mine == Ref(obj[end].count + 1, obj[end].node)
       IN  /\ mine.count <= MaxCount
           /\ \/ /\ obj[end] = th[t].ref
                 /\ obj' = [obj EXCEPT ![end] = mine]
                 /\ th' = [th EXCEPT ![t].ref = mine, ![t].node = mine.node,
                                     ![t].pc = IF end = "tail" THEN "store" ELSE "compare"]
              \/ /\ obj[end] # th[t].ref
                 /\ th' = [th EXCEPT ![t].ref = obj[end]]
                 /\ UNCHANGED obj

Settle(t, internal, external) ==
    LET n == th[t].node
        c == [internal |-> obj.count[n].internal + internal, external |-> obj.count[n].external + external]
    IN  /\ obj' = [obj EXCEPT !.count[n] = c,
                              !.at[n] = IF c.internal = 0 /\ c.external = 0 THEN Freed(n) ELSE @]
        /\ th' = [th EXCEPT ![t] = IF @.then = "idle" THEN Idle ELSE [@ EXCEPT !.pc = th[t].then, !.then = "idle"]]

FreeExternalCount(t) == At(t, {"free"}) /\ Settle(t, th[t].ref.count - 2, -1)
ReleaseRef(t) == At(t, {"release"}) /\ Settle(t, -1, 0)

(***************************************************************************)
(* Emplace.                                                                *)
(***************************************************************************)
Emplace(t) ==
    /\ At(t, {"idle"})
    /\ obj.pushes < MaxPushes
    /\ \E n \in Nodes :
        /\ obj.at[n] = "new"
        /\ obj' = [obj EXCEPT !.at[n] = "live", !.pushes = @ + 1]
        /\ th' = [th EXCEPT ![t] = [Idle EXCEPT !.pc = "countTail", !.ref = obj.tail, !.new = Ref(1, n),
                                                !.val = obj.pushes + 1]]

Store(t) ==
    /\ At(t, {"store"})
    /\ LET n == th[t].node
       IN  \/ /\ obj.data[n] = 0
              /\ obj' = [obj EXCEPT !.data[n] = th[t].val, !.in = Append(@, th[t].val),
                                    !.lost = IF n \in obj.taken THEN @ \union {th[t].val} ELSE @]
              /\ th' = [th EXCEPT ![t].pc = "link", ![t].then = "idle"]
           \/ /\ obj.data[n] # 0
              /\ th' = [th EXCEPT ![t].pc = "link", ![t].then = "countTail"]
              /\ UNCHANGED obj

\* Link a new node, or take the one another pusher has linked; the owner of the
\* value then deletes its own, a helper allocates another.
Link(t) ==
    /\ At(t, {"link"})
    /\ LET me == th[t]
       IN  \/ /\ obj.next[me.node] = Nowhere
              /\ \/ /\ me.then = "idle"
                    /\ obj' = [obj EXCEPT !.next[me.node] = me.new]
                    /\ th' = [th EXCEPT ![t].pc = "moveTail", ![t].to = me.new]
                 \/ /\ me.then = "countTail"
                    /\ \E n \in Nodes :
                        /\ obj.at[n] = "new"
                        /\ obj' = [obj EXCEPT !.next[me.node] = me.new, !.at[n] = "live"]
                        /\ th' = [th EXCEPT ![t].pc = "moveTail", ![t].to = me.new, ![t].new = Ref(1, n)]
           \/ /\ obj.next[me.node] # Nowhere
              /\ obj' = IF me.then = "idle" THEN [obj EXCEPT !.at[me.new.node] = Freed(me.new.node)] ELSE obj
              /\ th' = [th EXCEPT ![t].pc = "moveTail", ![t].to = obj.next[me.node],
                                  ![t].new = IF me.then = "idle" THEN Nowhere ELSE @]

\* SetNewTail: swap until done or until the tail is another node.
MoveTail(t) ==
    /\ At(t, {"moveTail"})
    /\ \/ /\ obj.tail = th[t].ref
          /\ obj' = [obj EXCEPT !.tail = th[t].to]
          /\ th' = [th EXCEPT ![t].pc = "free"]
       \/ /\ obj.tail # th[t].ref
          /\ th' = [th EXCEPT ![t].ref = obj.tail,
                              ![t].pc = IF obj.tail.node = th[t].node THEN "moveTail" ELSE "release"]
          /\ UNCHANGED obj

(***************************************************************************)
(* Pop.                                                                    *)
(***************************************************************************)
LoadHead(t) ==
    /\ At(t, {"idle"})
    /\ obj.pops < MaxPops
    /\ obj' = [obj EXCEPT !.pops = @ + 1]
    /\ th' = [th EXCEPT ![t] = [Idle EXCEPT !.pc = "countHead", !.ref = obj.head]]

Compare(t) ==
    /\ At(t, {"compare"})
    /\ th' = [th EXCEPT ![t].pc = IF obj.tail.node = th[t].node THEN "release" ELSE "next"]
    /\ UNCHANGED obj

ReadNext(t) ==
    /\ At(t, {"next"})
    /\ th' = [th EXCEPT ![t].pc = "moveHead", ![t].to = obj.next[th[t].node]]
    /\ UNCHANGED obj

MoveHead(t) ==
    /\ At(t, {"moveHead"})
    /\ \/ /\ obj.head = th[t].ref
          /\ obj' = [obj EXCEPT !.head = th[t].to, !.out = Append(@, obj.data[th[t].node])]
          /\ th' = [th EXCEPT ![t].pc = "take", ![t].val = obj.data[th[t].node]]
       \/ /\ obj.head # th[t].ref
          /\ th' = [th EXCEPT ![t].ref = obj.head, ![t].pc = "release", ![t].then = "countHead"]
          /\ UNCHANGED obj

Take(t) ==
    /\ At(t, {"take"})
    /\ LET n == th[t].node
       IN  obj' = [obj EXCEPT !.data[n] = 0, !.taken = @ \union {n}]
    /\ th' = [th EXCEPT ![t].pc = "free"]

Next ==
    \E t \in Threads :
        \/ Emplace(t) \/ Count(t) \/ Store(t) \/ Link(t) \/ MoveTail(t) \/ FreeExternalCount(t) \/ ReleaseRef(t)
        \/ LoadHead(t) \/ Compare(t) \/ ReadNext(t) \/ MoveHead(t) \/ Take(t)

Spec == Init /\ [][Next]_vars

(***************************************************************************)
(* Properties.                                                             *)
(***************************************************************************)
\* A node is not freed before every thread that counted itself in is done with
\* it, nor freed twice.
Holding == {"store", "link", "moveTail", "free", "release", "compare", "next", "moveHead", "take"}
MemorySafe ==
    /\ \A n \in Nodes : obj.at[n] # "twice"
    /\ \A t \in Threads : At(t, Holding) => obj.at[th[t].node] = "live"
    /\ obj.at[obj.head.node] = "live" /\ obj.at[obj.tail.node] = "live"

\* Values are popped in the order in which they were stored, each once, and what
\* is not popped is still in a node.  The exception: a pusher that held the node of
\* an old tail may store into it after it was popped (Pop has made its data null
\* again); that value was pushed and nobody will pop it.
FifoButLost ==
    LET kept == SelectSeq(obj.in, LAMBDA v : v \notin obj.lost)
        n == Len(obj.out)
    IN  /\ obj.out = SubSeq(kept, 1, n)
        /\ \A t \in Threads : At(t, {"take"}) => obj.data[th[t].node] = th[t].val
        /\ \A i \in (n + 1)..Len(kept) : \E m \in Nodes : obj.at[m] = "live" /\ obj.data[m] = kept[i]

\* A node that is neither between head and tail nor held by a thread has been freed.
NoLeak ==
    \A m \in Nodes : obj.at[m] = "live" =>
        \/ m = obj.head.node \/ \E k \in Nodes : obj.at[k] = "live" /\ obj.next[k].node = m
        \/ \E t \in Threads : m \in {th[t].new.node, th[t].to.node} \/ (At(t, Holding) /\ m = th[t].node)
=============================================================================
