-------------------------- MODULE LockedContainers --------------------------
(***************************************************************************)
(* The containers of src/concurrency that take one lock for a call:        *)
(*   "table"    ThreadSafeHashTable, a shared mutex for each bucket;       *)
(*   "ring"     CircularQueueSeq and CircularQueueLock, a spinning flag or *)
(*              a mutex around the same steps on raw memory;               *)
(*   "adaptor"  ThreadSafeStack and SimpleThreadSafeQueue, a mutex and a   *)
(*              condition variable.                                        *)
(* and, below, the list that takes a lock for a node.                      *)
(* A call takes its lock in one step and works in others: what it found is *)
(* used later.  The history `abs` is what the calls have made so far.      *)
(***************************************************************************)
EXTENDS Naturals, Sequences, FiniteSets, SequencesExt, TLC

CONSTANTS Threads, Null,
          Keys, Values, Buckets,   \* a key k is hashed to the bucket k % Buckets
          N,                       \* what the ring holds
          Nodes,                   \* of the list
          MaxCalls, MaxWalks       \* bounds: calls; of the list, calls of RemoveIf, FindFirstIf, ForEach

VARIABLES obj, th

vars == <<obj, th>>

Idle == [pc |-> "idle"]
At(t, pcs) == th[t].pc \in pcs
Return(t) == th' = [th EXCEPT ![t] = Idle]
Step(t, f) == th' = [th EXCEPT ![t] = f]
Begin(t, f) ==
    /\ At(t, {"idle"}) /\ obj.calls < MaxCalls
    /\ obj' = [obj EXCEPT !.calls = @ + 1]
    /\ Step(t, f)

-----------------------------------------------------------------------------
(* The table.  GetMap locks all buckets, first to last.                    *)

BucketIds == 0..Buckets - 1
GetBucket(k) == k % Buckets
TableInit ==
    obj = [kind |-> "table", calls |-> 0, data |-> [b \in BucketIds |-> {}], writer |-> [b \in BucketIds |-> Null],
           readers |-> [b \in BucketIds |-> {}], abs |-> {}]

TableCall(t) ==
    /\ obj.kind = "table"
    /\ \/ \E op \in {"ValueFor", "RemoveMapping"}, k \in Keys : Begin(t, [pc |-> "lock", op |-> op, key |-> k, bucket |-> GetBucket(k)])
       \/ \E k \in Keys, v \in Values :
            Begin(t, [pc |-> "lock", op |-> "AddOrUpdateMapping", key |-> k, bucket |-> GetBucket(k), value |-> v])
       \/ Begin(t, [pc |-> "lock", op |-> "GetMap", bucket |-> 0])


\* A writer waits for the readers of the bucket, too.
Free(b, op) == obj.writer[b] = Null /\ (op = "ValueFor" \/ obj.readers[b] = {})
Lock(t) ==
    /\ At(t, {"lock"})
    /\ LET b == th[t].bucket
           op == th[t].op
       IN  /\ Free(b, op)
           /\ obj' = IF op = "ValueFor" THEN [obj EXCEPT !.readers[b] = @ \union {t}] ELSE [obj EXCEPT !.writer[b] = t]
           /\ Step(t, IF op # "GetMap" THEN [th[t] EXCEPT !.pc = "find"]
                      ELSE IF b + 1 \in BucketIds THEN [th[t] EXCEPT !.bucket = @ + 1]
                      ELSE [pc |-> "copy", op |-> op, bucket |-> 0, result |-> {}])

\* FindEntryFor
Find(t) ==
    /\ At(t, {"find"})
    /\ LET found == {e \in obj.data[th[t].bucket] : e[1] = th[t].key}
       IN  IF found = {} THEN Step(t, [th[t] EXCEPT !.pc = "act"] @@ [found |-> <<>>])
           ELSE \E e \in found : Step(t, [th[t] EXCEPT !.pc = "act"] @@ [found |-> e])
    /\ UNCHANGED obj

\* The node that was found is read, written or erased; the lock ends with the call.
Act(t) ==
    /\ At(t, {"act"})
    /\ LET c == th[t]
           b == c.bucket
           new == <<c.key, c.value>>
           o == [obj EXCEPT !.writer[b] = IF @ = t THEN Null ELSE @, !.readers[b] = @ \ {t}]
           others == {e \in obj.abs : e[1] # c.key}
       IN  obj' = CASE c.op = "ValueFor" -> o
                    [] c.op = "AddOrUpdateMapping" -> [o EXCEPT !.data[b] = (@ \ {c.found}) \union {new}, !.abs = others \union {new}]
                    [] c.op = "RemoveMapping" -> [o EXCEPT !.data[b] = @ \ {c.found}, !.abs = others]
    /\ Return(t)

\* The buckets are copied; all locks end with the call.
CopyMap(t) ==
    /\ At(t, {"copy"})
    /\ LET b == th[t].bucket
       IN  IF b \in BucketIds
           THEN Step(t, [th[t] EXCEPT !.bucket = @ + 1, !.result = @ \union obj.data[b]]) /\ UNCHANGED obj
           ELSE Return(t) /\ obj' = [obj EXCEPT !.writer = [c \in BucketIds |-> Null]]

TableNext == \E t \in Threads : TableCall(t) \/ Lock(t) \/ Find(t) \/ Act(t) \/ CopyMap(t)

-----------------------------------------------------------------------------
(* The ring.  A cell is raw memory, an element, or what Pop has moved from. *)

Capacity == N + 1
Cells == 0..N
RingInit ==
    obj = [kind |-> "ring", calls |-> 0, using |-> FALSE, head |-> 0, tail |-> 0, cells |-> [c \in Cells |-> "raw"],
           abs |-> <<>>, gone |-> FALSE, bad |-> FALSE,
           popped |-> <<>>]           \* what Pop has returned

RingCall(t) ==
    /\ obj.kind = "ring" /\ ~obj.gone
    /\ \/ \E v \in Values : Begin(t, [pc |-> "acquire", op |-> "Emplace", value |-> v])
       \/ Begin(t, [pc |-> "acquire", op |-> "Pop"])

Acquire(t) ==
    /\ At(t, {"acquire"}) /\ ~obj.using
    /\ obj' = [obj EXCEPT !.using = TRUE]
    /\ Step(t, [th[t] EXCEPT !.pc = "test"])

Full == (obj.tail + 1) % Capacity = obj.head
Test(t) ==
    /\ At(t, {"test"})
    /\ LET stops == IF th[t].op = "Emplace" THEN Full ELSE obj.head = obj.tail
       IN  Step(t, [th[t] EXCEPT !.pc = IF stops THEN "release" ELSE "element"])
    /\ UNCHANGED obj

\* construct_at the tail, or move from the head: the element that was moved from is not
\* destroyed, and constructed over later.
Element(t) ==
    /\ At(t, {"element"})
    /\ obj' = IF th[t].op = "Emplace"
              THEN [obj EXCEPT !.cells[obj.tail] = th[t].value, !.abs = Append(@, th[t].value),
                               !.bad = @ \/ obj.cells[obj.tail] \in Values]
              ELSE [obj EXCEPT !.cells[obj.head] = "moved", !.popped = Append(@, obj.cells[obj.head]),
                               !.bad = @ \/ obj.cells[obj.head] \notin Values]
    /\ Step(t, [th[t] EXCEPT !.pc = "advance"])

Advance(t) ==
    /\ At(t, {"advance"})
    /\ obj' = IF th[t].op = "Emplace" THEN [obj EXCEPT !.tail = (@ + 1) % Capacity] ELSE [obj EXCEPT !.head = (@ + 1) % Capacity]
    /\ Step(t, [th[t] EXCEPT !.pc = "release"])

Release(t) ==
    /\ At(t, {"release"})
    /\ obj' = [obj EXCEPT !.using = FALSE]
    /\ Return(t)

\* The destructor, when no call is under way: from the head to the tail.
DestroyRing ==
    /\ obj.kind = "ring" /\ ~obj.gone /\ \A t \in Threads : At(t, {"idle"})
    /\ LET held == {c \in Cells : (c + Capacity - obj.head) % Capacity < (obj.tail + Capacity - obj.head) % Capacity}
       IN  obj' = [obj EXCEPT !.gone = TRUE, !.head = obj.tail, !.bad = @ \/ \E c \in held : obj.cells[c] \notin Values,
                              !.cells = [c \in Cells |-> IF c \in held THEN "raw" ELSE @[c]]]
    /\ UNCHANGED th

RingNext ==
    \/ \E t \in Threads : RingCall(t) \/ Acquire(t) \/ Test(t) \/ Element(t) \/ Advance(t) \/ Release(t)
    \/ DestroyRing

-----------------------------------------------------------------------------
(* The adaptors.                                                           *)

AdaptorInit ==
    obj = [kind |-> "adaptor", calls |-> 0, mtx |-> Null,
           size |-> 0]         \* of data_

AdaptorCall(t) ==
    /\ obj.kind = "adaptor"
    /\ \E op \in {"Emplace", "WaitAndPop", "TryPop"} : Begin(t, [pc |-> "mutex", op |-> op])

LockMutex(t) ==
    /\ At(t, {"mutex", "woken"}) /\ obj.mtx = Null
    /\ obj' = [obj EXCEPT !.mtx = t]
    /\ Step(t, [th[t] EXCEPT !.pc = "locked"])

Sleepers == {t \in Threads : At(t, {"asleep"})}
\* Emplace notifies one sleeper before it unlocks.
Emplace(t) ==
    /\ At(t, {"locked"}) /\ th[t].op = "Emplace"
    /\ obj' = [obj EXCEPT !.mtx = Null, !.size = @ + 1]
    /\ IF Sleepers = {} THEN Return(t)
       ELSE \E s \in Sleepers : th' = [th EXCEPT ![t] = Idle, ![s].pc = "woken"]

\* WaitAndPop sleeps on an empty container, TryPop returns nothing.
Pop(t) ==
    /\ At(t, {"locked"}) /\ th[t].op # "Emplace"
    /\ obj' = [obj EXCEPT !.mtx = Null, !.size = IF @ = 0 THEN 0 ELSE @ - 1]
    /\ IF obj.size = 0 /\ th[t].op = "WaitAndPop" THEN Step(t, [th[t] EXCEPT !.pc = "asleep"]) ELSE Return(t)

\* A sleeper may wake of itself.
WakeSpuriously(t) ==
    /\ At(t, {"asleep"})
    /\ Step(t, [th[t] EXCEPT !.pc = "mutex"])
    /\ UNCHANGED obj

AdaptorNext == \E t \in Threads : AdaptorCall(t) \/ LockMutex(t) \/ Emplace(t) \/ Pop(t) \/ WakeSpuriously(t)

-----------------------------------------------------------------------------
Init == (TableInit \/ RingInit \/ AdaptorInit) /\ th = [t \in Threads |-> Idle]
Next == TableNext \/ RingNext \/ AdaptorNext
Spec == Init /\ [][Next]_vars

(***************************************************************************)
(* Properties.                                                             *)
(***************************************************************************)
\* The buckets hold what the calls have made of the table, each key once and in its bucket;
\* what a call has found is there until it is used; GetMap returns the table as it is at one
\* moment, although it copies bucket after bucket; and the threads that wait for buckets do
\* not wait for each other.
TableIsMap ==
    obj.kind = "table" =>
        /\ obj.abs = UNION {obj.data[b] : b \in BucketIds}
        /\ \A b \in BucketIds : \A e, f \in obj.data[b] : GetBucket(e[1]) = b /\ (e[1] = f[1] => e = f)
        /\ \A t \in Threads : At(t, {"act"}) /\ th[t].found # <<>> => th[t].found \in obj.data[th[t].bucket]
        /\ \A t \in Threads : At(t, {"copy"}) /\ th[t].bucket = Buckets => th[t].result = obj.abs
        /\ \A W \in SUBSET Threads \ {{}} : \E t \in W :
                At(t, {"lock"}) => \A u \in W : u # obj.writer[th[t].bucket] /\ u \notin obj.readers[th[t].bucket]

\* The ring gives the elements back in their order, at most N of them are in it, and none is
\* constructed over another, moved from twice, or destroyed twice.
RingIsQueue ==
    obj.kind = "ring" =>
        /\ ~obj.bad
        /\ IsPrefix(obj.popped, obj.abs)
        /\ Cardinality({c \in Cells : obj.cells[c] \in Values}) <= N
        /\ ~obj.gone => Cardinality({c \in Cells : obj.cells[c] \in Values}) = Len(obj.abs) - Len(obj.popped)

\* While somebody sleeps in WaitAndPop, for each element that is there another has been
\* woken and not taken one yet.
NoneSleepsInVain ==
    obj.kind = "adaptor" /\ Sleepers # {} =>
        obj.size <= Cardinality({t \in Threads : At(t, {"woken"}) \/ (At(t, {"locked"}) /\ th[t].op = "WaitAndPop")})

-----------------------------------------------------------------------------
(***************************************************************************)
(* DoublePushList (double_push_list.h): a list with a mutex in every node, *)
(* locked hand over hand; ThreadSafeList (thread_safe_list.h) is the same  *)
(* without the tail.  PushBack reads tail_ before it holds tail_mtx_: if it *)
(* locks another node than the tail, or one that has been destroyed, the   *)
(* behaviour is undefined and the model stops (`broken`).  So it does when *)
(* ForEach, which goes on by the link of a node that it has unlocked, does *)
(* not find there the node that it holds.                                  *)
(***************************************************************************)
Hd == "head_"
ListCells == Nodes \union {Hd}
Resting == [pc |-> "idle", curr |-> Null, node |-> Null, op |-> "none"]

ListInit ==
    /\ obj = [next |-> [c \in ListCells |-> Null], tail |-> Hd, mtx |-> [c \in ListCells |-> Null], tailMtx |-> Null,
              at |-> [n \in ListCells |-> IF n = Hd THEN "live" ELSE "new"],
              abs |-> <<>>,                     \* history: the list
              walks |-> 0, broken |-> Null,     \* whose step the code does not define
              crowd |-> {}]                     \* history: threads behind whose back the links changed
    /\ th = [t \in Threads |-> Resting]

Rest(t) == th' = [th EXCEPT ![t] = Resting]
Go(t, pc) == th' = [th EXCEPT ![t].pc = pc]
Place(n) == CHOOSE i \in DOMAIN obj.abs : obj.abs[i] = n
\* Those that will rely on a tail or a link which they do not protect.
Trusting == {u \in Threads : At(u, {"backLock"}) \/ (At(u, {"visit"}) /\ th[u].op = "ForEach")}
Crowded == [obj EXCEPT !.crowd = @ \union Trusting]

(***************************************************************************)
(* PushFront; an only node becomes the tail, too.                          *)
(***************************************************************************)
PushFront(t) ==
    /\ At(t, {"idle"})
    /\ obj.mtx[Hd] = Null
    /\ \E n \in Nodes :
        /\ obj.at[n] = "new"
        /\ LET o == [Crowded EXCEPT !.at[n] = "live", !.next[n] = obj.next[Hd], !.next[Hd] = n, !.abs = <<n>> \o @]
           IN  \/ /\ obj.next[Hd] # Null
                  /\ obj' = o
                  /\ UNCHANGED th
               \/ /\ obj.next[Hd] = Null
                  /\ obj' = [o EXCEPT !.mtx[Hd] = t]
                  /\ th' = [th EXCEPT ![t].pc = "frontTail", ![t].node = n]

FrontTail(t) ==
    /\ At(t, {"frontTail"})
    /\ obj.tailMtx = Null
    /\ obj' = [Crowded EXCEPT !.tail = th[t].node, !.mtx[Hd] = Null]
    /\ Rest(t)

(***************************************************************************)
(* PushBack.                                                               *)
(***************************************************************************)
ReadTail(t) ==
    /\ At(t, {"idle"})
    /\ th' = [th EXCEPT ![t].pc = "backLock", ![t].curr = obj.tail]
    /\ UNCHANGED obj

LockBack(t) ==
    /\ At(t, {"backLock"})
    /\ obj.mtx[th[t].curr] = Null
    /\ obj.tailMtx = Null
    /\ LET o == [obj EXCEPT !.mtx[th[t].curr] = t, !.tailMtx = t]
       IN  obj' = IF th[t].curr = obj.tail THEN [o EXCEPT !.crowd = @ \ {t}] ELSE [o EXCEPT !.broken = t]
    /\ Go(t, "back")

PushBack(t) ==
    /\ At(t, {"back"})
    /\ \E n \in Nodes :
        /\ obj.at[n] = "new"
        /\ obj' = [Crowded EXCEPT !.at[n] = "live", !.next[obj.tail] = n, !.tail = n, !.abs = Append(@, n),
                              !.mtx[th[t].curr] = Null, !.tailMtx = Null]
    /\ Rest(t)

(***************************************************************************)
(* RemoveIf holds the node before the one that it visits; FindFirstIf and  *)
(* ForEach unlock it first.                                                *)
(***************************************************************************)
LockHead(t) ==
    /\ At(t, {"idle"})
    /\ obj.walks < MaxWalks
    /\ obj.mtx[Hd] = Null
    /\ obj' = [obj EXCEPT !.mtx[Hd] = t, !.walks = @ + 1]
    /\ \E op \in {"RemoveIf", "FindFirstIf", "ForEach"} :
         th' = [th EXCEPT ![t] = [Resting EXCEPT !.pc = "walk", !.curr = Hd, !.op = op]]

LockNext(t) ==
    /\ At(t, {"walk"})
    /\ LET curr == th[t].curr
           n == obj.next[curr]
       IN  \/ /\ n = Null
              /\ obj' = [obj EXCEPT !.mtx[curr] = Null]
              /\ Rest(t)
           \/ /\ n # Null /\ obj.mtx[n] = Null
              /\ obj' = [obj EXCEPT !.mtx[n] = t, !.mtx[curr] = IF th[t].op = "RemoveIf" THEN t ELSE Null]
              /\ th' = [th EXCEPT ![t].pc = "visit", ![t].node = n]

\* ForEach reads the link again, from a node that another thread may have removed, or
\* pushed one behind.
Strays(t) == obj.at[th[t].curr] # "live" \/ obj.next[th[t].curr] # th[t].node
GoOn(t) ==
    /\ At(t, {"visit"})
    /\ obj' = CASE th[t].op = "RemoveIf" -> [obj EXCEPT !.mtx[th[t].curr] = Null]
                [] th[t].op = "ForEach" /\ Strays(t) -> [obj EXCEPT !.broken = t]
                [] OTHER -> [obj EXCEPT !.crowd = @ \ {t}]
    /\ th' = [th EXCEPT ![t].pc = "walk", ![t].curr = th[t].node]

FindFirstIf(t) ==
    /\ At(t, {"visit"}) /\ th[t].op = "FindFirstIf"
    /\ obj' = [obj EXCEPT !.mtx[th[t].node] = Null]
    /\ Rest(t)

RemoveIf(t) ==
    /\ At(t, {"visit"}) /\ th[t].op = "RemoveIf"
    /\ LET curr == th[t].curr
           n == th[t].node
       IN  /\ obj' = [Crowded EXCEPT !.next[curr] = obj.next[n], !.next[n] = Null,
                                 !.abs = SubSeq(@, 1, Place(n) - 1) \o SubSeq(@, Place(n) + 1, Len(@))]
           /\ Go(t, IF obj.next[n] = Null THEN "removeTail" ELSE "delete")

RemoveTail(t) ==
    /\ At(t, {"removeTail"})
    /\ obj.tailMtx = Null
    /\ obj' = [Crowded EXCEPT !.tail = th[t].curr]
    /\ Go(t, "delete")

\* The node is unlocked and destroyed.
Delete(t) ==
    /\ At(t, {"delete"})
    /\ obj' = [obj EXCEPT !.mtx[th[t].node] = Null, !.at[th[t].node] = "freed"]
    /\ Go(t, "walk")

ListNext ==
    /\ obj.broken = Null
    /\ \E t \in Threads :
        \/ PushFront(t) \/ FrontTail(t) \/ ReadTail(t) \/ LockBack(t) \/ PushBack(t)
        \/ LockHead(t) \/ LockNext(t) \/ GoOn(t) \/ FindFirstIf(t) \/ RemoveIf(t)
        \/ RemoveTail(t) \/ Delete(t)

ListSpec == ListInit /\ [][ListNext]_vars

(***************************************************************************)
(* Properties.                                                             *)
(***************************************************************************)
\* Unless a PushBack has locked what was the tail no more, or a ForEach has strayed from
\* the node that it holds: the nodes are linked as the list the calls have built, only nodes
\* that are not destroyed are locked, and the tail is the last node whenever nobody is between
\* linking a node and the tail.  Both need another thread that changed the list in between.
ListIsWhole ==
    LET s == obj.abs
        cell(i) == IF i \in DOMAIN s THEN s[i] ELSE Null
        last == IF s = <<>> THEN Hd ELSE s[Len(s)]
    IN  IF obj.broken # Null THEN obj.broken \in obj.crowd
        ELSE /\ obj.next[Hd] = cell(1)
             /\ \A i \in DOMAIN s : obj.next[s[i]] = cell(i + 1) /\ obj.at[s[i]] = "live"
             /\ \A t \in Threads : At(t, {"walk", "removeTail"}) => obj.at[th[t].curr] = "live"
             /\ \A c \in ListCells : obj.mtx[c] # Null => obj.at[c] = "live"
             /\ (\A t \in Threads : ~At(t, {"frontTail", "removeTail"})) => obj.tail = last
=============================================================================
