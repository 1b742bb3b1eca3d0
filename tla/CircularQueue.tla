--------------------------- MODULE CircularQueue ---------------------------
(***************************************************************************)
(* CircularQueueLight and CircularQueueSync (circular_queue_light.h, _sync.h: *)
(* the same steps): a ring of N + 1 cells.  A producer reserves a cell by  *)
(* moving tail_, writes it and then, in the order of the reservations,     *)
(* moves tail_update_; a consumer copies the cell at head_ and then moves  *)
(* head_.  The model counts the indices up and compares them modulo the    *)
(* capacity, as the code's swaps do: a swap that succeeds on an index that *)
(* has gone round since it was read shows as `lapped`.  The element is     *)
(* copied in one step.  CircularQueueLock and CircularQueueSeq do each of  *)
(* these operations in one step, under a mutex and a spinning flag.        *)
(***************************************************************************)
EXTENDS Naturals, Sequences

CONSTANTS Threads,
          N,                    \* how many elements the queue holds
          MaxPushes, MaxPops    \* bounds: calls of Push and Pop

VARIABLES obj, th

vars == <<obj, th>>

Capacity == N + 1
Cell(i) == i % Capacity
Idle == [pc |-> "idle", at |-> 0, val |-> 0]

Init ==
    /\ obj = [head |-> 0, tail |-> 0, update |-> 0, data |-> [c \in 0..N |-> 0],
              pushes |-> 0, pops |-> 0,
              in |-> <<>>, out |-> <<>>,    \* history: values in the order of the reservations, values popped
              lapped |-> FALSE]             \* history: a swap has mistaken an index
    /\ th = [t \in Threads |-> Idle]

At(t, pc) == th[t].pc = pc
Return(t) == th' = [th EXCEPT ![t] = Idle]
Read(t, index, pc) == th' = [th EXCEPT ![t].at = index, ![t].pc = pc] /\ UNCHANGED obj

\* A compare-and-swap of obj[index] from what was read to the next cell.
Swaps(t, index) == Cell(obj[index]) = Cell(th[t].at)
Swap(t, index) == [obj EXCEPT ![index] = @ + 1, !.lapped = @ \/ obj[index] # th[t].at]

(***************************************************************************)
(* Push.                                                                   *)
(***************************************************************************)
Push(t) ==
    /\ At(t, "idle")
    /\ obj.pushes < MaxPushes
    /\ obj' = [obj EXCEPT !.pushes = @ + 1]
    /\ th' = [th EXCEPT ![t].val = obj.pushes + 1, ![t].pc = "tail"]

LoadTail(t) == At(t, "tail") /\ Read(t, obj.tail, "full")

Full(t) ==
    /\ At(t, "full")
    /\ UNCHANGED obj
    /\ IF Cell(th[t].at + 1) = Cell(obj.head) THEN Return(t) ELSE th' = [th EXCEPT ![t].pc = "reserve"]

Reserve(t) ==
    /\ At(t, "reserve")
    /\ \/ /\ Swaps(t, "tail")
          /\ obj' = [Swap(t, "tail") EXCEPT !.in = Append(@, th[t].val)]
          /\ th' = [th EXCEPT ![t].pc = "write"]
       \/ ~Swaps(t, "tail") /\ Read(t, th[t].at, "tail")

Write(t) ==
    /\ At(t, "write")
    /\ obj' = [obj EXCEPT !.data[Cell(th[t].at)] = th[t].val]
    /\ th' = [th EXCEPT ![t].pc = "publish"]

\* Until it succeeds.
Publish(t) ==
    /\ At(t, "publish")
    /\ Swaps(t, "update")
    /\ obj' = Swap(t, "update")
    /\ Return(t)

(***************************************************************************)
(* Pop.                                                                    *)
(***************************************************************************)
Pop(t) ==
    /\ At(t, "idle")
    /\ obj.pops < MaxPops
    /\ obj' = [obj EXCEPT !.pops = @ + 1]
    /\ th' = [th EXCEPT ![t].pc = "head"]

LoadHead(t) == At(t, "head") /\ Read(t, obj.head, "empty")

\* Mutant: a consumer looks at tail_ only, not at tail_update_.
EmptyByTail(t) ==
    /\ At(t, "empty")
    /\ UNCHANGED obj
    /\ IF Cell(th[t].at) = Cell(obj.tail) THEN Return(t) ELSE th' = [th EXCEPT ![t].pc = "copy"]

Empty(t) ==
    /\ At(t, "empty") \/ At(t, "unwritten")
    /\ UNCHANGED obj
    /\ LET end == IF At(t, "empty") THEN obj.tail ELSE obj.update
       IN  IF Cell(th[t].at) = Cell(end) THEN Return(t)
           ELSE th' = [th EXCEPT ![t].pc = IF @ = "empty" THEN "unwritten" ELSE "copy"]

Copy(t) ==
    /\ At(t, "copy")
    /\ th' = [th EXCEPT ![t].val = obj.data[Cell(th[t].at)], ![t].pc = "take"]
    /\ UNCHANGED obj

Take(t) ==
    /\ At(t, "take")
    /\ \/ /\ Swaps(t, "head")
          /\ obj' = [Swap(t, "head") EXCEPT !.out = Append(@, th[t].val)]
          /\ Return(t)
       \/ ~Swaps(t, "head") /\ Read(t, th[t].at, "head")

Next ==
    \E t \in Threads :
        \/ Push(t) \/ LoadTail(t) \/ Full(t) \/ Reserve(t) \/ Write(t) \/ Publish(t)
        \/ Pop(t) \/ LoadHead(t) \/ Empty(t) \/ Copy(t) \/ Take(t)

Spec == Init /\ [][Next]_vars

(***************************************************************************)
(* Properties.                                                             *)
(***************************************************************************)
\* As long as no index has gone all the way round between the read and the swap
\* of a thread, the ring is a queue: at most N elements, popped once each in the
\* order of the reservations and not before they are written.
QueueUnlessLapped ==
    obj.lapped \/
        /\ obj.head <= obj.update /\ obj.update <= obj.tail
        /\ obj.tail - obj.head <= N
        /\ obj.out = SubSeq(obj.in, 1, obj.head)
=============================================================================
