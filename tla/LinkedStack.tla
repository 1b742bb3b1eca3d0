---------------------------- MODULE LinkedStack ----------------------------
(***************************************************************************)
(* What LockFreeStack and HazardPointerStack share: nodes linked from an   *)
(* atomic head, and Emplace.  One step is one access to a shared atomic or *)
(* to a node another thread may reach.  Nodes are not reused: the property *)
(* MemorySafe covers the time from reading the head to swapping it, so a   *)
(* reused address could not be mistaken for the old node.                  *)
(***************************************************************************)
EXTENDS Naturals, Sequences, FiniteSets

CONSTANTS Threads, Nodes, Null,
          MaxPops          \* bound: calls of Pop

VARIABLES obj,   \* the stack, and what is known of its nodes
          th     \* what each thread is doing

vars == <<obj, th>>

\* A thread: where it is, old_head or new_node, the next it has read, a list
\* of nodes to reclaim, the threads whose hazard pointer it has yet to read,
\* and whether it has been the only one to pop since it read the head.
Idle == [pc |-> "idle", node |-> Null, next |-> Null, list |-> <<>>, left |-> {}, lone |-> TRUE]

\* In both, obj has head and next, and
\*   at: the allocator, for which a node is new, live, freed or twice freed;
\*   abs, pops: history, what a stack would hold and the calls of Pop.
Unlinked == [n \in Nodes |-> Null]
AllNew == [n \in Nodes |-> "new"]

Top(list) == IF list = <<>> THEN Null ELSE list[1]
Elems(list) == {list[i] : i \in DOMAIN list}
At(t, pcs) == th[t].pc \in pcs
Go(t, pc) == th' = [th EXCEPT ![t].pc = pc]
Return(t) == th' = [th EXCEPT ![t] = Idle]
Freed(ns) == [n \in Nodes |-> IF n \notin ns THEN obj.at[n]
                              ELSE IF obj.at[n] = "live" THEN "freed" ELSE "twice"]

(***************************************************************************)
(* Emplace: allocate, read the head, swap it until it has not moved.       *)
(***************************************************************************)
Emplace(t) ==
    /\ At(t, {"idle"})
    /\ \E n \in Nodes :
        /\ obj.at[n] = "new"
        /\ obj' = [obj EXCEPT !.at[n] = "live", !.next[n] = obj.head]
        /\ th' = [th EXCEPT ![t] = [Idle EXCEPT !.pc = "push", !.node = n]]

PushCas(t) ==
    /\ At(t, {"push"})
    /\ LET n == th[t].node
       IN  \/ /\ obj.next[n] = obj.head
              /\ obj' = [obj EXCEPT !.head = n, !.abs = <<n>> \o @]
              /\ Return(t)
           \/ /\ obj.next[n] # obj.head
              /\ obj' = [obj EXCEPT !.next[n] = obj.head]
              /\ UNCHANGED th

(***************************************************************************)
(* Properties.                                                             *)
(***************************************************************************)
\* No node is freed twice, and none before the threads at `pcs`, which may
\* still read it or swap it, are through.
SafeUntil(pcs) ==
    /\ \A n \in Nodes : obj.at[n] # "twice"
    /\ \A t \in Threads : At(t, pcs) /\ th[t].node # Null => obj.at[th[t].node] = "live"

\* From the head the nodes are linked as a stack's: each swap took the top or
\* put a new one there.
LinkedAsStack ==
    LET s == obj.abs
    IN  /\ obj.head = Top(s)
        /\ \A i \in DOMAIN s : obj.next[s[i]] = Top(SubSeq(s, i + 1, Len(s)))

\* A node is in one place: in the stack, on the list of those to be freed, in
\* the hands of one thread (`owns`), or freed.
InOnePlace(list, owns(_)) ==
    /\ Cardinality(Elems(list)) = Len(list)
    /\ \A n \in Nodes :
        (obj.at[n] = "live") =>
            Cardinality({i \in {1} : n \in Elems(list)}) + Cardinality({i \in {1} : n \in Elems(obj.abs)})
            + Cardinality({t \in Threads : n \in owns(t)}) = 1
=============================================================================
