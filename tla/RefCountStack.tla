--------------------------- MODULE RefCountStack ---------------------------
(***************************************************************************)
(* RefCountStack (ref_count_stack.h): the head holds a node and how many   *)
(* Pops have read it, swapped together.  The one that unlinks the node     *)
(* settles the count with the node's own dec_count; whoever brings the sum *)
(* to zero frees it.  Nodes are not reused, as in LinkedStack.             *)
(***************************************************************************)
EXTENDS Integers, Sequences, FiniteSetTheorems, TLAPS

CONSTANTS Threads, Nodes, Null,
          MaxPops,         \* bound: calls of Pop
          MaxCount         \* bound: how far a head is counted (two Pops can outbid each other for ever)

VARIABLES obj, th

vars == <<obj, th>>

Ref(c, n) == [count |-> c, node |-> n]      \* RefNode
Empty == Ref(0, Null)
Idle == [pc |-> "idle", ref |-> Empty, next |-> Empty]

Init ==
    /\ obj = [head |-> Empty, next |-> [n \in Nodes |-> Empty], dec |-> [n \in Nodes |-> 0],
              at |-> [n \in Nodes |-> "new"], abs |-> <<>>, pops |-> 0]
    /\ th = [t \in Threads |-> Idle]

At(t, pcs) == th[t].pc \in pcs
Freed(n) == IF obj.at[n] = "live" THEN "freed" ELSE "twice"

(***************************************************************************)
(* Emplace.                                                                *)
(***************************************************************************)
Emplace(t) ==
    /\ At(t, {"idle"})
    /\ \E n \in Nodes :
        /\ obj.at[n] = "new"
        /\ obj' = [obj EXCEPT !.at[n] = "live", !.next[n] = obj.head]
        /\ th' = [th EXCEPT ![t] = [Idle EXCEPT !.pc = "push", !.ref = Ref(1, n)]]

PushCas(t) ==
    /\ At(t, {"push"})
    /\ LET n == th[t].ref.node
       IN  \/ /\ obj.next[n] = obj.head
              /\ obj' = [obj EXCEPT !.head = th[t].ref, !.abs = <<n>> \o @]
              /\ th' = [th EXCEPT ![t] = Idle]
           \/ /\ obj.next[n] # obj.head
              /\ obj' = [obj EXCEPT !.next[n] = obj.head]
              /\ UNCHANGED th

(***************************************************************************)
(* Pop.                                                                    *)
(***************************************************************************)
LoadHead(t) ==
    /\ At(t, {"idle"})
    /\ obj.pops < MaxPops
    /\ obj' = [obj EXCEPT !.pops = @ + 1]
    /\ th' = [th EXCEPT ![t] = [Idle EXCEPT !.pc = "count", !.ref = obj.head]]

\* Count oneself in; a null head is counted too, and never counted down.
CountCas(t) ==
    /\ At(t, {"count"})
    /\ obj.head.count < MaxCount
    /\ LET mine == Ref(obj.head.count + 1, obj.head.node)
       IN  \/ /\ obj.head = th[t].ref
              /\ obj' = [obj EXCEPT !.head = mine]
              /\ th' = [th EXCEPT ![t] = IF mine.node = Null THEN Idle ELSE [@ EXCEPT !.pc = "next", !.ref = mine]]
           \/ /\ obj.head # th[t].ref
              /\ th' = [th EXCEPT ![t].ref = obj.head]
              /\ UNCHANGED obj

ReadNext(t) ==
    /\ At(t, {"next"})
    /\ th' = [th EXCEPT ![t].pc = "cas", ![t].next = obj.next[th[t].ref.node]]
    /\ UNCHANGED obj

PopCas(t) ==
    /\ At(t, {"cas"})
    /\ \/ /\ obj.head = th[t].ref
          /\ obj' = [obj EXCEPT !.head = th[t].next, !.abs = Tail(@)]
          /\ th' = [th EXCEPT ![t].pc = "settle"]
       \/ /\ obj.head # th[t].ref
          /\ th' = [th EXCEPT ![t].pc = "drop", ![t].next = obj.head]     \* old_head is reloaded, node_ptr is not
          /\ UNCHANGED obj

\* dec_count.fetch_add; the node is freed where the old value says so.
Add(n, by, last) ==
    obj' = [obj EXCEPT !.dec[n] = @ + by, !.at[n] = IF obj.dec[n] = last THEN Freed(n) ELSE @]

Settle(t) ==
    /\ At(t, {"settle"})
    /\ LET increase == th[t].ref.count - 2 IN Add(th[t].ref.node, increase, -increase)
    /\ th' = [th EXCEPT ![t] = Idle]

\* Mutant: the Pop that lost the swap frees where the count was 0, not 1.
DropLate(t) ==
    /\ At(t, {"drop"})
    /\ Add(th[t].ref.node, -1, 0)
    /\ th' = [th EXCEPT ![t] = [Idle EXCEPT !.pc = "count", !.ref = th[t].next]]

Drop(t) ==
    /\ At(t, {"drop"})
    /\ Add(th[t].ref.node, -1, 1)
    /\ th' = [th EXCEPT ![t] = [Idle EXCEPT !.pc = "count", !.ref = th[t].next]]

Next ==
    \E t \in Threads :
        \/ Emplace(t) \/ PushCas(t) \/ LoadHead(t) \/ CountCas(t) \/ ReadNext(t) \/ PopCas(t)
        \/ Settle(t) \/ Drop(t)

Spec == Init /\ [][Next]_vars

(***************************************************************************)
(* Properties.                                                             *)
(***************************************************************************)
\* A node is not freed while a thread that has counted itself in has yet to
\* count itself out, nor freed twice.
MemorySafe ==
    /\ \A n \in Nodes : obj.at[n] # "twice"
    /\ \A t \in Threads : At(t, {"next", "cas", "settle", "drop"}) => obj.at[th[t].ref.node] = "live"

\* Every popped node has been freed once no thread holds it.
NoLeak ==
    \A n \in Nodes :
        \/ obj.at[n] # "live"
        \/ \E i \in DOMAIN obj.abs : obj.abs[i] = n
        \/ \E t \in Threads : At(t, {"push", "next", "cas", "settle", "drop"}) /\ th[t].ref.node = n

\* From the head the nodes are linked as a stack's, whatever the counts say.
LinkedAsStack ==
    LET s == obj.abs
        top(i) == IF i \in DOMAIN s THEN s[i] ELSE Null
    IN  /\ obj.head.node = top(1)
        /\ \A i \in DOMAIN s : obj.next[s[i]].node = top(i + 1)

(***************************************************************************)
(* Proofs, for any finite set of threads and any nodes.                    *)
(***************************************************************************)
Holding == {"next", "cas", "settle", "drop"}

\* The threads that have counted themselves in at n and not out, those that push n,
\* and those that have unlinked n and not settled.
Holders(n) == {t \in Threads : At(t, Holding) /\ th[t].ref.node = n}
Pushers(n) == {t \in Threads : At(t, {"push"}) /\ th[t].ref.node = n}
Settlers(n) == {t \in Threads : At(t, {"settle"}) /\ th[t].ref.node = n}

InStack(n) == \E i \in DOMAIN obj.abs : obj.abs[i] = n

\* The counted pointer to the i-th node of the stack, or to the null below the last.
RefTo(i) == IF i = 1 THEN obj.head ELSE obj.next[obj.abs[i - 1]]

Refs == [count : Nat, node : Nodes \cup {Null}]

Stacks == [head : Refs, next : [Nodes -> Refs], dec : [Nodes -> Int],
           at : [Nodes -> {"new", "live", "freed", "twice"}], abs : Seq(Nodes), pops : Nat]

Callers == [pc : {"idle", "push", "count"} \cup Holding, ref : Refs, next : Refs]

CountTyped == obj \in Stacks /\ th \in [Threads -> Callers]

Distinct == \A i, j \in DOMAIN obj.abs : obj.abs[i] = obj.abs[j] => i = j

Chained ==
    /\ \A i \in DOMAIN obj.abs : RefTo(i).node = obj.abs[i]
    /\ RefTo(Len(obj.abs) + 1).node = Null

\* What a thread has read of a node's next is still there: next changes only while
\* the node is pushed.
ThreadHolds(t) ==
    /\ At(t, Holding \cup {"push"}) => th[t].ref.node \in Nodes
    /\ At(t, {"cas"}) => th[t].next = obj.next[th[t].ref.node]

\* A node is not there, or being pushed, in the stack, unlinked, or settled.  The count of
\* the pointer, less the one of the pointer itself, and dec sum up to the threads that hold
\* the node; after settling dec alone does.
Absent(n) ==
    /\ obj.at[n] \in {"new", "freed"} /\ ~InStack(n) /\ Holders(n) = {} /\ Pushers(n) = {}
    /\ obj.at[n] = "new" => obj.dec[n] = 0
Pushed(n) ==
    /\ obj.at[n] = "live" /\ ~InStack(n) /\ Holders(n) = {} /\ obj.dec[n] = 0
    /\ \E t \in Threads : Pushers(n) = {t} /\ th[t].ref.count = 1
Stacked(n) ==
    /\ obj.at[n] = "live" /\ InStack(n) /\ Pushers(n) = {} /\ Settlers(n) = {} /\ obj.dec[n] <= 0
Unlinked(n) ==
    /\ obj.at[n] = "live" /\ ~InStack(n) /\ Pushers(n) = {} /\ obj.dec[n] <= 0
    /\ \E t \in Threads : /\ Settlers(n) = {t}
                          /\ Cardinality(Holders(n)) = th[t].ref.count - 1 + obj.dec[n]
Settled(n) ==
    /\ obj.at[n] = "live" /\ ~InStack(n) /\ Pushers(n) = {} /\ Settlers(n) = {}
    /\ obj.dec[n] >= 1 /\ Cardinality(Holders(n)) = obj.dec[n]

NodeHolds(n) == Absent(n) \/ Pushed(n) \/ Stacked(n) \/ Unlinked(n) \/ Settled(n)

StackCounts ==
    \A i \in DOMAIN obj.abs :
        Cardinality(Holders(obj.abs[i])) = RefTo(i).count - 1 + obj.dec[obj.abs[i]]

CountInv ==
    /\ CountTyped /\ Distinct /\ Chained /\ StackCounts
    /\ \A t \in Threads : ThreadHolds(t)
    /\ \A n \in Nodes : NodeHolds(n)

Free(r) == r.pc \notin Holding \cup {"push"}

LEMMA PushSeq ==
    ASSUME NEW S, NEW s \in Seq(S), NEW n \in S, NEW q, q = <<n>> \o s
    PROVE  /\ q \in Seq(S) /\ Len(q) = Len(s) + 1 /\ DOMAIN q = 1 .. Len(s) + 1 /\ q[1] = n
           /\ \A i \in 2 .. Len(s) + 1 : q[i] = s[i - 1]
OBVIOUS

LEMMA PopSeq ==
    ASSUME NEW S, NEW s \in Seq(S), Len(s) >= 1, NEW q, q = Tail(s)
    PROVE  /\ q \in Seq(S) /\ Len(q) = Len(s) - 1 /\ DOMAIN q = 1 .. Len(s) - 1
           /\ \A i \in 1 .. Len(s) - 1 : q[i] = s[i + 1]
OBVIOUS

LEMMA Counting ==
    ASSUME IsFiniteSet(Threads), NEW n
    PROVE  /\ IsFiniteSet(Holders(n)) /\ Cardinality(Holders(n)) \in Nat
           /\ Cardinality(Holders(n)) = 0 <=> Holders(n) = {}
           /\ \A t \in Threads \ Holders(n) : Cardinality(Holders(n) \cup {t}) = Cardinality(Holders(n)) + 1
           /\ \A t \in Holders(n) : Cardinality(Holders(n) \ {t}) = Cardinality(Holders(n)) - 1
<1>1. IsFiniteSet(Holders(n))
  <2>1. Holders(n) \subseteq Threads
    BY DEF Holders
  <2> QED
    BY <2>1, FS_Subset
<1> QED
  BY <1>1, FS_CardinalityType, FS_EmptySet, FS_AddElement, FS_RemoveElement

\* A step of t that leaves what t has to do with n as it is.
LEMMA SetsKept ==
    ASSUME NEW t \in Threads, NEW n, \A u \in Threads : u # t => th'[u] = th[u],
           \/ /\ Free(th[t]) \/ th[t].ref.node # n
              /\ Free(th'[t]) \/ th'[t].ref.node # n
           \/ /\ th[t].pc \in Holding \ {"settle"} /\ th'[t].pc \in Holding \ {"settle"}
              /\ th'[t].ref = th[t].ref
    PROVE  /\ Holders(n)' = Holders(n) /\ Pushers(n)' = Pushers(n) /\ Settlers(n)' = Settlers(n)
           /\ \A u \in Pushers(n) \cup Settlers(n) : th'[u].ref = th[u].ref
<1> USE DEF Holders, Pushers, Settlers, At, Free, Holding
<1>1. \A u \in Threads : u \in Holders(n)' <=> u \in Holders(n)
  OBVIOUS
<1>2. \A u \in Threads : u \in Pushers(n)' <=> u \in Pushers(n)
  OBVIOUS
<1>3. \A u \in Threads : u \in Settlers(n)' <=> u \in Settlers(n)
  OBVIOUS
<1>4. \A u \in Pushers(n) \cup Settlers(n) : th'[u].ref = th[u].ref
  OBVIOUS
<1>5. /\ Holders(n)' \subseteq Threads /\ Pushers(n)' \subseteq Threads /\ Settlers(n)' \subseteq Threads
      /\ Holders(n) \subseteq Threads /\ Pushers(n) \subseteq Threads /\ Settlers(n) \subseteq Threads
  OBVIOUS
<1> HIDE DEF Holders, Pushers, Settlers
<1> QED
  BY <1>1, <1>2, <1>3, <1>4, <1>5

LEMMA NodeKept ==
    ASSUME NEW n, NodeHolds(n), obj'.at[n] = obj.at[n], obj'.dec[n] = obj.dec[n], InStack(n)' <=> InStack(n),
           Holders(n)' = Holders(n), Pushers(n)' = Pushers(n), Settlers(n)' = Settlers(n),
           \A u \in Pushers(n) \cup Settlers(n) : th'[u].ref = th[u].ref
    PROVE  NodeHolds(n)'
<1>1. CASE Absent(n)
  BY <1>1 DEF Absent, NodeHolds
<1>2. CASE Pushed(n)
  BY <1>2 DEF Pushed, NodeHolds
<1>3. CASE Stacked(n)
  BY <1>3 DEF Stacked, NodeHolds
<1>4. CASE Unlinked(n)
  BY <1>4 DEF Unlinked, NodeHolds
<1>5. CASE Settled(n)
  BY <1>5 DEF Settled, NodeHolds
<1> QED
  BY <1>1, <1>2, <1>3, <1>4, <1>5 DEF NodeHolds

\* A step that only looks at the stack.
LEMMA LookPreserves ==
    ASSUME CountInv, NEW t \in Threads, CountTyped', \A u \in Threads : u # t => th'[u] = th[u],
           obj'.head = obj.head, obj'.next = obj.next, obj'.dec = obj.dec, obj'.at = obj.at, obj'.abs = obj.abs,
           \/ Free(th[t]) /\ Free(th'[t])
           \/ /\ th[t].pc \in Holding \ {"settle"} /\ th'[t].pc \in Holding \ {"settle"}
              /\ th'[t].ref = th[t].ref
              /\ th'[t].pc = "cas" => th'[t].next = obj.next[th[t].ref.node]
    PROVE  CountInv'
<1>1. /\ \A n : /\ Holders(n)' = Holders(n) /\ Pushers(n)' = Pushers(n) /\ Settlers(n)' = Settlers(n)
                /\ \A u \in Pushers(n) \cup Settlers(n) : th'[u].ref = th[u].ref
  BY SetsKept
<1>2. \A n : InStack(n)' <=> InStack(n)
  BY DEF InStack
<1>3. Distinct' /\ Chained'
  BY DEF CountInv, Distinct, Chained, RefTo
<1>4. StackCounts'
  BY <1>1 DEF CountInv, StackCounts, RefTo
<1>5. ASSUME NEW u \in Threads PROVE ThreadHolds(u)'
  BY DEF CountInv, ThreadHolds, At, Free, Holding
<1>6. ASSUME NEW n \in Nodes PROVE NodeHolds(n)'
  BY <1>1, <1>2, NodeKept DEF CountInv
<1> QED
  BY <1>3, <1>4, <1>5, <1>6 DEF CountInv

LEMMA InitCountInv ==
    ASSUME Init
    PROVE  CountInv
<1>1. CountTyped
  BY DEF Init, CountTyped, Stacks, Callers, Refs, Idle, Empty, Ref
<1>2. obj.abs = <<>> /\ Len(obj.abs) = 0 /\ DOMAIN obj.abs = {} /\ obj.head.node = Null
  BY DEF Init, Empty, Ref
<1>3. \A t \in Threads : th[t].pc = "idle"
  BY DEF Init, Idle
<1>4. \A n \in Nodes : Absent(n)
  BY <1>2, <1>3 DEF Absent, InStack, Holders, Pushers, At, Holding, Init
<1>5. Distinct /\ StackCounts
  BY <1>2 DEF Distinct, StackCounts
<1>6. Chained
  BY <1>2 DEF Chained, RefTo
<1> QED
  BY <1>1, <1>3, <1>4, <1>5, <1>6 DEF CountInv, NodeHolds, ThreadHolds, At, Holding

\* The pointers of the stack are kept by what changes only other nodes' next.
LEMMA RefsKept ==
    ASSUME CountTyped, obj'.abs = obj.abs, obj'.head = obj.head,
           \A m \in Nodes : InStack(m) => obj'.next[m] = obj.next[m]
    PROVE  \A i \in 1 .. Len(obj.abs) + 1 : RefTo(i)' = RefTo(i)
<1> SUFFICES ASSUME NEW i \in 1 .. Len(obj.abs) + 1, i # 1
             PROVE  obj'.next[obj.abs[i - 1]] = obj.next[obj.abs[i - 1]]
  BY DEF RefTo
<1>1. obj.abs \in Seq(Nodes)
  BY DEF CountTyped, Stacks
<1>2. i - 1 \in DOMAIN obj.abs /\ obj.abs[i - 1] \in Nodes
  BY <1>1
<1> QED
  BY <1>2 DEF InStack

\* So are then the chain and the counts of the nodes whose holders stay.
LEMMA ChainKept ==
    ASSUME CountInv, obj'.abs = obj.abs, \A i \in 1 .. Len(obj.abs) + 1 : RefTo(i)' = RefTo(i),
           \A m \in Nodes : InStack(m) => obj'.dec[m] = obj.dec[m] /\ Holders(m)' = Holders(m)
    PROVE  Distinct' /\ Chained' /\ StackCounts'
<1>1. obj.abs \in Seq(Nodes) /\ DOMAIN obj.abs = 1 .. Len(obj.abs) /\ Len(obj.abs) \in Nat
  BY DEF CountInv, CountTyped, Stacks
<1>2. Distinct'
  BY DEF CountInv, Distinct
<1>3. Chained'
  BY <1>1 DEF CountInv, Chained
<1>4. StackCounts'
  <2> SUFFICES ASSUME NEW i \in DOMAIN obj.abs
               PROVE  Cardinality(Holders(obj.abs[i])') = RefTo(i)'.count - 1 + obj'.dec[obj.abs[i]]
    BY DEF StackCounts
  <2>1. obj.abs[i] \in Nodes /\ InStack(obj.abs[i]) /\ i \in 1 .. Len(obj.abs) + 1
    BY <1>1 DEF InStack
  <2> QED
    BY <2>1 DEF CountInv, StackCounts
<1> QED
  BY <1>2, <1>3, <1>4

LEMMA EmplacePreserves ==
    ASSUME CountInv, NEW t \in Threads, Emplace(t)
    PROVE  CountInv'
<1>0. th[t].pc = "idle" /\ CountTyped
  BY DEF Emplace, At, CountInv
<1>1. PICK n \in Nodes : /\ obj.at[n] = "new"
                         /\ obj' = [obj EXCEPT !.at[n] = "live", !.next[n] = obj.head]
                         /\ th' = [th EXCEPT ![t] = [Idle EXCEPT !.pc = "push", !.ref = Ref(1, n)]]
  BY DEF Emplace
<1>2. /\ obj'.head = obj.head /\ obj'.dec = obj.dec /\ obj'.abs = obj.abs /\ obj'.pops = obj.pops
      /\ obj'.at = [obj.at EXCEPT ![n] = "live"] /\ obj'.next = [obj.next EXCEPT ![n] = obj.head]
      /\ obj' \in Stacks
  BY <1>0, <1>1 DEF CountTyped, Stacks
<1>3. /\ th'[t].pc = "push" /\ th'[t].ref = Ref(1, n) /\ th'[t].ref.node = n /\ th'[t].ref.count = 1
      /\ \A u \in Threads : u # t => th'[u] = th[u]
      /\ th' \in [Threads -> Callers]
  BY <1>0, <1>1 DEF CountTyped, Callers, Refs, Idle, Ref, Empty
<1>4. Absent(n)
  BY <1>1 DEF CountInv, NodeHolds, Absent, Pushed, Stacked, Unlinked, Settled
<1>5. ASSUME NEW m, m # n
      PROVE  /\ Holders(m)' = Holders(m) /\ Pushers(m)' = Pushers(m) /\ Settlers(m)' = Settlers(m)
             /\ \A u \in Pushers(m) \cup Settlers(m) : th'[u].ref = th[u].ref
  BY <1>0, <1>3, <1>5, SetsKept DEF Free, Holding
<1>6. \A m : InStack(m)' <=> InStack(m)
  BY <1>2 DEF InStack
<1>7. Holders(n)' = {} /\ Pushers(n)' = {t}
  BY <1>3, <1>4 DEF Absent, Holders, Pushers, At, Holding
<1>8. NodeHolds(n)'
  BY <1>0, <1>1, <1>2, <1>3, <1>4, <1>6, <1>7 DEF NodeHolds, Pushed, Absent, CountTyped, Stacks
<1>9. ASSUME NEW m \in Nodes, m # n PROVE NodeHolds(m)'
  <2>1. NodeHolds(m) /\ obj'.at[m] = obj.at[m] /\ obj'.dec[m] = obj.dec[m]
    BY <1>0, <1>2, <1>9 DEF CountInv, CountTyped, Stacks
  <2> QED
    BY <1>5, <1>6, <1>9, <2>1, NodeKept
<1>10. \A m \in Nodes : m # n => obj'.next[m] = obj.next[m]
  BY <1>0, <1>2 DEF CountTyped, Stacks
<1>11. Distinct' /\ Chained' /\ StackCounts'
  BY <1>0, <1>2, <1>4, <1>5, <1>10, RefsKept, ChainKept DEF Absent
<1>12. ASSUME NEW u \in Threads PROVE ThreadHolds(u)'
  <2>1. CASE u = t
    BY <1>3, <2>1 DEF ThreadHolds, At, Holding
  <2>2. CASE u # t
    <3>1. ThreadHolds(u) /\ th'[u] = th[u]
      BY <1>3, <2>2 DEF CountInv
    <3>2. At(u, Holding) => th[u].ref.node # n
      BY <1>4 DEF Absent, Holders
    <3> QED
      BY <1>10, <3>1, <3>2 DEF ThreadHolds, At, Holding
  <2> QED
    BY <2>1, <2>2
<1> QED
  BY <1>2, <1>3, <1>8, <1>9, <1>11, <1>12 DEF CountInv, CountTyped

\* A failed swap reads the head again into the node's next.
LEMMA PushRetryPreserves ==
    ASSUME CountInv, NEW t \in Threads, NEW n, th[t].pc = "push", n = th[t].ref.node,
           obj' = [obj EXCEPT !.next[n] = obj.head], UNCHANGED th
    PROVE  CountInv'
<1>0. CountTyped /\ n \in Nodes
  BY DEF CountInv, ThreadHolds, At
<1>1. /\ obj'.head = obj.head /\ obj'.dec = obj.dec /\ obj'.abs = obj.abs /\ obj'.at = obj.at
      /\ obj'.next = [obj.next EXCEPT ![n] = obj.head] /\ obj' \in Stacks
  BY <1>0 DEF CountTyped, Stacks
<1>2. t \in Pushers(n)
  BY DEF Pushers, At
<1>3. Pushed(n)
  BY <1>0, <1>2 DEF CountInv, NodeHolds, Absent, Stacked, Unlinked, Settled
<1>4. /\ \A m : Holders(m)' = Holders(m) /\ Pushers(m)' = Pushers(m) /\ Settlers(m)' = Settlers(m)
      /\ \A m : InStack(m)' <=> InStack(m)
  BY <1>1 DEF Holders, Pushers, Settlers, At, InStack
<1>5. \A m \in Nodes : m # n => obj'.next[m] = obj.next[m]
  BY <1>0, <1>1 DEF CountTyped, Stacks
<1>6. Distinct' /\ Chained' /\ StackCounts'
  BY <1>0, <1>1, <1>3, <1>4, <1>5, RefsKept, ChainKept DEF Pushed
<1>7. ASSUME NEW u \in Threads PROVE ThreadHolds(u)'
  <2>1. ThreadHolds(u)
    BY DEF CountInv
  <2>2. At(u, Holding) => th[u].ref.node # n
    BY <1>3 DEF Pushed, Holders
  <2> QED
    BY <1>5, <2>1, <2>2 DEF ThreadHolds, At, Holding
<1>8. ASSUME NEW m \in Nodes PROVE NodeHolds(m)'
  BY <1>1, <1>4, NodeKept DEF CountInv
<1> QED
  BY <1>0, <1>1, <1>6, <1>7, <1>8 DEF CountInv, CountTyped

\* A swap that succeeds: n is on top, and the pointer to the node below is that of n.
LEMMA PushPreserves ==
    ASSUME CountInv, NEW t \in Threads, NEW n, th[t].pc = "push", n = th[t].ref.node, obj.next[n] = obj.head,
           obj' = [obj EXCEPT !.head = th[t].ref, !.abs = <<n>> \o @],
           th' = [th EXCEPT ![t] = Idle]
    PROVE  CountInv'
<1>0. CountTyped /\ n \in Nodes
  BY DEF CountInv, ThreadHolds, At
<1>1. /\ obj'.head = th[t].ref /\ obj'.dec = obj.dec /\ obj'.abs = <<n>> \o obj.abs
      /\ obj'.at = obj.at /\ obj'.next = obj.next /\ obj'.pops = obj.pops
  BY <1>0 DEF CountTyped, Stacks
<1>2. /\ obj.abs \in Seq(Nodes) /\ DOMAIN obj.abs = 1 .. Len(obj.abs) /\ Len(obj.abs) \in Nat
      /\ obj'.abs \in Seq(Nodes) /\ Len(obj'.abs) = Len(obj.abs) + 1
      /\ DOMAIN obj'.abs = 1 .. Len(obj.abs) + 1 /\ obj'.abs[1] = n
      /\ \A i \in 2 .. Len(obj.abs) + 1 : obj'.abs[i] = obj.abs[i - 1]
  <2>1. obj.abs \in Seq(Nodes)
    BY <1>0 DEF CountTyped, Stacks
  <2> QED
    BY <1>0, <1>1, <2>1, PushSeq
<1>3. CountTyped'
  <2>1. obj'.head \in Refs /\ obj' = [obj EXCEPT !.head = th[t].ref, !.abs = obj'.abs]
    BY <1>0, <1>1 DEF CountTyped, Callers, Stacks
  <2>2. obj' \in Stacks
    BY <1>0, <1>2, <2>1 DEF CountTyped, Stacks
  <2>3. Idle \in Callers
    BY DEF Idle, Callers, Refs, Empty, Ref
  <2> QED
    BY <1>0, <2>2, <2>3 DEF CountTyped
<1>4. th'[t].pc = "idle" /\ \A u \in Threads : u # t => th'[u] = th[u]
  BY <1>0 DEF CountTyped, Idle
<1>5. Pushed(n) /\ Pushers(n) = {t} /\ th[t].ref.count = 1
  <2>1. t \in Pushers(n)
    BY DEF Pushers, At
  <2>2. Pushed(n)
    BY <1>0, <2>1 DEF CountInv, NodeHolds, Absent, Stacked, Unlinked, Settled
  <2> QED
    BY <2>1, <2>2 DEF Pushed
<1>6. ASSUME NEW m, m # n
      PROVE  /\ Holders(m)' = Holders(m) /\ Pushers(m)' = Pushers(m) /\ Settlers(m)' = Settlers(m)
             /\ \A u \in Pushers(m) \cup Settlers(m) : th'[u].ref = th[u].ref
  BY <1>4, <1>6, SetsKept DEF Free, Holding
<1>7. /\ InStack(n)'
      /\ \A m : m # n => (InStack(m)' <=> InStack(m))
  <2>1. 1 \in DOMAIN obj'.abs
    BY <1>2
  <2>2. ASSUME NEW m, m # n, InStack(m) PROVE InStack(m)'
    <3>1. PICK i \in DOMAIN obj.abs : obj.abs[i] = m
      BY <2>2 DEF InStack
    <3>2. i + 1 \in DOMAIN obj'.abs /\ obj'.abs[i + 1] = m
      BY <1>2, <3>1
    <3> QED
      BY <3>2 DEF InStack
  <2>3. ASSUME NEW m, m # n, InStack(m)' PROVE InStack(m)
    <3>1. PICK i \in DOMAIN obj'.abs : obj'.abs[i] = m
      BY <2>3 DEF InStack
    <3>2. i - 1 \in DOMAIN obj.abs /\ obj.abs[i - 1] = m
      BY <1>2, <2>3, <3>1
    <3> QED
      BY <3>2 DEF InStack
  <2> QED
    BY <1>2, <2>1, <2>2, <2>3 DEF InStack
<1>8. Holders(n)' = {} /\ Pushers(n)' = {} /\ Settlers(n)' = {}
  BY <1>4, <1>5 DEF Pushed, Holders, Pushers, Settlers, At, Holding
<1>9. ASSUME NEW m \in Nodes PROVE NodeHolds(m)'
  <2>1. CASE m = n
    BY <1>1, <1>5, <1>7, <1>8, <2>1 DEF NodeHolds, Stacked, Pushed
  <2>2. CASE m # n
    BY <1>1, <1>6, <1>7, <2>2, NodeKept DEF CountInv
  <2> QED
    BY <2>1, <2>2
<1>10. ~ InStack(n)
  BY <1>5 DEF Pushed
<1>11. Distinct'
  <2> SUFFICES ASSUME NEW i \in DOMAIN obj'.abs, NEW j \in DOMAIN obj'.abs, obj'.abs[i] = obj'.abs[j]
               PROVE  i = j
    BY DEF Distinct
  <2>1. \A k \in DOMAIN obj'.abs : k # 1 => k - 1 \in DOMAIN obj.abs /\ obj'.abs[k] = obj.abs[k - 1]
    BY <1>2
  <2>2. i # 1 => obj'.abs[i] # n
    BY <1>10, <2>1 DEF InStack
  <2>3. j # 1 => obj'.abs[j] # n
    BY <1>10, <2>1 DEF InStack
  <2>4. CASE i = 1 \/ j = 1
    BY <1>2, <2>2, <2>3, <2>4
  <2>5. CASE i # 1 /\ j # 1
    <3>1. i - 1 = j - 1
      BY <2>1, <2>5 DEF CountInv, Distinct
    <3> QED
      BY <1>2, <3>1
  <2> QED
    BY <2>4, <2>5
<1>12. /\ RefTo(1)' = th[t].ref
       /\ \A i \in 2 .. Len(obj.abs) + 2 : RefTo(i)' = RefTo(i - 1)
  <2>1. RefTo(1)' = th[t].ref
    BY <1>1 DEF RefTo
  <2>2. ASSUME NEW i \in 2 .. Len(obj.abs) + 2, i = 2 PROVE RefTo(i)' = RefTo(i - 1)
    BY <1>1, <1>2, <2>2 DEF RefTo
  <2>3. ASSUME NEW i \in 2 .. Len(obj.abs) + 2, i # 2 PROVE RefTo(i)' = RefTo(i - 1)
    <3>1. i \in Int /\ i # 1 /\ i - 1 # 1 /\ i - 1 \in 2 .. Len(obj.abs) + 1
      BY <1>2, <2>3
    <3>2. obj'.abs[i - 1] = obj.abs[(i - 1) - 1]
      BY <1>2, <3>1
    <3> QED
      BY <1>1, <3>1, <3>2 DEF RefTo
  <2> QED
    BY <2>1, <2>2, <2>3
<1>13. Chained'
  <2>1. ASSUME NEW i \in DOMAIN obj'.abs PROVE RefTo(i)'.node = obj'.abs[i]
    <3>1. CASE i = 1
      BY <1>2, <1>12, <3>1
    <3>2. CASE i # 1
      <4>1. i \in 2 .. Len(obj.abs) + 2 /\ i - 1 \in DOMAIN obj.abs /\ obj'.abs[i] = obj.abs[i - 1]
        BY <1>2, <3>2
      <4> QED
        BY <1>12, <4>1 DEF CountInv, Chained
    <3> QED
      BY <3>1, <3>2
  <2>2. ASSUME NEW k, k = Len(obj'.abs) + 1 PROVE RefTo(k)'.node = Null
    <3>1. k \in 2 .. Len(obj.abs) + 2 /\ k - 1 = Len(obj.abs) + 1
      BY <1>2, <2>2
    <3> QED
      BY <1>12, <3>1 DEF CountInv, Chained
  <2> QED
    BY <2>1, <2>2 DEF Chained
<1>14. StackCounts'
  <2> SUFFICES ASSUME NEW i \in DOMAIN obj'.abs, NEW m, m = obj'.abs[i]
               PROVE  Cardinality(Holders(m)') = RefTo(i)'.count - 1 + obj'.dec[m]
    BY DEF StackCounts
  <2>1. CASE i = 1
    <3>1. m = n /\ RefTo(i)' = th[t].ref /\ obj'.dec[m] = 0
      BY <1>1, <1>2, <1>5, <1>12, <2>1 DEF Pushed
    <3>2. Cardinality(Holders(m)') = 0
      BY <1>8, <3>1, FS_EmptySet
    <3> QED
      BY <1>5, <3>1, <3>2
  <2>2. CASE i # 1
    <3>1. i \in 2 .. Len(obj.abs) + 2 /\ i - 1 \in DOMAIN obj.abs /\ m = obj.abs[i - 1]
      BY <1>2, <2>2
    <3>2. m # n
      BY <1>10, <3>1 DEF InStack
    <3>3. Holders(m)' = Holders(m)
      BY <1>6, <3>2
    <3> QED
      BY <1>1, <1>12, <3>1, <3>3 DEF CountInv, StackCounts
  <2> QED
    BY <2>1, <2>2
<1>15. ASSUME NEW u \in Threads PROVE ThreadHolds(u)'
  BY <1>1, <1>4 DEF CountInv, ThreadHolds, At, Holding
<1> QED
  BY <1>3, <1>9, <1>11, <1>13, <1>14, <1>15 DEF CountInv

\* The top of the stack, and what is known of it.
LEMMA TopOfStack ==
    ASSUME CountInv, Null \notin Nodes
    PROVE  /\ obj.abs \in Seq(Nodes) /\ Len(obj.abs) \in Nat /\ DOMAIN obj.abs = 1 .. Len(obj.abs)
           /\ obj.head \in Refs /\ obj.head.count \in Nat /\ obj.head.node \in Nodes \cup {Null}
           /\ obj.head.node = Null => DOMAIN obj.abs = {} /\ Len(obj.abs) = 0
           /\ obj.head.node # Null => 1 \in DOMAIN obj.abs /\ obj.abs[1] = obj.head.node
                                      /\ obj.head.node \in Nodes /\ Stacked(obj.head.node)
<1>1. /\ obj.abs \in Seq(Nodes) /\ Len(obj.abs) \in Nat /\ DOMAIN obj.abs = 1 .. Len(obj.abs)
      /\ obj.head \in Refs /\ obj.head.count \in Nat /\ obj.head.node \in Nodes \cup {Null}
  BY DEF CountInv, CountTyped, Stacks, Refs
<1>2. RefTo(1) = obj.head
  BY DEF RefTo
<1>3. 1 \in DOMAIN obj.abs => obj.head.node = obj.abs[1] /\ obj.abs[1] \in Nodes
  BY <1>1, <1>2 DEF CountInv, Chained
<1>4. 1 \notin DOMAIN obj.abs => Len(obj.abs) = 0 /\ obj.head.node = Null /\ DOMAIN obj.abs = {}
  <2> SUFFICES ASSUME 1 \notin DOMAIN obj.abs
               PROVE  Len(obj.abs) = 0 /\ obj.head.node = Null /\ DOMAIN obj.abs = {}
    OBVIOUS
  <2>1. Len(obj.abs) = 0
    BY <1>1
  <2>2. Len(obj.abs) + 1 = 1
    BY <2>1
  <2>3. RefTo(Len(obj.abs) + 1) = obj.head
    BY <1>2, <2>2
  <2> QED
    BY <1>1, <2>1, <2>3 DEF CountInv, Chained
<1>5. ASSUME obj.head.node # Null PROVE Stacked(obj.head.node)
  <2>1. obj.head.node \in Nodes /\ InStack(obj.head.node)
    BY <1>1, <1>3, <1>4, <1>5 DEF InStack
  <2> QED
    BY <2>1 DEF CountInv, NodeHolds, Absent, Pushed, Unlinked, Settled
<1> QED
  BY <1>1, <1>3, <1>4, <1>5

\* A Pop that finds no node counts the null.
LEMMA NullCountedPreserves ==
    ASSUME CountInv, Null \notin Nodes, NEW t \in Threads, th[t].pc = "count", obj.head.node = Null,
           obj' = [obj EXCEPT !.head = Ref(obj.head.count + 1, obj.head.node)],
           th' = [th EXCEPT ![t] = Idle]
    PROVE  CountInv'
<1>0. CountTyped /\ Idle \in Callers /\ Free(Idle) /\ Free(th[t])
  BY DEF CountInv, Idle, Callers, Refs, Empty, Ref, Free, Holding
<1>1. /\ obj.abs \in Seq(Nodes) /\ Len(obj.abs) = 0 /\ DOMAIN obj.abs = {} /\ obj.head.count \in Nat
  BY TopOfStack
<1>2. Ref(obj.head.count + 1, obj.head.node) \in Refs
  BY <1>1 DEF Ref, Refs
<1>3. /\ obj'.head = Ref(obj.head.count + 1, obj.head.node) /\ obj'.dec = obj.dec /\ obj'.abs = obj.abs
      /\ obj'.at = obj.at /\ obj'.next = obj.next /\ obj' \in Stacks
  BY <1>0, <1>2 DEF CountTyped, Stacks
<1>4. /\ th' \in [Threads -> Callers] /\ th'[t] = Idle
      /\ \A u \in Threads : u # t => th'[u] = th[u]
  BY <1>0 DEF CountTyped
<1>5. /\ \A m : /\ Holders(m)' = Holders(m) /\ Pushers(m)' = Pushers(m) /\ Settlers(m)' = Settlers(m)
                /\ \A u \in Pushers(m) \cup Settlers(m) : th'[u].ref = th[u].ref
  BY <1>0, <1>4, SetsKept
<1>6. \A m : InStack(m)' <=> InStack(m)
  BY <1>3 DEF InStack
<1>7. Distinct' /\ StackCounts'
  BY <1>1, <1>3 DEF Distinct, StackCounts
<1>8. Chained'
  <2>1. \A k : k = Len(obj'.abs) + 1 => RefTo(k)'.node = Null
    BY <1>1, <1>3 DEF RefTo, Ref
  <2> QED
    BY <1>1, <1>3, <2>1 DEF Chained
<1>9. ASSUME NEW u \in Threads PROVE ThreadHolds(u)'
  BY <1>0, <1>3, <1>4 DEF CountInv, ThreadHolds, At, Free, Holding
<1>10. ASSUME NEW m \in Nodes PROVE NodeHolds(m)'
  BY <1>3, <1>5, <1>6, NodeKept DEF CountInv
<1> QED
  BY <1>3, <1>4, <1>7, <1>8, <1>9, <1>10 DEF CountInv, CountTyped

\* A Pop counts itself in at the node on top.
LEMMA CountInPreserves ==
    ASSUME IsFiniteSet(Threads), CountInv, Null \notin Nodes, NEW t \in Threads, th[t].pc = "count",
           NEW n, n = obj.head.node, n # Null, NEW mine, mine = Ref(obj.head.count + 1, n),
           obj' = [obj EXCEPT !.head = mine],
           th' = [th EXCEPT ![t] = [@ EXCEPT !.pc = "next", !.ref = mine]]
    PROVE  CountInv'
<1>0. CountTyped /\ Free(th[t])
  BY DEF CountInv, Free, Holding
<1>1. /\ obj.abs \in Seq(Nodes) /\ Len(obj.abs) \in Nat /\ DOMAIN obj.abs = 1 .. Len(obj.abs)
      /\ 1 \in DOMAIN obj.abs /\ obj.abs[1] = n /\ n \in Nodes /\ Stacked(n) /\ obj.head.count \in Nat
  BY TopOfStack
<1>2. mine \in Refs /\ mine.count = obj.head.count + 1 /\ mine.node = n
  BY <1>1 DEF Ref, Refs
<1>3. /\ obj'.head = mine /\ obj'.dec = obj.dec /\ obj'.abs = obj.abs
      /\ obj'.at = obj.at /\ obj'.next = obj.next /\ obj' \in Stacks
  BY <1>0, <1>2 DEF CountTyped, Stacks
<1>4. /\ th' \in [Threads -> Callers] /\ th'[t].pc = "next" /\ th'[t].ref = mine
      /\ \A u \in Threads : u # t => th'[u] = th[u]
  BY <1>0, <1>2 DEF CountTyped, Callers, Holding
<1>5. ASSUME NEW m, m # n
      PROVE  /\ Holders(m)' = Holders(m) /\ Pushers(m)' = Pushers(m) /\ Settlers(m)' = Settlers(m)
             /\ \A u \in Pushers(m) \cup Settlers(m) : th'[u].ref = th[u].ref
  BY <1>0, <1>2, <1>4, <1>5, SetsKept
<1>6. /\ Holders(n)' = Holders(n) \cup {t} /\ t \notin Holders(n)
      /\ Pushers(n)' = {} /\ Settlers(n)' = {}
  <2>1. t \notin Holders(n) /\ t \notin Pushers(n)' /\ t \notin Settlers(n)' /\ t \in Holders(n)'
    BY <1>0, <1>2, <1>4 DEF Free, Holders, Pushers, Settlers, At, Holding
  <2>2. \A u \in Threads : u # t => /\ u \in Holders(n)' <=> u \in Holders(n)
                                    /\ u \in Pushers(n)' <=> u \in Pushers(n)
                                    /\ u \in Settlers(n)' <=> u \in Settlers(n)
    BY <1>4 DEF Holders, Pushers, Settlers, At
  <2>3. /\ Holders(n)' \subseteq Threads /\ Holders(n) \subseteq Threads
        /\ Pushers(n)' \subseteq Threads /\ Settlers(n)' \subseteq Threads
    BY DEF Holders, Pushers, Settlers
  <2> QED
    BY <1>1, <2>1, <2>2, <2>3 DEF Stacked
<1>7. Cardinality(Holders(n)') = Cardinality(Holders(n)) + 1
  <2>1. t \in Threads \ Holders(n)
    BY <1>6
  <2> QED
    BY <1>6, <2>1, Counting
<1>8. \A m : InStack(m)' <=> InStack(m)
  BY <1>3 DEF InStack
<1>9. ASSUME NEW m \in Nodes PROVE NodeHolds(m)'
  <2>1. CASE m = n
    BY <1>1, <1>3, <1>6, <1>8, <2>1 DEF NodeHolds, Stacked
  <2>2. CASE m # n
    BY <1>3, <1>5, <1>8, <2>2, NodeKept DEF CountInv
  <2> QED
    BY <2>1, <2>2
<1>10. RefTo(1) = obj.head /\ RefTo(1)' = mine /\ \A i : i # 1 => RefTo(i)' = RefTo(i)
  BY <1>3 DEF RefTo
<1>11. Distinct'
  BY <1>3 DEF CountInv, Distinct
<1>12. Chained'
  <2>1. ASSUME NEW i \in DOMAIN obj.abs PROVE RefTo(i)'.node = obj.abs[i]
    BY <1>1, <1>2, <1>10 DEF CountInv, Chained
  <2>2. ASSUME NEW k, k = Len(obj.abs) + 1 PROVE RefTo(k)'.node = Null
    BY <1>1, <1>10, <2>2 DEF CountInv, Chained
  <2> QED
    BY <1>3, <2>1, <2>2 DEF Chained
<1>13. StackCounts'
  <2> SUFFICES ASSUME NEW i \in DOMAIN obj'.abs, NEW m, m = obj'.abs[i]
               PROVE  Cardinality(Holders(m)') = RefTo(i)'.count - 1 + obj'.dec[m]
    BY DEF StackCounts
  <2>1. Cardinality(Holders(m)) = RefTo(i).count - 1 + obj.dec[m]
    BY <1>3 DEF CountInv, StackCounts
  <2>2. CASE i = 1
    <3>1. m = n /\ RefTo(i) = obj.head /\ RefTo(i)' = mine /\ obj'.dec[m] = obj.dec[m] /\ obj.dec[m] \in Int
      BY <1>0, <1>1, <1>3, <1>10, <2>2 DEF CountTyped, Stacks
    <3>2. Cardinality(Holders(m)') = Cardinality(Holders(m)) + 1
      BY <1>7, <3>1
    <3> QED
      BY <1>1, <1>2, <2>1, <3>1, <3>2
  <2>3. CASE i # 1
    <3>1. m # n
      BY <1>1, <1>3, <2>3 DEF CountInv, Distinct
    <3>2. Holders(m)' = Holders(m)
      BY <1>5, <3>1
    <3> QED
      BY <1>3, <1>10, <2>1, <2>3, <3>2
  <2> QED
    BY <2>2, <2>3
<1>14. ASSUME NEW u \in Threads PROVE ThreadHolds(u)'
  BY <1>1, <1>2, <1>3, <1>4 DEF CountInv, ThreadHolds, At, Holding
<1> QED
  BY <1>3, <1>4, <1>9, <1>11, <1>12, <1>13, <1>14 DEF CountInv, CountTyped

\* A Pop unlinks the node on top: what it read of the node's next is still there.
LEMMA PopPreserves ==
    ASSUME CountInv, Null \notin Nodes, NEW t \in Threads, th[t].pc = "cas", obj.head = th[t].ref,
           NEW n, n = th[t].ref.node,
           obj' = [obj EXCEPT !.head = th[t].next, !.abs = Tail(@)],
           th' = [th EXCEPT ![t].pc = "settle"]
    PROVE  CountInv'
<1>0. CountTyped /\ n \in Nodes /\ th[t].next = obj.next[n] /\ th[t] \in Callers
  BY DEF CountInv, CountTyped, ThreadHolds, At, Holding
<1>1. /\ obj.abs \in Seq(Nodes) /\ Len(obj.abs) \in Nat /\ DOMAIN obj.abs = 1 .. Len(obj.abs)
      /\ 1 \in DOMAIN obj.abs /\ obj.abs[1] = n /\ Stacked(n)
  BY <1>0, TopOfStack
<1>2. /\ Tail(obj.abs) \in Seq(Nodes) /\ Len(Tail(obj.abs)) = Len(obj.abs) - 1
      /\ DOMAIN Tail(obj.abs) = 1 .. Len(obj.abs) - 1
      /\ \A i \in 1 .. Len(obj.abs) - 1 : Tail(obj.abs)[i] = obj.abs[i + 1]
  BY <1>1, PopSeq
<1>3. th[t].next \in Refs
  BY <1>0 DEF CountTyped, Callers
<1>4. /\ obj'.head = obj.next[n] /\ obj'.dec = obj.dec /\ obj'.abs = Tail(obj.abs)
      /\ obj'.at = obj.at /\ obj'.next = obj.next /\ obj' \in Stacks
  BY <1>0, <1>2, <1>3 DEF CountTyped, Stacks
<1>5. /\ th' \in [Threads -> Callers] /\ th'[t].pc = "settle" /\ th'[t].ref = th[t].ref
      /\ \A u \in Threads : u # t => th'[u] = th[u]
  BY <1>0 DEF CountTyped, Callers, Holding
<1>6. ASSUME NEW m, m # n
      PROVE  /\ Holders(m)' = Holders(m) /\ Pushers(m)' = Pushers(m) /\ Settlers(m)' = Settlers(m)
             /\ \A u \in Pushers(m) \cup Settlers(m) : th'[u].ref = th[u].ref
  BY <1>5, <1>6, SetsKept
<1>7. Holders(n)' = Holders(n) /\ Pushers(n)' = {} /\ Settlers(n)' = {t}
  <2>1. t \in Holders(n) /\ t \in Holders(n)' /\ t \notin Pushers(n)' /\ t \in Settlers(n)'
    BY <1>5 DEF Holders, Pushers, Settlers, At, Holding
  <2>2. \A u \in Threads : u # t => /\ u \in Holders(n)' <=> u \in Holders(n)
                                    /\ u \in Pushers(n)' <=> u \in Pushers(n)
                                    /\ u \in Settlers(n)' <=> u \in Settlers(n)
    BY <1>5 DEF Holders, Pushers, Settlers, At
  <2>3. /\ Holders(n)' \subseteq Threads /\ Holders(n) \subseteq Threads
        /\ Pushers(n)' \subseteq Threads /\ Settlers(n)' \subseteq Threads
    BY DEF Holders, Pushers, Settlers
  <2>4. Pushers(n) = {} /\ Settlers(n) = {}
    BY <1>1 DEF Stacked
  <2>5. Holders(n)' = Holders(n)
    BY <2>1, <2>2, <2>3
  <2>6. Pushers(n)' = {} /\ Settlers(n)' = {t}
    BY <2>1, <2>2, <2>3, <2>4
  <2> QED
    BY <2>5, <2>6
<1>8. ~InStack(n)' /\ \A m : m # n => (InStack(m)' <=> InStack(m))
  <2>1. ASSUME NEW i \in DOMAIN obj'.abs
        PROVE  i + 1 \in DOMAIN obj.abs /\ i + 1 # 1 /\ obj'.abs[i] = obj.abs[i + 1]
    BY <1>1, <1>2, <1>4
  <2>2. \A i \in DOMAIN obj'.abs : obj'.abs[i] # n
    <3>1. \A i, j \in DOMAIN obj.abs : obj.abs[i] = obj.abs[j] => i = j
      BY DEF CountInv, Distinct
    <3>2. 1 \in DOMAIN obj.abs /\ obj.abs[1] = n
      BY <1>1
    <3> QED
      BY <2>1, <3>1, <3>2
  <2>3. ASSUME NEW m, m # n, InStack(m) PROVE InStack(m)'
    <3>1. PICK i \in DOMAIN obj.abs : obj.abs[i] = m
      BY <2>3 DEF InStack
    <3>2. i # 1
      BY <1>1, <2>3, <3>1
    <3>3. i - 1 \in 1 .. Len(obj.abs) - 1 /\ (i - 1) + 1 = i
      BY <1>1, <3>2
    <3>4. i - 1 \in DOMAIN obj'.abs /\ obj'.abs[i - 1] = m
      BY <1>2, <1>4, <3>1, <3>3
    <3> QED
      BY <3>4 DEF InStack
  <2>4. ASSUME NEW m, InStack(m)' PROVE InStack(m)
    <3>1. PICK i \in DOMAIN obj'.abs : obj'.abs[i] = m
      BY <2>4 DEF InStack
    <3> QED
      BY <2>1, <3>1 DEF InStack
  <2> QED
    BY <2>2, <2>3, <2>4 DEF InStack
<1>9. \A i \in 1 .. Len(obj.abs) : RefTo(i)' = RefTo(i + 1)
  <2> SUFFICES ASSUME NEW i \in 1 .. Len(obj.abs) PROVE RefTo(i)' = RefTo(i + 1)
    OBVIOUS
  <2>0. i \in Nat /\ i + 1 # 1 /\ (i + 1) - 1 = i
    BY <1>1
  <2>1. RefTo(i + 1) = obj.next[obj.abs[i]]
    BY <2>0 DEF RefTo
  <2>2. CASE i = 1
    BY <1>1, <1>4, <2>1, <2>2 DEF RefTo
  <2>3. CASE i # 1
    <3>1. i - 1 \in 1 .. Len(obj.abs) - 1 /\ (i - 1) + 1 = i
      BY <1>1, <2>3
    <3>2. obj'.abs[i - 1] = obj.abs[i]
      BY <1>2, <1>4, <3>1
    <3> QED
      BY <1>4, <2>1, <2>3, <3>2 DEF RefTo
  <2> QED
    BY <2>2, <2>3
<1>10. ASSUME NEW i \in DOMAIN obj'.abs
       PROVE  /\ i \in 1 .. Len(obj.abs) /\ i + 1 \in DOMAIN obj.abs /\ i \in Int
              /\ obj'.abs[i] = obj.abs[i + 1] /\ RefTo(i)' = RefTo(i + 1)
  BY <1>1, <1>2, <1>4, <1>9
<1>11. Distinct'
  <2> SUFFICES ASSUME NEW i \in DOMAIN obj'.abs, NEW j \in DOMAIN obj'.abs, obj'.abs[i] = obj'.abs[j]
               PROVE  i = j
    BY DEF Distinct
  <2>1. i + 1 = j + 1
    BY <1>10 DEF CountInv, Distinct
  <2> QED
    BY <1>10, <2>1
<1>12. Chained'
  <2>1. ASSUME NEW i \in DOMAIN obj'.abs PROVE RefTo(i)'.node = obj'.abs[i]
    BY <1>10 DEF CountInv, Chained
  <2>2. ASSUME NEW k, k = Len(obj'.abs) + 1 PROVE RefTo(k)'.node = Null
    <3>1. k = Len(obj.abs) /\ k \in 1 .. Len(obj.abs)
      BY <1>1, <1>2, <1>4, <2>2
    <3> QED
      BY <1>9, <3>1 DEF CountInv, Chained
  <2> QED
    BY <2>1, <2>2 DEF Chained
<1>13. StackCounts'
  <2> SUFFICES ASSUME NEW i \in DOMAIN obj'.abs, NEW m, m = obj'.abs[i]
               PROVE  Cardinality(Holders(m)') = RefTo(i)'.count - 1 + obj'.dec[m]
    BY DEF StackCounts
  <2>1. Cardinality(Holders(m)) = RefTo(i + 1).count - 1 + obj.dec[m]
    BY <1>10 DEF CountInv, StackCounts
  <2>2. Holders(m)' = Holders(m)
    BY <1>6, <1>7
  <2> QED
    BY <1>4, <1>10, <2>1, <2>2
<1>14. ASSUME NEW m \in Nodes PROVE NodeHolds(m)'
  <2>1. CASE m = n
    <3>1. Cardinality(Holders(n)) = th[t].ref.count - 1 + obj.dec[n]
      BY <1>1 DEF CountInv, StackCounts, RefTo
    <3>2. Unlinked(n)'
      BY <1>1, <1>4, <1>5, <1>7, <1>8, <3>1 DEF Unlinked, Stacked
    <3> QED
      BY <2>1, <3>2 DEF NodeHolds
  <2>2. CASE m # n
    BY <1>4, <1>6, <1>8, <2>2, NodeKept DEF CountInv
  <2> QED
    BY <2>1, <2>2
<1>15. ASSUME NEW u \in Threads PROVE ThreadHolds(u)'
  BY <1>0, <1>4, <1>5 DEF CountInv, ThreadHolds, At, Holding
<1> QED
  BY <1>4, <1>5, <1>11, <1>12, <1>13, <1>14, <1>15 DEF CountInv, CountTyped

\* A thread that counts itself out of n.
LEMMA HoldersWithout ==
    ASSUME IsFiniteSet(Threads), NEW t \in Threads, NEW n, th[t].pc \in Holding, n = th[t].ref.node, Free(th'[t]),
           \A u \in Threads : u # t => th'[u] = th[u]
    PROVE  /\ t \in Holders(n) /\ Holders(n)' = Holders(n) \ {t}
           /\ Cardinality(Holders(n)) \in Nat /\ Cardinality(Holders(n)') = Cardinality(Holders(n)) - 1
           /\ Cardinality(Holders(n)') \in Nat /\ (Cardinality(Holders(n)') = 0 => Holders(n)' = {})
           /\ Pushers(n)' = Pushers(n) /\ Settlers(n)' = Settlers(n) \ {t}
<1>1. t \in Holders(n) /\ t \notin Holders(n)' /\ t \notin Pushers(n) /\ t \notin Pushers(n)' /\ t \notin Settlers(n)'
  BY DEF Free, Holders, Pushers, Settlers, At, Holding
<1>2. \A u \in Threads : u # t => /\ u \in Holders(n)' <=> u \in Holders(n)
                                  /\ u \in Pushers(n)' <=> u \in Pushers(n)
                                  /\ u \in Settlers(n)' <=> u \in Settlers(n)
  BY DEF Holders, Pushers, Settlers, At
<1>3. /\ Holders(n)' \subseteq Threads /\ Holders(n) \subseteq Threads
      /\ Pushers(n)' \subseteq Threads /\ Settlers(n)' \subseteq Threads
      /\ Pushers(n) \subseteq Threads /\ Settlers(n) \subseteq Threads
  BY DEF Holders, Pushers, Settlers
<1>4. Holders(n)' = Holders(n) \ {t} /\ Pushers(n)' = Pushers(n) /\ Settlers(n)' = Settlers(n) \ {t}
  BY <1>1, <1>2, <1>3
<1>5. Cardinality(Holders(n)) \in Nat /\ Cardinality(Holders(n) \ {t}) = Cardinality(Holders(n)) - 1
  BY <1>1, Counting
<1>6. IsFiniteSet(Holders(n) \ {t})
  BY Counting, FS_Subset
<1>7. Cardinality(Holders(n) \ {t}) \in Nat /\ (Cardinality(Holders(n) \ {t}) = 0 => Holders(n) \ {t} = {})
  BY <1>6, FS_CardinalityType, FS_EmptySet
<1> QED
  BY <1>1, <1>4, <1>5, <1>7

LEMMA NoHolderLeft ==
    ASSUME IsFiniteSet(Threads), NEW n, Cardinality(Holders(n)') = 0
    PROVE  Holders(n)' = {}
<1>1. Holders(n)' \subseteq Threads
  BY DEF Holders
<1>2. IsFiniteSet(Holders(n)')
  BY <1>1, FS_Subset
<1> QED
  BY <1>2, FS_EmptySet

LEMMA CountOutPreserves ==
    ASSUME IsFiniteSet(Threads), CountInv, NEW t \in Threads, NEW n, th[t].pc \in Holding, n = th[t].ref.node, Free(th'[t]),
           \A u \in Threads : u # t => th'[u] = th[u], CountTyped',
           obj'.head = obj.head, obj'.next = obj.next, obj'.abs = obj.abs,
           \A m \in Nodes : m # n => obj'.dec[m] = obj.dec[m] /\ obj'.at[m] = obj.at[m],
           InStack(n) => obj'.dec[n] = obj.dec[n] - 1, NodeHolds(n)'
    PROVE  CountInv'
<1>0. CountTyped /\ obj.abs \in Seq(Nodes)
  BY DEF CountInv, CountTyped, Stacks
<1>1. ASSUME NEW m, m # n
      PROVE  /\ Holders(m)' = Holders(m) /\ Pushers(m)' = Pushers(m) /\ Settlers(m)' = Settlers(m)
             /\ \A u \in Pushers(m) \cup Settlers(m) : th'[u].ref = th[u].ref
  BY <1>1, SetsKept
<1>2. Cardinality(Holders(n)) \in Nat /\ Cardinality(Holders(n)') = Cardinality(Holders(n)) - 1
  BY HoldersWithout
<1>3. \A m : InStack(m)' <=> InStack(m)
  BY DEF InStack
<1>4. \A i : RefTo(i)' = RefTo(i)
  BY DEF RefTo
<1>5. Distinct' /\ Chained'
  BY <1>4 DEF CountInv, Distinct, Chained
<1>6. StackCounts'
  <2> SUFFICES ASSUME NEW i \in DOMAIN obj.abs, NEW m, m = obj.abs[i]
               PROVE  Cardinality(Holders(m)') = RefTo(i).count - 1 + obj'.dec[m]
    BY <1>4 DEF StackCounts
  <2>1. Cardinality(Holders(m)) = RefTo(i).count - 1 + obj.dec[m]
    BY DEF CountInv, StackCounts
  <2>2. m \in Nodes /\ InStack(m) /\ obj.dec[m] \in Int
    BY <1>0 DEF InStack, CountTyped, Stacks
  <2>3. RefTo(i).count \in Nat
    <3>1. RefTo(i) \in Refs
      <4>1. CASE i = 1
        BY <1>0, <4>1 DEF RefTo, CountTyped, Stacks
      <4>2. CASE i # 1
        <5>1. obj.abs[i - 1] \in Nodes
          BY <1>0, <4>2
        <5> QED
          BY <1>0, <4>2, <5>1 DEF RefTo, CountTyped, Stacks
      <4> QED
        BY <4>1, <4>2
    <3> QED
      BY <3>1 DEF Refs
  <2>4. CASE m = n
    <3>1. obj'.dec[m] = obj.dec[m] - 1 /\ Cardinality(Holders(m)') = Cardinality(Holders(m)) - 1
      BY <1>2, <2>2, <2>4
    <3> QED
      BY <2>1, <2>2, <2>3, <3>1
  <2>5. CASE m # n
    BY <1>1, <2>1, <2>2, <2>5
  <2> QED
    BY <2>4, <2>5
<1>7. ASSUME NEW u \in Threads PROVE ThreadHolds(u)'
  BY DEF CountInv, ThreadHolds, At, Free, Holding
<1>8. ASSUME NEW m \in Nodes PROVE NodeHolds(m)'
  <2>1. CASE m # n
    BY <1>1, <1>3, <2>1, NodeKept DEF CountInv
  <2> QED
    BY <2>1
<1> QED
  BY <1>5, <1>6, <1>7, <1>8 DEF CountInv

LEMMA AddWritten ==
    ASSUME obj \in Stacks, NEW n \in Nodes, NEW d \in Int, NEW a \in {"live", "freed"},
           obj' = [obj EXCEPT !.dec[n] = d, !.at[n] = a]
    PROVE  /\ obj'.head = obj.head /\ obj'.next = obj.next /\ obj'.abs = obj.abs
           /\ obj'.dec[n] = d /\ obj'.at[n] = a
           /\ \A m \in Nodes : m # n => obj'.dec[m] = obj.dec[m] /\ obj'.at[m] = obj.at[m]
           /\ obj' \in Stacks
<1>1. /\ obj'.head = obj.head /\ obj'.next = obj.next /\ obj'.abs = obj.abs
      /\ obj'.dec = [obj.dec EXCEPT ![n] = d] /\ obj'.at = [obj.at EXCEPT ![n] = a]
  BY DEF Stacks
<1>2. obj'.dec \in [Nodes -> Int] /\ obj'.at \in [Nodes -> {"new", "live", "freed", "twice"}]
  BY <1>1 DEF Stacks
<1>3. obj' = [obj EXCEPT !.dec = obj'.dec, !.at = obj'.at]
  BY <1>1 DEF Stacks
<1>4. obj' \in Stacks
  BY <1>2, <1>3 DEF Stacks
<1> QED
  BY <1>1, <1>4 DEF Stacks

LEMMA CountsOut == \A d, b \in Int : d # -b => d + b # 0
OBVIOUS

\* The Pop that unlinked n adds what the pointer to it had counted.
LEMMA SettlePreserves ==
    ASSUME IsFiniteSet(Threads), CountInv, NEW t \in Threads, Settle(t)
    PROVE  CountInv'
<1>pick. PICK n, by : n = th[t].ref.node /\ by = th[t].ref.count - 2
  OBVIOUS
<1>0. /\ CountTyped /\ th[t].pc = "settle" /\ n \in Nodes /\ th[t].ref.count \in Nat
      /\ obj.dec[n] \in Int /\ by \in Int
  BY <1>pick DEF Settle, At, CountInv, CountTyped, ThreadHolds, Callers, Refs, Holding, Stacks
<1>1. /\ obj' = [obj EXCEPT !.dec[n] = @ + by, !.at[n] = IF obj.dec[n] = -by THEN Freed(n) ELSE @]
      /\ th' = [th EXCEPT ![t] = Idle]
  BY <1>pick DEF Settle, Add
<1>2. t \in Settlers(n) /\ t \in Holders(n)
  BY <1>0, <1>pick DEF Settlers, Holders, At, Holding
<1>3. Unlinked(n)
  BY <1>0, <1>2 DEF CountInv, NodeHolds, Absent, Pushed, Stacked, Settled
<1>4. /\ obj.at[n] = "live" /\ ~InStack(n) /\ Pushers(n) = {} /\ Settlers(n) = {t}
      /\ Cardinality(Holders(n)) = th[t].ref.count - 1 + obj.dec[n]
  BY <1>2, <1>3 DEF Unlinked
<1>5. /\ obj'.head = obj.head /\ obj'.next = obj.next /\ obj'.abs = obj.abs
      /\ obj'.dec[n] = obj.dec[n] + by /\ obj'.at[n] = (IF obj.dec[n] = -by THEN "freed" ELSE "live")
      /\ \A m \in Nodes : m # n => obj'.dec[m] = obj.dec[m] /\ obj'.at[m] = obj.at[m]
      /\ obj' \in Stacks
  <2>1. obj' = [obj EXCEPT !.dec[n] = obj.dec[n] + by, !.at[n] = IF obj.dec[n] = -by THEN "freed" ELSE "live"]
    BY <1>1, <1>4 DEF Freed
  <2>2. obj.dec[n] + by \in Int /\ (IF obj.dec[n] = -by THEN "freed" ELSE "live") \in {"live", "freed"}
    BY <1>0
  <2>3. PICK d \in Int, a \in {"live", "freed"} : d = obj.dec[n] + by /\ a = (IF obj.dec[n] = -by THEN "freed" ELSE "live")
    BY <2>2
  <2>4. obj \in Stacks /\ obj' = [obj EXCEPT !.dec[n] = d, !.at[n] = a]
    BY <1>0, <2>1, <2>3 DEF CountTyped
  <2>5. /\ obj'.head = obj.head /\ obj'.next = obj.next /\ obj'.abs = obj.abs
        /\ obj'.dec[n] = d /\ obj'.at[n] = a
        /\ \A m \in Nodes : m # n => obj'.dec[m] = obj.dec[m] /\ obj'.at[m] = obj.at[m]
        /\ obj' \in Stacks
    BY <1>0, <2>4, AddWritten
  <2> QED
    BY <2>3, <2>5
<1>6. /\ th' \in [Threads -> Callers] /\ Free(th'[t]) /\ \A u \in Threads : u # t => th'[u] = th[u]
  BY <1>0, <1>1 DEF CountTyped, Idle, Callers, Refs, Empty, Ref, Free, Holding
<1>7. /\ Cardinality(Holders(n)') = Cardinality(Holders(n)) - 1 /\ Cardinality(Holders(n)') \in Nat
      /\ (Cardinality(Holders(n)') = 0 => Holders(n)' = {})
      /\ Pushers(n)' = Pushers(n) /\ Settlers(n)' = Settlers(n) \ {t}
  <2>1. th[t].pc \in Holding
    BY <1>0 DEF Holding
  <2>2. Cardinality(Holders(n)) \in Nat /\ Cardinality(Holders(n)') = Cardinality(Holders(n)) - 1
    BY <1>6, <1>pick, <2>1, HoldersWithout
  <2>3. Cardinality(Holders(n)') \in Nat
    BY <1>6, <1>pick, <2>1, HoldersWithout
  <2>5. Cardinality(Holders(n)') = 0 => Holders(n)' = {}
    BY NoHolderLeft
  <2>4. Pushers(n)' = Pushers(n) /\ Settlers(n)' = Settlers(n) \ {t}
    BY <1>6, <1>pick, <2>1, HoldersWithout
  <2> QED
    BY <2>2, <2>3, <2>4, <2>5
<1>8. Cardinality(Holders(n)') = obj'.dec[n]
  BY <1>0, <1>4, <1>5, <1>7, <1>pick
<1>9. ~InStack(n)'
  BY <1>4, <1>5 DEF InStack
<1>10. NodeHolds(n)'
  <2>1. CASE obj.dec[n] = -by
    <3>1. obj'.dec[n] = 0 /\ obj'.at[n] = "freed"
      BY <1>0, <1>5, <2>1
    <3> QED
      BY <1>4, <1>7, <1>8, <1>9, <3>1 DEF NodeHolds, Absent
  <2>2. CASE obj.dec[n] # -by
    <3>1. obj'.dec[n] # 0 /\ obj'.at[n] = "live"
      <4>1. obj'.dec[n] = obj.dec[n] + by
        BY <1>5
      <4>2. obj'.at[n] = "live"
        BY <1>5, <2>2
      <4> QED
        BY <1>0, <2>2, <4>1, <4>2, CountsOut
    <3>2. obj'.dec[n] >= 1 /\ Settlers(n)' = {}
      BY <1>4, <1>7, <1>8, <3>1
    <3> QED
      BY <1>4, <1>7, <1>8, <1>9, <3>1, <3>2 DEF NodeHolds, Settled
  <2> QED
    BY <2>1, <2>2
<1>11. CountTyped'
  BY <1>5, <1>6 DEF CountTyped
<1>12. th[t].pc \in Holding /\ n = th[t].ref.node
  BY <1>0, <1>pick DEF Holding
<1> QED
  BY <1>4, <1>5, <1>6, <1>10, <1>11, <1>12, CountOutPreserves

\* The Pop that lost the swap counts itself out and begins again.
LEMMA DropPreserves ==
    ASSUME IsFiniteSet(Threads), CountInv, NEW t \in Threads, Drop(t)
    PROVE  CountInv'
<1>pick. PICK n : n = th[t].ref.node
  OBVIOUS
<1>0. /\ CountTyped /\ th[t].pc = "drop" /\ n \in Nodes /\ obj.dec[n] \in Int /\ th[t].next \in Refs
  BY <1>pick DEF Drop, At, CountInv, CountTyped, ThreadHolds, Callers, Refs, Holding, Stacks
<1>1. /\ obj' = [obj EXCEPT !.dec[n] = @ + (-1), !.at[n] = IF obj.dec[n] = 1 THEN Freed(n) ELSE @]
      /\ th' = [th EXCEPT ![t] = [Idle EXCEPT !.pc = "count", !.ref = th[t].next]]
  BY <1>pick DEF Drop, Add
<1>2. t \in Holders(n) /\ t \notin Settlers(n)
  BY <1>0, <1>pick DEF Settlers, Holders, At, Holding
<1>3. Stacked(n) \/ Unlinked(n) \/ Settled(n)
  BY <1>0, <1>2 DEF CountInv, NodeHolds, Absent, Pushed
<1>4. obj.at[n] = "live" /\ Pushers(n) = {}
  BY <1>3 DEF Stacked, Unlinked, Settled
<1>5. th[t].pc \in Holding
  BY <1>0 DEF Holding
<1>6. /\ obj'.head = obj.head /\ obj'.next = obj.next /\ obj'.abs = obj.abs
      /\ obj'.dec[n] = obj.dec[n] - 1 /\ obj'.at[n] = (IF obj.dec[n] = 1 THEN "freed" ELSE "live")
      /\ \A m \in Nodes : m # n => obj'.dec[m] = obj.dec[m] /\ obj'.at[m] = obj.at[m]
      /\ obj' \in Stacks
  <2>1. obj' = [obj EXCEPT !.dec[n] = obj.dec[n] - 1, !.at[n] = IF obj.dec[n] = 1 THEN "freed" ELSE "live"]
    <3>1. obj.dec[n] + (-1) = obj.dec[n] - 1
      BY <1>0
    <3> QED
      BY <1>1, <1>4, <3>1 DEF Freed
  <2>2. obj.dec[n] - 1 \in Int /\ (IF obj.dec[n] = 1 THEN "freed" ELSE "live") \in {"live", "freed"}
    BY <1>0
  <2>3. PICK d \in Int, a \in {"live", "freed"} : d = obj.dec[n] - 1 /\ a = (IF obj.dec[n] = 1 THEN "freed" ELSE "live")
    BY <2>2
  <2>4. obj \in Stacks /\ obj' = [obj EXCEPT !.dec[n] = d, !.at[n] = a]
    BY <1>0, <2>1, <2>3 DEF CountTyped
  <2>5. /\ obj'.head = obj.head /\ obj'.next = obj.next /\ obj'.abs = obj.abs
        /\ obj'.dec[n] = d /\ obj'.at[n] = a
        /\ \A m \in Nodes : m # n => obj'.dec[m] = obj.dec[m] /\ obj'.at[m] = obj.at[m]
        /\ obj' \in Stacks
    BY <1>0, <2>4, AddWritten
  <2> QED
    BY <2>3, <2>5
<1>7. /\ th' \in [Threads -> Callers] /\ Free(th'[t]) /\ \A u \in Threads : u # t => th'[u] = th[u]
  BY <1>0, <1>1 DEF CountTyped, Idle, Callers, Refs, Empty, Ref, Free, Holding
<1>8. /\ Cardinality(Holders(n)) \in Nat /\ Cardinality(Holders(n)') = Cardinality(Holders(n)) - 1
      /\ Cardinality(Holders(n)') \in Nat /\ (Cardinality(Holders(n)') = 0 => Holders(n)' = {})
      /\ Pushers(n)' = Pushers(n) /\ Settlers(n)' = Settlers(n) \ {t}
  <2>2. Cardinality(Holders(n)) \in Nat /\ Cardinality(Holders(n)') = Cardinality(Holders(n)) - 1
    BY <1>5, <1>7, <1>pick, HoldersWithout
  <2>3. Cardinality(Holders(n)') \in Nat
    BY <1>5, <1>7, <1>pick, HoldersWithout
  <2>5. Cardinality(Holders(n)') = 0 => Holders(n)' = {}
    BY NoHolderLeft
  <2>4. Pushers(n)' = Pushers(n) /\ Settlers(n)' = Settlers(n) \ {t}
    BY <1>5, <1>7, <1>pick, HoldersWithout
  <2> QED
    BY <2>2, <2>3, <2>4, <2>5
<1>9. Settlers(n)' = Settlers(n)
  BY <1>2, <1>8
<1>10. InStack(n)' <=> InStack(n)
  BY <1>6 DEF InStack
<1>11. NodeHolds(n)'
  <2>1. CASE Stacked(n)
    <3>1. obj.dec[n] <= 0 /\ obj'.dec[n] <= 0 /\ obj'.at[n] = "live"
      BY <1>0, <1>6, <2>1 DEF Stacked
    <3> QED
      BY <1>4, <1>8, <1>9, <1>10, <2>1, <3>1 DEF Stacked, NodeHolds
  <2>2. CASE Unlinked(n)
    <3>1. obj.dec[n] <= 0 /\ obj'.dec[n] <= 0 /\ obj'.at[n] = "live"
      BY <1>0, <1>6, <2>2 DEF Unlinked
    <3>2. PICK u \in Threads : /\ Settlers(n) = {u}
                               /\ Cardinality(Holders(n)) = th[u].ref.count - 1 + obj.dec[n]
      BY <2>2 DEF Unlinked
    <3>3. th'[u] = th[u] /\ th[u].ref.count \in Nat
      BY <1>0, <1>2, <1>7, <3>2 DEF CountTyped, Callers, Refs
    <3>4. Cardinality(Holders(n)') = th'[u].ref.count - 1 + obj'.dec[n]
      BY <1>0, <1>6, <1>8, <3>2, <3>3
    <3>5. Unlinked(n)'
      BY <1>4, <1>8, <1>9, <1>10, <2>2, <3>1, <3>2, <3>4 DEF Unlinked
    <3> QED
      BY <3>5 DEF NodeHolds
  <2>3. CASE Settled(n)
    <3>1. /\ obj.dec[n] >= 1 /\ Cardinality(Holders(n)) = obj.dec[n] /\ Settlers(n) = {} /\ ~InStack(n)
      BY <2>3 DEF Settled
    <3>2. Cardinality(Holders(n)') = obj'.dec[n]
      BY <1>0, <1>6, <1>8, <3>1
    <3>3. CASE obj.dec[n] = 1
      <4>1. obj'.at[n] = "freed" /\ Holders(n)' = {}
        BY <1>6, <1>8, <3>1, <3>3
      <4> QED
        BY <1>4, <1>8, <1>10, <3>1, <4>1 DEF Absent, NodeHolds
    <3>4. CASE obj.dec[n] # 1
      <4>1. obj'.at[n] = "live" /\ obj'.dec[n] >= 1
        BY <1>0, <1>6, <3>1, <3>4
      <4> QED
        BY <1>4, <1>8, <1>9, <1>10, <3>1, <3>2, <4>1 DEF Settled, NodeHolds
    <3> QED
      BY <3>3, <3>4
  <2> QED
    BY <1>3, <2>1, <2>2, <2>3
<1>12. CountTyped'
  BY <1>6, <1>7 DEF CountTyped
<1> QED
  BY <1>5, <1>6, <1>7, <1>11, <1>12, <1>pick, CountOutPreserves

LEMMA NextCountInv ==
    ASSUME IsFiniteSet(Threads), Null \notin Nodes, CountInv, [Next]_vars
    PROVE  CountInv'
<1>0. CountTyped
  BY DEF CountInv
<1>1. ASSUME NEW t \in Threads, PushCas(t) PROVE CountInv'
  <2> DEFINE n == th[t].ref.node
  <2>1. th[t].pc = "push"
    BY <1>1 DEF PushCas, At
  <2>2. CASE obj.next[n] = obj.head /\ obj' = [obj EXCEPT !.head = th[t].ref, !.abs = <<n>> \o @]
             /\ th' = [th EXCEPT ![t] = Idle]
    BY <2>1, <2>2, PushPreserves
  <2>3. CASE obj.next[n] # obj.head /\ obj' = [obj EXCEPT !.next[n] = obj.head] /\ UNCHANGED th
    BY <2>1, <2>3, PushRetryPreserves
  <2> QED
    BY <1>1, <2>2, <2>3 DEF PushCas
<1>2. ASSUME NEW t \in Threads, LoadHead(t) PROVE CountInv'
  <2>1. th[t].pc = "idle" /\ obj \in Stacks /\ obj.head \in Refs
    BY <1>0, <1>2 DEF LoadHead, At, CountTyped, Stacks
  <2>2. /\ obj' \in Stacks /\ obj'.head = obj.head /\ obj'.next = obj.next /\ obj'.dec = obj.dec
        /\ obj'.at = obj.at /\ obj'.abs = obj.abs
    <3>1. obj' = [obj EXCEPT !.pops = obj.pops + 1] /\ obj.pops + 1 \in Nat
      BY <1>2, <2>1 DEF LoadHead, Stacks
    <3> QED
      BY <2>1, <3>1 DEF Stacks
  <2>3. /\ th' \in [Threads -> Callers] /\ Free(th[t]) /\ Free(th'[t])
        /\ \A u \in Threads : u # t => th'[u] = th[u]
    BY <1>0, <1>2, <2>1 DEF LoadHead, CountTyped, Idle, Callers, Refs, Empty, Ref, Free, Holding
  <2> QED
    BY <2>2, <2>3, LookPreserves DEF CountTyped
<1>3. ASSUME NEW t \in Threads, CountCas(t) PROVE CountInv'
  <2> DEFINE mine == Ref(obj.head.count + 1, obj.head.node)
  <2>1. th[t].pc = "count" /\ mine.node = obj.head.node /\ obj \in Stacks /\ obj.head \in Refs
    BY <1>0, <1>3 DEF CountCas, At, CountTyped, Stacks, Ref
  <2>2. CASE /\ obj' = [obj EXCEPT !.head = mine]
             /\ th' = [th EXCEPT ![t] = IF mine.node = Null THEN Idle ELSE [@ EXCEPT !.pc = "next", !.ref = mine]]
    <3>1. CASE obj.head.node = Null
      <4>1. th' = [th EXCEPT ![t] = Idle]
        BY <2>1, <2>2, <3>1
      <4> QED
        BY <2>1, <2>2, <3>1, <4>1, NullCountedPreserves
    <3>2. CASE obj.head.node # Null
      <4>1. th' = [th EXCEPT ![t] = [@ EXCEPT !.pc = "next", !.ref = mine]]
        BY <2>1, <2>2, <3>2
      <4> QED
        BY <2>1, <2>2, <3>2, <4>1, CountInPreserves
    <3> QED
      BY <3>1, <3>2
  <2>3. CASE th' = [th EXCEPT ![t].ref = obj.head] /\ UNCHANGED obj
    <3>1. /\ th' \in [Threads -> Callers] /\ Free(th[t]) /\ Free(th'[t])
          /\ \A u \in Threads : u # t => th'[u] = th[u]
      BY <1>0, <2>1, <2>3 DEF CountTyped, Callers, Free, Holding
    <3> QED
      BY <1>0, <2>3, <3>1, LookPreserves DEF CountTyped
  <2> QED
    BY <1>3, <2>2, <2>3 DEF CountCas
<1>4. ASSUME NEW t \in Threads, ReadNext(t) PROVE CountInv'
  <2>1. th[t].pc = "next" /\ th[t].ref.node \in Nodes
    BY <1>4 DEF ReadNext, At, CountInv, ThreadHolds, Holding
  <2>2. obj.next[th[t].ref.node] \in Refs
    BY <1>0, <2>1 DEF CountTyped, Stacks
  <2>3. /\ th' \in [Threads -> Callers] /\ th'[t].pc = "cas" /\ th'[t].ref = th[t].ref
        /\ th'[t].next = obj.next[th[t].ref.node]
        /\ \A u \in Threads : u # t => th'[u] = th[u]
    BY <1>0, <1>4, <2>2 DEF ReadNext, CountTyped, Callers, Holding
  <2> QED
    BY <1>0, <1>4, <2>1, <2>3, LookPreserves DEF ReadNext, CountTyped, Holding
<1>5. ASSUME NEW t \in Threads, PopCas(t) PROVE CountInv'
  <2>1. th[t].pc = "cas"
    BY <1>5 DEF PopCas, At
  <2>2. CASE /\ obj.head = th[t].ref /\ obj' = [obj EXCEPT !.head = th[t].next, !.abs = Tail(@)]
             /\ th' = [th EXCEPT ![t].pc = "settle"]
    BY <2>1, <2>2, PopPreserves
  <2>3. CASE th' = [th EXCEPT ![t].pc = "drop", ![t].next = obj.head] /\ UNCHANGED obj
    <3>1. obj.head \in Refs
      BY <1>0 DEF CountTyped, Stacks
    <3>2. /\ th' \in [Threads -> Callers] /\ th'[t].pc = "drop" /\ th'[t].ref = th[t].ref
          /\ \A u \in Threads : u # t => th'[u] = th[u]
      BY <1>0, <2>3, <3>1 DEF CountTyped, Callers, Holding
    <3> QED
      BY <1>0, <2>1, <2>3, <3>2, LookPreserves DEF CountTyped, Holding
  <2> QED
    BY <1>5, <2>2, <2>3 DEF PopCas
<1>6. CASE UNCHANGED vars
  <2>1. UNCHANGED <<obj, th>>
    BY <1>6 DEF vars
  <2>2. /\ \A n : Holders(n)' = Holders(n) /\ Pushers(n)' = Pushers(n) /\ Settlers(n)' = Settlers(n)
        /\ \A n : InStack(n)' <=> InStack(n)
    BY <2>1 DEF Holders, Pushers, Settlers, At, InStack
  <2>3. \A i : RefTo(i)' = RefTo(i)
    BY <2>1 DEF RefTo
  <2>4. CountTyped' /\ Distinct' /\ Chained' /\ StackCounts'
    BY <2>1, <2>2, <2>3 DEF CountInv, CountTyped, Distinct, Chained, StackCounts
  <2>5. \A u \in Threads : ThreadHolds(u)'
    BY <2>1 DEF CountInv, ThreadHolds, At
  <2>6. \A n \in Nodes : NodeHolds(n)'
    BY <2>1, <2>2, NodeKept DEF CountInv
  <2> QED
    BY <2>4, <2>5, <2>6 DEF CountInv
<1> QED
  BY <1>1, <1>2, <1>3, <1>4, <1>5, <1>6, EmplacePreserves, SettlePreserves, DropPreserves DEF Next

LEMMA CountInvImplies ==
    ASSUME CountInv
    PROVE  MemorySafe /\ NoLeak /\ LinkedAsStack
<1>1. MemorySafe
  <2>1. ASSUME NEW n \in Nodes PROVE obj.at[n] # "twice"
    BY DEF CountInv, NodeHolds, Absent, Pushed, Stacked, Unlinked, Settled
  <2>2. ASSUME NEW t \in Threads, At(t, Holding) PROVE obj.at[th[t].ref.node] = "live"
    <3>1. th[t].ref.node \in Nodes /\ t \in Holders(th[t].ref.node)
      BY <2>2 DEF CountInv, ThreadHolds, Holders, At
    <3> QED
      BY <3>1 DEF CountInv, NodeHolds, Absent, Pushed, Stacked, Unlinked, Settled
  <2> QED
    BY <2>1, <2>2 DEF MemorySafe, Holding
<1>2. NoLeak
  <2> SUFFICES ASSUME NEW n \in Nodes, obj.at[n] = "live", ~InStack(n)
               PROVE  \E t \in Threads : At(t, {"push", "next", "cas", "settle", "drop"}) /\ th[t].ref.node = n
    BY DEF NoLeak, InStack
  <2>1. Pushed(n) \/ Unlinked(n) \/ Settled(n)
    BY DEF CountInv, NodeHolds, Absent, Stacked
  <2>2. PICK t : t \in Pushers(n) \/ t \in Settlers(n) \/ t \in Holders(n)
    <3>1. CASE Pushed(n) \/ Unlinked(n)
      BY <3>1 DEF Pushed, Unlinked
    <3>2. CASE Settled(n)
      <4>1. Cardinality(Holders(n)) # 0
        BY <3>2 DEF Settled, CountInv, CountTyped, Stacks
      <4> QED
        BY <4>1, FS_EmptySet
    <3> QED
      BY <2>1, <3>1, <3>2
  <2> QED
    BY <2>2 DEF Pushers, Settlers, Holders, At, Holding
<1>3. LinkedAsStack
  <2> DEFINE top(i) == IF i \in DOMAIN obj.abs THEN obj.abs[i] ELSE Null
  <2>1. obj.abs \in Seq(Nodes) /\ DOMAIN obj.abs = 1 .. Len(obj.abs) /\ Len(obj.abs) \in Nat
    BY DEF CountInv, CountTyped, Stacks
  <2>2. ASSUME NEW i \in 1 .. Len(obj.abs) + 1 PROVE RefTo(i).node = top(i)
    <3>1. CASE i \in DOMAIN obj.abs
      BY <3>1 DEF CountInv, Chained
    <3>2. CASE i \notin DOMAIN obj.abs
      <4>1. i = Len(obj.abs) + 1
        BY <2>1, <3>2
      <4> QED
        BY <3>2, <4>1 DEF CountInv, Chained
    <3> QED
      BY <3>1, <3>2
  <2>3. obj.head.node = top(1)
    BY <2>1, <2>2 DEF RefTo
  <2>4. ASSUME NEW i \in DOMAIN obj.abs PROVE obj.next[obj.abs[i]].node = top(i + 1)
    <3>1. i + 1 \in 1 .. Len(obj.abs) + 1 /\ i + 1 # 1 /\ (i + 1) - 1 = i
      BY <2>1
    <3>2. RefTo(i + 1) = obj.next[obj.abs[i]]
      BY <3>1 DEF RefTo
    <3> QED
      BY <2>2, <3>1, <3>2
  <2> QED
    BY <2>3, <2>4 DEF LinkedAsStack
<1> QED
  BY <1>1, <1>2, <1>3

\* The counts of every node account for the threads that hold it, after every step of Emplace and Pop.
THEOREM CountInvariant ==
    ASSUME IsFiniteSet(Threads), Null \notin Nodes
    PROVE  Spec => []CountInv
<1>1. Init => CountInv
  BY InitCountInv
<1>2. CountInv /\ [Next]_vars => CountInv'
  BY NextCountInv
<1> QED
  BY <1>1, <1>2, PTL DEF Spec

\* No thread uses a node that was freed, and none is freed twice.
THEOREM CountedMemorySafe ==
    ASSUME IsFiniteSet(Threads), Null \notin Nodes
    PROVE  Spec => []MemorySafe
<1>1. CountInv => MemorySafe
  BY CountInvImplies
<1> QED
  BY <1>1, CountInvariant, PTL

\* A node that was popped and is held by nobody has been freed.
THEOREM CountedNoLeak ==
    ASSUME IsFiniteSet(Threads), Null \notin Nodes
    PROVE  Spec => []NoLeak
<1>1. CountInv => NoLeak
  BY CountInvImplies
<1> QED
  BY <1>1, CountInvariant, PTL

\* Each swap that succeeded was a push or a pop of a stack.
THEOREM CountedIsStack ==
    ASSUME IsFiniteSet(Threads), Null \notin Nodes
    PROVE  Spec => []LinkedAsStack
<1>1. CountInv => LinkedAsStack
  BY CountInvImplies
<1> QED
  BY <1>1, CountInvariant, PTL
=============================================================================
