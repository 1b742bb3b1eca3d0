--------------------------- MODULE LockFreeStack ---------------------------
(***************************************************************************)
(* LockFreeStack (lock_free_stack.h): a popped node may still be read by   *)
(* another Pop, so it is freed only by a thread that is alone in Pop, or   *)
(* put on the list of pending nodes.  That list is linked through `next`   *)
(* in the code and a sequence here; a swap on it compares its head.        *)
(***************************************************************************)
EXTENDS LinkedStack, Integers, SequenceTheorems, FiniteSetTheorems, TLAPS

\* obj has moreover the count of threads in Pop, and how many pops found the stack empty (history).
Init ==
    /\ obj = [head |-> Null, next |-> Unlinked, at |-> AllNew, abs |-> <<>>, pops |-> 0,
              inPop |-> 0, pending |-> <<>>, empties |-> 0]
    /\ th = [t \in Threads |-> Idle]

(***************************************************************************)
(* Pop: an empty stack returns without leaving the count of threads.       *)
(***************************************************************************)
EnterPop(t) ==
    /\ At(t, {"idle"})
    /\ obj.pops < MaxPops
    /\ obj' = [obj EXCEPT !.inPop = @ + 1, !.pops = @ + 1]
    /\ Go(t, "load")

Reload(t) ==
    IF obj.head = Null
    THEN obj' = [obj EXCEPT !.empties = @ + 1] /\ Return(t)
    ELSE th' = [th EXCEPT ![t] = [Idle EXCEPT !.pc = "next", !.node = obj.head]] /\ UNCHANGED obj

LoadHead(t) == At(t, {"load"}) /\ Reload(t)

ReadNext(t) ==
    /\ At(t, {"next"})
    /\ th' = [th EXCEPT ![t].pc = "cas", ![t].next = obj.next[th[t].node]]
    /\ UNCHANGED obj

PopCas(t) ==
    /\ At(t, {"cas"})
    /\ \/ /\ obj.head = th[t].node
          /\ obj' = [obj EXCEPT !.head = th[t].next, !.abs = Tail(@)]
          /\ Go(t, "alone")
       \/ obj.head # th[t].node /\ Reload(t)

(***************************************************************************)
(* TryReclaim.                                                             *)
(***************************************************************************)
Alone(t) ==
    /\ At(t, {"alone"})
    /\ Go(t, IF obj.inPop = 1 THEN "take" ELSE "chain")
    /\ UNCHANGED obj

TakePending(t) ==
    /\ At(t, {"take"})
    /\ obj' = [obj EXCEPT !.pending = <<>>]
    /\ th' = [th EXCEPT ![t].pc = "leave", ![t].list = obj.pending]

\* Alone still: the list and the node are freed; else the list is put back.
LeaveAlone(t) ==
    /\ At(t, {"leave"})
    /\ LET list == th[t].list
       IN  \/ /\ obj.inPop = 1 \/ list = <<>>
              /\ obj' = [obj EXCEPT !.inPop = @ - 1, !.at = Freed(Elems(list) \union {th[t].node})]
              /\ Return(t)
           \/ /\ obj.inPop # 1 /\ list # <<>>
              /\ obj' = [obj EXCEPT !.inPop = @ - 1]
              /\ Go(t, "back")

\* ChainPendingNodes: the last of the nodes is linked to the head of the
\* pending list, and the head is swapped for the first if it has not moved.
Chained(t) == IF At(t, {"back", "backCas"}) THEN th[t].list ELSE <<th[t].node>>

Link(t) ==
    /\ At(t, {"chain", "back"})
    /\ th' = [th EXCEPT ![t].next = Top(obj.pending), ![t].pc = IF @ = "chain" THEN "chainCas" ELSE "backCas"]
    /\ obj' = [obj EXCEPT !.next[Chained(t)[Len(Chained(t))]] = Top(obj.pending)]

ChainCas(t) ==
    /\ At(t, {"chainCas", "backCas"})
    /\ \/ /\ Top(obj.pending) = th[t].next
          /\ obj' = [obj EXCEPT !.pending = Chained(t) \o @,
                                !.at = IF At(t, {"backCas"}) THEN Freed({th[t].node}) ELSE @]
          /\ th' = [th EXCEPT ![t] = IF At(t, {"chainCas"}) THEN [Idle EXCEPT !.pc = "out"] ELSE Idle]
       \/ /\ Top(obj.pending) # th[t].next
          /\ Go(t, IF At(t, {"chainCas"}) THEN "chain" ELSE "back")
          /\ UNCHANGED obj

LeaveChained(t) ==
    /\ At(t, {"out"})
    /\ obj' = [obj EXCEPT !.inPop = @ - 1]
    /\ Return(t)

Next ==
    \E t \in Threads :
        \/ Emplace(t) \/ PushCas(t) \/ EnterPop(t) \/ LoadHead(t) \/ ReadNext(t) \/ PopCas(t)
        \/ Alone(t) \/ TakePending(t) \/ LeaveAlone(t) \/ Link(t) \/ ChainCas(t) \/ LeaveChained(t)

Spec == Init /\ [][Next]_vars

(***************************************************************************)
(* Properties.                                                             *)
(***************************************************************************)
\* A node is not freed while a Pop that has read it from the head may still
\* read it or swap it, nor freed twice.
MemorySafe == SafeUntil({"next", "cas", "alone", "chain"})

\* A popped node is on the pending list, in the hands of the one thread that
\* reclaims it, or freed.
Owns(t) == IF At(t, {"idle", "load", "next", "cas", "out"}) THEN {} ELSE {th[t].node} \union Elems(th[t].list)
NoneMislaid == InOnePlace(obj.pending, Owns)

\* The count of threads in Pop counts also every Pop that found the stack
\* empty: after the first of them no thread is ever seen alone again, and all
\* that is popped stays on the pending list.
EmptyPopsStayCounted ==
    obj.inPop = Cardinality({t \in Threads : ~At(t, {"idle", "push", "back", "backCas"})}) + obj.empties
(***************************************************************************)
(* Proofs, for any finite set of threads and any nodes.                    *)
(***************************************************************************)
OrNull == Nodes \cup {Null}
Outside == {"idle", "push", "back", "backCas"}
Places == Outside \cup {"load", "next", "cas", "alone", "take", "leave", "chain", "chainCas", "out"}

Stacks == [head : OrNull, next : [Nodes -> OrNull], at : [Nodes -> {"new", "live", "freed", "twice"}],
           abs : Seq(Nodes), pops : Nat, inPop : Int, pending : Seq(Nodes), empties : Nat]
Callers == [pc : Places, node : OrNull, next : OrNull, list : Seq(Nodes), left : SUBSET Threads, lone : BOOLEAN]

LfTyped == obj \in Stacks /\ th \in [Threads -> Callers]

InStack(n) == n \in Elems(obj.abs)
InList(n) == n \in Elems(obj.pending)
Distinct(s) == \A i, j \in DOMAIN s : s[i] = s[j] => i = j

\* The i-th node of the stack, and the end.
Nth(i) == IF i \in DOMAIN obj.abs THEN obj.abs[i] ELSE Null
Linked ==
    /\ Distinct(obj.abs)
    /\ obj.head = Nth(1)
    /\ \A i \in DOMAIN obj.abs : obj.next[obj.abs[i]] = Nth(i + 1)

\* A node that is live is in the stack, on the pending list, or in the hands of one thread;
\* the others are nowhere.
NodeHolds(n) ==
    \/ /\ obj.at[n] \in {"new", "freed"}
       /\ ~InStack(n) /\ ~InList(n) /\ \A t \in Threads : n \notin Owns(t)
    \/ /\ obj.at[n] = "live" /\ InStack(n)
       /\ ~InList(n) /\ \A t \in Threads : n \notin Owns(t)
    \/ /\ obj.at[n] = "live" /\ ~InStack(n) /\ InList(n)
       /\ \A t \in Threads : n \notin Owns(t)
    \/ /\ obj.at[n] = "live" /\ ~InStack(n) /\ ~InList(n)
       /\ \E t \in Threads : n \in Owns(t) /\ \A u \in Threads : u # t => n \notin Owns(u)

\* What a thread knows where it is.
ThreadHolds(t) ==
    /\ ~At(t, {"idle", "load", "out"}) => th[t].node \in Nodes
    /\ At(t, {"leave", "back", "backCas"}) \/ th[t].list = <<>>
    /\ At(t, {"back", "backCas"}) => th[t].list # <<>>
    /\ Distinct(th[t].list)
    /\ th[t].node \notin Elems(th[t].list)
    /\ At(t, {"cas"}) /\ InStack(th[t].node) => th[t].next = obj.next[th[t].node]

\* A node that a Pop has read from the head is kept for it: nobody has it in hand to push it,
\* and who has seen itself alone after popping it (Retires) popped it before this Pop began.
Guards(t, n) == At(t, {"next", "cas"}) /\ th[t].node = n
Pushes(t, n) == At(t, {"push"}) /\ th[t].node = n
Retires(t, n) == At(t, {"take", "leave", "back", "backCas"}) /\ th[t].node = n
NodeIsGuarded(n) ==
    \A t \in Threads : Guards(t, n) =>
        obj.at[n] = "live" /\ \A u \in Threads : ~Pushes(u, n) /\ ~Retires(u, n)

LfInv ==
    /\ LfTyped /\ Linked /\ Distinct(obj.pending) /\ EmptyPopsStayCounted
    /\ \A n \in Nodes : NodeHolds(n) /\ NodeIsGuarded(n)
    /\ \A t \in Threads : ThreadHolds(t)

\* ------------------------------------------------------------ sequences
LEMMA PushSeq ==
    ASSUME NEW S, NEW s \in Seq(S), NEW n \in S, NEW q, q = <<n>> \o s
    PROVE  /\ q \in Seq(S) /\ Len(q) = Len(s) + 1 /\ DOMAIN q = 1 .. Len(s) + 1 /\ q[1] = n
           /\ \A i \in 2 .. Len(s) + 1 : q[i] = s[i - 1]
OBVIOUS

LEMMA PopSeq ==
    ASSUME NEW S, NEW s \in Seq(S), s # <<>>
    PROVE  /\ Tail(s) \in Seq(S) /\ Head(s) = s[1] /\ s[1] \in S /\ Len(s) \in Nat \ {0}
           /\ DOMAIN s = 1 .. Len(s) /\ Len(Tail(s)) = Len(s) - 1 /\ DOMAIN Tail(s) = 1 .. Len(s) - 1
           /\ \A i \in 1 .. Len(s) - 1 : Tail(s)[i] = s[i + 1]
OBVIOUS

\* Taking the first keeps the others.
LEMMA PopDistinct ==
    ASSUME NEW S, NEW s \in Seq(S), s # <<>>, Distinct(s)
    PROVE  /\ Distinct(Tail(s)) /\ s[1] \in Elems(s)
           /\ \A m : m \in Elems(Tail(s)) <=> m \in Elems(s) /\ m # s[1]
<1>1. /\ Len(s) \in Nat \ {0} /\ DOMAIN s = 1 .. Len(s) /\ DOMAIN Tail(s) = 1 .. Len(s) - 1
      /\ \A i \in 1 .. Len(s) - 1 : i + 1 \in DOMAIN s /\ Tail(s)[i] = s[i + 1]
  BY PopSeq
<1>2. ASSUME NEW i \in DOMAIN Tail(s), NEW j \in DOMAIN Tail(s), Tail(s)[i] = Tail(s)[j] PROVE i = j
  <2>1. i + 1 \in DOMAIN s /\ j + 1 \in DOMAIN s /\ s[i + 1] = s[j + 1]
    BY <1>1, <1>2
  <2>2. i + 1 = j + 1
    BY <2>1 DEF Distinct
  <2> QED
    BY <1>1, <2>2
<1>3. s[1] \in Elems(s)
  BY <1>1 DEF Elems
<1>4. ASSUME NEW m, m \in Elems(Tail(s)) PROVE m \in Elems(s) /\ m # s[1]
  <2>1. PICK i \in DOMAIN Tail(s) : m = Tail(s)[i]
    BY <1>4 DEF Elems
  <2>2. i + 1 \in DOMAIN s /\ i + 1 # 1 /\ m = s[i + 1] /\ 1 \in DOMAIN s
    BY <1>1, <2>1
  <2> QED
    BY <2>2 DEF Elems, Distinct
<1>5. ASSUME NEW m, m \in Elems(s), m # s[1] PROVE m \in Elems(Tail(s))
  <2>1. PICK i \in DOMAIN s : m = s[i]
    BY <1>5 DEF Elems
  <2>2. i # 1 /\ i - 1 \in 1 .. Len(s) - 1 /\ (i - 1) + 1 = i
    BY <1>1, <1>5, <2>1
  <2>3. Tail(s)[i - 1] = m /\ i - 1 \in DOMAIN Tail(s)
    BY <1>1, <2>1, <2>2
  <2> QED
    BY <2>3 DEF Elems
<1> QED
  BY <1>2, <1>3, <1>4, <1>5 DEF Distinct

LEMMA JoinSeq ==
    ASSUME NEW S, NEW s \in Seq(S), NEW r \in Seq(S), NEW q, q = r \o s
    PROVE  /\ q \in Seq(S) /\ Len(r) \in Nat /\ Len(s) \in Nat /\ DOMAIN r = 1 .. Len(r) /\ DOMAIN s = 1 .. Len(s)
           /\ DOMAIN q = 1 .. Len(r) + Len(s)
           /\ \A i \in 1 .. Len(r) : q[i] = r[i]
           /\ \A i \in Len(r) + 1 .. Len(r) + Len(s) : q[i] = s[i - Len(r)]
OBVIOUS

\* Putting before a sequence one with other elements keeps it without repetitions.
LEMMA JoinElems ==
    ASSUME NEW S, NEW s \in Seq(S), NEW r \in Seq(S), NEW q, q = r \o s
    PROVE  Elems(q) = Elems(r) \cup Elems(s)
<1>1. /\ Len(r) \in Nat /\ Len(s) \in Nat /\ DOMAIN r = 1 .. Len(r) /\ DOMAIN s = 1 .. Len(s)
      /\ DOMAIN q = 1 .. Len(r) + Len(s)
      /\ \A i \in 1 .. Len(r) : q[i] = r[i]
      /\ \A i \in Len(r) + 1 .. Len(r) + Len(s) : q[i] = s[i - Len(r)]
  BY JoinSeq
<1>2. ASSUME NEW i \in DOMAIN q PROVE q[i] \in Elems(r) \cup Elems(s)
  <2>1. CASE i \in 1 .. Len(r)
    BY <1>1, <2>1 DEF Elems
  <2>2. CASE i \in Len(r) + 1 .. Len(r) + Len(s)
    <3>1. i - Len(r) \in DOMAIN s /\ q[i] = s[i - Len(r)]
      BY <1>1, <2>2
    <3> QED
      BY <3>1 DEF Elems
  <2> QED
    BY <1>1, <2>1, <2>2
<1>3. ASSUME NEW i \in DOMAIN r PROVE r[i] \in Elems(q)
  <2>1. i \in DOMAIN q /\ q[i] = r[i]
    BY <1>1
  <2> QED
    BY <2>1 DEF Elems
<1>4. ASSUME NEW i \in DOMAIN s PROVE s[i] \in Elems(q)
  <2>1. /\ Len(r) + i \in DOMAIN q /\ Len(r) + i \in Len(r) + 1 .. Len(r) + Len(s)
        /\ (Len(r) + i) - Len(r) = i
    BY <1>1
  <2>2. q[Len(r) + i] = s[i]
    BY <1>1, <2>1
  <2> QED
    BY <2>1, <2>2 DEF Elems
<1>5. Elems(q) \subseteq Elems(r) \cup Elems(s)
  BY <1>2 DEF Elems
<1>6. Elems(r) \subseteq Elems(q)
  BY <1>3 DEF Elems
<1>7. Elems(s) \subseteq Elems(q)
  BY <1>4 DEF Elems
<1> QED
  BY <1>5, <1>6, <1>7

LEMMA JoinDistinct ==
    ASSUME NEW S, NEW s \in Seq(S), NEW r \in Seq(S), NEW q, q = r \o s,
           Distinct(r), Distinct(s), Elems(r) \cap Elems(s) = {}
    PROVE  Distinct(q)
<1>1. /\ Len(r) \in Nat /\ Len(s) \in Nat /\ DOMAIN r = 1 .. Len(r) /\ DOMAIN s = 1 .. Len(s)
      /\ DOMAIN q = 1 .. Len(r) + Len(s)
      /\ \A i \in 1 .. Len(r) : q[i] = r[i]
      /\ \A i \in Len(r) + 1 .. Len(r) + Len(s) : q[i] = s[i - Len(r)]
  BY JoinSeq
<1>2. SUFFICES ASSUME NEW i \in DOMAIN q, NEW j \in DOMAIN q, q[i] = q[j] PROVE i = j
  BY DEF Distinct
<1>3. \A k \in DOMAIN q : k \in DOMAIN r \/ k \in Len(r) + 1 .. Len(r) + Len(s)
  BY <1>1
<1>4. ASSUME NEW k \in DOMAIN r PROVE q[k] = r[k] /\ q[k] \in Elems(r)
  BY <1>1 DEF Elems
<1>5. ASSUME NEW k \in Len(r) + 1 .. Len(r) + Len(s)
      PROVE  k - Len(r) \in DOMAIN s /\ q[k] = s[k - Len(r)] /\ q[k] \in Elems(s)
  <2>1. k - Len(r) \in DOMAIN s /\ q[k] = s[k - Len(r)]
    BY <1>1
  <2> QED
    BY <2>1 DEF Elems
<1>6. CASE i \in DOMAIN r /\ j \in DOMAIN r
  BY <1>2, <1>4, <1>6 DEF Distinct
<1>7. CASE i \in Len(r) + 1 .. Len(r) + Len(s) /\ j \in Len(r) + 1 .. Len(r) + Len(s)
  <2>1. i - Len(r) = j - Len(r)
    BY <1>2, <1>5, <1>7 DEF Distinct
  <2> QED
    BY <1>1, <1>7, <2>1
<1>8. CASE i \in DOMAIN r /\ j \in Len(r) + 1 .. Len(r) + Len(s)
  BY <1>2, <1>4, <1>5, <1>8
<1>9. CASE j \in DOMAIN r /\ i \in Len(r) + 1 .. Len(r) + Len(s)
  BY <1>2, <1>4, <1>5, <1>9
<1> QED
  BY <1>3, <1>6, <1>7, <1>8, <1>9

LEMMA OneDistinct ==
    ASSUME NEW S, NEW n \in S
    PROVE  <<n>> \in Seq(S) /\ Distinct(<<n>>) /\ Elems(<<n>>) = {n} /\ <<n>> # <<>>
BY DEF Distinct, Elems

LEMMA PushDistinct ==
    ASSUME NEW S, NEW s \in Seq(S), NEW n \in S, n \notin Elems(s), Distinct(s), NEW q, q = <<n>> \o s
    PROVE  Distinct(q)
<1>1. PICK r : r = <<n>>
  OBVIOUS
<1>2. r \in Seq(S) /\ Distinct(r) /\ Elems(r) = {n} /\ q = r \o s
  BY <1>1, OneDistinct
<1>3. Elems(r) \cap Elems(s) = {}
  BY <1>2
<1> QED
  BY <1>2, <1>3, JoinDistinct

\* ------------------------------------------------------------ the count
Inside(t) == ~At(t, Outside)

LEMMA CountStays ==
    ASSUME EmptyPopsStayCounted, \A u \in Threads : Inside(u)' <=> Inside(u),
           obj'.inPop = obj.inPop, obj'.empties = obj.empties
    PROVE  EmptyPopsStayCounted'
<1>1. {t \in Threads : Inside(t)'} = {t \in Threads : Inside(t)}
  OBVIOUS
<1> QED
  BY <1>1 DEF EmptyPopsStayCounted, Inside, Outside, At

LEMMA CountEnters ==
    ASSUME EmptyPopsStayCounted, LfTyped, IsFiniteSet(Threads), NEW t \in Threads,
           \A u \in Threads : u # t => (Inside(u)' <=> Inside(u)), ~Inside(t), Inside(t)',
           obj'.inPop = obj.inPop + 1, obj'.empties = obj.empties
    PROVE  EmptyPopsStayCounted'
<1> DEFINE S == {u \in Threads : Inside(u)}
           T == {u \in Threads : Inside(u)'}
<1>1. T = S \cup {t} /\ t \notin S /\ IsFiniteSet(S)
  BY FS_Subset
<1>2. Cardinality(T) = Cardinality(S) + 1 /\ Cardinality(S) \in Nat
  BY <1>1, FS_AddElement, FS_CardinalityType
<1>3. obj.inPop = Cardinality(S) + obj.empties /\ obj.empties \in Nat
  BY DEF EmptyPopsStayCounted, Inside, Outside, At, LfTyped, Stacks
<1>4. obj'.inPop = Cardinality(T) + obj'.empties
  BY <1>2, <1>3
<1> QED
  BY <1>4 DEF EmptyPopsStayCounted, Inside, Outside, At

\* A Pop that leaves is counted no more, unless it found the stack empty.
LEMMA CountLeaves ==
    ASSUME EmptyPopsStayCounted, LfTyped, IsFiniteSet(Threads), NEW t \in Threads,
           \A u \in Threads : u # t => (Inside(u)' <=> Inside(u)), Inside(t), ~Inside(t)',
           \/ obj'.inPop = obj.inPop - 1 /\ obj'.empties = obj.empties
           \/ obj'.inPop = obj.inPop /\ obj'.empties = obj.empties + 1
    PROVE  EmptyPopsStayCounted'
<1> DEFINE S == {u \in Threads : Inside(u)}
           T == {u \in Threads : Inside(u)'}
<1>1. T = S \ {t} /\ t \in S /\ IsFiniteSet(S)
  BY FS_Subset
<1>2. Cardinality(T) = Cardinality(S) - 1 /\ Cardinality(S) \in Nat
  BY <1>1, FS_RemoveElement, FS_CardinalityType
<1>3. obj.inPop = Cardinality(S) + obj.empties /\ obj.empties \in Nat
  BY DEF EmptyPopsStayCounted, Inside, Outside, At, LfTyped, Stacks
<1>4. obj'.inPop = Cardinality(T) + obj'.empties
  BY <1>2, <1>3
<1> QED
  BY <1>4 DEF EmptyPopsStayCounted, Inside, Outside, At

\* Who counts one thread in Pop, and is there, is alone.
LEMMA AloneInside ==
    ASSUME EmptyPopsStayCounted, LfTyped, IsFiniteSet(Threads), NEW t \in Threads, Inside(t), obj.inPop = 1,
           NEW u \in Threads, u # t
    PROVE  ~Inside(u)
<1> DEFINE S == {v \in Threads : Inside(v)}
<1>1. obj.inPop = Cardinality(S) + obj.empties /\ obj.empties \in Nat
  BY DEF EmptyPopsStayCounted, Inside, Outside, At, LfTyped, Stacks
<1>2. SUFFICES ASSUME u \in S PROVE FALSE
  OBVIOUS
<1>3. t \in S /\ IsFiniteSet(S)
  BY FS_Subset
<1>4. Cardinality(S) \in Nat /\ Cardinality(S \ {t}) = Cardinality(S) - 1 /\ IsFiniteSet(S \ {t})
  BY <1>3, FS_RemoveElement, FS_CardinalityType
<1>5. Cardinality(S) <= 1
  BY <1>1, <1>4
<1>6. Cardinality(S \ {t}) \in Nat
  BY <1>4, FS_CardinalityType
<1>7. Cardinality(S \ {t}) = 0
  BY <1>4, <1>5, <1>6
<1>8. S \ {t} = {}
  BY <1>4, <1>7, FS_EmptySet
<1> QED
  BY <1>2, <1>8

\* ------------------------------------------------------------ what a step keeps
\* A thread that is as it was.
Same(t) ==
    /\ th'[t].pc = th[t].pc /\ th'[t].node = th[t].node /\ th'[t].next = th[t].next
    /\ th'[t].list = th[t].list

LEMMA OwnsKept ==
    ASSUME NEW t \in Threads, Same(t)
    PROVE  /\ Owns(t)' = Owns(t) /\ Inside(t)' = Inside(t)
           /\ \A n : Guards(t, n)' = Guards(t, n) /\ Pushes(t, n)' = Pushes(t, n) /\ Retires(t, n)' = Retires(t, n)
BY DEF Same, Owns, At, Elems, Guards, Pushes, Retires, Inside

LEMMA ThreadKept ==
    ASSUME NEW t \in Threads, ThreadHolds(t), Same(t),
           At(t, {"cas"}) /\ InStack(th[t].node)' => InStack(th[t].node) /\ obj'.next[th[t].node] = obj.next[th[t].node]
    PROVE  ThreadHolds(t)'
<1>1. At(t, {"cas"})' /\ InStack(th[t].node)' => th'[t].next = obj'.next[th'[t].node]
  <2>1. th'[t].node = th[t].node
    BY DEF Same
  <2> QED
    BY <2>1 DEF ThreadHolds, Same, At, InStack
<1>2. th'[t].node \notin Elems(th'[t].list)
  BY DEF ThreadHolds, Same
<1> QED
  BY <1>1, <1>2 DEF ThreadHolds, Same, At

\* A node that is where it was.
LEMMA NodeKept ==
    ASSUME NEW n \in Nodes, NodeHolds(n), obj'.at[n] = obj.at[n],
           InStack(n)' <=> InStack(n), InList(n)' <=> InList(n),
           \A t \in Threads : n \in Owns(t)' <=> n \in Owns(t)
    PROVE  NodeHolds(n)'
BY DEF NodeHolds

\* A node stays guarded if nobody new guards, pushes or retires it.
LEMMA GuardKept ==
    ASSUME NEW n \in Nodes, NodeIsGuarded(n), obj.at[n] = "live" => obj'.at[n] = "live",
           \A u \in Threads :
              /\ Guards(u, n)' => Guards(u, n)
              /\ Pushes(u, n)' => Pushes(u, n)
              /\ Retires(u, n)' => Retires(u, n)
    PROVE  NodeIsGuarded(n)'
BY DEF NodeIsGuarded

LEMMA LinksKept ==
    ASSUME LfTyped, Linked, obj'.abs = obj.abs, obj'.head = obj.head,
           \A n \in Nodes : InStack(n) => obj'.next[n] = obj.next[n]
    PROVE  Linked'
<1>1. \A i \in DOMAIN obj.abs : obj.abs[i] \in Nodes /\ InStack(obj.abs[i])
  BY DEF InStack, Elems, LfTyped, Stacks
<1>2. \A i : Nth(i)' = Nth(i)
  BY DEF Nth
<1> QED
  BY <1>1, <1>2 DEF Linked, Distinct

\* What a thread has in hand is nowhere else.
LEMMA OwnedIsFree ==
    ASSUME NEW n \in Nodes, NodeHolds(n), NEW t \in Threads, n \in Owns(t)
    PROVE  /\ obj.at[n] = "live" /\ ~InStack(n) /\ ~InList(n)
           /\ \A u \in Threads : u # t => n \notin Owns(u)
BY DEF NodeHolds

LEMMA HandsAreOwned ==
    ASSUME NEW t \in Threads, NEW n
    PROVE  (Pushes(t, n) => n \in Owns(t)) /\ (Retires(t, n) => n \in Owns(t))
BY DEF Pushes, Retires, Owns, At

LEMMA IdleIsCaller == Idle \in Callers
BY DEF Idle, Callers, Places, Outside, OrNull

LEMMA RecordWritten ==
    ASSUME LfTyped, NEW t \in Threads, NEW r \in Callers, th' = [th EXCEPT ![t] = r]
    PROVE  th' \in [Threads -> Callers] /\ th'[t] = r /\ \A u \in Threads : u # t => th'[u] = th[u]
BY DEF LfTyped

LEMMA PcWritten ==
    ASSUME LfTyped, NEW t \in Threads, NEW p \in Places, th' = [th EXCEPT ![t].pc = p]
    PROVE  /\ th' \in [Threads -> Callers] /\ \A u \in Threads : u # t => th'[u] = th[u]
           /\ th'[t].pc = p /\ th'[t].node = th[t].node /\ th'[t].next = th[t].next
           /\ th'[t].list = th[t].list
<1>1. th[t] \in Callers
  BY DEF LfTyped
<1>2. PICK r : r = [th[t] EXCEPT !.pc = p]
  OBVIOUS
<1>3. /\ r \in Callers /\ r.pc = p /\ r.node = th[t].node /\ r.next = th[t].next
      /\ r.list = th[t].list
  BY <1>1, <1>2 DEF Callers
<1>4. th' = [th EXCEPT ![t] = r]
  BY <1>2
<1> QED
  BY <1>3, <1>4, RecordWritten

\* A step of a thread that moves no node.
LEMMA QuietStep ==
    ASSUME LfInv, NEW t \in Threads, LfTyped', EmptyPopsStayCounted',
           obj'.head = obj.head, obj'.at = obj.at, obj'.abs = obj.abs, obj'.pending = obj.pending,
           \A n \in Nodes : InStack(n) => obj'.next[n] = obj.next[n],
           \A u \in Threads : u # t => th'[u] = th[u],
           Owns(t)' = Owns(t), ThreadHolds(t)',
           \A n \in Nodes :
              /\ Guards(t, n)' => Guards(t, n) \/ InStack(n)
              /\ Pushes(t, n)' => Pushes(t, n)
              /\ Retires(t, n)' => Retires(t, n) \/ \A u \in Threads : ~Guards(u, n)'
    PROVE  LfInv'
<1>1. \A u \in Threads : u # t => Same(u)
  BY DEF Same
<1>2. \A n : (InStack(n)' <=> InStack(n)) /\ (InList(n)' <=> InList(n))
  BY DEF InStack, InList
<1>3. ASSUME NEW n \in Nodes PROVE NodeHolds(n)'
  <2>1. \A u \in Threads : n \in Owns(u)' <=> n \in Owns(u)
    BY <1>1, OwnsKept
  <2> QED
    BY <1>2, <2>1, NodeKept DEF LfInv
<1>4. ASSUME NEW n \in Nodes PROVE NodeIsGuarded(n)'
  <2>1. SUFFICES ASSUME NEW g \in Threads, Guards(g, n)'
                 PROVE  obj'.at[n] = "live" /\ \A u \in Threads : ~Pushes(u, n)' /\ ~Retires(u, n)'
    BY DEF NodeIsGuarded
  <2>2. Guards(g, n) \/ InStack(n)
    BY <1>1, <2>1, OwnsKept
  <2>3. NodeHolds(n) /\ NodeIsGuarded(n)
    BY DEF LfInv
  <2>4. obj'.at[n] = "live"
    BY <2>2, <2>3 DEF NodeIsGuarded, NodeHolds
  <2>5. ASSUME NEW u \in Threads PROVE ~Pushes(u, n) /\ ~Retires(u, n)
    <3>1. CASE Guards(g, n)
      BY <2>3, <3>1 DEF NodeIsGuarded
    <3>2. CASE InStack(n)
      BY <2>3, <3>2, OwnedIsFree, HandsAreOwned
    <3> QED
      BY <2>2, <3>1, <3>2
  <2>6. ASSUME NEW u \in Threads PROVE ~Pushes(u, n)' /\ ~Retires(u, n)'
    BY <1>1, <2>1, <2>5, OwnsKept
  <2> QED
    BY <2>4, <2>6
<1>5. ASSUME NEW u \in Threads, u # t PROVE ThreadHolds(u)'
  <2>1. ThreadHolds(u) /\ Same(u)
    BY <1>1, <1>5 DEF LfInv
  <2>2. At(u, {"cas"}) => th[u].node \in Nodes
    BY <2>1 DEF ThreadHolds, At
  <2> QED
    BY <1>2, <2>1, <2>2, ThreadKept
<1>6. Linked' /\ Distinct(obj.pending)'
  BY LinksKept DEF LfInv, Distinct
<1> QED
  BY <1>3, <1>4, <1>5, <1>6 DEF LfInv

\* A thread puts some of what it has in hand on the pending list and frees the others.
LEMMA GiveUp ==
    ASSUME LfInv, NEW t \in Threads, LfTyped', EmptyPopsStayCounted',
           obj'.head = obj.head, obj'.next = obj.next, obj'.abs = obj.abs,
           \A u \in Threads : u # t => th'[u] = th[u],
           NEW K, NEW F, Owns(t) = K \cup F, K \cap F = {}, Owns(t)' = {},
           Distinct(obj'.pending), Elems(obj'.pending) = K \cup Elems(obj.pending),
           \A n \in Nodes : obj'.at[n] = IF n \in F THEN "freed" ELSE obj.at[n],
           \A n \in F : \A u \in Threads : ~Guards(u, n),
           th'[t].pc \in {"idle", "out"}, ThreadHolds(t)'
    PROVE  LfInv'
<1>1. \A u \in Threads : u # t => Same(u)
  BY DEF Same
<1>2. \A n : (InStack(n)' <=> InStack(n)) /\ (InList(n)' <=> n \in K \/ InList(n))
  BY DEF InStack, InList
<1>3. ASSUME NEW n \in Nodes PROVE NodeHolds(n)'
  <2>1. NodeHolds(n) /\ \A u \in Threads : u # t => (n \in Owns(u)' <=> n \in Owns(u))
    BY <1>1, OwnsKept DEF LfInv
  <2>2. CASE n \in Owns(t)
    <3>1. ~InStack(n) /\ ~InList(n) /\ obj.at[n] = "live" /\ \A u \in Threads : u # t => n \notin Owns(u)
      BY <2>1, <2>2, OwnedIsFree
    <3>2. ~InStack(n)' /\ \A u \in Threads : n \notin Owns(u)'
      BY <1>2, <2>1, <3>1
    <3>3. CASE n \in K
      BY <1>2, <3>1, <3>2, <3>3 DEF NodeHolds
    <3>4. CASE n \in F
      <4>1. ~InList(n)' /\ obj'.at[n] = "freed"
        BY <1>2, <3>1, <3>4
      <4> QED
        BY <3>2, <4>1 DEF NodeHolds
    <3> QED
      BY <2>2, <3>3, <3>4
  <2>3. CASE n \notin Owns(t)
    BY <1>2, <2>1, <2>3, NodeKept
  <2> QED
    BY <2>2, <2>3
<1>4. ASSUME NEW n \in Nodes PROVE NodeIsGuarded(n)'
  <2>1. \A u \in Threads : Guards(u, n)' => Guards(u, n)
    BY <1>1, OwnsKept DEF Guards, At
  <2>2. \A u \in Threads : (Pushes(u, n)' => Pushes(u, n)) /\ (Retires(u, n)' => Retires(u, n))
    BY <1>1, OwnsKept DEF Pushes, Retires, At
  <2>3. NodeIsGuarded(n)
    BY DEF LfInv
  <2>4. CASE n \in F
    BY <2>1, <2>4 DEF NodeIsGuarded
  <2>5. CASE n \notin F
    <3>1. obj'.at[n] = obj.at[n]
      BY <2>5
    <3> QED
      BY <2>1, <2>2, <2>3, <3>1, GuardKept
  <2> QED
    BY <2>4, <2>5
<1>5. ASSUME NEW u \in Threads, u # t PROVE ThreadHolds(u)'
  <2>1. ThreadHolds(u) /\ Same(u)
    BY <1>1, <1>5 DEF LfInv
  <2> QED
    BY <1>2, <2>1, ThreadKept
<1>6. Linked' /\ Distinct(obj.pending)'
  BY LinksKept DEF LfInv
<1> QED
  BY <1>3, <1>4, <1>5, <1>6 DEF LfInv

\* ------------------------------------------------------------ Pop up to the swap
LEMMA EnterPopPreserves ==
    ASSUME LfInv, IsFiniteSet(Threads), NEW t \in Threads, EnterPop(t)
    PROVE  LfInv'
<1>1. /\ th[t].pc = "idle" /\ th' = [th EXCEPT ![t].pc = "load"] /\ LfTyped /\ ThreadHolds(t)
      /\ obj' = [obj EXCEPT !.inPop = @ + 1, !.pops = @ + 1]
  BY DEF EnterPop, Go, At, LfInv
<1>2. /\ obj'.head = obj.head /\ obj'.next = obj.next /\ obj'.at = obj.at /\ obj'.abs = obj.abs
      /\ obj'.pending = obj.pending /\ obj'.inPop = obj.inPop + 1 /\ obj'.empties = obj.empties /\ obj' \in Stacks
  <2>1. PICK i, p : i = obj.inPop + 1 /\ p = obj.pops + 1
    OBVIOUS
  <2>2. i \in Int /\ p \in Nat /\ obj \in Stacks
    BY <1>1, <2>1 DEF LfTyped, Stacks
  <2>3. obj' = [obj EXCEPT !.inPop = i, !.pops = p]
    BY <1>1, <2>1
  <2> QED
    BY <2>1, <2>2, <2>3 DEF Stacks
<1>3. "load" \in Places
  BY DEF Places
<1>4. /\ th' \in [Threads -> Callers] /\ \A u \in Threads : u # t => th'[u] = th[u]
      /\ th'[t].pc = "load" /\ th'[t].list = th[t].list
  BY <1>1, <1>3, PcWritten
<1>5. LfTyped' /\ th[t].list = <<>>
  BY <1>1, <1>2, <1>4 DEF LfTyped, ThreadHolds, At
<1>6. Owns(t) = {} /\ Owns(t)' = {}
  BY <1>1, <1>4 DEF Owns, At
<1>7. ThreadHolds(t)'
  BY <1>4, <1>5 DEF ThreadHolds, At, Distinct, Elems
<1>8. \A n : ~Guards(t, n)' /\ ~Pushes(t, n)' /\ ~Retires(t, n)'
  BY <1>4 DEF Guards, Pushes, Retires, At
<1>9. ~Inside(t) /\ Inside(t)' /\ \A u \in Threads : u # t => (Inside(u)' <=> Inside(u))
  BY <1>1, <1>4 DEF Inside, At, Outside
<1>10. EmptyPopsStayCounted'
  BY <1>1, <1>2, <1>9, CountEnters DEF LfInv
<1> QED
  BY <1>2, <1>4, <1>5, <1>6, <1>7, <1>8, <1>10, QuietStep

LEMMA ReloadFacts ==
    ASSUME LfTyped, NEW t \in Threads, Reload(t)
    PROVE  /\ th' \in [Threads -> Callers] /\ \A u \in Threads : u # t => th'[u] = th[u]
           /\ th'[t].list = <<>>
           /\ obj'.head = obj.head /\ obj'.next = obj.next /\ obj'.at = obj.at /\ obj'.abs = obj.abs
           /\ obj'.pending = obj.pending /\ obj'.inPop = obj.inPop /\ obj' \in Stacks
           /\ \/ th'[t].pc = "idle" /\ obj'.empties = obj.empties + 1
              \/ th'[t].pc = "next" /\ th'[t].node = obj.head /\ obj.head \in Nodes /\ obj'.empties = obj.empties
<1>1. obj.head \in OrNull /\ obj \in Stacks
  BY DEF LfTyped, Stacks
<1>2. CASE obj.head = Null
  <2>1. th' = [th EXCEPT ![t] = Idle] /\ obj' = [obj EXCEPT !.empties = @ + 1]
    BY <1>2 DEF Reload, Return
  <2>2. /\ th' \in [Threads -> Callers] /\ \A u \in Threads : u # t => th'[u] = th[u]
        /\ th'[t].list = <<>> /\ th'[t].pc = "idle"
    BY <2>1, IdleIsCaller, RecordWritten DEF Idle
  <2>3. /\ obj'.head = obj.head /\ obj'.next = obj.next /\ obj'.at = obj.at /\ obj'.abs = obj.abs
        /\ obj'.pending = obj.pending /\ obj'.inPop = obj.inPop /\ obj' \in Stacks
        /\ obj'.empties = obj.empties + 1
    <3>1. PICK e : e = obj.empties + 1
      OBVIOUS
    <3>2. e \in Nat /\ obj' = [obj EXCEPT !.empties = e]
      BY <1>1, <2>1, <3>1 DEF Stacks
    <3> QED
      BY <1>1, <3>1, <3>2 DEF Stacks
  <2> QED
    BY <2>2, <2>3
<1>3. CASE obj.head # Null
  <2>1. th' = [th EXCEPT ![t] = [Idle EXCEPT !.pc = "next", !.node = obj.head]] /\ obj' = obj
    BY <1>3 DEF Reload
  <2>2. PICK r : r = [Idle EXCEPT !.pc = "next", !.node = obj.head]
    OBVIOUS
  <2>3. r \in Callers /\ r.pc = "next" /\ r.node = obj.head /\ r.list = Idle.list
    BY <1>1, <2>2, IdleIsCaller DEF Callers, Places
  <2>4. r.list = <<>>
    BY <2>3 DEF Idle
  <2>5. th' = [th EXCEPT ![t] = r]
    BY <2>1, <2>2
  <2> QED
    BY <1>1, <1>3, <2>1, <2>3, <2>4, <2>5, RecordWritten DEF OrNull
<1> QED
  BY <1>2, <1>3

\* A node read from the head is in the stack: it is in nobody's hands.
LEMMA ReloadPreserves ==
    ASSUME LfInv, Null \notin Nodes, IsFiniteSet(Threads), NEW t \in Threads, th[t].pc \in {"load", "cas"}, Reload(t)
    PROVE  LfInv'
<1>1. LfTyped /\ ThreadHolds(t) /\ EmptyPopsStayCounted
  BY DEF LfInv
<1>2. /\ th' \in [Threads -> Callers] /\ \A u \in Threads : u # t => th'[u] = th[u]
      /\ th'[t].list = <<>>
      /\ obj'.head = obj.head /\ obj'.next = obj.next /\ obj'.at = obj.at /\ obj'.abs = obj.abs
      /\ obj'.pending = obj.pending /\ obj'.inPop = obj.inPop /\ obj' \in Stacks
      /\ \/ th'[t].pc = "idle" /\ obj'.empties = obj.empties + 1
         \/ th'[t].pc = "next" /\ th'[t].node = obj.head /\ obj.head \in Nodes /\ obj'.empties = obj.empties
  BY <1>1, ReloadFacts
<1>3. LfTyped' /\ th[t].list = <<>>
  BY <1>1, <1>2 DEF LfTyped, ThreadHolds, At
<1>4. Owns(t) = {} /\ Owns(t)' = {}
  BY <1>2 DEF Owns, At
<1>5. ThreadHolds(t)'
  BY <1>2, <1>3 DEF ThreadHolds, At, Distinct, Elems
<1>6. \A n : ~Pushes(t, n)' /\ ~Retires(t, n)'
  BY <1>2 DEF Pushes, Retires, At
<1>7. ASSUME NEW n \in Nodes, Guards(t, n)' PROVE InStack(n)
  <2>1. obj.head = n
    BY <1>2, <1>7 DEF Guards, At
  <2>2. obj.head = Nth(1)
    BY DEF LfInv, Linked
  <2>3. CASE 1 \in DOMAIN obj.abs
    BY <2>1, <2>2, <2>3 DEF Nth, InStack, Elems
  <2>4. CASE 1 \notin DOMAIN obj.abs
    BY <2>1, <2>2, <2>4 DEF Nth
  <2> QED
    BY <2>3, <2>4
<1>8. Inside(t) /\ \A u \in Threads : u # t => (Inside(u)' <=> Inside(u))
  BY <1>2 DEF Inside, At, Outside
<1>9. EmptyPopsStayCounted'
  <2>1. CASE th'[t].pc = "idle" /\ obj'.empties = obj.empties + 1
    <3>1. ~Inside(t)'
      BY <2>1 DEF Inside, At, Outside
    <3> QED
      BY <1>1, <1>2, <1>8, <2>1, <3>1, CountLeaves
  <2>2. CASE th'[t].pc = "next" /\ obj'.empties = obj.empties
    <3>1. Inside(t)'
      BY <2>2 DEF Inside, At, Outside
    <3> QED
      BY <1>1, <1>2, <1>8, <2>2, <3>1, CountStays
  <2> QED
    BY <1>2, <2>1, <2>2
<1> QED
  BY <1>2, <1>3, <1>4, <1>5, <1>6, <1>7, <1>9, QuietStep

LEMMA ReadNextPreserves ==
    ASSUME LfInv, NEW t \in Threads, ReadNext(t)
    PROVE  LfInv'
<1>1. /\ th[t].pc = "next" /\ obj' = obj /\ LfTyped /\ ThreadHolds(t) /\ EmptyPopsStayCounted
      /\ th' = [th EXCEPT ![t].pc = "cas", ![t].next = obj.next[th[t].node]]
  BY DEF ReadNext, At, LfInv
<1>2. /\ th' \in [Threads -> Callers] /\ \A u \in Threads : u # t => th'[u] = th[u]
      /\ th'[t].node = th[t].node /\ th'[t].list = th[t].list
      /\ th'[t].pc = "cas" /\ th[t].node \in Nodes /\ th'[t].next = obj.next[th[t].node]
  <2>1. th[t].node \in Nodes
    BY <1>1 DEF ThreadHolds, At
  <2>2. obj.next[th[t].node] \in OrNull /\ th[t] \in Callers
    BY <1>1, <2>1 DEF LfTyped, Stacks
  <2>3. PICK r : r = [th[t] EXCEPT !.pc = "cas", !.next = obj.next[th[t].node]]
    OBVIOUS
  <2>4. /\ r \in Callers /\ r.pc = "cas" /\ r.next = obj.next[th[t].node] /\ r.node = th[t].node
        /\ r.list = th[t].list
    BY <2>2, <2>3 DEF Callers, Places
  <2>5. th' = [th EXCEPT ![t] = r]
    BY <1>1, <2>3
  <2> QED
    BY <1>1, <2>1, <2>4, <2>5, RecordWritten
<1>3. LfTyped' /\ th[t].list = <<>>
  BY <1>1, <1>2 DEF LfTyped, ThreadHolds, At
<1>4. Owns(t) = {} /\ Owns(t)' = {}
  BY <1>1, <1>2 DEF Owns, At
<1>5. ThreadHolds(t)'
  BY <1>1, <1>2, <1>3 DEF ThreadHolds, At, Distinct, Elems
<1>6. \A n \in Nodes : (Guards(t, n)' => Guards(t, n)) /\ ~Pushes(t, n)' /\ ~Retires(t, n)'
  BY <1>1, <1>2 DEF Guards, Pushes, Retires, At
<1>7. \A u \in Threads : Inside(u)' <=> Inside(u)
  BY <1>1, <1>2 DEF Inside, At, Outside
<1>8. EmptyPopsStayCounted'
  BY <1>1, <1>7, CountStays
<1> QED
  BY <1>1, <1>2, <1>3, <1>4, <1>5, <1>6, <1>8, QuietStep

\* The swap of Pop takes the node on top: what was read of the node's next is still there.
LEMMA PopPreserves ==
    ASSUME LfInv, Null \notin Nodes, NEW t \in Threads, th[t].pc = "cas", NEW n, n = th[t].node, obj.head = n,
           obj' = [obj EXCEPT !.head = th[t].next, !.abs = Tail(@)],
           th' = [th EXCEPT ![t].pc = "alone"]
    PROVE  LfInv'
<1>1. /\ LfTyped /\ ThreadHolds(t) /\ th[t].list = <<>> /\ n \in Nodes /\ NodeHolds(n)
      /\ obj.abs \in Seq(Nodes) /\ th[t].next \in OrNull /\ EmptyPopsStayCounted
  BY DEF LfInv, ThreadHolds, At, LfTyped, Stacks, Callers
<1>2. obj.abs # <<>> /\ obj.abs[1] = n /\ 1 \in DOMAIN obj.abs
  <2>1. Nth(1) = n
    BY DEF LfInv, Linked
  <2>2. 1 \in DOMAIN obj.abs /\ obj.abs[1] = n
    BY <1>1, <2>1 DEF Nth
  <2> QED
    BY <2>2
<1>3. /\ Tail(obj.abs) \in Seq(Nodes) /\ Len(obj.abs) \in Nat \ {0} /\ DOMAIN obj.abs = 1 .. Len(obj.abs)
      /\ DOMAIN Tail(obj.abs) = 1 .. Len(obj.abs) - 1
      /\ \A i \in 1 .. Len(obj.abs) - 1 : Tail(obj.abs)[i] = obj.abs[i + 1]
  BY <1>1, <1>2, PopSeq
<1>4. th[t].next = obj.next[n]
  <2>1. InStack(th[t].node)
    BY <1>2 DEF InStack, Elems
  <2> QED
    BY <1>1, <2>1 DEF ThreadHolds, At
<1>5. /\ obj'.head = obj.next[n] /\ obj'.abs = Tail(obj.abs) /\ obj'.pending = obj.pending
      /\ obj'.at = obj.at /\ obj'.next = obj.next /\ obj'.inPop = obj.inPop /\ obj'.empties = obj.empties
      /\ obj' \in Stacks
  BY <1>1, <1>3, <1>4 DEF LfTyped, Stacks
<1>6. /\ th' \in [Threads -> Callers] /\ \A u \in Threads : u # t => th'[u] = th[u]
      /\ th'[t].pc = "alone" /\ th'[t].node = n /\ th'[t].list = th[t].list
  <2>1. "alone" \in Places
    BY DEF Places
  <2> QED
    BY <1>1, <2>1, PcWritten
<1>7. LfTyped'
  BY <1>5, <1>6 DEF LfTyped
<1>8. \A u \in Threads : u # t => Same(u)
  BY <1>6 DEF Same
<1>9. Owns(t) = {} /\ Owns(t)' = {n}
  BY <1>1, <1>6 DEF Owns, At, Elems
<1>10. Distinct(obj.abs)' /\ InStack(n) /\ \A m : InStack(m)' <=> InStack(m) /\ m # n
  BY <1>1, <1>2, <1>5, PopDistinct DEF InStack, LfInv, Linked
<1>11. \A m : InList(m)' <=> InList(m)
  BY <1>5 DEF InList
<1>12. obj.at[n] = "live" /\ ~InList(n) /\ \A u \in Threads : n \notin Owns(u)
  BY <1>1, <1>10 DEF NodeHolds
<1>13. ASSUME NEW m \in Nodes PROVE NodeHolds(m)'
  <2>1. CASE m = n
    BY <1>5, <1>8, <1>9, <1>10, <1>11, <1>12, <2>1, OwnsKept DEF NodeHolds
  <2>2. CASE m # n
    BY <1>5, <1>8, <1>9, <1>10, <1>11, <2>2, OwnsKept, NodeKept DEF LfInv
  <2> QED
    BY <2>1, <2>2
<1>14. ASSUME NEW m \in Nodes PROVE NodeIsGuarded(m)'
  <2>1. \A k : ~Guards(t, k)' /\ ~Retires(t, k)' /\ ~Pushes(t, k)'
    BY <1>6 DEF Guards, Retires, Pushes, At
  <2>2. ASSUME NEW u \in Threads
        PROVE  /\ Guards(u, m)' => Guards(u, m)
               /\ Pushes(u, m)' => Pushes(u, m)
               /\ Retires(u, m)' => Retires(u, m)
    BY <1>8, <2>1, OwnsKept
  <2>3. NodeIsGuarded(m)
    BY DEF LfInv
  <2> QED
    BY <1>5, <2>2, <2>3, GuardKept
<1>15. ASSUME NEW u \in Threads PROVE ThreadHolds(u)'
  <2>1. CASE u = t
    BY <1>1, <1>6, <2>1 DEF ThreadHolds, At, Distinct, Elems
  <2>2. CASE u # t
    <3>1. ThreadHolds(u) /\ Same(u)
      BY <1>8, <2>2 DEF LfInv
    <3>2. InStack(th[u].node)' => InStack(th[u].node)
      <4>1. th'[u] = th[u]
        BY <1>6, <2>2
      <4> QED
        BY <1>10, <4>1 DEF InStack
    <3> QED
      BY <1>5, <3>1, <3>2, ThreadKept
  <2> QED
    BY <2>1, <2>2
<1>16. ASSUME NEW i \in Nat \ {0} PROVE Nth(i)' = Nth(i + 1)
  BY <1>3, <1>5 DEF Nth
<1>17. obj'.head = Nth(1)' /\ \A i \in DOMAIN obj'.abs : obj'.next[obj'.abs[i]] = Nth(i + 1)'
  <2>1. obj'.head = Nth(1)'
    BY <1>2, <1>5, <1>16 DEF LfInv, Linked
  <2>2. ASSUME NEW i \in DOMAIN obj'.abs PROVE obj'.next[obj'.abs[i]] = Nth(i + 1)'
    <3>1. i \in Nat \ {0} /\ i + 1 \in DOMAIN obj.abs /\ obj'.abs[i] = obj.abs[i + 1]
      BY <1>3, <1>5
    <3>2. obj.next[obj.abs[i + 1]] = Nth((i + 1) + 1)
      BY <3>1 DEF LfInv, Linked
    <3> QED
      BY <1>5, <1>16, <3>1, <3>2
  <2> QED
    BY <2>1, <2>2
<1>18. Linked' /\ Distinct(obj.pending)'
  BY <1>5, <1>10, <1>17 DEF LfInv, Linked, Distinct
<1>19. EmptyPopsStayCounted'
  <2>1. \A u \in Threads : Inside(u)' <=> Inside(u)
    BY <1>6 DEF Inside, At, Outside
  <2> QED
    BY <1>1, <1>5, <2>1, CountStays
<1> QED
  BY <1>7, <1>13, <1>14, <1>15, <1>18, <1>19 DEF LfInv

\* ------------------------------------------------------------ Emplace
LEMMA EmplacePreserves ==
    ASSUME LfInv, Null \notin Nodes, NEW t \in Threads, Emplace(t)
    PROVE  LfInv'
<1>1. PICK n \in Nodes :
        /\ obj.at[n] = "new"
        /\ obj' = [obj EXCEPT !.at[n] = "live", !.next[n] = obj.head]
        /\ th' = [th EXCEPT ![t] = [Idle EXCEPT !.pc = "push", !.node = n]]
  BY DEF Emplace
<1>2. th[t].pc = "idle" /\ LfTyped /\ ThreadHolds(t) /\ NodeHolds(n) /\ th[t].list = <<>> /\ EmptyPopsStayCounted
  BY DEF Emplace, At, LfInv, ThreadHolds
<1>3. /\ obj'.head = obj.head /\ obj'.abs = obj.abs /\ obj'.pending = obj.pending
      /\ obj'.inPop = obj.inPop /\ obj'.empties = obj.empties
      /\ obj'.at[n] = "live" /\ \A m \in Nodes : m # n => obj'.at[m] = obj.at[m] /\ obj'.next[m] = obj.next[m]
      /\ obj' \in Stacks
  <2>1. PICK a, x : a = [obj.at EXCEPT ![n] = "live"] /\ x = [obj.next EXCEPT ![n] = obj.head]
    OBVIOUS
  <2>2. /\ a \in [Nodes -> {"new", "live", "freed", "twice"}] /\ a[n] = "live"
        /\ \A m \in Nodes : m # n => a[m] = obj.at[m]
    BY <1>2, <2>1 DEF LfTyped, Stacks
  <2>3. x \in [Nodes -> OrNull] /\ \A m \in Nodes : m # n => x[m] = obj.next[m]
    BY <1>2, <2>1 DEF LfTyped, Stacks
  <2>4. obj' = [obj EXCEPT !.at = a, !.next = x]
    BY <1>1, <1>2, <2>1 DEF LfTyped, Stacks
  <2> QED
    BY <1>2, <2>2, <2>3, <2>4 DEF LfTyped, Stacks
<1>4. /\ th' \in [Threads -> Callers] /\ \A u \in Threads : u # t => th'[u] = th[u]
      /\ th'[t].pc = "push" /\ th'[t].node = n /\ th'[t].list = <<>>
  <2>1. PICK r : r = [Idle EXCEPT !.pc = "push", !.node = n]
    OBVIOUS
  <2>2. r \in Callers /\ r.pc = "push" /\ r.node = n /\ r.list = <<>>
    <3>1. n \in OrNull /\ "push" \in Places
      BY DEF OrNull, Places, Outside
    <3>2. r \in Callers /\ r.pc = "push" /\ r.node = n /\ r.list = Idle.list
      BY <2>1, <3>1, IdleIsCaller DEF Callers
    <3> QED
      BY <3>2 DEF Idle
  <2> QED
    BY <1>1, <1>2, <2>1, <2>2, RecordWritten
<1>5. LfTyped'
  BY <1>3, <1>4 DEF LfTyped
<1>6. Owns(t) = {} /\ Owns(t)' = {n}
  BY <1>2, <1>4 DEF Owns, At, Elems
<1>7. \A u \in Threads : u # t => Same(u)
  BY <1>4 DEF Same
<1>8. ~InStack(n) /\ ~InList(n) /\ \A u \in Threads : n \notin Owns(u)
  BY <1>1, <1>2 DEF NodeHolds
<1>9. \A m : (InStack(m)' <=> InStack(m)) /\ (InList(m)' <=> InList(m))
  BY <1>3 DEF InStack, InList
<1>10. ASSUME NEW m \in Nodes PROVE NodeHolds(m)'
  <2>1. CASE m = n
    BY <1>3, <1>6, <1>7, <1>8, <1>9, <2>1, OwnsKept DEF NodeHolds
  <2>2. CASE m # n
    BY <1>3, <1>6, <1>7, <1>9, <2>2, OwnsKept, NodeKept DEF LfInv
  <2> QED
    BY <2>1, <2>2
<1>11. ASSUME NEW m \in Nodes PROVE NodeIsGuarded(m)'
  <2>1. \A u \in Threads : ~Guards(u, n)
    BY <1>1 DEF LfInv, NodeIsGuarded
  <2>2. \A k : ~Guards(t, k)' /\ ~Retires(t, k)' /\ (Pushes(t, k)' => k = n)
    BY <1>4 DEF Guards, Retires, Pushes, At
  <2>3. CASE m = n
    <3>1. \A u \in Threads : ~Guards(u, n)'
      BY <1>7, <2>1, <2>2, OwnsKept
    <3> QED
      BY <2>3, <3>1 DEF NodeIsGuarded
  <2>4. CASE m # n
    <3>1. ASSUME NEW u \in Threads
          PROVE  /\ Guards(u, m)' => Guards(u, m)
                 /\ Pushes(u, m)' => Pushes(u, m)
                 /\ Retires(u, m)' => Retires(u, m)
      BY <1>7, <2>2, <2>4, OwnsKept
    <3>2. NodeIsGuarded(m) /\ obj'.at[m] = obj.at[m]
      BY <1>3, <2>4 DEF LfInv
    <3> QED
      BY <3>1, <3>2, GuardKept
  <2> QED
    BY <2>3, <2>4
<1>12. ASSUME NEW u \in Threads PROVE ThreadHolds(u)'
  <2>1. CASE u = t
    BY <1>4, <2>1 DEF ThreadHolds, At, Distinct, Elems
  <2>2. CASE u # t
    <3>1. ThreadHolds(u) /\ Same(u) /\ th'[u] = th[u]
      BY <1>4, <1>7, <2>2 DEF LfInv
    <3>2. At(u, {"cas"}) => th[u].node \in Nodes
      BY <3>1 DEF ThreadHolds, At
    <3>3. InStack(th[u].node)' => InStack(th[u].node) /\ th[u].node # n
      BY <1>3, <1>8, <3>1 DEF InStack
    <3> QED
      BY <1>3, <3>1, <3>2, <3>3, ThreadKept
  <2> QED
    BY <2>1, <2>2
<1>13. Linked' /\ Distinct(obj.pending)'
  <2>1. \A m \in Nodes : InStack(m) => obj'.next[m] = obj.next[m]
    BY <1>3, <1>8
  <2> QED
    BY <1>2, <1>3, <2>1, LinksKept DEF LfInv, Distinct
<1>14. EmptyPopsStayCounted'
  <2>1. \A u \in Threads : Inside(u)' <=> Inside(u)
    BY <1>2, <1>4 DEF Inside, At, Outside
  <2> QED
    BY <1>2, <1>3, <2>1, CountStays
<1> QED
  BY <1>5, <1>10, <1>11, <1>12, <1>13, <1>14 DEF LfInv

LEMMA PushPreserves ==
    ASSUME LfInv, Null \notin Nodes, NEW t \in Threads, th[t].pc = "push", NEW n, n = th[t].node,
           obj.next[n] = obj.head, NEW q, q = <<n>> \o obj.abs,
           Distinct(q), Elems(q) = {n} \cup Elems(obj.abs),
           obj' = [obj EXCEPT !.head = n, !.abs = q], th' = [th EXCEPT ![t] = Idle]
    PROVE  LfInv'
<1>1. /\ LfTyped /\ ThreadHolds(t) /\ th[t].list = <<>> /\ n \in Nodes /\ NodeHolds(n)
      /\ obj.abs \in Seq(Nodes) /\ EmptyPopsStayCounted
  BY DEF LfInv, ThreadHolds, At, LfTyped, Stacks
<1>3. /\ q \in Seq(Nodes) /\ DOMAIN q = 1 .. Len(obj.abs) + 1 /\ q[1] = n
      /\ \A i \in 2 .. Len(obj.abs) + 1 : q[i] = obj.abs[i - 1]
      /\ Len(obj.abs) \in Nat /\ DOMAIN obj.abs = 1 .. Len(obj.abs)
  BY <1>1, PushSeq
<1>4. /\ obj'.head = n /\ obj'.abs = q /\ obj'.pending = obj.pending /\ obj'.inPop = obj.inPop
      /\ obj'.empties = obj.empties
      /\ obj'.at = obj.at /\ obj'.next = obj.next /\ obj' \in Stacks
  BY <1>1, <1>3 DEF LfTyped, Stacks, OrNull
<1>5. /\ th' \in [Threads -> Callers] /\ \A u \in Threads : u # t => th'[u] = th[u]
      /\ th'[t].pc = "idle" /\ th'[t].list = <<>>
  BY <1>1, IdleIsCaller, RecordWritten DEF Idle
<1>6. LfTyped'
  BY <1>4, <1>5 DEF LfTyped
<1>7. Owns(t) = {n} /\ Owns(t)' = {}
  <2>1. Owns(t) = {n} \cup Elems(<<>>) /\ Elems(<<>>) = {}
    BY <1>1 DEF Owns, At, Elems
  <2>2. Owns(t)' = {}
    BY <1>5 DEF Owns, At
  <2> QED
    BY <2>1, <2>2
<1>8. \A u \in Threads : u # t => Same(u)
  BY <1>5 DEF Same
<1>9. /\ obj.at[n] = "live" /\ ~InStack(n) /\ ~InList(n)
      /\ \A u \in Threads : u # t => n \notin Owns(u)
  BY <1>1, <1>7 DEF NodeHolds
<1>10. Distinct(obj.abs)' /\ \A m : InStack(m)' <=> m = n \/ InStack(m)
  <2>1. Distinct(obj.abs)'
    BY <1>4
  <2>2. \A m : InStack(m)' <=> m \in Elems(q)
    BY <1>4 DEF InStack
  <2> QED
    BY <2>1, <2>2 DEF InStack
<1>11. \A m : InList(m)' <=> InList(m)
  BY <1>4 DEF InList
<1>12. ASSUME NEW m \in Nodes PROVE NodeHolds(m)'
  <2>1. CASE m = n
    BY <1>4, <1>7, <1>8, <1>9, <1>10, <1>11, <2>1, OwnsKept DEF NodeHolds
  <2>2. CASE m # n
    BY <1>4, <1>7, <1>8, <1>10, <1>11, <2>2, OwnsKept, NodeKept DEF LfInv
  <2> QED
    BY <2>1, <2>2
<1>13. ASSUME NEW m \in Nodes PROVE NodeIsGuarded(m)'
  <2>1. \A k : ~Guards(t, k)' /\ ~Retires(t, k)' /\ ~Pushes(t, k)'
    BY <1>5 DEF Guards, Retires, Pushes, At
  <2>2. ASSUME NEW u \in Threads
        PROVE  /\ Guards(u, m)' => Guards(u, m)
               /\ Pushes(u, m)' => Pushes(u, m)
               /\ Retires(u, m)' => Retires(u, m)
    BY <1>8, <2>1, OwnsKept
  <2>3. NodeIsGuarded(m)
    BY DEF LfInv
  <2> QED
    BY <1>4, <2>2, <2>3, GuardKept
<1>14. ASSUME NEW u \in Threads PROVE ThreadHolds(u)'
  <2>1. CASE u = t
    BY <1>5, <2>1 DEF ThreadHolds, At, Distinct, Elems
  <2>2. CASE u # t
    <3>1. ThreadHolds(u) /\ Same(u) /\ NodeIsGuarded(n) /\ th'[u] = th[u]
      BY <1>1, <1>5, <1>8, <2>2 DEF LfInv
    <3>2. Pushes(t, n)
      BY DEF Pushes, At
    <3>3. At(u, {"cas"}) => th[u].node # n
      BY <1>1, <3>1, <3>2 DEF NodeIsGuarded, Guards, At
    <3>4. InStack(th[u].node)' <=> th[u].node = n \/ InStack(th[u].node)
      BY <1>10, <3>1 DEF InStack
    <3> QED
      BY <1>4, <3>1, <3>3, <3>4, ThreadKept
  <2> QED
    BY <2>1, <2>2
<1>15. obj'.head = Nth(1)' /\ \A i \in DOMAIN obj'.abs : obj'.next[obj'.abs[i]] = Nth(i + 1)'
  <2>1. obj'.head = Nth(1)'
    BY <1>3, <1>4 DEF Nth
  <2>2. ASSUME NEW i \in 1 .. Len(obj.abs) + 1 PROVE Nth(i + 1)' = Nth(i)
    BY <1>3, <1>4 DEF Nth
  <2>3. obj'.next[q[1]] = Nth(2)'
    <3>1. obj.head = Nth(1) /\ 1 \in 1 .. Len(obj.abs) + 1 /\ 1 + 1 = 2
      BY <1>3 DEF LfInv, Linked
    <3>2. Nth(2)' = Nth(1)
      BY <2>2, <3>1
    <3> QED
      BY <1>3, <1>4, <3>1, <3>2
  <2>4. ASSUME NEW i \in 2 .. Len(obj.abs) + 1 PROVE obj'.next[q[i]] = Nth(i + 1)'
    <3>1. i - 1 \in DOMAIN obj.abs /\ (i - 1) + 1 = i /\ i \in 1 .. Len(obj.abs) + 1
      BY <1>3
    <3>2. obj.next[obj.abs[i - 1]] = Nth(i)
      BY <3>1 DEF LfInv, Linked
    <3> QED
      BY <1>3, <1>4, <2>2, <3>1, <3>2
  <2> QED
    BY <1>3, <1>4, <2>1, <2>3, <2>4
<1>16. Linked' /\ Distinct(obj.pending)'
  BY <1>4, <1>10, <1>15 DEF LfInv, Linked, Distinct
<1>17. EmptyPopsStayCounted'
  <2>1. \A u \in Threads : Inside(u)' <=> Inside(u)
    BY <1>5 DEF Inside, At, Outside
  <2> QED
    BY <1>1, <1>4, <2>1, CountStays
<1> QED
  BY <1>6, <1>12, <1>13, <1>14, <1>16, <1>17 DEF LfInv

\* The head has moved: the node's next is read again.
LEMMA PushRetryPreserves ==
    ASSUME LfInv, NEW t \in Threads, th[t].pc = "push", NEW n, n = th[t].node,
           obj' = [obj EXCEPT !.next[n] = obj.head], UNCHANGED th
    PROVE  LfInv'
<1>1. LfTyped /\ ThreadHolds(t) /\ n \in Nodes /\ NodeHolds(n) /\ EmptyPopsStayCounted
  BY DEF LfInv, ThreadHolds, At
<1>2. /\ obj'.head = obj.head /\ obj'.abs = obj.abs /\ obj'.pending = obj.pending
      /\ obj'.inPop = obj.inPop /\ obj'.empties = obj.empties
      /\ obj'.at = obj.at /\ \A m \in Nodes : m # n => obj'.next[m] = obj.next[m]
      /\ obj' \in Stacks
  BY <1>1 DEF LfTyped, Stacks
<1>3. LfTyped' /\ \A u \in Threads : th'[u] = th[u]
  BY <1>1, <1>2 DEF LfTyped
<1>4. n \in Owns(t)
  BY DEF Owns, At
<1>5. ~InStack(n)
  BY <1>1, <1>4 DEF NodeHolds
<1>6. Same(t)
  BY DEF Same
<1>7. \A m : Guards(t, m)' = Guards(t, m) /\ Pushes(t, m)' = Pushes(t, m) /\ Retires(t, m)' = Retires(t, m)
  BY <1>6, OwnsKept
<1>8. ThreadHolds(t)'
  BY <1>1, <1>6, ThreadKept DEF At
<1>9. Owns(t)' = Owns(t)
  BY <1>6, OwnsKept
<1>10. EmptyPopsStayCounted'
  <2>1. \A u \in Threads : Inside(u)' <=> Inside(u)
    BY DEF Inside, At
  <2> QED
    BY <1>1, <1>2, <2>1, CountStays
<1>11. \A m \in Nodes : InStack(m) => obj'.next[m] = obj.next[m]
  BY <1>2, <1>5
<1> QED
  BY <1>2, <1>3, <1>7, <1>8, <1>9, <1>10, <1>11, QuietStep

LEMMA PushCasPreserves ==
    ASSUME LfInv, Null \notin Nodes, NEW t \in Threads, PushCas(t)
    PROVE  LfInv'
<1>1. PICK n : n = th[t].node
  OBVIOUS
<1>2. th[t].pc = "push" /\ n \in Nodes /\ n \in Owns(t)
  BY <1>1 DEF PushCas, At, LfInv, ThreadHolds, Owns
<1>3. n \notin Elems(obj.abs) /\ Distinct(obj.abs) /\ obj.abs \in Seq(Nodes)
  BY <1>2 DEF LfInv, NodeHolds, InStack, Linked, LfTyped, Stacks
<1>4. PICK q : q = <<n>> \o obj.abs
  OBVIOUS
<1>5. <<n>> \in Seq(Nodes) /\ Distinct(<<n>>) /\ Elems(<<n>>) = {n}
  BY <1>2, OneDistinct
<1>6. Distinct(q)
  BY <1>2, <1>3, <1>4, PushDistinct
<1>7. Elems(q) = {n} \cup Elems(obj.abs)
  BY <1>3, <1>4, <1>5, JoinElems, ZenonT(60)
<1>8. CASE /\ obj.next[n] = obj.head
           /\ obj' = [obj EXCEPT !.head = n, !.abs = <<n>> \o @]
           /\ Return(t)
  <2>1. obj' = [obj EXCEPT !.head = n, !.abs = q] /\ th' = [th EXCEPT ![t] = Idle]
    BY <1>4, <1>8 DEF Return
  <2> QED
    BY <1>1, <1>2, <1>4, <1>6, <1>7, <1>8, <2>1, PushPreserves
<1>9. CASE obj' = [obj EXCEPT !.next[n] = obj.head] /\ UNCHANGED th
  BY <1>1, <1>2, <1>9, PushRetryPreserves
<1> QED
  BY <1>1, <1>8, <1>9 DEF PushCas

\* ------------------------------------------------------------ TryReclaim
\* Alone in Pop, a thread knows that nobody guards anything.
LEMMA AlonePreserves ==
    ASSUME LfInv, IsFiniteSet(Threads), NEW t \in Threads, Alone(t)
    PROVE  LfInv'
<1> DEFINE pc == IF obj.inPop = 1 THEN "take" ELSE "chain"
<1>1. /\ th[t].pc = "alone" /\ obj' = obj /\ LfTyped /\ ThreadHolds(t) /\ EmptyPopsStayCounted
      /\ th' = [th EXCEPT ![t].pc = pc]
  BY DEF Alone, Go, At, LfInv
<1>2. pc \in Places /\ pc \in {"take", "chain"} /\ (pc = "take" => obj.inPop = 1)
  BY DEF Places
<1> HIDE DEF pc
<1>3. /\ th' \in [Threads -> Callers] /\ \A u \in Threads : u # t => th'[u] = th[u]
      /\ th'[t].pc = pc /\ th'[t].node = th[t].node /\ th'[t].list = th[t].list
  BY <1>1, <1>2, PcWritten
<1>4. LfTyped' /\ th[t].list = <<>>
  BY <1>1, <1>3 DEF LfTyped, ThreadHolds, At
<1>5. Owns(t)' = Owns(t)
  BY <1>1, <1>2, <1>3 DEF Owns, At, Elems
<1>6. ThreadHolds(t)'
  BY <1>1, <1>2, <1>3, <1>4 DEF ThreadHolds, At, Distinct, Elems
<1>7. Inside(t) /\ \A u \in Threads : Inside(u)' <=> Inside(u)
  BY <1>1, <1>2, <1>3 DEF Inside, At, Outside
<1>8. EmptyPopsStayCounted'
  BY <1>1, <1>7, CountStays
<1>9. ASSUME NEW n \in Nodes, Retires(t, n)', NEW u \in Threads PROVE ~Guards(u, n)'
  <2>1. obj.inPop = 1
    BY <1>2, <1>3, <1>9 DEF Retires, At
  <2>2. CASE u = t
    BY <1>2, <1>3, <2>2 DEF Guards, At
  <2>3. CASE u # t
    <3>1. ~Inside(u)'
      BY <1>1, <1>7, <2>1, <2>3, AloneInside
    <3> QED
      BY <3>1 DEF Inside, Guards, At, Outside
  <2> QED
    BY <2>2, <2>3
<1>10. \A n \in Nodes : ~Guards(t, n)' /\ ~Pushes(t, n)'
  BY <1>2, <1>3 DEF Guards, Pushes, At
<1> QED
  BY <1>1, <1>3, <1>4, <1>5, <1>6, <1>8, <1>9, <1>10, QuietStep

LEMMA TakePendingPreserves ==
    ASSUME LfInv, NEW t \in Threads, TakePending(t)
    PROVE  LfInv'
<1>1. /\ th[t].pc = "take" /\ obj' = [obj EXCEPT !.pending = <<>>]
      /\ th' = [th EXCEPT ![t].pc = "leave", ![t].list = obj.pending]
      /\ LfTyped /\ ThreadHolds(t) /\ th[t].list = <<>> /\ EmptyPopsStayCounted /\ Distinct(obj.pending)
  BY DEF TakePending, At, LfInv, ThreadHolds
<1>2. /\ obj'.head = obj.head /\ obj'.next = obj.next /\ obj'.abs = obj.abs /\ obj'.at = obj.at
      /\ obj'.inPop = obj.inPop /\ obj'.empties = obj.empties
      /\ obj'.pending = <<>> /\ obj' \in Stacks
  <2>1. PICK s : s = <<>>
    OBVIOUS
  <2>2. s \in Seq(Nodes)
    BY <2>1
  <2>3. obj' = [obj EXCEPT !.pending = s]
    BY <1>1, <2>1
  <2> QED
    BY <1>1, <2>1, <2>2, <2>3 DEF LfTyped, Stacks
<1>3. /\ th' \in [Threads -> Callers] /\ \A u \in Threads : u # t => th'[u] = th[u]
      /\ th'[t].pc = "leave" /\ th'[t].list = obj.pending /\ th'[t].node = th[t].node
  <2>1. PICK r : r = [th[t] EXCEPT !.pc = "leave", !.list = obj.pending]
    OBVIOUS
  <2>2. r \in Callers /\ r.pc = "leave" /\ r.list = obj.pending /\ r.node = th[t].node
    <3>1. th[t] \in Callers /\ obj.pending \in Seq(Nodes) /\ "leave" \in Places
      BY <1>1 DEF LfTyped, Stacks, Places
    <3> QED
      BY <2>1, <3>1 DEF Callers
  <2>3. th' = [th EXCEPT ![t] = r]
    BY <1>1, <2>1
  <2> QED
    BY <1>1, <2>2, <2>3, RecordWritten
<1>4. LfTyped' /\ \A u \in Threads : u # t => Same(u)
  BY <1>2, <1>3 DEF LfTyped, Same
<1>5. th[t].node \in Nodes /\ Owns(t) = {th[t].node} /\ Owns(t)' = {th[t].node} \cup Elems(obj.pending)
  BY <1>1, <1>3 DEF Owns, At, Elems, ThreadHolds
<1>6. ~InList(th[t].node)
  BY <1>5, OwnedIsFree DEF LfInv
<1>7. /\ \A m : m \in Owns(t)' <=> m \in Owns(t) \/ InList(m)
      /\ \A m : (InStack(m)' <=> InStack(m)) /\ ~InList(m)'
  BY <1>2, <1>5 DEF InList, InStack, Elems
<1>8. ASSUME NEW m \in Nodes PROVE NodeHolds(m)'
  <2>1. NodeHolds(m) /\ \A u \in Threads : u # t => (m \in Owns(u)' <=> m \in Owns(u))
    BY <1>4, OwnsKept DEF LfInv
  <2>2. CASE InList(m)
    BY <1>2, <1>7, <2>1, <2>2 DEF NodeHolds
  <2>3. CASE ~InList(m)
    BY <1>2, <1>7, <2>1, <2>3, NodeKept
  <2> QED
    BY <2>2, <2>3
<1>9. ASSUME NEW m \in Nodes PROVE NodeIsGuarded(m)'
  <2>1. ~Guards(t, m)' /\ ~Pushes(t, m)' /\ (Retires(t, m)' => Retires(t, m))
    BY <1>1, <1>3 DEF Guards, Pushes, Retires, At
  <2>2. ASSUME NEW u \in Threads
        PROVE  /\ Guards(u, m)' => Guards(u, m)
               /\ Pushes(u, m)' => Pushes(u, m)
               /\ Retires(u, m)' => Retires(u, m)
    BY <1>4, <2>1, OwnsKept
  <2>3. NodeIsGuarded(m)
    BY DEF LfInv
  <2> QED
    BY <1>2, <2>2, <2>3, GuardKept
<1>10. ASSUME NEW u \in Threads PROVE ThreadHolds(u)'
  <2>1. CASE u = t
    BY <1>1, <1>3, <1>5, <1>6, <2>1 DEF ThreadHolds, At, InList
  <2>2. CASE u # t
    <3>1. ThreadHolds(u) /\ Same(u) /\ th'[u] = th[u]
      BY <1>3, <1>4, <2>2 DEF LfInv
    <3>2. InStack(th[u].node)' => InStack(th[u].node)
      BY <1>7, <3>1 DEF InStack
    <3> QED
      BY <1>2, <3>1, <3>2, ThreadKept
  <2> QED
    BY <2>1, <2>2
<1>11. Linked' /\ Distinct(obj.pending)'
  BY <1>1, <1>2, LinksKept DEF LfInv, Distinct
<1>12. EmptyPopsStayCounted'
  <2>1. \A u \in Threads : Inside(u)' <=> Inside(u)
    BY <1>1, <1>3 DEF Inside, At, Outside
  <2> QED
    BY <1>1, <1>2, <2>1, CountStays
<1> QED
  BY <1>4, <1>8, <1>9, <1>10, <1>11, <1>12 DEF LfInv

\* Freeing live nodes.
LEMMA FreedNodes ==
    ASSUME LfTyped, NEW F, \A n \in F : n \in Nodes /\ obj.at[n] = "live", NEW a, a = Freed(F)
    PROVE  /\ a \in [Nodes -> {"new", "live", "freed", "twice"}]
           /\ \A n \in Nodes : a[n] = IF n \in F THEN "freed" ELSE obj.at[n]
BY DEF Freed, LfTyped, Stacks

LEMMA ReturnFacts ==
    ASSUME LfTyped, NEW t \in Threads, th' = [th EXCEPT ![t] = Idle]
    PROVE  /\ th' \in [Threads -> Callers] /\ \A u \in Threads : u # t => th'[u] = th[u]
           /\ th'[t].pc = "idle" /\ th'[t].list = <<>> /\ th'[t].node = Null
BY IdleIsCaller, RecordWritten DEF Idle

\* Alone still, or with nothing but its own node, which nobody has read since it was alone.
LEMMA FreePreserves ==
    ASSUME LfInv, IsFiniteSet(Threads), NEW t \in Threads, LeaveAlone(t),
           obj.inPop = 1 \/ th[t].list = <<>>
    PROVE  LfInv'
<1>0. PICK F, a : F = Elems(th[t].list) \cup {th[t].node} /\ a = Freed(F)
  OBVIOUS
<1>1. /\ LfTyped /\ ThreadHolds(t) /\ EmptyPopsStayCounted /\ Distinct(obj.pending)
      /\ th[t].pc = "leave" /\ th' = [th EXCEPT ![t] = Idle]
      /\ obj' = [obj EXCEPT !.inPop = @ - 1, !.at = a]
  BY <1>0 DEF LfInv, LeaveAlone, Return, At
<1>2. Owns(t) = F /\ th[t].node \in Nodes
  BY <1>0, <1>1 DEF Owns, At, ThreadHolds
<1>3. ASSUME NEW n \in F PROVE n \in Nodes /\ obj.at[n] = "live"
  <2>1. th[t].list \in Seq(Nodes)
    BY <1>1 DEF LfTyped, Callers
  <2>2. n \in Nodes
    BY <1>0, <1>2, <2>1 DEF Elems
  <2> QED
    BY <1>2, <2>2, OwnedIsFree DEF LfInv
<1>4. /\ a \in [Nodes -> {"new", "live", "freed", "twice"}]
      /\ \A n \in Nodes : a[n] = IF n \in F THEN "freed" ELSE obj.at[n]
  BY <1>0, <1>1, <1>3, FreedNodes
<1>5. /\ obj'.head = obj.head /\ obj'.next = obj.next /\ obj'.abs = obj.abs /\ obj'.at = a
      /\ obj'.pending = obj.pending /\ obj'.inPop = obj.inPop - 1 /\ obj'.empties = obj.empties
      /\ obj' \in Stacks
  <2>1. PICK i : i = obj.inPop - 1
    OBVIOUS
  <2>2. i \in Int /\ obj \in Stacks
    BY <1>1, <2>1 DEF LfTyped, Stacks
  <2>3. obj' = [obj EXCEPT !.inPop = i, !.at = a]
    BY <1>1, <2>1
  <2> QED
    BY <1>4, <2>1, <2>2, <2>3 DEF Stacks
<1>6. /\ th' \in [Threads -> Callers] /\ \A u \in Threads : u # t => th'[u] = th[u]
      /\ th'[t].pc = "idle" /\ th'[t].list = <<>> /\ th'[t].node = Null
  BY <1>1, ReturnFacts
<1>7. LfTyped'
  BY <1>5, <1>6 DEF LfTyped
<1>8. Owns(t)' = {}
  BY <1>6 DEF Owns, At
<1>9. ThreadHolds(t)'
  BY <1>6 DEF ThreadHolds, At, Distinct, Elems
<1>10. Inside(t) /\ ~Inside(t)' /\ \A u \in Threads : u # t => (Inside(u)' <=> Inside(u))
  BY <1>1, <1>6 DEF Inside, At, Outside
<1>11. EmptyPopsStayCounted'
  BY <1>1, <1>5, <1>10, CountLeaves
<1>12. ASSUME NEW n \in F, NEW u \in Threads PROVE ~Guards(u, n)
  <2>1. CASE u = t
    BY <1>1, <2>1 DEF Guards, At
  <2>2. CASE u # t /\ obj.inPop = 1
    <3>1. ~Inside(u)
      BY <1>1, <1>10, <2>2, AloneInside
    <3> QED
      BY <3>1 DEF Inside, Guards, At, Outside
  <2>3. CASE th[t].list = <<>>
    <3>1. n = th[t].node
      BY <1>0, <2>3 DEF Elems
    <3>2. Retires(t, n)
      BY <1>1, <3>1 DEF Retires, At
    <3>3. n \in Nodes
      BY <1>3
    <3> QED
      BY <3>2, <3>3 DEF LfInv, NodeIsGuarded
  <2> QED
    BY <2>1, <2>2, <2>3
<1>13. Distinct(obj'.pending) /\ Elems(obj'.pending) = {} \cup Elems(obj.pending)
  BY <1>1, <1>5
<1>14. \A n \in Nodes : obj'.at[n] = IF n \in F THEN "freed" ELSE obj.at[n]
  BY <1>4, <1>5
<1>15. PICK K : K = {}
  OBVIOUS
<1>16. Owns(t) = K \cup F /\ K \cap F = {} /\ Elems(obj'.pending) = K \cup Elems(obj.pending)
  BY <1>2, <1>13, <1>15
<1>17. /\ obj'.head = obj.head /\ obj'.next = obj.next /\ obj'.abs = obj.abs
       /\ \A u \in Threads : u # t => th'[u] = th[u]
       /\ th'[t].pc \in {"idle", "out"} /\ Distinct(obj'.pending)
  BY <1>5, <1>6, <1>13
<1> QED
  BY <1>7, <1>8, <1>9, <1>11, <1>12, <1>14, <1>16, <1>17, GiveUp

\* A thread that goes on to another step with what it has in hand.
LEMMA GoPreserves ==
    ASSUME LfInv, IsFiniteSet(Threads), NEW t \in Threads, NEW p,
           \/ th[t].pc = "leave" /\ p = "back" /\ th[t].list # <<>>
           \/ th[t].pc = "chainCas" /\ p = "chain"
           \/ th[t].pc = "backCas" /\ p = "back",
           th' = [th EXCEPT ![t].pc = p],
           \/ th[t].pc = "leave" /\ obj' = [obj EXCEPT !.inPop = @ - 1]
           \/ th[t].pc # "leave" /\ obj' = obj
    PROVE  LfInv'
<1>1. LfTyped /\ ThreadHolds(t) /\ EmptyPopsStayCounted
  BY DEF LfInv
<1>2. p \in Places
  BY DEF Places, Outside
<1>3. /\ th' \in [Threads -> Callers] /\ \A u \in Threads : u # t => th'[u] = th[u]
      /\ th'[t].pc = p /\ th'[t].node = th[t].node /\ th'[t].list = th[t].list
  BY <1>1, <1>2, PcWritten
<1>4. /\ obj'.head = obj.head /\ obj'.next = obj.next /\ obj'.abs = obj.abs /\ obj'.at = obj.at
      /\ obj'.pending = obj.pending /\ obj'.empties = obj.empties /\ obj' \in Stacks
      /\ obj'.inPop = IF th[t].pc = "leave" THEN obj.inPop - 1 ELSE obj.inPop
  <2>1. obj \in Stacks
    BY <1>1 DEF LfTyped
  <2>2. CASE th[t].pc = "leave" /\ obj' = [obj EXCEPT !.inPop = @ - 1]
    <3>1. PICK i : i = obj.inPop - 1
      OBVIOUS
    <3>2. i \in Int
      BY <2>1, <3>1 DEF Stacks
    <3>3. obj' = [obj EXCEPT !.inPop = i]
      BY <2>2, <3>1
    <3> QED
      BY <2>1, <2>2, <3>1, <3>2, <3>3 DEF Stacks
  <2>3. CASE th[t].pc # "leave" /\ obj' = obj
    BY <2>1, <2>3
  <2> QED
    BY <2>2, <2>3
<1>5. LfTyped'
  BY <1>3, <1>4 DEF LfTyped
<1>6. Owns(t)' = Owns(t)
  BY <1>3 DEF Owns, At, Elems
<1>7. ThreadHolds(t)'
  <2>1. th[t].node \in Nodes /\ Distinct(th[t].list) /\ th[t].node \notin Elems(th[t].list)
    BY <1>1 DEF ThreadHolds, At
  <2>2. th[t].pc = "chainCas" => th[t].list = <<>>
    BY <1>1 DEF ThreadHolds, At
  <2>3. th[t].pc = "backCas" => th[t].list # <<>>
    BY <1>1 DEF ThreadHolds, At
  <2>4. Distinct(th'[t].list) /\ th'[t].node \notin Elems(th'[t].list) /\ th'[t].node \in Nodes
    BY <1>3, <2>1
  <2> QED
    BY <1>3, <2>2, <2>3, <2>4 DEF ThreadHolds, At
<1>8. \A u \in Threads : u # t => (Inside(u)' <=> Inside(u))
  BY <1>3 DEF Inside, At
<1>9. EmptyPopsStayCounted'
  <2>1. CASE th[t].pc = "leave"
    <3>1. Inside(t) /\ ~Inside(t)'
      BY <1>3, <2>1 DEF Inside, At, Outside
    <3> QED
      BY <1>1, <1>4, <1>8, <2>1, <3>1, CountLeaves
  <2>2. CASE th[t].pc # "leave"
    <3>1. Inside(t)' <=> Inside(t)
      BY <1>3, <2>2 DEF Inside, At, Outside
    <3> QED
      BY <1>1, <1>4, <1>8, <2>2, <3>1, CountStays
  <2> QED
    BY <2>1, <2>2
<1>10. \A n \in Nodes : ~Guards(t, n)' /\ ~Pushes(t, n)' /\ (Retires(t, n)' => Retires(t, n))
  BY <1>3 DEF Guards, Pushes, Retires, At
<1> QED
  BY <1>3, <1>4, <1>5, <1>6, <1>7, <1>9, <1>10, QuietStep

LEMMA LeaveAlonePreserves ==
    ASSUME LfInv, IsFiniteSet(Threads), NEW t \in Threads, LeaveAlone(t)
    PROVE  LfInv'
<1>1. th[t].pc = "leave"
  BY DEF LeaveAlone, At
<1>2. CASE obj.inPop = 1 \/ th[t].list = <<>>
  BY <1>2, FreePreserves
<1>3. CASE /\ th[t].list # <<>> /\ obj' = [obj EXCEPT !.inPop = @ - 1]
           /\ th' = [th EXCEPT ![t].pc = "back"]
  <2>1. PICK p : p = "back"
    OBVIOUS
  <2> QED
    BY <1>1, <1>3, <2>1, GoPreserves
<1> QED
  BY <1>2, <1>3 DEF LeaveAlone, Go

LEMMA LeaveChainedPreserves ==
    ASSUME LfInv, IsFiniteSet(Threads), NEW t \in Threads, LeaveChained(t)
    PROVE  LfInv'
<1>1. /\ th[t].pc = "out" /\ LfTyped /\ EmptyPopsStayCounted
      /\ obj' = [obj EXCEPT !.inPop = @ - 1] /\ th' = [th EXCEPT ![t] = Idle]
  BY DEF LeaveChained, Return, At, LfInv
<1>2. /\ obj'.head = obj.head /\ obj'.next = obj.next /\ obj'.abs = obj.abs /\ obj'.at = obj.at
      /\ obj'.pending = obj.pending /\ obj'.inPop = obj.inPop - 1 /\ obj'.empties = obj.empties
      /\ obj' \in Stacks
  <2>1. PICK i : i = obj.inPop - 1
    OBVIOUS
  <2>2. i \in Int /\ obj \in Stacks
    BY <1>1, <2>1 DEF LfTyped, Stacks
  <2>3. obj' = [obj EXCEPT !.inPop = i]
    BY <1>1, <2>1
  <2> QED
    BY <2>1, <2>2, <2>3 DEF Stacks
<1>3. /\ th' \in [Threads -> Callers] /\ \A u \in Threads : u # t => th'[u] = th[u]
      /\ th'[t].pc = "idle" /\ th'[t].list = <<>> /\ th'[t].node = Null
  BY <1>1, ReturnFacts
<1>4. LfTyped'
  BY <1>2, <1>3 DEF LfTyped
<1>5. Owns(t) = {} /\ Owns(t)' = {}
  BY <1>1, <1>3 DEF Owns, At
<1>6. ThreadHolds(t)'
  BY <1>3 DEF ThreadHolds, At, Distinct, Elems
<1>7. Inside(t) /\ ~Inside(t)' /\ \A u \in Threads : u # t => (Inside(u)' <=> Inside(u))
  BY <1>1, <1>3 DEF Inside, At, Outside
<1>8. EmptyPopsStayCounted'
  BY <1>1, <1>2, <1>7, CountLeaves
<1>9. \A n : ~Guards(t, n)' /\ ~Pushes(t, n)' /\ ~Retires(t, n)'
  BY <1>3 DEF Guards, Pushes, Retires, At
<1> QED
  BY <1>2, <1>3, <1>4, <1>5, <1>6, <1>8, <1>9, QuietStep

\* The nodes to be chained are in the thread's hands, and the last of them is one.
LEMMA ChainedFacts ==
    ASSUME LfInv, NEW t \in Threads, th[t].pc \in {"chain", "chainCas", "back", "backCas"}, NEW c, c = Chained(t)
    PROVE  /\ c \in Seq(Nodes) /\ Distinct(c) /\ c # <<>> /\ c[Len(c)] \in Elems(c)
           /\ th[t].node \in Nodes
           /\ th[t].pc \in {"back", "backCas"} => Owns(t) = Elems(c) \cup {th[t].node} /\ th[t].node \notin Elems(c)
           /\ th[t].pc \in {"chain", "chainCas"} => Owns(t) = Elems(c) /\ th[t].list = <<>>
<1>1. LfTyped /\ ThreadHolds(t) /\ th[t].list \in Seq(Nodes) /\ th[t].node \in Nodes
  BY DEF LfInv, LfTyped, Callers, ThreadHolds, At
<1>2. Elems(<<>>) = {}
  BY DEF Elems
<1>3. CASE th[t].pc \in {"back", "backCas"}
  <2>1. c = th[t].list /\ c # <<>> /\ Distinct(c) /\ th[t].node \notin Elems(c)
    BY <1>1, <1>3 DEF Chained, At, ThreadHolds
  <2>2. Owns(t) = {th[t].node} \cup Elems(c)
    BY <1>3, <2>1 DEF Owns, At
  <2>3. Len(c) \in DOMAIN c
    BY <1>1, <2>1
  <2>4. c[Len(c)] \in Elems(c)
    BY <2>3 DEF Elems
  <2> QED
    BY <1>1, <1>3, <2>1, <2>2, <2>4
<1>4. CASE th[t].pc \in {"chain", "chainCas"}
  <2>1. c = <<th[t].node>> /\ th[t].list = <<>>
    BY <1>1, <1>4 DEF Chained, At, ThreadHolds
  <2>2. c \in Seq(Nodes) /\ Distinct(c) /\ Elems(c) = {th[t].node} /\ c # <<>>
    BY <1>1, <2>1, OneDistinct
  <2>3. Owns(t) = {th[t].node} \cup Elems(th[t].list)
    BY <1>4 DEF Owns, At
  <2>4. c[Len(c)] \in Elems(c)
    <3>1. Len(c) = 1 /\ c[1] = th[t].node
      BY <2>1
    <3> QED
      BY <2>2, <3>1
  <2> QED
    BY <1>1, <1>2, <1>4, <2>1, <2>2, <2>3, <2>4
<1> QED
  BY <1>3, <1>4

LEMMA LinkPreserves ==
    ASSUME LfInv, NEW t \in Threads, Link(t)
    PROVE  LfInv'
<1>1. PICK c : c = Chained(t)
  OBVIOUS
<1>2. PICK last, top : last = c[Len(c)] /\ top = Top(obj.pending)
  OBVIOUS
<1>3. PICK p : p = IF th[t].pc = "chain" THEN "chainCas" ELSE "backCas"
  OBVIOUS
<1>4. /\ th[t].pc \in {"chain", "back"} /\ LfTyped /\ ThreadHolds(t) /\ EmptyPopsStayCounted
      /\ th' = [th EXCEPT ![t].next = top, ![t].pc = p]
      /\ obj' = [obj EXCEPT !.next[last] = top]
  BY <1>1, <1>2, <1>3 DEF Link, At, LfInv
<1>5. /\ last \in Elems(c) /\ c \in Seq(Nodes) /\ Elems(c) \subseteq Owns(t)
  BY <1>1, <1>2, <1>4, ChainedFacts
<1>6. last \in Nodes /\ last \in Owns(t) /\ ~InStack(last)
  <2>1. last \in Nodes
    BY <1>5 DEF Elems
  <2> QED
    BY <1>5, <2>1, OwnedIsFree DEF LfInv
<1>7. top \in OrNull
  BY <1>2, <1>4 DEF Top, LfTyped, Stacks, OrNull
<1>8. /\ obj'.head = obj.head /\ obj'.abs = obj.abs /\ obj'.pending = obj.pending
      /\ obj'.inPop = obj.inPop /\ obj'.empties = obj.empties /\ obj'.at = obj.at
      /\ \A m \in Nodes : m # last => obj'.next[m] = obj.next[m]
      /\ obj' \in Stacks
  <2>1. PICK x : x = [obj.next EXCEPT ![last] = top]
    OBVIOUS
  <2>2. x \in [Nodes -> OrNull] /\ \A m \in Nodes : m # last => x[m] = obj.next[m]
    BY <1>4, <1>6, <1>7, <2>1 DEF LfTyped, Stacks
  <2>3. obj' = [obj EXCEPT !.next = x]
    BY <1>4, <2>1 DEF LfTyped, Stacks
  <2> QED
    BY <1>4, <2>2, <2>3 DEF LfTyped, Stacks
<1>9. /\ th' \in [Threads -> Callers] /\ \A u \in Threads : u # t => th'[u] = th[u]
      /\ th'[t].pc = p /\ th'[t].node = th[t].node /\ th'[t].list = th[t].list
  <2>1. PICK r : r = [th[t] EXCEPT !.next = top, !.pc = p]
    OBVIOUS
  <2>2. th[t] \in Callers /\ p \in Places
    BY <1>3, <1>4 DEF LfTyped, Places, Outside
  <2>3. r \in Callers /\ r.pc = p /\ r.node = th[t].node /\ r.list = th[t].list
    BY <1>7, <2>1, <2>2 DEF Callers
  <2>4. th' = [th EXCEPT ![t] = r]
    BY <1>4, <2>1
  <2> QED
    BY <1>4, <2>3, <2>4, RecordWritten
<1>10. LfTyped'
  BY <1>8, <1>9 DEF LfTyped
<1>11. Owns(t)' = Owns(t)
  BY <1>3, <1>4, <1>9 DEF Owns, At, Elems
<1>12. ThreadHolds(t)'
  <2>1. th[t].node \in Nodes /\ Distinct(th[t].list) /\ th[t].node \notin Elems(th[t].list)
    BY <1>4 DEF ThreadHolds, At
  <2>2. (th[t].pc = "chain" => th[t].list = <<>>) /\ (th[t].pc = "back" => th[t].list # <<>>)
    BY <1>4 DEF ThreadHolds, At
  <2>3. Distinct(th'[t].list) /\ th'[t].node \notin Elems(th'[t].list) /\ th'[t].node \in Nodes
    BY <1>9, <2>1
  <2> QED
    BY <1>3, <1>4, <1>9, <2>2, <2>3 DEF ThreadHolds, At
<1>13. EmptyPopsStayCounted'
  <2>1. \A u \in Threads : Inside(u)' <=> Inside(u)
    BY <1>3, <1>4, <1>9 DEF Inside, At, Outside
  <2> QED
    BY <1>4, <1>8, <2>1, CountStays
<1>14. \A n \in Nodes : ~Guards(t, n)' /\ ~Pushes(t, n)' /\ (Retires(t, n)' => Retires(t, n))
  BY <1>3, <1>4, <1>9 DEF Guards, Pushes, Retires, At
<1>15. \A n \in Nodes : InStack(n) => obj'.next[n] = obj.next[n]
  BY <1>6, <1>8
<1> QED
  BY <1>8, <1>9, <1>10, <1>11, <1>12, <1>13, <1>14, <1>15, QuietStep

\* Chained to the pending list, whose head has not moved: of the thread that was alone, the node
\* itself is freed, which nobody has read since.
LEMMA ChainPreserves ==
    ASSUME LfInv, NEW t \in Threads, ChainCas(t), Top(obj.pending) = th[t].next
    PROVE  LfInv'
<1>1. PICK c, q : c = Chained(t) /\ q = c \o obj.pending
  OBVIOUS
<1>2. PICK F : F = IF At(t, {"backCas"}) THEN {th[t].node} ELSE {}
  OBVIOUS
<1>3. PICK a : a = IF At(t, {"backCas"}) THEN Freed({th[t].node}) ELSE obj.at
  OBVIOUS
<1>4. PICK r : r = IF At(t, {"chainCas"}) THEN [Idle EXCEPT !.pc = "out"] ELSE Idle
  OBVIOUS
<1>5. /\ th[t].pc \in {"chainCas", "backCas"} /\ LfTyped /\ ThreadHolds(t) /\ EmptyPopsStayCounted
      /\ obj' = [obj EXCEPT !.pending = q, !.at = a] /\ th' = [th EXCEPT ![t] = r]
      /\ obj.pending \in Seq(Nodes) /\ Distinct(obj.pending)
  BY <1>1, <1>3, <1>4 DEF ChainCas, At, LfInv, LfTyped, Stacks
<1>6. /\ c \in Seq(Nodes) /\ Distinct(c) /\ th[t].node \in Nodes
      /\ th[t].pc = "backCas" => Owns(t) = Elems(c) \cup {th[t].node} /\ th[t].node \notin Elems(c)
      /\ th[t].pc = "chainCas" => Owns(t) = Elems(c)
  BY <1>1, <1>5, ChainedFacts
<1>7. Owns(t) = Elems(c) \cup F /\ Elems(c) \cap F = {}
  BY <1>2, <1>5, <1>6 DEF At
<1>8. \A n \in Owns(t) : n \in Nodes /\ obj.at[n] = "live" /\ ~InList(n)
  <2>1. SUFFICES ASSUME NEW n \in Owns(t) PROVE n \in Nodes /\ obj.at[n] = "live" /\ ~InList(n)
    OBVIOUS
  <2>2. n \in Nodes
    BY <1>2, <1>6, <1>7, <2>1 DEF Elems
  <2> QED
    BY <2>1, <2>2, OwnedIsFree DEF LfInv
<1>9. q \in Seq(Nodes) /\ Elems(q) = Elems(c) \cup Elems(obj.pending)
  <2>1. q \in Seq(Nodes)
    BY <1>1, <1>5, <1>6, JoinSeq
  <2>2. Elems(q) = Elems(c) \cup Elems(obj.pending)
    BY <1>1, <1>5, <1>6, JoinElems
  <2> QED
    BY <2>1, <2>2
<1>10. Distinct(q)
  <2>1. Elems(c) \cap Elems(obj.pending) = {}
    BY <1>7, <1>8 DEF InList
  <2> QED
    BY <1>1, <1>5, <1>6, <2>1, JoinDistinct
<1>11. /\ a \in [Nodes -> {"new", "live", "freed", "twice"}]
       /\ \A n \in Nodes : a[n] = IF n \in F THEN "freed" ELSE obj.at[n]
  <2>1. CASE At(t, {"backCas"})
    <3>1. a = Freed(F) /\ \A n \in F : n \in Nodes /\ obj.at[n] = "live"
      BY <1>2, <1>3, <1>7, <1>8, <2>1
    <3> QED
      BY <1>5, <3>1, FreedNodes
  <2>2. CASE ~At(t, {"backCas"})
    <3>1. a = obj.at /\ F = {}
      BY <1>2, <1>3, <2>2
    <3> QED
      BY <1>5, <3>1 DEF LfTyped, Stacks
  <2> QED
    BY <2>1, <2>2
<1>12. /\ obj'.head = obj.head /\ obj'.next = obj.next /\ obj'.abs = obj.abs /\ obj'.at = a
       /\ obj'.pending = q /\ obj'.inPop = obj.inPop /\ obj'.empties = obj.empties /\ obj' \in Stacks
  <2>1. obj \in Stacks
    BY <1>5 DEF LfTyped
  <2> QED
    BY <1>5, <1>9, <1>11, <2>1 DEF Stacks
<1>13. r \in Callers /\ r.list = <<>> /\ r.pc = IF th[t].pc = "chainCas" THEN "out" ELSE "idle"
  <2>1. CASE th[t].pc = "chainCas"
    <3>1. r = [Idle EXCEPT !.pc = "out"]
      BY <1>4, <2>1 DEF At
    <3>2. r \in Callers /\ r.pc = "out" /\ r.list = Idle.list
      BY <3>1, IdleIsCaller DEF Callers, Places
    <3> QED
      BY <2>1, <3>2 DEF Idle
  <2>2. CASE th[t].pc # "chainCas"
    <3>1. r = Idle
      BY <1>4, <2>2 DEF At
    <3> QED
      BY <2>2, <3>1, IdleIsCaller DEF Idle
  <2> QED
    BY <2>1, <2>2
<1>14. /\ th' \in [Threads -> Callers] /\ \A u \in Threads : u # t => th'[u] = th[u]
       /\ th'[t].pc = IF th[t].pc = "chainCas" THEN "out" ELSE "idle"
       /\ th'[t].list = <<>>
  BY <1>5, <1>13, RecordWritten
<1>15. LfTyped'
  BY <1>12, <1>14 DEF LfTyped
<1>16. Owns(t)' = {} /\ th'[t].pc \in {"idle", "out"}
  BY <1>14 DEF Owns, At
<1>17. ThreadHolds(t)'
  BY <1>14, <1>16 DEF ThreadHolds, At, Distinct, Elems
<1>18. EmptyPopsStayCounted'
  <2>1. \A u \in Threads : Inside(u)' <=> Inside(u)
    BY <1>5, <1>14 DEF Inside, At, Outside
  <2> QED
    BY <1>5, <1>12, <2>1, CountStays
<1>19. ASSUME NEW n \in F, NEW u \in Threads PROVE ~Guards(u, n)
  <2>1. Retires(t, n)
    BY <1>2 DEF Retires, At
  <2>2. n \in Nodes
    BY <1>7, <1>8
  <2> QED
    BY <2>1, <2>2 DEF LfInv, NodeIsGuarded
<1>20. PICK K : K = Elems(c)
  OBVIOUS
<1>21. /\ obj'.head = obj.head /\ obj'.next = obj.next /\ obj'.abs = obj.abs
       /\ Distinct(obj'.pending) /\ Elems(obj'.pending) = K \cup Elems(obj.pending)
       /\ Owns(t) = K \cup F /\ K \cap F = {}
  BY <1>7, <1>9, <1>10, <1>12, <1>20
<1>22. \A n \in Nodes : obj'.at[n] = IF n \in F THEN "freed" ELSE obj.at[n]
  BY <1>11, <1>12
<1> QED
  BY <1>14, <1>15, <1>16, <1>17, <1>18, <1>19, <1>21, <1>22, GiveUp

LEMMA ChainCasPreserves ==
    ASSUME LfInv, IsFiniteSet(Threads), NEW t \in Threads, ChainCas(t)
    PROVE  LfInv'
<1>1. th[t].pc \in {"chainCas", "backCas"}
  BY DEF ChainCas, At
<1>2. PICK p : p = IF At(t, {"chainCas"}) THEN "chain" ELSE "back"
  OBVIOUS
<1>3. CASE Top(obj.pending) = th[t].next
  BY <1>3, ChainPreserves
<1>4. CASE th[t].pc = "chainCas"
  <2>1. p = "chain"
    BY <1>2, <1>4 DEF At
  <2>2. CASE th' = [th EXCEPT ![t].pc = p] /\ obj' = obj
    BY <1>4, <2>1, <2>2, GoPreserves
  <2> QED
    BY <1>2, <1>3, <2>2 DEF ChainCas, Go
<1>5. CASE th[t].pc = "backCas"
  <2>1. p = "back"
    BY <1>2, <1>5 DEF At
  <2>2. CASE th' = [th EXCEPT ![t].pc = p] /\ obj' = obj
    BY <1>5, <2>1, <2>2, GoPreserves
  <2> QED
    BY <1>2, <1>3, <2>2 DEF ChainCas, Go
<1> QED
  BY <1>1, <1>4, <1>5

\* ------------------------------------------------------------ the invariant
LEMMA PopCasPreserves ==
    ASSUME LfInv, Null \notin Nodes, IsFiniteSet(Threads), NEW t \in Threads, PopCas(t)
    PROVE  LfInv'
<1>1. th[t].pc = "cas"
  BY DEF PopCas, At
<1>2. CASE /\ obj.head = th[t].node
           /\ obj' = [obj EXCEPT !.head = th[t].next, !.abs = Tail(@)]
           /\ th' = [th EXCEPT ![t].pc = "alone"]
  BY <1>1, <1>2, PopPreserves
<1>3. CASE Reload(t)
  BY <1>1, <1>3, ReloadPreserves
<1> QED
  BY <1>2, <1>3 DEF PopCas, Go

LEMMA LoadHeadPreserves ==
    ASSUME LfInv, Null \notin Nodes, IsFiniteSet(Threads), NEW t \in Threads, LoadHead(t)
    PROVE  LfInv'
BY ReloadPreserves DEF LoadHead, At

LEMMA InitLfInv ==
    ASSUME Null \notin Nodes, IsFiniteSet(Threads), Init
    PROVE  LfInv
<1>1. /\ obj.head = Null /\ obj.next = Unlinked /\ obj.at = AllNew /\ obj.abs = <<>> /\ obj.pops = 0
      /\ obj.pending = <<>> /\ obj.inPop = 0 /\ obj.empties = 0
  BY DEF Init
<1>2. \A t \in Threads : th[t].pc = "idle" /\ th[t].list = <<>>
  BY DEF Init, Idle
<1>3. LfTyped
  <2>1. th \in [Threads -> Callers]
    BY IdleIsCaller DEF Init
  <2>2. obj \in Stacks
    <3>1. Unlinked \in [Nodes -> OrNull] /\ AllNew \in [Nodes -> {"new", "live", "freed", "twice"}]
      BY DEF Unlinked, AllNew, OrNull
    <3>2. <<>> \in Seq(Nodes) /\ Null \in OrNull
      BY DEF OrNull
    <3> QED
      BY <3>1, <3>2 DEF Init, Stacks
  <2> QED
    BY <2>1, <2>2 DEF LfTyped
<1>4. Linked /\ Distinct(obj.pending)
  BY <1>1 DEF Linked, Distinct, Nth
<1>5. ASSUME NEW n \in Nodes PROVE NodeHolds(n) /\ NodeIsGuarded(n)
  <2>1. ~InStack(n) /\ ~InList(n) /\ obj.at[n] = "new"
    BY <1>1 DEF InStack, InList, Elems, AllNew
  <2>2. \A t \in Threads : n \notin Owns(t) /\ ~Guards(t, n)
    BY <1>2 DEF Owns, At, Guards
  <2> QED
    BY <2>1, <2>2 DEF NodeHolds, NodeIsGuarded
<1>6. ASSUME NEW t \in Threads PROVE ThreadHolds(t)
  BY <1>2 DEF ThreadHolds, At, Distinct, Elems
<1>7. EmptyPopsStayCounted
  <2>1. {t \in Threads : ~At(t, {"idle", "push", "back", "backCas"})} = {}
    BY <1>2 DEF At
  <2>2. Cardinality({t \in Threads : ~At(t, {"idle", "push", "back", "backCas"})}) = 0
    BY <2>1, FS_EmptySet
  <2> QED
    BY <1>1, <2>2 DEF EmptyPopsStayCounted
<1> QED
  BY <1>3, <1>4, <1>5, <1>6, <1>7 DEF LfInv

LEMMA NextLfInv ==
    ASSUME LfInv, Null \notin Nodes, IsFiniteSet(Threads), [Next]_vars
    PROVE  LfInv'
<1>1. CASE UNCHANGED vars
  <2>1. obj' = obj /\ th' = th
    BY <1>1 DEF vars
  <2>2. \A t \in Threads : Same(t)
    BY <2>1 DEF Same
  <2>3. ASSUME NEW n \in Nodes PROVE NodeHolds(n)' /\ NodeIsGuarded(n)'
    <3>1. (InStack(n)' <=> InStack(n)) /\ (InList(n)' <=> InList(n))
      BY <2>1 DEF InStack, InList
    <3>2. NodeHolds(n)'
      BY <2>1, <2>2, <3>1, OwnsKept, NodeKept DEF LfInv
    <3>3. NodeIsGuarded(n)'
      BY <2>1, <2>2, OwnsKept, GuardKept DEF LfInv
    <3> QED
      BY <3>2, <3>3
  <2>4. ASSUME NEW t \in Threads PROVE ThreadHolds(t)'
    BY <2>1, <2>2, ThreadKept DEF LfInv, InStack
  <2>5. LfTyped' /\ Linked' /\ Distinct(obj.pending)'
    BY <2>1, LinksKept DEF LfInv, LfTyped
  <2>6. EmptyPopsStayCounted'
    BY <2>1, <2>2, OwnsKept, CountStays DEF LfInv
  <2> QED
    BY <2>3, <2>4, <2>5, <2>6 DEF LfInv
<1>2. CASE Next
  <2>1. PICK t \in Threads :
            \/ Emplace(t) \/ PushCas(t) \/ EnterPop(t) \/ LoadHead(t) \/ ReadNext(t) \/ PopCas(t)
            \/ Alone(t) \/ TakePending(t) \/ LeaveAlone(t) \/ Link(t) \/ ChainCas(t) \/ LeaveChained(t)
    BY <1>2 DEF Next
  <2> QED
    BY <2>1, EmplacePreserves, PushCasPreserves, EnterPopPreserves, LoadHeadPreserves, ReadNextPreserves,
       PopCasPreserves, AlonePreserves, TakePendingPreserves, LeaveAlonePreserves, LinkPreserves,
       ChainCasPreserves, LeaveChainedPreserves
<1> QED
  BY <1>1, <1>2

\* A sequence without repetitions has as many elements as places.
LEMMA DistinctCount ==
    ASSUME NEW S, NEW s \in Seq(S), Distinct(s)
    PROVE  Cardinality(Elems(s)) = Len(s)
<1>1. Len(s) \in Nat /\ DOMAIN s = 1 .. Len(s) /\ IsFiniteSet(1 .. Len(s)) /\ Cardinality(1 .. Len(s)) = Len(s)
  <2>1. Len(s) \in Nat /\ DOMAIN s = 1 .. Len(s)
    OBVIOUS
  <2> QED
    BY <2>1, 1 \in Int, Len(s) \in Int, FS_Interval
<1>2. [i \in 1 .. Len(s) |-> s[i]] \in Bijection(1 .. Len(s), Elems(s))
  BY <1>1 DEF Bijection, Injection, Surjection, IsInjective, Elems, Distinct
<1> QED
  BY <1>1, <1>2, FS_Bijection DEF ExistsBijection

LEMMA LfInvImplies ==
    ASSUME LfInv
    PROVE  MemorySafe /\ LinkedAsStack /\ NoneMislaid
<1>1. MemorySafe
  <2>1. ASSUME NEW n \in Nodes PROVE obj.at[n] # "twice"
    BY DEF LfInv, NodeHolds
  <2>2. ASSUME NEW t \in Threads, At(t, {"next", "cas", "alone", "chain"})
        PROVE  obj.at[th[t].node] = "live"
    <3>1. th[t].node \in Nodes
      BY <2>2 DEF LfInv, ThreadHolds, At
    <3>2. CASE At(t, {"alone", "chain"})
      <4>1. th[t].node \in Owns(t)
        BY <3>2 DEF Owns, At
      <4> QED
        BY <3>1, <4>1, OwnedIsFree DEF LfInv
    <3>3. CASE At(t, {"next", "cas"})
      <4>1. Guards(t, th[t].node)
        BY <3>3 DEF Guards
      <4> QED
        BY <3>1, <4>1 DEF LfInv, NodeIsGuarded
    <3> QED
      BY <2>2, <3>2, <3>3 DEF At
  <2> QED
    BY <2>1, <2>2 DEF MemorySafe, SafeUntil
<1>2. LinkedAsStack
  <2>1. /\ obj.abs \in Seq(Nodes) /\ DOMAIN obj.abs = 1 .. Len(obj.abs) /\ Len(obj.abs) \in Nat
        /\ obj.head = Nth(1) /\ \A i \in DOMAIN obj.abs : obj.next[obj.abs[i]] = Nth(i + 1)
    BY DEF LfInv, LfTyped, Stacks, Linked
  <2>2. obj.head = Top(obj.abs)
    BY <2>1 DEF Top, Nth
  <2>3. ASSUME NEW i \in DOMAIN obj.abs PROVE Nth(i + 1) = Top(SubSeq(obj.abs, i + 1, Len(obj.abs)))
    <3>1. PICK s : s = SubSeq(obj.abs, i + 1, Len(obj.abs))
      OBVIOUS
    <3>2. CASE i + 1 \in DOMAIN obj.abs
      <4>1. i \in Nat /\ i + 1 \in 1 .. Len(obj.abs)
        BY <2>1, <3>2
      <4>2. Len(s) = Len(obj.abs) - i
        BY <2>1, <3>1, <4>1
      <4>3. s # <<>>
        BY <4>1, <4>2
      <4>4. s[1] = obj.abs[i + 1]
        BY <2>1, <3>1, <4>1
      <4> QED
        BY <3>1, <3>2, <4>3, <4>4 DEF Top, Nth
    <3>3. CASE i + 1 \notin DOMAIN obj.abs
      <4>1. s = <<>>
        BY <2>1, <3>1, <3>3
      <4> QED
        BY <3>1, <3>3, <4>1 DEF Top, Nth
    <3> QED
      BY <3>2, <3>3
  <2> QED
    BY <2>1, <2>2, <2>3 DEF LinkedAsStack
<1>3. NoneMislaid
  <2>1. Cardinality(Elems(obj.pending)) = Len(obj.pending)
    BY DistinctCount DEF LfInv, LfTyped, Stacks
  <2>2. ASSUME NEW n \in Nodes, obj.at[n] = "live"
        PROVE  Cardinality({i \in {1} : n \in Elems(obj.pending)}) + Cardinality({i \in {1} : n \in Elems(obj.abs)})
               + Cardinality({t \in Threads : n \in Owns(t)}) = 1
    <3>1. Cardinality({}) = 0 /\ Cardinality({1}) = 1 /\ \A x : Cardinality({x}) = 1
      BY FS_EmptySet, FS_Singleton
    <3>2. NodeHolds(n)
      BY DEF LfInv
    <3>3. CASE InStack(n) /\ ~InList(n) /\ \A t \in Threads : n \notin Owns(t)
      <4>1. /\ {i \in {1} : n \in Elems(obj.pending)} = {} /\ {i \in {1} : n \in Elems(obj.abs)} = {1}
            /\ {t \in Threads : n \in Owns(t)} = {}
        BY <3>3 DEF InStack, InList
      <4> QED
        BY <3>1, <4>1
    <3>4. CASE ~InStack(n) /\ InList(n) /\ \A t \in Threads : n \notin Owns(t)
      <4>1. {i \in {1} : n \in Elems(obj.pending)} = {1}
        BY <3>4 DEF InList
      <4>2. {i \in {1} : n \in Elems(obj.abs)} = {} /\ {t \in Threads : n \in Owns(t)} = {}
        BY <3>4 DEF InStack
      <4>3. Cardinality({i \in {1} : n \in Elems(obj.pending)}) = 1
        BY <3>1, <4>1
      <4>4. Cardinality({i \in {1} : n \in Elems(obj.abs)}) = 0 /\ Cardinality({t \in Threads : n \in Owns(t)}) = 0
        BY <3>1, <4>2
      <4> QED
        BY <4>3, <4>4
    <3>5. CASE ~InStack(n) /\ ~InList(n) /\ \E t \in Threads : n \in Owns(t) /\ \A u \in Threads : u # t => n \notin Owns(u)
      <4>1. PICK t \in Threads : n \in Owns(t) /\ \A u \in Threads : u # t => n \notin Owns(u)
        BY <3>5
      <4>2. {i \in {1} : n \in Elems(obj.pending)} = {} /\ {i \in {1} : n \in Elems(obj.abs)} = {}
        BY <3>5 DEF InStack, InList
      <4>3. {u \in Threads : n \in Owns(u)} = {t}
        BY <4>1
      <4>4. Cardinality({u \in Threads : n \in Owns(u)}) = 1
        BY <3>1, <4>3
      <4> QED
        BY <3>1, <4>2, <4>4
    <3> QED
      BY <2>2, <3>2, <3>3, <3>4, <3>5 DEF NodeHolds
  <2> QED
    BY <2>1, <2>2 DEF NoneMislaid, InOnePlace
<1> QED
  BY <1>1, <1>2, <1>3

\* A node is in the stack, on the pending list, in the hands of one thread, or freed, and what a Pop
\* has read from the head is kept for it, after every step of Emplace and Pop.
THEOREM PendingInvariant ==
    ASSUME Null \notin Nodes, IsFiniteSet(Threads)
    PROVE  Spec => []LfInv
<1>1. Init => LfInv
  BY InitLfInv
<1>2. LfInv /\ [Next]_vars => LfInv'
  BY NextLfInv
<1> QED
  BY <1>1, <1>2, PTL DEF Spec

\* No node is freed while a Pop that has read it from the head may still read it or swap it (Pop and
\* TryReclaim of lock_free_stack.h), nor freed twice.
THEOREM PendingMemorySafe ==
    ASSUME Null \notin Nodes, IsFiniteSet(Threads)
    PROVE  Spec => []MemorySafe
<1>1. LfInv => MemorySafe
  BY LfInvImplies
<1> QED
  BY <1>1, PendingInvariant, PTL

\* Each swap of the head that succeeded was a push or a pop of a stack.
THEOREM PendingIsStack ==
    ASSUME Null \notin Nodes, IsFiniteSet(Threads)
    PROVE  Spec => []LinkedAsStack
<1>1. LfInv => LinkedAsStack
  BY LfInvImplies
<1> QED
  BY <1>1, PendingInvariant, PTL

\* A popped node is on the pending list, in the hands of one thread, or freed.
THEOREM PendingNoneMislaid ==
    ASSUME Null \notin Nodes, IsFiniteSet(Threads)
    PROVE  Spec => []NoneMislaid
<1>1. LfInv => NoneMislaid
  BY LfInvImplies
<1> QED
  BY <1>1, PendingInvariant, PTL

\* A Pop of an empty stack returns without uncounting itself: from then on nobody is alone, and
\* nothing is freed.
THEOREM PendingEmptyPopsStayCounted ==
    ASSUME Null \notin Nodes, IsFiniteSet(Threads)
    PROVE  Spec => []EmptyPopsStayCounted
<1>1. LfInv => EmptyPopsStayCounted
  BY DEF LfInv
<1> QED
  BY <1>1, PendingInvariant, PTL
=============================================================================
