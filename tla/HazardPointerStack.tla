------------------------- MODULE HazardPointerStack -------------------------
(***************************************************************************)
(* HazardPointerStack (hazard_pointer_stack.h): Pop announces the node it  *)
(* is about to read in a hazard pointer of its thread; a popped node is    *)
(* freed by whoever finds it in no hazard pointer.  The announced pointers *)
(* are read one by one.  Pushing onto the list of nodes to reclaim and     *)
(* taking the list are one step each: nothing else is done to that list.   *)
(***************************************************************************)
EXTENDS LinkedStack, SequenceTheorems, FiniteSetTheorems, TLAPS

Init ==
    /\ obj = [head |-> Null, next |-> Unlinked, at |-> AllNew, abs |-> <<>>, pops |-> 0,
              hp |-> [t \in Threads |-> Null], reclaim |-> <<>>]
    /\ th = [t \in Threads |-> Idle]

(***************************************************************************)
(* Pop.  Having found the stack empty it returns with its hazard pointer   *)
(* as it is.  The loop that announces the head until it has not moved may  *)
(* end with a null head, which is then read through: the program crashes.  *)
(***************************************************************************)
Reload(t) ==
    IF obj.head = Null THEN Return(t)
    ELSE th' = [th EXCEPT ![t] = [Idle EXCEPT !.pc = "announce", !.node = obj.head]]

LoadHead(t) ==
    /\ At(t, {"idle"})
    /\ obj.pops < MaxPops
    /\ obj' = [obj EXCEPT !.pops = @ + 1]
    /\ Reload(t)

Announce(t) ==
    /\ At(t, {"announce"})
    /\ obj' = [obj EXCEPT !.hp[t] = th[t].node]
    /\ Go(t, "recheck")

\* Mutant: the head is not read again after the announcement.
RecheckNot(t) == At(t, {"recheck"}) /\ Go(t, "next") /\ UNCHANGED obj

Recheck(t) ==
    /\ At(t, {"recheck"})
    /\ th' = [th EXCEPT ![t].node = obj.head, ![t].pc = IF obj.head = th[t].node THEN "next" ELSE "announce"]
    /\ UNCHANGED obj

ReadNext(t) ==
    /\ At(t, {"next"})
    /\ th' = IF th[t].node = Null THEN [th EXCEPT ![t].pc = "crashed"]
             ELSE [th EXCEPT ![t].pc = "cas", ![t].next = obj.next[th[t].node]]
    /\ UNCHANGED obj

PopCas(t) ==
    /\ At(t, {"cas"})
    /\ \/ /\ obj.head = th[t].node
          /\ obj' = [obj EXCEPT !.head = th[t].next, !.abs = Tail(@)]
          /\ th' = [u \in Threads |-> IF u = t THEN [th[t] EXCEPT !.pc = "clear"]
                                      ELSE [th[u] EXCEPT !.lone = At(u, {"idle"})]]
       \/ obj.head # th[t].node /\ Reload(t) /\ UNCHANGED obj

\* The announcement is withdrawn; then the node itself is examined.
Clear(t) ==
    /\ At(t, {"clear"})
    /\ obj' = [obj EXCEPT !.hp[t] = Null]
    /\ th' = [th EXCEPT ![t].pc = "own", ![t].list = <<th[t].node>>, ![t].left = Threads]

(***************************************************************************)
(* OutstandingHazardPointersFor the first node of the list.                *)
(***************************************************************************)
Examine(t) ==
    /\ At(t, {"own", "others"})
    /\ th[t].list # <<>>
    /\ LET n == Head(th[t].list)
           rest == [th EXCEPT ![t].list = Tail(@), ![t].left = Threads]
       IN  \/ /\ th[t].left = {}                       \* announced by none
              /\ obj' = [obj EXCEPT !.at = Freed({n})]
              /\ th' = rest
           \/ \E u \in th[t].left :
                \/ /\ obj.hp[u] = n
                   /\ obj' = [obj EXCEPT !.reclaim = <<n>> \o @]
                   /\ th' = rest
                \/ /\ obj.hp[u] # n
                   /\ th' = [th EXCEPT ![t].left = @ \ {u}]
                   /\ UNCHANGED obj

\* DeleteNodesWithNoHazards: take the whole list and examine it.
TakeReclaim(t) ==
    /\ At(t, {"own"})
    /\ th[t].list = <<>>
    /\ obj' = [obj EXCEPT !.reclaim = <<>>]
    /\ th' = [th EXCEPT ![t].pc = "others", ![t].list = obj.reclaim]

PopDone(t) ==
    /\ At(t, {"others"})
    /\ th[t].list = <<>>
    /\ Return(t)
    /\ UNCHANGED obj

Next ==
    /\ \A t \in Threads : ~At(t, {"crashed"})
    /\ \E t \in Threads :
        \/ Emplace(t) \/ PushCas(t) \/ LoadHead(t) \/ Announce(t) \/ Recheck(t) \/ ReadNext(t)
        \/ PopCas(t) \/ Clear(t) \/ Examine(t) \/ TakeReclaim(t) \/ PopDone(t)

Spec == Init /\ [][Next]_vars

(***************************************************************************)
(* Properties.                                                             *)
(***************************************************************************)
\* What a Pop has announced and found to be the head still is not freed until
\* it has swapped the head, whoever else pops it, nor is a node freed twice.
MemorySafe == SafeUntil({"next", "cas", "clear"})

\* A popped node is on the list to reclaim, in the hands of one thread, or freed.
Owns(t) == IF At(t, {"push", "clear"}) THEN {th[t].node} ELSE Elems(th[t].list)
NoneMislaid == InOnePlace(obj.reclaim, Owns)

\* The null head is read through only when another Pop has emptied the stack
\* between two reads of this one: a single consumer never crashes.
CrashNeedsRace == \A t \in Threads : At(t, {"crashed"}) => ~th[t].lone
(***************************************************************************)
(* Proofs, for any threads and any nodes.                                  *)
(***************************************************************************)
OrNull == Nodes \cup {Null}
Places == {"idle", "push", "announce", "recheck", "next", "cas", "clear", "own", "others", "crashed"}

Stacks == [head : OrNull, next : [Nodes -> OrNull], at : [Nodes -> {"new", "live", "freed", "twice"}],
           abs : Seq(Nodes), pops : Nat, hp : [Threads -> OrNull], reclaim : Seq(Nodes)]
Callers == [pc : Places, node : OrNull, next : OrNull, list : Seq(Nodes), left : SUBSET Threads, lone : BOOLEAN]

HpTyped == obj \in Stacks /\ th \in [Threads -> Callers]

\* The node below which the i-th of the stack is linked, and the end.
InStack(n) == n \in Elems(obj.abs)
InList(n) == n \in Elems(obj.reclaim)
Nth(i) == IF i \in DOMAIN obj.abs THEN obj.abs[i] ELSE Null

Distinct(s) == \A i, j \in DOMAIN s : s[i] = s[j] => i = j

Linked ==
    /\ Distinct(obj.abs)
    /\ obj.head = Nth(1)
    /\ \A i \in DOMAIN obj.abs : obj.next[obj.abs[i]] = Nth(i + 1)

\* A node that is live is in the stack, on the list to reclaim, or in the hands of one
\* thread; the others are nowhere.
NodeHolds(n) ==
    \/ /\ obj.at[n] \in {"new", "freed"}
       /\ ~InStack(n) /\ ~InList(n) /\ \A t \in Threads : n \notin Owns(t)
    \/ /\ obj.at[n] = "live" /\ InStack(n)
       /\ ~InList(n) /\ \A t \in Threads : n \notin Owns(t)
    \/ /\ obj.at[n] = "live" /\ ~InStack(n) /\ InList(n)
       /\ \A t \in Threads : n \notin Owns(t)
    \/ /\ obj.at[n] = "live" /\ ~InStack(n) /\ ~InList(n)
       /\ \E t \in Threads : n \in Owns(t) /\ \A u \in Threads : u # t => n \notin Owns(u)

\* What a thread knows where it is.
ThreadHolds(t) ==
    /\ At(t, {"push", "cas", "clear"}) => th[t].node \in Nodes
    /\ At(t, {"own", "others"}) \/ th[t].list = <<>>
    /\ Distinct(th[t].list)
    /\ At(t, {"own"}) /\ th[t].list = <<>> => th[t].left = Threads
    /\ At(t, {"recheck", "next", "cas", "clear"}) => obj.hp[t] = th[t].node
    /\ At(t, {"cas"}) => th[t].next = obj.next[th[t].node]
    /\ At(t, {"announce", "recheck", "next", "cas"}) /\ th[t].lone => obj.head # Null /\ th[t].node # Null
    /\ At(t, {"crashed"}) => ~th[t].lone

\* The node a Pop has announced, and has then found to be the head, is kept from those who
\* would free it: nobody has it in hand to push it, and whoever examines it has yet to
\* read this thread's announcement.
Guards(t, n) == At(t, {"next", "cas"}) /\ th[t].node = n
Pushes(t, n) == At(t, {"push"}) /\ th[t].node = n
Examines(t, n) == At(t, {"own", "others"}) /\ th[t].list # <<>> /\ Head(th[t].list) = n
NodeIsGuarded(n) ==
    \A t \in Threads : Guards(t, n) =>
        /\ obj.at[n] = "live"
        /\ \A u \in Threads : ~Pushes(u, n) /\ (Examines(u, n) => t \in th[u].left)

HpInv ==
    /\ HpTyped /\ Linked /\ Distinct(obj.reclaim)
    /\ \A n \in Nodes : NodeHolds(n) /\ NodeIsGuarded(n)
    /\ \A t \in Threads : ThreadHolds(t)

\* ------------------------------------------------------------ sequences
LEMMA PushSeq ==
    ASSUME NEW S, NEW s \in Seq(S), NEW n \in S, NEW q, q = <<n>> \o s
    PROVE  /\ q \in Seq(S) /\ Len(q) = Len(s) + 1 /\ DOMAIN q = 1 .. Len(s) + 1 /\ q[1] = n
           /\ \A i \in 2 .. Len(s) + 1 : q[i] = s[i - 1]
OBVIOUS

LEMMA PopSeq ==
    ASSUME NEW S, NEW s \in Seq(S), s # <<>>
    PROVE  /\ Tail(s) \in Seq(S) /\ Head(s) = s[1] /\ s[1] \in S /\ Len(s) \in Nat \ {0}
           /\ DOMAIN s = 1 .. Len(s) /\ Len(Tail(s)) = Len(s) - 1 /\ DOMAIN Tail(s) = 1 .. Len(s) - 1
           /\ \A i \in 1 .. Len(s) - 1 : Tail(s)[i] = s[i + 1]
OBVIOUS

\* Putting what is not there keeps a sequence without repetitions.
LEMMA PushDistinct ==
    ASSUME NEW S, NEW s \in Seq(S), NEW n \in S, n \notin Elems(s), Distinct(s), NEW q, q = <<n>> \o s
    PROVE  Distinct(q) /\ \A m : m \in Elems(q) <=> m = n \/ m \in Elems(s)
<1>1. /\ Len(s) \in Nat /\ DOMAIN s = 1 .. Len(s) /\ DOMAIN q = 1 .. Len(s) + 1 /\ q[1] = n
      /\ \A i \in 2 .. Len(s) + 1 : i - 1 \in DOMAIN s /\ q[i] = s[i - 1]
  BY PushSeq
<1>2. ASSUME NEW i \in DOMAIN q, NEW j \in DOMAIN q, q[i] = q[j] PROVE i = j
  <2>1. CASE i = 1 /\ j = 1
    BY <2>1
  <2>2. CASE i = 1 /\ j # 1
    BY <1>1, <1>2, <2>2 DEF Elems
  <2>3. CASE i # 1 /\ j = 1
    BY <1>1, <1>2, <2>3 DEF Elems
  <2>4. CASE i # 1 /\ j # 1
    <3>1. i - 1 \in DOMAIN s /\ j - 1 \in DOMAIN s /\ s[i - 1] = s[j - 1]
      BY <1>1, <1>2, <2>4
    <3>2. i - 1 = j - 1
      BY <3>1 DEF Distinct
    <3> QED
      BY <1>1, <3>2
  <2> QED
    BY <2>1, <2>2, <2>3, <2>4
<1>3. ASSUME NEW m, m \in Elems(q) PROVE m = n \/ m \in Elems(s)
  BY <1>1, <1>3 DEF Elems
<1>4. n \in Elems(q)
  BY <1>1 DEF Elems
<1>5. ASSUME NEW m, m \in Elems(s) PROVE m \in Elems(q)
  <2>1. PICK i \in DOMAIN s : m = s[i]
    BY <1>5 DEF Elems
  <2>2. i \in 1 .. Len(s) /\ Len(s) \in Nat
    BY <1>1, <2>1
  <2>4. i + 1 \in 2 .. Len(s) + 1 /\ i + 1 \in 1 .. Len(s) + 1 /\ (i + 1) - 1 = i
    BY <2>2
  <2>3. q[i + 1] = m /\ i + 1 \in DOMAIN q
    BY <1>1, <2>1, <2>4
  <2> QED
    BY <2>3 DEF Elems
<1> QED
  BY <1>2, <1>3, <1>4, <1>5 DEF Distinct

LEMMA PushKeepsDistinct ==
    ASSUME NEW S, NEW s \in Seq(S), NEW n \in S, n \notin Elems(s), Distinct(s), NEW q, q = <<n>> \o s
    PROVE  Distinct(q)
BY PushDistinct

LEMMA PushElems ==
    ASSUME NEW S, NEW s \in Seq(S), NEW n \in S, n \notin Elems(s), Distinct(s), NEW q, q = <<n>> \o s
    PROVE  Elems(q) = {n} \cup Elems(s)
<1>1. \A m : m \in Elems(q) <=> m = n \/ m \in Elems(s)
  BY PushDistinct
<1> QED
  BY <1>1

\* Taking the first keeps the others.
LEMMA PopDistinct ==
    ASSUME NEW S, NEW s \in Seq(S), s # <<>>, Distinct(s)
    PROVE  /\ Distinct(Tail(s)) /\ s[1] \in Elems(s)
           /\ \A m : m \in Elems(Tail(s)) <=> m \in Elems(s) /\ m # s[1]
<1>1. /\ Len(s) \in Nat \ {0} /\ DOMAIN s = 1 .. Len(s) /\ DOMAIN Tail(s) = 1 .. Len(s) - 1
      /\ \A i \in 1 .. Len(s) - 1 : i + 1 \in DOMAIN s /\ Tail(s)[i] = s[i + 1]
  BY PopSeq
<1>2. ASSUME NEW i \in DOMAIN Tail(s), NEW j \in DOMAIN Tail(s), Tail(s)[i] = Tail(s)[j] PROVE i = j
  <2>1. i + 1 \in DOMAIN s /\ j + 1 \in DOMAIN s /\ s[i + 1] = s[j + 1]
    BY <1>1, <1>2
  <2>2. i + 1 = j + 1
    BY <2>1 DEF Distinct
  <2> QED
    BY <1>1, <2>2
<1>3. s[1] \in Elems(s)
  BY <1>1 DEF Elems
<1>4. ASSUME NEW m, m \in Elems(Tail(s)) PROVE m \in Elems(s) /\ m # s[1]
  <2>1. PICK i \in DOMAIN Tail(s) : m = Tail(s)[i]
    BY <1>4 DEF Elems
  <2>2. i + 1 \in DOMAIN s /\ i + 1 # 1 /\ m = s[i + 1] /\ 1 \in DOMAIN s
    BY <1>1, <2>1
  <2> QED
    BY <2>2 DEF Elems, Distinct
<1>5. ASSUME NEW m, m \in Elems(s), m # s[1] PROVE m \in Elems(Tail(s))
  <2>1. PICK i \in DOMAIN s : m = s[i]
    BY <1>5 DEF Elems
  <2>2. i # 1 /\ i - 1 \in 1 .. Len(s) - 1 /\ (i - 1) + 1 = i
    BY <1>1, <1>5, <2>1
  <2>3. Tail(s)[i - 1] = m /\ i - 1 \in DOMAIN Tail(s)
    BY <1>1, <2>1, <2>2
  <2> QED
    BY <2>3 DEF Elems
<1> QED
  BY <1>2, <1>3, <1>4, <1>5 DEF Distinct

\* ------------------------------------------------------------ what a step keeps
\* A record of a thread that is as it was, but for lone.
Same(t) ==
    /\ th'[t].pc = th[t].pc /\ th'[t].node = th[t].node /\ th'[t].next = th[t].next
    /\ th'[t].list = th[t].list /\ th'[t].left = th[t].left

LEMMA OwnsKept ==
    ASSUME NEW t \in Threads, Same(t)
    PROVE  /\ Owns(t)' = Owns(t)
           /\ \A n : Guards(t, n)' = Guards(t, n) /\ Pushes(t, n)' = Pushes(t, n) /\ Examines(t, n)' = Examines(t, n)
BY DEF Same, Owns, At, Elems, Guards, Pushes, Examines

LEMMA ThreadKept ==
    ASSUME NEW t \in Threads, ThreadHolds(t), Same(t), obj'.hp[t] = obj.hp[t],
           At(t, {"cas"}) => obj'.next[th[t].node] = obj.next[th[t].node],
           At(t, {"announce", "recheck", "next", "cas", "crashed"}) /\ th'[t].lone
               => th[t].lone /\ (obj.head # Null => obj'.head # Null)
    PROVE  ThreadHolds(t)'
BY DEF ThreadHolds, Same, At

\* A node that is where it was.
LEMMA NodeKept ==
    ASSUME NEW n \in Nodes, NodeHolds(n), obj'.at[n] = obj.at[n],
           InStack(n)' <=> InStack(n), InList(n)' <=> InList(n),
           \A t \in Threads : n \in Owns(t)' <=> n \in Owns(t)
    PROVE  NodeHolds(n)'
BY DEF NodeHolds

\* A node stays guarded if nobody new guards, pushes or examines it, and those who examine
\* it pass no guard by.
LEMMA GuardKept ==
    ASSUME NEW n \in Nodes, NodeIsGuarded(n), obj.at[n] = "live" => obj'.at[n] = "live",
           \A u \in Threads :
              /\ Guards(u, n)' => Guards(u, n)
              /\ Pushes(u, n)' => Pushes(u, n)
              /\ Examines(u, n)' =>
                    \/ Examines(u, n) /\ th'[u].left = th[u].left
                    \/ Threads \subseteq th'[u].left
    PROVE  NodeIsGuarded(n)'
BY DEF NodeIsGuarded

LEMMA LinksKept ==
    ASSUME Linked, obj'.abs = obj.abs, obj'.head = obj.head,
           \A i \in DOMAIN obj.abs : obj'.next[obj.abs[i]] = obj.next[obj.abs[i]]
    PROVE  Linked'
BY DEF Linked, Nth, Distinct

\* A node of the stack is in nobody's hands.
LEMMA StackedIsFree ==
    ASSUME NEW n \in Nodes, NodeHolds(n), InStack(n), NEW t \in Threads
    PROVE  obj.at[n] = "live" /\ n \notin Owns(t) /\ ~InList(n)
BY DEF NodeHolds

LEMMA HandsAreOwned ==
    ASSUME HpTyped, NEW t \in Threads, NEW n
    PROVE  /\ Pushes(t, n) => n \in Owns(t)
           /\ Examines(t, n) => n \in Owns(t)
<1>1. th[t].list \in Seq(Nodes)
  BY DEF HpTyped, Callers
<1>2. th[t].list # <<>> => Head(th[t].list) \in Elems(th[t].list)
  <2>1. SUFFICES ASSUME th[t].list # <<>> PROVE Head(th[t].list) \in Elems(th[t].list)
    OBVIOUS
  <2>2. Head(th[t].list) = th[t].list[1] /\ 1 \in DOMAIN th[t].list
    BY <1>1, <2>1, PopSeq
  <2> QED
    BY <2>2 DEF Elems
<1> QED
  BY <1>2 DEF Pushes, Examines, Owns, At

LEMMA IdleIsCaller == Idle \in Callers
BY DEF Idle, Callers, Places, OrNull

LEMMA RecordWritten ==
    ASSUME HpTyped, NEW t \in Threads, NEW r \in Callers, th' = [th EXCEPT ![t] = r]
    PROVE  th' \in [Threads -> Callers] /\ th'[t] = r /\ \A u \in Threads : u # t => th'[u] = th[u]
BY DEF HpTyped

LEMMA PcWritten ==
    ASSUME HpTyped, NEW t \in Threads, NEW p \in Places, th' = [th EXCEPT ![t].pc = p]
    PROVE  /\ th' \in [Threads -> Callers] /\ \A u \in Threads : u # t => th'[u] = th[u]
           /\ th'[t].pc = p /\ th'[t].node = th[t].node /\ th'[t].next = th[t].next
           /\ th'[t].list = th[t].list /\ th'[t].left = th[t].left /\ th'[t].lone = th[t].lone
<1>1. th[t] \in Callers
  BY DEF HpTyped
<1>2. PICK r : r = [th[t] EXCEPT !.pc = p]
  OBVIOUS
<1>3. /\ r \in Callers /\ r.pc = p /\ r.node = th[t].node /\ r.next = th[t].next
      /\ r.list = th[t].list /\ r.left = th[t].left /\ r.lone = th[t].lone
  BY <1>1, <1>2 DEF Callers
<1>4. th' = [th EXCEPT ![t] = r]
  BY <1>2
<1> QED
  BY <1>3, <1>4, RecordWritten

\* ------------------------------------------------------------ Pop up to the swap
\* A step of a thread with no node in hand, which changes nothing but its own record and
\* hazard pointer.
LEMMA QuietStep ==
    ASSUME HpInv, NEW t \in Threads, HpTyped',
           obj'.head = obj.head, obj'.next = obj.next, obj'.at = obj.at, obj'.abs = obj.abs,
           obj'.reclaim = obj.reclaim,
           \A u \in Threads : u # t => th'[u] = th[u] /\ obj'.hp[u] = obj.hp[u],
           th[t].pc \notin {"push", "clear"}, th'[t].pc \notin {"push", "clear"},
           th[t].list = <<>>, th'[t].list = <<>>, ThreadHolds(t)',
           \A n \in Nodes : Guards(t, n)' => Guards(t, n) \/ InStack(n)
    PROVE  HpInv'
<1>1. Owns(t) = {} /\ Owns(t)' = {}
  BY DEF Owns, At, Elems
<1>2. \A u \in Threads : u # t => Same(u)
  BY DEF Same
<1>3. \A n : ~Pushes(t, n)' /\ ~Examines(t, n)'
  BY DEF Pushes, Examines, At
<1>4. \A n : (InStack(n)' <=> InStack(n)) /\ (InList(n)' <=> InList(n))
  BY DEF InStack, InList
<1>5. ASSUME NEW n \in Nodes PROVE NodeHolds(n)'
  BY <1>1, <1>2, <1>4, OwnsKept, NodeKept DEF HpInv
<1>6. ASSUME NEW n \in Nodes PROVE NodeIsGuarded(n)'
  <2>1. CASE InStack(n)
    <3>1. ASSUME NEW u \in Threads PROVE ~Pushes(u, n)' /\ ~Examines(u, n)'
      <4>1. ~Pushes(u, n) /\ ~Examines(u, n)
        BY <2>1, StackedIsFree, HandsAreOwned DEF HpInv
      <4> QED
        BY <4>1, <1>2, <1>3, OwnsKept
    <3>2. obj'.at[n] = "live"
      BY <2>1, StackedIsFree DEF HpInv
    <3> QED
      BY <3>1, <3>2 DEF NodeIsGuarded
  <2>2. CASE ~InStack(n)
    <3>1. ASSUME NEW u \in Threads
          PROVE  /\ Guards(u, n)' => Guards(u, n)
                 /\ Pushes(u, n)' => Pushes(u, n)
                 /\ Examines(u, n)' => Examines(u, n) /\ th'[u].left = th[u].left
      BY <1>2, <1>3, <2>2, OwnsKept DEF Same
    <3> QED
      BY <3>1, GuardKept DEF HpInv
  <2> QED
    BY <2>1, <2>2
<1>7. ASSUME NEW u \in Threads, u # t PROVE ThreadHolds(u)'
  BY <1>2, <1>7, ThreadKept DEF HpInv
<1>8. Linked' /\ Distinct(obj.reclaim)'
  BY LinksKept DEF HpInv, Distinct
<1> QED
  BY <1>5, <1>6, <1>7, <1>8 DEF HpInv

\* Reload leaves the thread before the announcement of a head that is not null, or idle.
LEMMA ReloadFacts ==
    ASSUME HpTyped, NEW t \in Threads, Reload(t)
    PROVE  /\ th' \in [Threads -> Callers] /\ \A u \in Threads : u # t => th'[u] = th[u]
           /\ th'[t].list = <<>>
           /\ \/ th'[t].pc = "idle"
              \/ th'[t].pc = "announce" /\ obj.head # Null /\ th'[t].node = obj.head
<1>1. obj.head \in OrNull /\ Null \in OrNull
  BY DEF HpTyped, Stacks, OrNull
<1>2. CASE obj.head = Null
  <2>1. th' = [th EXCEPT ![t] = Idle]
    BY <1>2 DEF Reload, Return
  <2>2. Idle \in Callers
    BY <1>1 DEF Idle, Callers, Places
  <2> QED
    BY <2>1, <2>2 DEF HpTyped, Idle
<1>3. CASE obj.head # Null
  <2>1. th' = [th EXCEPT ![t] = [Idle EXCEPT !.pc = "announce", !.node = obj.head]]
    BY <1>3 DEF Reload
  <2>2. [Idle EXCEPT !.pc = "announce", !.node = obj.head] \in Callers
    BY <1>1, IdleIsCaller DEF Callers, Places
  <2> QED
    BY <1>3, <2>1, <2>2 DEF HpTyped, Idle
<1> QED
  BY <1>2, <1>3

LEMMA LoadHeadPreserves ==
    ASSUME HpInv, NEW t \in Threads, LoadHead(t)
    PROVE  HpInv'
<1>1. /\ th[t].pc = "idle" /\ obj' = [obj EXCEPT !.pops = @ + 1] /\ Reload(t) /\ HpTyped /\ ThreadHolds(t)
  BY DEF LoadHead, At, HpInv
<1>2. /\ obj'.head = obj.head /\ obj'.next = obj.next /\ obj'.at = obj.at /\ obj'.abs = obj.abs
      /\ obj'.reclaim = obj.reclaim /\ obj'.hp = obj.hp /\ obj' \in Stacks
  BY <1>1 DEF HpTyped, Stacks
<1>3. /\ th' \in [Threads -> Callers] /\ \A u \in Threads : u # t => th'[u] = th[u]
      /\ th'[t].list = <<>>
      /\ \/ th'[t].pc = "idle"
         \/ th'[t].pc = "announce" /\ obj.head # Null /\ th'[t].node = obj.head
  BY <1>1, ReloadFacts
<1>4. HpTyped' /\ th[t].list = <<>>
  BY <1>1, <1>2, <1>3 DEF HpTyped, ThreadHolds, At
<1>5. ThreadHolds(t)'
  BY <1>2, <1>3 DEF ThreadHolds, At, Distinct
<1>6. \A n \in Nodes : ~Guards(t, n)'
  BY <1>3 DEF Guards, At
<1> QED
  BY <1>1, <1>2, <1>3, <1>4, <1>5, <1>6, QuietStep

LEMMA AnnouncePreserves ==
    ASSUME HpInv, NEW t \in Threads, Announce(t)
    PROVE  HpInv'
<1>1. /\ th[t].pc = "announce" /\ obj' = [obj EXCEPT !.hp[t] = th[t].node]
      /\ th' = [th EXCEPT ![t].pc = "recheck"] /\ HpTyped /\ ThreadHolds(t)
  BY DEF Announce, Go, At, HpInv
<1>2. /\ obj'.head = obj.head /\ obj'.next = obj.next /\ obj'.at = obj.at /\ obj'.abs = obj.abs
      /\ obj'.reclaim = obj.reclaim /\ obj'.hp = [obj.hp EXCEPT ![t] = th[t].node]
  BY <1>1 DEF HpTyped, Stacks
<1>3. th[t].node \in OrNull /\ obj.hp \in [Threads -> OrNull]
  BY <1>1 DEF HpTyped, Callers, Stacks
<1>4. obj' \in Stacks /\ obj'.hp[t] = th[t].node /\ \A u \in Threads : u # t => obj'.hp[u] = obj.hp[u]
  <2>1. obj'.hp \in [Threads -> OrNull] /\ obj' = [obj EXCEPT !.hp = obj'.hp]
    BY <1>1, <1>2, <1>3 DEF HpTyped, Stacks
  <2>2. obj' \in Stacks
    BY <1>1, <2>1 DEF HpTyped, Stacks
  <2> QED
    BY <1>2, <1>3, <2>2
<1>5. /\ th' \in [Threads -> Callers] /\ \A u \in Threads : u # t => th'[u] = th[u]
      /\ th'[t].pc = "recheck" /\ th'[t].node = th[t].node /\ th'[t].list = th[t].list
      /\ th'[t].lone = th[t].lone
  <2>1. "recheck" \in Places
    BY DEF Places
  <2> QED
    BY <1>1, <2>1, PcWritten
<1>6. HpTyped' /\ th[t].list = <<>> /\ th'[t].list = <<>>
  BY <1>1, <1>4, <1>5 DEF HpTyped, ThreadHolds, At
<1>7. ThreadHolds(t)'
  BY <1>1, <1>2, <1>4, <1>5, <1>6 DEF ThreadHolds, At, Distinct
<1>8. \A n \in Nodes : ~Guards(t, n)'
  BY <1>5 DEF Guards, At
<1> QED
  BY <1>1, <1>2, <1>4, <1>5, <1>6, <1>7, <1>8, QuietStep

\* The head that is still the one announced is in the stack.
LEMMA RecheckPreserves ==
    ASSUME HpInv, Null \notin Nodes, NEW t \in Threads, Recheck(t)
    PROVE  HpInv'
<1> DEFINE pc == IF obj.head = th[t].node THEN "next" ELSE "announce"
<1>1. /\ th[t].pc = "recheck" /\ obj' = obj /\ HpTyped /\ ThreadHolds(t)
      /\ th' = [th EXCEPT ![t].node = obj.head, ![t].pc = pc]
  BY DEF Recheck, At, HpInv
<1>2. obj.head \in OrNull
  BY <1>1 DEF HpTyped, Stacks
<1>3. pc \in Places /\ pc \in {"next", "announce"} /\ (pc = "next" => obj.head = th[t].node)
  BY DEF Places
<1> HIDE DEF pc
<1>4. /\ th' \in [Threads -> Callers] /\ \A u \in Threads : u # t => th'[u] = th[u]
      /\ th'[t].pc = pc /\ th'[t].node = obj.head /\ th'[t].list = th[t].list
      /\ th'[t].lone = th[t].lone
  BY <1>1, <1>2, <1>3 DEF HpTyped, Callers
<1>5. HpTyped' /\ th[t].list = <<>> /\ th'[t].list = <<>>
  BY <1>1, <1>4 DEF HpTyped, ThreadHolds, At
<1>6. ThreadHolds(t)'
  BY <1>1, <1>3, <1>4, <1>5 DEF ThreadHolds, At, Distinct
<1>7. ASSUME NEW n \in Nodes, Guards(t, n)' PROVE InStack(n)
  <2>1. obj.head = n
    BY <1>4, <1>7 DEF Guards
  <2>2. obj.head = Nth(1)
    BY DEF HpInv, Linked
  <2>3. CASE 1 \in DOMAIN obj.abs
    BY <2>1, <2>2, <2>3 DEF Nth, InStack, Elems
  <2>4. CASE 1 \notin DOMAIN obj.abs
    BY <2>1, <2>2, <2>4 DEF Nth
  <2> QED
    BY <2>3, <2>4
<1> QED
  BY <1>1, <1>3, <1>4, <1>5, <1>6, <1>7, QuietStep

LEMMA ReadNextPreserves ==
    ASSUME HpInv, NEW t \in Threads, ReadNext(t)
    PROVE  HpInv'
<1>1. /\ th[t].pc = "next" /\ obj' = obj /\ HpTyped /\ ThreadHolds(t)
      /\ th' = IF th[t].node = Null THEN [th EXCEPT ![t].pc = "crashed"]
               ELSE [th EXCEPT ![t].pc = "cas", ![t].next = obj.next[th[t].node]]
  BY DEF ReadNext, At, HpInv
<1>2. /\ th' \in [Threads -> Callers] /\ \A u \in Threads : u # t => th'[u] = th[u]
      /\ th'[t].node = th[t].node /\ th'[t].list = th[t].list /\ th'[t].lone = th[t].lone
      /\ \/ th'[t].pc = "crashed" /\ th[t].node = Null
         \/ th'[t].pc = "cas" /\ th[t].node \in Nodes /\ th'[t].next = obj.next[th[t].node]
  <2>1. CASE th[t].node = Null
    <3>1. "crashed" \in Places
      BY DEF Places
    <3>2. th' = [th EXCEPT ![t].pc = "crashed"]
      BY <1>1, <2>1
    <3> QED
      BY <1>1, <2>1, <3>1, <3>2, PcWritten
  <2>2. CASE th[t].node # Null
    <3>1. th[t].node \in Nodes /\ obj.next[th[t].node] \in OrNull /\ th[t] \in Callers
      BY <1>1, <2>2 DEF HpTyped, Stacks, Callers, OrNull
    <3>2. PICK r : r = [th[t] EXCEPT !.pc = "cas", !.next = obj.next[th[t].node]]
      OBVIOUS
    <3>3. /\ r \in Callers /\ r.pc = "cas" /\ r.next = obj.next[th[t].node] /\ r.node = th[t].node
          /\ r.list = th[t].list /\ r.lone = th[t].lone
      BY <3>1, <3>2 DEF Callers, Places
    <3>4. th' = [th EXCEPT ![t] = r]
      BY <1>1, <2>2, <3>2
    <3> QED
      BY <1>1, <3>1, <3>3, <3>4, RecordWritten
  <2> QED
    BY <2>1, <2>2
<1>3. HpTyped' /\ th[t].list = <<>> /\ th'[t].list = <<>>
  BY <1>1, <1>2 DEF HpTyped, ThreadHolds, At
<1>4. ThreadHolds(t)'
  BY <1>1, <1>2, <1>3 DEF ThreadHolds, At, Distinct
<1>5. \A n \in Nodes : Guards(t, n)' => Guards(t, n)
  BY <1>1, <1>2 DEF Guards, At
<1> QED
  BY <1>1, <1>2, <1>3, <1>4, <1>5, QuietStep

\* A Pop that lost the swap begins again.
LEMMA LostSwapPreserves ==
    ASSUME HpInv, NEW t \in Threads, th[t].pc = "cas", Reload(t), UNCHANGED obj
    PROVE  HpInv'
<1>1. HpTyped /\ ThreadHolds(t)
  BY DEF HpInv
<1>2. /\ th' \in [Threads -> Callers] /\ \A u \in Threads : u # t => th'[u] = th[u]
      /\ th'[t].list = <<>>
      /\ \/ th'[t].pc = "idle"
         \/ th'[t].pc = "announce" /\ obj.head # Null /\ th'[t].node = obj.head
  BY <1>1, ReloadFacts
<1>3. HpTyped' /\ th[t].list = <<>>
  BY <1>1, <1>2 DEF HpTyped, ThreadHolds, At
<1>4. ThreadHolds(t)'
  BY <1>2 DEF ThreadHolds, At, Distinct
<1>5. \A n \in Nodes : ~Guards(t, n)'
  BY <1>2 DEF Guards, At
<1> QED
  BY <1>2, <1>3, <1>4, <1>5, QuietStep

LEMMA PopDonePreserves ==
    ASSUME HpInv, Null \notin Nodes, NEW t \in Threads, PopDone(t)
    PROVE  HpInv'
<1>1. /\ th[t].pc = "others" /\ th[t].list = <<>> /\ obj' = obj /\ HpTyped
      /\ th' = [th EXCEPT ![t] = Idle]
  BY DEF PopDone, Return, At, HpInv
<1>2. /\ th' \in [Threads -> Callers] /\ \A u \in Threads : u # t => th'[u] = th[u]
      /\ th'[t].pc = "idle" /\ th'[t].list = <<>>
  <2>1. Idle \in Callers
    BY DEF Idle, Callers, Places, OrNull
  <2> QED
    BY <1>1, <2>1 DEF HpTyped, Idle
<1>3. HpTyped'
  BY <1>1, <1>2 DEF HpTyped
<1>4. ThreadHolds(t)'
  BY <1>2 DEF ThreadHolds, At, Distinct
<1>5. \A n \in Nodes : ~Guards(t, n)'
  BY <1>2 DEF Guards, At
<1> QED
  BY <1>1, <1>2, <1>3, <1>4, <1>5, QuietStep

\* ------------------------------------------------------------ Emplace
LEMMA EmplacePreserves ==
    ASSUME HpInv, Null \notin Nodes, NEW t \in Threads, Emplace(t)
    PROVE  HpInv'
<1>1. PICK n \in Nodes :
        /\ obj.at[n] = "new"
        /\ obj' = [obj EXCEPT !.at[n] = "live", !.next[n] = obj.head]
        /\ th' = [th EXCEPT ![t] = [Idle EXCEPT !.pc = "push", !.node = n]]
  BY DEF Emplace
<1>2. th[t].pc = "idle" /\ HpTyped /\ ThreadHolds(t) /\ NodeHolds(n) /\ th[t].list = <<>>
  BY DEF Emplace, At, HpInv, ThreadHolds
<1>3. /\ obj'.head = obj.head /\ obj'.abs = obj.abs /\ obj'.reclaim = obj.reclaim /\ obj'.hp = obj.hp
      /\ obj'.at[n] = "live" /\ \A m \in Nodes : m # n => obj'.at[m] = obj.at[m] /\ obj'.next[m] = obj.next[m]
      /\ obj' \in Stacks
  <2>1. PICK a, x : a = [obj.at EXCEPT ![n] = "live"] /\ x = [obj.next EXCEPT ![n] = obj.head]
    OBVIOUS
  <2>2. /\ a \in [Nodes -> {"new", "live", "freed", "twice"}] /\ a[n] = "live"
        /\ \A m \in Nodes : m # n => a[m] = obj.at[m]
    BY <1>2, <2>1 DEF HpTyped, Stacks
  <2>3. x \in [Nodes -> OrNull] /\ \A m \in Nodes : m # n => x[m] = obj.next[m]
    BY <1>2, <2>1 DEF HpTyped, Stacks
  <2>4. obj' = [obj EXCEPT !.at = a, !.next = x]
    BY <1>1, <1>2, <2>1 DEF HpTyped, Stacks
  <2> QED
    BY <1>2, <2>2, <2>3, <2>4 DEF HpTyped, Stacks
<1>4. /\ th' \in [Threads -> Callers] /\ \A u \in Threads : u # t => th'[u] = th[u]
      /\ th'[t].pc = "push" /\ th'[t].node = n /\ th'[t].list = <<>>
  <2>1. PICK r : r = [Idle EXCEPT !.pc = "push", !.node = n]
    OBVIOUS
  <2>2. r \in Callers /\ r.pc = "push" /\ r.node = n /\ r.list = <<>>
    <3>1. n \in OrNull /\ "push" \in Places
      BY DEF OrNull, Places
    <3>2. r \in Callers /\ r.pc = "push" /\ r.node = n /\ r.list = Idle.list
      BY <2>1, <3>1, IdleIsCaller DEF Callers
    <3> QED
      BY <3>2 DEF Idle
  <2> QED
    BY <1>1, <1>2, <2>1, <2>2, RecordWritten
<1>5. HpTyped'
  BY <1>3, <1>4 DEF HpTyped
<1>6. Owns(t) = {} /\ Owns(t)' = {n}
  BY <1>2, <1>4 DEF Owns, At, Elems
<1>7. \A u \in Threads : u # t => Same(u)
  BY <1>4 DEF Same
<1>8. ~InStack(n) /\ ~InList(n) /\ \A u \in Threads : n \notin Owns(u)
  BY <1>1, <1>2 DEF NodeHolds
<1>9. \A m : (InStack(m)' <=> InStack(m)) /\ (InList(m)' <=> InList(m))
  BY <1>3 DEF InStack, InList
<1>10. ASSUME NEW m \in Nodes PROVE NodeHolds(m)'
  <2>1. CASE m = n
    BY <1>3, <1>6, <1>7, <1>8, <1>9, <2>1, OwnsKept DEF NodeHolds
  <2>2. CASE m # n
    BY <1>3, <1>6, <1>7, <1>9, <2>2, OwnsKept, NodeKept DEF HpInv
  <2> QED
    BY <2>1, <2>2
<1>11. ASSUME NEW m \in Nodes PROVE NodeIsGuarded(m)'
  <2>1. \A u \in Threads : ~Guards(u, n)
    BY <1>1 DEF HpInv, NodeIsGuarded
  <2>2. \A k : ~Guards(t, k)' /\ ~Examines(t, k)' /\ (Pushes(t, k)' => k = n)
    BY <1>4 DEF Guards, Examines, Pushes, At
  <2>3. CASE m = n
    <3>1. \A u \in Threads : ~Guards(u, n)'
      BY <1>7, <2>1, <2>2, OwnsKept
    <3> QED
      BY <2>3, <3>1 DEF NodeIsGuarded
  <2>4. CASE m # n
    <3>1. ASSUME NEW u \in Threads
          PROVE  /\ Guards(u, m)' => Guards(u, m)
                 /\ Pushes(u, m)' => Pushes(u, m)
                 /\ Examines(u, m)' => Examines(u, m) /\ th'[u].left = th[u].left
      BY <1>7, <2>2, <2>4, OwnsKept DEF Same
    <3> QED
      BY <1>3, <2>4, <3>1, GuardKept DEF HpInv
  <2> QED
    BY <2>3, <2>4
<1>12. ASSUME NEW u \in Threads PROVE ThreadHolds(u)'
  <2>1. CASE u = t
    BY <1>4, <2>1 DEF ThreadHolds, At, Distinct
  <2>2. CASE u # t
    <3>1. At(u, {"cas"}) => th[u].node \in Nodes /\ th[u].node # n
      BY <1>1 DEF HpInv, ThreadHolds, NodeIsGuarded, Guards, At
    <3>2. At(u, {"cas"}) => obj'.next[th[u].node] = obj.next[th[u].node]
      BY <1>3, <3>1
    <3> QED
      BY <1>3, <1>4, <1>7, <2>2, <3>2, ThreadKept DEF HpInv
  <2> QED
    BY <2>1, <2>2
<1>13. Linked' /\ Distinct(obj.reclaim)'
  <2>1. \A i \in DOMAIN obj.abs : obj.abs[i] \in Nodes /\ obj.abs[i] # n
    BY <1>2, <1>8 DEF InStack, Elems, HpTyped, Stacks
  <2> QED
    BY <1>3, <2>1, LinksKept DEF HpInv, Distinct
<1> QED
  BY <1>5, <1>10, <1>11, <1>12, <1>13 DEF HpInv

LEMMA PushPreserves ==
    ASSUME HpInv, Null \notin Nodes, NEW t \in Threads, th[t].pc = "push", NEW n, n = th[t].node,
           obj.next[n] = obj.head, NEW q, q = <<n>> \o obj.abs,
           Distinct(q), Elems(q) = {n} \cup Elems(obj.abs),
           obj' = [obj EXCEPT !.head = n, !.abs = q], th' = [th EXCEPT ![t] = Idle]
    PROVE  HpInv'
<1>1. /\ HpTyped /\ ThreadHolds(t) /\ th[t].list = <<>> /\ n \in Nodes /\ NodeHolds(n)
      /\ obj.abs \in Seq(Nodes)
  BY DEF HpInv, ThreadHolds, At, HpTyped, Stacks
<1>3. /\ q \in Seq(Nodes) /\ DOMAIN q = 1 .. Len(obj.abs) + 1 /\ q[1] = n
      /\ \A i \in 2 .. Len(obj.abs) + 1 : q[i] = obj.abs[i - 1]
      /\ Len(obj.abs) \in Nat /\ DOMAIN obj.abs = 1 .. Len(obj.abs)
  BY <1>1, PushSeq
<1>4. /\ obj'.head = n /\ obj'.abs = q /\ obj'.reclaim = obj.reclaim /\ obj'.hp = obj.hp
      /\ obj'.at = obj.at /\ obj'.next = obj.next /\ obj' \in Stacks
  BY <1>1, <1>3 DEF HpTyped, Stacks, OrNull
<1>5. /\ th' \in [Threads -> Callers] /\ \A u \in Threads : u # t => th'[u] = th[u]
      /\ th'[t].pc = "idle" /\ th'[t].list = <<>>
  BY <1>1, IdleIsCaller, RecordWritten DEF Idle
<1>6. HpTyped'
  BY <1>4, <1>5 DEF HpTyped
<1>7. Owns(t) = {n} /\ Owns(t)' = {}
  BY <1>5 DEF Owns, At, Elems
<1>8. \A u \in Threads : u # t => Same(u)
  BY <1>5 DEF Same
<1>9. /\ obj.at[n] = "live" /\ ~InStack(n) /\ ~InList(n)
      /\ \A u \in Threads : u # t => n \notin Owns(u)
  BY <1>1, <1>7 DEF NodeHolds
<1>10. Distinct(obj.abs)' /\ \A m : InStack(m)' <=> m = n \/ InStack(m)
  <2>1. Distinct(obj.abs)'
    BY <1>4
  <2>2. \A m : InStack(m)' <=> m \in Elems(q)
    BY <1>4 DEF InStack
  <2> QED
    BY <2>1, <2>2 DEF InStack
<1>11. \A m : InList(m)' <=> InList(m)
  BY <1>4 DEF InList
<1>12. ASSUME NEW m \in Nodes PROVE NodeHolds(m)'
  <2>1. CASE m = n
    BY <1>4, <1>7, <1>8, <1>9, <1>10, <1>11, <2>1, OwnsKept DEF NodeHolds
  <2>2. CASE m # n
    BY <1>4, <1>7, <1>8, <1>10, <1>11, <2>2, OwnsKept, NodeKept DEF HpInv
  <2> QED
    BY <2>1, <2>2
<1>13. ASSUME NEW m \in Nodes PROVE NodeIsGuarded(m)'
  <2>1. \A k : ~Guards(t, k)' /\ ~Examines(t, k)' /\ ~Pushes(t, k)'
    BY <1>5 DEF Guards, Examines, Pushes, At
  <2>2. ASSUME NEW u \in Threads
        PROVE  /\ Guards(u, m)' => Guards(u, m)
               /\ Pushes(u, m)' => Pushes(u, m)
               /\ Examines(u, m)' => Examines(u, m) /\ th'[u].left = th[u].left
    BY <1>8, <2>1, OwnsKept DEF Same
  <2> QED
    BY <1>4, <2>2, GuardKept DEF HpInv
<1>14. ASSUME NEW u \in Threads PROVE ThreadHolds(u)'
  <2>1. CASE u = t
    BY <1>5, <2>1 DEF ThreadHolds, At, Distinct
  <2>2. CASE u # t
    BY <1>1, <1>4, <1>5, <1>8, <2>2, ThreadKept DEF HpInv
  <2> QED
    BY <2>1, <2>2
<1>15. obj'.head = Nth(1)' /\ \A i \in DOMAIN obj'.abs : obj'.next[obj'.abs[i]] = Nth(i + 1)'
  <2>1. obj'.head = Nth(1)'
    BY <1>3, <1>4 DEF Nth
  <2>2. ASSUME NEW i \in 1 .. Len(obj.abs) + 1 PROVE Nth(i + 1)' = Nth(i)
    BY <1>3, <1>4 DEF Nth
  <2>3. obj'.next[q[1]] = Nth(2)'
    <3>1. obj.head = Nth(1) /\ 1 \in 1 .. Len(obj.abs) + 1 /\ 1 + 1 = 2
      BY <1>3 DEF HpInv, Linked
    <3>2. Nth(2)' = Nth(1)
      BY <2>2, <3>1
    <3> QED
      BY <1>3, <1>4, <3>1, <3>2
  <2>4. ASSUME NEW i \in 2 .. Len(obj.abs) + 1 PROVE obj'.next[q[i]] = Nth(i + 1)'
    <3>1. i - 1 \in DOMAIN obj.abs /\ (i - 1) + 1 = i /\ i \in 1 .. Len(obj.abs) + 1
      BY <1>3
    <3>2. obj.next[obj.abs[i - 1]] = Nth(i)
      BY <3>1 DEF HpInv, Linked
    <3> QED
      BY <1>3, <1>4, <2>2, <3>1, <3>2
  <2> QED
    BY <1>3, <1>4, <2>1, <2>3, <2>4
<1>16. Linked' /\ Distinct(obj.reclaim)'
  BY <1>4, <1>10, <1>15 DEF HpInv, Linked, Distinct
<1> QED
  BY <1>6, <1>12, <1>13, <1>14, <1>16 DEF HpInv

\* The head has moved: the node's next is read again.
LEMMA PushRetryPreserves ==
    ASSUME HpInv, NEW t \in Threads, th[t].pc = "push", NEW n, n = th[t].node,
           obj' = [obj EXCEPT !.next[n] = obj.head], UNCHANGED th
    PROVE  HpInv'
<1>1. /\ HpTyped /\ ThreadHolds(t) /\ th[t].list = <<>> /\ n \in Nodes /\ NodeHolds(n)
  BY DEF HpInv, ThreadHolds, At
<1>2. /\ obj'.head = obj.head /\ obj'.abs = obj.abs /\ obj'.reclaim = obj.reclaim /\ obj'.hp = obj.hp
      /\ obj'.at = obj.at /\ \A m \in Nodes : m # n => obj'.next[m] = obj.next[m]
      /\ obj' \in Stacks
  BY <1>1 DEF HpTyped, Stacks
<1>3. HpTyped'
  BY <1>1, <1>2 DEF HpTyped
<1>4. n \in Owns(t) /\ Pushes(t, n)
  BY DEF Owns, At, Pushes
<1>5. \A u \in Threads : Same(u)
  BY DEF Same
<1>6. ~InStack(n)
  BY <1>1, <1>4 DEF NodeHolds
<1>7. \A m : (InStack(m)' <=> InStack(m)) /\ (InList(m)' <=> InList(m))
  BY <1>2 DEF InStack, InList
<1>8. ASSUME NEW m \in Nodes PROVE NodeHolds(m)'
  BY <1>2, <1>5, <1>7, OwnsKept, NodeKept DEF HpInv
<1>9. ASSUME NEW m \in Nodes PROVE NodeIsGuarded(m)'
  BY <1>2, <1>5, OwnsKept, GuardKept DEF HpInv, Same
<1>10. ASSUME NEW u \in Threads PROVE ThreadHolds(u)'
  <2>1. At(u, {"cas"}) => th[u].node \in Nodes /\ th[u].node # n
    BY <1>4 DEF HpInv, ThreadHolds, NodeIsGuarded, Guards, At
  <2>2. At(u, {"cas"}) => obj'.next[th[u].node] = obj.next[th[u].node]
    BY <1>2, <2>1
  <2> QED
    BY <1>2, <1>5, <2>2, ThreadKept DEF HpInv
<1>11. Linked' /\ Distinct(obj.reclaim)'
  <2>1. \A i \in DOMAIN obj.abs : obj.abs[i] \in Nodes /\ obj.abs[i] # n
    BY <1>1, <1>6 DEF InStack, Elems, HpTyped, Stacks
  <2> QED
    BY <1>2, <2>1, LinksKept DEF HpInv, Distinct
<1> QED
  BY <1>3, <1>8, <1>9, <1>10, <1>11 DEF HpInv

\* ------------------------------------------------------------ the swap of Pop
\* It takes the node on top: what was read of the node's next is still there.  Whoever else
\* pops is no longer alone.
LEMMA PopPreserves ==
    ASSUME HpInv, Null \notin Nodes, NEW t \in Threads, th[t].pc = "cas", NEW n, n = th[t].node, obj.head = n,
           obj' = [obj EXCEPT !.head = th[t].next, !.abs = Tail(@)],
           th' = [u \in Threads |-> IF u = t THEN [th[t] EXCEPT !.pc = "clear"]
                                    ELSE [th[u] EXCEPT !.lone = At(u, {"idle"})]]
    PROVE  HpInv'
<1>1. /\ HpTyped /\ ThreadHolds(t) /\ th[t].list = <<>> /\ n \in Nodes /\ NodeHolds(n)
      /\ obj.abs \in Seq(Nodes) /\ th[t].next = obj.next[n] /\ th[t].next \in OrNull /\ obj.hp[t] = n
  BY DEF HpInv, ThreadHolds, At, HpTyped, Stacks, Callers
<1>2. obj.abs # <<>> /\ obj.abs[1] = n /\ 1 \in DOMAIN obj.abs
  <2>1. Nth(1) = n
    BY DEF HpInv, Linked
  <2>2. 1 \in DOMAIN obj.abs /\ obj.abs[1] = n
    BY <1>1, <2>1 DEF Nth
  <2> QED
    BY <2>2
<1>3. /\ Tail(obj.abs) \in Seq(Nodes) /\ Len(obj.abs) \in Nat \ {0} /\ DOMAIN obj.abs = 1 .. Len(obj.abs)
      /\ DOMAIN Tail(obj.abs) = 1 .. Len(obj.abs) - 1
      /\ \A i \in 1 .. Len(obj.abs) - 1 : Tail(obj.abs)[i] = obj.abs[i + 1]
  BY <1>1, <1>2, PopSeq
<1>4. /\ obj'.head = obj.next[n] /\ obj'.abs = Tail(obj.abs) /\ obj'.reclaim = obj.reclaim /\ obj'.hp = obj.hp
      /\ obj'.at = obj.at /\ obj'.next = obj.next /\ obj' \in Stacks
  BY <1>1, <1>3 DEF HpTyped, Stacks
<1>5. /\ th'[t] \in Callers /\ th'[t].pc = "clear" /\ th'[t].node = n /\ th'[t].list = <<>>
  <2>1. th[t] \in Callers /\ th'[t] = [th[t] EXCEPT !.pc = "clear"]
    BY <1>1 DEF HpTyped
  <2> QED
    BY <1>1, <2>1 DEF Callers, Places
<1>6. ASSUME NEW u \in Threads, u # t
      PROVE  th'[u] \in Callers /\ Same(u) /\ (th'[u].lone => th[u].pc = "idle")
  <2>1. PICK l \in BOOLEAN : l <=> At(u, {"idle"})
    OBVIOUS
  <2>2. th[u] \in Callers /\ th'[u] = [th[u] EXCEPT !.lone = At(u, {"idle"})]
    BY <1>1, <1>6 DEF HpTyped
  <2>3. At(u, {"idle"}) \in BOOLEAN
    BY DEF At
  <2> QED
    BY <2>2, <2>3 DEF Callers, Same, At
<1>7. HpTyped'
  <2>1. th' = [u \in Threads |-> th'[u]]
    OBVIOUS
  <2>2. \A u \in Threads : th'[u] \in Callers
    BY <1>5, <1>6
  <2> QED
    BY <1>4, <2>1, <2>2 DEF HpTyped
<1>8. Owns(t) = {} /\ Owns(t)' = {n}
  BY <1>1, <1>5 DEF Owns, At, Elems
<1>9. Distinct(obj.abs)' /\ InStack(n) /\ \A m : InStack(m)' <=> InStack(m) /\ m # n
  BY <1>1, <1>2, <1>4, PopDistinct DEF InStack, HpInv, Linked
<1>10. \A m : InList(m)' <=> InList(m)
  BY <1>4 DEF InList
<1>11. obj.at[n] = "live" /\ ~InList(n) /\ \A u \in Threads : n \notin Owns(u)
  BY <1>1, <1>9 DEF NodeHolds
<1>12. ASSUME NEW m \in Nodes PROVE NodeHolds(m)'
  <2>1. CASE m = n
    BY <1>4, <1>6, <1>8, <1>9, <1>10, <1>11, <2>1, OwnsKept DEF NodeHolds
  <2>2. CASE m # n
    BY <1>4, <1>6, <1>8, <1>9, <1>10, <2>2, OwnsKept, NodeKept DEF HpInv
  <2> QED
    BY <2>1, <2>2
<1>13. ASSUME NEW m \in Nodes PROVE NodeIsGuarded(m)'
  <2>1. \A k : ~Guards(t, k)' /\ ~Examines(t, k)' /\ ~Pushes(t, k)'
    BY <1>5 DEF Guards, Examines, Pushes, At
  <2>2. ASSUME NEW u \in Threads
        PROVE  /\ Guards(u, m)' => Guards(u, m)
               /\ Pushes(u, m)' => Pushes(u, m)
               /\ Examines(u, m)' => Examines(u, m) /\ th'[u].left = th[u].left
    BY <1>6, <2>1, OwnsKept DEF Same
  <2> QED
    BY <1>4, <2>2, GuardKept DEF HpInv
<1>14. ASSUME NEW u \in Threads PROVE ThreadHolds(u)'
  <2>1. CASE u = t
    BY <1>1, <1>4, <1>5, <2>1 DEF ThreadHolds, At, Distinct
  <2>2. CASE u # t
    <3>1. th'[u].lone => ~At(u, {"announce", "recheck", "next", "cas", "crashed"})
      BY <1>6, <2>2 DEF At
    <3> QED
      BY <1>4, <1>6, <2>2, <3>1, ThreadKept DEF HpInv
  <2> QED
    BY <2>1, <2>2
<1>15. ASSUME NEW i \in Nat \ {0} PROVE Nth(i)' = Nth(i + 1)
  BY <1>3, <1>4 DEF Nth
<1>16. obj'.head = Nth(1)' /\ \A i \in DOMAIN obj'.abs : obj'.next[obj'.abs[i]] = Nth(i + 1)'
  <2>1. obj'.head = Nth(1)'
    BY <1>2, <1>4, <1>15 DEF HpInv, Linked
  <2>2. ASSUME NEW i \in DOMAIN obj'.abs PROVE obj'.next[obj'.abs[i]] = Nth(i + 1)'
    <3>1. i \in Nat \ {0} /\ i + 1 \in DOMAIN obj.abs /\ obj'.abs[i] = obj.abs[i + 1]
      BY <1>3, <1>4
    <3>2. obj.next[obj.abs[i + 1]] = Nth((i + 1) + 1)
      BY <3>1 DEF HpInv, Linked
    <3> QED
      BY <1>4, <1>15, <3>1, <3>2
  <2> QED
    BY <2>1, <2>2
<1>17. Linked' /\ Distinct(obj.reclaim)'
  BY <1>4, <1>9, <1>16 DEF HpInv, Linked, Distinct
<1> QED
  BY <1>7, <1>12, <1>13, <1>14, <1>17 DEF HpInv

\* ------------------------------------------------------------ reclaiming
LEMMA ClearPreserves ==
    ASSUME HpInv, NEW t \in Threads, Clear(t)
    PROVE  HpInv'
<1>1. PICK n : n = th[t].node
  OBVIOUS
<1>2. /\ th[t].pc = "clear" /\ obj' = [obj EXCEPT !.hp[t] = Null] /\ HpTyped /\ ThreadHolds(t)
      /\ th[t].list = <<>> /\ n \in Nodes
      /\ th' = [th EXCEPT ![t].pc = "own", ![t].list = <<n>>, ![t].left = Threads]
  BY <1>1 DEF Clear, At, HpInv, ThreadHolds
<1>3. /\ obj'.head = obj.head /\ obj'.next = obj.next /\ obj'.at = obj.at /\ obj'.abs = obj.abs
      /\ obj'.reclaim = obj.reclaim /\ \A u \in Threads : u # t => obj'.hp[u] = obj.hp[u]
      /\ obj' \in Stacks
  <2>1. PICK hp : hp = [obj.hp EXCEPT ![t] = Null]
    OBVIOUS
  <2>2. hp \in [Threads -> OrNull] /\ \A u \in Threads : u # t => hp[u] = obj.hp[u]
    BY <1>2, <2>1 DEF HpTyped, Stacks, OrNull
  <2>3. obj' = [obj EXCEPT !.hp = hp]
    BY <1>2, <2>1 DEF HpTyped, Stacks
  <2> QED
    BY <1>2, <2>2, <2>3 DEF HpTyped, Stacks
<1>4. /\ th' \in [Threads -> Callers] /\ \A u \in Threads : u # t => th'[u] = th[u]
      /\ th'[t].pc = "own" /\ th'[t].list = <<n>> /\ th'[t].left = Threads
  <2>1. PICK r : r = [th[t] EXCEPT !.pc = "own", !.list = <<n>>, !.left = Threads]
    OBVIOUS
  <2>2. r \in Callers /\ r.pc = "own" /\ r.list = <<n>> /\ r.left = Threads
    <3>1. th[t] \in Callers /\ <<n>> \in Seq(Nodes) /\ "own" \in Places
      BY <1>2 DEF HpTyped, Places
    <3> QED
      BY <2>1, <3>1 DEF Callers
  <2>3. th' = [th EXCEPT ![t] = r]
    BY <1>2, <2>1
  <2> QED
    BY <1>2, <2>2, <2>3, RecordWritten
<1>5. HpTyped'
  BY <1>3, <1>4 DEF HpTyped
<1>6. Owns(t) = {n} /\ Owns(t)' = {n} /\ Distinct(<<n>>)
  BY <1>1, <1>2, <1>4 DEF Owns, At, Elems, Distinct
<1>7. \A u \in Threads : u # t => Same(u)
  BY <1>4 DEF Same
<1>8. \A m : (InStack(m)' <=> InStack(m)) /\ (InList(m)' <=> InList(m))
  BY <1>3 DEF InStack, InList
<1>9. ASSUME NEW m \in Nodes PROVE NodeHolds(m)'
  BY <1>3, <1>6, <1>7, <1>8, OwnsKept, NodeKept DEF HpInv
<1>10. ASSUME NEW m \in Nodes PROVE NodeIsGuarded(m)'
  <2>1. ~Guards(t, m)' /\ ~Pushes(t, m)'
    BY <1>4 DEF Guards, Pushes, At
  <2>2. ASSUME NEW u \in Threads
        PROVE  /\ Guards(u, m)' => Guards(u, m)
               /\ Pushes(u, m)' => Pushes(u, m)
               /\ Examines(u, m)' =>
                     \/ Examines(u, m) /\ th'[u].left = th[u].left
                     \/ Threads \subseteq th'[u].left
    BY <1>4, <1>7, <2>1, OwnsKept DEF Same
  <2> QED
    BY <1>3, <2>2, GuardKept DEF HpInv
<1>11. ASSUME NEW u \in Threads PROVE ThreadHolds(u)'
  <2>1. CASE u = t
    BY <1>4, <1>6, <2>1 DEF ThreadHolds, At
  <2>2. CASE u # t
    BY <1>3, <1>4, <1>7, <2>2, ThreadKept DEF HpInv
  <2> QED
    BY <2>1, <2>2
<1>12. Linked' /\ Distinct(obj.reclaim)'
  BY <1>3, LinksKept DEF HpInv, Distinct
<1> QED
  BY <1>5, <1>9, <1>10, <1>11, <1>12 DEF HpInv

\* The record of a thread that has examined the first node of its list.
LEMMA NextOfList ==
    ASSUME HpInv, NEW t \in Threads, th[t].pc \in {"own", "others"}, th[t].list # <<>>,
           NEW n, n = Head(th[t].list),
           th' = [th EXCEPT ![t].list = Tail(@), ![t].left = Threads]
    PROVE  /\ th' \in [Threads -> Callers] /\ \A u \in Threads : u # t => th'[u] = th[u] /\ Same(u)
           /\ th'[t].pc = th[t].pc /\ th'[t].left = Threads
           /\ Distinct(th'[t].list) /\ n \in Owns(t) /\ n \in Nodes /\ Examines(t, n)
           /\ \A m : m \in Owns(t)' <=> m \in Owns(t) /\ m # n
           /\ \A m : ~Guards(t, m)' /\ ~Pushes(t, m)'
<1>1. HpTyped /\ th[t] \in Callers /\ th[t].list \in Seq(Nodes) /\ Distinct(th[t].list)
  BY DEF HpInv, HpTyped, Callers, ThreadHolds
<1>2. Tail(th[t].list) \in Seq(Nodes) /\ n = th[t].list[1] /\ n \in Nodes
  BY <1>1, PopSeq
<1>3. PICK r : r = [th[t] EXCEPT !.list = Tail(th[t].list), !.left = Threads]
  OBVIOUS
<1>4. r \in Callers /\ r.pc = th[t].pc /\ r.list = Tail(th[t].list) /\ r.left = Threads
  BY <1>1, <1>2, <1>3 DEF Callers
<1>5. th' = [th EXCEPT ![t] = r]
  BY <1>3
<1>6. th' \in [Threads -> Callers] /\ th'[t] = r /\ \A u \in Threads : u # t => th'[u] = th[u]
  BY <1>1, <1>4, <1>5, RecordWritten
<1>7. /\ Distinct(Tail(th[t].list)) /\ n \in Elems(th[t].list)
      /\ \A m : m \in Elems(Tail(th[t].list)) <=> m \in Elems(th[t].list) /\ m # n
  BY <1>1, <1>2, PopDistinct
<1>8. Owns(t) = Elems(th[t].list) /\ Owns(t)' = Elems(Tail(th[t].list))
  BY <1>4, <1>6 DEF Owns, At, Elems
<1>9. \A u \in Threads : u # t => Same(u)
  BY <1>6 DEF Same
<1>10. Examines(t, n) /\ \A m : ~Guards(t, m)' /\ ~Pushes(t, m)'
  BY <1>4, <1>6 DEF Examines, Guards, Pushes, At
<1> QED
  BY <1>2, <1>4, <1>6, <1>7, <1>8, <1>9, <1>10

\* The hazard pointers of all threads were read and none was to this node: nobody guards it.
LEMMA FreePreserves ==
    ASSUME HpInv, NEW t \in Threads, th[t].pc \in {"own", "others"}, th[t].list # <<>>,
           NEW n, n = Head(th[t].list), th[t].left = {},
           NEW a, a = Freed({n}), obj' = [obj EXCEPT !.at = a],
           th' = [th EXCEPT ![t].list = Tail(@), ![t].left = Threads]
    PROVE  HpInv'
<1>1. /\ th' \in [Threads -> Callers] /\ \A u \in Threads : u # t => th'[u] = th[u] /\ Same(u)
      /\ th'[t].pc = th[t].pc /\ th'[t].left = Threads
      /\ Distinct(th'[t].list) /\ n \in Owns(t) /\ n \in Nodes /\ Examines(t, n)
      /\ \A m : m \in Owns(t)' <=> m \in Owns(t) /\ m # n
      /\ \A m : ~Guards(t, m)' /\ ~Pushes(t, m)'
  BY NextOfList
<1>2. /\ obj.at[n] = "live" /\ ~InStack(n) /\ ~InList(n)
      /\ \A u \in Threads : u # t => n \notin Owns(u)
  BY <1>1 DEF HpInv, NodeHolds
<1>3. /\ obj'.head = obj.head /\ obj'.next = obj.next /\ obj'.hp = obj.hp /\ obj'.abs = obj.abs
      /\ obj'.reclaim = obj.reclaim /\ obj'.at[n] = "freed"
      /\ \A m \in Nodes : m # n => obj'.at[m] = obj.at[m]
      /\ obj' \in Stacks
  <2>1. /\ a[n] = "freed" /\ \A m \in Nodes : m # n => a[m] = obj.at[m]
        /\ a \in [Nodes -> {"new", "live", "freed", "twice"}]
    BY <1>1, <1>2 DEF Freed, HpInv, HpTyped, Stacks
  <2> QED
    BY <2>1 DEF HpInv, HpTyped, Stacks
<1>4. HpTyped'
  BY <1>1, <1>3 DEF HpTyped
<1>5. \A u \in Threads : ~Guards(u, n)
  BY <1>1 DEF HpInv, NodeIsGuarded
<1>6. \A m : (InStack(m)' <=> InStack(m)) /\ (InList(m)' <=> InList(m))
  BY <1>3 DEF InStack, InList
<1>7. ASSUME NEW m \in Nodes PROVE NodeHolds(m)'
  <2>1. CASE m = n
    BY <1>1, <1>2, <1>3, <1>6, <2>1, OwnsKept, ZenonT(60) DEF NodeHolds
  <2>2. CASE m # n
    BY <1>1, <1>3, <1>6, <2>2, OwnsKept, NodeKept DEF HpInv
  <2> QED
    BY <2>1, <2>2
<1>8. ASSUME NEW m \in Nodes PROVE NodeIsGuarded(m)'
  <2>1. CASE m = n
    <3>1. \A u \in Threads : ~Guards(u, m)'
      BY <1>1, <1>5, <2>1, OwnsKept
    <3> QED
      BY <3>1 DEF NodeIsGuarded
  <2>2. CASE m # n
    <3>1. ASSUME NEW u \in Threads
          PROVE  /\ Guards(u, m)' => Guards(u, m)
                 /\ Pushes(u, m)' => Pushes(u, m)
                 /\ Examines(u, m)' =>
                     \/ Examines(u, m) /\ th'[u].left = th[u].left
                     \/ Threads \subseteq th'[u].left
      <4>1. ~Guards(t, m)' /\ ~Pushes(t, m)' /\ Threads \subseteq th'[t].left
        BY <1>1
      <4>2. u # t => Same(u)
        BY <1>1
      <4> QED
        BY <4>1, <4>2, OwnsKept DEF Same
    <3>2. obj.at[m] = "live" => obj'.at[m] = "live"
      BY <1>3, <2>2
    <3>3. NodeIsGuarded(m)
      BY DEF HpInv
    <3> QED
      BY <3>1, <3>2, <3>3, GuardKept
  <2> QED
    BY <2>1, <2>2
<1>9. ASSUME NEW u \in Threads PROVE ThreadHolds(u)'
  <2>1. CASE u = t
    BY <1>1, <2>1 DEF ThreadHolds, At
  <2>2. CASE u # t
    BY <1>1, <1>3, <2>2, ThreadKept DEF HpInv
  <2> QED
    BY <2>1, <2>2
<1>10. Linked' /\ Distinct(obj.reclaim)'
  BY <1>3, LinksKept DEF HpInv, Distinct
<1> QED
  BY <1>4, <1>7, <1>8, <1>9, <1>10 DEF HpInv

\* A hazard pointer is to this node: it goes back to the list.
LEMMA PutBackPreserves ==
    ASSUME HpInv, NEW t \in Threads, th[t].pc \in {"own", "others"}, th[t].list # <<>>,
           NEW n, n = Head(th[t].list), NEW q \in Seq(Nodes), Distinct(q), Elems(q) = {n} \cup Elems(obj.reclaim),
           obj' = [obj EXCEPT !.reclaim = q],
           th' = [th EXCEPT ![t].list = Tail(@), ![t].left = Threads]
    PROVE  HpInv'
<1>1. /\ th' \in [Threads -> Callers] /\ \A u \in Threads : u # t => th'[u] = th[u] /\ Same(u)
      /\ th'[t].pc = th[t].pc /\ th'[t].left = Threads
      /\ Distinct(th'[t].list) /\ n \in Owns(t) /\ n \in Nodes /\ Examines(t, n)
      /\ \A m : m \in Owns(t)' <=> m \in Owns(t) /\ m # n
      /\ \A m : ~Guards(t, m)' /\ ~Pushes(t, m)'
  BY NextOfList
<1>2. /\ obj.at[n] = "live" /\ ~InStack(n) /\ ~InList(n)
      /\ \A u \in Threads : u # t => n \notin Owns(u)
  BY <1>1 DEF HpInv, NodeHolds
<1>4. \A m : m \in Elems(q) <=> m = n \/ InList(m)
  BY DEF InList
<1>5. /\ obj'.head = obj.head /\ obj'.next = obj.next /\ obj'.hp = obj.hp /\ obj'.abs = obj.abs
      /\ obj'.reclaim = q /\ obj'.at = obj.at /\ obj' \in Stacks
  BY <1>4 DEF HpInv, HpTyped, Stacks
<1>6. HpTyped'
  BY <1>1, <1>5 DEF HpTyped
<1>7. \A m : (InStack(m)' <=> InStack(m)) /\ (InList(m)' <=> m = n \/ InList(m))
  BY <1>4, <1>5 DEF InStack, InList
<1>8. ASSUME NEW m \in Nodes PROVE NodeHolds(m)'
  <2>1. CASE m = n
    BY <1>1, <1>2, <1>5, <1>7, <2>1, OwnsKept DEF NodeHolds
  <2>2. CASE m # n
    BY <1>1, <1>5, <1>7, <2>2, OwnsKept, NodeKept DEF HpInv
  <2> QED
    BY <2>1, <2>2
<1>9. ASSUME NEW m \in Nodes PROVE NodeIsGuarded(m)'
  <2>1. ASSUME NEW u \in Threads
        PROVE  /\ Guards(u, m)' => Guards(u, m)
               /\ Pushes(u, m)' => Pushes(u, m)
               /\ Examines(u, m)' =>
                   \/ Examines(u, m) /\ th'[u].left = th[u].left
                   \/ Threads \subseteq th'[u].left
    <3>1. CASE u = t
      BY <1>1, <3>1
    <3>2. CASE u # t
      BY <1>1, <3>2, OwnsKept DEF Same
    <3> QED
      BY <3>1, <3>2
  <2> QED
    BY <1>5, <2>1, GuardKept DEF HpInv
<1>10. ASSUME NEW u \in Threads PROVE ThreadHolds(u)'
  <2>1. CASE u = t
    BY <1>1, <2>1 DEF ThreadHolds, At
  <2>2. CASE u # t
    BY <1>1, <1>5, <2>2, ThreadKept DEF HpInv
  <2> QED
    BY <2>1, <2>2
<1>11. Linked' /\ Distinct(obj.reclaim)'
  BY <1>4, <1>5, LinksKept DEF HpInv, Distinct
<1> QED
  BY <1>6, <1>8, <1>9, <1>10, <1>11 DEF HpInv

\* The hazard pointer of u is to another node, so u does not guard this one.
LEMMA PassPreserves ==
    ASSUME HpInv, NEW t \in Threads, th[t].pc \in {"own", "others"}, th[t].list # <<>>,
           NEW n, n = Head(th[t].list), NEW u \in th[t].left, obj.hp[u] # n,
           th' = [th EXCEPT ![t].left = @ \ {u}], UNCHANGED obj
    PROVE  HpInv'
<1>1. HpTyped /\ th[t] \in Callers /\ ThreadHolds(t) /\ Examines(t, n)
  BY DEF HpInv, HpTyped, Examines, At
<1>2. /\ th' \in [Threads -> Callers] /\ \A v \in Threads : v # t => th'[v] = th[v]
      /\ th'[t].pc = th[t].pc /\ th'[t].list = th[t].list /\ th'[t].left = th[t].left \ {u}
  <2>1. PICK r : r = [th[t] EXCEPT !.left = @ \ {u}]
    OBVIOUS
  <2>2. r \in Callers /\ r.pc = th[t].pc /\ r.list = th[t].list /\ r.left = th[t].left \ {u}
    BY <1>1, <2>1 DEF Callers
  <2>3. th' = [th EXCEPT ![t] = r]
    BY <2>1
  <2> QED
    BY <1>1, <2>2, <2>3, RecordWritten
<1>3. HpTyped' /\ \A v \in Threads : v # t => Same(v)
  BY <1>1, <1>2 DEF HpTyped, Same
<1>4. Owns(t)' = Owns(t)
  BY <1>2 DEF Owns, At, Elems
<1>5. \A m : (InStack(m)' <=> InStack(m)) /\ (InList(m)' <=> InList(m))
  BY DEF InStack, InList
<1>6. ASSUME NEW m \in Nodes PROVE NodeHolds(m)'
  BY <1>3, <1>4, <1>5, OwnsKept, NodeKept DEF HpInv
<1>7. ASSUME NEW m \in Nodes PROVE NodeIsGuarded(m)'
  <2>1. SUFFICES ASSUME NEW v \in Threads, Guards(v, m)'
                 PROVE  /\ obj'.at[m] = "live"
                        /\ \A w \in Threads : ~Pushes(w, m)' /\ (Examines(w, m)' => v \in th'[w].left)
    BY DEF NodeIsGuarded
  <2>2. v # t /\ Guards(v, m)
    BY <1>2, <1>3, <2>1, OwnsKept DEF Guards, At
  <2>3. obj.at[m] = "live" /\ \A w \in Threads : ~Pushes(w, m) /\ (Examines(w, m) => v \in th[w].left)
    BY <2>2 DEF HpInv, NodeIsGuarded
  <2>4. ASSUME NEW w \in Threads PROVE ~Pushes(w, m)' /\ (Examines(w, m)' => v \in th'[w].left)
    <3>1. CASE w = t
      <4>1. Examines(t, m)' => m = n /\ Examines(t, m)
        BY <1>1, <1>2 DEF Examines, At
      <4>2. obj.hp[v] = m
        BY <2>2 DEF HpInv, ThreadHolds, Guards, At
      <4>3. ~Pushes(t, m)'
        BY <1>2 DEF Pushes, At
      <4> QED
        BY <1>2, <2>3, <3>1, <4>1, <4>2, <4>3
    <3>2. CASE w # t
      BY <1>3, <2>3, <3>2, OwnsKept DEF Same
    <3> QED
      BY <3>1, <3>2
  <2> QED
    BY <2>3, <2>4
<1>8. ASSUME NEW v \in Threads PROVE ThreadHolds(v)'
  <2>1. CASE v = t
    BY <1>1, <1>2, <2>1 DEF ThreadHolds, At
  <2>2. CASE v # t
    BY <1>2, <1>3, <2>2, ThreadKept DEF HpInv
  <2> QED
    BY <2>1, <2>2
<1>9. Linked' /\ Distinct(obj.reclaim)'
  BY LinksKept DEF HpInv, Distinct
<1> QED
  BY <1>3, <1>6, <1>7, <1>8, <1>9 DEF HpInv

LEMMA TakeReclaimPreserves ==
    ASSUME HpInv, NEW t \in Threads, TakeReclaim(t)
    PROVE  HpInv'
<1>1. /\ th[t].pc = "own" /\ th[t].list = <<>> /\ obj' = [obj EXCEPT !.reclaim = <<>>]
      /\ th' = [th EXCEPT ![t].pc = "others", ![t].list = obj.reclaim]
      /\ HpTyped /\ th[t].left = Threads /\ Distinct(obj.reclaim)
  BY DEF TakeReclaim, At, HpInv, ThreadHolds
<1>2. /\ obj'.head = obj.head /\ obj'.next = obj.next /\ obj'.hp = obj.hp /\ obj'.abs = obj.abs
      /\ obj'.reclaim = <<>> /\ obj'.at = obj.at /\ obj' \in Stacks
  <2>1. PICK s : s = <<>>
    OBVIOUS
  <2>2. s \in Seq(Nodes)
    BY <2>1
  <2>3. obj' = [obj EXCEPT !.reclaim = s]
    BY <1>1, <2>1
  <2> QED
    BY <1>1, <2>1, <2>2, <2>3 DEF HpTyped, Stacks
<1>3. /\ th' \in [Threads -> Callers] /\ \A u \in Threads : u # t => th'[u] = th[u]
      /\ th'[t].pc = "others" /\ th'[t].list = obj.reclaim /\ th'[t].left = Threads
  <2>1. PICK r : r = [th[t] EXCEPT !.pc = "others", !.list = obj.reclaim]
    OBVIOUS
  <2>2. r \in Callers /\ r.pc = "others" /\ r.list = obj.reclaim /\ r.left = th[t].left
    <3>1. th[t] \in Callers /\ obj.reclaim \in Seq(Nodes) /\ "others" \in Places
      BY <1>1 DEF HpTyped, Stacks, Places
    <3> QED
      BY <2>1, <3>1 DEF Callers
  <2>3. th' = [th EXCEPT ![t] = r]
    BY <1>1, <2>1
  <2> QED
    BY <1>1, <2>2, <2>3, RecordWritten
<1>4. HpTyped'
  BY <1>2, <1>3 DEF HpTyped
<1>5. \A u \in Threads : u # t => Same(u)
  BY <1>3 DEF Same
<1>6. /\ \A m : (m \in Owns(t)' <=> InList(m)) /\ m \notin Owns(t) /\ ~InList(m)'
      /\ \A m : InStack(m)' <=> InStack(m)
  BY <1>1, <1>2, <1>3 DEF Owns, At, Elems, InList, InStack
<1>7. ASSUME NEW m \in Nodes PROVE NodeHolds(m)'
  <2>1. NodeHolds(m) /\ \A u \in Threads : u # t => (m \in Owns(u)' <=> m \in Owns(u))
    BY <1>5, OwnsKept DEF HpInv
  <2>2. CASE InList(m)
    BY <1>2, <1>6, <2>1, <2>2 DEF NodeHolds
  <2>3. CASE ~InList(m)
    BY <1>2, <1>6, <2>1, <2>3, NodeKept
  <2> QED
    BY <2>2, <2>3
<1>8. ASSUME NEW m \in Nodes PROVE NodeIsGuarded(m)'
  <2>1. ~Guards(t, m)' /\ ~Pushes(t, m)'
    BY <1>3 DEF Guards, Pushes, At
  <2>2. ASSUME NEW u \in Threads
        PROVE  /\ Guards(u, m)' => Guards(u, m)
               /\ Pushes(u, m)' => Pushes(u, m)
               /\ Examines(u, m)' =>
                   \/ Examines(u, m) /\ th'[u].left = th[u].left
                   \/ Threads \subseteq th'[u].left
    BY <1>3, <1>5, <2>1, OwnsKept DEF Same
  <2> QED
    BY <1>2, <2>2, GuardKept DEF HpInv
<1>9. ASSUME NEW u \in Threads PROVE ThreadHolds(u)'
  <2>1. CASE u = t
    BY <1>1, <1>3, <2>1 DEF ThreadHolds, At
  <2>2. CASE u # t
    BY <1>2, <1>3, <1>5, <2>2, ThreadKept DEF HpInv
  <2> QED
    BY <2>1, <2>2
<1>10. Linked' /\ Distinct(obj.reclaim)'
  BY <1>2, LinksKept DEF HpInv, Distinct
<1> QED
  BY <1>4, <1>7, <1>8, <1>9, <1>10 DEF HpInv

\* ------------------------------------------------------------ the steps
LEMMA PushCasPreserves ==
    ASSUME HpInv, Null \notin Nodes, NEW t \in Threads, PushCas(t)
    PROVE  HpInv'
<1>1. PICK n : n = th[t].node
  OBVIOUS
<1>2. th[t].pc = "push" /\ n \in Nodes /\ n \in Owns(t)
  BY <1>1 DEF PushCas, At, HpInv, ThreadHolds, Owns
<1>3. n \notin Elems(obj.abs) /\ Distinct(obj.abs) /\ obj.abs \in Seq(Nodes)
  BY <1>2 DEF HpInv, NodeHolds, InStack, Linked, HpTyped, Stacks
<1>4. PICK q : q = <<n>> \o obj.abs
  OBVIOUS
<1>5. Distinct(q)
  BY <1>2, <1>3, <1>4, PushKeepsDistinct
<1>6. Elems(q) = {n} \cup Elems(obj.abs)
  BY <1>2, <1>3, <1>4, PushElems
<1>7. CASE /\ obj.next[n] = obj.head
           /\ obj' = [obj EXCEPT !.head = n, !.abs = <<n>> \o @]
           /\ Return(t)
  <2>1. obj' = [obj EXCEPT !.head = n, !.abs = q] /\ th' = [th EXCEPT ![t] = Idle]
    BY <1>4, <1>7 DEF Return
  <2> QED
    BY <1>1, <1>2, <1>4, <1>5, <1>6, <1>7, <2>1, PushPreserves
<1>8. CASE obj' = [obj EXCEPT !.next[n] = obj.head] /\ UNCHANGED th
  BY <1>1, <1>2, <1>8, PushRetryPreserves
<1> QED
  BY <1>1, <1>7, <1>8 DEF PushCas

LEMMA PopCasPreserves ==
    ASSUME HpInv, Null \notin Nodes, NEW t \in Threads, PopCas(t)
    PROVE  HpInv'
<1>1. th[t].pc = "cas"
  BY DEF PopCas, At
<1>2. CASE /\ obj.head = th[t].node
           /\ obj' = [obj EXCEPT !.head = th[t].next, !.abs = Tail(@)]
           /\ th' = [u \in Threads |-> IF u = t THEN [th[t] EXCEPT !.pc = "clear"]
                                       ELSE [th[u] EXCEPT !.lone = At(u, {"idle"})]]
  BY <1>1, <1>2, PopPreserves
<1>3. CASE Reload(t) /\ UNCHANGED obj
  BY <1>1, <1>3, LostSwapPreserves
<1> QED
  BY <1>2, <1>3 DEF PopCas

LEMMA ExaminePreserves ==
    ASSUME HpInv, NEW t \in Threads, Examine(t)
    PROVE  HpInv'
<1>1. PICK n : n = Head(th[t].list)
  OBVIOUS
<1>2. th[t].pc \in {"own", "others"} /\ th[t].list # <<>> /\ Examines(t, n)
  BY <1>1 DEF Examine, At, Examines
<1>3. n \in Nodes /\ n \in Owns(t) /\ th[t].left \subseteq Threads
  <2>1. th[t].list \in Seq(Nodes) /\ HpTyped /\ th[t].left \subseteq Threads
    BY DEF HpInv, HpTyped, Callers
  <2> QED
    BY <1>1, <1>2, <2>1, PopSeq, HandsAreOwned
<1>4. CASE th[t].left = {} /\ obj' = [obj EXCEPT !.at = Freed({n})]
           /\ th' = [th EXCEPT ![t].list = Tail(@), ![t].left = Threads]
  <2>1. PICK a : a = Freed({n})
    OBVIOUS
  <2>2. obj' = [obj EXCEPT !.at = a]
    BY <1>4, <2>1
  <2> QED
    BY <1>1, <1>2, <1>4, <2>1, <2>2, FreePreserves
<1>5. CASE obj' = [obj EXCEPT !.reclaim = <<n>> \o @]
           /\ th' = [th EXCEPT ![t].list = Tail(@), ![t].left = Threads]
  <2>1. n \notin Elems(obj.reclaim) /\ Distinct(obj.reclaim) /\ obj.reclaim \in Seq(Nodes)
    BY <1>3 DEF HpInv, NodeHolds, InList, HpTyped, Stacks
  <2>2. PICK q : q = <<n>> \o obj.reclaim
    OBVIOUS
  <2>3. q \in Seq(Nodes)
    BY <1>3, <2>1, <2>2, PushSeq
  <2>4. Distinct(q)
    BY <1>3, <2>1, <2>2, PushKeepsDistinct
  <2>5. Elems(q) = {n} \cup Elems(obj.reclaim)
    BY <1>3, <2>1, <2>2, PushElems
  <2>6. obj' = [obj EXCEPT !.reclaim = q]
    BY <1>5, <2>2
  <2> QED
    BY <1>1, <1>2, <1>5, <2>3, <2>4, <2>5, <2>6, PutBackPreserves
<1>6. CASE \E u \in th[t].left : /\ obj.hp[u] # n /\ UNCHANGED obj
                                 /\ th' = [th EXCEPT ![t].left = @ \ {u}]
  BY <1>1, <1>2, <1>6, PassPreserves
<1> QED
  BY <1>1, <1>4, <1>5, <1>6 DEF Examine

LEMMA InitHpInv ==
    ASSUME Null \notin Nodes, Init
    PROVE  HpInv
<1>1. /\ obj.head = Null /\ obj.next = Unlinked /\ obj.at = AllNew /\ obj.abs = <<>> /\ obj.pops = 0
      /\ obj.hp = [t \in Threads |-> Null] /\ obj.reclaim = <<>>
  BY DEF Init
<1>2. \A t \in Threads : th[t].pc = "idle" /\ th[t].list = <<>>
  BY DEF Init, Idle
<1>3. HpTyped
  <2>1. th \in [Threads -> Callers]
    BY IdleIsCaller DEF Init
  <2>2. obj \in Stacks
    <3>1. Unlinked \in [Nodes -> OrNull] /\ AllNew \in [Nodes -> {"new", "live", "freed", "twice"}]
      BY DEF Unlinked, AllNew, OrNull
    <3>2. <<>> \in Seq(Nodes) /\ [t \in Threads |-> Null] \in [Threads -> OrNull] /\ Null \in OrNull
      BY DEF OrNull
    <3> QED
      BY <3>1, <3>2 DEF Init, Stacks
  <2> QED
    BY <2>1, <2>2 DEF HpTyped
<1>4. Linked /\ Distinct(obj.reclaim)
  BY <1>1 DEF Linked, Distinct, Nth
<1>5. ASSUME NEW n \in Nodes PROVE NodeHolds(n) /\ NodeIsGuarded(n)
  <2>1. ~InStack(n) /\ ~InList(n) /\ obj.at[n] = "new"
    BY <1>1 DEF InStack, InList, Elems, AllNew
  <2>2. \A t \in Threads : n \notin Owns(t) /\ ~Guards(t, n)
    BY <1>2 DEF Owns, At, Elems, Guards
  <2> QED
    BY <2>1, <2>2 DEF NodeHolds, NodeIsGuarded
<1>6. ASSUME NEW t \in Threads PROVE ThreadHolds(t)
  BY <1>2 DEF ThreadHolds, At, Distinct
<1> QED
  BY <1>3, <1>4, <1>5, <1>6 DEF HpInv

LEMMA NextHpInv ==
    ASSUME HpInv, Null \notin Nodes, [Next]_vars
    PROVE  HpInv'
<1>1. CASE UNCHANGED vars
  <2>1. obj' = obj /\ th' = th
    BY <1>1 DEF vars
  <2>2. \A t \in Threads : Same(t)
    BY <2>1 DEF Same
  <2>3. ASSUME NEW n \in Nodes PROVE NodeHolds(n)' /\ NodeIsGuarded(n)'
    <3>1. (InStack(n)' <=> InStack(n)) /\ (InList(n)' <=> InList(n))
      BY <2>1 DEF InStack, InList
    <3>2. NodeHolds(n)'
      BY <2>1, <2>2, <3>1, OwnsKept, NodeKept DEF HpInv
    <3>3. NodeIsGuarded(n)'
      BY <2>1, <2>2, OwnsKept, GuardKept DEF HpInv, Same
    <3> QED
      BY <3>2, <3>3
  <2>4. ASSUME NEW t \in Threads PROVE ThreadHolds(t)'
    BY <2>1, <2>2, ThreadKept DEF HpInv
  <2>5. HpTyped' /\ Linked' /\ Distinct(obj.reclaim)'
    BY <2>1, LinksKept DEF HpInv, HpTyped
  <2> QED
    BY <2>3, <2>4, <2>5 DEF HpInv
<1>2. CASE Next
  <2>1. PICK t \in Threads :
            \/ Emplace(t) \/ PushCas(t) \/ LoadHead(t) \/ Announce(t) \/ Recheck(t) \/ ReadNext(t)
            \/ PopCas(t) \/ Clear(t) \/ Examine(t) \/ TakeReclaim(t) \/ PopDone(t)
    BY <1>2 DEF Next
  <2> QED
    BY <2>1, EmplacePreserves, PushCasPreserves, LoadHeadPreserves, AnnouncePreserves, RecheckPreserves,
       ReadNextPreserves, PopCasPreserves, ClearPreserves, ExaminePreserves, TakeReclaimPreserves,
       PopDonePreserves
<1> QED
  BY <1>1, <1>2

\* A sequence without repetitions has as many elements as places.
LEMMA DistinctCount ==
    ASSUME NEW S, NEW s \in Seq(S), Distinct(s)
    PROVE  Cardinality(Elems(s)) = Len(s)
<1>1. Len(s) \in Nat /\ DOMAIN s = 1 .. Len(s) /\ IsFiniteSet(1 .. Len(s)) /\ Cardinality(1 .. Len(s)) = Len(s)
  <2>1. Len(s) \in Nat /\ DOMAIN s = 1 .. Len(s)
    OBVIOUS
  <2> QED
    BY <2>1, 1 \in Int, Len(s) \in Int, FS_Interval
<1>2. [i \in 1 .. Len(s) |-> s[i]] \in Bijection(1 .. Len(s), Elems(s))
  BY <1>1 DEF Bijection, Injection, Surjection, IsInjective, Elems, Distinct
<1> QED
  BY <1>1, <1>2, FS_Bijection DEF ExistsBijection

LEMMA HpInvImplies ==
    ASSUME HpInv
    PROVE  MemorySafe /\ LinkedAsStack /\ NoneMislaid /\ CrashNeedsRace
<1>1. MemorySafe
  <2>1. ASSUME NEW n \in Nodes PROVE obj.at[n] # "twice"
    BY DEF HpInv, NodeHolds
  <2>2. ASSUME NEW t \in Threads, At(t, {"next", "cas", "clear"}), th[t].node # Null
        PROVE  obj.at[th[t].node] = "live"
    <3>1. th[t].node \in Nodes
      BY <2>2 DEF HpInv, HpTyped, Callers, OrNull
    <3>2. CASE At(t, {"clear"})
      <4>1. th[t].node \in Owns(t)
        BY <3>2 DEF Owns, At
      <4> QED
        BY <3>1, <4>1 DEF HpInv, NodeHolds
    <3>3. CASE ~At(t, {"clear"})
      <4>1. Guards(t, th[t].node)
        BY <2>2, <3>3 DEF Guards, At
      <4> QED
        BY <3>1, <4>1 DEF HpInv, NodeIsGuarded
    <3> QED
      BY <3>2, <3>3
  <2> QED
    BY <2>1, <2>2 DEF MemorySafe, SafeUntil
<1>2. LinkedAsStack
  <2>1. /\ obj.abs \in Seq(Nodes) /\ DOMAIN obj.abs = 1 .. Len(obj.abs) /\ Len(obj.abs) \in Nat
        /\ obj.head = Nth(1) /\ \A i \in DOMAIN obj.abs : obj.next[obj.abs[i]] = Nth(i + 1)
    BY DEF HpInv, HpTyped, Stacks, Linked
  <2>2. obj.head = Top(obj.abs)
    BY <2>1 DEF Top, Nth
  <2>3. ASSUME NEW i \in DOMAIN obj.abs PROVE Nth(i + 1) = Top(SubSeq(obj.abs, i + 1, Len(obj.abs)))
    <3>1. PICK s : s = SubSeq(obj.abs, i + 1, Len(obj.abs))
      OBVIOUS
    <3>2. CASE i + 1 \in DOMAIN obj.abs
      <4>1. i \in Nat /\ i + 1 \in 1 .. Len(obj.abs)
        BY <2>1, <3>2
      <4>2. Len(s) = Len(obj.abs) - i
        BY <2>1, <3>1, <4>1
      <4>3. s # <<>>
        BY <4>1, <4>2
      <4>4. s[1] = obj.abs[i + 1]
        BY <2>1, <3>1, <4>1
      <4> QED
        BY <3>1, <3>2, <4>3, <4>4 DEF Top, Nth
    <3>3. CASE i + 1 \notin DOMAIN obj.abs
      <4>1. s = <<>>
        BY <2>1, <3>1, <3>3
      <4> QED
        BY <3>1, <3>3, <4>1 DEF Top, Nth
    <3> QED
      BY <3>2, <3>3
  <2> QED
    BY <2>1, <2>2, <2>3 DEF LinkedAsStack
<1>3. NoneMislaid
  <2>1. Cardinality(Elems(obj.reclaim)) = Len(obj.reclaim)
    BY DistinctCount DEF HpInv, HpTyped, Stacks
  <2>2. ASSUME NEW n \in Nodes, obj.at[n] = "live"
        PROVE  Cardinality({i \in {1} : n \in Elems(obj.reclaim)}) + Cardinality({i \in {1} : n \in Elems(obj.abs)})
               + Cardinality({t \in Threads : n \in Owns(t)}) = 1
    <3>1. Cardinality({}) = 0 /\ Cardinality({1}) = 1 /\ \A x : Cardinality({x}) = 1
      BY FS_EmptySet, FS_Singleton
    <3>2. NodeHolds(n)
      BY DEF HpInv
    <3>3. CASE InStack(n) /\ ~InList(n) /\ \A t \in Threads : n \notin Owns(t)
      <4>1. /\ {i \in {1} : n \in Elems(obj.reclaim)} = {} /\ {i \in {1} : n \in Elems(obj.abs)} = {1}
            /\ {t \in Threads : n \in Owns(t)} = {}
        BY <3>3 DEF InStack, InList
      <4> QED
        BY <3>1, <4>1
    <3>4. CASE ~InStack(n) /\ InList(n) /\ \A t \in Threads : n \notin Owns(t)
      <4>1. {i \in {1} : n \in Elems(obj.reclaim)} = {1}
        BY <3>4 DEF InList
      <4>2. {i \in {1} : n \in Elems(obj.abs)} = {} /\ {t \in Threads : n \in Owns(t)} = {}
        BY <3>4 DEF InStack
      <4>3. Cardinality({i \in {1} : n \in Elems(obj.reclaim)}) = 1
        BY <3>1, <4>1
      <4>4. Cardinality({i \in {1} : n \in Elems(obj.abs)}) = 0 /\ Cardinality({t \in Threads : n \in Owns(t)}) = 0
        BY <3>1, <4>2
      <4> QED
        BY <4>3, <4>4
    <3>5. CASE ~InStack(n) /\ ~InList(n) /\ \E t \in Threads : n \in Owns(t) /\ \A u \in Threads : u # t => n \notin Owns(u)
      <4>1. PICK t \in Threads : n \in Owns(t) /\ \A u \in Threads : u # t => n \notin Owns(u)
        BY <3>5
      <4>2. {i \in {1} : n \in Elems(obj.reclaim)} = {} /\ {i \in {1} : n \in Elems(obj.abs)} = {}
        BY <3>5 DEF InStack, InList
      <4>3. {u \in Threads : n \in Owns(u)} = {t}
        BY <4>1
      <4>4. Cardinality({u \in Threads : n \in Owns(u)}) = 1
        BY <3>1, <4>3
      <4> QED
        BY <3>1, <4>2, <4>4
    <3> QED
      BY <2>2, <3>2, <3>3, <3>4, <3>5 DEF NodeHolds
  <2> QED
    BY <2>1, <2>2 DEF NoneMislaid, InOnePlace
<1>4. CrashNeedsRace
  BY DEF HpInv, ThreadHolds, CrashNeedsRace
<1> QED
  BY <1>1, <1>2, <1>3, <1>4

\* A node is in the stack, on the list to reclaim, in the hands of one thread, or freed, and what a
\* Pop has announced and found to be the head is kept, after every step of Emplace and Pop.
THEOREM HazardInvariant ==
    ASSUME Null \notin Nodes
    PROVE  Spec => []HpInv
<1>1. Init => HpInv
  BY InitHpInv
<1>2. HpInv /\ [Next]_vars => HpInv'
  BY NextHpInv
<1> QED
  BY <1>1, <1>2, PTL DEF Spec

\* No node is freed while a Pop that has announced it is between the check and the swap of the head
\* (Pop of hazard_pointer_stack.h), nor freed twice.
THEOREM HazardMemorySafe ==
    ASSUME Null \notin Nodes
    PROVE  Spec => []MemorySafe
<1>1. HpInv => MemorySafe
  BY HpInvImplies
<1> QED
  BY <1>1, HazardInvariant, PTL

\* Each swap of the head that succeeded was a push or a pop of a stack.
THEOREM HazardIsStack ==
    ASSUME Null \notin Nodes
    PROVE  Spec => []LinkedAsStack
<1>1. HpInv => LinkedAsStack
  BY HpInvImplies
<1> QED
  BY <1>1, HazardInvariant, PTL

\* A popped node is on the list to reclaim, in the hands of one thread, or freed: none is leaked.
THEOREM HazardNoneMislaid ==
    ASSUME Null \notin Nodes
    PROVE  Spec => []NoneMislaid
<1>1. HpInv => NoneMislaid
  BY HpInvImplies
<1> QED
  BY <1>1, HazardInvariant, PTL

\* A null head is read through only by a Pop during which another has popped.
THEOREM HazardCrashNeedsRace ==
    ASSUME Null \notin Nodes
    PROVE  Spec => []CrashNeedsRace
<1>1. HpInv => CrashNeedsRace
  BY HpInvImplies
<1> QED
  BY <1>1, HazardInvariant, PTL
=============================================================================
