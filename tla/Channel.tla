------------------------------ MODULE Channel ------------------------------
(***************************************************************************)
(* Channel (channel.h): a bounded queue with one mutex, held from a test   *)
(* to the sleep that follows it, so a call is one step up to there and one *)
(* after each wake-up.                                                     *)
(***************************************************************************)
EXTENDS Naturals, Sequences, FiniteSets, SequenceTheorems, FiniteSetTheorems, TLAPS

CONSTANTS Threads,
          Capacities,           \* the capacities with which a channel is made
          MaxSends, MaxReceives \* bounds: calls of Send and Receive

VARIABLES obj, th

vars == <<obj, th>>

Init ==
    /\ \E c \in Capacities :
        obj = [queue |-> <<>>, capacity |-> c, closed |-> FALSE, sends |-> 0, receives |-> 0,
               in |-> <<>>, out |-> <<>>]    \* history: what was accepted, what was returned
    /\ th = [t \in Threads |-> "idle"]

\* A thread is idle, sending, asleep in Send, receiving or asleep in Receive.
In(pc) == {t \in Threads : th[t] = pc}
Sleeping(pc) == IF pc = "sending" THEN In("asleepSend") ELSE In("asleepReceive")

\* The thread t goes to pc; one that sleeps in the other call is notified, or all.
NotifyOne(t, pc, other) ==
    IF Sleeping(other) = {} THEN th' = [th EXCEPT ![t] = pc]
    ELSE \E u \in Sleeping(other) : th' = [th EXCEPT ![t] = pc, ![u] = other]
NotifyAll ==
    th' = [t \in Threads |-> CASE th[t] = "asleepSend" -> "sending"
                               [] th[t] = "asleepReceive" -> "receiving"
                               [] OTHER -> th[t]]

\* The predicates of the two waits.
MaySend == (obj.capacity = 0 /\ obj.queue = <<>>) \/ Len(obj.queue) < obj.capacity \/ obj.closed
MayReceive == obj.queue # <<>> \/ obj.closed

Call(t) ==
    /\ th[t] = "idle"
    /\ \/ obj.sends < MaxSends /\ obj' = [obj EXCEPT !.sends = @ + 1] /\ th' = [th EXCEPT ![t] = "sending"]
       \/ obj.receives < MaxReceives /\ obj' = [obj EXCEPT !.receives = @ + 1] /\ th' = [th EXCEPT ![t] = "receiving"]

Send(t) ==
    /\ th[t] = "sending"
    /\ \/ ~MaySend /\ th' = [th EXCEPT ![t] = "asleepSend"] /\ UNCHANGED obj
       \/ MaySend /\ obj.closed /\ th' = [th EXCEPT ![t] = "idle"] /\ UNCHANGED obj
       \/ /\ MaySend /\ ~obj.closed
          /\ LET v == Len(obj.in) + 1
             IN  obj' = [obj EXCEPT !.queue = Append(@, v), !.in = Append(@, v)]
          /\ NotifyOne(t, "idle", "receiving")

\* Mutant: a sender is woken only by the receipt that empties the queue.
ReceiveSilently(t) ==
    /\ th[t] = "receiving"
    /\ \/ ~MayReceive /\ th' = [th EXCEPT ![t] = "asleepReceive"] /\ UNCHANGED obj
       \/ MayReceive /\ obj.queue = <<>> /\ th' = [th EXCEPT ![t] = "idle"] /\ UNCHANGED obj
       \/ /\ obj.queue # <<>>
          /\ obj' = [obj EXCEPT !.queue = Tail(@), !.out = Append(@, Head(obj.queue))]
          /\ IF Len(obj.queue) = 1 THEN NotifyOne(t, "idle", "sending") ELSE th' = [th EXCEPT ![t] = "idle"]

Receive(t) ==
    /\ th[t] = "receiving"
    /\ \/ ~MayReceive /\ th' = [th EXCEPT ![t] = "asleepReceive"] /\ UNCHANGED obj
       \/ MayReceive /\ obj.queue = <<>> /\ th' = [th EXCEPT ![t] = "idle"] /\ UNCHANGED obj
       \/ /\ obj.queue # <<>>
          /\ obj' = [obj EXCEPT !.queue = Tail(@), !.out = Append(@, Head(obj.queue))]
          /\ NotifyOne(t, "idle", "sending")

Close(t) ==
    /\ th[t] = "idle"
    /\ ~obj.closed
    /\ obj' = [obj EXCEPT !.closed = TRUE]
    /\ NotifyAll

Next == \E t \in Threads : Call(t) \/ Send(t) \/ Receive(t) \/ Close(t)
Spec == Init /\ [][Next]_vars

(***************************************************************************)
(* Properties.                                                             *)
(***************************************************************************)
CloseWakesAll == obj.closed => In("asleepSend") \union In("asleepReceive") = {}

\* A receiver sleeps only while each element has a receiver that is awake.
ElementsAreFetched == In("asleepReceive") # {} => Len(obj.queue) <= Cardinality(In("receiving"))

\* Nobody sleeps on what it waits for: one notification for each element sent or
\* taken is enough, whoever takes it first, and Close wakes all.
NoneSleepsInVain ==
    /\ ElementsAreFetched
    /\ In("asleepSend") # {} /\ MaySend => In("sending") # {}
    /\ CloseWakesAll

\* How many elements a channel holds at most.
Room == IF obj.capacity = 0 THEN 1 ELSE obj.capacity

\* What was accepted is delivered once and in order, closing or not, and a channel of
\* capacity 0 holds one element that nobody has asked for.
ChannelFifo ==
    /\ obj.in = obj.out \o obj.queue
    /\ Len(obj.queue) <= Room

(***************************************************************************)
(* Proofs, for any capacity and any finite set of threads.                 *)
(***************************************************************************)
Places == {"idle", "sending", "asleepSend", "receiving", "asleepReceive"}

ChannelRecord == [queue : Seq(Nat), capacity : Nat, closed : BOOLEAN, sends : Nat, receives : Nat,
                  in : Seq(Nat), out : Seq(Nat)]

Filled(queue, closed, sends, receives, in, out) ==
    [queue |-> queue, capacity |-> obj.capacity, closed |-> closed, sends |-> sends,
     receives |-> receives, in |-> in, out |-> out]

ChannelTyped == obj \in ChannelRecord /\ th \in [Threads -> Places]

\* A sender sleeps only while each free place has a sender that is awake.
PlacesAreFilled == In("asleepSend") # {} => Room <= Len(obj.queue) + Cardinality(In("sending"))

ChannelInv == ChannelTyped /\ ElementsAreFetched /\ PlacesAreFilled /\ CloseWakesAll /\ ChannelFifo

\* The records that EXCEPT makes.
LEMMA ObjWritten ==
    ASSUME obj \in ChannelRecord
    PROVE  /\ \A n : [obj EXCEPT !.sends = n] = Filled(obj.queue, obj.closed, n, obj.receives, obj.in, obj.out)
           /\ \A n : [obj EXCEPT !.receives = n] = Filled(obj.queue, obj.closed, obj.sends, n, obj.in, obj.out)
           /\ \A c : [obj EXCEPT !.closed = c] = Filled(obj.queue, c, obj.sends, obj.receives, obj.in, obj.out)
           /\ \A q, i : [obj EXCEPT !.queue = q, !.in = i]
                          = Filled(q, obj.closed, obj.sends, obj.receives, i, obj.out)
           /\ \A q, o : [obj EXCEPT !.queue = q, !.out = o]
                          = Filled(q, obj.closed, obj.sends, obj.receives, obj.in, o)
<1>1. obj = Filled(obj.queue, obj.closed, obj.sends, obj.receives, obj.in, obj.out)
  BY DEF ChannelRecord, Filled
<1>2. \A n : [obj EXCEPT !.sends = n] = Filled(obj.queue, obj.closed, n, obj.receives, obj.in, obj.out)
  BY <1>1 DEF Filled
<1>3. \A n : [obj EXCEPT !.receives = n] = Filled(obj.queue, obj.closed, obj.sends, n, obj.in, obj.out)
  BY <1>1 DEF Filled
<1>4. \A c : [obj EXCEPT !.closed = c] = Filled(obj.queue, c, obj.sends, obj.receives, obj.in, obj.out)
  BY <1>1 DEF Filled
<1>5. ASSUME NEW q
      PROVE  /\ \A i : [obj EXCEPT !.queue = q, !.in = i]
                          = Filled(q, obj.closed, obj.sends, obj.receives, i, obj.out)
             /\ \A o : [obj EXCEPT !.queue = q, !.out = o]
                          = Filled(q, obj.closed, obj.sends, obj.receives, obj.in, o)
  <2> DEFINE x == [obj EXCEPT !.queue = q]
  <2>1. x = Filled(q, obj.closed, obj.sends, obj.receives, obj.in, obj.out)
    BY <1>1 DEF Filled
  <2> HIDE DEF x
  <2>2. \A i : [x EXCEPT !.in = i] = Filled(q, obj.closed, obj.sends, obj.receives, i, obj.out)
    BY <2>1 DEF Filled
  <2>3. \A o : [x EXCEPT !.out = o] = Filled(q, obj.closed, obj.sends, obj.receives, obj.in, o)
    BY <2>1 DEF Filled
  <2> QED
    BY <2>2, <2>3 DEF x
<1> QED
  BY <1>2, <1>3, <1>4, <1>5

LEMMA PutInOrder ==
    ASSUME NEW o \in Seq(Nat), NEW q \in Seq(Nat), NEW v \in Nat
    PROVE  Append(o \o q, v) = o \o Append(q, v)
<1>1. <<v>> \in Seq(Nat) /\ o \o q \in Seq(Nat)
  BY ConcatProperties
<1>2. Append(o \o q, v) = (o \o q) \o <<v>> /\ Append(q, v) = q \o <<v>>
  BY <1>1, AppendIsConcat
<1>3. (o \o q) \o <<v>> = o \o (q \o <<v>>)
  BY <1>1, ConcatAssociative
<1> QED
  BY <1>2, <1>3

LEMMA NatConcat ==
    ASSUME NEW a \in Seq(Nat), NEW b \in Seq(Nat), NEW c \in Seq(Nat)
    PROVE  (a \o b) \o c = a \o (b \o c)
BY ConcatAssociative, SMTT(30)

LEMMA TakeInOrder ==
    ASSUME NEW o \in Seq(Nat), NEW q \in Seq(Nat), q # <<>>
    PROVE  o \o q = Append(o, Head(q)) \o Tail(q)
<1> DEFINE h == Head(q)
           t == Tail(q)
<1>1. h \in Nat /\ t \in Seq(Nat) /\ <<h>> \in Seq(Nat)
  BY HeadTailProperties
<1>2. q = <<h>> \o t
  BY <1>1
<1> HIDE DEF h, t
<1>3. Append(o, h) = o \o <<h>>
  BY <1>1, AppendIsConcat
<1>4. (o \o <<h>>) \o t = o \o (<<h>> \o t)
  BY <1>1, NatConcat
<1>5. o \o q = Append(o, h) \o t
  BY <1>2, <1>3, <1>4, Zenon
<1> QED
  BY <1>5 DEF h, t

LEMMA InitChannelInv ==
    ASSUME Capacities \subseteq Nat, Init
    PROVE  ChannelInv
<1>1. PICK c \in Capacities :
        obj = [queue |-> <<>>, capacity |-> c, closed |-> FALSE, sends |-> 0, receives |-> 0,
               in |-> <<>>, out |-> <<>>]
  BY DEF Init
<1>2. <<>> \in Seq(Nat) /\ Len(<<>>) = 0 /\ <<>> \o <<>> = <<>>
  BY EmptySeq, ConcatEmptySeq
<1>3. ChannelTyped
  BY <1>1, <1>2 DEF Init, ChannelTyped, ChannelRecord, Places
<1>4. In("asleepSend") = {} /\ In("asleepReceive") = {}
  BY DEF In, Init
<1>5. ChannelFifo
  BY <1>1, <1>2 DEF ChannelFifo, Room
<1> QED
  BY <1>3, <1>4, <1>5 DEF ChannelInv, ElementsAreFetched, PlacesAreFilled, CloseWakesAll

\* Where the threads are when one moves.
LEMMA OneMoves ==
    ASSUME IsFiniteSet(Threads), ChannelTyped, NEW t \in Threads, NEW o \in Places, th[t] = o,
           NEW p \in Places, p # o, th' \in [Threads -> Places],
           th'[t] = p, \A u \in Threads : u # t => th'[u] = th[u]
    PROVE  /\ \A q \in Places : Cardinality(In(q)) \in Nat
           /\ In(o)' = In(o) \ {t} /\ Cardinality(In(o)') = Cardinality(In(o)) - 1
           /\ In(p)' = In(p) \cup {t} /\ Cardinality(In(p)') = Cardinality(In(p)) + 1
           /\ \A q \in Places : q # p /\ q # o => In(q)' = In(q)
<1>1. th \in [Threads -> Places] /\ th' \in [Threads -> Places]
  BY DEF ChannelTyped
<1>2. \A q \in Places : In(q) \subseteq Threads /\ IsFiniteSet(In(q)) /\ Cardinality(In(q)) \in Nat
  BY FS_Subset, FS_CardinalityType DEF In
<1>3. In(o)' = In(o) \ {t} /\ In(p)' = In(p) \cup {t} /\ t \in In(o) /\ t \notin In(p)
  BY <1>1 DEF In
<1>4. \A q \in Places : q # p /\ q # o => In(q)' = In(q)
  BY <1>1 DEF In
<1>5. Cardinality(In(o) \ {t}) = Cardinality(In(o)) - 1 /\ Cardinality(In(p) \cup {t}) = Cardinality(In(p)) + 1
  BY <1>2, <1>3, FS_AddElement, FS_RemoveElement
<1> QED
  BY <1>1, <1>2, <1>3, <1>4, <1>5

\* A call that ends notifies one thread asleep in the other call, if there is one.
LEMMA OneNotified ==
    ASSUME IsFiniteSet(Threads), ChannelTyped, NEW t \in Threads,
           NEW o \in {"sending", "receiving"}, NEW other \in {"sending", "receiving"}, o # other,
           th[t] = o, NotifyOne(t, "idle", other)
    PROVE  /\ th' \in [Threads -> Places]
           /\ \A q \in Places : Cardinality(In(q)) \in Nat
           /\ Cardinality(In(o)') = Cardinality(In(o)) - 1 /\ Sleeping(o)' = Sleeping(o)
           /\ Sleeping(other)' \subseteq Sleeping(other)
           /\ \/ Sleeping(other) = {} /\ In(other)' = In(other)
              \/ Cardinality(In(other)') = Cardinality(In(other)) + 1
<1>1. th \in [Threads -> Places] /\ t \in In(o)
  BY DEF ChannelTyped, In
<1>2. \A q \in Places : In(q) \subseteq Threads /\ IsFiniteSet(In(q)) /\ Cardinality(In(q)) \in Nat
  BY FS_Subset, FS_CardinalityType DEF In
<1>3. Cardinality(In(o) \ {t}) = Cardinality(In(o)) - 1
  BY <1>1, <1>2, FS_RemoveElement DEF Places
<1>4. CASE Sleeping(other) = {}
  <2>1. th' = [th EXCEPT ![t] = "idle"]
    BY <1>4 DEF NotifyOne
  <2>2. /\ th' \in [Threads -> Places]
        /\ In(o)' = In(o) \ {t} /\ In(other)' = In(other)
        /\ Sleeping(o)' = Sleeping(o) /\ Sleeping(other)' = Sleeping(other)
    BY <1>1, <2>1 DEF In, Sleeping, Places
  <2> QED
    BY <1>2, <1>3, <1>4, <2>2
<1>5. CASE Sleeping(other) # {}
  <2>1. PICK u \in Sleeping(other) : th' = [th EXCEPT ![t] = "idle", ![u] = other]
    BY <1>5 DEF NotifyOne
  <2>2. u \in Threads /\ u # t /\ u \notin In(other)
    BY <1>1 DEF Sleeping, In
  <2>3. /\ th' \in [Threads -> Places]
        /\ In(o)' = In(o) \ {t} /\ In(other)' = In(other) \cup {u}
        /\ Sleeping(o)' = Sleeping(o) /\ Sleeping(other)' = Sleeping(other) \ {u}
    BY <1>1, <2>1, <2>2 DEF In, Sleeping, Places
  <2>4. Cardinality(In(other) \cup {u}) = Cardinality(In(other)) + 1
    BY <1>2, <2>2, FS_AddElement DEF Places
  <2> QED
    BY <1>2, <1>3, <2>3, <2>4
<1> QED
  BY <1>4, <1>5

LEMMA CallPreserves ==
    ASSUME IsFiniteSet(Threads), ChannelInv, NEW t \in Threads, Call(t)
    PROVE  ChannelInv'
<1>1. PICK p \in {"sending", "receiving"} : th' = [th EXCEPT ![t] = p]
  BY DEF Call
<1>2. /\ obj' \in ChannelRecord
      /\ obj'.queue = obj.queue /\ obj'.capacity = obj.capacity /\ obj'.closed = obj.closed
      /\ obj'.in = obj.in /\ obj'.out = obj.out
  <2>1. obj \in ChannelRecord
    BY DEF ChannelInv, ChannelTyped
  <2>2. PICK n \in Nat, m \in Nat : obj' = Filled(obj.queue, obj.closed, n, m, obj.in, obj.out)
    <3>1. obj.sends + 1 \in Nat /\ obj.receives + 1 \in Nat /\ obj.sends \in Nat /\ obj.receives \in Nat
      BY <2>1 DEF ChannelRecord
    <3>2. obj' = [obj EXCEPT !.sends = obj.sends + 1] \/ obj' = [obj EXCEPT !.receives = obj.receives + 1]
      BY DEF Call
    <3>3. [obj EXCEPT !.sends = obj.sends + 1]
            = Filled(obj.queue, obj.closed, obj.sends + 1, obj.receives, obj.in, obj.out)
      BY <2>1, ObjWritten
    <3>4. [obj EXCEPT !.receives = obj.receives + 1]
            = Filled(obj.queue, obj.closed, obj.sends, obj.receives + 1, obj.in, obj.out)
      BY <2>1, ObjWritten
    <3> QED
      BY <3>1, <3>2, <3>3, <3>4
  <2> QED
    BY <2>1, <2>2 DEF Filled, ChannelRecord
<1>3. ChannelTyped /\ th[t] = "idle" /\ Len(obj.queue) \in Nat /\ Room \in Nat
  BY DEF ChannelInv, ChannelTyped, ChannelRecord, Call, Room
<1>4. /\ th' \in [Threads -> Places]
      /\ Cardinality(In("sending")) \in Nat /\ Cardinality(In("receiving")) \in Nat
      /\ Cardinality(In("sending")') >= Cardinality(In("sending"))
      /\ Cardinality(In("receiving")') >= Cardinality(In("receiving"))
      /\ In("asleepSend")' = In("asleepSend") /\ In("asleepReceive")' = In("asleepReceive")
      /\ Cardinality(In("sending")') \in Nat /\ Cardinality(In("receiving")') \in Nat
  <2>1. /\ th' \in [Threads -> Places]
        /\ \A q \in Places : Cardinality(In(q)) \in Nat
        /\ In(p)' = In(p) \cup {t} /\ Cardinality(In(p)') = Cardinality(In(p)) + 1
        /\ \A q \in Places : q # p /\ q # "idle" => In(q)' = In(q)
    <3>1. "idle" \in Places /\ p \in Places /\ p # "idle"
      BY DEF Places
    <3>2. /\ th[t] = "idle" /\ ChannelTyped /\ th' \in [Threads -> Places]
          /\ th'[t] = p /\ \A u \in Threads : u # t => th'[u] = th[u]
      BY <1>1, <1>3, <3>1 DEF ChannelTyped
    <3> QED
      BY <3>1, <3>2, OneMoves
  <2>2. {"sending", "receiving", "asleepSend", "asleepReceive"} \subseteq Places
    BY DEF Places
  <2>3. CASE p = "sending"
    <3>1. In("receiving")' = In("receiving") /\ In("asleepSend")' = In("asleepSend")
          /\ In("asleepReceive")' = In("asleepReceive")
      BY <2>1, <2>2, <2>3
    <3>2. Cardinality(In("sending")') = Cardinality(In("sending")) + 1
      BY <2>1, <2>3
    <3>3. Cardinality(In("receiving")') = Cardinality(In("receiving"))
      BY <3>1
    <3>4. Cardinality(In("sending")) \in Nat /\ Cardinality(In("receiving")) \in Nat
      BY <2>1, <2>2
    <3> QED
      BY <2>1, <3>1, <3>2, <3>3, <3>4
  <2>4. CASE p = "receiving"
    <3>1. In("sending")' = In("sending") /\ In("asleepSend")' = In("asleepSend")
          /\ In("asleepReceive")' = In("asleepReceive")
      BY <2>1, <2>2, <2>4
    <3>2. Cardinality(In("receiving")') = Cardinality(In("receiving")) + 1
      BY <2>1, <2>4
    <3>3. Cardinality(In("sending")') = Cardinality(In("sending"))
      BY <3>1
    <3>4. Cardinality(In("sending")) \in Nat /\ Cardinality(In("receiving")) \in Nat
      BY <2>1, <2>2
    <3> QED
      BY <2>1, <3>1, <3>2, <3>3, <3>4
  <2> QED
    BY <2>3, <2>4
<1> QED
  BY <1>2, <1>3, <1>4
     DEF ChannelInv, ChannelTyped, ElementsAreFetched, PlacesAreFilled, CloseWakesAll, ChannelFifo, Room

\* A thread that only changes its place: it falls asleep, or its call ends with the
\* channel closed.
LEMMA PlacePreserves ==
    ASSUME IsFiniteSet(Threads), ChannelInv, NEW t \in Threads, NEW o \in {"sending", "receiving"},
           th[t] = o, UNCHANGED obj,
           \/ obj.closed /\ th' = [th EXCEPT ![t] = "idle"]
           \/ o = "sending" /\ ~ MaySend /\ th' = [th EXCEPT ![t] = "asleepSend"]
           \/ o = "receiving" /\ ~ MayReceive /\ th' = [th EXCEPT ![t] = "asleepReceive"]
    PROVE  ChannelInv'
<1>1. ChannelTyped /\ Len(obj.queue) \in Nat /\ Room \in Nat /\ Room' = Room
  BY DEF ChannelInv, ChannelTyped, ChannelRecord, Room
<1>2. PICK p \in {"idle", "asleepSend", "asleepReceive"} : th' = [th EXCEPT ![t] = p]
  OBVIOUS
<1>3. /\ th' \in [Threads -> Places]
      /\ \A q \in Places : Cardinality(In(q)) \in Nat
      /\ Cardinality(In(o)') = Cardinality(In(o)) - 1
      /\ In(p)' = In(p) \cup {t}
      /\ \A q \in Places : q # p /\ q # o => In(q)' = In(q)
  <2>1. o \in Places /\ p \in Places /\ p # o
    BY DEF Places
  <2>2. ChannelTyped
    BY <1>1
  <2>3. /\ th' \in [Threads -> Places]
        /\ \A q \in Places : Cardinality(In(q)) \in Nat
        /\ In(o)' = In(o) \ {t} /\ Cardinality(In(o)') = Cardinality(In(o)) - 1
        /\ In(p)' = In(p) \cup {t}
        /\ \A q \in Places : q # p /\ q # o => In(q)' = In(q)
    <3>1. th[t] = o /\ IsFiniteSet(Threads) /\ o \in Places /\ p \in Places /\ p # o /\ ChannelTyped
      BY <1>2, <2>1, <2>2
    <3>2. /\ th' \in [Threads -> Places]
          /\ th'[t] = p /\ \A u \in Threads : u # t => th'[u] = th[u]
      BY <1>2, <3>1 DEF ChannelTyped
    <3> QED
      BY <3>1, <3>2, OneMoves
  <2> QED
    BY <2>3
<1>4. ChannelTyped' /\ ChannelFifo'
  BY <1>1, <1>3 DEF ChannelInv, ChannelTyped, ChannelFifo
<1>5. {"idle", "sending", "receiving", "asleepSend", "asleepReceive"} \subseteq Places
  BY DEF Places
<1>6. th'[t] = p /\ t \in Threads
  BY <1>1, <1>2 DEF ChannelTyped
<1>7. CASE obj.closed /\ th' = [th EXCEPT ![t] = "idle"]
  <2>1. p = "idle"
    BY <1>1, <1>6, <1>7 DEF ChannelTyped
  <2>2. In("asleepSend") = {} /\ In("asleepReceive") = {}
    BY <1>7 DEF ChannelInv, CloseWakesAll
  <2>3. In("asleepSend")' = {} /\ In("asleepReceive")' = {}
    BY <1>3, <1>5, <2>1, <2>2
  <2> QED
    BY <1>4, <2>3 DEF ChannelInv, ElementsAreFetched, PlacesAreFilled, CloseWakesAll
<1>8. CASE o = "sending" /\ ~ MaySend /\ th' = [th EXCEPT ![t] = "asleepSend"]
  <2>1. p = "asleepSend"
    BY <1>1, <1>6, <1>8 DEF ChannelTyped
  <2>2. ~ obj.closed /\ Room <= Len(obj.queue)
    BY <1>1, <1>8, EmptySeq DEF MaySend, Room, ChannelTyped, ChannelRecord
  <2>3. In("asleepReceive")' = In("asleepReceive") /\ In("receiving")' = In("receiving")
    BY <1>3, <1>5, <1>8, <2>1
  <2>4. Cardinality(In("sending")') \in Nat
    <3>1. t \in In("sending")
      BY <1>8 DEF In
    <3>2. Cardinality(In("sending")) # 0
      BY <3>1, FS_EmptySet, FS_Subset DEF In
    <3>3. Cardinality(In("sending")') = Cardinality(In("sending")) - 1 /\ Cardinality(In("sending")) \in Nat
      BY <1>3, <1>5, <1>8
    <3> QED
      BY <3>2, <3>3
  <2>5. ElementsAreFetched' /\ CloseWakesAll'
    BY <2>2, <2>3 DEF ChannelInv, ElementsAreFetched, CloseWakesAll
  <2>6. PlacesAreFilled'
    BY <1>1, <2>2, <2>4 DEF PlacesAreFilled
  <2> QED
    BY <1>4, <2>5, <2>6 DEF ChannelInv
<1>9. CASE o = "receiving" /\ ~ MayReceive /\ th' = [th EXCEPT ![t] = "asleepReceive"]
  <2>1. p = "asleepReceive"
    BY <1>1, <1>6, <1>9 DEF ChannelTyped
  <2>2. ~ obj.closed /\ Len(obj.queue) = 0
    BY <1>1, <1>9, EmptySeq DEF MayReceive
  <2>3. In("asleepSend")' = In("asleepSend") /\ In("sending")' = In("sending")
    BY <1>3, <1>5, <1>9, <2>1
  <2>4. Cardinality(In("receiving")') \in Nat
    <3>1. t \in In("receiving")
      BY <1>9 DEF In
    <3>2. Cardinality(In("receiving")) # 0
      BY <3>1, FS_EmptySet, FS_Subset DEF In
    <3>3. Cardinality(In("receiving")') = Cardinality(In("receiving")) - 1 /\ Cardinality(In("receiving")) \in Nat
      BY <1>3, <1>5, <1>9
    <3> QED
      BY <3>2, <3>3
  <2>5. PlacesAreFilled' /\ CloseWakesAll'
    BY <1>1, <2>2, <2>3 DEF ChannelInv, PlacesAreFilled, CloseWakesAll
  <2>6. ElementsAreFetched'
    BY <2>2, <2>4 DEF ElementsAreFetched
  <2> QED
    BY <1>4, <2>5, <2>6 DEF ChannelInv
<1> QED
  BY <1>7, <1>8, <1>9

\* Send puts an element in and notifies a receiver.
LEMMA PutPreserves ==
    ASSUME IsFiniteSet(Threads), ChannelInv, NEW t \in Threads, th[t] = "sending", MaySend, ~ obj.closed,
           NEW v \in Nat,
           obj' = Filled(Append(obj.queue, v), obj.closed, obj.sends, obj.receives, Append(obj.in, v), obj.out),
           NotifyOne(t, "idle", "receiving")
    PROVE  ChannelInv'
<1>1. /\ ChannelTyped /\ obj \in ChannelRecord /\ Len(obj.queue) \in Nat /\ Room \in Nat
      /\ obj.queue \in Seq(Nat) /\ obj.in \in Seq(Nat) /\ obj.out \in Seq(Nat)
  BY DEF ChannelInv, ChannelTyped, ChannelRecord, Room
<1>3. /\ obj'.queue = Append(obj.queue, v) /\ obj'.in = Append(obj.in, v) /\ obj'.out = obj.out
      /\ obj'.capacity = obj.capacity /\ obj'.closed = obj.closed
      /\ Append(obj.queue, v) \in Seq(Nat) /\ Append(obj.in, v) \in Seq(Nat)
      /\ Len(Append(obj.queue, v)) = Len(obj.queue) + 1 /\ Room' = Room
  BY <1>1, AppendProperties DEF Filled, Room
<1>4. obj' \in ChannelRecord
  BY <1>1, <1>3 DEF Filled, ChannelRecord
<1>5. /\ th' \in [Threads -> Places]
      /\ Cardinality(In("sending")) \in Nat /\ Cardinality(In("receiving")) \in Nat
      /\ Cardinality(In("sending")') = Cardinality(In("sending")) - 1
      /\ In("asleepSend")' = In("asleepSend")
      /\ In("asleepReceive")' \subseteq In("asleepReceive")
      /\ \/ In("asleepReceive") = {}
         \/ Cardinality(In("receiving")') = Cardinality(In("receiving")) + 1
  BY <1>1, OneNotified DEF Sleeping, Places
<1>6. ChannelFifo'
  <2>1. Append(obj.in, v) = obj.out \o Append(obj.queue, v)
    <3>1. obj.in = obj.out \o obj.queue
      BY DEF ChannelInv, ChannelFifo
    <3>2. Append(obj.out \o obj.queue, v) = obj.out \o Append(obj.queue, v)
      BY <1>1, PutInOrder
    <3> QED
      BY <3>1, <3>2
  <2>2. Len(obj.queue) + 1 <= Room
    <3>1. CASE obj.capacity = 0 /\ obj.queue = <<>>
      BY <3>1, EmptySeq DEF Room
    <3>2. CASE Len(obj.queue) < obj.capacity
      BY <1>1, <3>2 DEF Room, ChannelRecord
    <3> QED
      BY <3>1, <3>2 DEF MaySend
  <2> QED
    BY <1>3, <2>1, <2>2 DEF ChannelFifo
<1>7. ElementsAreFetched'
  <2> SUFFICES ASSUME In("asleepReceive")' # {}
               PROVE  Len(Append(obj.queue, v)) <= Cardinality(In("receiving")')
    BY <1>3 DEF ElementsAreFetched
  <2>1. Len(obj.queue) <= Cardinality(In("receiving"))
    BY <1>5 DEF ChannelInv, ElementsAreFetched
  <2>2. Cardinality(In("receiving")') = Cardinality(In("receiving")) + 1
    BY <1>5
  <2> QED
    BY <1>1, <1>3, <1>5, <2>1, <2>2
<1>8. PlacesAreFilled'
  <2> SUFFICES ASSUME In("asleepSend")' # {}
               PROVE  Room <= Len(Append(obj.queue, v)) + Cardinality(In("sending")')
    BY <1>3 DEF PlacesAreFilled
  <2>1. Room <= Len(obj.queue) + Cardinality(In("sending"))
    BY <1>5 DEF ChannelInv, PlacesAreFilled
  <2> QED
    BY <1>1, <1>3, <1>5, <2>1
<1>9. CloseWakesAll'
  BY <1>3 DEF CloseWakesAll
<1> QED
  BY <1>4, <1>5, <1>6, <1>7, <1>8, <1>9 DEF ChannelInv, ChannelTyped

\* Receive takes an element out and notifies a sender.
LEMMA TakePreserves ==
    ASSUME IsFiniteSet(Threads), ChannelInv, NEW t \in Threads, th[t] = "receiving", obj.queue # <<>>,
           obj' = Filled(Tail(obj.queue), obj.closed, obj.sends, obj.receives, obj.in,
                         Append(obj.out, Head(obj.queue))),
           NotifyOne(t, "idle", "sending")
    PROVE  ChannelInv'
<1> DEFINE v == Head(obj.queue)
<1>1. /\ ChannelTyped /\ obj \in ChannelRecord /\ Len(obj.queue) \in Nat /\ Room \in Nat
      /\ obj.queue \in Seq(Nat) /\ obj.in \in Seq(Nat) /\ obj.out \in Seq(Nat)
  BY DEF ChannelInv, ChannelTyped, ChannelRecord, Room
<1>3. /\ v \in Nat /\ Tail(obj.queue) \in Seq(Nat) /\ Len(Tail(obj.queue)) = Len(obj.queue) - 1
      /\ Len(obj.queue) > 0
  BY <1>1, HeadTailProperties, EmptySeq
<1> HIDE DEF v
<1>4. /\ obj'.queue = Tail(obj.queue) /\ obj'.in = obj.in /\ obj'.out = Append(obj.out, v)
      /\ obj'.capacity = obj.capacity /\ obj'.closed = obj.closed
      /\ Append(obj.out, v) \in Seq(Nat) /\ Room' = Room
  BY <1>1, <1>3, AppendProperties DEF Filled, Room, v
<1>5. obj' \in ChannelRecord
  BY <1>1, <1>3, <1>4 DEF v, Filled, ChannelRecord
<1>6. /\ th' \in [Threads -> Places]
      /\ Cardinality(In("sending")) \in Nat /\ Cardinality(In("receiving")) \in Nat
      /\ Cardinality(In("receiving")') = Cardinality(In("receiving")) - 1
      /\ In("asleepReceive")' = In("asleepReceive")
      /\ In("asleepSend")' \subseteq In("asleepSend")
      /\ \/ In("asleepSend") = {}
         \/ Cardinality(In("sending")') = Cardinality(In("sending")) + 1
  BY <1>1, OneNotified DEF Sleeping, Places
<1>7. ChannelFifo'
  <2>1. obj.in = Append(obj.out, v) \o Tail(obj.queue)
    <3>1. obj.in = obj.out \o obj.queue
      BY DEF ChannelInv, ChannelFifo
    <3>2. obj.out \o obj.queue = Append(obj.out, v) \o Tail(obj.queue)
      BY <1>1, TakeInOrder DEF v
    <3> QED
      BY <3>1, <3>2
  <2>2. Len(obj.queue) <= Room
    BY DEF ChannelInv, ChannelFifo
  <2>3. Len(Tail(obj.queue)) <= Room
    BY <1>1, <1>3, <2>2
  <2> QED
    BY <1>4, <2>1, <2>3 DEF ChannelFifo
<1>8. ElementsAreFetched'
  <2> SUFFICES ASSUME In("asleepReceive")' # {}
               PROVE  Len(Tail(obj.queue)) <= Cardinality(In("receiving")')
    BY <1>4 DEF ElementsAreFetched
  <2>1. Len(obj.queue) <= Cardinality(In("receiving"))
    BY <1>6 DEF ChannelInv, ElementsAreFetched
  <2> QED
    BY <1>1, <1>3, <1>6, <2>1
<1>9. PlacesAreFilled'
  <2> SUFFICES ASSUME In("asleepSend")' # {}
               PROVE  Room <= Len(Tail(obj.queue)) + Cardinality(In("sending")')
    BY <1>4 DEF PlacesAreFilled
  <2>1. Room <= Len(obj.queue) + Cardinality(In("sending"))
    BY <1>6 DEF ChannelInv, PlacesAreFilled
  <2>2. Cardinality(In("sending")') = Cardinality(In("sending")) + 1
    BY <1>6
  <2> QED
    BY <1>1, <1>3, <1>6, <2>1, <2>2
<1>10. CloseWakesAll'
  BY <1>4, <1>6 DEF ChannelInv, CloseWakesAll
<1> QED
  BY <1>5, <1>6, <1>7, <1>8, <1>9, <1>10 DEF ChannelInv, ChannelTyped

LEMMA ClosePreserves ==
    ASSUME ChannelInv, NEW t \in Threads, Close(t)
    PROVE  ChannelInv'
<1>1. ChannelTyped /\ obj \in ChannelRecord /\ obj' = [obj EXCEPT !.closed = TRUE]
  BY DEF ChannelInv, ChannelTyped, Close
<1>2. obj' = Filled(obj.queue, TRUE, obj.sends, obj.receives, obj.in, obj.out)
  <2>1. [obj EXCEPT !.closed = TRUE] = Filled(obj.queue, TRUE, obj.sends, obj.receives, obj.in, obj.out)
    BY <1>1, ObjWritten
  <2> QED
    BY <1>1, <2>1
<1>3. obj' \in ChannelRecord /\ ChannelFifo'
  BY <1>1, <1>2 DEF Filled, ChannelRecord, ChannelInv, ChannelFifo, Room
<1>4. /\ th' \in [Threads -> Places]
      /\ In("asleepSend")' = {} /\ In("asleepReceive")' = {}
  BY <1>1 DEF Close, NotifyAll, In, ChannelTyped, Places
<1> QED
  BY <1>3, <1>4 DEF ChannelInv, ChannelTyped, ElementsAreFetched, PlacesAreFilled, CloseWakesAll

LEMMA NextChannelInv ==
    ASSUME IsFiniteSet(Threads), ChannelInv, [Next]_vars
    PROVE  ChannelInv'
<1>1. ASSUME NEW t \in Threads, Send(t) PROVE ChannelInv'
  <2>1. CASE ~MaySend \/ obj.closed
    BY <1>1, <2>1, PlacePreserves DEF Send
  <2>2. CASE MaySend /\ ~obj.closed
    <3>1. Len(obj.in) + 1 \in Nat
      BY DEF ChannelInv, ChannelTyped, ChannelRecord
    <3>2. obj' = [obj EXCEPT !.queue = Append(obj.queue, Len(obj.in) + 1), !.in = Append(obj.in, Len(obj.in) + 1)]
          /\ NotifyOne(t, "idle", "receiving") /\ th[t] = "sending"
      BY <1>1, <2>2 DEF Send
    <3>3. obj' = Filled(Append(obj.queue, Len(obj.in) + 1), obj.closed, obj.sends, obj.receives,
                        Append(obj.in, Len(obj.in) + 1), obj.out)
      BY <3>2, ObjWritten DEF ChannelInv, ChannelTyped
    <3> QED
      BY <2>2, <3>1, <3>2, <3>3, PutPreserves
  <2> QED
    BY <2>1, <2>2
<1>2. ASSUME NEW t \in Threads, Receive(t) PROVE ChannelInv'
  <2>1. CASE obj.queue = <<>>
    BY <1>2, <2>1, PlacePreserves DEF Receive, MayReceive
  <2>2. CASE obj.queue # <<>>
    <3>1. obj' = [obj EXCEPT !.queue = Tail(obj.queue), !.out = Append(obj.out, Head(obj.queue))]
          /\ NotifyOne(t, "idle", "sending") /\ th[t] = "receiving"
      BY <1>2, <2>2 DEF Receive, MayReceive
    <3>2. obj' = Filled(Tail(obj.queue), obj.closed, obj.sends, obj.receives, obj.in,
                        Append(obj.out, Head(obj.queue)))
      BY <3>1, ObjWritten DEF ChannelInv, ChannelTyped
    <3> QED
      BY <2>2, <3>1, <3>2, TakePreserves
  <2> QED
    BY <2>1, <2>2
<1>3. CASE UNCHANGED vars
  BY <1>3 DEF vars, ChannelInv, ChannelTyped, ElementsAreFetched, PlacesAreFilled, CloseWakesAll, ChannelFifo,
              Room, In
<1> QED
  BY <1>1, <1>2, <1>3, CallPreserves, ClosePreserves DEF Next

\* Nobody sleeps on what it waits for.
THEOREM ChannelWakes ==
    ASSUME IsFiniteSet(Threads), Capacities \subseteq Nat
    PROVE  Spec => []NoneSleepsInVain
<1>1. Init => ChannelInv
  BY InitChannelInv
<1>2. ChannelInv /\ [Next]_vars => ChannelInv'
  BY NextChannelInv
<1>3. ChannelInv => NoneSleepsInVain
  <2> SUFFICES ASSUME ChannelInv PROVE In("asleepSend") # {} /\ MaySend => In("sending") # {}
    BY DEF ChannelInv, NoneSleepsInVain
  <2> SUFFICES ASSUME In("asleepSend") # {}, MaySend, In("sending") = {} PROVE FALSE
    OBVIOUS
  <2>1. Cardinality(In("sending")) = 0
    BY FS_EmptySet
  <2>2. Len(obj.queue) \in Nat /\ obj.capacity \in Nat /\ ~ obj.closed
    BY DEF ChannelInv, ChannelTyped, ChannelRecord, CloseWakesAll
  <2>3. Room <= Len(obj.queue)
    BY <2>1, <2>2 DEF ChannelInv, PlacesAreFilled
  <2> QED
    BY <2>2, <2>3, EmptySeq DEF MaySend, Room
<1> QED
  BY <1>1, <1>2, <1>3, PTL DEF Spec

\* What was accepted is delivered once and in order, and the capacity is kept.
THEOREM ChannelDelivers ==
    ASSUME IsFiniteSet(Threads), Capacities \subseteq Nat
    PROVE  Spec => []ChannelFifo
<1>1. Init => ChannelInv
  BY InitChannelInv
<1>2. ChannelInv /\ [Next]_vars => ChannelInv'
  BY NextChannelInv
<1>3. ChannelInv => ChannelFifo
  BY DEF ChannelInv
<1> QED
  BY <1>1, <1>2, <1>3, PTL DEF Spec
=============================================================================
