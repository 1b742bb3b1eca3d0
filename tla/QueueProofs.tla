----------------------------- MODULE QueueProofs -----------------------------
(***************************************************************************)
(* Proofs about queues, for any threads, messages, capacities and bounds:  *)
(* the two of a chat server, LogicQueue and SendQueue, and those that      *)
(* threads of the concurrency library share, ThreadPool, ThreadSafeQueue,  *)
(* CircularQueue and LockFreeQueue; and the facts about sequences that     *)
(* they rest on.                                                           *)
(***************************************************************************)
EXTENDS ServerPipeline, SequenceTheorems, FiniteSetTheorems, FunctionTheorems, TLAPS

\* The queues of the library are instances by name.
CONSTANTS Threads, Null, Workers, MaxTasks, MaxStops, MaxPushes, MaxPops, Size, Nodes, MaxCount
VARIABLES obj, th

Pool == INSTANCE ThreadPool
ListQueue == INSTANCE ThreadSafeQueue
Linked == INSTANCE LockFreeQueue
Ring == INSTANCE CircularQueue WITH N <- Size

-----------------------------------------------------------------------------
(* Sequences *)

\* A sequence that is not empty is its head and its tail.
LEMMA HeadThenTail ==
  ASSUME NEW M, NEW t \in Seq(M), t # <<>>
  PROVE  /\ Head(t) \in M
         /\ Tail(t) \in Seq(M)
         /\ t = <<Head(t)>> \o Tail(t)
<1>1. /\ Head(t) \in M
      /\ Tail(t) \in Seq(M)
      /\ Len(Tail(t)) = Len(t) - 1
      /\ \A i \in 1 .. Len(Tail(t)) : Tail(t)[i] = t[i + 1]
  BY HeadTailProperties
<1> DEFINE u == <<Head(t)>> \o Tail(t)
<1>2. u \in Seq(M) /\ Len(u) = Len(t)
  BY <1>1
<1>3. ASSUME NEW i \in 1 .. Len(t) PROVE u[i] = t[i]
  BY <1>1
<1>4. t = u
  <2> HIDE DEF u
  <2> QED
    BY <1>2, <1>3, SeqEqual
<1> QED
  BY <1>1, <1>4

\* To move the first element of t to the end of s does not change s \o t.
LEMMA MoveHead ==
  ASSUME NEW M, NEW s \in Seq(M), NEW t \in Seq(M), t # <<>>
  PROVE  /\ Append(s, Head(t)) \o Tail(t) = s \o t
         /\ Append(s, Head(t)) \in Seq(M)
         /\ Tail(t) \in Seq(M)
<1>1. /\ Head(t) \in M
      /\ Tail(t) \in Seq(M)
      /\ t = <<Head(t)>> \o Tail(t)
  BY HeadThenTail
<1>2. Append(s, Head(t)) \in Seq(M) /\ <<Head(t)>> \in Seq(M)
  BY <1>1
<1>3. Append(s, Head(t)) = s \o <<Head(t)>>
  BY <1>1, AppendIsConcat
<1>4. (s \o <<Head(t)>>) \o Tail(t) = s \o (<<Head(t)>> \o Tail(t))
  BY <1>1, <1>2, ConcatAssociative
<1> QED
  BY <1>1, <1>2, <1>3, <1>4

\* A sequence over a set is one over every larger set.
LEMMA SeqGrows ==
  ASSUME NEW S, NEW T, S \subseteq T, NEW s \in Seq(S)
  PROVE  s \in Seq(T)
OBVIOUS

\* The two operators under names that the provers do not interpret.
Joined(s, t) == s \o t
Extended(s, e) == Append(s, e)

\* To append to the second part is to append to the whole.
LEMMA ExtendJoined ==
  ASSUME NEW M, NEW s \in Seq(M), NEW t \in Seq(M), NEW e \in M
  PROVE  Extended(Joined(s, t), e) = Joined(s, Extended(t, e))
<1>1. s \o t \in Seq(M) /\ <<e>> \in Seq(M)
  BY ConcatProperties
<1>2. Append(s \o t, e) = (s \o t) \o <<e>> /\ Append(t, e) = t \o <<e>>
  BY <1>1, AppendIsConcat
<1>3. (s \o t) \o <<e>> = s \o (t \o <<e>>)
  BY <1>1, ConcatAssociative
<1> QED
  BY <1>2, <1>3 DEF Extended, Joined

\* What a sequence is continued with does not change its prefixes.
LEMMA ConcatHasPrefix ==
  ASSUME NEW M, NEW s \in Seq(M), NEW t \in Seq(M)
  PROVE  /\ Len(s) <= Len(s \o t)
         /\ SubSeq(s, 1, Len(s)) = SubSeq(s \o t, 1, Len(s))
<1>1. Len(s) \in Nat /\ Len(t) \in Nat /\ Len(s \o t) = Len(s) + Len(t)
  BY ConcatProperties
<1>2. CASE Len(s) = 0
  BY <1>1, <1>2, SubSeqEmpty
<1>3. CASE Len(s) # 0
  <2>1. 1 \in 1 .. Len(s) /\ Len(s) \in 1 .. Len(s)
    BY <1>1, <1>3
  <2> QED
    BY <1>1, <2>1, SubSeqOfConcat1
<1> QED
  BY <1>1, <1>2, <1>3

-----------------------------------------------------------------------------
(* LogicQueue: the inductive invariant *)

\* A worker about to sleep has seen an empty queue and still has mutex_.
BlockSeesEmpty == worker = "block" => msg_queue_ = <<>>

\* A worker that leaves its loop has a message or was told to stop.
BranchFindsMessage == worker = "branch" => msg_queue_ # <<>> \/ is_stop_

\* Only the destructor writes is_stop_, and only a stopped worker drains the
\* queue and leaves.
StoppedBeforeExit ==
  /\ worker \in {"drain", "exited"} => is_stop_
  /\ is_stop_ => dtor # "no"
  /\ atStop <= Len(posted)

QueueInv ==
  /\ QueueTypeOK
  /\ HandledInOrder
  /\ NeverSleepsOnMessage
  /\ BlockSeesEmpty
  /\ BranchFindsMessage
  /\ StoppedBeforeExit
  /\ StopLosesNothing

-----------------------------------------------------------------------------
(* LogicQueue: every step preserves the invariant *)

LEMMA InitQueueInv == QueueInit => QueueInv
<1> SUFFICES ASSUME QueueInit PROVE QueueInv
  OBVIOUS
<1>1. <<>> \in Seq(Messages) /\ Len(<<>>) = 0
  BY EmptySeq
<1>2. <<>> \o <<>> = <<>>
  BY <1>1, ConcatEmptySeq
<1>3. QueueTypeOK
  BY <1>1 DEF QueueInit, QueueTypeOK, WorkerPlaces
<1>4. HandledInOrder
  BY <1>2 DEF QueueInit, HandledInOrder
<1> QED
  BY <1>1, <1>3, <1>4
     DEF QueueInit, QueueInv, NeverSleepsOnMessage, BlockSeesEmpty,
         BranchFindsMessage, StoppedBeforeExit, StopLosesNothing

\* PostMsgToQueue: the worker does not own mutex_; if it sleeps, the queue
\* was empty, so the length is now one and it is notified.
LEMMA PostPreserves ==
  ASSUME QueueInv, NEW m \in Messages, Post(m)
  PROVE  QueueInv'
<1> USE DEF QueueInv, Post, Owning
<1>1. msg_queue_' \in Seq(Messages) /\ posted' \in Seq(Messages)
  BY DEF QueueTypeOK
<1>2. Len(posted') = Len(posted) + 1 /\ Len(msg_queue_') = Len(msg_queue_) + 1
  BY DEF QueueTypeOK
<1>3. worker' # "wait" /\ worker' \notin Owning
  <2>1. CASE worker = "wait"
    <3>1. Len(msg_queue_') = 1
      BY <2>1, <1>2 DEF NeverSleepsOnMessage
    <3> QED
      BY <2>1, <3>1 DEF NotifiedByPost, Notified
  <2>2. CASE worker # "wait"
    BY <2>2 DEF NotifiedByPost, Notified
  <2> QED
    BY <2>1, <2>2
<1>4. worker' \in WorkerPlaces /\ (worker' = "exited" => worker = "exited")
  BY DEF QueueTypeOK, WorkerPlaces, NotifiedByPost, Notified
<1>5. QueueTypeOK'
  BY <1>1, <1>3, <1>4 DEF QueueTypeOK
<1>6. HandledInOrder'
  <2>1. handled \in Seq(Messages) /\ msg_queue_ \in Seq(Messages)
    BY DEF QueueTypeOK
  <2>2. posted' = Extended(Joined(handled, msg_queue_), m)
    BY DEF HandledInOrder, Extended, Joined
  <2>3. posted' = Joined(handled, Extended(msg_queue_, m))
    BY <2>1, <2>2, ExtendJoined
  <2> QED
    BY <2>3 DEF HandledInOrder, Extended, Joined
<1>7. NeverSleepsOnMessage' /\ BlockSeesEmpty' /\ BranchFindsMessage'
  BY <1>3 DEF NeverSleepsOnMessage, BlockSeesEmpty, BranchFindsMessage
<1>8. StoppedBeforeExit'
  BY <1>2, <1>3, <1>4 DEF StoppedBeforeExit, QueueTypeOK
<1>9. StopLosesNothing'
  BY <1>4 DEF StopLosesNothing
<1> QED
  BY <1>5, <1>6, <1>7, <1>8, <1>9

\* A step of the worker that leaves the queue alone.
LEMMA WorkerMoves ==
  ASSUME QueueInv, Lock \/ Test \/ Wait \/ SpuriousWake \/ Relock \/ Branch
  PROVE  QueueInv'
<1> USE DEF QueueInv, QueueTypeOK, HandledInOrder, NeverSleepsOnMessage, BlockSeesEmpty,
            BranchFindsMessage, StoppedBeforeExit, StopLosesNothing, WorkerPlaces, Go
<1>1. CASE Lock
  BY <1>1 DEF Lock
<1>2. CASE Test
  BY <1>2 DEF Test, MustWait
<1>3. CASE Wait
  BY <1>3 DEF Wait
<1>4. CASE SpuriousWake
  BY <1>4 DEF SpuriousWake
<1>5. CASE Relock
  BY <1>5 DEF Relock
<1>6. CASE Branch
  BY <1>6 DEF Branch
<1> QED
  BY <1>1, <1>2, <1>3, <1>4, <1>5, <1>6

\* A handler takes the first message and appends it to what was handled.
LEMMA DealPreserves ==
  ASSUME QueueInv, Handle \/ Drain
  PROVE  QueueInv'
<1> USE DEF QueueInv
<1>1. /\ DealFirstMsg /\ msg_queue_ # <<>>
      /\ UNCHANGED <<is_stop_, dtor, posted, atStop>>
      /\ worker' \in {"lock", "drain"}
      /\ worker' = "drain" => worker = "drain"
  BY DEF Handle, Drain, Go, QueueTypeOK
<1>2. /\ handled' \o msg_queue_' = handled \o msg_queue_
      /\ handled' \in Seq(Messages)
      /\ msg_queue_' \in Seq(Messages)
  BY <1>1, MoveHead DEF DealFirstMsg, QueueTypeOK
<1>3. QueueTypeOK'
  BY <1>1, <1>2 DEF QueueTypeOK, WorkerPlaces
<1>4. HandledInOrder'
  BY <1>1, <1>2 DEF HandledInOrder
<1>5. NeverSleepsOnMessage' /\ BlockSeesEmpty' /\ BranchFindsMessage' /\ StopLosesNothing'
  BY <1>1 DEF NeverSleepsOnMessage, BlockSeesEmpty, BranchFindsMessage, StopLosesNothing
<1>6. StoppedBeforeExit'
  BY <1>1 DEF StoppedBeforeExit
<1> QED
  BY <1>3, <1>4, <1>5, <1>6

\* The worker leaves when nothing is queued: all that was posted is handled,
\* and what was posted before the stop is part of it.
LEMMA ExitPreserves ==
  ASSUME QueueInv, Exit
  PROVE  QueueInv'
<1> USE DEF QueueInv, Exit, Go
<1>1. handled = posted
  BY ConcatEmptySeq DEF HandledInOrder, QueueTypeOK
<1>2. StopLosesNothing'
  BY <1>1 DEF StopLosesNothing, StoppedBeforeExit
<1> QED
  BY <1>2 DEF QueueTypeOK, WorkerPlaces, HandledInOrder, NeverSleepsOnMessage,
              BlockSeesEmpty, BranchFindsMessage, StoppedBeforeExit

\* The destructor writes is_stop_ while the worker is still in its loop.
LEMMA DtorPreserves ==
  ASSUME QueueInv, Stop \/ Notify \/ Join
  PROVE  QueueInv'
<1> USE DEF QueueInv, QueueTypeOK, HandledInOrder, NeverSleepsOnMessage, BlockSeesEmpty,
            BranchFindsMessage, StoppedBeforeExit, StopLosesNothing, WorkerPlaces
<1>1. CASE Stop
  <2>1. worker \notin {"drain", "exited"}
    BY <1>1 DEF Stop
  <2> QED
    BY <1>1, <2>1 DEF Stop
<1>2. CASE Notify
  BY <1>2 DEF Notify, Notified
<1>3. CASE Join
  BY <1>3 DEF Join
<1> QED
  BY <1>1, <1>2, <1>3

LEMMA NextQueueInv == QueueInv /\ [QueueNext]_queueVars => QueueInv'
<1> SUFFICES ASSUME QueueInv, [QueueNext]_queueVars
             PROVE  QueueInv'
  OBVIOUS
<1>1. CASE \E m \in Messages : Post(m)
  BY <1>1, PostPreserves
<1>2. CASE DealMsg
  BY <1>2, WorkerMoves, DealPreserves, ExitPreserves DEF DealMsg
<1>3. CASE SpuriousWake
  BY <1>3, WorkerMoves
<1>4. CASE Stop \/ Notify \/ Join
  BY <1>4, DtorPreserves
<1>5. CASE UNCHANGED queueVars
  BY <1>5 DEF queueVars, QueueInv, QueueTypeOK, HandledInOrder, NeverSleepsOnMessage,
              BlockSeesEmpty, BranchFindsMessage, StoppedBeforeExit, StopLosesNothing
<1> QED
  BY <1>1, <1>2, <1>3, <1>4, <1>5 DEF QueueNext

LEMMA QueueInvariant == QueueSpec => []QueueInv
BY InitQueueInv, NextQueueInv, PTL DEF QueueSpec

-----------------------------------------------------------------------------
(* LogicQueue: theorems *)

\* The variables of DealMsg keep their types, and front() is only called on a
\* queue that has an element.
THEOREM QueueTyped == QueueSpec => []QueueTypeOK
<1>1. QueueInv => QueueTypeOK
  BY DEF QueueInv
<1> QED
  BY <1>1, QueueInvariant, PTL

\* The worker handles every message of PostMsgToQueue once and in the order
\* of the posts, whether the system is running or stopped.
THEOREM QueueHandlesInOrder == QueueSpec => []HandledInOrder
<1>1. QueueInv => HandledInOrder
  BY DEF QueueInv
<1> QED
  BY <1>1, QueueInvariant, PTL

\* No wake-up is lost to PostMsgToQueue's rule of notifying only when the
\* queue was empty.
THEOREM QueueNeverSleepsOnMessage == QueueSpec => []NeverSleepsOnMessage
<1>1. QueueInv => NeverSleepsOnMessage
  BY DEF QueueInv
<1> QED
  BY <1>1, QueueInvariant, PTL

\* When the worker of a stopped system leaves DealMsg, it has handled all that
\* was posted before the destructor wrote is_stop_.
THEOREM QueueStopLosesNothing == QueueSpec => []StopLosesNothing
<1>1. QueueInv => StopLosesNothing
  BY DEF QueueInv
<1> QED
  BY <1>1, QueueInvariant, PTL

-----------------------------------------------------------------------------
(* SendQueue: the inductive invariant *)

\* There is one write at most.
OneWrite == \A v, w \in writes : v = w

\* It is the one of the front node.
OfTheFront == \A w \in writes : send_queue_ # <<>> /\ w.node = Head(send_queue_)

\* The front node stays in the queue until its callback runs; when the kernel
\* has taken it, it is not among those still to be written.
Unwritten ==
  IF \E w \in writes : w.state = "done" THEN Tail(send_queue_) ELSE send_queue_

WrittenInOrder == accepted = wire \o Unwritten

SendInv == SendTypeOK /\ OneWrite /\ OfTheFront /\ WrittenInOrder /\ NoneStranded

\* The one write and its node, for the callbacks.
LEMMA TheWrite ==
  ASSUME SendInv, NEW w \in writes
  PROVE  /\ writes = {w}
         /\ w.node = Head(send_queue_)
         /\ send_queue_ # <<>>
         /\ w.node \in Ids
         /\ Head(send_queue_) \in Ids
         /\ Tail(send_queue_) \in Seq(Ids)
         /\ Len(Tail(send_queue_)) = Len(send_queue_) - 1
         /\ Unwritten = IF w.state = "done" THEN Tail(send_queue_) ELSE send_queue_
<1> USE DEF SendInv
<1>1. writes = {w} /\ w.node = Head(send_queue_) /\ send_queue_ # <<>>
  BY DEF OneWrite, OfTheFront
<1>2. Head(send_queue_) \in Ids /\ Tail(send_queue_) \in Seq(Ids)
      /\ Len(Tail(send_queue_)) = Len(send_queue_) - 1
  BY <1>1, HeadTailProperties DEF SendTypeOK
<1> QED
  BY <1>1, <1>2 DEF Unwritten

-----------------------------------------------------------------------------
(* SendQueue: every step preserves the invariant *)

LEMMA InitSendInv == SendInit => SendInv
<1> SUFFICES ASSUME SendInit PROVE SendInv
  OBVIOUS
<1>1. <<>> \in Seq(Ids) /\ Len(<<>>) = 0
  BY EmptySeq
<1>2. <<>> \o <<>> = <<>>
  BY <1>1, ConcatEmptySeq
<1>3. SendTypeOK
  <2>1. calls \in 0 .. MaxSends /\ Len(send_queue_) <= kMaxSendQueue + 1
    BY <1>1, BoundsAssumption DEF SendInit
  <2> QED
    BY <1>1, <2>1 DEF SendInit, SendTypeOK
<1>4. WrittenInOrder
  BY <1>2 DEF SendInit, WrittenInOrder, Unwritten
<1> QED
  BY <1>3, <1>4 DEF SendInit, SendInv, OneWrite, OfTheFront, NoneStranded

\* A refused call is counted and changes nothing else.
LEMMA SendRefusedPreserves ==
  ASSUME SendInv, SendRefused
  PROVE  SendInv'
<1> USE DEF SendInv, SendRefused
<1>1. Ids \subseteq Ids' /\ calls' \in 0 .. MaxSends
  BY BoundsAssumption DEF SendTypeOK, Ids
<1>2. SendTypeOK'
  BY <1>1 DEF SendTypeOK
<1> QED
  BY <1>2 DEF OneWrite, OfTheFront, WrittenInOrder, Unwritten, NoneStranded

\* Send: a queue that is empty has no write, so the new node starts one; a
\* queue that is not has its front and its write as before.
LEMMA SendPreserves ==
  ASSUME SendInv, Send
  PROVE  SendInv'
<1> USE DEF SendInv, Send
<1> DEFINE c == calls + 1
<1>1. /\ Ids \subseteq Ids' /\ c \in Ids' /\ calls' = c /\ c \in 0 .. MaxSends
      /\ Ids' \subseteq Nat
  BY BoundsAssumption DEF SendTypeOK, Ids
<1>2. /\ send_queue_ \in Seq(Ids') /\ accepted \in Seq(Ids') /\ wire \in Seq(Ids')
  BY <1>1, SeqGrows DEF SendTypeOK
<1>3. /\ send_queue_' = Append(send_queue_, c) /\ accepted' = Append(accepted, c)
      /\ send_queue_' # <<>> /\ wire' = wire
      /\ Len(send_queue_') = Len(send_queue_) + 1
      /\ send_queue_' \in Seq(Ids') /\ accepted' \in Seq(Ids')
      /\ Head(send_queue_') = IF send_queue_ = <<>> THEN c ELSE Head(send_queue_)
      /\ Tail(send_queue_') = IF send_queue_ = <<>> THEN <<>> ELSE Append(Tail(send_queue_), c)
  BY <1>1, <1>2, AppendProperties, HeadTailAppend
<1>4. Len(send_queue_') <= kMaxSendQueue + 1
  BY <1>3, BoundsAssumption DEF SendTypeOK, Full
<1>5. CASE send_queue_ = <<>>
  <2>1. writes = {}
    BY <1>5 DEF OfTheFront
  <2>2. writes' = {AsyncWrite(c)}
    BY <1>5, <2>1, <1>1
  <2>3. /\ AsyncWrite(c).node = c /\ AsyncWrite(c).state \in {"flying", "failed"}
        /\ AsyncWrite(c) \in [node : Ids', state : {"flying", "done", "failed"}]
    BY <1>1 DEF AsyncWrite
  <2>4. writes' \subseteq [node : Ids', state : {"flying", "done", "failed"}]
    BY <2>2, <2>3
  <2>5. SendTypeOK'
    BY <1>1, <1>2, <1>3, <1>4, <2>4 DEF SendTypeOK
  <2>6. OneWrite' /\ OfTheFront' /\ NoneStranded'
    BY <1>3, <1>5, <2>2, <2>3 DEF OneWrite, OfTheFront, NoneStranded
  <2>7. Unwritten = <<>> /\ Unwritten' = Append(<<>>, c)
    BY <1>3, <1>5, <2>1, <2>2, <2>3 DEF Unwritten
  <2>8. accepted = wire
    BY <1>2, <2>7, ConcatEmptySeq DEF WrittenInOrder
  <2>9. Append(wire, c) = wire \o <<c>>
    BY <1>1, <1>2, AppendIsConcat
  <2>10. WrittenInOrder'
    BY <1>3, <2>7, <2>8, <2>9 DEF WrittenInOrder
  <2> QED
    BY <2>5, <2>6, <2>10
<1>6. CASE send_queue_ # <<>>
  <2>1. writes' = writes /\ is_closed_' = is_closed_
    BY <1>6
  <2>2. SendTypeOK'
    BY <1>1, <1>2, <1>3, <1>4, <2>1 DEF SendTypeOK
  <2>3. OneWrite' /\ OfTheFront' /\ NoneStranded'
    BY <1>3, <1>6, <2>1 DEF OneWrite, OfTheFront, NoneStranded
  <2>4. Unwritten \in Seq(Ids') /\ Unwritten' = Append(Unwritten, c)
    <3>1. Tail(send_queue_) \in Seq(Ids')
      BY <1>2, <1>6, HeadTailProperties
    <3> QED
      BY <1>2, <1>3, <1>6, <2>1, <3>1 DEF Unwritten
  <2>5. accepted' = Extended(Joined(wire, Unwritten), c)
    BY <1>3 DEF WrittenInOrder, Extended, Joined
  <2>6. accepted' = Joined(wire, Extended(Unwritten, c))
    BY <1>1, <1>2, <2>4, <2>5, ExtendJoined
  <2>7. accepted' = wire \o Unwritten'
    BY <2>4, <2>6 DEF Extended, Joined
  <2>8. WrittenInOrder'
    BY <1>3, <2>7 DEF WrittenInOrder
  <2> QED
    BY <2>2, <2>3, <2>8
<1> QED
  BY <1>5, <1>6

\* The kernel takes the front node, which stays in the queue, or fails.
LEMMA KernelPreserves ==
  ASSUME SendInv, NEW w \in writes, Written(w) \/ WriteBreaks(w)
  PROVE  SendInv'
<1> USE DEF SendInv
<1>1. /\ writes = {w} /\ w.node = Head(send_queue_) /\ send_queue_ # <<>>
      /\ w.node \in Ids /\ w.state = "flying" /\ Unwritten = send_queue_
  BY TheWrite DEF Written, WriteBreaks
<1>2. CASE Written(w)
  <2> DEFINE v == [node |-> w.node, state |-> "done"]
  <2>1. writes' = {v} /\ v.node = w.node /\ v.state = "done"
        /\ UNCHANGED <<send_queue_, is_closed_, calls, accepted>>
        /\ wire' = Append(wire, Head(send_queue_))
    BY <1>1, <1>2 DEF Written, Write
  <2>2. /\ wire' \o Tail(send_queue_) = wire \o send_queue_
        /\ wire' \in Seq(Ids)
    <3>1. wire \in Seq(Ids) /\ send_queue_ \in Seq(Ids) /\ send_queue_ # <<>>
      BY <1>1 DEF SendTypeOK
    <3>2. /\ Append(wire, Head(send_queue_)) \o Tail(send_queue_) = wire \o send_queue_
          /\ Append(wire, Head(send_queue_)) \in Seq(Ids)
      BY <3>1, MoveHead
    <3> QED
      BY <2>1, <3>2
  <2>3. SendTypeOK'
    BY <1>1, <2>1, <2>2 DEF SendTypeOK, Ids
  <2>4. OneWrite' /\ OfTheFront' /\ NoneStranded'
    BY <1>1, <2>1 DEF OneWrite, OfTheFront, NoneStranded
  <2>5. Unwritten' = Tail(send_queue_)
    BY <2>1 DEF Unwritten
  <2>6. WrittenInOrder'
    BY <1>1, <2>1, <2>2, <2>5 DEF WrittenInOrder
  <2> QED
    BY <2>3, <2>4, <2>6
<1>3. CASE WriteBreaks(w)
  <2> DEFINE v == [node |-> w.node, state |-> "failed"]
  <2>1. writes' = {v} /\ v.node = w.node /\ v.state = "failed"
        /\ UNCHANGED <<send_queue_, is_closed_, calls, accepted, wire>>
    BY <1>1, <1>3 DEF WriteBreaks, Write
  <2>2. SendTypeOK'
    BY <1>1, <2>1 DEF SendTypeOK, Ids
  <2>3. OneWrite' /\ OfTheFront' /\ NoneStranded'
    BY <1>1, <2>1 DEF OneWrite, OfTheFront, NoneStranded
  <2>4. Unwritten' = send_queue_
    BY <2>1 DEF Unwritten
  <2>5. WrittenInOrder'
    BY <1>1, <2>1, <2>4 DEF WrittenInOrder
  <2> QED
    BY <2>2, <2>3, <2>5
<1> QED
  BY <1>2, <1>3

\* HandleWrite: the node goes and the next one is written, or the session is
\* closed and the queue left as it is.
LEMMA CallbackPreserves ==
  ASSUME SendInv, NEW w \in writes, HandleWritten(w) \/ HandleFailed(w)
  PROVE  SendInv'
<1> USE DEF SendInv
<1>1. CASE HandleWritten(w)
  <2> DEFINE q == Tail(send_queue_)
  <2>1. /\ writes = {w} /\ q \in Seq(Ids) /\ Len(q) = Len(send_queue_) - 1
        /\ send_queue_' = q /\ Unwritten = q
        /\ UNCHANGED <<is_closed_, calls, accepted, wire>>
    BY <1>1, TheWrite DEF HandleWritten
  <2>2. writes' = IF q # <<>> THEN {AsyncWrite(Head(q))} ELSE {}
    BY <1>1, <2>1 DEF HandleWritten
  <2>3. q # <<>> => Head(q) \in Ids
    BY <2>1, HeadTailProperties
  <2>4. \A v \in writes' :
           /\ q # <<>> /\ v.node = Head(q) /\ v.state \in {"flying", "failed"}
           /\ v \in [node : Ids, state : {"flying", "done", "failed"}]
    BY <2>2, <2>3 DEF AsyncWrite
  <2>5. SendTypeOK'
    BY <2>1, <2>4, BoundsAssumption DEF SendTypeOK, Ids
  <2>6. OneWrite' /\ OfTheFront' /\ NoneStranded'
    BY <2>1, <2>2, <2>4 DEF OneWrite, OfTheFront, NoneStranded
  <2>7. Unwritten' = q
    BY <2>1, <2>4 DEF Unwritten
  <2>8. WrittenInOrder'
    BY <2>1, <2>7 DEF WrittenInOrder
  <2> QED
    BY <2>5, <2>6, <2>8
<1>2. CASE HandleFailed(w)
  <2>1. /\ writes' = {} /\ is_closed_' = TRUE /\ Unwritten = send_queue_
        /\ UNCHANGED <<send_queue_, calls, accepted, wire>>
    BY <1>2, TheWrite DEF HandleFailed
  <2>2. Unwritten' = send_queue_
    BY <2>1 DEF Unwritten
  <2> QED
    BY <2>1, <2>2 DEF SendTypeOK, Ids, OneWrite, OfTheFront, WrittenInOrder, NoneStranded
<1> QED
  BY <1>1, <1>2

LEMMA NextSendInv == SendInv /\ [SendNext]_sendVars => SendInv'
<1> SUFFICES ASSUME SendInv, [SendNext]_sendVars
             PROVE  SendInv'
  OBVIOUS
<1>1. CASE SendRefused
  BY <1>1, SendRefusedPreserves
<1>2. CASE Send
  BY <1>2, SendPreserves
<1>3. CASE \E w \in writes :
             Written(w) \/ WriteBreaks(w) \/ HandleWritten(w) \/ HandleFailed(w)
  BY <1>3, KernelPreserves, CallbackPreserves
<1>4. CASE Close
  BY <1>4 DEF Close, SendInv, SendTypeOK, Ids, OneWrite, OfTheFront, WrittenInOrder,
              Unwritten, NoneStranded
<1>5. CASE UNCHANGED sendVars
  BY <1>5 DEF sendVars, SendInv, SendTypeOK, Ids, OneWrite, OfTheFront, WrittenInOrder,
              Unwritten, NoneStranded
<1> QED
  BY <1>1, <1>2, <1>3, <1>4, <1>5 DEF SendNext

LEMMA SendInvariant == SendSpec => []SendInv
BY InitSendInv, NextSendInv, PTL DEF SendSpec

\* What the invariant says in the words of the properties.
LEMMA SendInvImplies ==
  SendInv => SendTypeOK /\ WritesTheFront /\ WireInOrder /\ NoneStranded
<1> SUFFICES ASSUME SendInv
             PROVE  SendTypeOK /\ WritesTheFront /\ WireInOrder /\ NoneStranded
  OBVIOUS
<1> USE DEF SendInv
<1>1. Cardinality(writes) <= 1
  <2>1. CASE writes = {}
    BY <2>1, FS_EmptySet
  <2>2. CASE writes # {}
    <3>1. PICK w \in writes : writes = {w}
      BY <2>2 DEF OneWrite
    <3>2. Cardinality({w}) = 1
      BY FS_Singleton
    <3> QED
      BY <3>1, <3>2
  <2> QED
    BY <2>1, <2>2
<1>2. WireInOrder
  <2>1. Unwritten \in Seq(Ids)
    BY TheWrite DEF Unwritten, SendTypeOK
  <2> QED
    BY <2>1, ConcatHasPrefix DEF WireInOrder, IsPrefix, WrittenInOrder, SendTypeOK
<1> QED
  BY <1>1, <1>2 DEF WritesTheFront, OfTheFront

-----------------------------------------------------------------------------
(* SendQueue: theorems *)

\* The variables of a session keep their types, and its queue never holds more
\* than one node above kMaxSendQueue.
THEOREM SendTyped == SendSpec => []SendTypeOK
BY SendInvariant, SendInvImplies, PTL

\* Senders on any number of threads and the callback keep at most one write
\* under way, and it reads the buffer of the front node.
THEOREM SendWritesTheFront == SendSpec => []WritesTheFront
BY SendInvariant, SendInvImplies, PTL

\* What the client receives is a prefix of what Send accepted.
THEOREM SendWireInOrder == SendSpec => []WireInOrder
BY SendInvariant, SendInvImplies, PTL

\* No node waits in an open session without a write that will move it on.
THEOREM SendNoneStranded == SendSpec => []NoneStranded
BY SendInvariant, SendInvImplies, PTL

-----------------------------------------------------------------------------
(***************************************************************************)
(* The composition implements its parts: what is proved of LogicQueue and  *)
(* of SendQueue alone holds of the request's whole way through a server.   *)
(***************************************************************************)

\* What a handler does to the send queue is one call of Send.
LEMMA CallSendIsSend ==
  ASSUME NEW request, CallSend(request)
  PROVE  SendNext
BY DEF CallSend, SendNext

\* Seen from the message queue, each step is one of its steps or none.
LEMMA PipeStepOfQueue == [PipeNext]_pipeVars => [QueueNext]_queueVars
<1> SUFFICES ASSUME [PipeNext]_pipeVars PROVE [QueueNext]_queueVars
  OBVIOUS
<1>1. CASE Read
  BY <1>1 DEF Read, QueueNext
<1>2. CASE HandleRequest \/ HandleElse
  BY <1>2 DEF HandleRequest, HandleElse, QueueNext, DealMsg
<1>3. CASE SendNotification
  BY <1>3 DEF SendNotification
<1>4. CASE QueueStep
  BY <1>4 DEF QueueStep, QueueNext, DealMsg
<1>5. CASE WriteStep
  BY <1>5 DEF WriteStep
<1>6. CASE UNCHANGED pipeVars
  BY <1>6 DEF pipeVars
<1> QED
  BY <1>1, <1>2, <1>3, <1>4, <1>5, <1>6 DEF PipeNext

\* Seen from the send queue, each step is one of its steps or none.
LEMMA PipeStepOfSend == [PipeNext]_pipeVars => [SendNext]_sendVars
<1> SUFFICES ASSUME [PipeNext]_pipeVars PROVE [SendNext]_sendVars
  OBVIOUS
<1>1. CASE Read
  BY <1>1 DEF Read
<1>2. CASE HandleRequest
  BY <1>2, CallSendIsSend DEF HandleRequest
<1>3. CASE HandleElse
  BY <1>3 DEF HandleElse
<1>4. CASE SendNotification
  BY <1>4, CallSendIsSend DEF SendNotification
<1>5. CASE QueueStep
  BY <1>5 DEF QueueStep
<1>6. CASE WriteStep
  BY <1>6 DEF WriteStep, SendNext
<1>7. CASE UNCHANGED pipeVars
  BY <1>7 DEF pipeVars
<1> QED
  BY <1>1, <1>2, <1>3, <1>4, <1>5, <1>6, <1>7 DEF PipeNext

\* The pipeline implements the message queue with its fairness and the send
\* queue: neither handlers that call Send nor sessions that close take a step
\* the parts would not allow.
THEOREM PipelineImplementsParts == PipeSpec => QueueFairSpec /\ SendSpec
<1>1. PipeInit => QueueInit /\ SendInit
  BY DEF PipeInit
<1> QED
  BY <1>1, PipeStepOfQueue, PipeStepOfSend, PTL
     DEF PipeSpec, QueueFairSpec, QueueSpec, SendSpec

\* Requests are handled once and in the order in which they were posted, and
\* none sleeps in the queue, also with handlers that call Send.
THEOREM PipelineHandlesInOrder == PipeSpec => [](HandledInOrder /\ NeverSleepsOnMessage)
BY PipelineImplementsParts, QueueHandlesInOrder, QueueNeverSleepsOnMessage, PTL
   DEF QueueFairSpec

\* The bytes of the replies are written one message at a time, in order, from
\* nodes that are still in the queue.
THEOREM PipelineWritesInOrder == PipeSpec => [](WritesTheFront /\ WireInOrder)
BY PipelineImplementsParts, SendWritesTheFront, SendWireInOrder, PTL

-----------------------------------------------------------------------------
(* What is between the parts: which reply answers which request. *)

AnswersTyped == answers \in Seq(0 .. Len(handled)) /\ Len(answers) = calls

\* Calls of Send are accepted in the order in which they are made.
CallsInOrder ==
  \A i, j \in DOMAIN accepted : i < j => accepted[i] < accepted[j]

\* The handlers call Send in the order of the requests.
AnswersInOrder ==
  \A i, j \in Replies : i < j => answers[i] < answers[j]

PipeInv ==
  /\ QueueInv
  /\ SendInv
  /\ AnswersTyped
  /\ CallsInOrder
  /\ AnswersInOrder
  /\ EachHandledIsAnswered

LEMMA InitPipeInv == PipeInit => PipeInv
<1> SUFFICES ASSUME PipeInit PROVE PipeInv
  OBVIOUS
<1>1. QueueInv /\ SendInv
  BY InitQueueInv, InitSendInv DEF PipeInit
<1>2. answers = <<>> /\ handled = <<>> /\ accepted = <<>> /\ calls = 0
  BY DEF PipeInit, QueueInit, SendInit
<1>3. AnswersTyped /\ CallsInOrder /\ AnswersInOrder
  BY <1>2, EmptySeq DEF AnswersTyped, CallsInOrder, AnswersInOrder, Replies
<1>4. Replies = {} /\ Requests = {}
  BY <1>2 DEF Replies, Requests
<1> QED
  BY <1>1, <1>3, <1>4 DEF PipeInv, EachHandledIsAnswered

\* A call of Send is numbered next and, if it is accepted, comes last.
LEMMA CallSendPreserves ==
  ASSUME PipeInv, NEW n \in Nat, CallSend(n), n \in 0 .. Len(handled'),
         Len(handled') \in Nat, Len(handled) <= Len(handled'),
         n > 0 => \A i \in DOMAIN answers : answers[i] < n
  PROVE  /\ AnswersTyped' /\ CallsInOrder' /\ AnswersInOrder'
         /\ calls + 1 \notin Replies
         /\ Replies' = IF n > 0 THEN Replies \cup {calls + 1} ELSE Replies
         /\ \A i \in Replies : answers'[i] = answers[i]
         /\ answers'[calls + 1] = n
<1> USE DEF PipeInv
<1>1. /\ answers \in Seq(0 .. Len(handled)) /\ Len(answers) = calls /\ calls \in Nat
      /\ Len(handled) \in Nat
      /\ accepted \in Seq(1 .. calls)
  BY DEF AnswersTyped, SendInv, SendTypeOK, Ids, QueueInv, QueueTypeOK
<1>2. /\ answers' = Append(answers, n) /\ calls' = calls + 1
      /\ accepted' = accepted \/ accepted' = Append(accepted, calls + 1)
  BY DEF CallSend, Send, SendRefused
<1>3. answers \in Seq(0 .. Len(handled'))
  <2>1. 0 .. Len(handled) \subseteq 0 .. Len(handled')
    BY <1>1
  <2> QED
    BY <1>1, <2>1, SeqGrows
<1>4. AnswersTyped'
  <2> DEFINE T == 0 .. Len(handled')
  <2>1. answers \in Seq(T) /\ n \in T
    BY <1>3
  <2> HIDE DEF T
  <2>2. answers' \in Seq(T) /\ Len(answers') = calls'
    BY <1>1, <1>2, <2>1, AppendProperties
  <2> QED
    BY <2>2 DEF AnswersTyped, T
<1>5. CallsInOrder'
  <2>1. CASE accepted' = accepted
    BY <2>1 DEF CallsInOrder
  <2>2. CASE accepted' = Append(accepted, calls + 1)
    <3>1. /\ DOMAIN accepted = 1 .. Len(accepted) /\ Len(accepted) \in Nat
          /\ DOMAIN accepted' = 1 .. Len(accepted) + 1
          /\ \A i \in 1 .. Len(accepted) : accepted'[i] = accepted[i] /\ accepted[i] \in 1 .. calls
          /\ accepted'[Len(accepted) + 1] = calls + 1
      BY <1>1, <2>2
    <3>2. ASSUME NEW i \in DOMAIN accepted', NEW j \in DOMAIN accepted', i < j
          PROVE  accepted'[i] < accepted'[j]
      <4>1. i \in 1 .. Len(accepted) /\ accepted'[i] = accepted[i] /\ accepted[i] \in 1 .. calls
        BY <3>1, <3>2
      <4>2. CASE j = Len(accepted) + 1
        BY <1>1, <3>1, <4>1, <4>2
      <4>3. CASE j # Len(accepted) + 1
        <5>1. j \in 1 .. Len(accepted) /\ accepted'[j] = accepted[j]
          BY <3>1, <4>3
        <5> QED
          BY <3>1, <3>2, <4>1, <5>1 DEF CallsInOrder
      <4> QED
        BY <4>2, <4>3
    <3> QED
      BY <3>2 DEF CallsInOrder
  <2> QED
    BY <1>2, <2>1, <2>2
<1>6. /\ DOMAIN answers = 1 .. calls /\ DOMAIN answers' = 1 .. calls + 1
      /\ \A i \in 1 .. calls : answers'[i] = answers[i] /\ answers[i] \in Nat
      /\ answers'[calls + 1] = n
  BY <1>1, <1>2
<1>7. /\ calls + 1 \notin Replies
      /\ Replies' = IF n > 0 THEN Replies \cup {calls + 1} ELSE Replies
      /\ \A i \in Replies : answers'[i] = answers[i]
  BY <1>1, <1>6 DEF Replies
<1>8. AnswersInOrder'
  BY <1>1, <1>6, <1>7 DEF AnswersInOrder, Replies
<1> QED
  BY <1>4, <1>5, <1>6, <1>7, <1>8

\* A handler of the session appends one request and one reply to it.
LEMMA HandleRequestPreserves ==
  ASSUME PipeInv, HandleRequest
  PROVE  AnswersTyped' /\ CallsInOrder' /\ AnswersInOrder' /\ EachHandledIsAnswered'
<1> USE DEF PipeInv
<1> DEFINE n == Len(handled')
<1>1. /\ handled \in Seq(Messages) /\ msg_queue_ \in Seq(Messages) /\ msg_queue_ # <<>>
      /\ handled' = Append(handled, Own)
      /\ calls \in Nat
      /\ answers \in Seq(0 .. Len(handled))
  <2>1. msg_queue_ # <<>>
    BY DEF HandleRequest, Handle, Drain, Go, QueueInv, QueueTypeOK
  <2> QED
    BY <2>1 DEF HandleRequest, Handle, Drain, DealFirstMsg, QueueInv, QueueTypeOK, SendInv,
                SendTypeOK, AnswersTyped
<1>2. Own \in Messages
  BY PipelineAssumption
<1>3. /\ Len(handled) \in Nat /\ n = Len(handled) + 1 /\ n \in 0 .. n
      /\ \A i \in DOMAIN answers : answers[i] < n
  BY <1>1, <1>2
<1>4. Requests' = Requests \cup {n} /\ n \notin Requests
  BY <1>1, <1>2, <1>3 DEF Requests
<1>5. CallSend(n)
  BY DEF HandleRequest
<1> HIDE DEF n
<1>6. /\ AnswersTyped' /\ CallsInOrder' /\ AnswersInOrder'
      /\ calls + 1 \notin Replies
      /\ Replies' = Replies \cup {calls + 1}
      /\ \A i \in Replies : answers'[i] = answers[i]
      /\ answers'[calls + 1] = n
  <2>1. n \in Nat /\ n > 0 /\ n = Len(handled') /\ Len(handled) <= n
    BY <1>3 DEF n
  <2> QED
    BY <1>3, <1>5, <2>1, CallSendPreserves
<1>7. Requests' = {answers'[i] : i \in Replies'}
  BY <1>4, <1>6 DEF EachHandledIsAnswered
<1>8. Cardinality(Replies') = Cardinality(Requests')
  <2>1. Replies \subseteq 1 .. Len(answers) /\ Requests \subseteq 1 .. Len(handled)
        /\ Len(answers) \in Nat /\ Len(handled) \in Nat
    BY <1>1 DEF Replies, Requests
  <2>2. IsFiniteSet(Replies) /\ IsFiniteSet(Requests)
    <3>1. \A k \in Nat : IsFiniteSet(1 .. k)
      BY FS_Interval
    <3> QED
      BY <2>1, <3>1, FS_Subset
  <2>3. /\ Cardinality(Replies') = Cardinality(Replies) + 1
        /\ Cardinality(Requests') = Cardinality(Requests) + 1
    BY <1>4, <1>6, <2>2, FS_AddElement
  <2> QED
    BY <2>3 DEF EachHandledIsAnswered
<1> QED
  BY <1>6, <1>7, <1>8 DEF EachHandledIsAnswered

\* A handler of another session leaves the requests of this one as they are.
LEMMA HandleElsePreserves ==
  ASSUME PipeInv, HandleElse
  PROVE  AnswersTyped' /\ CallsInOrder' /\ AnswersInOrder' /\ EachHandledIsAnswered'
<1> USE DEF PipeInv
<1>1. /\ UNCHANGED <<answers, calls, accepted>>
      /\ handled \in Seq(Messages) /\ msg_queue_ \in Seq(Messages) /\ msg_queue_ # <<>>
      /\ handled' = Append(handled, Head(msg_queue_)) /\ Head(msg_queue_) # Own
  BY DEF HandleElse, sendVars, Handle, Drain, Go, DealFirstMsg, QueueInv, QueueTypeOK
<1>2. Head(msg_queue_) \in Messages
  BY <1>1, HeadTailProperties
<1>3. Requests' = Requests /\ Len(handled) \in Nat /\ Len(handled') = Len(handled) + 1
  BY <1>1, <1>2 DEF Requests
<1>4. answers \in Seq(0 .. Len(handled'))
  <2>1. 0 .. Len(handled) \subseteq 0 .. Len(handled')
    BY <1>3
  <2> QED
    BY <2>1, SeqGrows DEF AnswersTyped
<1>5. AnswersTyped'
  BY <1>1, <1>4 DEF AnswersTyped
<1> QED
  BY <1>1, <1>3, <1>5 DEF CallsInOrder, AnswersInOrder, EachHandledIsAnswered, Replies

LEMMA SendNotificationPreserves ==
  ASSUME PipeInv, SendNotification
  PROVE  AnswersTyped' /\ CallsInOrder' /\ AnswersInOrder' /\ EachHandledIsAnswered'
<1> USE DEF PipeInv
<1>1. CallSend(0) /\ handled' = handled /\ Len(handled) \in Nat
  BY DEF SendNotification, queueVars, QueueInv, QueueTypeOK
<1>2. /\ AnswersTyped' /\ CallsInOrder' /\ AnswersInOrder'
      /\ Replies' = Replies /\ \A i \in Replies : answers'[i] = answers[i]
  BY <1>1, CallSendPreserves
<1> QED
  BY <1>1, <1>2 DEF EachHandledIsAnswered, Requests

LEMMA NextPipeInv == PipeInv /\ [PipeNext]_pipeVars => PipeInv'
<1> SUFFICES ASSUME PipeInv, [PipeNext]_pipeVars PROVE PipeInv'
  OBVIOUS
<1>1. QueueInv' /\ SendInv'
  BY PipeStepOfQueue, PipeStepOfSend, NextQueueInv, NextSendInv DEF PipeInv
<1>2. CASE UNCHANGED <<handled, answers, accepted, calls>>
  BY <1>1, <1>2 DEF PipeInv, AnswersTyped, CallsInOrder, AnswersInOrder, EachHandledIsAnswered,
                    Replies, Requests
<1>3. CASE Read \/ QueueStep
  BY <1>2, <1>3 DEF Read, QueueStep, Post, Lock, Test, Wait, Relock, Branch, Exit, SpuriousWake,
                    Stop, Notify, Join, sendVars
<1>4. CASE WriteStep
  BY <1>2, <1>4 DEF WriteStep, Written, WriteBreaks, HandleWritten, HandleFailed, Close, queueVars
<1>5. CASE HandleRequest \/ HandleElse \/ SendNotification
  BY <1>1, <1>5, HandleRequestPreserves, HandleElsePreserves, SendNotificationPreserves DEF PipeInv
<1>6. CASE UNCHANGED pipeVars
  BY <1>2, <1>6 DEF pipeVars, queueVars, sendVars
<1> QED
  BY <1>3, <1>4, <1>5, <1>6 DEF PipeNext

\* The variables of the pipeline have their types; the queues are bounded.
THEOREM PipelineTyped == PipeSpec => []PipeTypeOK
<1>1. PipeInv => PipeTypeOK
  BY DEF PipeInv, QueueInv, SendInv, AnswersTyped, PipeTypeOK
<1> QED
  BY <1>1, InitPipeInv, NextPipeInv, PTL DEF PipeSpec

\* From end to end: every request that was handled is answered by one call of
\* Send, and the replies that reach the client are in the order of his requests.
THEOREM PipelineReplies == PipeSpec => []RepliesAnswerRequests
<1>1. PipeInv => RepliesAnswerRequests
  <2> SUFFICES ASSUME PipeInv PROVE RepliesInOrder
    BY DEF PipeInv, RepliesAnswerRequests
  <2>1. /\ wire \in Seq(Ids) /\ Unwritten \in Seq(Ids) /\ accepted = wire \o Unwritten
    BY TheWrite DEF PipeInv, SendInv, SendTypeOK, WrittenInOrder, Unwritten
  <2>2. /\ DOMAIN wire \subseteq DOMAIN accepted
        /\ \A i \in DOMAIN wire : accepted[i] = wire[i] /\ wire[i] \in Ids
    BY <2>1
  <2>3. DOMAIN answers = Ids
    BY DEF PipeInv, AnswersTyped, Ids, SendInv, SendTypeOK
  <2> QED
    BY <2>2, <2>3 DEF PipeInv, CallsInOrder, AnswersInOrder, RepliesInOrder, Replies
<1> QED
  BY <1>1, InitPipeInv, NextPipeInv, PTL DEF PipeSpec
-----------------------------------------------------------------------------
(* ThreadPool: the inductive invariant *)

\* The threads at one of the places pcs.
Among(pcs) == {t \in Threads : th[t] \in pcs}

PoolPlaces == {"loop", "test", "sleep", "asleep", "run", "ended"}
PoolTypes ==
  /\ obj \in [tasks : Seq(Nat), stop : BOOLEAN, stopping : {"no", "notify", "join", "joined"},
              clients : SUBSET Nat, commits : Nat, notifies : Nat, run : Seq(Nat), queued : Seq(Nat),
              missed : SUBSET Threads]
  /\ th \in [Threads -> PoolPlaces]

\* A worker that has found no task has the mutex until it sleeps: it is the only one, and no
\* task is queued before.
SleeperHasMutex ==
  \A t \in Among({"sleep"}) : obj.tasks = <<>> /\ \A u \in Among({"sleep"}) : u = t

\* The destructor has set stop_; after its notification only workers that it missed go to sleep.
StopIsFinal ==
  /\ obj.stopping # "no" => obj.stop
  /\ obj.stopping = "join" => Among({"sleep", "asleep"}) \subseteq obj.missed
  /\ \A t, u \in obj.missed : t = u

\* TasksAreServed: a thread that tests, or will be woken to, for each task beside a sleeper.
TasksInOrder == obj.queued = obj.run \o obj.tasks
TasksAreFetched ==
  Among({"asleep"}) # {} /\ ~obj.stop => Len(obj.tasks) <= obj.notifies + Cardinality(Among({"test"}))

PoolInv == PoolTypes /\ SleeperHasMutex /\ StopIsFinal /\ TasksInOrder /\ TasksAreFetched

\* A set of threads that gains or loses one, or none.
LEMMA ThreadCounts ==
  ASSUME IsFiniteSet(Threads)
  PROVE  \A A \in SUBSET Threads :
           /\ Cardinality(A) \in Nat
           /\ \A t \in A : Cardinality(A \ {t}) = Cardinality(A) - 1
           /\ \A t \in Threads : t \notin A => Cardinality(A \cup {t}) = Cardinality(A) + 1
<1> SUFFICES ASSUME NEW A \in SUBSET Threads
             PROVE  /\ Cardinality(A) \in Nat
                    /\ \A t \in A : Cardinality(A \ {t}) = Cardinality(A) - 1
                    /\ \A t \in Threads : t \notin A => Cardinality(A \cup {t}) = Cardinality(A) + 1
  OBVIOUS
<1>1. IsFiniteSet(A)
  BY FS_Subset
<1> QED
  BY <1>1, FS_CardinalityType, FS_RemoveElement, FS_AddElement

\* Where a thread goes, the set of those at the places pcs follows.
LEMMA AmongAfter ==
  ASSUME IsFiniteSet(Threads), NEW Places, th \in [Threads -> Places], NEW t \in Threads, NEW pc,
         th' = [th EXCEPT ![t] = pc], NEW pcs
  PROVE  /\ Among(pcs)' = (Among(pcs) \ {t}) \cup {u \in {t} : pc \in pcs}
         /\ (th[t] \in pcs <=> pc \in pcs) => Among(pcs)' = Among(pcs)
         /\ th[t] \in pcs /\ pc \notin pcs => Cardinality(Among(pcs)') = Cardinality(Among(pcs)) - 1
         /\ th[t] \notin pcs /\ pc \in pcs => Cardinality(Among(pcs)') = Cardinality(Among(pcs)) + 1
<1>1. Among(pcs) \in SUBSET Threads
  BY DEF Among
<1>2. Among(pcs)' = (Among(pcs) \ {t}) \cup {u \in {t} : pc \in pcs}
  BY DEF Among
<1>3. (th[t] \in pcs <=> pc \in pcs) => Among(pcs)' = Among(pcs)
  BY DEF Among
<1>4. ASSUME th[t] \in pcs, pc \notin pcs
      PROVE  Cardinality(Among(pcs)') = Cardinality(Among(pcs)) - 1
  <2>1. Among(pcs)' = Among(pcs) \ {t} /\ t \in Among(pcs)
    BY <1>4 DEF Among
  <2> QED
    BY <1>1, <2>1, ThreadCounts
<1>5. ASSUME th[t] \notin pcs, pc \in pcs
      PROVE  Cardinality(Among(pcs)') = Cardinality(Among(pcs)) + 1
  <2>1. Among(pcs)' = Among(pcs) \cup {t} /\ t \notin Among(pcs)
    BY <1>5 DEF Among
  <2> QED
    BY <1>1, <2>1, ThreadCounts
<1> QED
  BY <1>2, <1>3, <1>4, <1>5

LEMMA InitPoolInv == Pool!Init => PoolInv
<1> SUFFICES ASSUME Pool!Init PROVE PoolInv
  OBVIOUS
<1> USE DEF Pool!Init
<1>1. PoolTypes
  BY EmptySeq DEF PoolTypes, PoolPlaces
<1>2. \A pcs : "loop" \notin pcs => Among(pcs) = {}
  BY DEF Among
<1>3. Among({"sleep"}) = {} /\ Among({"asleep"}) = {}
  BY <1>2
<1>4. <<>> \o <<>> = <<>>
  BY EmptySeq, ConcatEmptySeq
<1> QED
  BY <1>1, <1>3, <1>4 DEF PoolInv, SleeperHasMutex, StopIsFinal, TasksInOrder, TasksAreFetched

\* A Commit, in its three parts.
LEMMA CommitKeeps ==
  ASSUME IsFiniteSet(Threads), PoolInv, Pool!Commit \/ Pool!Enqueue
  PROVE  PoolInv'
<1> USE DEF PoolInv
<1>0. th' = th /\ \A pcs : Among(pcs)' = Among(pcs)
  BY DEF Pool!Commit, Pool!Enqueue, Among
<1>1. CASE Pool!Commit
  <2>1. PoolTypes'
    <3>1. PICK c \in Nat : c = obj.commits + 1
      BY DEF PoolTypes
    <3>2. obj' = [obj EXCEPT !.commits = c, !.clients = @ \cup {c}]
      BY <1>1, <3>1 DEF Pool!Commit, PoolTypes
    <3> QED
      BY <1>0, <3>2 DEF PoolTypes
  <2>2. UNCHANGED <<obj.tasks, obj.stop, obj.stopping, obj.notifies, obj.run, obj.queued, obj.missed>>
    BY <1>1 DEF PoolTypes, Pool!Commit
  <2> QED
    BY <1>0, <2>1, <2>2 DEF SleeperHasMutex, StopIsFinal, TasksInOrder, TasksAreFetched
<1>2. CASE Pool!Enqueue
  <2>1. PICK k \in obj.clients :
          obj' = [obj EXCEPT !.tasks = Append(@, k), !.queued = Append(@, k), !.clients = @ \ {k}, !.notifies = @ + 1]
    BY <1>2 DEF Pool!Enqueue
  <2>2. k \in Nat /\ obj.tasks \in Seq(Nat) /\ obj.run \in Seq(Nat) /\ obj.queued \in Seq(Nat) /\ obj.notifies \in Nat
    BY DEF PoolTypes
  <2>3. PICK q, o, n : q = Append(obj.tasks, k) /\ o = Append(obj.queued, k) /\ n = obj.notifies + 1
    OBVIOUS
  <2>4. q \in Seq(Nat) /\ o \in Seq(Nat) /\ n \in Nat /\ Len(q) = Len(obj.tasks) + 1 /\ Len(obj.tasks) \in Nat
    BY <2>2, <2>3
  <2>5. obj' = [obj EXCEPT !.tasks = q, !.queued = o, !.clients = @ \ {k}, !.notifies = n]
    BY <2>1, <2>3
  <2>6. /\ UNCHANGED <<obj.stop, obj.stopping, obj.run, obj.missed>>
        /\ obj'.tasks = q /\ obj'.queued = o /\ obj'.notifies = n
    BY <2>5 DEF PoolTypes
  <2>7. PoolTypes'
    BY <1>0, <2>4, <2>5 DEF PoolTypes
  <2>8. Among({"sleep"}) = {}
    BY <1>2 DEF Pool!Enqueue, Pool!MtxFree, Pool!At, Among
  <2>9. TasksInOrder'
    <3>1. Extended(Joined(obj.run, obj.tasks), k) = Joined(obj.run, Extended(obj.tasks, k))
      BY <2>2, ExtendJoined
    <3> QED
      BY <2>3, <2>6, <3>1 DEF TasksInOrder, Extended, Joined
  <2>10. TasksAreFetched'
    <3>1. Cardinality(Among({"test"})) \in Nat
      BY ThreadCounts DEF Among
    <3> QED
      BY <1>0, <2>2, <2>3, <2>4, <2>6, <3>1, SMTT(30) DEF TasksAreFetched
  <2> QED
    BY <1>0, <2>6, <2>7, <2>8, <2>9, <2>10 DEF SleeperHasMutex, StopIsFinal
<1> QED
  BY <1>1, <1>2

\* A notification wakes a sleeper, if there is one.
LEMMA NotifyKeeps ==
  ASSUME IsFiniteSet(Threads), PoolInv, Pool!NotifyOne
  PROVE  PoolInv'
<1> USE DEF PoolInv
<1>1. PICK n : n = obj.notifies - 1
  OBVIOUS
<1>2. n \in Nat /\ obj.notifies = n + 1 /\ obj' = [obj EXCEPT !.notifies = n]
  BY <1>1 DEF PoolTypes, Pool!NotifyOne
<1>3. /\ UNCHANGED <<obj.tasks, obj.stop, obj.stopping, obj.run, obj.queued, obj.missed>>
      /\ obj'.notifies = n /\ Len(obj.tasks) \in Nat
  BY <1>2 DEF PoolTypes
<1>4. CASE Pool!Asleep = {} /\ UNCHANGED th
  <2>1. \A pcs : Among(pcs)' = Among(pcs)
    BY <1>4 DEF Among
  <2>2. Among({"asleep"}) = {}
    BY <1>4 DEF Among, Pool!Asleep, Pool!At
  <2>3. PoolTypes'
    BY <1>2, <1>4 DEF PoolTypes
  <2> QED
    BY <1>3, <2>1, <2>2, <2>3 DEF SleeperHasMutex, StopIsFinal, TasksInOrder, TasksAreFetched
<1>5. ASSUME NEW t \in Threads, th[t] = "asleep", th' = [th EXCEPT ![t] = "test"]
      PROVE  PoolInv'
  <2>1. PoolTypes'
    BY <1>2, <1>5 DEF PoolTypes, PoolPlaces
  <2>2. th \in [Threads -> PoolPlaces] /\ "test" \in PoolPlaces
    BY DEF PoolTypes, PoolPlaces
  <2>3. Among({"sleep"})' = Among({"sleep"}) /\ Among({"sleep", "asleep"})' \subseteq Among({"sleep", "asleep"})
    BY <1>5, <2>2 DEF Among
  <2>4. Cardinality(Among({"test"})') = Cardinality(Among({"test"})) + 1
    BY <1>5, <2>2, AmongAfter
  <2>5. Cardinality(Among({"test"})) \in Nat /\ t \in Among({"asleep"})
    BY <1>5, ThreadCounts DEF Among
  <2>6. TasksAreFetched'
    BY <1>2, <1>3, <2>4, <2>5 DEF TasksAreFetched
  <2> QED
    BY <1>3, <2>1, <2>3, <2>6 DEF SleeperHasMutex, StopIsFinal, TasksInOrder
<1> QED
  BY <1>4, <1>5 DEF Pool!NotifyOne, Pool!Asleep, Pool!At, Pool!Go

\* The destructor: its notification comes with stop_ set, and misses who has the mutex.
LEMMA StopKeeps ==
  ASSUME PoolInv, Pool!Stop \/ Pool!NotifyAll \/ Pool!Join
  PROVE  PoolInv'
<1> USE DEF PoolInv
<1>1. CASE Pool!Stop \/ Pool!Join
  <2>1. \A pcs : Among(pcs)' = Among(pcs)
    BY <1>1 DEF Among, Pool!Stop, Pool!Join
  <2>2. PoolTypes'
    BY <1>1 DEF PoolTypes, Pool!Stop, Pool!Join
  <2>3. /\ UNCHANGED <<obj.tasks, obj.notifies, obj.run, obj.queued, obj.missed>>
        /\ obj'.stop /\ obj'.stopping \in {"notify", "joined"}
    BY <1>1 DEF PoolTypes, Pool!Stop, Pool!Join, StopIsFinal
  <2> QED
    BY <2>1, <2>2, <2>3 DEF SleeperHasMutex, StopIsFinal, TasksInOrder, TasksAreFetched
<1>2. CASE Pool!NotifyAll
  <2>1. /\ obj' = [obj EXCEPT !.stopping = "join", !.missed = Among({"sleep"})]
        /\ th' = [t \in Threads |-> IF th[t] = "asleep" THEN "test" ELSE th[t]]
        /\ obj.stop
    BY <1>2 DEF Pool!NotifyAll, Pool!At, Among, StopIsFinal
  <2>2. PoolTypes'
    BY <2>1 DEF PoolTypes, PoolPlaces, Among
  <2>3. /\ UNCHANGED <<obj.tasks, obj.notifies, obj.run, obj.queued, obj.stop>>
        /\ obj'.stopping = "join" /\ obj'.missed = Among({"sleep"})
    BY <2>1 DEF PoolTypes
  <2>4. Among({"sleep"})' = Among({"sleep"}) /\ Among({"sleep", "asleep"})' = Among({"sleep"})
    BY <2>1 DEF Among
  <2> QED
    BY <2>1, <2>2, <2>3, <2>4 DEF SleeperHasMutex, StopIsFinal, TasksInOrder, TasksAreFetched
<1> QED
  BY <1>1, <1>2

\* A worker that neither takes a task nor goes to sleep.
LEMMA TaskWorkerMoves ==
  ASSUME IsFiniteSet(Threads), PoolInv, UNCHANGED obj, NEW t \in Threads, NEW pc \in PoolPlaces,
         th' = [th EXCEPT ![t] = pc], pc \notin {"sleep", "asleep"}, th[t] # "asleep",
         th[t] = "test" /\ pc # "test" => obj.stop
  PROVE  PoolInv'
<1> USE DEF PoolInv
<1>1. PoolTypes' /\ th \in [Threads -> PoolPlaces]
  BY DEF PoolTypes
<1>2. /\ Among({"sleep"})' \subseteq Among({"sleep"})
      /\ Among({"sleep", "asleep"})' \subseteq Among({"sleep", "asleep"})
      /\ Among({"asleep"})' = Among({"asleep"})
  BY <1>1 DEF Among
<1>3. Cardinality(Among({"test"})) \in Nat /\ Cardinality(Among({"test"})') \in Nat
  BY ThreadCounts DEF Among
<1>4. Cardinality(Among({"test"})') >= Cardinality(Among({"test"})) \/ obj.stop
  <2>1. CASE th[t] = "test" <=> pc = "test"
    <3>1. Among({"test"})' = Among({"test"})
      BY <1>1, <2>1 DEF Among
    <3> QED
      BY <1>3, <3>1
  <2>2. CASE th[t] # "test" /\ pc = "test"
    <3>1. Cardinality(Among({"test"})') = Cardinality(Among({"test"})) + 1
      BY <1>1, <2>2, AmongAfter
    <3> QED
      BY <1>3, <3>1
  <2> QED
    BY <2>1, <2>2
<1>5. TasksAreFetched'
  BY <1>1, <1>2, <1>3, <1>4 DEF TasksAreFetched, PoolTypes
<1> QED
  BY <1>1, <1>2, <1>5 DEF SleeperHasMutex, StopIsFinal, TasksInOrder

LEMMA TestTakes ==
  ASSUME IsFiniteSet(Threads), PoolInv, NEW t \in Threads, th[t] = "test", Pool!MtxFree,
         obj.tasks # <<>>, th' = [th EXCEPT ![t] = "run"],
         obj' = [obj EXCEPT !.tasks = Tail(@), !.run = Append(@, Head(obj.tasks))]
  PROVE  PoolInv'
<1> USE DEF PoolInv
<1>1. obj.tasks \in Seq(Nat) /\ obj.run \in Seq(Nat) /\ th \in [Threads -> PoolPlaces] /\ "run" \in PoolPlaces
  BY DEF PoolTypes, PoolPlaces
<1>2. /\ Append(obj.run, Head(obj.tasks)) \o Tail(obj.tasks) = obj.run \o obj.tasks
      /\ Append(obj.run, Head(obj.tasks)) \in Seq(Nat) /\ Tail(obj.tasks) \in Seq(Nat)
  BY <1>1, MoveHead
<1>3. PICK q, r : q = Tail(obj.tasks) /\ r = Append(obj.run, Head(obj.tasks))
  OBVIOUS
<1>4. Len(obj.tasks) = Len(q) + 1 /\ Len(q) \in Nat
  BY <1>1, <1>3
<1>5. obj' = [obj EXCEPT !.tasks = q, !.run = r]
  BY <1>3
<1>6. /\ UNCHANGED <<obj.stop, obj.stopping, obj.notifies, obj.queued, obj.missed>>
      /\ obj'.tasks = q /\ obj'.run = r
  BY <1>5 DEF PoolTypes
<1>7. PoolTypes' /\ r \o q = obj.run \o obj.tasks
  BY <1>1, <1>2, <1>3, <1>5 DEF PoolTypes
<1>8. Among({"sleep"})' = {} /\ Among({"sleep", "asleep"})' \subseteq Among({"sleep", "asleep"})
      /\ Among({"asleep"})' = Among({"asleep"})
  BY <1>1 DEF Among, Pool!MtxFree, Pool!At
<1>9. Cardinality(Among({"test"})') = Cardinality(Among({"test"})) - 1 /\ Cardinality(Among({"test"})) \in Nat
  <2>1. Among({"test"}) \in SUBSET Threads /\ t \in Among({"test"})
    BY DEF Among
  <2>2. Among({"test"})' = Among({"test"}) \ {t}
    BY <1>1 DEF Among
  <2> QED
    BY <2>1, <2>2, ThreadCounts
<1>10. TasksAreFetched'
  <2>1. obj.notifies \in Nat
    BY DEF PoolTypes
  <2> QED
    BY <1>4, <1>6, <1>8, <1>9, <2>1 DEF TasksAreFetched
<1> QED
  BY <1>6, <1>7, <1>8, <1>10 DEF SleeperHasMutex, StopIsFinal, TasksInOrder

\* To sleep over no task: after stop_ has been set nobody begins to.
LEMMA FallAsleepKeeps ==
  ASSUME IsFiniteSet(Threads), PoolInv, UNCHANGED obj, NEW t \in Threads,
         \/ th[t] = "test" /\ Pool!MtxFree /\ ~obj.stop /\ obj.tasks = <<>> /\ th' = [th EXCEPT ![t] = "sleep"]
         \/ th[t] = "sleep" /\ th' = [th EXCEPT ![t] = "asleep"]
  PROVE  PoolInv'
<1> USE DEF PoolInv
<1>1. th \in [Threads -> PoolPlaces] /\ PoolTypes'
  BY DEF PoolTypes, PoolPlaces
<1>2. obj.tasks = <<>>
  BY DEF SleeperHasMutex, Among
<1>3. SleeperHasMutex'
  BY <1>1, <1>2 DEF SleeperHasMutex, Among, Pool!MtxFree, Pool!At
<1>4. StopIsFinal'
  BY <1>1 DEF StopIsFinal, Among
<1>5. Cardinality(Among({"test"})') \in Nat /\ obj.notifies \in Nat
  BY ThreadCounts DEF Among, PoolTypes
<1>6. TasksAreFetched'
  BY <1>2, <1>5 DEF TasksAreFetched
<1> QED
  BY <1>1, <1>3, <1>4, <1>6 DEF TasksInOrder

LEMMA NextPoolInv ==
  ASSUME IsFiniteSet(Threads), PoolInv, [Pool!Next]_(Pool!vars)
  PROVE  PoolInv'
<1> USE DEF Pool!At, Pool!Go
<1>1. CASE UNCHANGED Pool!vars
  BY <1>1 DEF Pool!vars, PoolInv, PoolTypes, SleeperHasMutex, StopIsFinal, TasksInOrder, TasksAreFetched, Among
<1>2. ASSUME NEW t \in Threads, Pool!Loop(t) \/ Pool!Run(t)
      PROVE  PoolInv'
  <2>1. PICK pc \in PoolPlaces : pc \notin {"sleep", "asleep"} /\ th' = [th EXCEPT ![t] = pc]
    BY <1>2 DEF Pool!Loop, Pool!Run, PoolPlaces
  <2>2. UNCHANGED obj /\ th[t] \notin {"asleep", "test"}
    BY <1>2 DEF Pool!Loop, Pool!Run
  <2> QED
    BY <2>1, <2>2, TaskWorkerMoves
<1>3. ASSUME NEW t \in Threads, Pool!Test(t)
      PROVE  PoolInv'
  <2>1. CASE obj.stop /\ th' = [th EXCEPT ![t] = "ended"] /\ UNCHANGED obj
    <3>1. "ended" \in PoolPlaces /\ th[t] # "asleep"
      BY <1>3 DEF Pool!Test, PoolPlaces
    <3> QED
      BY <2>1, <3>1, TaskWorkerMoves
  <2> QED
    BY <1>3, <2>1, TestTakes, FallAsleepKeeps DEF Pool!Test
<1>4. ASSUME NEW t \in Threads, Pool!Sleep(t)
      PROVE  PoolInv'
  BY <1>4, FallAsleepKeeps DEF Pool!Sleep
<1> QED
  BY <1>1, <1>2, <1>3, <1>4, CommitKeeps, NotifyKeeps, StopKeeps DEF Pool!Next, Pool!Worker

-----------------------------------------------------------------------------
(* ThreadPool: theorems *)

\* The operator of an instance's FiniteSets is that of ours.
LEMMA PoolCounts == ASSUME NEW S PROVE Pool!Cardinality(S) = Cardinality(S)
BY DEF Pool!Cardinality, Cardinality

LEMMA TaskPoolInvariant ==
  ASSUME IsFiniteSet(Threads)
  PROVE  Pool!Spec => []PoolInv
<1>1. PoolInv /\ [Pool!Next]_(Pool!vars) => PoolInv'
  BY NextPoolInv
<1> QED
  BY <1>1, InitPoolInv, PTL DEF Pool!Spec

\* Tasks are taken once each, in the order in which they were queued; and beside a worker that
\* sleeps there is, for each task, one that has been or will be woken (thread_pool.h, whose
\* Commit notifies after it has released the mutex).
THEOREM TaskPoolServes ==
  ASSUME IsFiniteSet(Threads)
  PROVE  Pool!Spec => []Pool!TasksAreServed
<1>1. PoolInv => Pool!TasksAreServed
  <2>1. Pool!Asleep = Among({"asleep"}) /\ {t \in Threads : Pool!At(t, "test")} = Among({"test"})
    BY DEF Pool!Asleep, Pool!At, Among
  <2> QED
    BY <2>1, PoolCounts DEF PoolInv, TasksInOrder, TasksAreFetched, Pool!TasksAreServed
<1> QED
  BY <1>1, TaskPoolInvariant, PTL

\* The stop, written and notified without the mutex, is missed by one worker at most.
THEOREM TaskPoolStopMissedByOne ==
  ASSUME IsFiniteSet(Threads)
  PROVE  Pool!Spec => []Pool!StopIsMissedByOne
<1>1. PoolInv => Pool!StopIsMissedByOne
  <2> SUFFICES ASSUME PoolInv PROVE Pool!StopIsMissedByOne
    OBVIOUS
  <2>1. Pool!Asleep = Among({"asleep"}) /\ Among({"asleep"}) \subseteq Among({"sleep", "asleep"})
    BY DEF Pool!Asleep, Pool!At, Among
  <2>2. obj.missed = {} \/ \E t \in obj.missed : obj.missed = {t}
    BY DEF PoolInv, StopIsFinal
  <2>3. Cardinality(obj.missed) <= 1
    BY <2>2, FS_EmptySet, FS_Singleton
  <2> QED
    BY <2>1, <2>3, PoolCounts DEF PoolInv, StopIsFinal, Pool!StopIsMissedByOne
<1> QED
  BY <1>1, TaskPoolInvariant, PTL
-----------------------------------------------------------------------------
(* StealThreadPool: the inductive invariant *)

StealTypes ==
  /\ obj \in [queues : [Pool!W -> Seq(Nat)], stop : BOOLEAN, index : Nat, commits : 0 .. MaxTasks, stops : Nat,
              clients : SUBSET [task : Nat, to : Pool!W], run : SUBSET Nat, twice : BOOLEAN]
  /\ IsFiniteSet(obj.clients) /\ IsFiniteSet(obj.run)

\* A task that was committed is with its Commit, in a queue at one place, or has been run.
Waits(k) == \E w \in Pool!W : \E i \in DOMAIN obj.queues[w] : obj.queues[w][i] = k
Comes(k) == \E c \in obj.clients : c.task = k
EachTaskOnce ==
  /\ \A w, v \in Pool!W : \A i \in DOMAIN obj.queues[w], j \in DOMAIN obj.queues[v] :
       obj.queues[w][i] = obj.queues[v][j] => w = v /\ i = j
  /\ \A c, d \in obj.clients : c.task = d.task => c = d
  /\ \A k \in Nat : /\ Waits(k) \/ Comes(k) \/ k \in obj.run => k \in 1 .. obj.commits
                    /\ ~(Waits(k) /\ Comes(k))
                    /\ ~(Waits(k) /\ k \in obj.run)
                    /\ ~(Comes(k) /\ k \in obj.run)

Slots == {p \in Pool!W \X (1 .. MaxTasks) : p[2] <= Len(obj.queues[p[1]])}
TasksAddUp ==
  /\ Cardinality(obj.run) + Cardinality(obj.clients) + Cardinality(Slots) = obj.commits
  /\ \A w \in Pool!W : Len(obj.queues[w]) <= MaxTasks

StealPlaces == {"loop", "pop", "steal", "ended"}
ThiefTypes == th \in [Pool!W -> [pc : StealPlaces, i : Nat]]

StealInv == StealTypes /\ ThiefTypes /\ EachTaskOnce /\ TasksAddUp /\ ~obj.twice

\* What is counted is finite; a queue is no longer than the tasks there are.
LEMMA SlotsFinite ==
  ASSUME Workers \in Nat \ {0}, MaxTasks \in Nat
  PROVE  IsFiniteSet(Slots) /\ Cardinality(Slots) \in Nat
<1>1. IsFiniteSet(Pool!W) /\ IsFiniteSet(1 .. MaxTasks)
  BY FS_Interval DEF Pool!W
<1>2. IsFiniteSet(Pool!W \X (1 .. MaxTasks))
  BY <1>1, FS_Product
<1>3. Slots \subseteq Pool!W \X (1 .. MaxTasks)
  BY DEF Slots
<1> QED
  BY <1>2, <1>3, FS_Subset, FS_CardinalityType

LEMMA QueueFits ==
  ASSUME Workers \in Nat \ {0}, MaxTasks \in Nat, NEW w \in Pool!W, Len(obj.queues[w]) \in Nat, NEW n \in 0 .. MaxTasks,
         n <= Len(obj.queues[w])
  PROVE  n <= Cardinality(Slots)
<1> DEFINE S == {<<w, i>> : i \in 1 .. n}
           f == [i \in 1 .. n |-> <<w, i>>]
<1>1. ExistsBijection(1 .. n, S)
  <2>1. /\ f \in [1 .. n -> S]
        /\ \A i, j \in 1 .. n : f[i] = f[j] => i = j
        /\ \A p \in S : \E i \in 1 .. n : f[i] = p
    OBVIOUS
  <2> HIDE DEF f, S
  <2>2. f \in Bijection(1 .. n, S)
    BY <2>1, Fun_IsBij
  <2> QED
    BY <2>2 DEF ExistsBijection
<1>2. IsFiniteSet(1 .. n) /\ Cardinality(1 .. n) = n
  BY FS_Interval
<1>3. IsFiniteSet(S) /\ Cardinality(S) = n
  <2> HIDE DEF f, S
  <2> QED
    BY <1>1, <1>2, FS_Bijection
<1>4. S \subseteq Slots
  BY DEF Slots
<1> QED
  BY <1>3, <1>4, SlotsFinite, FS_Subset

LEMMA InitStealInv ==
  ASSUME Workers \in Nat \ {0}, MaxTasks \in Nat, Pool!StealInit
  PROVE  StealInv
<1> USE DEF Pool!StealInit
<1>1. StealTypes
  BY EmptySeq, FS_EmptySet DEF StealTypes
<1>2. \A w \in Pool!W : obj.queues[w] = <<>>
  OBVIOUS
<1>3. EachTaskOnce
  BY <1>2 DEF EachTaskOnce, Waits, Comes
<1>4. Slots = {} /\ ThiefTypes
  BY <1>2 DEF Slots, ThiefTypes, StealPlaces
<1> QED
  BY <1>1, <1>3, <1>4, FS_EmptySet DEF StealInv, TasksAddUp

\* A Commit that has read the index, with a task that nobody has seen.
LEMMA ReadIndexKeeps ==
  ASSUME Workers \in Nat \ {0}, MaxTasks \in Nat, StealInv, Pool!ReadIndex
  PROVE  StealInv'
<1> USE DEF StealInv
<1>0. ThiefTypes'
  BY DEF Pool!ReadIndex, ThiefTypes
<1>1. PICK k, c : k = obj.commits + 1 /\ c = [task |-> k, to |-> (obj.index + 1) % Workers]
  OBVIOUS
<1>2. obj' = [obj EXCEPT !.commits = k, !.clients = @ \cup {c}] /\ k \in 1 .. MaxTasks /\ obj.commits \in Nat
  BY <1>1 DEF Pool!ReadIndex, StealTypes
<1>3. c \in [task : Nat, to : Pool!W] /\ c.task = k
  <2>1. (obj.index + 1) % Workers \in 0 .. Workers - 1
    BY DEF StealTypes
  <2> QED
    BY <1>1, <1>2, <2>1 DEF Pool!W
<1>4. /\ UNCHANGED <<obj.queues, obj.run, obj.twice>>
      /\ obj'.commits = k /\ obj'.clients = obj.clients \cup {c}
  BY <1>2 DEF StealTypes
<1>5. StealTypes'
  <2>1. IsFiniteSet(obj'.clients)
    BY <1>4, FS_AddElement DEF StealTypes
  <2>2. obj.clients \cup {c} \in SUBSET [task : Nat, to : Pool!W]
    BY <1>3 DEF StealTypes
  <2>3. k \in 0 .. MaxTasks
    BY <1>2
  <2> QED
    BY <1>2, <1>4, <2>1, <2>2, <2>3 DEF StealTypes
<1>6. ~Waits(k) /\ ~Comes(k) /\ k \notin obj.run
  BY <1>1, <1>2 DEF EachTaskOnce
<1>7. c \notin obj.clients
  BY <1>3, <1>6 DEF Comes
<1>8. EachTaskOnce'
  <2>1. \A j : (Waits(j)' <=> Waits(j)) /\ (Comes(j)' <=> Comes(j) \/ j = k)
    BY <1>3, <1>4 DEF Waits, Comes
  <2>2. \A a, b \in obj'.clients : a.task = b.task => a = b
    BY <1>3, <1>4, <1>6 DEF EachTaskOnce, Comes
  <2>3. \A j \in 1 .. obj.commits : j \in 1 .. k
    BY <1>1, <1>2
  <2> QED
    BY <1>1, <1>2, <1>4, <1>6, <2>1, <2>2, <2>3 DEF EachTaskOnce
<1>9. TasksAddUp'
  <2>1. Cardinality(obj'.clients) = Cardinality(obj.clients) + 1
    <3>1. IsFiniteSet(obj.clients)
      BY DEF StealTypes
    <3> QED
      BY <1>4, <1>7, <3>1, FS_AddElement
  <2>2. Slots' = Slots
    BY <1>4 DEF Slots
  <2>3. Cardinality(Slots) \in Nat /\ Cardinality(obj.clients) \in Nat /\ Cardinality(obj.run) \in Nat
    BY SlotsFinite, FS_CardinalityType DEF StealTypes
  <2> QED
    BY <1>1, <1>2, <1>4, <2>1, <2>2, <2>3 DEF TasksAddUp
<1> QED
  BY <1>0, <1>4, <1>5, <1>8, <1>9

\* The task goes from its Commit to the end of the queue.
LEMMA PushKeeps ==
  ASSUME Workers \in Nat \ {0}, MaxTasks \in Nat, StealInv, Pool!Push
  PROVE  StealInv'
<1> USE DEF StealInv
<1>0. ThiefTypes'
  BY DEF Pool!Push, ThiefTypes
<1>1. PICK c \in obj.clients :
        obj' = [obj EXCEPT !.index = c.to, !.clients = @ \ {c}, !.queues[c.to] = Append(@, c.task)]
  BY DEF Pool!Push
<1>2. PICK w, k : w = c.to /\ k = c.task
  OBVIOUS
<1>3. w \in Pool!W /\ w \in Nat /\ k \in Nat /\ obj.queues[w] \in Seq(Nat)
  BY <1>2 DEF StealTypes, Pool!W
<1>4. PICK q, n : q = Append(obj.queues[w], k) /\ n = Len(obj.queues[w])
  OBVIOUS
<1>5. /\ q \in Seq(Nat) /\ n \in Nat /\ Len(q) = n + 1 /\ q[n + 1] = k
      /\ DOMAIN q = 1 .. n + 1 /\ DOMAIN obj.queues[w] = 1 .. n
      /\ \A i \in 1 .. n : q[i] = obj.queues[w][i]
  BY <1>3, <1>4
<1>6. obj' = [obj EXCEPT !.index = w, !.clients = @ \ {c}, !.queues = [obj.queues EXCEPT ![w] = q]]
  BY <1>1, <1>2, <1>4
<1>7. /\ UNCHANGED <<obj.run, obj.twice, obj.commits>>
      /\ obj'.clients = obj.clients \ {c}
      /\ obj'.queues = [obj.queues EXCEPT ![w] = q]
      /\ obj.queues \in [Pool!W -> Seq(Nat)]
  BY <1>6 DEF StealTypes
<1>8. StealTypes'
  <2>1. IsFiniteSet(obj'.clients)
    BY <1>7, FS_RemoveElement DEF StealTypes
  <2>2. obj'.queues \in [Pool!W -> Seq(Nat)]
    BY <1>5, <1>7
  <2> QED
    BY <1>3, <1>6, <1>7, <2>1, <2>2 DEF StealTypes
<1>9. Comes(k) /\ ~Waits(k) /\ k \notin obj.run /\ k \in 1 .. obj.commits
  BY <1>2, <1>3 DEF EachTaskOnce, Comes
<1>10. EachTaskOnce'
  <2>1. \A v \in Pool!W : obj'.queues[v] = IF v = w THEN q ELSE obj.queues[v]
    BY <1>7
  <2>2. \A v \in Pool!W : \A i \in DOMAIN obj'.queues[v] :
          \/ i \in DOMAIN obj.queues[v] /\ obj'.queues[v][i] = obj.queues[v][i]
          \/ v = w /\ i = n + 1 /\ obj'.queues[v][i] = k
    BY <1>5, <2>1
  <2>3. ASSUME NEW v \in Pool!W, NEW i \in DOMAIN obj.queues[v] PROVE obj.queues[v][i] # k
    BY <1>9 DEF Waits
  <2>4. \A v, u \in Pool!W : \A i \in DOMAIN obj'.queues[v], j \in DOMAIN obj'.queues[u] :
          obj'.queues[v][i] = obj'.queues[u][j] => v = u /\ i = j
    BY <2>2, <2>3 DEF EachTaskOnce
  <2>5. \A j : Waits(j)' <=> Waits(j) \/ j = k
    <3>1. \A j : Waits(j)' => Waits(j) \/ j = k
      <4> SUFFICES ASSUME NEW j, NEW v \in Pool!W, NEW i \in DOMAIN obj'.queues[v], obj'.queues[v][i] = j
                   PROVE  Waits(j) \/ j = k
        BY DEF Waits
      <4> QED
        BY <2>2 DEF Waits
    <3>2. \A j : Waits(j) => Waits(j)'
      <4> SUFFICES ASSUME NEW j, NEW v \in Pool!W, NEW i \in DOMAIN obj.queues[v], obj.queues[v][i] = j
                   PROVE  Waits(j)'
        BY DEF Waits
      <4>1. i \in DOMAIN obj'.queues[v] /\ obj'.queues[v][i] = j
        BY <1>5, <2>1
      <4> QED
        BY <4>1 DEF Waits
    <3>3. Waits(k)'
      BY <1>3, <1>5, <2>1 DEF Waits
    <3> QED
      BY <3>1, <3>2, <3>3
  <2>6. \A j : Comes(j)' <=> Comes(j) /\ j # k
    BY <1>2, <1>7 DEF Comes, EachTaskOnce
  <2> QED
    BY <1>7, <1>9, <2>4, <2>5, <2>6 DEF EachTaskOnce
<1>11. TasksAddUp'
  <2>1. Cardinality(obj'.clients) = Cardinality(obj.clients) - 1 /\ Cardinality(obj.clients) \in Nat
    BY <1>7, FS_RemoveElement, FS_CardinalityType DEF StealTypes
  <2>2. Cardinality(Slots) \in Nat /\ IsFiniteSet(Slots) /\ Cardinality(obj.run) \in Nat
    BY SlotsFinite, FS_CardinalityType DEF StealTypes
  <2>3. n + 1 \in 1 .. MaxTasks
    <3>1. Cardinality(Slots) + 1 <= MaxTasks
      <4>1. Cardinality(obj.clients) # 0
        BY FS_EmptySet DEF StealTypes
      <4> QED
        BY <2>1, <2>2, <4>1 DEF TasksAddUp, StealTypes
    <3>2. n <= MaxTasks
      BY <1>3, <1>4 DEF TasksAddUp
    <3>3. n <= Cardinality(Slots)
      BY <1>3, <1>4, <1>5, <3>2, QueueFits
    <3> QED
      BY <1>5, <2>2, <3>1, <3>3
  <2>4. <<w, n + 1>> \notin Slots /\ Slots' = Slots \cup {<<w, n + 1>>}
    <3>1. Len(obj'.queues[w]) = n + 1 /\ \A v \in Pool!W : v # w => obj'.queues[v] = obj.queues[v]
      BY <1>3, <1>5, <1>7
    <3>2. ASSUME NEW v \in Pool!W, NEW i \in 1 .. MaxTasks
          PROVE  <<v, i>> \in Slots' <=> <<v, i>> \in Slots \/ (v = w /\ i = n + 1)
      <4>1. <<v, i>> \in Slots <=> i <= Len(obj.queues[v])
        BY DEF Slots
      <4>2. <<v, i>> \in Slots' <=> i <= Len(obj'.queues[v])
        BY DEF Slots
      <4>3. CASE v = w
        <5>1. i <= n + 1 <=> i <= n \/ i = n + 1
          BY <1>5
        <5> QED
          BY <1>4, <3>1, <4>1, <4>2, <4>3, <5>1
      <4>4. CASE v # w
        BY <3>1, <4>1, <4>2, <4>4
      <4> QED
        BY <4>3, <4>4
    <3>3. <<w, n + 1>> \notin Slots
      BY <1>4, <1>5 DEF Slots
    <3>4. ASSUME NEW p \in Pool!W \X (1 .. MaxTasks)
          PROVE  p \in Slots' <=> p \in Slots \/ p = <<w, n + 1>>
      <4>1. PICK v \in Pool!W, i \in 1 .. MaxTasks : p = <<v, i>>
        OBVIOUS
      <4>2. p = <<w, n + 1>> <=> v = w /\ i = n + 1
        BY <4>1
      <4> QED
        BY <3>2, <4>1, <4>2
    <3>5. Slots \subseteq Pool!W \X (1 .. MaxTasks) /\ Slots' \subseteq Pool!W \X (1 .. MaxTasks)
      BY DEF Slots
    <3>6. <<w, n + 1>> \in Pool!W \X (1 .. MaxTasks)
      BY <1>3, <2>3
    <3> QED
      BY <3>3, <3>4, <3>5, <3>6
  <2>5. Cardinality(Slots') = Cardinality(Slots) + 1
    BY <2>2, <2>4, FS_AddElement
  <2>6. \A v \in Pool!W : Len(obj'.queues[v]) <= MaxTasks
    BY <1>5, <1>7, <2>3 DEF TasksAddUp
  <2> QED
    BY <1>7, <2>1, <2>2, <2>5, <2>6 DEF TasksAddUp
<1> QED
  BY <1>0, <1>7, <1>8, <1>10, <1>11

\* A worker takes the task k and runs it, and leaves q in the queue.
Takes(w, q, k) ==
  obj' = [obj EXCEPT !.queues = [obj.queues EXCEPT ![w] = q], !.run = @ \cup {k}, !.twice = @ \/ k \in obj.run]

LEMMA PositionIsNat ==
  ASSUME NEW S, NEW s \in Seq(S), NEW i \in DOMAIN s
  PROVE  i \in Nat
OBVIOUS

\* What is left of s without one of its ends: all of it but the place of k, by n and shift.
LeftOf(s, k, n, shift) == \E a \in DOMAIN s : k = s[a] /\ \A i \in 1 .. n : i + shift \in DOMAIN s \ {a}

LEMMA OneEndIsTaken ==
  ASSUME NEW n \in Nat, NEW s, DOMAIN s = 1 .. n + 1, NEW k, NEW shift \in {0, 1},
         \/ shift = 1 /\ k = s[1]
         \/ shift = 0 /\ k = s[n + 1]
  PROVE  LeftOf(s, k, n, shift)
<1>1. CASE shift = 1
  <2>1. 1 \in 1 .. n + 1 /\ \A i \in 1 .. n : i + 1 \in 1 .. n + 1 /\ i + 1 # 1
    OBVIOUS
  <2> QED
    BY <1>1, <2>1 DEF LeftOf
<1>2. CASE shift = 0
  <2>1. n + 1 \in 1 .. n + 1 /\ \A i \in 1 .. n : i + 0 \in 1 .. n + 1 /\ i + 0 # n + 1
    OBVIOUS
  <2> QED
    BY <1>2, <2>1 DEF LeftOf
<1> QED
  BY <1>1, <1>2

\* It is the first task (shift 1) or the last (shift 0).
LEMMA TakeKeeps ==
  ASSUME Workers \in Nat \ {0}, MaxTasks \in Nat, StealInv, NEW w \in Pool!W, NEW q \in Seq(Nat), NEW k,
         NEW n \in Nat, Len(obj.queues[w]) = n + 1, Len(q) = n,
         NEW shift \in {0, 1}, \A i \in 1 .. n : q[i] = obj.queues[w][i + shift],
         \/ shift = 1 /\ k = obj.queues[w][1]
         \/ shift = 0 /\ k = obj.queues[w][n + 1],
         ThiefTypes', Takes(w, q, k)
  PROVE  StealInv'
<1> USE DEF StealInv
<1>1. /\ UNCHANGED <<obj.clients, obj.commits>>
      /\ obj'.queues = [obj.queues EXCEPT ![w] = q] /\ obj'.run = obj.run \cup {k}
      /\ obj'.twice = (obj.twice \/ k \in obj.run)
      /\ obj.queues \in [Pool!W -> Seq(Nat)]
  BY DEF StealTypes, Takes
<1>2. PICK a \in DOMAIN obj.queues[w] : k = obj.queues[w][a] /\ \A i \in 1 .. n : i + shift \in DOMAIN obj.queues[w] \ {a}
  <2> HIDE DEF StealInv
  <2>1. DOMAIN obj.queues[w] = 1 .. n + 1
    <3>1. obj.queues[w] \in Seq(Nat)
      BY <1>1
    <3> QED
      BY <3>1
  <2>2. LeftOf(obj.queues[w], k, n, shift)
    BY <2>1, OneEndIsTaken
  <2> QED
    BY <2>2 DEF LeftOf
<1>3. k \in Nat /\ Waits(k) /\ k \notin obj.run /\ ~Comes(k) /\ k \in 1 .. obj.commits
  <2>1. Waits(k)
    BY <1>2 DEF Waits
  <2>2. k \in Nat
    <3>1. PICK s \in Seq(Nat) : s = obj.queues[w]
      BY <1>1
    <3>2. a \in DOMAIN s /\ k = s[a]
      BY <1>2, <3>1
    <3> QED
      BY <3>2
  <2> QED
    BY <2>1, <2>2 DEF EachTaskOnce
<1>4. StealTypes'
  <2>1. IsFiniteSet(obj'.run)
    BY <1>1, FS_AddElement DEF StealTypes
  <2>2. obj'.queues \in [Pool!W -> Seq(Nat)] /\ obj'.run \in SUBSET Nat /\ obj'.twice \in BOOLEAN
    BY <1>1, <1>3 DEF StealTypes
  <2> QED
    BY <1>1, <2>1, <2>2 DEF StealTypes, Takes
<1>5. \A v \in Pool!W : obj'.queues[v] = IF v = w THEN q ELSE obj.queues[v]
  BY <1>1
<1>6. ASSUME NEW v \in Pool!W, NEW i \in DOMAIN obj'.queues[v]
      PROVE  \E b \in DOMAIN obj.queues[v] :
                /\ b = IF v = w THEN i + shift ELSE i
                /\ obj'.queues[v][i] = obj.queues[v][b] /\ obj.queues[v][b] # k
  <2>1. CASE v = w
    <3>0. obj'.queues[v] = q /\ DOMAIN q = 1 .. n
      BY <1>5, <2>1
    <3>1. i \in 1 .. n /\ obj'.queues[v][i] = obj.queues[w][i + shift]
      BY <3>0
    <3>2. i + shift \in DOMAIN obj.queues[w] \ {a}
      BY <1>2, <3>1
    <3>3. obj.queues[w][i + shift] # k
      BY <1>2, <3>2 DEF EachTaskOnce
    <3> QED
      BY <2>1, <3>1, <3>2, <3>3
  <2>2. CASE v # w
    <3>1. i \in DOMAIN obj.queues[v] /\ obj'.queues[v][i] = obj.queues[v][i]
      BY <1>5, <2>2
    <3>2. obj.queues[v][i] # k
      BY <1>2, <2>2, <3>1 DEF EachTaskOnce
    <3> QED
      BY <2>2, <3>1, <3>2
  <2> QED
    BY <2>1, <2>2
<1>7. \A j : Waits(j)' => Waits(j) /\ j # k
  <2> SUFFICES ASSUME NEW j, NEW v \in Pool!W, NEW i \in DOMAIN obj'.queues[v], obj'.queues[v][i] = j
               PROVE  Waits(j) /\ j # k
    BY DEF Waits
  <2>1. PICK b \in DOMAIN obj.queues[v] : obj'.queues[v][i] = obj.queues[v][b] /\ obj.queues[v][b] # k
    BY <1>6
  <2> QED
    BY <2>1 DEF Waits
<1>8. EachTaskOnce'
  <2>1. ASSUME NEW v \in Pool!W, NEW u \in Pool!W, NEW i \in DOMAIN obj'.queues[v], NEW j \in DOMAIN obj'.queues[u],
               obj'.queues[v][i] = obj'.queues[u][j]
        PROVE  v = u /\ i = j
    <3>1. PICK b \in DOMAIN obj.queues[v] :
            b = (IF v = w THEN i + shift ELSE i) /\ obj'.queues[v][i] = obj.queues[v][b]
      BY <1>6
    <3>2. PICK c \in DOMAIN obj.queues[u] :
            c = (IF u = w THEN j + shift ELSE j) /\ obj'.queues[u][j] = obj.queues[u][c]
      BY <1>6
    <3>3. v = u /\ b = c
      <4>1. obj.queues[v][b] = obj.queues[u][c]
        BY <2>1, <3>1, <3>2
      <4>2. \A x, y \in Pool!W : \A f \in DOMAIN obj.queues[x], g \in DOMAIN obj.queues[y] :
              obj.queues[x][f] = obj.queues[y][g] => x = y /\ f = g
        BY DEF EachTaskOnce
      <4> HIDE DEF StealInv
      <4> QED
        BY <4>1, <4>2
    <3>4. i \in Nat /\ j \in Nat
      <4>1. obj'.queues[v] \in Seq(Nat) /\ obj'.queues[u] \in Seq(Nat)
        BY <1>1, <1>5
      <4> QED
        BY <4>1, PositionIsNat
    <3> QED
      BY <3>1, <3>2, <3>3, <3>4
  <2>2. \A j : Comes(j)' <=> Comes(j)
    BY <1>1 DEF Comes
  <2> QED
    BY <1>1, <1>3, <1>7, <2>1, <2>2 DEF EachTaskOnce
<1>9. TasksAddUp'
  <2>1. Cardinality(obj'.run) = Cardinality(obj.run) + 1 /\ Cardinality(obj.run) \in Nat
    <3>1. IsFiniteSet(obj.run)
      BY DEF StealTypes
    <3>2. obj'.run = obj.run \cup {k} /\ k \notin obj.run
      BY <1>1, <1>3
    <3>3. Cardinality(obj.run \cup {k}) = Cardinality(obj.run) + 1 /\ Cardinality(obj.run) \in Nat
      BY <3>1, <3>2, FS_AddElement, FS_CardinalityType
    <3> QED
      BY <3>2, <3>3
  <2>2. Cardinality(Slots) \in Nat /\ IsFiniteSet(Slots) /\ Cardinality(obj.clients) \in Nat
    BY SlotsFinite, FS_CardinalityType DEF StealTypes
  <2>3. n + 1 \in 1 .. MaxTasks
    BY DEF TasksAddUp
  <2>4. <<w, n + 1>> \in Slots /\ Slots' = Slots \ {<<w, n + 1>>}
    <3>1. Len(obj'.queues[w]) = n /\ \A v \in Pool!W : v # w => obj'.queues[v] = obj.queues[v]
      BY <1>5
    <3>2. ASSUME NEW v \in Pool!W, NEW i \in 1 .. MaxTasks
          PROVE  <<v, i>> \in Slots' <=> <<v, i>> \in Slots /\ ~(v = w /\ i = n + 1)
      <4>1. <<v, i>> \in Slots <=> i <= Len(obj.queues[v])
        BY DEF Slots
      <4>2. <<v, i>> \in Slots' <=> i <= Len(obj'.queues[v])
        BY DEF Slots
      <4>3. CASE v = w
        <5>1. i <= n <=> i <= n + 1 /\ i # n + 1
          OBVIOUS
        <5> QED
          BY <3>1, <4>1, <4>2, <4>3, <5>1
      <4>4. CASE v # w
        BY <3>1, <4>1, <4>2, <4>4
      <4> QED
        BY <4>3, <4>4
    <3>3. <<w, n + 1>> \in Slots
      BY <2>3 DEF Slots
    <3>4. ASSUME NEW p \in Pool!W \X (1 .. MaxTasks)
          PROVE  p \in Slots' <=> p \in Slots /\ p # <<w, n + 1>>
      <4>1. PICK v \in Pool!W, i \in 1 .. MaxTasks : p = <<v, i>>
        OBVIOUS
      <4>2. p = <<w, n + 1>> <=> v = w /\ i = n + 1
        BY <4>1
      <4> QED
        BY <3>2, <4>1, <4>2
    <3>5. Slots \subseteq Pool!W \X (1 .. MaxTasks) /\ Slots' \subseteq Pool!W \X (1 .. MaxTasks)
      BY DEF Slots
    <3> QED
      BY <3>3, <3>4, <3>5
  <2>5. Cardinality(Slots') = Cardinality(Slots) - 1
    BY <2>2, <2>4, FS_RemoveElement
  <2>6. \A v \in Pool!W : Len(obj'.queues[v]) <= MaxTasks
    BY <1>5, <2>3 DEF TasksAddUp
  <2>7. Cardinality(obj'.run) + Cardinality(obj'.clients) + Cardinality(Slots') = obj'.commits
    <3>1. Cardinality(obj.run) + Cardinality(obj.clients) + Cardinality(Slots) = obj.commits
      BY DEF TasksAddUp
    <3>2. Cardinality(obj.run) + 1 + Cardinality(obj.clients) + (Cardinality(Slots) - 1) = obj.commits
      BY <2>1, <2>2, <3>1
    <3> QED
      BY <1>1, <2>1, <2>5, <3>2
  <2> QED
    BY <2>6, <2>7 DEF TasksAddUp
<1> QED
  BY <1>1, <1>3, <1>4, <1>8, <1>9

LEMMA ThiefKeeps ==
  ASSUME Workers \in Nat \ {0}, MaxTasks \in Nat, StealInv, NEW w \in Pool!W, Pool!Thief(w)
  PROVE  StealInv'
<1>0. ThiefTypes'
  <2>1. ASSUME NEW pc \in StealPlaces, NEW i \in Nat, Pool!Move(w, pc, i)
        PROVE  ThiefTypes'
    BY <2>1 DEF Pool!Move, StealInv, ThiefTypes
  <2>2. th[w].i \in Nat /\ th[w].i + 1 \in Nat
    BY DEF StealInv, ThiefTypes
  <2>3. CASE Pool!StealLoop(w)
    BY <2>1, <2>3 DEF Pool!StealLoop, StealPlaces
  <2>4. CASE Pool!TryPop(w)
    BY <2>1, <2>4 DEF Pool!TryPop, StealPlaces
  <2>5. CASE Pool!TrySteal(w)
    BY <2>1, <2>2, <2>5 DEF Pool!TrySteal, StealPlaces
  <2> QED
    BY <2>3, <2>4, <2>5 DEF Pool!Thief
<1>1. ASSUME UNCHANGED obj PROVE StealInv'
  BY <1>0, <1>1 DEF StealInv, StealTypes, EachTaskOnce, Waits, Comes, TasksAddUp, Slots
<1>2. ASSUME NEW v \in Pool!W, NEW q, q = obj.queues[v], q # <<>>,
             \/ obj' = [Pool!Ran(Head(q)) EXCEPT !.queues[v] = Tail(q)]
             \/ obj' = [Pool!Ran(q[Len(q)]) EXCEPT !.queues[v] = SubSeq(q, 1, Len(q) - 1)],
             ThiefTypes'
      PROVE  StealInv'
  <2>1. q \in Seq(Nat)
    BY <1>2 DEF StealInv, StealTypes
  <2>2. PICK n \in Nat : Len(q) = n + 1
    <3>1. Len(q) \in Nat /\ Len(q) # 0
      BY <1>2, <2>1
    <3>2. Len(q) - 1 \in Nat /\ Len(q) = (Len(q) - 1) + 1
      BY <3>1
    <3> QED
      BY <3>2
  <2>3. CASE obj' = [Pool!Ran(Head(q)) EXCEPT !.queues[v] = Tail(q)]
    <3>1. PICK r, k : r = Tail(q) /\ k = Head(q)
      OBVIOUS
    <3>2. r \in Seq(Nat) /\ Len(r) = n /\ k = q[1] /\ \A i \in 1 .. n : r[i] = q[i + 1]
      BY <1>2, <2>1, <2>2, <3>1
    <3>3. Takes(v, r, k)
      BY <2>3, <3>1 DEF Pool!Ran, Takes, StealInv, StealTypes
    <3>4. /\ Len(obj.queues[v]) = n + 1 /\ k = obj.queues[v][1]
          /\ \A i \in 1 .. n : r[i] = obj.queues[v][i + 1]
      BY <1>2, <2>2, <3>2
    <3>5. 1 \in {0, 1}
      OBVIOUS
    <3> QED
      BY <1>2, <3>2, <3>3, <3>4, <3>5, TakeKeeps
  <2>4. CASE obj' = [Pool!Ran(q[Len(q)]) EXCEPT !.queues[v] = SubSeq(q, 1, Len(q) - 1)]
    <3>1. PICK r, k : r = SubSeq(q, 1, Len(q) - 1) /\ k = q[Len(q)]
      OBVIOUS
    <3>2. r \in Seq(Nat) /\ Len(r) = n /\ k = q[n + 1] /\ \A i \in 1 .. n : r[i] = q[i + 0]
      BY <2>1, <2>2, <3>1
    <3>3. Takes(v, r, k)
      BY <2>4, <3>1 DEF Pool!Ran, Takes, StealInv, StealTypes
    <3>4. /\ Len(obj.queues[v]) = n + 1 /\ k = obj.queues[v][n + 1]
          /\ \A i \in 1 .. n : r[i] = obj.queues[v][i + 0]
      BY <1>2, <2>2, <3>2
    <3>5. 0 \in {0, 1}
      OBVIOUS
    <3> QED
      BY <1>2, <3>2, <3>3, <3>4, <3>5, TakeKeeps
  <2> QED
    BY <1>2, <2>3, <2>4
<1>3. CASE Pool!StealLoop(w)
  BY <1>1, <1>3 DEF Pool!StealLoop
<1>4. CASE Pool!TryPop(w)
  BY <1>0, <1>1, <1>2, <1>4 DEF Pool!TryPop
<1>5. CASE Pool!TrySteal(w)
  <2>1. CASE ~UNCHANGED obj
    <3>1. PICK i : /\ i = th[w].i /\ i < Workers /\ obj.queues[i] # <<>>
                   /\ obj' = [Pool!Ran(obj.queues[i][Len(obj.queues[i])])
                                EXCEPT !.queues[i] = SubSeq(obj.queues[i], 1, Len(obj.queues[i]) - 1)]
      BY <1>5, <2>1 DEF Pool!TrySteal
    <3>2. i \in Pool!W
      <4>1. th[w].i \in Nat
        BY DEF StealInv, ThiefTypes
      <4>2. i \in Nat /\ i < Workers
        BY <3>1, <4>1
      <4> QED
        BY <4>2 DEF Pool!W
    <3> QED
      BY <1>0, <1>2, <3>1, <3>2
  <2> QED
    BY <1>1, <2>1
<1> QED
  BY <1>3, <1>4, <1>5 DEF Pool!Thief

LEMMA NextStealInv ==
  ASSUME Workers \in Nat \ {0}, MaxTasks \in Nat, StealInv, [Pool!StealNext]_(Pool!vars)
  PROVE  StealInv'
<1>1. CASE UNCHANGED Pool!vars
  BY <1>1 DEF Pool!vars, StealInv, StealTypes, ThiefTypes, EachTaskOnce, Waits, Comes, TasksAddUp, Slots
<1>2. CASE Pool!SetStop
  <2>1. PICK b \in BOOLEAN, n \in Nat : obj' = [obj EXCEPT !.stop = b, !.stops = n]
    <3>1. obj.stops \in Nat /\ obj.stops + 1 \in Nat
      BY DEF StealInv, StealTypes
    <3>2. CASE obj' = [obj EXCEPT !.stop = TRUE, !.stops = @ + 1]
      BY <3>1, <3>2
    <3>3. CASE obj' = [obj EXCEPT !.stop = FALSE]
      <4>1. obj' = [obj EXCEPT !.stop = FALSE, !.stops = obj.stops]
        BY <3>3 DEF StealInv, StealTypes
      <4> QED
        BY <3>1, <4>1
    <3> QED
      BY <1>2, <3>2, <3>3 DEF Pool!SetStop
  <2>2. /\ UNCHANGED <<obj.queues, obj.index, obj.commits, obj.clients, obj.run, obj.twice>>
        /\ StealTypes' /\ ThiefTypes'
    BY <1>2, <2>1 DEF Pool!SetStop, StealInv, StealTypes, ThiefTypes
  <2> QED
    BY <2>2 DEF StealInv, EachTaskOnce, Waits, Comes, TasksAddUp, Slots
<1> QED
  BY <1>1, <1>2, ReadIndexKeeps, PushKeeps, ThiefKeeps DEF Pool!StealNext

-----------------------------------------------------------------------------
(* StealThreadPool: theorem *)

\* No task is run twice, however its worker and the thieves meet; none is lost between Commit,
\* the queues and the run (steal_thread_pool.h).
THEOREM StealPoolRunsOnce ==
  ASSUME Workers \in Nat \ {0}, MaxTasks \in Nat
  PROVE  Pool!StealSpec => []Pool!RunOnce
<1>1. StealInv => Pool!RunOnce
  BY PoolCounts DEF StealInv, TasksAddUp, Slots, Pool!RunOnce
<1>2. Pool!StealInit => StealInv
  BY InitStealInv
<1>3. StealInv /\ [Pool!StealNext]_(Pool!vars) => StealInv'
  BY NextStealInv
<1> QED
  BY <1>1, <1>2, <1>3, PTL DEF Pool!StealSpec
-----------------------------------------------------------------------------
(* ThreadSafeQueue: the inductive invariant *)

ListPlaces == {"idle", "append", "notify", "wait", "try", "steal", "sleep", "asleep", "woken", "popHead", "popTail"}
AtHead == {"wait", "try", "steal", "sleep", "popHead", "popTail"}
AtTail == {"append", "notify", "steal", "popTail"}
AtWork == {"notify", "woken", "wait", "popHead", "popTail"}

ListTypes ==
  /\ obj \in [items : Seq(Nat), headMtx : Threads \cup {Null}, tailMtx : Threads \cup {Null},
              waiting : SUBSET Threads, pushes : Nat, pops : Nat, gone : {"no", "freed", "twice"},
              taken : SUBSET Nat, missed : SUBSET Threads]
  /\ th \in [Threads -> ListPlaces]
  /\ IsFiniteSet(obj.taken)

\* The places between the locking of a mutex and its release; a waiter has neither.
ListMutexes ==
  /\ \A t \in Threads : /\ th[t] \in AtHead <=> obj.headMtx = t
                        /\ th[t] \in AtTail <=> obj.tailMtx = t
  /\ obj.waiting = Among({"asleep"})

\* PopFinds.  An Emplace appends what is neither in the list nor taken.
PopsItem == \A t \in Among({"popHead", "popTail"}) : obj.items # <<>>
EachItemOnce ==
  /\ \A i, j \in DOMAIN obj.items : obj.items[i] = obj.items[j] => i = j
  /\ \A i \in DOMAIN obj.items : obj.items[i] \in 1 .. obj.pushes /\ obj.items[i] \notin obj.taken
  /\ \A k \in obj.taken : k \in 1 .. obj.pushes
  /\ Among({"append"}) # {} => obj.pushes \notin obj.taken /\ \A i \in DOMAIN obj.items : obj.items[i] # obj.pushes
ItemsAddUp == Cardinality(obj.taken) + Len(obj.items) + Cardinality(Among({"append"})) = obj.pushes

\* SleepsOnItemOnlyIfMissed: beside a waiter that no notification missed, each item has
\* a thread that will notify or will pop.
ItemsAreFetched ==
  Among({"sleep", "asleep"}) \ obj.missed # {} => Len(obj.items) <= Cardinality(Among(AtWork))

ListInv == ListTypes /\ ListMutexes /\ PopsItem /\ EachItemOnce /\ ItemsAddUp /\ ItemsAreFetched

\* What the destructor leaves, after which nothing is done.
FreedIsEmpty == obj.gone = "freed" => obj.items = <<>> /\ Among({"append"}) = {}

LEMMA ListCounts ==
  ASSUME IsFiniteSet(Threads), ListTypes, NEW pcs
  PROVE  Cardinality(Among(pcs)) \in Nat /\ Cardinality(obj.taken) \in Nat /\ Len(obj.items) \in Nat
<1>1. Cardinality(Among(pcs)) \in Nat
  BY ThreadCounts DEF Among
<1>2. Cardinality(obj.taken) \in Nat
  BY FS_CardinalityType DEF ListTypes
<1>3. obj.items \in Seq(Nat)
  BY DEF ListTypes
<1> QED
  BY <1>1, <1>2, <1>3

LEMMA InitListInv ==
  ASSUME Null \notin Threads, ListQueue!Init
  PROVE  ListInv
<1> USE DEF ListQueue!Init
<1>1. ListTypes
  BY EmptySeq, FS_EmptySet DEF ListTypes, ListPlaces
<1>2. \A pcs : "idle" \notin pcs => Among(pcs) = {}
  BY DEF Among
<1>3. /\ Among({"asleep"}) = {} /\ Among({"popHead", "popTail"}) = {}
      /\ Among({"append"}) = {} /\ Among({"sleep", "asleep"}) = {}
  BY <1>2
<1>4. ListMutexes
  BY <1>3 DEF ListMutexes, AtHead, AtTail
<1>5. ItemsAddUp
  <2>1. Cardinality(Among({"append"})) = 0 /\ Cardinality(obj.taken) = 0
    BY <1>3, FS_EmptySet
  <2>2. Len(obj.items) = 0 /\ obj.pushes = 0
    OBVIOUS
  <2> QED
    BY <2>1, <2>2 DEF ItemsAddUp
<1> QED
  BY <1>1, <1>3, <1>4, <1>5 DEF ListInv, PopsItem, EachItemOnce, ItemsAreFetched

\* A thread that goes from one place to another, and leaves the items as they are.
LEMMA ListThreadMoves ==
  ASSUME IsFiniteSet(Threads), ListInv, ListTypes', ListMutexes',
         NEW t \in Threads, NEW pc \in ListPlaces, th' = [th EXCEPT ![t] = pc],
         UNCHANGED <<obj.items, obj.taken, obj.pushes, obj.missed>>,
         th[t] # "append" /\ pc # "append",
         pc \in {"popHead", "popTail"} => obj.items # <<>>,
         th[t] \in AtWork /\ pc \notin AtWork => obj.items = <<>>,
         pc \in {"sleep", "asleep"} => obj.items = <<>> \/ th[t] = "sleep"
  PROVE  ListInv'
<1> USE DEF ListInv
<1>0. th \in [Threads -> ListPlaces]
  BY DEF ListTypes
<1>1. Among({"append"})' = Among({"append"})
  BY <1>0 DEF Among
<1>2. PopsItem'
  BY <1>0 DEF PopsItem, Among
<1>3. EachItemOnce' /\ ItemsAddUp'
  BY <1>1 DEF EachItemOnce, ItemsAddUp
<1>4. ItemsAreFetched'
  <2>1. CASE obj.items = <<>>
    <3>1. Cardinality(Among(AtWork)') \in Nat
      BY ThreadCounts DEF Among
    <3>2. Len(obj'.items) = 0
      BY <2>1
    <3> QED
      BY <3>1, <3>2 DEF ItemsAreFetched
  <2>2. CASE obj.items # <<>>
    <3>1. Cardinality(Among(AtWork)) \in Nat /\ Cardinality(Among(AtWork)') >= Cardinality(Among(AtWork))
      <4>1. Cardinality(Among(AtWork)) \in Nat
        BY ListCounts
      <4>2. CASE th[t] \in AtWork <=> pc \in AtWork
        <5>1. Among(AtWork)' = Among(AtWork)
          BY <1>0, <4>2 DEF Among
        <5> QED
          BY <4>1, <5>1
      <4>3. CASE th[t] \notin AtWork /\ pc \in AtWork
        <5>1. Cardinality(Among(AtWork)') = Cardinality(Among(AtWork)) + 1
          BY <1>0, <4>3, AmongAfter
        <5> QED
          BY <4>1, <5>1
      <4> QED
        BY <2>2, <4>2, <4>3
    <3>2. Among({"sleep", "asleep"})' \subseteq Among({"sleep", "asleep"})
      BY <1>0, <2>2 DEF Among
    <3>3. Len(obj.items) \in Nat /\ Cardinality(Among(AtWork)') \in Nat
      BY ListCounts, ThreadCounts DEF Among
    <3> QED
      BY <3>1, <3>2, <3>3 DEF ItemsAreFetched
  <2> QED
    BY <2>1, <2>2
<1> QED
  BY <1>2, <1>3, <1>4

LEMMA LockTailKeeps ==
  ASSUME IsFiniteSet(Threads), Null \notin Threads, ListInv, NEW t \in Threads, ListQueue!LockTail(t)
  PROVE  ListInv'
<1> USE DEF ListInv, ListQueue!At, ListQueue!Go
<1>1. PICK k : k = obj.pushes + 1
  OBVIOUS
<1>2. k \in Nat /\ obj.pushes \in Nat /\ obj.pushes < k
  BY <1>1 DEF ListTypes
<1>3. obj' = [obj EXCEPT !.tailMtx = t, !.pushes = k] /\ th' = [th EXCEPT ![t] = "append"]
  BY <1>1, <1>2 DEF ListQueue!LockTail, ListTypes
<1>4. /\ UNCHANGED <<obj.items, obj.taken, obj.missed, obj.headMtx, obj.waiting>>
      /\ obj'.pushes = k /\ obj'.tailMtx = t /\ th \in [Threads -> ListPlaces]
  BY <1>3 DEF ListTypes
<1>5. ListTypes'
  BY <1>2, <1>3, <1>4 DEF ListTypes, ListPlaces
<1>6. th[t] = "idle" /\ obj.tailMtx = Null
  BY DEF ListQueue!LockTail
<1>7. ListMutexes'
  BY <1>3, <1>4, <1>6 DEF ListMutexes, AtHead, AtTail, Among
<1>8. PopsItem'
  BY <1>3, <1>4 DEF PopsItem, Among
<1>9. Among({"append"}) = {}
  BY <1>6 DEF ListMutexes, AtTail, Among
<1>10. EachItemOnce'
  <2>1. \A j \in 1 .. obj.pushes : j \in 1 .. k /\ j # k
    BY <1>1, <1>2
  <2> QED
    BY <1>4, <2>1 DEF EachItemOnce
<1>11. ItemsAddUp'
  <2>1. Cardinality(Among({"append"})') = Cardinality(Among({"append"})) + 1
    <3>1. th[t] \notin {"append"} /\ "append" \in {"append"}
      BY <1>6
    <3> QED
      BY <1>3, <1>4, <3>1, AmongAfter
  <2>2. Cardinality(Among({"append"})) \in Nat /\ Cardinality(obj.taken) \in Nat /\ Len(obj.items) \in Nat
    BY ListCounts
  <2> QED
    BY <1>1, <1>4, <2>1, <2>2 DEF ItemsAddUp
<1>12. ItemsAreFetched'
  <2>1. Among(AtWork)' = Among(AtWork) /\ Among({"sleep", "asleep"})' = Among({"sleep", "asleep"})
    BY <1>3, <1>4, <1>6 DEF Among, AtWork
  <2> QED
    BY <1>4, <2>1 DEF ItemsAreFetched
<1> QED
  BY <1>5, <1>7, <1>8, <1>10, <1>11, <1>12

LEMMA AppendKeeps ==
  ASSUME IsFiniteSet(Threads), Null \notin Threads, ListInv, NEW t \in Threads, ListQueue!Append1(t)
  PROVE  ListInv'
<1> USE DEF ListInv, ListQueue!At, ListQueue!Go
<1>1. obj.items \in Seq(Nat) /\ obj.pushes \in Nat /\ th[t] = "append" /\ th \in [Threads -> ListPlaces]
  BY DEF ListTypes, ListQueue!Append1
<1>2. PICK q, n, k : q = Append(obj.items, k) /\ n = Len(obj.items) /\ k = obj.pushes
  OBVIOUS
<1>3. /\ q \in Seq(Nat) /\ n \in Nat /\ Len(q) = n + 1 /\ q[n + 1] = k
      /\ DOMAIN q = 1 .. n + 1 /\ DOMAIN obj.items = 1 .. n
      /\ \A i \in 1 .. n : q[i] = obj.items[i]
  BY <1>1, <1>2
<1>4. obj' = [obj EXCEPT !.items = q] /\ th' = [th EXCEPT ![t] = "notify"]
  BY <1>2 DEF ListQueue!Append1
<1>5. /\ UNCHANGED <<obj.taken, obj.missed, obj.headMtx, obj.tailMtx, obj.waiting, obj.pushes>>
      /\ obj'.items = q
  BY <1>4 DEF ListTypes
<1>6. ListTypes'
  BY <1>3, <1>4, <1>5 DEF ListTypes, ListPlaces
<1>7. ListMutexes'
  BY <1>1, <1>4, <1>5 DEF ListMutexes, AtHead, AtTail, Among
<1>8. PopsItem'
  BY <1>3, <1>5 DEF PopsItem
<1>9. Among({"append"})' = {} /\ t \in Among({"append"})
  BY <1>1, <1>4 DEF ListMutexes, AtTail, Among
<1>10. EachItemOnce'
  <2>1. \A i \in DOMAIN q : \/ i \in DOMAIN obj.items /\ q[i] = obj.items[i] /\ q[i] # k
                            \/ i = n + 1 /\ q[i] = k
    BY <1>2, <1>3, <1>9 DEF EachItemOnce
  <2>2. k \in 1 .. obj.pushes /\ k \notin obj.taken
    <3>1. Cardinality(Among({"append"})) \in Nat /\ Cardinality(obj.taken) \in Nat /\ Len(obj.items) \in Nat
      BY ListCounts
    <3>2. Cardinality(Among({"append"})) # 0
      <4>1. IsFiniteSet(Among({"append"}))
        BY FS_Subset DEF Among
      <4> QED
        BY <1>9, <4>1, FS_EmptySet
    <3>3. obj.pushes >= 1
      BY <1>1, <3>1, <3>2 DEF ItemsAddUp
    <3> QED
      BY <1>1, <1>2, <1>9, <3>3 DEF EachItemOnce
  <2> QED
    BY <1>5, <1>9, <2>1, <2>2 DEF EachItemOnce
<1>11. ItemsAddUp'
  <2>1. Cardinality(Among({"append"})') = Cardinality(Among({"append"})) - 1
    <3>1. th[t] \in {"append"} /\ "notify" \notin {"append"}
      BY <1>1
    <3> QED
      BY <1>1, <1>4, <3>1, AmongAfter
  <2>2. Cardinality(Among({"append"})) \in Nat /\ Cardinality(obj.taken) \in Nat
    BY ListCounts
  <2>3. Cardinality(obj.taken) + n + Cardinality(Among({"append"})) = obj.pushes
    BY <1>2 DEF ItemsAddUp
  <2>4. Cardinality(obj.taken) + (n + 1) + (Cardinality(Among({"append"})) - 1) = obj.pushes
    BY <1>3, <2>2, <2>3
  <2> QED
    BY <1>3, <1>5, <2>1, <2>4 DEF ItemsAddUp
<1>12. ItemsAreFetched'
  <2>1. Among({"sleep", "asleep"})' = Among({"sleep", "asleep"})
    BY <1>1, <1>4 DEF Among
  <2>2. Cardinality(Among(AtWork)') = Cardinality(Among(AtWork)) + 1
    <3>1. th[t] \notin AtWork /\ "notify" \in AtWork
      BY <1>1 DEF AtWork
    <3> QED
      BY <1>1, <1>4, <3>1, AmongAfter
  <2>3. Cardinality(Among(AtWork)) \in Nat
    BY ListCounts
  <2> QED
    BY <1>2, <1>3, <1>5, <2>1, <2>2, <2>3 DEF ItemsAreFetched
<1> QED
  BY <1>6, <1>7, <1>8, <1>10, <1>11, <1>12

\* notify_one: what it finds between a test and a sleep is missed.
LEMMA ListNotifyKeeps ==
  ASSUME IsFiniteSet(Threads), Null \notin Threads, ListInv, NEW t \in Threads, ListQueue!Notify(t)
  PROVE  ListInv'
<1> USE DEF ListInv, ListQueue!At
<1>1. th[t] = "notify" /\ obj.tailMtx = t /\ th \in [Threads -> ListPlaces]
  BY DEF ListTypes, ListQueue!Notify, ListMutexes, AtTail
<1>2. PICK m : m = Among({"sleep"})
  OBVIOUS
<1>3. CASE /\ obj.waiting = {} /\ th' = [th EXCEPT ![t] = "idle"]
           /\ obj' = [obj EXCEPT !.tailMtx = Null, !.missed = @ \cup m]
  <2>1. /\ UNCHANGED <<obj.items, obj.taken, obj.headMtx, obj.waiting, obj.pushes>>
        /\ obj'.tailMtx = Null /\ obj'.missed = obj.missed \cup m
    BY <1>3 DEF ListTypes
  <2>2. ListTypes'
    BY <1>2, <1>3, <2>1 DEF ListTypes, ListPlaces, Among
  <2>3. ListMutexes'
    BY <1>1, <1>3, <2>1 DEF ListMutexes, AtHead, AtTail, Among
  <2>4. Among({"append"})' = Among({"append"}) /\ PopsItem'
    BY <1>1, <1>3, <2>1 DEF PopsItem, Among
  <2>5. Among({"sleep", "asleep"})' \ obj'.missed = {}
    BY <1>1, <1>2, <1>3, <2>1 DEF ListMutexes, Among
  <2> QED
    BY <2>1, <2>2, <2>3, <2>4, <2>5 DEF EachItemOnce, ItemsAddUp, ItemsAreFetched
<1>4. ASSUME NEW u \in obj.waiting, th' = [th EXCEPT ![t] = "idle", ![u] = "woken"],
             obj' = [obj EXCEPT !.tailMtx = Null, !.missed = @ \cup m, !.waiting = @ \ {u}]
      PROVE  ListInv'
  <2>0. th[u] = "asleep" /\ u \in Threads /\ u # t
    BY <1>1 DEF ListMutexes, Among
  <2>1. /\ UNCHANGED <<obj.items, obj.taken, obj.headMtx, obj.pushes>>
        /\ obj'.tailMtx = Null /\ obj'.missed = obj.missed \cup m /\ obj'.waiting = obj.waiting \ {u}
    BY <1>4 DEF ListTypes
  <2>2. th' \in [Threads -> ListPlaces]
        /\ \A v \in Threads : th'[v] = IF v = t THEN "idle" ELSE IF v = u THEN "woken" ELSE th[v]
    BY <1>1, <1>4, <2>0 DEF ListPlaces
  <2>3. ListTypes'
    <3>1. m \subseteq Threads
      BY <1>2 DEF Among
    <3> QED
      BY <1>4, <2>1, <2>2, <3>1 DEF ListTypes
  <2>4. ListMutexes'
    <3>1. Among({"asleep"})' = Among({"asleep"}) \ {u}
      BY <1>1, <2>0, <2>2 DEF Among
    <3>2. \A v \in Threads : (th'[v] \in AtHead <=> th[v] \in AtHead) /\ (th'[v] \in AtTail <=> th[v] \in AtTail /\ v # t)
      BY <1>1, <2>0, <2>2 DEF AtHead, AtTail
    <3> QED
      BY <1>1, <2>1, <3>1, <3>2 DEF ListMutexes
  <2>5. Among({"append"})' = Among({"append"}) /\ PopsItem'
    BY <1>1, <2>0, <2>1, <2>2 DEF PopsItem, Among
  <2>6. Among({"sleep", "asleep"})' \subseteq Among({"sleep", "asleep"})
    BY <2>2 DEF Among
  <2>7. Cardinality(Among(AtWork)') = Cardinality(Among(AtWork))
    <3>1. Among(AtWork)' = (Among(AtWork) \ {t}) \cup {u} /\ u \notin Among(AtWork) \ {t} /\ t \in Among(AtWork)
      BY <1>1, <2>0, <2>2 DEF Among, AtWork
    <3>2. PICK A : A = Among(AtWork) \ {t}
      OBVIOUS
    <3>3. Among(AtWork) \in SUBSET Threads /\ A \in SUBSET Threads
      BY <3>2 DEF Among
    <3>4. Cardinality(A) = Cardinality(Among(AtWork)) - 1 /\ Cardinality(A \cup {u}) = Cardinality(A) + 1
      BY <2>0, <3>1, <3>2, <3>3, ThreadCounts
    <3>5. Cardinality(Among(AtWork)) \in Nat
      BY <3>3, ThreadCounts
    <3> QED
      BY <3>1, <3>2, <3>4, <3>5
  <2>8. ItemsAreFetched'
    BY <2>1, <2>6, <2>7 DEF ItemsAreFetched
  <2> QED
    BY <2>1, <2>3, <2>4, <2>5, <2>8 DEF EachItemOnce, ItemsAddUp
<1>5. {u \in Threads : th[u] \in {"sleep"}} = m
  BY <1>2 DEF Among
<1> QED
  BY <1>3, <1>4, <1>5 DEF ListQueue!Notify, ListQueue!Go

LEMMA LockHeadKeeps ==
  ASSUME IsFiniteSet(Threads), Null \notin Threads, ListInv, NEW t \in Threads, ListQueue!LockHead(t)
  PROVE  ListInv'
<1> USE DEF ListInv, ListQueue!At, ListQueue!Go
<1>1. obj.headMtx = Null /\ th \in [Threads -> ListPlaces]
  BY DEF ListQueue!LockHead, ListTypes
<1>2. PICK n \in Nat, l \in Threads \cup {Null}, pc \in {"wait", "try", "steal"} :
        /\ obj' = [obj EXCEPT !.headMtx = t, !.pops = n, !.tailMtx = l] /\ th' = [th EXCEPT ![t] = pc]
        /\ \/ pc = "steal" /\ th[t] = "idle" /\ obj.tailMtx = Null /\ l = t
           \/ pc # "steal" /\ th[t] = "idle" /\ l = obj.tailMtx
           \/ pc = "wait" /\ th[t] = "woken" /\ l = obj.tailMtx
  <2>1. obj.pops \in Nat /\ obj.pops + 1 \in Nat /\ obj.tailMtx \in Threads \cup {Null}
    BY DEF ListTypes
  <2>2. CASE th[t] = "woken" /\ obj' = [obj EXCEPT !.headMtx = t] /\ th' = [th EXCEPT ![t] = "wait"]
    <3>1. obj' = [obj EXCEPT !.headMtx = t, !.pops = obj.pops, !.tailMtx = obj.tailMtx]
      BY <2>2 DEF ListTypes
    <3> QED
      BY <2>1, <2>2, <3>1
  <2>3. ASSUME NEW pc \in {"wait", "try", "steal"}, th[t] = "idle", pc = "steal" => obj.tailMtx = Null,
               obj' = [obj EXCEPT !.headMtx = t, !.pops = @ + 1, !.tailMtx = IF pc = "steal" THEN t ELSE @],
               th' = [th EXCEPT ![t] = pc]
        PROVE  \E n \in Nat, l \in Threads \cup {Null} :
                  /\ obj' = [obj EXCEPT !.headMtx = t, !.pops = n, !.tailMtx = l]
                  /\ IF pc = "steal" THEN l = t ELSE l = obj.tailMtx
    <3>1. PICK l : l = IF pc = "steal" THEN t ELSE obj.tailMtx
      OBVIOUS
    <3>2. obj' = [obj EXCEPT !.headMtx = t, !.pops = obj.pops + 1, !.tailMtx = l]
      BY <2>3, <3>1
    <3> QED
      BY <2>1, <3>1, <3>2
  <2> QED
    BY <2>2, <2>3 DEF ListQueue!LockHead
<1>3. /\ UNCHANGED <<obj.items, obj.taken, obj.pushes, obj.missed, obj.waiting>>
      /\ obj'.headMtx = t /\ obj'.tailMtx = l
  BY <1>2 DEF ListTypes
<1>4. ListTypes'
  BY <1>2, <1>3 DEF ListTypes, ListPlaces
<1>5. ListMutexes'
  BY <1>1, <1>2, <1>3 DEF ListMutexes, AtHead, AtTail, Among
<1>6. pc \in ListPlaces /\ (th[t] \in AtWork => pc \in AtWork) /\ th[t] # "append"
  BY <1>2 DEF ListPlaces, AtWork
<1> QED
  BY <1>2, <1>3, <1>4, <1>5, <1>6, ListThreadMoves

LEMMA ListTestKeeps ==
  ASSUME IsFiniteSet(Threads), Null \notin Threads, ListInv, NEW t \in Threads, ListQueue!Test(t)
  PROVE  ListInv'
<1> USE DEF ListInv, ListQueue!At, ListQueue!Go
<1>1. th[t] \in {"wait", "try", "steal"} /\ th \in [Threads -> ListPlaces]
  BY DEF ListQueue!Test, ListTypes
<1>2. CASE UNCHANGED obj
  <2>1. PICK pc \in {"popHead", "popTail", "sleep"} :
          /\ th' = [th EXCEPT ![t] = pc]
          /\ pc = "popTail" <=> th[t] = "steal"
          /\ pc = "sleep" <=> obj.items = <<>>
    <3>1. CASE obj.items # <<>>
      BY <1>1, <1>2, <3>1 DEF ListQueue!Test
    <3>2. CASE obj.items = <<>>
      <4>1. CASE th[t] = "wait" /\ th' = [th EXCEPT ![t] = "sleep"]
        BY <3>2, <4>1
      <4>2. CASE th[t] \in {"try", "steal"} /\ obj'.headMtx = Null
        BY <1>1, <1>2, <4>2 DEF ListMutexes, AtHead
      <4> QED
        BY <1>1, <1>2, <3>2, <4>1, <4>2 DEF ListQueue!Test, ListTypes
    <3> QED
      BY <3>1, <3>2
  <2>2. ListTypes'
    BY <1>1, <1>2, <2>1 DEF ListTypes, ListPlaces
  <2>3. ListMutexes'
    BY <1>1, <1>2, <2>1 DEF ListMutexes, AtHead, AtTail, Among
  <2>4. pc \in ListPlaces /\ (th[t] \in AtWork /\ pc \notin AtWork => obj.items = <<>>)
    BY <2>1 DEF ListPlaces, AtWork
  <2> QED
    BY <1>1, <1>2, <2>1, <2>2, <2>3, <2>4, ListThreadMoves
<1>3. CASE /\ obj.items = <<>> /\ th[t] \in {"try", "steal"} /\ th' = [th EXCEPT ![t] = "idle"]
           /\ obj' = [obj EXCEPT !.headMtx = Null, !.tailMtx = IF th[t] = "steal" THEN Null ELSE @]
  <2>1. PICK l : l = IF th[t] = "steal" THEN Null ELSE obj.tailMtx
    OBVIOUS
  <2>2. l \in Threads \cup {Null} /\ obj' = [obj EXCEPT !.headMtx = Null, !.tailMtx = l]
    BY <1>3, <2>1 DEF ListTypes
  <2>3. /\ UNCHANGED <<obj.items, obj.taken, obj.pushes, obj.missed, obj.waiting>>
        /\ obj'.headMtx = Null /\ obj'.tailMtx = l
    BY <2>2 DEF ListTypes
  <2>4. ListTypes'
    BY <1>3, <2>2, <2>3 DEF ListTypes, ListPlaces
  <2>5. ListMutexes'
    BY <1>1, <1>3, <2>1, <2>3 DEF ListMutexes, AtHead, AtTail, Among
  <2>6. "idle" \in ListPlaces
    BY DEF ListPlaces
  <2> QED
    BY <1>3, <2>3, <2>4, <2>5, <2>6, ListThreadMoves
<1> QED
  BY <1>2, <1>3 DEF ListQueue!Test

LEMMA ListSleepKeeps ==
  ASSUME IsFiniteSet(Threads), Null \notin Threads, ListInv, NEW t \in Threads, ListQueue!Sleep(t)
  PROVE  ListInv'
<1> USE DEF ListInv, ListQueue!At, ListQueue!Go
<1>1. /\ th[t] = "sleep" /\ th' = [th EXCEPT ![t] = "asleep"] /\ th \in [Threads -> ListPlaces]
      /\ obj' = [obj EXCEPT !.headMtx = Null, !.waiting = @ \cup {t}]
  BY DEF ListQueue!Sleep, ListTypes
<1>2. /\ UNCHANGED <<obj.items, obj.taken, obj.pushes, obj.missed, obj.tailMtx>>
      /\ obj'.headMtx = Null /\ obj'.waiting = obj.waiting \cup {t}
  BY <1>1 DEF ListTypes
<1>3. ListTypes'
  BY <1>1, <1>2 DEF ListTypes, ListPlaces
<1>4. ListMutexes'
  BY <1>1, <1>2 DEF ListMutexes, AtHead, AtTail, Among
<1>5. "asleep" \in ListPlaces /\ th[t] \notin AtWork
  BY <1>1 DEF ListPlaces, AtWork
<1> QED
  BY <1>1, <1>2, <1>3, <1>4, <1>5, ListThreadMoves

\* The thread takes the item k and leaves q: without the first item (shift 1) or the last (shift 0).
Pops(t, q, k) ==
  /\ obj' = [obj EXCEPT !.items = q, !.taken = @ \cup {k}, !.headMtx = Null,
                        !.tailMtx = IF th[t] = "popTail" THEN Null ELSE @]
  /\ th' = [th EXCEPT ![t] = "idle"]

LEMMA PopKeeps ==
  ASSUME IsFiniteSet(Threads), Null \notin Threads, ListInv, NEW t \in Threads, th[t] \in {"popHead", "popTail"},
         NEW q \in Seq(Nat), NEW k, NEW n \in Nat, Len(obj.items) = n + 1, Len(q) = n,
         NEW shift \in {0, 1}, \A i \in 1 .. n : q[i] = obj.items[i + shift],
         \/ shift = 1 /\ k = obj.items[1]
         \/ shift = 0 /\ k = obj.items[n + 1],
         Pops(t, q, k)
  PROVE  ListInv'
<1> USE DEF ListInv
<1>1. obj.items \in Seq(Nat) /\ th \in [Threads -> ListPlaces]
  BY DEF ListTypes
<1>2. PICK a \in DOMAIN obj.items : k = obj.items[a] /\ \A i \in 1 .. n : i + shift \in DOMAIN obj.items \ {a}
  <2> HIDE DEF ListInv
  <2>1. DOMAIN obj.items = 1 .. n + 1
    BY <1>1
  <2>2. LeftOf(obj.items, k, n, shift)
    BY <2>1, OneEndIsTaken
  <2> QED
    BY <2>2 DEF LeftOf
<1>3. k \in Nat /\ k \notin obj.taken /\ k \in 1 .. obj.pushes
  BY <1>1, <1>2 DEF EachItemOnce
<1>4. PICK l : l = IF th[t] = "popTail" THEN Null ELSE obj.tailMtx
  OBVIOUS
<1>5. /\ obj' = [obj EXCEPT !.items = q, !.taken = @ \cup {k}, !.headMtx = Null, !.tailMtx = l]
      /\ th' = [th EXCEPT ![t] = "idle"]
      /\ l \in Threads \cup {Null}
  BY <1>4 DEF Pops, ListTypes
<1>6. /\ UNCHANGED <<obj.pushes, obj.missed, obj.waiting>>
      /\ obj'.items = q /\ obj'.taken = obj.taken \cup {k} /\ obj'.headMtx = Null /\ obj'.tailMtx = l
  BY <1>5 DEF ListTypes
<1>7. ListTypes'
  <2>1. IsFiniteSet(obj.taken \cup {k})
    BY FS_AddElement DEF ListTypes
  <2> QED
    BY <1>3, <1>5, <1>6, <2>1 DEF ListTypes, ListPlaces
<1>8. ListMutexes'
  BY <1>1, <1>4, <1>5, <1>6 DEF ListMutexes, AtHead, AtTail, Among
<1>9. PopsItem'
  <2>1. Among({"popHead", "popTail"})' = {}
    BY <1>1, <1>5 DEF ListMutexes, AtHead, Among
  <2> QED
    BY <2>1 DEF PopsItem
<1>10. Among({"append"})' = Among({"append"})
  BY <1>1, <1>5 DEF Among
<1>11. EachItemOnce'
  <2>1. \A i \in DOMAIN q : \E b \in DOMAIN obj.items : b = i + shift /\ q[i] = obj.items[b] /\ q[i] # k
    <3> SUFFICES ASSUME NEW i \in DOMAIN q
                 PROVE  i + shift \in DOMAIN obj.items /\ q[i] = obj.items[i + shift] /\ q[i] # k
      OBVIOUS
    <3>1. DOMAIN q = 1 .. n
      OBVIOUS
    <3>2. i + shift \in DOMAIN obj.items \ {a} /\ q[i] = obj.items[i + shift]
      BY <1>2, <3>1
    <3> QED
      BY <1>2, <3>2 DEF EachItemOnce
  <2>2. \A i, j \in DOMAIN q : q[i] = q[j] => i = j
    <3> SUFFICES ASSUME NEW i \in DOMAIN q, NEW j \in DOMAIN q, q[i] = q[j]
                 PROVE  i = j
      OBVIOUS
    <3>1. i + shift = j + shift
      BY <2>1 DEF EachItemOnce
    <3>2. i \in Nat /\ j \in Nat
      BY PositionIsNat
    <3> QED
      BY <3>1, <3>2
  <2> QED
    BY <1>3, <1>6, <1>10, <2>1, <2>2, SMTT(30) DEF EachItemOnce
<1>12. ItemsAddUp'
  <2>1. Cardinality(obj.taken \cup {k}) = Cardinality(obj.taken) + 1
    BY <1>3, FS_AddElement DEF ListTypes
  <2>2. Cardinality(Among({"append"})) \in Nat /\ Cardinality(obj.taken) \in Nat
    BY ListCounts
  <2> QED
    BY <1>6, <1>10, <2>1, <2>2 DEF ItemsAddUp
<1>13. ItemsAreFetched'
  <2>1. Among({"sleep", "asleep"})' = Among({"sleep", "asleep"})
    BY <1>1, <1>5 DEF Among
  <2>2. Cardinality(Among(AtWork)') = Cardinality(Among(AtWork)) - 1
    <3>1. th[t] \in AtWork /\ "idle" \notin AtWork
      BY DEF AtWork
    <3> QED
      BY <1>1, <1>5, <3>1, AmongAfter
  <2>3. Cardinality(Among(AtWork)) \in Nat
    BY ListCounts
  <2> QED
    BY <1>6, <2>1, <2>2, <2>3 DEF ItemsAreFetched
<1> QED
  BY <1>7, <1>8, <1>9, <1>11, <1>12, <1>13

LEMMA PopEndKeeps ==
  ASSUME IsFiniteSet(Threads), Null \notin Threads, ListInv, NEW t \in Threads,
         ListQueue!PopHead(t) \/ ListQueue!PopTail(t)
  PROVE  ListInv'
<1> USE DEF ListQueue!At, ListQueue!Go
<1>1. obj.items \in Seq(Nat) /\ th[t] \in {"popHead", "popTail"}
  BY DEF ListInv, ListTypes, ListQueue!PopHead, ListQueue!PopTail
<1>2. obj.items # <<>>
  BY <1>1 DEF ListInv, PopsItem, Among
<1>3. PICK n \in Nat : Len(obj.items) = n + 1
  <2>1. Len(obj.items) \in Nat \ {0}
    BY <1>1, <1>2
  <2>2. Len(obj.items) - 1 \in Nat /\ Len(obj.items) = (Len(obj.items) - 1) + 1
    BY <2>1
  <2> QED
    BY <2>2
<1>4. CASE ListQueue!PopHead(t)
  <2>1. PICK q, k : q = Tail(obj.items) /\ k = Head(obj.items)
    OBVIOUS
  <2>2. q \in Seq(Nat) /\ Len(q) = n /\ (\A i \in 1 .. n : q[i] = obj.items[i + 1]) /\ k = obj.items[1]
    BY <1>1, <1>2, <1>3, <2>1
  <2>3. Pops(t, q, k)
    <3>1. th[t] = "popHead" /\ th' = [th EXCEPT ![t] = "idle"]
          /\ obj' = [obj EXCEPT !.items = q, !.taken = @ \cup {k}, !.headMtx = Null]
      BY <1>4, <2>1 DEF ListQueue!PopHead
    <3>2. obj' = [obj EXCEPT !.items = q, !.taken = @ \cup {k}, !.headMtx = Null, !.tailMtx = obj.tailMtx]
      BY <3>1 DEF ListInv, ListTypes
    <3> QED
      BY <3>1, <3>2 DEF Pops
  <2> QED
    BY <1>1, <1>3, <2>2, <2>3, PopKeeps
<1>5. CASE ListQueue!PopTail(t)
  <2>1. PICK q, k : q = SubSeq(obj.items, 1, n) /\ k = obj.items[n + 1]
    OBVIOUS
  <2>2. q \in Seq(Nat) /\ Len(q) = n /\ \A i \in 1 .. n : q[i] = obj.items[i + 0]
    <3>1. 1 \in Nat /\ n <= Len(obj.items) /\ \A i \in 1 .. n : i + 0 = i
      BY <1>3
    <3>2. q \in Seq(Nat) /\ Len(q) = n /\ \A i \in 1 .. n : q[i] = obj.items[i]
      BY <1>1, <1>3, <2>1, <3>1
    <3> QED
      BY <3>1, <3>2
  <2>3. Pops(t, q, k)
    <3>1. (n + 1) - 1 = n
      OBVIOUS
    <3>2. th[t] = "popTail" /\ th' = [th EXCEPT ![t] = "idle"]
          /\ obj' = [obj EXCEPT !.items = q, !.taken = @ \cup {k}, !.headMtx = Null, !.tailMtx = Null]
      BY <1>3, <1>5, <2>1, <3>1 DEF ListQueue!PopTail
    <3> QED
      BY <3>2 DEF Pops
  <2> QED
    BY <1>1, <1>3, <2>1, <2>2, <2>3, PopKeeps
<1> QED
  BY <1>4, <1>5

LEMMA DestroyKeeps ==
  ASSUME IsFiniteSet(Threads), ListInv, ListQueue!Destroy
  PROVE  ListInv' /\ FreedIsEmpty'
<1> USE DEF ListInv
<1>1. PICK g \in {"no", "freed", "twice"} :
        /\ obj' = [obj EXCEPT !.gone = g]
        /\ g = "freed" => obj.items = <<>>
  BY DEF ListQueue!Destroy
<1>2. /\ UNCHANGED <<obj.items, obj.headMtx, obj.tailMtx, obj.waiting, obj.pushes, obj.taken, obj.missed>>
      /\ th' = th /\ obj'.gone = g
  BY <1>1 DEF ListQueue!Destroy, ListTypes
<1>3. ListTypes'
  BY <1>1, <1>2 DEF ListTypes
<1>4. \A pcs : Among(pcs)' = Among(pcs)
  BY <1>2 DEF Among
<1>5. ListMutexes' /\ PopsItem' /\ EachItemOnce' /\ ItemsAddUp' /\ ItemsAreFetched'
  BY <1>2, <1>4 DEF ListMutexes, PopsItem, EachItemOnce, ItemsAddUp, ItemsAreFetched
<1>6. Among({"append"}) = {}
  BY DEF ListQueue!Destroy, ListQueue!At, Among
<1> QED
  BY <1>1, <1>2, <1>3, <1>4, <1>5, <1>6 DEF FreedIsEmpty

\* Nothing else destroys the queue.
LEMMA OthersLeaveIt ==
  ASSUME ListInv, NEW t \in Threads,
         \/ ListQueue!LockTail(t) \/ ListQueue!Append1(t) \/ ListQueue!Notify(t)
         \/ ListQueue!LockHead(t) \/ ListQueue!Test(t) \/ ListQueue!Sleep(t)
         \/ ListQueue!PopHead(t) \/ ListQueue!PopTail(t)
  PROVE  obj'.gone = obj.gone
<1> USE DEF ListInv, ListTypes
<1>1. CASE ListQueue!LockTail(t) \/ ListQueue!Append1(t) \/ ListQueue!Notify(t)
  BY <1>1 DEF ListQueue!LockTail, ListQueue!Append1, ListQueue!Notify
<1>2. CASE ListQueue!LockHead(t) \/ ListQueue!Test(t) \/ ListQueue!Sleep(t)
  BY <1>2 DEF ListQueue!LockHead, ListQueue!Test, ListQueue!Sleep
<1>3. CASE ListQueue!PopHead(t) \/ ListQueue!PopTail(t)
  BY <1>3 DEF ListQueue!PopHead, ListQueue!PopTail
<1> QED
  BY <1>1, <1>2, <1>3

LEMMA NextListInv ==
  ASSUME IsFiniteSet(Threads), Null \notin Threads, ListInv, FreedIsEmpty, [ListQueue!Next]_(ListQueue!vars)
  PROVE  ListInv' /\ FreedIsEmpty'
<1>1. CASE UNCHANGED ListQueue!vars
  BY <1>1 DEF ListQueue!vars, ListInv, ListTypes, ListMutexes, PopsItem, EachItemOnce, ItemsAddUp, ItemsAreFetched, Among, FreedIsEmpty
<1>2. CASE ListQueue!Destroy
  BY <1>2, DestroyKeeps
<1>3. ASSUME obj.gone = "no", NEW t \in Threads,
             \/ ListQueue!LockTail(t) \/ ListQueue!Append1(t) \/ ListQueue!Notify(t)
             \/ ListQueue!LockHead(t) \/ ListQueue!Test(t) \/ ListQueue!Sleep(t)
             \/ ListQueue!PopHead(t) \/ ListQueue!PopTail(t)
      PROVE  ListInv' /\ FreedIsEmpty'
  <2>1. ListInv'
    BY <1>3, LockTailKeeps, AppendKeeps, ListNotifyKeeps, LockHeadKeeps, ListTestKeeps, ListSleepKeeps, PopEndKeeps
  <2> QED
    BY <1>3, <2>1, OthersLeaveIt DEF FreedIsEmpty
<1> QED
  BY <1>1, <1>2, <1>3 DEF ListQueue!Next

-----------------------------------------------------------------------------
(* ThreadSafeQueue: theorems *)

LEMMA ListQueueCounts == ASSUME NEW S PROVE ListQueue!Cardinality(S) = Cardinality(S)
BY DEF ListQueue!Cardinality, Cardinality

LEMMA ListQueueInvariant ==
  ASSUME IsFiniteSet(Threads), Null \notin Threads
  PROVE  ListQueue!Spec => [](ListInv /\ FreedIsEmpty)
<1>1. ListInv /\ FreedIsEmpty /\ [ListQueue!Next]_(ListQueue!vars) => ListInv' /\ FreedIsEmpty'
  BY NextListInv
<1>2. ListQueue!Init => ListInv /\ FreedIsEmpty
  BY InitListInv DEF ListQueue!Init, FreedIsEmpty
<1> QED
  BY <1>1, <1>2, PTL DEF ListQueue!Spec

\* A pop that has seen an item finds one; what was emplaced is in the list, or taken once; and
\* the destructor is defined only when all of it was taken (thread_safe_queue.h).
THEOREM ListQueuePopFinds ==
  ASSUME IsFiniteSet(Threads), Null \notin Threads
  PROVE  ListQueue!Spec => []ListQueue!PopFinds
<1>1. ListInv /\ FreedIsEmpty => ListQueue!PopFinds
  <2>1. {t \in Threads : ListQueue!At(t, {"append"})} = Among({"append"})
    BY DEF ListQueue!At, Among
  <2>2. \A t \in Threads : ListQueue!At(t, {"popHead", "popTail"}) => t \in Among({"popHead", "popTail"})
    BY DEF ListQueue!At, Among
  <2>3. ListInv /\ FreedIsEmpty /\ obj.gone = "freed" => Cardinality(obj.taken) = obj.pushes
    <3> SUFFICES ASSUME ListInv, Among({"append"}) = {}, obj.items = <<>>
                 PROVE  Cardinality(obj.taken) = obj.pushes
      BY DEF FreedIsEmpty
    <3>1. Cardinality(Among({"append"})) = 0 /\ Len(obj.items) = 0 /\ Cardinality(obj.taken) \in Nat
      BY FS_EmptySet, FS_CardinalityType DEF ListInv, ListTypes
    <3> QED
      BY <3>1 DEF ListInv, ItemsAddUp
  <2> QED
    BY <2>1, <2>2, <2>3, ListQueueCounts DEF ListInv, PopsItem, ItemsAddUp, ListQueue!PopFinds
<1> QED
  BY <1>1, ListQueueInvariant, PTL

\* Whoever sleeps on an item when nobody is at work was missed by a notification, which comes
\* under the mutex of the tail (thread_safe_queue.h, Emplace).
THEOREM ListQueueSleepsIfMissed ==
  ASSUME IsFiniteSet(Threads), Null \notin Threads
  PROVE  ListQueue!Spec => []ListQueue!SleepsOnItemOnlyIfMissed
<1>1. ListInv => ListQueue!SleepsOnItemOnlyIfMissed
  <2> SUFFICES ASSUME ListInv, obj.items # <<>>, obj.waiting # {}, obj.waiting \cap obj.missed = {},
                      \A t \in Threads : th[t] \in {"idle", "asleep"}
               PROVE  FALSE
    BY DEF ListQueue!SleepsOnItemOnlyIfMissed, ListQueue!At
  <2>1. Among({"sleep", "asleep"}) \ obj.missed # {}
    BY DEF ListInv, ListMutexes, Among
  <2>2. Among(AtWork) = {}
    BY DEF Among, AtWork
  <2>3. Cardinality(Among(AtWork)) = 0
    BY <2>2, FS_EmptySet
  <2>4. obj.items \in Seq(Nat)
    BY DEF ListInv, ListTypes
  <2>5. Len(obj.items) <= 0
    BY <2>1, <2>3 DEF ListInv, ItemsAreFetched
  <2> QED
    BY <2>4, <2>5
<1> QED
  BY <1>1, ListQueueInvariant, PTL
-----------------------------------------------------------------------------
(* CircularQueue: cells *)

LEMMA DivMod ==
  ASSUME NEW c \in Nat \ {0}, NEW a \in Nat
  PROVE  a \div c \in Nat /\ a % c \in 0 .. c - 1 /\ a = c * (a \div c) + (a % c)
OBVIOUS

LEMMA ModOf ==
  ASSUME NEW c \in Nat \ {0}, NEW r \in 0 .. c - 1, NEW q \in Nat
  PROVE  (c * q + r) % c = r
OBVIOUS

LEMMA TimesSum ==
  ASSUME NEW c \in Nat, NEW d \in Nat, NEW e \in Nat
  PROVE  c * (d + e) = c * d + c * e
OBVIOUS

LEMMA TimesPositive ==
  ASSUME NEW c \in Nat \ {0}, NEW d \in Nat \ {0}
  PROVE  c * d >= c
OBVIOUS

\* Indices less than a round apart have cells of their own.
LEMMA CellsApart ==
  ASSUME Size \in Nat, NEW a \in Nat, NEW b \in Nat, b < a, a <= b + Size
  PROVE  Ring!Cell(a) # Ring!Cell(b)
<1>1. PICK c \in Nat \ {0} : c = Size + 1
  OBVIOUS
<1>2. SUFFICES ASSUME a % c = b % c PROVE FALSE
  BY <1>1 DEF Ring!Cell, Ring!Capacity
<1>3. PICK p \in Nat, q \in Nat, r \in 0 .. c - 1 : a = c * p + r /\ b = c * q + r
  <2>1. a \div c \in Nat /\ b \div c \in Nat /\ a % c \in 0 .. c - 1
    BY DivMod
  <2>2. a = c * (a \div c) + (a % c) /\ b = c * (b \div c) + (a % c)
    BY <1>2, DivMod
  <2> QED
    BY <2>1, <2>2
<1>4. p > q
  <2> SUFFICES ASSUME q >= p PROVE FALSE
    BY <1>3
  <2>1. PICK d \in Nat : q = p + d
    <3>1. q - p \in Nat /\ q = p + (q - p)
      OBVIOUS
    <3> QED
      BY <3>1
  <2>2. c * q = c * p + c * d
    BY <2>1, TimesSum
  <2>3. c * d \in Nat /\ c * p \in Nat /\ c * q \in Nat
    OBVIOUS
  <2> QED
    BY <1>3, <2>2, <2>3
<1>5. PICK d \in Nat \ {0} : p = q + d
  <2>1. p - q \in Nat \ {0} /\ p = q + (p - q)
    BY <1>4
  <2> QED
    BY <2>1
<1>6. c * p = c * q + c * d /\ c * d >= c
  BY <1>5, TimesSum, TimesPositive
<1>7. c * d \in Nat /\ c * p \in Nat /\ c * q \in Nat
  OBVIOUS
<1> QED
  BY <1>1, <1>3, <1>6, <1>7

\* A round later it is the same cell again.
LEMMA CellOfNextRound ==
  ASSUME Size \in Nat, NEW a \in Nat
  PROVE  Ring!Cell(a + (Size + 1)) = Ring!Cell(a)
<1>1. PICK c \in Nat \ {0} : c = Size + 1
  OBVIOUS
<1>2. PICK q \in Nat, r \in 0 .. c - 1 : a = c * q + r
  BY DivMod
<1>3. a + c = c * (q + 1) + r
  <2>1. c * (q + 1) = c * q + c * 1 /\ c * 1 = c /\ c * q \in Nat
    BY TimesSum
  <2> QED
    BY <1>2, <2>1
<1>4. (c * (q + 1) + r) % c = r /\ (c * q + r) % c = r
  BY ModOf
<1> QED
  BY <1>1, <1>2, <1>3, <1>4 DEF Ring!Cell, Ring!Capacity

LEMMA CellIsPlace ==
  ASSUME Size \in Nat, NEW a \in Nat
  PROVE  Ring!Cell(a) \in 0 .. Size
<1>1. PICK c \in Nat \ {0} : c = Size + 1
  OBVIOUS
<1>2. a % c \in 0 .. c - 1
  BY DivMod
<1>3. c - 1 = Size
  BY <1>1
<1> QED
  BY <1>1, <1>2, <1>3 DEF Ring!Cell, Ring!Capacity

-----------------------------------------------------------------------------
(* CircularQueue: the inductive invariant *)

RingPlaces == {"idle", "tail", "full", "reserve", "write", "publish", "head", "empty", "unwritten", "copy", "take"}
RingThreads == [pc : RingPlaces, at : Nat, val : Nat]
RingTypes ==
  /\ obj \in [head : Nat, tail : Nat, update : Nat, data : [0 .. Size -> Nat], pushes : Nat, pops : Nat,
              in : Seq(Nat), out : Seq(Nat), lapped : BOOLEAN]
  /\ th \in [Threads -> RingThreads]

\* The indices, the elements between them and what was popped.
RingHolds ==
  /\ obj.head <= obj.update /\ obj.update <= obj.tail /\ obj.tail <= obj.head + Size
  /\ Len(obj.in) = obj.tail /\ Len(obj.out) = obj.head
  /\ \A i \in 1 .. obj.head : obj.out[i] = obj.in[i]
  /\ \A i \in Nat : obj.head <= i /\ i < obj.update => obj.data[Ring!Cell(i)] = obj.in[i + 1]

\* What a thread at r knows of its index: a producer that the ring has room while tail_ is
\* where it was, then that its cell is its own; a consumer that there is an element while
\* head_ is where it was, then that it has copied it.
Writes(r) == r.pc \in {"write", "publish"}
RingKnows(r) ==
  /\ r.pc \in {"full", "reserve"} => r.at <= obj.tail
  /\ r.pc = "reserve" /\ r.at = obj.tail => obj.tail < obj.head + Size
  /\ Writes(r) => obj.update <= r.at /\ r.at < obj.tail /\ r.val = obj.in[r.at + 1]
  /\ r.pc = "publish" => obj.data[Ring!Cell(r.at)] = r.val
  /\ r.pc \in {"empty", "unwritten", "copy", "take"} => r.at <= obj.head
  /\ r.pc \in {"copy", "take"} /\ r.at = obj.head => obj.head < obj.update
  /\ r.pc = "take" /\ r.at = obj.head => r.val = obj.in[r.at + 1]
WritersApart == \A t, u \in Threads : Writes(th[t]) /\ Writes(th[u]) /\ th[t].at = th[u].at => t = u

RingWhole == RingHolds /\ WritersApart /\ \A t \in Threads : RingKnows(th[t])
RingInv == RingTypes /\ (obj.lapped \/ RingWhole)

LEMMA InitRingInv ==
  ASSUME Size \in Nat, Ring!Init
  PROVE  RingInv
<1> USE DEF Ring!Init, Ring!Idle
<1>1. RingTypes
  BY EmptySeq DEF RingTypes, RingThreads, RingPlaces
<1>2. RingHolds
  <2>1. /\ obj.head = 0 /\ obj.update = 0 /\ obj.tail = 0
        /\ Len(obj.in) = 0 /\ Len(obj.out) = 0
    BY EmptySeq
  <2>2. \A i \in Nat : ~(0 <= i /\ i < 0) /\ i \notin 1 .. 0
    OBVIOUS
  <2> QED
    BY <2>1, <2>2 DEF RingHolds
<1>3. \A t \in Threads : th[t].pc = "idle"
  OBVIOUS
<1> QED
  BY <1>1, <1>2, <1>3 DEF RingInv, RingWhole, WritersApart, RingKnows, Writes

\* A thread that goes on by itself.
LEMMA RingThreadMoves ==
  ASSUME Size \in Nat, RingInv, NEW t \in Threads, NEW r \in RingThreads, th' = [th EXCEPT ![t] = r],
         UNCHANGED <<obj.head, obj.tail, obj.update, obj.data, obj.in, obj.out, obj.lapped>>,
         obj' \in [head : Nat, tail : Nat, update : Nat, data : [0 .. Size -> Nat], pushes : Nat, pops : Nat,
                   in : Seq(Nat), out : Seq(Nat), lapped : BOOLEAN],
         RingWhole => RingKnows(r) /\ ~Writes(r)
  PROVE  RingInv'
<1>1. th \in [Threads -> RingThreads]
  BY DEF RingInv, RingTypes
<1>2. \A u \in Threads : th'[u] = IF u = t THEN r ELSE th[u]
  BY <1>1
<1>3. RingTypes'
  BY <1>1 DEF RingTypes
<1>4. CASE RingWhole
  <2>1. \A s \in RingThreads : RingKnows(s)' <=> RingKnows(s)
    BY DEF RingKnows
  <2>2. \A u \in Threads : RingKnows(th[u])'
    BY <1>1, <1>2, <1>4, <2>1, SMTT(30) DEF RingWhole, RingKnows
  <2>3. WritersApart'
    BY <1>2, <1>4 DEF RingWhole, WritersApart, Writes
  <2>4. RingHolds'
    BY <1>4 DEF RingWhole, RingHolds
  <2> QED
    BY <1>3, <2>2, <2>3, <2>4 DEF RingInv, RingWhole
<1> QED
  BY <1>3, <1>4 DEF RingInv

LEMMA RingCalls ==
  ASSUME Size \in Nat, RingInv, NEW t \in Threads, Ring!Push(t) \/ Ring!Pop(t)
  PROVE  RingInv'
<1> USE DEF Ring!At
<1>1. obj.pushes \in Nat /\ obj.pops \in Nat /\ th[t] \in RingThreads /\ th \in [Threads -> RingThreads]
  BY DEF RingInv, RingTypes
<1>2. CASE Ring!Push(t)
  <2>1. PICK n \in Nat, r \in RingThreads : n = obj.pushes + 1 /\ r = [th[t] EXCEPT !.val = n, !.pc = "tail"]
    <3>1. PICK n \in Nat : n = obj.pushes + 1
      BY <1>1
    <3>2. [th[t] EXCEPT !.val = n, !.pc = "tail"] \in RingThreads
      BY <1>1 DEF RingThreads, RingPlaces
    <3> QED
      BY <3>1, <3>2
  <2>2. th' = [th EXCEPT ![t] = r] /\ obj' = [obj EXCEPT !.pushes = n] /\ r.pc = "tail"
    BY <1>1, <1>2, <2>1 DEF Ring!Push, RingThreads
  <2>3. /\ UNCHANGED <<obj.head, obj.tail, obj.update, obj.data, obj.in, obj.out, obj.lapped>>
        /\ obj' \in [head : Nat, tail : Nat, update : Nat, data : [0 .. Size -> Nat], pushes : Nat, pops : Nat,
                     in : Seq(Nat), out : Seq(Nat), lapped : BOOLEAN]
    BY <2>2 DEF RingInv, RingTypes
  <2>4. RingKnows(r) /\ ~Writes(r)
    BY <2>2 DEF RingKnows, Writes
  <2> QED
    BY <2>2, <2>3, <2>4, RingThreadMoves
<1>3. CASE Ring!Pop(t)
  <2>1. PICK n \in Nat, r \in RingThreads : n = obj.pops + 1 /\ r = [th[t] EXCEPT !.pc = "head"]
    <3>1. obj.pops + 1 \in Nat /\ [th[t] EXCEPT !.pc = "head"] \in RingThreads
      BY <1>1 DEF RingThreads, RingPlaces
    <3> QED
      BY <3>1
  <2>2. th' = [th EXCEPT ![t] = r] /\ obj' = [obj EXCEPT !.pops = n] /\ r.pc = "head"
    BY <1>1, <1>3, <2>1 DEF Ring!Pop, RingThreads
  <2>3. /\ UNCHANGED <<obj.head, obj.tail, obj.update, obj.data, obj.in, obj.out, obj.lapped>>
        /\ obj' \in [head : Nat, tail : Nat, update : Nat, data : [0 .. Size -> Nat], pushes : Nat, pops : Nat,
                     in : Seq(Nat), out : Seq(Nat), lapped : BOOLEAN]
    BY <2>2 DEF RingInv, RingTypes
  <2>4. RingKnows(r) /\ ~Writes(r)
    BY <2>2 DEF RingKnows, Writes
  <2> QED
    BY <2>2, <2>3, <2>4, RingThreadMoves
<1> QED
  BY <1>2, <1>3

\* The rest of what changes the thread only.
LEMMA RingReads ==
  ASSUME Size \in Nat, RingInv, NEW t \in Threads,
         Ring!LoadTail(t) \/ Ring!Full(t) \/ Ring!LoadHead(t) \/ Ring!Empty(t) \/ Ring!Copy(t)
  PROVE  RingInv'
<1> USE DEF Ring!At, Ring!Return, Ring!Idle, Ring!Read
<1>1. /\ th[t] \in RingThreads /\ th \in [Threads -> RingThreads]
      /\ obj.head \in Nat /\ obj.tail \in Nat /\ obj.update \in Nat /\ obj.data \in [0 .. Size -> Nat]
  BY DEF RingInv, RingTypes
<1>2. UNCHANGED obj
  BY DEF Ring!LoadTail, Ring!Full, Ring!LoadHead, Ring!Empty, Ring!Copy
<1>3. SUFFICES \E r \in RingThreads : th' = [th EXCEPT ![t] = r] /\ (RingWhole => RingKnows(r) /\ ~Writes(r))
  <2>1. ASSUME NEW r \in RingThreads, th' = [th EXCEPT ![t] = r], RingWhole => RingKnows(r) /\ ~Writes(r)
        PROVE  RingInv'
    <3>1. /\ UNCHANGED <<obj.head, obj.tail, obj.update, obj.data, obj.in, obj.out, obj.lapped>>
          /\ obj' \in [head : Nat, tail : Nat, update : Nat, data : [0 .. Size -> Nat], pushes : Nat, pops : Nat,
                       in : Seq(Nat), out : Seq(Nat), lapped : BOOLEAN]
      BY <1>2 DEF RingInv, RingTypes
    <3> QED
      BY <2>1, <3>1, RingThreadMoves
  <2> QED
    BY <2>1
<1>4. RingWhole => RingKnows(th[t])
  BY DEF RingWhole
<1>5. CASE th' = [th EXCEPT ![t] = Ring!Idle]
  <2>1. Ring!Idle \in RingThreads /\ Ring!Idle.pc = "idle"
    BY DEF RingThreads, RingPlaces
  <2>2. RingKnows(Ring!Idle) /\ ~Writes(Ring!Idle)
    BY <2>1 DEF RingKnows, Writes
  <2> QED
    BY <1>5, <2>1, <2>2
<1>6. CASE Ring!LoadTail(t) \/ Ring!LoadHead(t)
  <2>1. PICK n \in Nat, pc \in {"full", "empty"} :
          /\ th' = [th EXCEPT ![t].at = n, ![t].pc = pc]
          /\ (pc = "full" /\ n = obj.tail) \/ (pc = "empty" /\ n = obj.head)
    <3>1. CASE Ring!LoadTail(t)
      <4>1. th' = [th EXCEPT ![t].at = obj.tail, ![t].pc = "full"]
        BY <3>1 DEF Ring!LoadTail
      <4> QED
        BY <1>1, <4>1
    <3>2. CASE Ring!LoadHead(t)
      <4>1. th' = [th EXCEPT ![t].at = obj.head, ![t].pc = "empty"]
        BY <3>2 DEF Ring!LoadHead
      <4> QED
        BY <1>1, <4>1
    <3> QED
      BY <1>6, <3>1, <3>2
  <2>2. PICK r : r = [th[t] EXCEPT !.at = n, !.pc = pc]
    OBVIOUS
  <2>3. r \in RingThreads /\ th' = [th EXCEPT ![t] = r] /\ r.pc = pc /\ r.at = n
    BY <1>1, <2>1, <2>2 DEF RingThreads, RingPlaces
  <2>4. RingKnows(r) /\ ~Writes(r)
    BY <1>1, <2>1, <2>3 DEF RingKnows, Writes
  <2> QED
    BY <2>3, <2>4
<1>7. ASSUME NEW pc \in {"reserve", "unwritten", "copy"}, th' = [th EXCEPT ![t].pc = pc],
             \/ pc = "reserve" /\ th[t].pc = "full" /\ Ring!Cell(th[t].at + 1) # Ring!Cell(obj.head)
             \/ pc = "unwritten" /\ th[t].pc = "empty"
             \/ pc = "copy" /\ th[t].pc = "unwritten" /\ Ring!Cell(th[t].at) # Ring!Cell(obj.update)
      PROVE  \E r \in RingThreads : th' = [th EXCEPT ![t] = r] /\ (RingWhole => RingKnows(r) /\ ~Writes(r))
  <2>1. PICK r : r = [th[t] EXCEPT !.pc = pc]
    OBVIOUS
  <2>2. r \in RingThreads /\ th' = [th EXCEPT ![t] = r] /\ r.pc = pc /\ r.at = th[t].at /\ r.at \in Nat
    BY <1>1, <1>7, <2>1 DEF RingThreads, RingPlaces
  <2>3. ASSUME RingWhole PROVE RingKnows(r) /\ ~Writes(r)
    <3>1. CASE pc = "reserve"
      <4>1. r.at <= obj.tail /\ Ring!Cell(r.at + 1) # Ring!Cell(obj.head)
        BY <1>4, <1>7, <2>2, <2>3, <3>1 DEF RingKnows
      <4>2. ASSUME r.at = obj.tail PROVE obj.tail < obj.head + Size
        <5>1. obj.tail <= obj.head + Size
          BY <2>3 DEF RingWhole, RingHolds
        <5>2. CASE obj.tail = obj.head + Size
          <6>1. r.at + 1 = obj.head + (Size + 1)
            BY <1>1, <4>2, <5>2, SMTT(30)
          <6> QED
            BY <1>1, <4>1, <6>1, CellOfNextRound
        <5> QED
          BY <1>1, <5>1, <5>2
      <4> QED
        BY <2>2, <3>1, <4>1, <4>2 DEF RingKnows, Writes
    <3>2. CASE pc = "unwritten"
      BY <1>4, <1>7, <2>2, <2>3, <3>2 DEF RingKnows, Writes
    <3>3. CASE pc = "copy"
      <4>1. r.at <= obj.head /\ Ring!Cell(r.at) # Ring!Cell(obj.update)
        BY <1>4, <1>7, <2>2, <2>3, <3>3 DEF RingKnows
      <4>2. r.at = obj.head => obj.head < obj.update
        BY <1>1, <2>3, <4>1 DEF RingWhole, RingHolds
      <4> QED
        BY <2>2, <3>3, <4>1, <4>2 DEF RingKnows, Writes
    <3> QED
      BY <3>1, <3>2, <3>3
  <2> QED
    BY <2>2, <2>3
<1>8. CASE Ring!Full(t)
  BY <1>5, <1>7, <1>8 DEF Ring!Full
<1>9. CASE Ring!Empty(t)
  <2>1. CASE th[t].pc = "empty"
    <3>1. th' = [th EXCEPT ![t] = Ring!Idle] \/ th' = [th EXCEPT ![t].pc = "unwritten"]
      BY <1>1, <1>9, <2>1 DEF Ring!Empty
    <3> QED
      BY <1>5, <1>7, <2>1, <3>1
  <2>2. CASE th[t].pc = "unwritten"
    <3>1. \/ th' = [th EXCEPT ![t] = Ring!Idle]
          \/ th' = [th EXCEPT ![t].pc = "copy"] /\ Ring!Cell(th[t].at) # Ring!Cell(obj.update)
      BY <1>1, <1>9, <2>2 DEF Ring!Empty
    <3> QED
      BY <1>5, <1>7, <2>2, <3>1
  <2> QED
    BY <1>9, <2>1, <2>2 DEF Ring!Empty
<1>10. CASE Ring!Copy(t)
  <2>1. PICK v, r : v = obj.data[Ring!Cell(th[t].at)] /\ r = [th[t] EXCEPT !.val = v, !.pc = "take"]
    OBVIOUS
  <2>2. th[t].at \in Nat /\ th[t].pc = "copy"
    BY <1>1, <1>10 DEF Ring!Copy, RingThreads
  <2>3. v \in Nat
    BY <1>1, <2>1, <2>2, CellIsPlace
  <2>4. r \in RingThreads /\ th' = [th EXCEPT ![t] = r] /\ r.pc = "take" /\ r.at = th[t].at /\ r.val = v
    BY <1>1, <1>10, <2>1, <2>3 DEF RingThreads, RingPlaces, Ring!Copy
  <2>5. ASSUME RingWhole PROVE RingKnows(r) /\ ~Writes(r)
    <3>1. r.at <= obj.head /\ (r.at = obj.head => obj.head < obj.update)
      BY <1>4, <2>2, <2>4, <2>5 DEF RingKnows
    <3>2. ASSUME r.at = obj.head PROVE r.val = obj.in[r.at + 1]
      BY <1>1, <2>1, <2>4, <2>5, <3>1, <3>2 DEF RingWhole, RingHolds
    <3> QED
      BY <2>4, <3>1, <3>2 DEF RingKnows, Writes
  <2> QED
    BY <2>4, <2>5
<1> QED
  BY <1>6, <1>8, <1>9, <1>10

\* A swap that failed: the thread begins again.
LEMMA SwapFails ==
  ASSUME Size \in Nat, RingInv, NEW t \in Threads, NEW pc \in {"tail", "head"}, Ring!Read(t, th[t].at, pc)
  PROVE  RingInv'
<1>1. th[t] \in RingThreads /\ th \in [Threads -> RingThreads]
  BY DEF RingInv, RingTypes
<1>2. PICK r : r = [th[t] EXCEPT !.pc = pc]
  OBVIOUS
<1>3. r \in RingThreads /\ r.pc = pc /\ th' = [th EXCEPT ![t] = r] /\ UNCHANGED obj
  BY <1>1, <1>2 DEF RingThreads, RingPlaces, Ring!Read
<1>4. /\ UNCHANGED <<obj.head, obj.tail, obj.update, obj.data, obj.in, obj.out, obj.lapped>>
      /\ obj' \in [head : Nat, tail : Nat, update : Nat, data : [0 .. Size -> Nat], pushes : Nat, pops : Nat,
                   in : Seq(Nat), out : Seq(Nat), lapped : BOOLEAN]
  BY <1>3 DEF RingInv, RingTypes
<1>5. RingKnows(r) /\ ~Writes(r)
  BY <1>3 DEF RingKnows, Writes
<1> QED
  BY <1>3, <1>4, <1>5, RingThreadMoves

LEMMA ReserveKeeps ==
  ASSUME Size \in Nat, RingInv, NEW t \in Threads, Ring!Reserve(t)
  PROVE  RingInv'
<1>1. /\ th[t] \in RingThreads /\ th \in [Threads -> RingThreads] /\ th[t].at \in Nat /\ th[t].val \in Nat
      /\ obj.head \in Nat /\ obj.tail \in Nat /\ obj.update \in Nat /\ obj.in \in Seq(Nat) /\ obj.lapped \in BOOLEAN
  BY DEF RingInv, RingTypes, RingThreads
<1>2. th[t].pc = "reserve"
  BY DEF Ring!Reserve, Ring!At
<1>3. CASE Ring!Read(t, th[t].at, "tail")
  BY <1>3, SwapFails
<1>4. ASSUME obj' = [Ring!Swap(t, "tail") EXCEPT !.in = Append(@, th[t].val)], th' = [th EXCEPT ![t].pc = "write"]
      PROVE  RingInv'
  <2>1. PICK n \in Nat, q \in Seq(Nat), l \in BOOLEAN :
          n = obj.tail + 1 /\ q = Append(obj.in, th[t].val) /\ l = (obj.lapped \/ obj.tail # th[t].at)
    <3>1. obj.tail + 1 \in Nat /\ Append(obj.in, th[t].val) \in Seq(Nat)
      BY <1>1
    <3>2. (obj.lapped \/ obj.tail # th[t].at) \in BOOLEAN
      OBVIOUS
    <3> QED
      BY <3>1, <3>2
  <2>2. PICK r : r = [th[t] EXCEPT !.pc = "write"]
    OBVIOUS
  <2>3. /\ r \in RingThreads /\ r.pc = "write" /\ r.at = th[t].at /\ r.val = th[t].val
        /\ th' = [th EXCEPT ![t] = r]
    BY <1>1, <1>4, <2>2 DEF RingThreads, RingPlaces
  <2>4. obj' = [obj EXCEPT !.tail = n, !.lapped = l, !.in = q]
    BY <1>4, <2>1 DEF Ring!Swap, RingInv, RingTypes
  <2>5. RingTypes'
    BY <1>1, <2>3, <2>4 DEF RingInv, RingTypes
  <2>6. /\ UNCHANGED <<obj.head, obj.update, obj.data, obj.out>>
        /\ obj'.tail = n /\ obj'.in = q /\ obj'.lapped = l
    BY <2>4 DEF RingInv, RingTypes
  <2>7. ASSUME ~l PROVE RingWhole'
    <3>1. RingWhole /\ th[t].at = obj.tail
      BY <2>1, <2>7 DEF RingInv
    <3>2. obj.tail < obj.head + Size /\ obj.head <= obj.update /\ obj.update <= obj.tail
      BY <1>2, <3>1 DEF RingWhole, RingKnows, RingHolds
    <3>3. Len(obj.in) = obj.tail
      BY <3>1 DEF RingWhole, RingHolds
    <3>4. Len(q) = n /\ q[n] = th[t].val /\ \A i \in 1 .. obj.tail : q[i] = obj.in[i]
      BY <1>1, <2>1, <3>3
    <3>5. \A i \in Nat : i < obj.tail => i + 1 \in 1 .. obj.tail /\ q[i + 1] = obj.in[i + 1]
      BY <1>1, <3>4
    <3>6. RingHolds'
      <4>1. obj.head <= obj.update /\ obj.update <= n /\ n <= obj.head + Size
        BY <1>1, <2>1, <3>2
      <4>2. \A i \in 1 .. obj.head : obj.out[i] = q[i]
        <5>1. \A i \in 1 .. obj.head : i \in 1 .. obj.tail
          BY <1>1, <3>2
        <5> QED
          BY <3>1, <3>4, <5>1 DEF RingWhole, RingHolds
      <4>3. \A i \in Nat : obj.head <= i /\ i < obj.update => obj.data[Ring!Cell(i)] = q[i + 1]
        <5>1. \A i \in Nat : i < obj.update => i < obj.tail
          BY <1>1, <3>2
        <5> QED
          BY <3>1, <3>5, <5>1 DEF RingWhole, RingHolds
      <4> QED
        BY <2>6, <3>1, <3>4, <4>1, <4>2, <4>3 DEF RingWhole, RingHolds
    <3>7. ASSUME NEW s \in RingThreads, RingKnows(s) PROVE RingKnows(s)'
      <4>1. s.at \in Nat
        BY DEF RingThreads
      <4>2. s.at <= obj.tail => s.at <= n /\ s.at # n
        BY <1>1, <2>1, <4>1
      <4>3. s.at < obj.tail => s.at < n /\ q[s.at + 1] = obj.in[s.at + 1]
        <5>1. s.at < obj.tail => s.at < n
          BY <1>1, <2>1, <4>1
        <5> QED
          BY <3>5, <4>1, <5>1
      <4>4. s.at = obj.head /\ obj.head < obj.update => s.at < obj.tail
        BY <1>1, <3>2
      <4> QED
        BY <2>6, <3>7, <4>2, <4>3, <4>4 DEF RingKnows
    <3>8. RingKnows(r)'
      <4>1. obj.update <= r.at /\ r.at < n /\ r.val = q[r.at + 1]
        BY <1>1, <2>1, <2>3, <3>1, <3>2, <3>4
      <4> QED
        BY <2>3, <2>6, <4>1 DEF RingKnows
    <3>9. \A u \in Threads : th'[u] = IF u = t THEN r ELSE th[u]
      BY <1>1, <2>3
    <3>10. \A u \in Threads : RingKnows(th[u])'
      <4> SUFFICES ASSUME NEW u \in Threads PROVE RingKnows(th[u])'
        OBVIOUS
      <4>1. CASE u = t
        BY <3>8, <3>9, <4>1 DEF RingKnows, Writes
      <4>2. CASE u # t
        <5>1. th[u] \in RingThreads /\ RingKnows(th[u]) /\ th'[u] = th[u]
          BY <1>1, <3>1, <3>9, <4>2 DEF RingWhole
        <5> QED
          BY <3>7, <5>1 DEF RingKnows, Writes
      <4> QED
        BY <4>1, <4>2
    <3>11. WritersApart'
      <4>1. \A u \in Threads : Writes(th[u]) => th[u].at # obj.tail
        <5> SUFFICES ASSUME NEW u \in Threads, Writes(th[u]) PROVE th[u].at # obj.tail
          OBVIOUS
        <5>1. th[u].at < obj.tail /\ th[u].at \in Nat
          BY <1>1, <3>1 DEF RingWhole, RingKnows, RingThreads
        <5> QED
          BY <1>1, <5>1
      <4> QED
        BY <2>3, <3>1, <3>9, <4>1 DEF RingWhole, WritersApart, Writes
    <3> QED
      BY <3>6, <3>10, <3>11 DEF RingWhole
  <2> QED
    BY <2>5, <2>6, <2>7 DEF RingInv
<1> QED
  BY <1>3, <1>4 DEF Ring!Reserve

LEMMA WriteKeeps ==
  ASSUME Size \in Nat, RingInv, NEW t \in Threads, Ring!Write(t)
  PROVE  RingInv'
<1>1. /\ th[t] \in RingThreads /\ th \in [Threads -> RingThreads] /\ th[t].at \in Nat /\ th[t].val \in Nat
      /\ obj.head \in Nat /\ obj.tail \in Nat /\ obj.update \in Nat /\ obj.data \in [0 .. Size -> Nat]
  BY DEF RingInv, RingTypes, RingThreads
<1>2. th[t].pc = "write"
  BY DEF Ring!Write, Ring!At
<1>3. PICK c, d : c = Ring!Cell(th[t].at) /\ d = [obj.data EXCEPT ![c] = th[t].val]
  OBVIOUS
<1>4. c \in 0 .. Size
  BY <1>1, <1>3, CellIsPlace
<1>5. d \in [0 .. Size -> Nat] /\ d[c] = th[t].val /\ \A b \in 0 .. Size : b # c => d[b] = obj.data[b]
  BY <1>1, <1>3, <1>4
<1>6. PICK r : r = [th[t] EXCEPT !.pc = "publish"]
  OBVIOUS
<1>7. /\ r \in RingThreads /\ r.pc = "publish" /\ r.at = th[t].at /\ r.val = th[t].val
      /\ th' = [th EXCEPT ![t] = r] /\ obj' = [obj EXCEPT !.data = d]
  BY <1>1, <1>3, <1>6 DEF RingThreads, RingPlaces, Ring!Write
<1>8. RingTypes'
  BY <1>1, <1>5, <1>7 DEF RingInv, RingTypes
<1>9. UNCHANGED <<obj.head, obj.tail, obj.update, obj.in, obj.out, obj.lapped>> /\ obj'.data = d
  BY <1>7 DEF RingInv, RingTypes
<1>10. ASSUME RingWhole PROVE RingWhole'
  <2>1. obj.update <= th[t].at /\ th[t].at < obj.tail /\ th[t].val = obj.in[th[t].at + 1]
    BY <1>2, <1>10 DEF RingWhole, RingKnows, Writes
  <2>2. obj.head <= obj.update /\ obj.tail <= obj.head + Size
    BY <1>10 DEF RingWhole, RingHolds
  <2>3. ASSUME NEW i \in Nat, obj.head <= i, i < obj.tail, i # th[t].at
        PROVE  Ring!Cell(i) # c /\ Ring!Cell(i) \in 0 .. Size
    <3>1. CASE i < th[t].at
      <4>1. th[t].at <= i + Size
        BY <1>1, <2>1, <2>2, <2>3
      <4> QED
        BY <1>1, <1>3, <3>1, <4>1, CellsApart, CellIsPlace
    <3>2. CASE th[t].at < i
      <4>1. i <= th[t].at + Size
        BY <1>1, <2>1, <2>2, <2>3
      <4> QED
        BY <1>1, <1>3, <3>2, <4>1, CellsApart, CellIsPlace
    <3> QED
      BY <1>1, <2>3, <3>1, <3>2
  <2>4. RingHolds'
    <3>1. \A i \in Nat : obj.head <= i /\ i < obj.update => d[Ring!Cell(i)] = obj.in[i + 1]
      <4> SUFFICES ASSUME NEW i \in Nat, obj.head <= i, i < obj.update PROVE d[Ring!Cell(i)] = obj.in[i + 1]
        OBVIOUS
      <4>1. i < obj.tail /\ i # th[t].at
        BY <1>1, <2>1
      <4>2. Ring!Cell(i) # c /\ Ring!Cell(i) \in 0 .. Size
        BY <2>3, <4>1
      <4>3. obj.data[Ring!Cell(i)] = obj.in[i + 1]
        BY <1>10 DEF RingWhole, RingHolds
      <4> QED
        BY <1>5, <4>2, <4>3
    <3> QED
      BY <1>9, <1>10, <3>1 DEF RingWhole, RingHolds
  <2>5. \A u \in Threads : th'[u] = IF u = t THEN r ELSE th[u]
    BY <1>1, <1>7
  <2>6. \A u \in Threads : RingKnows(th[u])'
    <3> SUFFICES ASSUME NEW u \in Threads PROVE RingKnows(th[u])'
      OBVIOUS
    <3>1. CASE u = t
      <4>1. d[Ring!Cell(r.at)] = r.val
        BY <1>3, <1>5, <1>7
      <4> QED
        BY <1>7, <1>9, <2>1, <2>5, <3>1, <4>1 DEF RingKnows, Writes
    <3>2. CASE u # t
      <4>1. th[u] \in RingThreads /\ RingKnows(th[u]) /\ th'[u] = th[u] /\ th[u].at \in Nat
        BY <1>1, <1>10, <2>5, <3>2 DEF RingWhole, RingThreads
      <4>2. th[u].pc = "publish" => d[Ring!Cell(th[u].at)] = th[u].val
        <5> SUFFICES ASSUME th[u].pc = "publish" PROVE d[Ring!Cell(th[u].at)] = th[u].val
          OBVIOUS
        <5>1. obj.update <= th[u].at /\ th[u].at < obj.tail /\ obj.data[Ring!Cell(th[u].at)] = th[u].val
          BY <4>1 DEF RingKnows, Writes
        <5>2. th[u].at # th[t].at
          BY <1>2, <1>10, <3>2 DEF RingWhole, WritersApart, Writes
        <5>3. obj.head <= th[u].at
          BY <1>1, <2>2, <4>1, <5>1
        <5>4. Ring!Cell(th[u].at) # c /\ Ring!Cell(th[u].at) \in 0 .. Size
          BY <2>3, <4>1, <5>1, <5>2, <5>3
        <5> QED
          BY <1>5, <5>1, <5>4
      <4> QED
        BY <1>9, <4>1, <4>2 DEF RingKnows, Writes
    <3> QED
      BY <3>1, <3>2
  <2>7. WritersApart'
    BY <1>2, <1>7, <1>10, <2>5 DEF RingWhole, WritersApart, Writes
  <2> QED
    BY <2>4, <2>6, <2>7 DEF RingWhole
<1> QED
  BY <1>8, <1>9, <1>10 DEF RingInv

LEMMA PublishKeeps ==
  ASSUME Size \in Nat, RingInv, NEW t \in Threads, Ring!Publish(t)
  PROVE  RingInv'
<1>1. /\ th[t] \in RingThreads /\ th \in [Threads -> RingThreads] /\ th[t].at \in Nat /\ th[t].val \in Nat
      /\ obj.head \in Nat /\ obj.tail \in Nat /\ obj.update \in Nat /\ obj.lapped \in BOOLEAN
  BY DEF RingInv, RingTypes, RingThreads
<1>2. th[t].pc = "publish"
  BY DEF Ring!Publish, Ring!At
<1>3. PICK n \in Nat, l \in BOOLEAN : n = obj.update + 1 /\ l = (obj.lapped \/ obj.update # th[t].at)
  <2>1. obj.update + 1 \in Nat
    BY <1>1
  <2>2. (obj.lapped \/ obj.update # th[t].at) \in BOOLEAN
    OBVIOUS
  <2> QED
    BY <2>1, <2>2
<1>4. PICK r : r = Ring!Idle
  OBVIOUS
<1>5. r \in RingThreads /\ r.pc = "idle" /\ th' = [th EXCEPT ![t] = r]
  BY <1>1, <1>4 DEF RingThreads, RingPlaces, Ring!Publish, Ring!Return, Ring!Idle
<1>6. obj' = [obj EXCEPT !.update = n, !.lapped = l]
  BY <1>3 DEF Ring!Publish, Ring!Swap, RingInv, RingTypes
<1>7. RingTypes'
  BY <1>1, <1>5, <1>6 DEF RingInv, RingTypes
<1>8. /\ UNCHANGED <<obj.head, obj.tail, obj.data, obj.in, obj.out>>
      /\ obj'.update = n /\ obj'.lapped = l
  BY <1>6 DEF RingInv, RingTypes
<1>9. ASSUME ~l PROVE RingWhole'
  <2>1. RingWhole /\ th[t].at = obj.update
    BY <1>3, <1>9 DEF RingInv
  <2>2. /\ obj.update < obj.tail /\ th[t].val = obj.in[obj.update + 1]
        /\ obj.data[Ring!Cell(obj.update)] = th[t].val
    BY <1>2, <2>1 DEF RingWhole, RingKnows, Writes
  <2>3. RingHolds'
    <3>1. obj.head <= n /\ n <= obj.tail
      BY <1>1, <1>3, <2>1, <2>2 DEF RingWhole, RingHolds
    <3>2. \A i \in Nat : i < n => i < obj.update \/ i = obj.update
      BY <1>1, <1>3
    <3>3. \A i \in Nat : obj.head <= i /\ i < n => obj.data[Ring!Cell(i)] = obj.in[i + 1]
      BY <2>1, <2>2, <3>2 DEF RingWhole, RingHolds
    <3> QED
      BY <1>8, <2>1, <3>1, <3>3 DEF RingWhole, RingHolds
  <2>4. \A u \in Threads : th'[u] = IF u = t THEN r ELSE th[u]
    BY <1>1, <1>5
  <2>5. \A u \in Threads : RingKnows(th[u])'
    <3> SUFFICES ASSUME NEW u \in Threads PROVE RingKnows(th[u])'
      OBVIOUS
    <3>1. CASE u = t
      BY <1>5, <2>4, <3>1 DEF RingKnows, Writes
    <3>2. CASE u # t
      <4>1. th[u] \in RingThreads /\ RingKnows(th[u]) /\ th'[u] = th[u] /\ th[u].at \in Nat
        BY <1>1, <2>1, <2>4, <3>2 DEF RingWhole, RingThreads
      <4>2. Writes(th[u]) => n <= th[u].at
        <5> SUFFICES ASSUME Writes(th[u]) PROVE n <= th[u].at
          OBVIOUS
        <5>1. obj.update <= th[u].at
          BY <4>1 DEF RingKnows
        <5>2. th[u].at # obj.update
          BY <1>2, <2>1, <3>2 DEF RingWhole, WritersApart, Writes
        <5> QED
          BY <1>1, <1>3, <4>1, <5>1, <5>2
      <4>3. obj.head < obj.update => obj.head < n
        BY <1>1, <1>3
      <4> QED
        BY <1>8, <4>1, <4>2, <4>3 DEF RingKnows, Writes
    <3> QED
      BY <3>1, <3>2
  <2>6. WritersApart'
    BY <1>5, <2>1, <2>4 DEF RingWhole, WritersApart, Writes
  <2> QED
    BY <2>3, <2>5, <2>6 DEF RingWhole
<1> QED
  BY <1>7, <1>8, <1>9 DEF RingInv

LEMMA RingTakeKeeps ==
  ASSUME Size \in Nat, RingInv, NEW t \in Threads, Ring!Take(t)
  PROVE  RingInv'
<1>1. /\ th[t] \in RingThreads /\ th \in [Threads -> RingThreads] /\ th[t].at \in Nat /\ th[t].val \in Nat
      /\ obj.head \in Nat /\ obj.tail \in Nat /\ obj.update \in Nat /\ obj.out \in Seq(Nat) /\ obj.lapped \in BOOLEAN
  BY DEF RingInv, RingTypes, RingThreads
<1>2. th[t].pc = "take"
  BY DEF Ring!Take, Ring!At
<1>3. CASE Ring!Read(t, th[t].at, "head")
  BY <1>3, SwapFails
<1>4. ASSUME obj' = [Ring!Swap(t, "head") EXCEPT !.out = Append(@, th[t].val)], Ring!Return(t)
      PROVE  RingInv'
  <2>1. PICK n \in Nat, q \in Seq(Nat), l \in BOOLEAN :
          n = obj.head + 1 /\ q = Append(obj.out, th[t].val) /\ l = (obj.lapped \/ obj.head # th[t].at)
    <3>1. obj.head + 1 \in Nat /\ Append(obj.out, th[t].val) \in Seq(Nat)
      BY <1>1
    <3>2. (obj.lapped \/ obj.head # th[t].at) \in BOOLEAN
      OBVIOUS
    <3> QED
      BY <3>1, <3>2
  <2>2. PICK r : r = Ring!Idle
    OBVIOUS
  <2>3. r \in RingThreads /\ r.pc = "idle" /\ th' = [th EXCEPT ![t] = r]
    BY <1>1, <1>4, <2>2 DEF RingThreads, RingPlaces, Ring!Return, Ring!Idle
  <2>4. obj' = [obj EXCEPT !.head = n, !.lapped = l, !.out = q]
    BY <1>4, <2>1 DEF Ring!Swap, RingInv, RingTypes
  <2>5. RingTypes'
    BY <1>1, <2>3, <2>4 DEF RingInv, RingTypes
  <2>6. /\ UNCHANGED <<obj.tail, obj.update, obj.data, obj.in>>
        /\ obj'.head = n /\ obj'.out = q /\ obj'.lapped = l
    BY <2>4 DEF RingInv, RingTypes
  <2>7. ASSUME ~l PROVE RingWhole'
    <3>1. RingWhole /\ th[t].at = obj.head
      BY <2>1, <2>7 DEF RingInv
    <3>2. obj.head < obj.update /\ th[t].val = obj.in[n]
      BY <1>2, <2>1, <3>1 DEF RingWhole, RingKnows
    <3>3. RingHolds'
      <4>1. n <= obj.update /\ obj.tail <= n + Size
        BY <1>1, <2>1, <3>1, <3>2 DEF RingWhole, RingHolds
      <4>2. Len(q) = n /\ \A i \in 1 .. n : q[i] = obj.in[i]
        <5>1. Len(obj.out) = obj.head /\ \A i \in 1 .. obj.head : obj.out[i] = obj.in[i]
          BY <3>1 DEF RingWhole, RingHolds
        <5>2. Len(q) = n /\ q[n] = th[t].val /\ \A i \in 1 .. obj.head : q[i] = obj.out[i]
          BY <1>1, <2>1, <5>1
        <5>3. \A i \in 1 .. n : i \in 1 .. obj.head \/ i = n
          BY <1>1, <2>1
        <5> QED
          BY <3>2, <5>1, <5>2, <5>3
      <4>3. \A i \in Nat : n <= i => obj.head <= i
        BY <1>1, <2>1
      <4> QED
        BY <2>6, <3>1, <4>1, <4>2, <4>3 DEF RingWhole, RingHolds
    <3>4. \A u \in Threads : th'[u] = IF u = t THEN r ELSE th[u]
      BY <1>1, <2>3
    <3>5. \A u \in Threads : RingKnows(th[u])'
      <4> SUFFICES ASSUME NEW u \in Threads PROVE RingKnows(th[u])'
        OBVIOUS
      <4>1. CASE u = t
        BY <2>3, <3>4, <4>1 DEF RingKnows, Writes
      <4>2. CASE u # t
        <5>1. th[u] \in RingThreads /\ RingKnows(th[u]) /\ th'[u] = th[u] /\ th[u].at \in Nat
          BY <1>1, <3>1, <3>4, <4>2 DEF RingWhole, RingThreads
        <5>2. th[u].at <= obj.head => th[u].at <= n /\ th[u].at # n
          BY <1>1, <2>1, <5>1
        <5>3. obj.tail < obj.head + Size => obj.tail < n + Size
          BY <1>1, <2>1
        <5> QED
          BY <2>6, <5>1, <5>2, <5>3 DEF RingKnows, Writes
      <4> QED
        BY <4>1, <4>2
    <3>6. WritersApart'
      BY <2>3, <3>1, <3>4 DEF RingWhole, WritersApart, Writes
    <3> QED
      BY <3>3, <3>5, <3>6 DEF RingWhole
  <2> QED
    BY <2>5, <2>6, <2>7 DEF RingInv
<1> QED
  BY <1>3, <1>4 DEF Ring!Take

LEMMA NextRingInv ==
  ASSUME Size \in Nat, RingInv, [Ring!Next]_(Ring!vars)
  PROVE  RingInv'
<1>1. CASE UNCHANGED Ring!vars
  BY <1>1 DEF Ring!vars, RingInv, RingTypes, RingWhole, RingHolds, RingKnows, WritersApart, Writes
<1> QED
  BY <1>1, RingCalls, RingReads, ReserveKeeps, WriteKeeps, PublishKeeps, RingTakeKeeps DEF Ring!Next

-----------------------------------------------------------------------------
(* CircularQueue: theorem *)

\* The ring is a bounded queue, until a swap takes an index that has gone round for the one
\* that was read (circular_queue_light.h, circular_queue_sync.h).
THEOREM RingIsQueueUnlessLapped ==
  ASSUME Size \in Nat
  PROVE  Ring!Spec => []Ring!QueueUnlessLapped
<1>1. RingInv => Ring!QueueUnlessLapped
  <2> SUFFICES ASSUME RingTypes, RingHolds
               PROVE  /\ obj.head <= obj.update /\ obj.update <= obj.tail
                      /\ obj.tail - obj.head <= Size
                      /\ obj.out = SubSeq(obj.in, 1, obj.head)
    BY DEF RingInv, RingWhole, Ring!QueueUnlessLapped
  <2>1. /\ obj.head \in Nat /\ obj.tail \in Nat /\ obj.update \in Nat
        /\ obj.in \in Seq(Nat) /\ obj.out \in Seq(Nat)
    BY DEF RingTypes
  <2>2. obj.head <= obj.update /\ obj.update <= obj.tail /\ obj.tail <= obj.head + Size
    BY DEF RingHolds
  <2>3. obj.tail - obj.head <= Size /\ obj.head <= obj.tail
    BY <2>1, <2>2
  <2>4. PICK q : q = SubSeq(obj.in, 1, obj.head)
    OBVIOUS
  <2>5. q \in Seq(Nat) /\ Len(q) = obj.head /\ \A i \in 1 .. obj.head : q[i] = obj.in[i]
    <3>1. Len(obj.in) = obj.tail
      BY DEF RingHolds
    <3>2. PICK n \in Nat : n = obj.head
      BY <2>1
    <3>3. n <= Len(obj.in)
      BY <2>3, <3>1, <3>2
    <3>4. q = SubSeq(obj.in, 1, n)
      BY <2>4, <3>2
    <3>5. q \in Seq(Nat) /\ Len(q) = n /\ \A i \in 1 .. n : q[i] = obj.in[i]
      BY <2>1, <3>3, <3>4
    <3> QED
      BY <3>2, <3>5
  <2>6. obj.out = q
    BY <2>1, <2>5, SeqEqual DEF RingHolds
  <2> QED
    BY <2>2, <2>3, <2>4, <2>6
<1>2. RingInv /\ [Ring!Next]_(Ring!vars) => RingInv'
  BY NextRingInv
<1>3. Ring!Init => RingInv
  BY InitRingInv
<1> QED
  BY <1>1, <1>2, <1>3, PTL DEF Ring!Spec
-----------------------------------------------------------------------------
(* LockFreeQueue: the inductive invariant *)

FqPlaces == {"idle", "countTail", "store", "link", "moveTail", "free", "release",
             "countHead", "compare", "next", "moveHead", "take"}
Refs == [count : Nat, node : Nodes \cup {Null}]
FqThreads == [pc : FqPlaces, ref : Refs, node : Nodes \cup {Null}, to : Refs, new : Refs, val : Nat,
              then : {"idle", "countTail", "countHead"}]
FqObjects == [head : Refs, tail : Refs, data : [Nodes -> Nat], next : [Nodes -> Refs],
              count : [Nodes -> [internal : Int, external : Int]], at : [Nodes -> {"new", "live", "freed", "twice"}],
              pushes : Nat, pops : Nat, in : Seq(Nat), out : Seq(Nat), taken : SUBSET Nodes, lost : SUBSET Nat]
FqTypes == obj \in FqObjects /\ th \in [Threads -> FqThreads]

\* The nodes are linked in the order of their positions; 0 is that of a node that is not linked.
FqOrder(pos) ==
  /\ obj.head.node \in Nodes /\ obj.tail.node \in Nodes
  /\ 1 <= pos[obj.head.node] /\ pos[obj.head.node] <= pos[obj.tail.node]
  /\ \A m, n \in Nodes : pos[m] = pos[n] /\ pos[m] > 0 => m = n
  /\ \A n \in Nodes : pos[n] <= pos[obj.tail.node] + 1
  /\ \A n \in Nodes : pos[n] = 0 => obj.next[n] = Linked!Nowhere
  /\ \A n \in Nodes : obj.next[n] # Linked!Nowhere =>
       /\ obj.next[n].count = 1 /\ obj.next[n].node \in Nodes
       /\ pos[obj.next[n].node] = pos[n] + 1
  /\ \A m, n \in Nodes : pos[n] > 0 /\ pos[m] = pos[n] + 1 => obj.next[n] # Linked!Nowhere
  /\ \A n \in Nodes : pos[n] > 0 /\ pos[n] < pos[obj.tail.node] => obj.next[n] # Linked!Nowhere
  /\ \A n \in Nodes : pos[n] > 1 => \E k \in Nodes : pos[n] = pos[k] + 1

\* The threads that have moved the head (mh) or the tail (mt) from a node, and have not settled
\* its counts; they have counted as many threads in as the count of the pointer says.
FqMovers(pos, mh, mt) ==
  /\ \A n \in Nodes : mh[n] \in Threads =>
       /\ th[mh[n]].pc \in {"take", "free"} /\ th[mh[n]].node = n
       /\ 0 < pos[n] /\ pos[n] < pos[obj.head.node]
       /\ mh[n] # mt[n]
  /\ \A n \in Nodes : mt[n] \in Threads =>
       th[mt[n]].pc = "free" /\ th[mt[n]].node = n /\ 0 < pos[n] /\ pos[n] < pos[obj.tail.node]
  /\ \A t \in Threads : /\ th[t].pc = "take" => mh[th[t].node] = t
                        /\ th[t].pc = "free" => mh[th[t].node] = t \/ mt[th[t].node] = t

\* What the counts of a linked node add up to.
Holders(n) == {t \in Threads : th[t].pc \in Linked!Holding /\ th[t].node = n}
CountedAt(end, n) == IF end.node = n THEN end.count - 1 ELSE 0
CountedBy(u) == IF u \in Threads THEN th[u].ref.count - 1 ELSE 0
FromEnd(pos, moved, end, n) == IF pos[end.node] <= pos[n] \/ moved[n] \in Threads THEN 1 ELSE 0
FqCounts(pos, mh, mt) ==
  \A n \in Nodes : pos[n] > 0 =>
    /\ obj.count[n].external = FromEnd(pos, mh, obj.head, n) + FromEnd(pos, mt, obj.tail, n)
    /\ Cardinality(Holders(n)) = obj.count[n].internal + CountedAt(obj.head, n) + CountedAt(obj.tail, n)
                                   + CountedBy(mh[n]) + CountedBy(mt[n])
    /\ obj.at[n] = IF obj.count[n].internal = 0 /\ obj.count[n].external = 0 THEN "freed" ELSE "live"

\* What a thread at r knows of its node.
FqKnows(pos, r) ==
  /\ r.pc \in Linked!Holding => r.node \in Nodes /\ pos[r.node] > 0
  /\ r.pc \in {"store", "link", "moveTail", "compare", "next", "moveHead"} => r.ref.node = r.node
  /\ r.pc \in {"store", "link", "moveTail"} => pos[r.node] <= pos[obj.tail.node]
  /\ r.pc \in {"compare", "next", "moveHead"} => pos[r.node] <= pos[obj.head.node]
  /\ r.pc \in {"next", "moveHead"} => pos[r.node] < pos[obj.tail.node]
  /\ r.pc \in {"moveTail", "moveHead"} => r.to = obj.next[r.node] /\ r.to # Linked!Nowhere
  /\ r.pc \in {"countHead", "compare", "next", "moveHead", "take"} => r.then = "idle"
  /\ r.pc \in {"link", "moveTail"} => r.then \in {"idle", "countTail"}

\* A node that is not linked is not made yet, deleted, or its pusher's.
Owns(r) == r.pc \in {"countTail", "store", "link"} \/ (r.pc \in {"moveTail", "free", "release"} /\ r.then = "countTail")
FqOwners(pos) ==
  /\ \A t \in Threads : Owns(th[t]) =>
       th[t].new.count = 1 /\ th[t].new.node \in Nodes /\ pos[th[t].new.node] = 0 /\ obj.at[th[t].new.node] = "live"
  /\ \A t, u \in Threads : Owns(th[t]) /\ Owns(th[u]) /\ th[t].new.node = th[u].new.node => t = u
  /\ \A n \in Nodes : pos[n] = 0 =>
       /\ obj.at[n] \in {"new", "live", "freed"}
       /\ obj.count[n] = Linked!NodeCounter
       /\ obj.at[n] = "live" => \E t \in Threads : Owns(th[t]) /\ th[t].new.node = n

FqWhole(pos, mh, mt) ==
  /\ FqTypes /\ FqOrder(pos) /\ FqMovers(pos, mh, mt) /\ FqCounts(pos, mh, mt) /\ FqOwners(pos)
  /\ \A t \in Threads : FqKnows(pos, th[t])
FqInv == \E pos \in [Nodes -> Nat], mh, mt \in [Nodes -> Threads \cup {Null}] : FqWhole(pos, mh, mt)

-----------------------------------------------------------------------------
(* LockFreeQueue: the threads that hold a node *)

LEMMA HoldersCount ==
  ASSUME IsFiniteSet(Threads), NEW n
  PROVE  Cardinality(Holders(n)) \in Nat /\ (Cardinality(Holders(n)) = 0 => Holders(n) = {})
<1>1. Holders(n) \subseteq Threads
  BY DEF Holders
<1>2. IsFiniteSet(Holders(n))
  BY <1>1, FS_Subset
<1> QED
  BY <1>2, FS_CardinalityType, FS_EmptySet

LEMMA HoldersAfter ==
  ASSUME IsFiniteSet(Threads), th \in [Threads -> FqThreads], NEW t \in Threads, NEW r \in FqThreads,
         th' = [th EXCEPT ![t] = r], NEW n
  PROVE  /\ (th[t].pc \in Linked!Holding /\ th[t].node = n <=> r.pc \in Linked!Holding /\ r.node = n)
               => Holders(n)' = Holders(n)
         /\ r.pc \in Linked!Holding /\ r.node = n /\ th[t].pc \notin Linked!Holding
               => Cardinality(Holders(n)') = Cardinality(Holders(n)) + 1
         /\ th[t].pc \in Linked!Holding /\ th[t].node = n /\ r.pc \notin Linked!Holding
               => Cardinality(Holders(n)') = Cardinality(Holders(n)) - 1
<1>1. \A u \in Threads : th'[u] = IF u = t THEN r ELSE th[u]
  OBVIOUS
<1>2. Holders(n) \in SUBSET Threads
  BY DEF Holders
<1>3. (th[t].pc \in Linked!Holding /\ th[t].node = n <=> r.pc \in Linked!Holding /\ r.node = n)
        => Holders(n)' = Holders(n)
  BY <1>1 DEF Holders
<1>4. ASSUME r.pc \in Linked!Holding, r.node = n, th[t].pc \notin Linked!Holding
      PROVE  Cardinality(Holders(n)') = Cardinality(Holders(n)) + 1
  <2>1. Holders(n)' = Holders(n) \cup {t} /\ t \notin Holders(n)
    BY <1>1, <1>4 DEF Holders
  <2> QED
    BY <1>2, <2>1, ThreadCounts
<1>5. ASSUME th[t].pc \in Linked!Holding, th[t].node = n, r.pc \notin Linked!Holding
      PROVE  Cardinality(Holders(n)') = Cardinality(Holders(n)) - 1
  <2>1. Holders(n)' = Holders(n) \ {t} /\ t \in Holders(n)
    BY <1>1, <1>5 DEF Holders
  <2> QED
    BY <1>2, <2>1, ThreadCounts
<1> QED
  BY <1>3, <1>4, <1>5

\* A node that is held has not been freed.
LEMMA HeldIsLive ==
  ASSUME IsFiniteSet(Threads), NEW pos \in [Nodes -> Nat], NEW mh, NEW mt, FqWhole(pos, mh, mt),
         NEW t \in Threads, th[t].pc \in Linked!Holding
  PROVE  obj.at[th[t].node] = "live"
<1>1. PICK n \in Nodes : n = th[t].node /\ pos[n] > 0
  BY DEF FqWhole, FqKnows
<1>2. SUFFICES ASSUME obj.count[n].internal = 0, obj.count[n].external = 0 PROVE FALSE
  BY <1>1 DEF FqWhole, FqCounts
<1>3. FromEnd(pos, mh, obj.head, n) \in {0, 1} /\ FromEnd(pos, mt, obj.tail, n) \in {0, 1}
  BY DEF FromEnd
<1>4. FromEnd(pos, mh, obj.head, n) = 0 /\ FromEnd(pos, mt, obj.tail, n) = 0
  <2>1. 0 = FromEnd(pos, mh, obj.head, n) + FromEnd(pos, mt, obj.tail, n)
    BY <1>1, <1>2 DEF FqWhole, FqCounts
  <2> QED
    BY <1>3, <2>1
<1>5. /\ ~(pos[obj.head.node] <= pos[n]) /\ mh[n] \notin Threads
      /\ ~(pos[obj.tail.node] <= pos[n]) /\ mt[n] \notin Threads
  BY <1>4 DEF FromEnd
<1>6. obj.head.node # n /\ obj.tail.node # n
  BY <1>1, <1>5
<1>7. /\ CountedAt(obj.head, n) = 0 /\ CountedAt(obj.tail, n) = 0
      /\ CountedBy(mh[n]) = 0 /\ CountedBy(mt[n]) = 0
  BY <1>5, <1>6 DEF CountedAt, CountedBy
<1>8. Cardinality(Holders(n)) = 0
  BY <1>1, <1>2, <1>7 DEF FqWhole, FqCounts
<1>9. t \in Holders(n)
  BY <1>1 DEF Holders
<1> QED
  BY <1>8, <1>9, HoldersCount

LEMMA InitFqInv ==
  ASSUME IsFiniteSet(Threads), Null \notin Threads, Linked!Init
  PROVE  FqInv
<1>1. PICK dummy \in Nodes :
        obj = [head |-> Linked!Ref(1, dummy), tail |-> Linked!Ref(1, dummy),
               data |-> [n \in Nodes |-> 0], next |-> [n \in Nodes |-> Linked!Nowhere],
               count |-> [n \in Nodes |-> Linked!NodeCounter],
               at |-> [n \in Nodes |-> IF n = dummy THEN "live" ELSE "new"],
               pushes |-> 0, pops |-> 0, in |-> <<>>, out |-> <<>>, taken |-> {}, lost |-> {}]
  BY DEF Linked!Init
<1>2. PICK pos : pos = [n \in Nodes |-> IF n = dummy THEN 1 ELSE 0]
  OBVIOUS
<1>3. PICK m : m = [n \in Nodes |-> Null]
  OBVIOUS
<1>4. /\ pos \in [Nodes -> Nat] /\ m \in [Nodes -> Threads \cup {Null}]
      /\ \A n \in Nodes : pos[n] = (IF n = dummy THEN 1 ELSE 0) /\ m[n] \notin Threads
  BY <1>2, <1>3
<1>5. \A t \in Threads : th[t] = Linked!Idle
  BY DEF Linked!Init
<1>6. /\ obj.head.node = dummy /\ obj.tail.node = dummy /\ obj.head.count = 1 /\ obj.tail.count = 1
      /\ \A n \in Nodes : /\ obj.next[n] = Linked!Nowhere /\ obj.count[n] = Linked!NodeCounter
                          /\ obj.at[n] = IF n = dummy THEN "live" ELSE "new"
  BY <1>1 DEF Linked!Ref
<1>7. FqTypes
  <2>1. Linked!Nowhere \in Refs /\ Linked!Ref(1, dummy) \in Refs
    BY DEF Refs, Linked!Nowhere, Linked!Ref
  <2>2. Linked!Idle \in FqThreads
    BY <2>1 DEF FqThreads, FqPlaces, Linked!Idle
  <2>3. Linked!NodeCounter \in [internal : Int, external : Int]
    BY DEF Linked!NodeCounter
  <2>4. th \in [Threads -> FqThreads]
    BY <2>2 DEF Linked!Init
  <2> QED
    BY <1>1, <2>1, <2>3, <2>4, EmptySeq DEF FqTypes, FqObjects
<1>8. FqOrder(pos)
  BY <1>4, <1>6 DEF FqOrder
<1>9. \A t \in Threads : th[t].pc = "idle"
  BY <1>5 DEF Linked!Idle
<1>10. FqMovers(pos, m, m) /\ FqOwners(pos) /\ \A t \in Threads : FqKnows(pos, th[t])
  BY <1>4, <1>6, <1>9 DEF FqMovers, FqOwners, FqKnows, Owns, Linked!Holding
<1>11. FqCounts(pos, m, m)
  <2> SUFFICES ASSUME NEW n \in Nodes, pos[n] > 0
               PROVE  /\ obj.count[n].external = FromEnd(pos, m, obj.head, n) + FromEnd(pos, m, obj.tail, n)
                      /\ Cardinality(Holders(n)) = obj.count[n].internal + CountedAt(obj.head, n)
                                                     + CountedAt(obj.tail, n) + CountedBy(m[n]) + CountedBy(m[n])
                      /\ obj.at[n] = IF obj.count[n].internal = 0 /\ obj.count[n].external = 0 THEN "freed" ELSE "live"
    BY DEF FqCounts
  <2>1. n = dummy
    BY <1>4
  <2>2. Holders(n) = {}
    BY <1>9 DEF Holders, Linked!Holding
  <2>3. Cardinality(Holders(n)) = 0
    BY <2>2, FS_EmptySet
  <2>4. obj.count[n].internal = 0 /\ obj.count[n].external = 2
    BY <1>6 DEF Linked!NodeCounter
  <2>5. /\ FromEnd(pos, m, obj.head, n) = 1 /\ FromEnd(pos, m, obj.tail, n) = 1
        /\ CountedAt(obj.head, n) = 0 /\ CountedAt(obj.tail, n) = 0 /\ CountedBy(m[n]) = 0
    BY <1>4, <1>6, <2>1 DEF FromEnd, CountedAt, CountedBy
  <2> QED
    BY <1>6, <2>1, <2>3, <2>4, <2>5
<1> QED
  BY <1>4, <1>7, <1>8, <1>10, <1>11 DEF FqInv, FqWhole

\* A thread that goes on at its node, or without one.
LEMMA FqThreadMoves ==
  ASSUME IsFiniteSet(Threads), NEW pos \in [Nodes -> Nat], NEW mh, NEW mt, FqWhole(pos, mh, mt),
         obj' \in FqObjects, UNCHANGED <<obj.head, obj.tail, obj.next, obj.count, obj.at>>,
         NEW t \in Threads, NEW r \in FqThreads, th' = [th EXCEPT ![t] = r],
         r.pc \in Linked!Holding <=> th[t].pc \in Linked!Holding, r.pc \in Linked!Holding => r.node = th[t].node,
         r.pc \in {"take", "free"} <=> th[t].pc \in {"take", "free"},
         r.pc \in {"take", "free"} => r.ref = th[t].ref /\ r.pc = "free",
         Owns(r) <=> Owns(th[t]), Owns(r) => r.new = th[t].new, FqKnows(pos, r)
  PROVE  FqWhole(pos, mh, mt)'
<1> USE DEF FqWhole
<1>1. th \in [Threads -> FqThreads]
  BY DEF FqTypes
<1>2. \A u \in Threads : th'[u] = IF u = t THEN r ELSE th[u]
  BY <1>1
<1>3. FqTypes' /\ FqOrder(pos)'
  BY <1>1 DEF FqTypes, FqOrder
<1>4. FqOwners(pos)'
  BY <1>2 DEF FqOwners
<1>5. \A u \in Threads : FqKnows(pos, th[u])'
  <2> SUFFICES ASSUME NEW u \in Threads PROVE FqKnows(pos, th[u])'
    OBVIOUS
  <2>1. FqKnows(pos, th'[u])
    BY <1>2
  <2> QED
    BY <2>1 DEF FqKnows
<1>6. FqMovers(pos, mh, mt)'
  <2>1. ASSUME NEW n \in Nodes, mh[n] \in Threads
        PROVE  /\ th'[mh[n]].pc \in {"take", "free"} /\ th'[mh[n]].node = n
               /\ 0 < pos[n] /\ pos[n] < pos[obj.head.node] /\ mh[n] # mt[n]
    BY <1>2, <2>1 DEF FqMovers, Linked!Holding
  <2>2. ASSUME NEW n \in Nodes, mt[n] \in Threads
        PROVE  /\ th'[mt[n]].pc = "free" /\ th'[mt[n]].node = n
               /\ 0 < pos[n] /\ pos[n] < pos[obj.tail.node]
    BY <1>2, <2>2 DEF FqMovers, Linked!Holding
  <2>3. ASSUME NEW u \in Threads
        PROVE  /\ th'[u].pc = "take" => mh[th'[u].node] = u
               /\ th'[u].pc = "free" => mh[th'[u].node] = u \/ mt[th'[u].node] = u
    BY <1>2 DEF FqMovers, Linked!Holding
  <2> QED
    BY <2>1, <2>2, <2>3 DEF FqMovers
<1>7. FqCounts(pos, mh, mt)'
  <2>1. ASSUME NEW n PROVE Holders(n)' = Holders(n)
    BY <1>1, HoldersAfter
  <2>2. ASSUME NEW n \in Nodes
        PROVE  CountedBy(mh[n])' = CountedBy(mh[n]) /\ CountedBy(mt[n])' = CountedBy(mt[n])
    <3>1. mh[n] \in Threads => th'[mh[n]].ref = th[mh[n]].ref
      BY <1>2 DEF FqMovers
    <3>2. mt[n] \in Threads => th'[mt[n]].ref = th[mt[n]].ref
      BY <1>2 DEF FqMovers
    <3> QED
      BY <3>1, <3>2 DEF CountedBy
  <2>3. ASSUME NEW n \in Nodes
        PROVE  /\ FromEnd(pos, mh, obj.head, n)' = FromEnd(pos, mh, obj.head, n)
               /\ FromEnd(pos, mt, obj.tail, n)' = FromEnd(pos, mt, obj.tail, n)
               /\ CountedAt(obj.head, n)' = CountedAt(obj.head, n)
               /\ CountedAt(obj.tail, n)' = CountedAt(obj.tail, n)
    BY DEF FromEnd, CountedAt
  <2> QED
    BY <2>1, <2>2, <2>3 DEF FqCounts
<1> QED
  BY <1>3, <1>4, <1>5, <1>6, <1>7

\* A node that is made, or deleted before it was linked.
LEMMA FqNewNode ==
  ASSUME IsFiniteSet(Threads), NEW pos \in [Nodes -> Nat], NEW mh, NEW mt, FqWhole(pos, mh, mt),
         obj' \in FqObjects, UNCHANGED <<obj.head, obj.tail, obj.next, obj.count>>,
         NEW m \in Nodes, pos[m] = 0, \A n \in Nodes : n # m => obj'.at[n] = obj.at[n],
         NEW t \in Threads, NEW r \in FqThreads, th' = [th EXCEPT ![t] = r],
         r.pc \in Linked!Holding <=> th[t].pc \in Linked!Holding, r.pc \in Linked!Holding => r.node = th[t].node,
         r.pc \notin {"take", "free"}, th[t].pc \notin {"take", "free"},
         FqKnows(pos, r), FqOwners(pos)'
  PROVE  FqWhole(pos, mh, mt)'
<1> USE DEF FqWhole
<1>1. th \in [Threads -> FqThreads]
  BY DEF FqTypes
<1>2. \A u \in Threads : th'[u] = IF u = t THEN r ELSE th[u]
  BY <1>1
<1>3. FqTypes' /\ FqOrder(pos)'
  BY <1>1 DEF FqTypes, FqOrder
<1>4. \A u \in Threads : FqKnows(pos, th[u])'
  <2> SUFFICES ASSUME NEW u \in Threads PROVE FqKnows(pos, th[u])'
    OBVIOUS
  <2>1. FqKnows(pos, th'[u])
    BY <1>2
  <2> QED
    BY <2>1 DEF FqKnows
<1>5. FqMovers(pos, mh, mt)'
  BY <1>2 DEF FqMovers
<1>6. FqCounts(pos, mh, mt)'
  <2>1. ASSUME NEW n PROVE Holders(n)' = Holders(n)
    BY <1>1, HoldersAfter
  <2>2. ASSUME NEW n \in Nodes
        PROVE  CountedBy(mh[n])' = CountedBy(mh[n]) /\ CountedBy(mt[n])' = CountedBy(mt[n])
    <3>1. mh[n] \in Threads => th'[mh[n]].ref = th[mh[n]].ref
      BY <1>2 DEF FqMovers
    <3>2. mt[n] \in Threads => th'[mt[n]].ref = th[mt[n]].ref
      BY <1>2 DEF FqMovers
    <3> QED
      BY <3>1, <3>2 DEF CountedBy
  <2>3. ASSUME NEW n \in Nodes
        PROVE  /\ FromEnd(pos, mh, obj.head, n)' = FromEnd(pos, mh, obj.head, n)
               /\ FromEnd(pos, mt, obj.tail, n)' = FromEnd(pos, mt, obj.tail, n)
               /\ CountedAt(obj.head, n)' = CountedAt(obj.head, n)
               /\ CountedAt(obj.tail, n)' = CountedAt(obj.tail, n)
    BY DEF FromEnd, CountedAt
  <2>4. \A n \in Nodes : pos[n] > 0 => obj'.at[n] = obj.at[n]
    OBVIOUS
  <2> QED
    BY <2>1, <2>2, <2>3, <2>4 DEF FqCounts
<1> QED
  BY <1>3, <1>4, <1>5, <1>6

LEMMA FqEmplaceKeeps ==
  ASSUME IsFiniteSet(Threads), NEW pos \in [Nodes -> Nat], NEW mh, NEW mt, FqWhole(pos, mh, mt),
         NEW t \in Threads, Linked!Emplace(t)
  PROVE  FqWhole(pos, mh, mt)'
<1> USE DEF FqWhole
<1>1. PICK n \in Nodes :
        /\ obj.at[n] = "new" /\ obj' = [obj EXCEPT !.at[n] = "live", !.pushes = @ + 1]
        /\ th' = [th EXCEPT ![t] = [Linked!Idle EXCEPT !.pc = "countTail", !.ref = obj.tail,
                                                       !.new = Linked!Ref(1, n), !.val = obj.pushes + 1]]
  BY DEF Linked!Emplace
<1>2. /\ th[t].pc = "idle" /\ th \in [Threads -> FqThreads] /\ obj \in FqObjects /\ obj.tail \in Refs
      /\ obj.pushes \in Nat /\ obj.at \in [Nodes -> {"new", "live", "freed", "twice"}]
  BY DEF Linked!Emplace, Linked!At, FqTypes, FqObjects
<1>3. PICK k \in Nat : k = obj.pushes + 1
  BY <1>2
<1>4. PICK a : a = [obj.at EXCEPT ![n] = "live"]
  OBVIOUS
<1>5. /\ a \in [Nodes -> {"new", "live", "freed", "twice"}]
      /\ \A m \in Nodes : a[m] = IF m = n THEN "live" ELSE obj.at[m]
  BY <1>2, <1>4
<1>6. obj' = [obj EXCEPT !.at = a, !.pushes = k]
  BY <1>1, <1>2, <1>3, <1>4 DEF FqObjects
<1>7. obj' \in FqObjects /\ UNCHANGED <<obj.head, obj.tail, obj.next, obj.count>> /\ obj'.at = a
  BY <1>2, <1>5, <1>6 DEF FqObjects
<1>8. PICK r : r = [Linked!Idle EXCEPT !.pc = "countTail", !.ref = obj.tail, !.new = Linked!Ref(1, n), !.val = k]
  OBVIOUS
<1>9. /\ r \in FqThreads /\ r.pc = "countTail" /\ r.new.count = 1 /\ r.new.node = n /\ th' = [th EXCEPT ![t] = r]
  <2>1. Linked!Ref(1, n) \in Refs /\ Linked!Ref(1, n).count = 1 /\ Linked!Ref(1, n).node = n /\ Linked!Nowhere \in Refs
    BY DEF Linked!Ref, Refs, Linked!Nowhere
  <2>2. Linked!Idle \in FqThreads
    BY <2>1 DEF Linked!Idle, FqThreads, FqPlaces
  <2>3. "countTail" \in FqPlaces
    BY DEF FqPlaces
  <2>4. r \in FqThreads
    BY <1>2, <1>8, <2>1, <2>2, <2>3 DEF FqThreads
  <2>5. r.pc = "countTail" /\ r.new = Linked!Ref(1, n)
    BY <1>8, <2>2 DEF FqThreads
  <2> QED
    BY <1>1, <1>3, <1>8, <2>1, <2>4, <2>5
<1>10. \A u \in Threads : th'[u] = IF u = t THEN r ELSE th[u]
  BY <1>2, <1>9
<1>11. pos[n] = 0
  BY <1>1 DEF FqCounts
<1>12. FqOwners(pos)'
  <2>1. \A u \in Threads : Owns(th[u]) => th[u].new.node # n
    BY <1>1 DEF FqOwners
  <2>2. Owns(r) /\ ~Owns(th[t])
    BY <1>2, <1>9 DEF Owns
  <2>3. /\ \A u \in Threads : Owns(th'[u]) =>
             /\ th'[u].new.count = 1 /\ th'[u].new.node \in Nodes
             /\ pos[th'[u].new.node] = 0 /\ a[th'[u].new.node] = "live"
        /\ \A u, v \in Threads : Owns(th'[u]) /\ Owns(th'[v]) /\ th'[u].new.node = th'[v].new.node => u = v
    BY <1>5, <1>9, <1>10, <1>11, <2>1, <2>2 DEF FqOwners
  <2>4. ASSUME NEW m \in Nodes, pos[m] = 0
        PROVE  /\ a[m] \in {"new", "live", "freed"} /\ obj.count[m] = Linked!NodeCounter
               /\ a[m] = "live" => \E u \in Threads : Owns(th'[u]) /\ th'[u].new.node = m
    BY <1>5, <1>9, <1>10, <2>2, <2>4 DEF FqOwners
  <2> QED
    BY <1>7, <2>3, <2>4 DEF FqOwners
<1>13. r.pc \notin Linked!Holding /\ th[t].pc \notin Linked!Holding /\ FqKnows(pos, r)
  BY <1>2, <1>9 DEF Linked!Holding, FqKnows
<1> QED
  BY <1>2, <1>5, <1>7, <1>9, <1>11, <1>12, <1>13, FqNewNode, ZenonT(60)

\* A thread that has read an end of the queue counts itself in.
LEMMA FqCountKeeps ==
  ASSUME IsFiniteSet(Threads), NEW pos \in [Nodes -> Nat], NEW mh, NEW mt, FqWhole(pos, mh, mt),
         NEW t \in Threads, NEW r \in FqThreads, th' = [th EXCEPT ![t] = r], r.new = th[t].new, r.then = th[t].then,
         r.pc \in {"store", "compare"}, th[t].pc = IF r.pc = "store" THEN "countTail" ELSE "countHead",
         NEW ref \in Refs, ref = IF r.pc = "store" THEN [count |-> obj.tail.count + 1, node |-> obj.tail.node]
                                                   ELSE [count |-> obj.head.count + 1, node |-> obj.head.node],
         r.ref = ref, r.node = ref.node,
         obj' = IF r.pc = "store" THEN [obj EXCEPT !.tail = ref] ELSE [obj EXCEPT !.head = ref]
  PROVE  FqWhole(pos, mh, mt)'
<1> USE DEF FqWhole
<1>1. /\ th \in [Threads -> FqThreads] /\ obj \in FqObjects
      /\ obj.head.count \in Nat /\ obj.tail.count \in Nat
      /\ pos[obj.head.node] \in Nat /\ pos[obj.tail.node] \in Nat
  BY DEF FqTypes, FqObjects, Refs, FqOrder
<1>2. \A u \in Threads : th'[u] = IF u = t THEN r ELSE th[u]
  BY <1>1
<1>3. obj' \in FqObjects /\ UNCHANGED <<obj.next, obj.count, obj.at>>
  BY <1>1 DEF FqObjects
<1>4. /\ obj'.head = IF r.pc = "store" THEN obj.head ELSE ref
      /\ obj'.tail = IF r.pc = "store" THEN ref ELSE obj.tail
  BY <1>1 DEF FqObjects
<1>5. obj'.head.node = obj.head.node /\ obj'.tail.node = obj.tail.node
  BY <1>4
<1>6. FqTypes' /\ FqOrder(pos)'
  BY <1>1, <1>3, <1>5 DEF FqTypes, FqOrder
<1>7. Owns(r) <=> Owns(th[t])
  BY DEF Owns
<1>8. FqOwners(pos)'
  BY <1>2, <1>3, <1>7 DEF FqOwners
<1>9. FqKnows(pos, r)
  BY <1>1 DEF FqKnows, FqOrder
<1>10. \A u \in Threads : FqKnows(pos, th[u])'
  <2> SUFFICES ASSUME NEW u \in Threads PROVE FqKnows(pos, th[u])'
    OBVIOUS
  <2>1. FqKnows(pos, th'[u])
    BY <1>2, <1>9
  <2> QED
    BY <1>3, <1>5, <2>1 DEF FqKnows
<1>11. FqMovers(pos, mh, mt)'
  BY <1>2, <1>5 DEF FqMovers
<1>12. FqCounts(pos, mh, mt)'
  <2> SUFFICES ASSUME NEW n \in Nodes, pos[n] > 0
               PROVE  (/\ obj.count[n].external = FromEnd(pos, mh, obj.head, n) + FromEnd(pos, mt, obj.tail, n)
                       /\ Cardinality(Holders(n)) = obj.count[n].internal + CountedAt(obj.head, n)
                                                     + CountedAt(obj.tail, n) + CountedBy(mh[n]) + CountedBy(mt[n])
                       /\ obj.at[n] = IF obj.count[n].internal = 0 /\ obj.count[n].external = 0
                                      THEN "freed" ELSE "live")'
    BY DEF FqCounts
  <2>1. CountedBy(mh[n])' = CountedBy(mh[n]) /\ CountedBy(mt[n])' = CountedBy(mt[n])
    <3>1. mh[n] \in Threads => th'[mh[n]].ref = th[mh[n]].ref
      BY <1>2 DEF FqMovers
    <3>2. mt[n] \in Threads => th'[mt[n]].ref = th[mt[n]].ref
      BY <1>2 DEF FqMovers
    <3> QED
      BY <3>1, <3>2 DEF CountedBy
  <2>2. /\ FromEnd(pos, mh, obj.head, n)' = FromEnd(pos, mh, obj.head, n)
        /\ FromEnd(pos, mt, obj.tail, n)' = FromEnd(pos, mt, obj.tail, n)
    BY <1>5 DEF FromEnd
  <2>3. r.pc \in Linked!Holding /\ th[t].pc \notin Linked!Holding
    BY DEF Linked!Holding
  <2>4. Cardinality(Holders(n)) \in Nat
    BY HoldersCount
  <2>5. PICK i \in Int : i = obj.count[n].internal
    BY <1>1 DEF FqObjects
  <2>6. /\ CountedAt(obj.head, n) \in Int /\ CountedAt(obj.tail, n) \in Int
        /\ CountedBy(mh[n]) \in Int /\ CountedBy(mt[n]) \in Int
    BY <1>1 DEF CountedAt, CountedBy, FqThreads, Refs
  <2>7. Cardinality(Holders(n)) = i + CountedAt(obj.head, n) + CountedAt(obj.tail, n) + CountedBy(mh[n]) + CountedBy(mt[n])
    BY <2>5 DEF FqCounts
  <2>8. Cardinality(Holders(n)') = i + CountedAt(obj.head, n)' + CountedAt(obj.tail, n)' + CountedBy(mh[n]) + CountedBy(mt[n])
    <3>1. CASE r.node # n
      <4>1. CountedAt(obj.head, n)' = CountedAt(obj.head, n) /\ CountedAt(obj.tail, n)' = CountedAt(obj.tail, n)
        BY <1>4, <3>1 DEF CountedAt
      <4>2. Holders(n)' = Holders(n)
        BY <1>1, <2>3, <3>1, HoldersAfter
      <4> QED
        BY <2>7, <4>1, <4>2
    <3>2. CASE r.node = n
      <4>1. Cardinality(Holders(n)') = Cardinality(Holders(n)) + 1
        BY <1>1, <2>3, <3>2, HoldersAfter
      <4>2. CASE r.pc = "store"
        <5>1. CountedAt(obj.head, n)' = CountedAt(obj.head, n) /\ CountedAt(obj.tail, n)' = CountedAt(obj.tail, n) + 1
          BY <1>1, <1>4, <3>2, <4>2 DEF CountedAt
        <5> QED
          BY <2>4, <2>6, <2>7, <4>1, <5>1
      <4>3. CASE r.pc = "compare"
        <5>1. CountedAt(obj.head, n)' = CountedAt(obj.head, n) + 1 /\ CountedAt(obj.tail, n)' = CountedAt(obj.tail, n)
          BY <1>1, <1>4, <3>2, <4>3 DEF CountedAt
        <5> QED
          BY <2>4, <2>6, <2>7, <4>1, <5>1
      <4> QED
        BY <4>2, <4>3
    <3> QED
      BY <3>1, <3>2
  <2> QED
    BY <1>3, <2>1, <2>2, <2>5, <2>8 DEF FqCounts
<1> QED
  BY <1>6, <1>8, <1>10, <1>11, <1>12

\* A new node m is linked after the last, n: it takes the next position.
FqAppends(pos, pos2, n, m, ref) ==
  /\ \A k \in Nodes : obj'.next[k] = IF k = n THEN ref ELSE obj.next[k]
  /\ \A k \in Nodes : k = m \/ pos[k] > 0 => obj'.at[k] = obj.at[k]
  /\ \A k \in Nodes : pos2[k] = IF k = m THEN pos[n] + 1 ELSE pos[k]

LEMMA FqLinkKeeps ==
  ASSUME IsFiniteSet(Threads), NEW pos \in [Nodes -> Nat], NEW mh, NEW mt, FqWhole(pos, mh, mt),
         NEW t \in Threads, th[t].pc = "link", NEW n \in Nodes, n = th[t].node, obj.next[n] = Linked!Nowhere,
         NEW ref \in Refs, ref = th[t].new, NEW m, m = ref.node,
         NEW r \in FqThreads, th' = [th EXCEPT ![t] = r],
         r.pc = "moveTail", r.node = n, r.ref = th[t].ref, r.to = ref, r.then = th[t].then,
         obj' \in FqObjects, UNCHANGED <<obj.head, obj.tail, obj.count>>,
         NEW pos2 \in [Nodes -> Nat], FqAppends(pos, pos2, n, m, ref), FqOwners(pos2)'
  PROVE  FqWhole(pos2, mh, mt)'
<1> USE DEF FqWhole, FqAppends
<1>1. th \in [Threads -> FqThreads] /\ obj \in FqObjects
  BY DEF FqTypes
<1>2. \A u \in Threads : th'[u] = IF u = t THEN r ELSE th[u]
  BY <1>1
<1>3. m \in Nodes /\ pos[m] = 0 /\ ref.count = 1 /\ obj.at[m] = "live" /\ ref # Linked!Nowhere
  <2>1. Owns(th[t])
    BY DEF Owns
  <2> QED
    BY <2>1 DEF FqOwners, Linked!Nowhere, Linked!Ref
<1>4. pos[n] > 0 /\ pos[n] <= pos[obj.tail.node] /\ th[t].ref.node = n
  BY DEF FqKnows, Linked!Holding
<1>5. PICK h, l \in Nat : h = pos[obj.head.node] /\ l = pos[obj.tail.node]
  BY DEF FqOrder
<1>6. 1 <= h /\ h <= l /\ pos[n] = l
  <2>1. ~(pos[n] < l)
    BY <1>4, <1>5 DEF FqOrder
  <2> QED
    BY <1>4, <1>5, <2>1 DEF FqOrder
<1>7. \A k \in Nodes : pos[k] <= l /\ (pos[k] > 0 => pos2[k] = pos[k] /\ k # m)
  <2> SUFFICES ASSUME NEW k \in Nodes PROVE pos[k] <= l /\ (pos[k] > 0 => pos2[k] = pos[k] /\ k # m)
    OBVIOUS
  <2>1. pos[k] # l + 1
    BY <1>4, <1>6 DEF FqOrder
  <2>2. pos[k] <= l + 1
    BY <1>5 DEF FqOrder
  <2> QED
    BY <1>3, <2>1, <2>2
<1>8. pos2[m] = l + 1 /\ pos2[obj.head.node] = h /\ pos2[obj.tail.node] = l /\ n # m
  BY <1>3, <1>4, <1>5, <1>6, <1>7 DEF FqOrder
<1>9. FqOrder(pos2)'
  <2>1. \A k, j \in Nodes : pos2[k] = pos2[j] /\ pos2[k] > 0 => k = j
    BY <1>3, <1>6, <1>7 DEF FqOrder
  <2>2. \A k \in Nodes : pos2[k] <= l + 1
    BY <1>6, <1>7
  <2>3. \A k \in Nodes : pos2[k] = 0 => obj'.next[k] = Linked!Nowhere
    BY <1>3, <1>4, <1>6 DEF FqOrder
  <2>4. ASSUME NEW k \in Nodes, obj'.next[k] # Linked!Nowhere
        PROVE  obj'.next[k].count = 1 /\ obj'.next[k].node \in Nodes /\ pos2[obj'.next[k].node] = pos2[k] + 1
    <3>1. CASE k = n
      BY <1>3, <1>6, <1>8, <3>1
    <3>2. CASE k # n
      <4>1. /\ obj.next[k] = obj'.next[k] /\ obj.next[k].count = 1 /\ obj.next[k].node \in Nodes
            /\ pos[obj.next[k].node] = pos[k] + 1 /\ pos[k] # 0
        BY <2>4, <3>2 DEF FqOrder
      <4>2. pos[obj.next[k].node] > 0 /\ pos[k] > 0
        BY <4>1
      <4> QED
        BY <1>7, <4>1, <4>2
    <3> QED
      BY <3>1, <3>2
  <2>5. ASSUME NEW j \in Nodes, NEW k \in Nodes, pos2[k] > 0, pos2[j] = pos2[k] + 1
        PROVE  obj'.next[k] # Linked!Nowhere
    <3>1. CASE k = n
      BY <1>3, <3>1
    <3>2. CASE k # n
      <4>1. k # m
        BY <1>6, <1>7, <1>8, <2>2, <2>5
      <4>2. pos2[k] = pos[k] /\ pos[k] > 0 /\ pos[k] # l
        BY <1>4, <1>6, <2>5, <3>2, <4>1 DEF FqOrder
      <4>3. j # m
        BY <1>8, <2>5, <4>2
      <4>4. pos[j] = pos[k] + 1
        BY <2>5, <4>2, <4>3
      <4> QED
        BY <3>2, <4>2, <4>4 DEF FqOrder
    <3> QED
      BY <3>1, <3>2
  <2>6. ASSUME NEW k \in Nodes, pos2[k] > 0, pos2[k] < l PROVE obj'.next[k] # Linked!Nowhere
    <3>1. pos2[k] = pos[k] /\ k # n
      BY <1>6, <1>8, <2>6
    <3> QED
      BY <1>5, <2>6, <3>1 DEF FqOrder
  <2>7. ASSUME NEW k \in Nodes, pos2[k] > 1 PROVE \E j \in Nodes : pos2[k] = pos2[j] + 1
    <3>1. CASE k = m
      BY <1>6, <1>8, <3>1
    <3>2. CASE k # m
      <4>1. PICK j \in Nodes : pos[k] = pos[j] + 1
        BY <2>7, <3>2 DEF FqOrder
      <4>2. pos[j] > 0
        BY <2>7, <3>2, <4>1
      <4> QED
        BY <1>7, <3>2, <4>1, <4>2
    <3> QED
      BY <3>1, <3>2
  <2> QED
    BY <1>6, <1>8, <2>1, <2>2, <2>3, <2>4, <2>5, <2>6, <2>7 DEF FqOrder
<1>10. FqMovers(pos2, mh, mt)'
  <2>1. ASSUME NEW k \in Nodes, mh[k] \in Threads
        PROVE  /\ th'[mh[k]].pc \in {"take", "free"} /\ th'[mh[k]].node = k
               /\ 0 < pos2[k] /\ pos2[k] < h /\ mh[k] # mt[k]
    BY <1>2, <1>5, <1>7, <2>1 DEF FqMovers
  <2>2. ASSUME NEW k \in Nodes, mt[k] \in Threads
        PROVE  /\ th'[mt[k]].pc = "free" /\ th'[mt[k]].node = k
               /\ 0 < pos2[k] /\ pos2[k] < l
    BY <1>2, <1>5, <1>7, <2>2 DEF FqMovers
  <2>3. ASSUME NEW u \in Threads
        PROVE  /\ th'[u].pc = "take" => mh[th'[u].node] = u
               /\ th'[u].pc = "free" => mh[th'[u].node] = u \/ mt[th'[u].node] = u
    BY <1>2 DEF FqMovers
  <2> QED
    BY <1>8, <2>1, <2>2, <2>3 DEF FqMovers
<1>11. \A u \in Threads : FqKnows(pos2, th[u])'
  <2> SUFFICES ASSUME NEW u \in Threads PROVE FqKnows(pos2, th[u])'
    OBVIOUS
  <2>1. CASE u = t
    <3>1. th'[u] = r /\ r.then \in {"idle", "countTail"} /\ obj'.next[n] = ref
      BY <1>2, <2>1 DEF FqKnows
    <3>2. pos2[n] > 0 /\ pos2[n] = l
      BY <1>4, <1>6, <1>7
    <3>3. l <= pos2[obj'.tail.node]
      BY <1>8
    <3> QED
      BY <1>3, <1>4, <3>1, <3>2, <3>3 DEF FqKnows
  <2>2. CASE u # t
    <3>1. th'[u] = th[u] /\ FqKnows(pos, th[u])
      BY <1>2, <2>2
    <3>2. th[u].node \in Nodes /\ pos[th[u].node] > 0 => pos2[th[u].node] = pos[th[u].node]
      BY <1>7
    <3>3. {"store", "link", "moveTail", "compare", "next", "moveHead"} \subseteq Linked!Holding
      BY DEF Linked!Holding
    <3> QED
      BY <1>5, <1>8, <3>1, <3>2, <3>3 DEF FqKnows
  <2> QED
    BY <2>1, <2>2
<1>12. FqCounts(pos2, mh, mt)'
  <2>0. ASSUME NEW k PROVE Holders(k)' = Holders(k)
    <3>1. r.pc \in Linked!Holding /\ th[t].pc \in Linked!Holding /\ r.node = th[t].node
      BY DEF Linked!Holding
    <3> HIDE DEF FqWhole, FqAppends
    <3> QED
      BY <1>1, <3>1, HoldersAfter
  <2>1. ASSUME NEW k \in Nodes
        PROVE  CountedBy(mh[k])' = CountedBy(mh[k]) /\ CountedBy(mt[k])' = CountedBy(mt[k])
    BY <1>2 DEF CountedBy
  <2>2. CountedAt(obj.head, m) = 0 /\ CountedAt(obj.tail, m) = 0 /\ CountedBy(mh[m]) = 0 /\ CountedBy(mt[m]) = 0
    <3>1. obj.head.node # m /\ obj.tail.node # m
      BY <1>3, <1>5, <1>6
    <3>2. mh[m] \notin Threads /\ mt[m] \notin Threads
      BY <1>3 DEF FqMovers
    <3> QED
      BY <3>1, <3>2 DEF CountedAt, CountedBy
  <2>3. Cardinality(Holders(m)) = 0
    <3>1. Holders(m) = {}
      BY <1>3 DEF Holders, FqKnows
    <3> QED
      BY <3>1, FS_EmptySet
  <2>4. FromEnd(pos2, mh, obj.head, m) = 1 /\ FromEnd(pos2, mt, obj.tail, m) = 1
    <3>1. h <= l + 1 /\ l <= l + 1
      BY <1>6
    <3> QED
      BY <1>8, <3>1 DEF FromEnd
  <2>5. obj.count[m].external = 2 /\ obj.count[m].internal = 0
    BY <1>3 DEF FqOwners, Linked!NodeCounter
  <2>6. ASSUME NEW k \in Nodes, pos[k] > 0
        PROVE  /\ FromEnd(pos2, mh, obj.head, k) = FromEnd(pos, mh, obj.head, k)
               /\ FromEnd(pos2, mt, obj.tail, k) = FromEnd(pos, mt, obj.tail, k)
    BY <1>5, <1>7, <1>8, <2>6 DEF FromEnd
  <2> SUFFICES ASSUME NEW k \in Nodes, pos2[k] > 0
               PROVE  /\ obj.count[k].external = FromEnd(pos2, mh, obj.head, k) + FromEnd(pos2, mt, obj.tail, k)
                      /\ Cardinality(Holders(k)) = obj.count[k].internal + CountedAt(obj.head, k)
                                                    + CountedAt(obj.tail, k) + CountedBy(mh[k]) + CountedBy(mt[k])
                      /\ obj'.at[k] = IF obj.count[k].internal = 0 /\ obj.count[k].external = 0
                                     THEN "freed" ELSE "live"
    <3>1. \A k : /\ CountedAt(obj.head, k)' = CountedAt(obj.head, k) /\ CountedAt(obj.tail, k)' = CountedAt(obj.tail, k)
                 /\ FromEnd(pos2, mh, obj.head, k)' = FromEnd(pos2, mh, obj.head, k)
                 /\ FromEnd(pos2, mt, obj.tail, k)' = FromEnd(pos2, mt, obj.tail, k)
      BY DEF CountedAt, FromEnd
    <3> QED
      BY <2>0, <2>1, <3>1 DEF FqCounts
  <2>7. CASE k = m
    BY <1>3, <2>2, <2>3, <2>4, <2>5, <2>7
  <2>8. CASE k # m
    <3>1. pos[k] > 0 /\ obj'.at[k] = obj.at[k]
      BY <2>8
    <3> QED
      BY <2>6, <3>1 DEF FqCounts
  <2> QED
    BY <2>7, <2>8
<1> QED
  BY <1>1, <1>9, <1>10, <1>11, <1>12 DEF FqTypes

LEMMA FqLinkActKeeps ==
  ASSUME IsFiniteSet(Threads), NEW pos \in [Nodes -> Nat],
         NEW mh \in [Nodes -> Threads \cup {Null}], NEW mt \in [Nodes -> Threads \cup {Null}],
         FqWhole(pos, mh, mt), NEW t \in Threads, Linked!Link(t)
  PROVE  FqInv'
<1>0. ASSUME NEW pos2 \in [Nodes -> Nat], FqWhole(pos2, mh, mt)' PROVE FqInv'
  BY <1>0 DEF FqInv
<1> USE DEF FqWhole
<1>1. /\ th[t].pc = "link" /\ th \in [Threads -> FqThreads] /\ obj \in FqObjects
      /\ th[t] \in FqThreads /\ th[t].then \in {"idle", "countTail", "countHead"} /\ th[t].new \in Refs
      /\ obj.next \in [Nodes -> Refs] /\ obj.at \in [Nodes -> {"new", "live", "freed", "twice"}]
  BY DEF FqTypes, FqThreads, FqObjects, Linked!Link, Linked!At
<1>2. PICK n, m, ref : n = th[t].node /\ ref = th[t].new /\ m = ref.node
  OBVIOUS
<1>3. n \in Nodes /\ pos[n] > 0
  BY <1>1, <1>2 DEF FqKnows, Linked!Holding
<1>4. m \in Nodes /\ pos[m] = 0 /\ ref.count = 1 /\ obj.at[m] = "live" /\ Owns(th[t])
  <2>1. Owns(th[t])
    BY <1>1 DEF Owns
  <2> QED
    BY <1>2, <2>1 DEF FqOwners
<1>5. PICK pos2 : pos2 = [k \in Nodes |-> IF k = m THEN pos[n] + 1 ELSE pos[k]]
  OBVIOUS
<1>6. pos2 \in [Nodes -> Nat] /\ \A k \in Nodes : pos2[k] = IF k = m THEN pos[n] + 1 ELSE pos[k]
  BY <1>3, <1>5
<1>7. PICK x : x = [obj.next EXCEPT ![n] = ref]
  OBVIOUS
<1>8. x \in [Nodes -> Refs] /\ \A k \in Nodes : x[k] = IF k = n THEN ref ELSE obj.next[k]
  BY <1>1, <1>2, <1>3, <1>7
<1>9. CASE /\ obj.next[n] = Linked!Nowhere /\ th[t].then = "idle"
           /\ obj' = [obj EXCEPT !.next[n] = ref]
           /\ th' = [th EXCEPT ![t].pc = "moveTail", ![t].to = ref]
  <2>1. PICK r : r = [th[t] EXCEPT !.pc = "moveTail", !.to = ref]
    OBVIOUS
  <2>2. /\ r \in FqThreads /\ r.pc = "moveTail" /\ r.node = n /\ r.ref = th[t].ref /\ r.to = ref /\ r.then = "idle"
        /\ th' = [th EXCEPT ![t] = r]
    BY <1>1, <1>2, <1>9, <2>1 DEF FqThreads, FqPlaces
  <2>3. obj' = [obj EXCEPT !.next = x]
    BY <1>7, <1>9
  <2>4. obj' \in FqObjects /\ UNCHANGED <<obj.head, obj.tail, obj.count, obj.at>> /\ obj'.next = x
    BY <1>1, <1>8, <2>3 DEF FqObjects
  <2>5. \A u \in Threads : th'[u] = IF u = t THEN r ELSE th[u]
    BY <1>1, <2>2
  <2>6. FqOwners(pos2)'
    <3>1. ~Owns(r)
      BY <2>2 DEF Owns
    <3>2. \A u \in Threads : u # t /\ Owns(th[u]) => th[u].new.node # m
      BY <1>2, <1>4 DEF FqOwners
    <3>3. \A k \in Nodes : pos2[k] = 0 => k # m /\ pos[k] = 0
      BY <1>3, <1>6
    <3>4. \A u \in Threads : Owns(th'[u]) =>
            /\ th'[u].new.count = 1 /\ th'[u].new.node \in Nodes
            /\ pos2[th'[u].new.node] = 0 /\ obj.at[th'[u].new.node] = "live"
      BY <1>6, <2>5, <3>1, <3>2 DEF FqOwners
    <3>5. \A u, v \in Threads : Owns(th'[u]) /\ Owns(th'[v]) /\ th'[u].new.node = th'[v].new.node => u = v
      BY <2>5, <3>1 DEF FqOwners
    <3>6. ASSUME NEW k \in Nodes, pos2[k] = 0
          PROVE  /\ obj.at[k] \in {"new", "live", "freed"} /\ obj.count[k] = Linked!NodeCounter
                 /\ obj.at[k] = "live" => \E u \in Threads : Owns(th'[u]) /\ th'[u].new.node = k
      BY <1>2, <2>5, <3>3, <3>6 DEF FqOwners
    <3> QED
      BY <2>4, <3>4, <3>5, <3>6 DEF FqOwners
  <2>7. FqWhole(pos2, mh, mt)'
    <3> HIDE DEF FqWhole
    <3>1. ref \in Refs /\ ref = th[t].new /\ r.then = th[t].then /\ obj.next[n] = Linked!Nowhere
      BY <1>1, <1>2, <1>9, <2>2
    <3>2. \A k \in Nodes : obj'.next[k] = IF k = n THEN ref ELSE obj.next[k]
      BY <1>8, <2>4
    <3>3. FqAppends(pos, pos2, n, m, ref)
      BY <1>6, <2>4, <3>2 DEF FqAppends
    <3>4. UNCHANGED <<obj.head, obj.tail, obj.count>>
      BY <2>4
    <3> QED
      BY <1>1, <1>2, <1>3, <1>6, <2>2, <2>4, <2>6, <3>1, <3>3, <3>4, FqLinkKeeps
  <2> QED
    BY <1>0, <1>6, <2>7
<1>10. ASSUME obj.next[n] = Linked!Nowhere, th[t].then = "countTail", NEW j \in Nodes, obj.at[j] = "new",
              obj' = [obj EXCEPT !.next[n] = ref, !.at[j] = "live"],
              th' = [th EXCEPT ![t].pc = "moveTail", ![t].to = ref, ![t].new = Linked!Ref(1, j)]
       PROVE  FqInv'
  <2>0. Linked!Ref(1, j) \in Refs /\ Linked!Ref(1, j).count = 1 /\ Linked!Ref(1, j).node = j
    BY DEF Linked!Ref, Refs
  <2>1. PICK r : r = [th[t] EXCEPT !.pc = "moveTail", !.to = ref, !.new = Linked!Ref(1, j)]
    OBVIOUS
  <2>2. /\ r \in FqThreads /\ r.pc = "moveTail" /\ r.node = n /\ r.ref = th[t].ref /\ r.to = ref
        /\ r.then = "countTail" /\ r.new.count = 1 /\ r.new.node = j
        /\ th' = [th EXCEPT ![t] = r]
    BY <1>1, <1>2, <1>10, <2>0, <2>1 DEF FqThreads, FqPlaces
  <2>3. PICK a : a = [obj.at EXCEPT ![j] = "live"]
    OBVIOUS
  <2>4. a \in [Nodes -> {"new", "live", "freed", "twice"}] /\ \A k \in Nodes : a[k] = IF k = j THEN "live" ELSE obj.at[k]
    BY <1>1, <2>3
  <2>5. obj' = [obj EXCEPT !.next = x, !.at = a]
    BY <1>1, <1>7, <1>10, <2>3 DEF FqObjects
  <2>6. obj' \in FqObjects /\ UNCHANGED <<obj.head, obj.tail, obj.count>> /\ obj'.next = x /\ obj'.at = a
    BY <1>1, <1>8, <2>4, <2>5 DEF FqObjects
  <2>7. \A u \in Threads : th'[u] = IF u = t THEN r ELSE th[u]
    BY <1>1, <2>2
  <2>8. j # m /\ pos[j] = 0 /\ pos2[j] = 0
    <3>1. pos[j] = 0
      BY <1>10 DEF FqCounts
    <3> QED
      BY <1>4, <1>6, <1>10, <3>1
  <2>9. FqOwners(pos2)'
    <3>1. Owns(r)
      BY <2>2 DEF Owns
    <3>2. \A u \in Threads : u # t /\ Owns(th[u]) => th[u].new.node # m /\ th[u].new.node # j
      BY <1>2, <1>4, <1>10 DEF FqOwners
    <3>3. \A k \in Nodes : pos2[k] = 0 => k # m /\ pos[k] = 0
      BY <1>3, <1>6
    <3>4. \A u \in Threads : Owns(th'[u]) =>
            /\ th'[u].new.count = 1 /\ th'[u].new.node \in Nodes
            /\ pos2[th'[u].new.node] = 0 /\ a[th'[u].new.node] = "live"
      BY <1>6, <2>2, <2>4, <2>7, <2>8, <3>2 DEF FqOwners
    <3>5. \A u, v \in Threads : Owns(th'[u]) /\ Owns(th'[v]) /\ th'[u].new.node = th'[v].new.node => u = v
      BY <2>2, <2>7, <3>2 DEF FqOwners
    <3>6. ASSUME NEW k \in Nodes, pos2[k] = 0
          PROVE  /\ a[k] \in {"new", "live", "freed"} /\ obj.count[k] = Linked!NodeCounter
                 /\ a[k] = "live" => \E u \in Threads : Owns(th'[u]) /\ th'[u].new.node = k
      BY <1>2, <2>2, <2>4, <2>7, <3>1, <3>3, <3>6 DEF FqOwners
    <3> QED
      BY <2>6, <3>4, <3>5, <3>6 DEF FqOwners
  <2>10. \A k \in Nodes : k = m \/ pos[k] > 0 => obj'.at[k] = obj.at[k]
    BY <2>4, <2>6, <2>8
  <2>11. FqWhole(pos2, mh, mt)'
    <3> HIDE DEF FqWhole
    <3>1. ref \in Refs /\ ref = th[t].new /\ r.then = th[t].then /\ obj.next[n] = Linked!Nowhere
      BY <1>1, <1>2, <1>10, <2>2
    <3>2. \A k \in Nodes : obj'.next[k] = IF k = n THEN ref ELSE obj.next[k]
      BY <1>8, <2>6
    <3>3. FqAppends(pos, pos2, n, m, ref)
      BY <1>6, <2>10, <3>2 DEF FqAppends
    <3> QED
      BY <1>1, <1>2, <1>3, <1>6, <2>2, <2>6, <2>9, <3>1, <3>3, FqLinkKeeps
  <2> QED
    BY <1>0, <1>6, <2>11
<1>11. CASE /\ obj.next[n] # Linked!Nowhere /\ th[t].then = "idle"
            /\ obj' = [obj EXCEPT !.at[m] = Linked!Freed(m)]
            /\ th' = [th EXCEPT ![t].pc = "moveTail", ![t].to = obj.next[n], ![t].new = Linked!Nowhere]
  <2>0. Linked!Nowhere \in Refs /\ obj.next[n] \in Refs
    BY <1>1, <1>3 DEF Linked!Ref, Refs, Linked!Nowhere
  <2>1. PICK r : r = [th[t] EXCEPT !.pc = "moveTail", !.to = obj.next[n], !.new = Linked!Nowhere]
    OBVIOUS
  <2>2. /\ r \in FqThreads /\ r.pc = "moveTail" /\ r.node = n /\ r.ref = th[t].ref /\ r.to = obj.next[n]
        /\ r.then = "idle" /\ th' = [th EXCEPT ![t] = r]
    BY <1>1, <1>2, <1>11, <2>0, <2>1 DEF FqThreads, FqPlaces
  <2>3. PICK a : a = [obj.at EXCEPT ![m] = "freed"]
    OBVIOUS
  <2>4. a \in [Nodes -> {"new", "live", "freed", "twice"}] /\ \A k \in Nodes : a[k] = IF k = m THEN "freed" ELSE obj.at[k]
    BY <1>1, <1>4, <2>3
  <2>5. obj' = [obj EXCEPT !.at = a]
    BY <1>1, <1>4, <1>11, <2>3 DEF FqObjects, Linked!Freed
  <2>6. obj' \in FqObjects /\ UNCHANGED <<obj.head, obj.tail, obj.next, obj.count>> /\ obj'.at = a
    BY <1>1, <2>4, <2>5 DEF FqObjects
  <2>7. \A u \in Threads : th'[u] = IF u = t THEN r ELSE th[u]
    BY <1>1, <2>2
  <2>8. FqOwners(pos)'
    <3>1. ~Owns(r)
      BY <2>2 DEF Owns
    <3>2. \A u \in Threads : u # t /\ Owns(th[u]) => th[u].new.node # m
      BY <1>2, <1>4 DEF FqOwners
    <3>3. \A u \in Threads : Owns(th'[u]) =>
            /\ th'[u].new.count = 1 /\ th'[u].new.node \in Nodes
            /\ pos[th'[u].new.node] = 0 /\ a[th'[u].new.node] = "live"
      BY <2>4, <2>7, <3>1, <3>2 DEF FqOwners
    <3>4. \A u, v \in Threads : Owns(th'[u]) /\ Owns(th'[v]) /\ th'[u].new.node = th'[v].new.node => u = v
      BY <2>7, <3>1 DEF FqOwners
    <3>5. ASSUME NEW k \in Nodes, pos[k] = 0
          PROVE  /\ a[k] \in {"new", "live", "freed"} /\ obj.count[k] = Linked!NodeCounter
                 /\ a[k] = "live" => \E u \in Threads : Owns(th'[u]) /\ th'[u].new.node = k
      BY <1>2, <2>4, <2>7, <3>5 DEF FqOwners
    <3> QED
      BY <2>6, <3>3, <3>4, <3>5 DEF FqOwners
  <2>9. /\ r.pc \in Linked!Holding /\ th[t].pc \in Linked!Holding /\ r.pc \notin {"take", "free"}
        /\ th[t].pc \notin {"take", "free"}
    BY <1>1, <2>2 DEF Linked!Holding
  <2>10. FqKnows(pos, r)
    BY <1>1, <1>2, <1>11, <2>2 DEF FqKnows, Linked!Holding
  <2>11. FqWhole(pos, mh, mt)'
    <3> HIDE DEF FqWhole
    <3> QED
      BY <1>1, <1>2, <1>4, <2>2, <2>4, <2>6, <2>8, <2>9, <2>10, FqNewNode
  <2> QED
    BY <1>0, <2>11
<1>12. CASE /\ obj.next[n] # Linked!Nowhere /\ th[t].then # "idle" /\ obj' = obj
            /\ th' = [th EXCEPT ![t].pc = "moveTail", ![t].to = obj.next[n], ![t].new = th[t].new]
  <2>0. obj.next[n] \in Refs
    BY <1>1, <1>3
  <2>1. PICK r : r = [th[t] EXCEPT !.pc = "moveTail", !.to = obj.next[n]]
    OBVIOUS
  <2>2. /\ r \in FqThreads /\ r.pc = "moveTail" /\ r.node = n /\ r.ref = th[t].ref /\ r.to = obj.next[n]
        /\ r.then = th[t].then /\ r.new = th[t].new /\ th' = [th EXCEPT ![t] = r]
    <3>1. "moveTail" \in FqPlaces
      BY DEF FqPlaces
    <3>2. [th[t] EXCEPT !.pc = "moveTail", !.to = obj.next[n], !.new = th[t].new] = r
      BY <1>1, <2>1 DEF FqThreads
    <3>3. r \in FqThreads
      BY <1>1, <2>0, <2>1, <3>1 DEF FqThreads
    <3>4. r.pc = "moveTail" /\ r.node = n /\ r.ref = th[t].ref /\ r.to = obj.next[n] /\ r.then = th[t].then /\ r.new = th[t].new
      BY <1>1, <1>2, <2>1 DEF FqThreads
    <3>5. th' = [th EXCEPT ![t] = [th[t] EXCEPT !.pc = "moveTail", !.to = obj.next[n], !.new = th[t].new]]
      BY <1>1, <1>12
    <3> QED
      BY <3>2, <3>3, <3>4, <3>5
  <2>3. th[t].then = "countTail"
    BY <1>1, <1>12 DEF FqKnows
  <2>4. Owns(r) /\ r.pc \in Linked!Holding /\ th[t].pc \in Linked!Holding /\ r.pc \notin {"take", "free"}
        /\ th[t].pc \notin {"take", "free"}
    BY <1>1, <2>2, <2>3 DEF Linked!Holding, Owns
  <2>5. FqKnows(pos, r)
    BY <1>1, <1>2, <1>12, <2>2 DEF FqKnows, Linked!Holding
  <2>6. FqWhole(pos, mh, mt)'
    <3>1. obj' \in FqObjects /\ UNCHANGED <<obj.head, obj.tail, obj.next, obj.count, obj.at>>
      BY <1>1, <1>12
    <3> HIDE DEF FqWhole
    <3> QED
      BY <1>1, <1>2, <1>4, <2>2, <2>4, <2>5, <3>1, FqThreadMoves
  <2> QED
    BY <1>0, <2>6
<1> QED
  <2>1. CASE obj.next[n] = Linked!Nowhere
    BY <1>2, <1>9, <1>10, <2>1 DEF Linked!Link
  <2>2. CASE obj.next[n] # Linked!Nowhere
    <3>1. CASE th[t].then = "idle"
      BY <1>2, <1>11, <2>2, <3>1 DEF Linked!Link
    <3>2. CASE th[t].then # "idle"
      BY <1>2, <1>12, <2>2, <3>2 DEF Linked!Link
    <3> QED
      BY <3>1, <3>2
  <2> QED
    BY <2>1, <2>2

\* The tail moves on from a node: who moved it settles the counts of that node.
LEMMA FqTailMoves ==
  ASSUME IsFiniteSet(Threads), NEW pos \in [Nodes -> Nat],
         NEW mh \in [Nodes -> Threads \cup {Null}], NEW mt \in [Nodes -> Threads \cup {Null}],
         FqWhole(pos, mh, mt), NEW t \in Threads, th[t].pc = "moveTail", obj.tail = th[t].ref,
         NEW n, n = th[t].node, NEW to, to = th[t].to, NEW mt2, mt2 = [mt EXCEPT ![n] = t],
         NEW r \in FqThreads, th' = [th EXCEPT ![t] = r], r.pc = "free", r.node = n, r.ref = obj.tail,
         r.new = th[t].new, r.then = th[t].then, obj' \in FqObjects,
         UNCHANGED <<obj.head, obj.next, obj.count, obj.at>>, obj'.tail = to
  PROVE  FqWhole(pos, mh, mt2)'
<1> USE DEF FqWhole
<1>1. /\ th \in [Threads -> FqThreads] /\ obj \in FqObjects /\ obj.head.count \in Nat /\ obj.tail.count \in Nat
  BY DEF FqTypes, FqObjects, Refs
<1>2. \A u \in Threads : th'[u] = IF u = t THEN r ELSE th[u]
  BY <1>1
<1>3. /\ n \in Nodes /\ n = obj.tail.node /\ to = obj.next[n] /\ to # Linked!Nowhere
  BY DEF FqKnows, Linked!Holding
<1>4. PICK h, l \in Nat : h = pos[obj.head.node] /\ l = pos[n]
  BY <1>3 DEF FqOrder
<1>5. /\ 1 <= h /\ h <= l /\ to.count = 1 /\ to.node \in Nodes /\ pos[to.node] = l + 1
  BY <1>3, <1>4 DEF FqOrder
<1>6. mh[n] \notin Threads /\ mt[n] \notin Threads
  <2>1. FqMovers(pos, mh, mt)
    OBVIOUS
  <2> HIDE DEF FqWhole
  <2>2. mh[n] \in Threads => l < h
    BY <2>1, <1>3, <1>4 DEF FqMovers
  <2>3. mt[n] \in Threads => l < l
    BY <2>1, <1>3, <1>4 DEF FqMovers
  <2> QED
    BY <1>5, <2>2, <2>3
<1>7. /\ mt2 \in [Nodes -> Threads \cup {Null}]
       /\ \A k \in Nodes : mt2[k] = IF k = n THEN t ELSE mt[k]
  BY <1>3
<1>8. FqTypes'
  BY <1>1 DEF FqTypes
<1>9. FqOrder(pos)'
  <2>1. \A k \in Nodes : pos[k] <= l + 1 + 1
    BY <1>3, <1>4 DEF FqOrder
  <2>2. ASSUME NEW k \in Nodes, pos[k] > 0, pos[k] < l + 1 PROVE obj.next[k] # Linked!Nowhere
    <3>1. CASE pos[k] = l
      BY <1>3, <1>4, <2>2, <3>1 DEF FqOrder
    <3>2. CASE pos[k] < l
      BY <1>3, <1>4, <2>2, <3>2 DEF FqOrder
    <3> QED
      BY <1>4, <2>2, <3>1, <3>2
  <2>3. h <= l + 1
    BY <1>5
  <2> QED
    BY <1>4, <1>5, <2>1, <2>2, <2>3 DEF FqOrder
<1>10. Owns(r) <=> Owns(th[t])
  BY DEF Owns
<1>11. FqOwners(pos)'
  BY <1>2, <1>10 DEF FqOwners
<1>12. \A u \in Threads : FqKnows(pos, th[u])'
  <2> SUFFICES ASSUME NEW u \in Threads PROVE FqKnows(pos, th[u])'
    OBVIOUS
  <2>1. FqKnows(pos, th'[u])
    <3>1. CASE u = t
      <4>1. r.node \in Nodes /\ pos[r.node] > 0
        BY <1>3, <1>4, <1>5
      <4> QED
        BY <1>2, <3>1, <4>1 DEF FqKnows
    <3>2. CASE u # t
      BY <1>2, <3>2
    <3> QED
      BY <3>1, <3>2
  <2>2. pos[obj.tail.node] = l /\ pos[obj'.tail.node] = l + 1
    BY <1>3, <1>4, <1>5
  <2>3. {"store", "link", "moveTail", "compare", "next", "moveHead"} \subseteq Linked!Holding
    BY DEF Linked!Holding
  <2>4. th'[u].node \in Nodes => pos[th'[u].node] \in Nat
    OBVIOUS
  <2> QED
    BY <1>4, <2>1, <2>2, <2>3, <2>4 DEF FqKnows
<1>13. FqMovers(pos, mh, mt2)'
  <2>1. ASSUME NEW k \in Nodes, mh[k] \in Threads
        PROVE  /\ th'[mh[k]].pc \in {"take", "free"} /\ th'[mh[k]].node = k
               /\ 0 < pos[k] /\ pos[k] < h /\ mh[k] # mt2[k]
    BY <1>2, <1>4, <1>6, <1>7, <2>1 DEF FqMovers
  <2>2. ASSUME NEW k \in Nodes, mt2[k] \in Threads
        PROVE  th'[mt2[k]].pc = "free" /\ th'[mt2[k]].node = k /\ 0 < pos[k] /\ pos[k] < l + 1
    <3>1. CASE k = n
      <4>1. mt2[k] = t /\ th'[t] = r
        BY <1>2, <1>7, <3>1
      <4>2. 0 < pos[k] /\ pos[k] < l + 1
        BY <1>4, <1>5, <3>1
      <4> QED
        BY <3>1, <4>1, <4>2
    <3>2. CASE k # n
      <4>1. /\ mt2[k] = mt[k] /\ mt2[k] # t /\ th[mt[k]].pc = "free" /\ th[mt[k]].node = k
            /\ 0 < pos[k] /\ pos[k] < l
        BY <1>3, <1>4, <1>7, <2>2, <3>2 DEF FqMovers
      <4> QED
        BY <1>2, <1>4, <2>2, <4>1
    <3> QED
      BY <3>1, <3>2
  <2>3. ASSUME NEW u \in Threads
        PROVE  /\ th'[u].pc = "take" => mh[th'[u].node] = u
               /\ th'[u].pc = "free" => mh[th'[u].node] = u \/ mt2[th'[u].node] = u
    <3>1. CASE u = t
      BY <1>2, <1>3, <1>7, <3>1
    <3>2. CASE u # t
      <4>1. th'[u] = th[u]
        BY <1>2, <3>2
      <4>2. th[u].pc = "free" => th[u].node \in Nodes
        BY DEF FqKnows, Linked!Holding
      <4>3. th[u].pc = "free" /\ mt[th[u].node] = u => mt2[th[u].node] = u
        BY <1>6, <1>7, <4>2
      <4>4. /\ th[u].pc = "take" => mh[th[u].node] = u
            /\ th[u].pc = "free" => mh[th[u].node] = u \/ mt[th[u].node] = u
        BY DEF FqMovers
      <4> QED
        BY <4>1, <4>3, <4>4
    <3> QED
      BY <3>1, <3>2
  <2> QED
    BY <1>4, <1>5, <2>1, <2>2, <2>3, SMTT(30) DEF FqMovers
<1>14. FqCounts(pos, mh, mt2)'
  <2>1. ASSUME NEW k PROVE Holders(k)' = Holders(k)
    <3>1. r.pc \in Linked!Holding /\ th[t].pc \in Linked!Holding /\ r.node = th[t].node
      BY DEF Linked!Holding
    <3> HIDE DEF FqWhole
    <3> QED
      BY <1>1, <3>1, HoldersAfter
  <2>2. ASSUME NEW k \in Nodes, pos[k] > 0
        PROVE  FromEnd(pos, mt2, obj.tail, k)' = FromEnd(pos, mt, obj.tail, k)
    <3>1. CASE k = n
      BY <1>3, <1>4, <1>7, <3>1 DEF FromEnd
    <3>2. CASE k # n
      <4>1. pos[k] # l
        BY <1>3, <1>4, <2>2, <3>2 DEF FqOrder
      <4>2. pos[obj.tail.node] <= pos[k] <=> pos[obj'.tail.node] <= pos[k]
        BY <1>3, <1>4, <1>5, <4>1
      <4> QED
        BY <1>7, <3>2, <4>2 DEF FromEnd
    <3> QED
      BY <3>1, <3>2
  <2>3. ASSUME NEW k \in Nodes
        PROVE  /\ CountedBy(mh[k])' = CountedBy(mh[k])
               /\ FromEnd(pos, mh, obj.head, k)' = FromEnd(pos, mh, obj.head, k)
               /\ CountedAt(obj.head, k)' = CountedAt(obj.head, k)
    <3>1. mh[k] \in Threads => th'[mh[k]].ref = th[mh[k]].ref
      BY <1>2 DEF FqMovers
    <3> QED
      BY <3>1 DEF CountedBy, FromEnd, CountedAt
  <2>4. ASSUME NEW k \in Nodes
        PROVE  /\ CountedBy(mt2[k])' = IF k = n THEN obj.tail.count - 1 ELSE CountedBy(mt[k])
               /\ CountedAt(obj.tail, k)' = 0
               /\ CountedAt(obj.tail, k) = IF k = n THEN obj.tail.count - 1 ELSE 0
               /\ k = n => CountedBy(mt[k]) = 0
    <3>1. CASE k = n
      <4>1. mt2[k] = t /\ th'[t].ref = obj.tail
        BY <1>2, <1>7, <3>1
      <4>2. CountedBy(mt2[k])' = obj.tail.count - 1 /\ CountedBy(mt[k]) = 0
        BY <1>6, <3>1, <4>1 DEF CountedBy
      <4>3. CountedAt(obj.tail, k)' = 0 /\ CountedAt(obj.tail, k) = obj.tail.count - 1
        BY <1>3, <1>4, <1>5, <3>1 DEF CountedAt
      <4> QED
        BY <3>1, <4>2, <4>3
    <3>2. CASE k # n
      <4>1. mt2[k] = mt[k] /\ (mt[k] \in Threads => th'[mt[k]].ref = th[mt[k]].ref)
        BY <1>2, <1>7, <3>2 DEF FqMovers
      <4>2. CountedBy(mt2[k])' = CountedBy(mt[k])
        BY <4>1 DEF CountedBy
      <4>3. CountedAt(obj.tail, k)' = 0 /\ CountedAt(obj.tail, k) = 0
        BY <1>3, <1>5, <3>2 DEF CountedAt
      <4> QED
        BY <3>2, <4>2, <4>3
    <3> QED
      BY <3>1, <3>2
  <2> SUFFICES ASSUME NEW k \in Nodes, pos[k] > 0
               PROVE  (/\ obj.count[k].external = FromEnd(pos, mh, obj.head, k) + FromEnd(pos, mt2, obj.tail, k)
                       /\ Cardinality(Holders(k)) = obj.count[k].internal + CountedAt(obj.head, k)
                                                     + CountedAt(obj.tail, k) + CountedBy(mh[k]) + CountedBy(mt2[k])
                       /\ obj.at[k] = IF obj.count[k].internal = 0 /\ obj.count[k].external = 0
                                      THEN "freed" ELSE "live")'
    BY DEF FqCounts
  <2>5. obj.count[k].external = FromEnd(pos, mh, obj.head, k) + FromEnd(pos, mt, obj.tail, k)
    BY DEF FqCounts
  <2>6. PICK i \in Int : i = obj.count[k].internal
    BY <1>1 DEF FqObjects
  <2>7. Cardinality(Holders(k)) = i + CountedAt(obj.head, k) + CountedAt(obj.tail, k) + CountedBy(mh[k]) + CountedBy(mt[k])
    BY <2>6 DEF FqCounts
  <2>8. obj.tail.count \in Nat /\ CountedAt(obj.head, k) \in Int /\ CountedBy(mh[k]) \in Int /\ CountedBy(mt[k]) \in Int
    BY <1>1 DEF CountedAt, CountedBy, FqThreads, Refs
  <2>9. Cardinality(Holders(k))
          = i + CountedAt(obj.head, k) + CountedAt(obj.tail, k)' + CountedBy(mh[k]) + CountedBy(mt2[k])'
    BY <2>4, <2>6, <2>7, <2>8
  <2>10. obj.at[k] = IF obj.count[k].internal = 0 /\ obj.count[k].external = 0 THEN "freed" ELSE "live"
    BY DEF FqCounts
  <2> QED
    BY <2>1, <2>2, <2>3, <2>5, <2>6, <2>9, <2>10
<1> QED
  BY <1>8, <1>9, <1>11, <1>12, <1>13, <1>14

\* The head moves on from a node: who moved it takes the value and settles the counts of that node.
LEMMA FqHeadMoves ==
  ASSUME IsFiniteSet(Threads), NEW pos \in [Nodes -> Nat],
         NEW mh \in [Nodes -> Threads \cup {Null}], NEW mt \in [Nodes -> Threads \cup {Null}],
         FqWhole(pos, mh, mt), NEW t \in Threads, th[t].pc = "moveHead", obj.head = th[t].ref,
         NEW n, n = th[t].node, NEW to, to = th[t].to, NEW mh2, mh2 = [mh EXCEPT ![n] = t],
         NEW r \in FqThreads, th' = [th EXCEPT ![t] = r], r.pc = "take", r.node = n, r.ref = obj.head,
         r.new = th[t].new, r.then = th[t].then, obj' \in FqObjects,
         UNCHANGED <<obj.tail, obj.next, obj.count, obj.at>>, obj'.head = to
  PROVE  FqWhole(pos, mh2, mt)'
<1> USE DEF FqWhole
<1>1. /\ th \in [Threads -> FqThreads] /\ obj \in FqObjects /\ obj.head.count \in Nat /\ obj.tail.count \in Nat
  BY DEF FqTypes, FqObjects, Refs
<1>2. \A u \in Threads : th'[u] = IF u = t THEN r ELSE th[u]
  BY <1>1
<1>3. /\ n \in Nodes /\ n = obj.head.node /\ pos[n] < pos[obj.tail.node] /\ th[t].then = "idle" /\ to = obj.next[n] /\ to # Linked!Nowhere
  BY DEF FqKnows, Linked!Holding
<1>4. PICK h, l \in Nat : h = pos[n] /\ l = pos[obj.tail.node]
  BY <1>3 DEF FqOrder
<1>5. /\ 1 <= h /\ h < l /\ to.count = 1 /\ to.node \in Nodes /\ pos[to.node] = h + 1
  BY <1>3, <1>4 DEF FqOrder
<1>6. mh[n] \notin Threads /\ mt[n] # t
  BY <1>3, <1>4, <1>5, SMTT(30) DEF FqMovers
<1>7. /\ mh2 \in [Nodes -> Threads \cup {Null}]
       /\ \A k \in Nodes : mh2[k] = IF k = n THEN t ELSE mh[k]
  BY <1>3
<1>8. FqTypes'
  BY <1>1 DEF FqTypes
<1>9. FqOrder(pos)'
  <2>1. 1 <= h + 1 /\ h + 1 <= l
    BY <1>5
  <2>2. /\ obj'.head.node \in Nodes
        /\ 1 <= pos[obj'.head.node] /\ pos[obj'.head.node] <= pos[obj'.tail.node]
    BY <1>4, <1>5, <2>1
  <2> QED
    BY <2>2 DEF FqOrder
<1>10. Owns(r) <=> Owns(th[t])
  BY DEF Owns
<1>11. FqOwners(pos)'
  BY <1>2, <1>10 DEF FqOwners
<1>12. \A u \in Threads : FqKnows(pos, th[u])'
  <2> SUFFICES ASSUME NEW u \in Threads PROVE FqKnows(pos, th[u])'
    OBVIOUS
  <2>1. FqKnows(pos, th'[u])
    <3>1. CASE u = t
      <4>1. r.node \in Nodes /\ pos[r.node] > 0
        BY <1>3, <1>4, <1>5
      <4> QED
        BY <1>2, <3>1, <4>1 DEF FqKnows
    <3>2. CASE u # t
      BY <1>2, <3>2
    <3> QED
      BY <3>1, <3>2
  <2>2. pos[obj.head.node] = h /\ pos[obj'.head.node] = h + 1
    BY <1>3, <1>4, <1>5
  <2>3. {"store", "link", "moveTail", "compare", "next", "moveHead"} \subseteq Linked!Holding
    BY DEF Linked!Holding
  <2>4. th'[u].node \in Nodes => pos[th'[u].node] \in Nat
    OBVIOUS
  <2> QED
    BY <1>4, <2>1, <2>2, <2>3, <2>4 DEF FqKnows
<1>13. FqMovers(pos, mh2, mt)'
  <2>1. ASSUME NEW k \in Nodes, mt[k] \in Threads
        PROVE  th'[mt[k]].pc = "free" /\ th'[mt[k]].node = k /\ 0 < pos[k] /\ pos[k] < l
    BY <1>2, <1>4, <1>6, <2>1 DEF FqMovers
  <2>2. ASSUME NEW k \in Nodes, mh2[k] \in Threads
        PROVE  /\ th'[mh2[k]].pc \in {"take", "free"} /\ th'[mh2[k]].node = k
               /\ 0 < pos[k] /\ pos[k] < h + 1 /\ mh2[k] # mt[k]
    <3>1. CASE k = n
      <4>1. mh2[k] = t /\ th'[t] = r /\ mt[k] # t
        BY <1>2, <1>6, <1>7, <3>1
      <4>2. 0 < pos[k] /\ pos[k] < h + 1
        BY <1>4, <1>5, <3>1
      <4> QED
        BY <3>1, <4>1, <4>2
    <3>2. CASE k # n
      <4>1. /\ mh2[k] = mh[k] /\ mh2[k] # t /\ th[mh[k]].pc \in {"take", "free"} /\ th[mh[k]].node = k
            /\ 0 < pos[k] /\ pos[k] < h /\ mh[k] # mt[k]
        BY <1>3, <1>4, <1>7, <2>2, <3>2 DEF FqMovers
      <4> QED
        BY <1>2, <1>4, <2>2, <4>1
    <3> QED
      BY <3>1, <3>2
  <2>3. ASSUME NEW u \in Threads
        PROVE  /\ th'[u].pc = "take" => mh2[th'[u].node] = u
               /\ th'[u].pc = "free" => mh2[th'[u].node] = u \/ mt[th'[u].node] = u
    <3>1. CASE u = t
      BY <1>2, <1>3, <1>7, <3>1
    <3>2. CASE u # t
      <4>1. th'[u] = th[u]
        BY <1>2, <3>2
      <4>2. th[u].pc \in {"take", "free"} => th[u].node \in Nodes
        BY DEF FqKnows, Linked!Holding
      <4>3. th[u].pc \in {"take", "free"} /\ mh[th[u].node] = u => mh2[th[u].node] = u
        BY <1>6, <1>7, <4>2
      <4>4. /\ th[u].pc = "take" => mh[th[u].node] = u
            /\ th[u].pc = "free" => mh[th[u].node] = u \/ mt[th[u].node] = u
        BY DEF FqMovers
      <4> QED
        BY <4>1, <4>3, <4>4
    <3> QED
      BY <3>1, <3>2
  <2> QED
    BY <1>4, <1>5, <2>1, <2>2, <2>3 DEF FqMovers
<1>14. FqCounts(pos, mh2, mt)'
  <2>1. ASSUME NEW k PROVE Holders(k)' = Holders(k)
    <3>1. r.pc \in Linked!Holding /\ th[t].pc \in Linked!Holding /\ r.node = th[t].node
      BY DEF Linked!Holding
    <3> HIDE DEF FqWhole
    <3> QED
      BY <1>1, <3>1, HoldersAfter
  <2>2. ASSUME NEW k \in Nodes, pos[k] > 0
        PROVE  FromEnd(pos, mh2, obj.head, k)' = FromEnd(pos, mh, obj.head, k)
    <3>1. CASE k = n
      BY <1>3, <1>4, <1>7, <3>1 DEF FromEnd
    <3>2. CASE k # n
      <4>1. pos[k] # h
        BY <1>3, <1>4, <2>2, <3>2 DEF FqOrder
      <4>2. pos[obj.head.node] <= pos[k] <=> pos[obj'.head.node] <= pos[k]
        BY <1>3, <1>4, <1>5, <4>1
      <4> QED
        BY <1>7, <3>2, <4>2 DEF FromEnd
    <3> QED
      BY <3>1, <3>2
  <2>3. ASSUME NEW k \in Nodes
        PROVE  /\ CountedBy(mt[k])' = CountedBy(mt[k])
               /\ FromEnd(pos, mt, obj.tail, k)' = FromEnd(pos, mt, obj.tail, k)
               /\ CountedAt(obj.tail, k)' = CountedAt(obj.tail, k)
    <3>1. mt[k] \in Threads => th'[mt[k]].ref = th[mt[k]].ref
      BY <1>2 DEF FqMovers
    <3> QED
      BY <3>1 DEF CountedBy, FromEnd, CountedAt
  <2>4. ASSUME NEW k \in Nodes
        PROVE  /\ CountedBy(mh2[k])' = IF k = n THEN obj.head.count - 1 ELSE CountedBy(mh[k])
               /\ CountedAt(obj.head, k)' = 0
               /\ CountedAt(obj.head, k) = IF k = n THEN obj.head.count - 1 ELSE 0
               /\ k = n => CountedBy(mh[k]) = 0
    <3>1. CASE k = n
      <4>1. mh2[k] = t /\ th'[t].ref = obj.head
        BY <1>2, <1>7, <3>1
      <4>2. CountedBy(mh2[k])' = obj.head.count - 1 /\ CountedBy(mh[k]) = 0
        BY <1>6, <3>1, <4>1 DEF CountedBy
      <4>3. CountedAt(obj.head, k)' = 0 /\ CountedAt(obj.head, k) = obj.head.count - 1
        BY <1>3, <1>4, <1>5, <3>1 DEF CountedAt
      <4> QED
        BY <3>1, <4>2, <4>3
    <3>2. CASE k # n
      <4>1. mh2[k] = mh[k] /\ (mh[k] \in Threads => th'[mh[k]].ref = th[mh[k]].ref)
        BY <1>2, <1>7, <3>2 DEF FqMovers
      <4>2. CountedBy(mh2[k])' = CountedBy(mh[k])
        BY <4>1 DEF CountedBy
      <4>3. CountedAt(obj.head, k)' = 0 /\ CountedAt(obj.head, k) = 0
        BY <1>3, <1>5, <3>2 DEF CountedAt
      <4> QED
        BY <3>2, <4>2, <4>3
    <3> QED
      BY <3>1, <3>2
  <2> SUFFICES ASSUME NEW k \in Nodes, pos[k] > 0
               PROVE  (/\ obj.count[k].external = FromEnd(pos, mh2, obj.head, k) + FromEnd(pos, mt, obj.tail, k)
                       /\ Cardinality(Holders(k)) = obj.count[k].internal + CountedAt(obj.head, k)
                                                     + CountedAt(obj.tail, k) + CountedBy(mh2[k]) + CountedBy(mt[k])
                       /\ obj.at[k] = IF obj.count[k].internal = 0 /\ obj.count[k].external = 0
                                      THEN "freed" ELSE "live")'
    BY DEF FqCounts
  <2>5. obj.count[k].external = FromEnd(pos, mh, obj.head, k) + FromEnd(pos, mt, obj.tail, k)
    BY DEF FqCounts
  <2>6. PICK i \in Int : i = obj.count[k].internal
    BY <1>1 DEF FqObjects
  <2>7. Cardinality(Holders(k)) = i + CountedAt(obj.head, k) + CountedAt(obj.tail, k) + CountedBy(mh[k]) + CountedBy(mt[k])
    BY <2>6 DEF FqCounts
  <2>8. obj.head.count \in Nat /\ CountedAt(obj.tail, k) \in Int /\ CountedBy(mt[k]) \in Int /\ CountedBy(mh[k]) \in Int
    BY <1>1 DEF CountedAt, CountedBy, FqThreads, Refs
  <2>9. Cardinality(Holders(k))
          = i + CountedAt(obj.head, k)' + CountedAt(obj.tail, k) + CountedBy(mh2[k])' + CountedBy(mt[k])
    BY <2>4, <2>6, <2>7, <2>8
  <2>10. obj.at[k] = IF obj.count[k].internal = 0 /\ obj.count[k].external = 0 THEN "freed" ELSE "live"
    BY DEF FqCounts
  <2> QED
    BY <2>1, <2>2, <2>3, <2>5, <2>6, <2>9, <2>10
<1> QED
  BY <1>8, <1>9, <1>11, <1>12, <1>13, <1>14

\* A thread is done with its node n: what it had counted is settled, and the last one out frees the node.
FqSettles(pos, mh, mt, mh2, mt2, t, n, c) ==
  /\ \A k \in Nodes : k # n => mh2[k] = mh[k] /\ mt2[k] = mt[k]
  /\ mh2[n] \in {mh[n], Null} /\ mh2[n] # t /\ (mh[n] # t => mh2[n] = mh[n])
  /\ mt2[n] \in {mt[n], Null} /\ mt2[n] # t /\ (mt[n] # t => mt2[n] = mt[n])
  /\ c.external = FromEnd(pos, mh2, obj.head, n) + FromEnd(pos, mt2, obj.tail, n)
  /\ c.internal + CountedBy(mh2[n]) + CountedBy(mt2[n]) + 1
       = obj.count[n].internal + CountedBy(mh[n]) + CountedBy(mt[n])
  /\ \A k \in Nodes : obj'.count[k] = IF k = n THEN c ELSE obj.count[k]
  /\ \A k \in Nodes : obj'.at[k] = IF k = n THEN (IF c.internal = 0 /\ c.external = 0 THEN "freed" ELSE "live")
                                   ELSE obj.at[k]

LEMMA FqSettleKeeps ==
  ASSUME IsFiniteSet(Threads), Null \notin Threads, NEW pos \in [Nodes -> Nat],
         NEW mh \in [Nodes -> Threads \cup {Null}], NEW mt \in [Nodes -> Threads \cup {Null}],
         FqWhole(pos, mh, mt), NEW t \in Threads, th[t].pc \in {"free", "release"}, NEW n, n = th[t].node,
         NEW mh2 \in [Nodes -> Threads \cup {Null}], NEW mt2 \in [Nodes -> Threads \cup {Null}],
         NEW c \in [internal : Int, external : Int], FqSettles(pos, mh, mt, mh2, mt2, t, n, c),
         NEW r \in FqThreads, th' = [th EXCEPT ![t] = r], r.pc \in {"idle", "countTail", "countHead"},
         r.then = "idle", r.pc = th[t].then, r.pc = "countTail" => r.new = th[t].new,
         obj' \in FqObjects, UNCHANGED <<obj.head, obj.tail, obj.next>>
  PROVE  FqWhole(pos, mh2, mt2)'
<1> USE DEF FqWhole, FqSettles
<1>1. /\ th \in [Threads -> FqThreads] /\ obj \in FqObjects /\ obj.head.count \in Nat /\ obj.tail.count \in Nat
  BY DEF FqTypes, FqObjects, Refs
<1>2. \A u \in Threads : th'[u] = IF u = t THEN r ELSE th[u]
  BY <1>1
<1>3. n \in Nodes /\ pos[n] > 0
  BY DEF FqKnows, Linked!Holding
<1>4. \A k \in Nodes : /\ mh2[k] \in Threads => mh2[k] = mh[k] /\ mh2[k] # t
                       /\ mt2[k] \in Threads => mt2[k] = mt[k] /\ mt2[k] # t
  <2> SUFFICES ASSUME NEW k \in Nodes
               PROVE  /\ mh2[k] \in Threads => mh2[k] = mh[k] /\ mh2[k] # t
                      /\ mt2[k] \in Threads => mt2[k] = mt[k] /\ mt2[k] # t
    OBVIOUS
  <2>1. CASE k = n
    BY <2>1
  <2>2. CASE k # n
    BY <2>2 DEF FqMovers
  <2> QED
    BY <2>1, <2>2
<1>5. FqTypes' /\ FqOrder(pos)'
  BY <1>1 DEF FqTypes, FqOrder
<1>6. Owns(r) <=> Owns(th[t])
  BY DEF Owns
<1>7. \A k \in Nodes : pos[k] = 0 => obj'.at[k] = obj.at[k] /\ obj'.count[k] = obj.count[k]
  BY <1>3
<1>8. FqOwners(pos)'
  <2>1. Owns(r) => r.new = th[t].new
    BY DEF Owns
  <2>2. \A u \in Threads : Owns(th'[u]) => Owns(th[u]) /\ th'[u].new = th[u].new
    BY <1>2, <1>6, <2>1
  <2>3. \A u \in Threads : Owns(th[u]) => Owns(th'[u]) /\ th'[u].new = th[u].new
    BY <1>2, <1>6, <2>1
  <2>4. \A u \in Threads : Owns(th'[u]) =>
          /\ th'[u].new.count = 1 /\ th'[u].new.node \in Nodes
          /\ pos[th'[u].new.node] = 0 /\ obj'.at[th'[u].new.node] = "live"
    BY <1>7, <2>2 DEF FqOwners
  <2>5. \A u, v \in Threads : Owns(th'[u]) /\ Owns(th'[v]) /\ th'[u].new.node = th'[v].new.node => u = v
    BY <2>2 DEF FqOwners
  <2>6. ASSUME NEW k \in Nodes, pos[k] = 0
        PROVE  /\ obj'.at[k] \in {"new", "live", "freed"} /\ obj'.count[k] = Linked!NodeCounter
               /\ obj'.at[k] = "live" => \E u \in Threads : Owns(th'[u]) /\ th'[u].new.node = k
    BY <1>7, <2>3, <2>6 DEF FqOwners
  <2> QED
    BY <2>4, <2>5, <2>6, SMTT(30) DEF FqOwners
<1>9. \A u \in Threads : FqKnows(pos, th[u])'
  <2> SUFFICES ASSUME NEW u \in Threads PROVE FqKnows(pos, th[u])'
    OBVIOUS
  <2>1. FqKnows(pos, th'[u])
    <3>1. CASE u = t
      BY <1>2, <3>1 DEF FqKnows, Linked!Holding
    <3>2. CASE u # t
      BY <1>2, <3>2
    <3> QED
      BY <3>1, <3>2
  <2> QED
    BY <2>1 DEF FqKnows
<1>10. FqMovers(pos, mh2, mt2)'
  <2>1. ASSUME NEW k \in Nodes, mh2[k] \in Threads
        PROVE  /\ th'[mh2[k]].pc \in {"take", "free"} /\ th'[mh2[k]].node = k
               /\ 0 < pos[k] /\ pos[k] < pos[obj.head.node] /\ mh2[k] # mt2[k]
    <3>1. mh2[k] = mh[k] /\ th'[mh2[k]] = th[mh[k]]
      BY <1>2, <1>4, <2>1
    <3>2. mh2[k] # mt2[k]
      BY <1>4, <2>1, <3>1 DEF FqMovers
    <3> QED
      BY <2>1, <3>1, <3>2 DEF FqMovers
  <2>2. ASSUME NEW k \in Nodes, mt2[k] \in Threads
        PROVE  /\ th'[mt2[k]].pc = "free" /\ th'[mt2[k]].node = k
               /\ 0 < pos[k] /\ pos[k] < pos[obj.tail.node]
    <3>1. mt2[k] = mt[k] /\ th'[mt2[k]] = th[mt[k]]
      BY <1>2, <1>4, <2>2
    <3> QED
      BY <2>2, <3>1 DEF FqMovers
  <2>3. ASSUME NEW u \in Threads
        PROVE  /\ th'[u].pc = "take" => mh2[th'[u].node] = u
               /\ th'[u].pc = "free" => mh2[th'[u].node] = u \/ mt2[th'[u].node] = u
    <3>1. CASE u = t
      BY <1>2, <3>1
    <3>2. CASE u # t
      <4>1. th'[u] = th[u]
        BY <1>2, <3>2
      <4>2. th[u].pc = "take" \/ th[u].pc = "free" => th[u].node \in Nodes
        BY DEF FqKnows, Linked!Holding
      <4>3. ASSUME NEW k \in Nodes PROVE (mh[k] = u => mh2[k] = u) /\ (mt[k] = u => mt2[k] = u)
        BY <3>2
      <4>4. /\ th[u].pc = "take" => mh[th[u].node] = u
            /\ th[u].pc = "free" => mh[th[u].node] = u \/ mt[th[u].node] = u
        BY DEF FqMovers
      <4> HIDE DEF FqWhole, FqSettles
      <4>5. th[u].pc = "take" => mh2[th[u].node] = u
        BY <4>2, <4>3, <4>4
      <4>6. th[u].pc = "free" => mh2[th[u].node] = u \/ mt2[th[u].node] = u
        BY <4>2, <4>3, <4>4
      <4> QED
        BY <4>1, <4>5, <4>6
    <3> QED
      BY <3>1, <3>2
  <2> QED
    BY <2>1, <2>2, <2>3 DEF FqMovers
<1>11. FqCounts(pos, mh2, mt2)'
  <2>1. r.pc \notin Linked!Holding /\ th[t].pc \in Linked!Holding
    BY DEF Linked!Holding
  <2>2. ASSUME NEW k PROVE Holders(k)' = Holders(k) \/ k = n
    <3> HIDE DEF FqWhole, FqSettles
    <3>1. CASE k # n
      <4>1. th[t].pc \in Linked!Holding /\ th[t].node = k <=> r.pc \in Linked!Holding /\ r.node = k
        BY <2>1, <3>1
      <4> QED
        BY <1>1, <4>1, HoldersAfter
    <3> QED
      BY <3>1
  <2>3. Cardinality(Holders(n)') = Cardinality(Holders(n)) - 1 /\ Cardinality(Holders(n)) \in Nat
    <3> HIDE DEF FqWhole, FqSettles
    <3> QED
      BY <1>1, <2>1, HoldersAfter, HoldersCount
  <2>4. ASSUME NEW k \in Nodes
        PROVE  /\ CountedBy(mh2[k])' = CountedBy(mh2[k]) /\ CountedBy(mt2[k])' = CountedBy(mt2[k])
               /\ FromEnd(pos, mh2, obj.head, k)' = FromEnd(pos, mh2, obj.head, k)
               /\ FromEnd(pos, mt2, obj.tail, k)' = FromEnd(pos, mt2, obj.tail, k)
               /\ CountedAt(obj.head, k)' = CountedAt(obj.head, k) /\ CountedAt(obj.tail, k)' = CountedAt(obj.tail, k)
    <3>1. mh2[k] \in Threads => th'[mh2[k]].ref = th[mh2[k]].ref
      BY <1>2, <1>4
    <3>2. mt2[k] \in Threads => th'[mt2[k]].ref = th[mt2[k]].ref
      BY <1>2, <1>4
    <3> QED
      BY <3>1, <3>2 DEF CountedBy, FromEnd, CountedAt
  <2> SUFFICES ASSUME NEW k \in Nodes, pos[k] > 0
               PROVE  (/\ obj.count[k].external = FromEnd(pos, mh2, obj.head, k) + FromEnd(pos, mt2, obj.tail, k)
                       /\ Cardinality(Holders(k)) = obj.count[k].internal + CountedAt(obj.head, k)
                                                     + CountedAt(obj.tail, k) + CountedBy(mh2[k]) + CountedBy(mt2[k])
                       /\ obj.at[k] = IF obj.count[k].internal = 0 /\ obj.count[k].external = 0
                                      THEN "freed" ELSE "live")'
    BY DEF FqCounts
  <2>5. CASE k = n
    <3>1. PICK i \in Int : i = obj.count[n].internal
      BY <1>1, <1>3 DEF FqObjects
    <3>2. Cardinality(Holders(n)) = i + CountedAt(obj.head, n) + CountedAt(obj.tail, n) + CountedBy(mh[n]) + CountedBy(mt[n])
      BY <1>3, <3>1 DEF FqCounts
    <3>3. mh[n] \in Threads \cup {Null} /\ mt[n] \in Threads \cup {Null} /\ mh2[n] \in Threads \cup {Null} /\ mt2[n] \in Threads \cup {Null}
      BY <1>3
    <3>4. ASSUME NEW u PROVE CountedBy(u) \in Int
      BY <1>1 DEF CountedBy, FqThreads, Refs
    <3>5. CountedAt(obj.head, n) \in Int /\ CountedAt(obj.tail, n) \in Int
      BY <1>1 DEF CountedAt
    <3>6. PICK a, b, x, y \in Int : a = CountedBy(mh[n]) /\ b = CountedBy(mt[n]) /\ x = CountedBy(mh2[n]) /\ y = CountedBy(mt2[n])
      BY <3>4
    <3>7. c.internal \in Int /\ c.internal + x + y + 1 = i + a + b
      BY <3>1, <3>6
    <3>8. Cardinality(Holders(n)') = c.internal + CountedAt(obj.head, n) + CountedAt(obj.tail, n) + x + y
      BY <2>3, <3>2, <3>5, <3>6, <3>7
    <3>9. obj'.count[n] = c /\ obj'.at[n] = IF c.internal = 0 /\ c.external = 0 THEN "freed" ELSE "live"
      BY <1>3
    <3> QED
      BY <2>4, <2>5, <3>6, <3>8, <3>9
  <2>6. CASE k # n
    <3>1. obj'.count[k] = obj.count[k] /\ obj'.at[k] = obj.at[k] /\ mh2[k] = mh[k] /\ mt2[k] = mt[k]
      BY <2>6
    <3>2. /\ FromEnd(pos, mh2, obj.head, k) = FromEnd(pos, mh, obj.head, k)
          /\ FromEnd(pos, mt2, obj.tail, k) = FromEnd(pos, mt, obj.tail, k)
      BY <3>1 DEF FromEnd
    <3>3. /\ obj.count[k].external = FromEnd(pos, mh, obj.head, k) + FromEnd(pos, mt, obj.tail, k)
          /\ Cardinality(Holders(k)) = obj.count[k].internal + CountedAt(obj.head, k)
                                        + CountedAt(obj.tail, k) + CountedBy(mh[k]) + CountedBy(mt[k])
          /\ obj.at[k] = IF obj.count[k].internal = 0 /\ obj.count[k].external = 0 THEN "freed" ELSE "live"
      BY DEF FqCounts
    <3>4. Holders(k)' = Holders(k)
      BY <2>2, <2>6
    <3> QED
      BY <2>4, <3>1, <3>2, <3>3, <3>4
  <2> QED
    BY <2>5, <2>6
<1> QED
  BY <1>5, <1>8, <1>9, <1>10, <1>11

LEMMA FqAlive ==
  ASSUME NEW pos \in [Nodes -> Nat], NEW mh \in [Nodes -> Threads \cup {Null}],
         NEW mt \in [Nodes -> Threads \cup {Null}], IsFiniteSet(Threads), FqWhole(pos, mh, mt)
  PROVE  Linked!MemorySafe
<1> USE DEF FqWhole
<1>1. \A n \in Nodes : obj.at[n] # "twice"
  <2> SUFFICES ASSUME NEW n \in Nodes PROVE obj.at[n] # "twice"
    OBVIOUS
  <2>1. CASE pos[n] = 0
    BY <2>1 DEF FqOwners
  <2>2. CASE pos[n] > 0
    BY <2>2 DEF FqCounts
  <2> QED
    BY <2>1, <2>2
<1>2. \A t \in Threads : th[t].pc \in Linked!Holding => obj.at[th[t].node] = "live"
  <2> HIDE DEF FqWhole
  <2> QED
    BY HeldIsLive
<1>3. ASSUME NEW n \in {obj.head.node, obj.tail.node} PROVE obj.at[n] = "live"
  <2>1. n \in Nodes /\ pos[n] > 0
    BY DEF FqOrder
  <2>2. FromEnd(pos, mh, obj.head, n) \in {0, 1} /\ FromEnd(pos, mt, obj.tail, n) \in {0, 1}
    BY DEF FromEnd
  <2>3. FromEnd(pos, mh, obj.head, n) = 1 \/ FromEnd(pos, mt, obj.tail, n) = 1
    BY DEF FromEnd, FqOrder
  <2>4. obj.count[n].external # 0
    BY <2>1, <2>2, <2>3 DEF FqCounts
  <2> QED
    BY <2>1, <2>4 DEF FqCounts
<1> QED
  BY <1>1, <1>2, <1>3 DEF Linked!MemorySafe, Linked!At

LEMMA FqNoLeak ==
  ASSUME NEW pos \in [Nodes -> Nat], NEW mh \in [Nodes -> Threads \cup {Null}],
         NEW mt \in [Nodes -> Threads \cup {Null}], IsFiniteSet(Threads), FqWhole(pos, mh, mt)
  PROVE  Linked!NoLeak
<1> USE DEF FqWhole
<1> SUFFICES ASSUME NEW m \in Nodes, obj.at[m] = "live", m # obj.head.node,
                    \A t \in Threads : ~(th[t].pc \in Linked!Holding /\ m = th[t].node) /\ m # th[t].new.node
             PROVE  \E k \in Nodes : obj.at[k] = "live" /\ obj.next[k].node = m
  BY DEF Linked!NoLeak, Linked!At
<1>1. pos[m] # 0
  BY DEF FqOwners
<1>2. PICK h \in Nat : h = pos[obj.head.node] /\ h >= 1 /\ h <= pos[obj.tail.node]
  BY DEF FqOrder
<1>3. pos[m] > h
  <2> SUFFICES ASSUME ~(pos[m] > h) PROVE FALSE
    OBVIOUS
  <2>1. pos[m] < h
    BY <1>1, <1>2 DEF FqOrder
  <2>2. mh[m] \notin Threads /\ mt[m] \notin Threads
    BY DEF FqMovers, Linked!Holding
  <2>3. FromEnd(pos, mh, obj.head, m) = 0 /\ FromEnd(pos, mt, obj.tail, m) = 0
    BY <1>2, <2>1, <2>2 DEF FromEnd, FqOrder
  <2>4. Holders(m) = {}
    BY DEF Holders
  <2>5. Cardinality(Holders(m)) = 0
    BY <2>4, FS_EmptySet
  <2>6. /\ CountedAt(obj.head, m) = 0 /\ CountedAt(obj.tail, m) = 0
        /\ CountedBy(mh[m]) = 0 /\ CountedBy(mt[m]) = 0
    BY <1>2, <2>1, <2>2 DEF CountedAt, CountedBy
  <2>7. PICK i \in Int : i = obj.count[m].internal
    BY DEF FqTypes, FqObjects
  <2>8. pos[m] > 0
    BY <1>1
  <2>9. /\ obj.count[m].external = FromEnd(pos, mh, obj.head, m) + FromEnd(pos, mt, obj.tail, m)
        /\ Cardinality(Holders(m)) = i + CountedAt(obj.head, m) + CountedAt(obj.tail, m)
                                        + CountedBy(mh[m]) + CountedBy(mt[m])
        /\ obj.at[m] = IF i = 0 /\ obj.count[m].external = 0 THEN "freed" ELSE "live"
    BY <2>7, <2>8 DEF FqCounts
  <2>10. 0 = i + 0 + 0 + 0 + 0 /\ obj.count[m].external = 0 + 0
    BY <2>3, <2>5, <2>6, <2>9
  <2>11. i = 0 /\ obj.count[m].external = 0
    BY <2>10
  <2> QED
    BY <2>9, <2>11
<1>4. PICK k \in Nodes : pos[m] = pos[k] + 1
  BY <1>2, <1>3 DEF FqOrder
<1>5. pos[k] >= h /\ pos[k] > 0
  BY <1>2, <1>3, <1>4
<1>6. obj.next[k].node = m
  <2>1. obj.next[k] # Linked!Nowhere
    BY <1>4, <1>5 DEF FqOrder
  <2>2. obj.next[k].node \in Nodes /\ pos[obj.next[k].node] = pos[m]
    BY <1>4, <2>1 DEF FqOrder
  <2> QED
    BY <1>1, <2>2 DEF FqOrder
<1>7. obj.at[k] = "live"
  <2>1. FromEnd(pos, mh, obj.head, k) = 1 /\ FromEnd(pos, mt, obj.tail, k) \in {0, 1}
    BY <1>2, <1>5 DEF FromEnd
  <2>2. obj.count[k].external # 0
    BY <1>5, <2>1 DEF FqCounts
  <2> QED
    BY <1>5, <2>2 DEF FqCounts
<1> QED
  BY <1>6, <1>7

\* The steps that change neither ends, links nor counts.
LEMMA FqStoreKeeps ==
  ASSUME IsFiniteSet(Threads), NEW pos \in [Nodes -> Nat], NEW mh, NEW mt, FqWhole(pos, mh, mt),
         NEW t \in Threads, Linked!Store(t)
  PROVE  FqWhole(pos, mh, mt)'
<1>1. /\ th \in [Threads -> FqThreads] /\ obj \in FqObjects /\ th[t] \in FqThreads /\ FqKnows(pos, th[t])
      /\ obj.head \in Refs /\ obj.tail \in Refs
  BY DEF FqWhole, FqTypes, FqObjects
<1>2. PICK n : n = th[t].node
  OBVIOUS
<1>3. /\ th[t].pc = "store" /\ n \in Nodes /\ th[t].val \in Nat /\ obj.data \in [Nodes -> Nat]
      /\ obj.in \in Seq(Nat) /\ obj.lost \in SUBSET Nat
  BY <1>1, <1>2 DEF Linked!Store, Linked!At, FqKnows, Linked!Holding, FqThreads, FqObjects
<1>4. PICK w \in {"idle", "countTail"} : th' = [th EXCEPT ![t].pc = "link", ![t].then = w]
  BY DEF Linked!Store
<1>5. PICK r : r = [th[t] EXCEPT !.pc = "link", !.then = w]
  OBVIOUS
<1>6. /\ r \in FqThreads /\ r.pc = "link" /\ r.node = n /\ r.ref = th[t].ref /\ r.new = th[t].new /\ r.then = w
      /\ th' = [th EXCEPT ![t] = r]
  BY <1>1, <1>2, <1>4, <1>5 DEF FqThreads, FqPlaces
<1>7. obj' \in FqObjects /\ UNCHANGED <<obj.head, obj.tail, obj.next, obj.count, obj.at>>
  <2>1. CASE UNCHANGED obj
    BY <1>1, <2>1
  <2>2. CASE obj' = [obj EXCEPT !.data[n] = th[t].val, !.in = Append(@, th[t].val),
                                !.lost = IF n \in obj.taken THEN @ \union {th[t].val} ELSE @]
    <3>1. PICK d, q, l : /\ d = [obj.data EXCEPT ![n] = th[t].val] /\ q = Append(obj.in, th[t].val)
                         /\ l = IF n \in obj.taken THEN obj.lost \union {th[t].val} ELSE obj.lost
      OBVIOUS
    <3>2. d \in [Nodes -> Nat]
      BY <1>3, <3>1
    <3>3. q \in Seq(Nat)
      BY <1>3, <3>1
    <3>4. l \in SUBSET Nat
      BY <1>3, <3>1
    <3>5. obj' = [obj EXCEPT !.data = d, !.in = q, !.lost = l]
      BY <1>1, <2>2, <3>1 DEF FqObjects
    <3> QED
      BY <1>1, <3>2, <3>3, <3>4, <3>5 DEF FqObjects
  <2> QED
    BY <1>2, <2>1, <2>2 DEF Linked!Store
<1>8. /\ Owns(r) /\ Owns(th[t]) /\ r.pc \in Linked!Holding /\ th[t].pc \in Linked!Holding
      /\ r.pc \notin {"take", "free"} /\ th[t].pc \notin {"take", "free"}
  BY <1>3, <1>6 DEF Owns, Linked!Holding
<1>9. FqKnows(pos, r)
  BY <1>1, <1>2, <1>3, <1>4, <1>6 DEF FqKnows, Linked!Holding
<1> QED
  BY <1>1, <1>2, <1>6, <1>7, <1>8, <1>9, FqThreadMoves

LEMMA FqLoadKeeps ==
  ASSUME IsFiniteSet(Threads), NEW pos \in [Nodes -> Nat], NEW mh, NEW mt, FqWhole(pos, mh, mt),
         NEW t \in Threads, Linked!LoadHead(t)
  PROVE  FqWhole(pos, mh, mt)'
<1>1. /\ th \in [Threads -> FqThreads] /\ obj \in FqObjects /\ th[t] \in FqThreads /\ FqKnows(pos, th[t])
      /\ obj.head \in Refs /\ obj.tail \in Refs
  BY DEF FqWhole, FqTypes, FqObjects
<1>2. PICK k : k = obj.pops + 1
  OBVIOUS
<1>3. obj' = [obj EXCEPT !.pops = k] /\ k \in Nat
  BY <1>1, <1>2 DEF Linked!LoadHead, FqObjects
<1>4. obj' \in FqObjects /\ UNCHANGED <<obj.head, obj.tail, obj.next, obj.count, obj.at>>
  BY <1>1, <1>3 DEF FqObjects
<1>5. PICK r : r = [Linked!Idle EXCEPT !.pc = "countHead", !.ref = obj.head]
  OBVIOUS
<1>6. r \in FqThreads /\ r.pc = "countHead" /\ r.then = "idle" /\ th' = [th EXCEPT ![t] = r] /\ th[t].pc = "idle"
  <2>1. Linked!Nowhere \in Refs
    BY DEF Linked!Nowhere, Linked!Ref, Refs
  <2>2. Linked!Idle \in FqThreads /\ Linked!Idle.then = "idle"
    BY <2>1 DEF Linked!Idle, FqThreads, FqPlaces
  <2>3. "countHead" \in FqPlaces
    BY DEF FqPlaces
  <2>4. r \in FqThreads /\ r.pc = "countHead" /\ r.then = "idle"
    BY <1>1, <1>5, <2>2, <2>3 DEF FqThreads
  <2> QED
    BY <1>5, <2>4 DEF Linked!LoadHead, Linked!At
<1>7. /\ ~Owns(r) /\ ~Owns(th[t]) /\ r.pc \notin Linked!Holding /\ th[t].pc \notin Linked!Holding
      /\ r.pc \notin {"take", "free"} /\ th[t].pc \notin {"take", "free"}
  BY <1>6 DEF Owns, Linked!Holding
<1>8. FqKnows(pos, r)
  BY <1>6 DEF FqKnows, Linked!Holding
<1> QED
  BY <1>1, <1>4, <1>6, <1>7, <1>8, FqThreadMoves

LEMMA FqCompareKeeps ==
  ASSUME IsFiniteSet(Threads), NEW pos \in [Nodes -> Nat], NEW mh, NEW mt, FqWhole(pos, mh, mt),
         NEW t \in Threads, Linked!Compare(t)
  PROVE  FqWhole(pos, mh, mt)'
<1>1. /\ th \in [Threads -> FqThreads] /\ obj \in FqObjects /\ th[t] \in FqThreads /\ FqKnows(pos, th[t])
      /\ obj.head \in Refs /\ obj.tail \in Refs
  BY DEF FqWhole, FqTypes, FqObjects
<1>2. PICK n, pc : n = th[t].node /\ pc = IF obj.tail.node = th[t].node THEN "release" ELSE "next"
  OBVIOUS
<1>3. PICK r : r = [th[t] EXCEPT !.pc = pc]
  OBVIOUS
<1>4. UNCHANGED obj /\ th[t].pc = "compare" /\ pc \in {"release", "next"}
  BY <1>2 DEF Linked!Compare, Linked!At
<1>5. /\ r \in FqThreads /\ r.pc = pc /\ r.node = n /\ r.ref = th[t].ref /\ r.then = th[t].then
      /\ th' = [th EXCEPT ![t] = r]
  BY <1>1, <1>2, <1>3, <1>4 DEF FqThreads, FqPlaces, Linked!Compare
<1>6. /\ r.then = "idle" /\ n \in Nodes /\ pos[n] > 0 /\ pos[n] <= pos[obj.head.node] /\ r.ref.node = n
  BY <1>1, <1>2, <1>4, <1>5 DEF FqKnows, Linked!Holding
<1>7. pc = "next" => pos[n] < pos[obj.tail.node]
  BY <1>2, <1>6 DEF FqWhole, FqOrder
<1>8. /\ ~Owns(r) /\ ~Owns(th[t]) /\ r.pc \in Linked!Holding /\ th[t].pc \in Linked!Holding
      /\ r.pc \notin {"take", "free"} /\ th[t].pc \notin {"take", "free"}
  BY <1>4, <1>5, <1>6 DEF Owns, Linked!Holding
<1>9. FqKnows(pos, r)
  BY <1>4, <1>5, <1>6, <1>7 DEF FqKnows
<1>10. obj' \in FqObjects /\ UNCHANGED <<obj.head, obj.tail, obj.next, obj.count, obj.at>>
  BY <1>1, <1>4
<1> QED
  BY <1>1, <1>2, <1>5, <1>8, <1>9, <1>10, FqThreadMoves

LEMMA FqReadKeeps ==
  ASSUME IsFiniteSet(Threads), NEW pos \in [Nodes -> Nat], NEW mh, NEW mt, FqWhole(pos, mh, mt),
         NEW t \in Threads, Linked!ReadNext(t)
  PROVE  FqWhole(pos, mh, mt)'
<1>1. /\ th \in [Threads -> FqThreads] /\ obj \in FqObjects /\ th[t] \in FqThreads /\ FqKnows(pos, th[t])
      /\ obj.head \in Refs /\ obj.tail \in Refs
  BY DEF FqWhole, FqTypes, FqObjects
<1>2. PICK n : n = th[t].node
  OBVIOUS
<1>3. UNCHANGED obj /\ th[t].pc = "next"
  BY DEF Linked!ReadNext, Linked!At
<1>4. /\ th[t].then = "idle" /\ n \in Nodes /\ pos[n] > 0 /\ pos[n] <= pos[obj.head.node] /\ th[t].ref.node = n
      /\ pos[n] < pos[obj.tail.node]
  BY <1>1, <1>2, <1>3 DEF FqKnows, Linked!Holding
<1>5. PICK to \in Refs : to = obj.next[n] /\ to # Linked!Nowhere
  BY <1>1, <1>4, SMTT(30) DEF FqWhole, FqOrder, FqObjects
<1>6. PICK r : r = [th[t] EXCEPT !.pc = "moveHead", !.to = to]
  OBVIOUS
<1>7. /\ r \in FqThreads /\ r.pc = "moveHead" /\ r.node = n /\ r.ref = th[t].ref /\ r.then = th[t].then /\ r.to = to
      /\ th' = [th EXCEPT ![t] = r]
  BY <1>1, <1>2, <1>5, <1>6 DEF FqThreads, FqPlaces, Linked!ReadNext
<1>8. /\ ~Owns(r) /\ ~Owns(th[t]) /\ r.pc \in Linked!Holding /\ th[t].pc \in Linked!Holding
      /\ r.pc \notin {"take", "free"} /\ th[t].pc \notin {"take", "free"}
  BY <1>3, <1>7 DEF Owns, Linked!Holding
<1>9. FqKnows(pos, r)
  BY <1>4, <1>5, <1>7 DEF FqKnows
<1>10. obj' \in FqObjects /\ UNCHANGED <<obj.head, obj.tail, obj.next, obj.count, obj.at>>
  BY <1>1, <1>3
<1> QED
  BY <1>1, <1>2, <1>7, <1>8, <1>9, <1>10, FqThreadMoves

LEMMA FqTakeKeeps ==
  ASSUME IsFiniteSet(Threads), NEW pos \in [Nodes -> Nat], NEW mh, NEW mt, FqWhole(pos, mh, mt),
         NEW t \in Threads, Linked!Take(t)
  PROVE  FqWhole(pos, mh, mt)'
<1>1. /\ th \in [Threads -> FqThreads] /\ obj \in FqObjects /\ th[t] \in FqThreads /\ FqKnows(pos, th[t])
      /\ obj.head \in Refs /\ obj.tail \in Refs
  BY DEF FqWhole, FqTypes, FqObjects
<1>2. PICK n : n = th[t].node
  OBVIOUS
<1>3. th[t].pc = "take" /\ obj' = [obj EXCEPT !.data[n] = 0, !.taken = @ \union {n}]
  BY <1>2 DEF Linked!Take, Linked!At
<1>4. n \in Nodes /\ pos[n] > 0 /\ th[t].then = "idle"
  BY <1>1, <1>2, <1>3 DEF FqKnows, Linked!Holding
<1>5. PICK d, q : d = [obj.data EXCEPT ![n] = 0] /\ q = obj.taken \union {n}
  OBVIOUS
<1>6. d \in [Nodes -> Nat]
  BY <1>1, <1>5 DEF FqObjects
<1>7. q \in SUBSET Nodes
  BY <1>1, <1>4, <1>5 DEF FqObjects
<1>8. obj' = [obj EXCEPT !.data = d, !.taken = q]
  BY <1>1, <1>3, <1>5 DEF FqObjects
<1>9. obj' \in FqObjects /\ UNCHANGED <<obj.head, obj.tail, obj.next, obj.count, obj.at>>
  BY <1>1, <1>6, <1>7, <1>8 DEF FqObjects
<1>10. PICK r : r = [th[t] EXCEPT !.pc = "free"]
  OBVIOUS
<1>11. /\ r \in FqThreads /\ r.pc = "free" /\ r.node = n /\ r.ref = th[t].ref /\ r.then = th[t].then
       /\ th' = [th EXCEPT ![t] = r]
  BY <1>1, <1>2, <1>10 DEF FqThreads, FqPlaces, Linked!Take
<1>12. /\ ~Owns(r) /\ ~Owns(th[t]) /\ r.pc \in Linked!Holding /\ th[t].pc \in Linked!Holding
       /\ r.pc \in {"take", "free"} /\ th[t].pc \in {"take", "free"}
  BY <1>3, <1>4, <1>11 DEF Owns, Linked!Holding
<1>13. FqKnows(pos, r)
  BY <1>4, <1>11 DEF FqKnows
<1> QED
  BY <1>1, <1>2, <1>9, <1>11, <1>12, <1>13, FqThreadMoves

\* The steps at an end of the queue.
LEMMA FqCountActKeeps ==
  ASSUME IsFiniteSet(Threads), Null \notin Threads, NEW pos \in [Nodes -> Nat],
         NEW mh \in [Nodes -> Threads \cup {Null}], NEW mt \in [Nodes -> Threads \cup {Null}],
         FqWhole(pos, mh, mt), NEW t \in Threads, Linked!Count(t)
  PROVE  FqInv'
<1>1. /\ th \in [Threads -> FqThreads] /\ obj \in FqObjects /\ th[t] \in FqThreads /\ FqKnows(pos, th[t])
      /\ obj.head \in Refs /\ obj.tail \in Refs
  BY DEF FqWhole, FqTypes, FqObjects
<1>2. PICK n : n = th[t].node
  OBVIOUS
<1>0. ASSUME FqWhole(pos, mh, mt)' PROVE FqInv'
  BY <1>0 DEF FqInv
<1>3. PICK end, at : end = (IF th[t].pc = "countTail" THEN "tail" ELSE "head") /\ at = obj[end]
  OBVIOUS
<1>4. /\ th[t].pc \in {"countTail", "countHead"} /\ end \in {"head", "tail"} /\ at \in Refs
      /\ (end = "tail" <=> th[t].pc = "countTail") /\ at = IF end = "tail" THEN obj.tail ELSE obj.head
  BY <1>1, <1>3 DEF Linked!Count, Linked!At, FqObjects
<1>5. PICK ref, pc : ref = Linked!Ref(at.count + 1, at.node) /\ pc = IF end = "tail" THEN "store" ELSE "compare"
  OBVIOUS
<1>6. ref \in Refs /\ ref = [count |-> at.count + 1, node |-> at.node] /\ ref.node = at.node
  BY <1>4, <1>5 DEF Linked!Ref, Refs
<1>7. CASE /\ at # th[t].ref /\ th' = [th EXCEPT ![t].ref = at] /\ UNCHANGED obj
  <2>1. PICK r : r = [th[t] EXCEPT !.ref = at]
    OBVIOUS
  <2>2. /\ r \in FqThreads /\ r.pc = th[t].pc /\ r.new = th[t].new /\ r.then = th[t].then
        /\ th' = [th EXCEPT ![t] = r]
    BY <1>1, <1>4, <1>7, <2>1 DEF FqThreads
  <2>4. Owns(r) <=> Owns(th[t])
    BY <2>2 DEF Owns
  <2>5. FqKnows(pos, r)
    BY <1>1, <1>4, <2>2 DEF FqKnows, Linked!Holding
  <2>6. obj' \in FqObjects /\ UNCHANGED <<obj.head, obj.tail, obj.next, obj.count, obj.at>>
    BY <1>1, <1>7
  <2>7. r.pc \notin Linked!Holding /\ th[t].pc \notin Linked!Holding
    BY <1>4, <2>2 DEF Linked!Holding
  <2>8. r.pc \notin {"take", "free"} /\ th[t].pc \notin {"take", "free"}
    BY <1>4, <2>2
  <2> QED
    BY <1>0, <1>1, <2>2, <2>4, <2>5, <2>6, <2>7, <2>8, FqThreadMoves
<1>8. CASE /\ obj' = [obj EXCEPT ![end] = ref]
           /\ th' = [th EXCEPT ![t].ref = ref, ![t].node = ref.node, ![t].pc = pc]
  <2>1. PICK r : r = [th[t] EXCEPT !.ref = ref, !.node = ref.node, !.pc = pc]
    OBVIOUS
  <2>2. pc \in FqPlaces /\ ref.node \in Nodes \cup {Null} /\ pc \in {"store", "compare"} /\ (pc = "store" <=> end = "tail")
    BY <1>4, <1>5, <1>6 DEF FqPlaces, Refs
  <2>3. /\ r \in FqThreads /\ r.pc = pc /\ r.new = th[t].new /\ r.then = th[t].then /\ r.ref = ref /\ r.node = ref.node
        /\ th' = [th EXCEPT ![t] = r]
    BY <1>1, <1>6, <1>8, <2>1, <2>2 DEF FqThreads
  <2>4. obj' = IF r.pc = "store" THEN [obj EXCEPT !.tail = ref] ELSE [obj EXCEPT !.head = ref]
    BY <1>4, <1>8, <2>2, <2>3
  <2>5. th[t].pc = IF r.pc = "store" THEN "countTail" ELSE "countHead"
    BY <1>4, <2>2, <2>3
  <2>6. ref = IF r.pc = "store" THEN [count |-> obj.tail.count + 1, node |-> obj.tail.node]
                                ELSE [count |-> obj.head.count + 1, node |-> obj.head.node]
    BY <1>4, <1>6, <2>2, <2>3
  <2>7. FqWhole(pos, mh, mt)'
    BY <1>6, <2>2, <2>3, <2>4, <2>5, <2>6, FqCountKeeps
  <2> QED
    BY <1>0, <2>7
<1> QED
  BY <1>3, <1>4, <1>5, <1>6, <1>7, <1>8 DEF Linked!Count, Linked!At

LEMMA FqMoveTailKeeps ==
  ASSUME IsFiniteSet(Threads), Null \notin Threads, NEW pos \in [Nodes -> Nat],
         NEW mh \in [Nodes -> Threads \cup {Null}], NEW mt \in [Nodes -> Threads \cup {Null}],
         FqWhole(pos, mh, mt), NEW t \in Threads, Linked!MoveTail(t)
  PROVE  FqInv'
<1>1. /\ th \in [Threads -> FqThreads] /\ obj \in FqObjects /\ th[t] \in FqThreads /\ FqKnows(pos, th[t])
      /\ obj.head \in Refs /\ obj.tail \in Refs
  BY DEF FqWhole, FqTypes, FqObjects
<1>2. PICK n : n = th[t].node
  OBVIOUS
<1>3. /\ th[t].pc = "moveTail" /\ n \in Nodes /\ pos[n] > 0 /\ th[t].ref.node = n /\ pos[n] <= pos[obj.tail.node]
      /\ th[t].to \in Refs
  BY <1>1, <1>2 DEF Linked!MoveTail, Linked!At, FqKnows, Linked!Holding, FqThreads
<1>4. CASE obj.tail = th[t].ref /\ obj' = [obj EXCEPT !.tail = th[t].to] /\ th' = [th EXCEPT ![t].pc = "free"]
  <2>1. PICK r, to, mt2 : /\ r = [th[t] EXCEPT !.pc = "free"] /\ to = th[t].to
                          /\ mt2 = [mt EXCEPT ![n] = t]
    OBVIOUS
  <2>2. /\ r \in FqThreads /\ r.pc = "free" /\ r.node = n /\ r.ref = obj.tail /\ r.new = th[t].new /\ r.then = th[t].then
        /\ th' = [th EXCEPT ![t] = r]
    BY <1>1, <1>2, <1>4, <2>1 DEF FqThreads, FqPlaces
  <2>3. obj' \in FqObjects /\ UNCHANGED <<obj.head, obj.next, obj.count, obj.at>> /\ obj'.tail = to
    BY <1>1, <1>3, <1>4, <2>1 DEF FqObjects
  <2>4. mt2 \in [Nodes -> Threads \cup {Null}] /\ obj.tail = th[t].ref
    BY <1>4, <2>1
  <2>5. FqWhole(pos, mh, mt2)'
    BY <1>2, <1>3, <2>1, <2>2, <2>3, <2>4, FqTailMoves
  <2> QED
    BY <2>4, <2>5 DEF FqInv
<1>5. CASE /\ obj.tail # th[t].ref /\ UNCHANGED obj
           /\ th' = [th EXCEPT ![t].ref = obj.tail, ![t].pc = IF obj.tail.node = n THEN "moveTail" ELSE "release"]
  <2>1. PICK pc \in {"moveTail", "release"} : pc = IF obj.tail.node = n THEN "moveTail" ELSE "release"
    OBVIOUS
  <2>2. PICK r : r = [th[t] EXCEPT !.ref = obj.tail, !.pc = pc]
    OBVIOUS
  <2>3. /\ r \in FqThreads /\ r.pc = pc /\ r.node = n /\ r.ref = obj.tail /\ r.new = th[t].new /\ r.then = th[t].then
        /\ r.to = th[t].to /\ th' = [th EXCEPT ![t] = r]
    BY <1>1, <1>2, <1>5, <2>1, <2>2 DEF FqThreads, FqPlaces
  <2>4. Owns(r) <=> Owns(th[t])
    BY <1>3, <2>1, <2>3 DEF Owns
  <2>5. r.pc \in Linked!Holding /\ th[t].pc \in Linked!Holding
    BY <1>3, <2>1, <2>3 DEF Linked!Holding
  <2>6. r.pc \notin {"take", "free"} /\ th[t].pc \notin {"take", "free"}
    BY <1>3, <2>1, <2>3
  <2>7. FqKnows(pos, r)
    BY <1>1, <1>2, <1>3, <2>1, <2>3 DEF FqKnows, Linked!Holding
  <2>8. obj' \in FqObjects /\ UNCHANGED <<obj.head, obj.tail, obj.next, obj.count, obj.at>>
    BY <1>1, <1>5
  <2>9. FqWhole(pos, mh, mt)'
    BY <1>2, <2>3, <2>4, <2>5, <2>6, <2>7, <2>8, FqThreadMoves
  <2> QED
    BY <2>9 DEF FqInv
<1> QED
  BY <1>2, <1>4, <1>5 DEF Linked!MoveTail

LEMMA FqMoveHeadKeeps ==
  ASSUME IsFiniteSet(Threads), Null \notin Threads, NEW pos \in [Nodes -> Nat],
         NEW mh \in [Nodes -> Threads \cup {Null}], NEW mt \in [Nodes -> Threads \cup {Null}],
         FqWhole(pos, mh, mt), NEW t \in Threads, Linked!MoveHead(t)
  PROVE  FqInv'
<1>1. /\ th \in [Threads -> FqThreads] /\ obj \in FqObjects /\ th[t] \in FqThreads /\ FqKnows(pos, th[t])
      /\ obj.head \in Refs /\ obj.tail \in Refs
  BY DEF FqWhole, FqTypes, FqObjects
<1>2. PICK n : n = th[t].node
  OBVIOUS
<1>3. /\ th[t].pc = "moveHead" /\ n \in Nodes /\ pos[n] > 0 /\ th[t].ref.node = n /\ th[t].then = "idle"
      /\ th[t].to \in Refs
  BY <1>1, <1>2 DEF Linked!MoveHead, Linked!At, FqKnows, Linked!Holding, FqThreads
<1>4. CASE /\ obj.head = th[t].ref /\ obj' = [obj EXCEPT !.head = th[t].to, !.out = Append(@, obj.data[n])]
           /\ th' = [th EXCEPT ![t].pc = "take", ![t].val = obj.data[n]]
  <2>1. PICK v, q : v = obj.data[n] /\ q = Append(obj.out, v)
    OBVIOUS
  <2>2. v \in Nat
    BY <1>1, <1>3, <2>1 DEF FqObjects
  <2>3. q \in Seq(Nat)
    BY <1>1, <2>1, <2>2 DEF FqObjects
  <2>4. PICK r, to, mh2 : /\ r = [th[t] EXCEPT !.pc = "take", !.val = v] /\ to = th[t].to
                          /\ mh2 = [mh EXCEPT ![n] = t]
    OBVIOUS
  <2>5. /\ r \in FqThreads /\ r.pc = "take" /\ r.node = n /\ r.ref = obj.head /\ r.new = th[t].new /\ r.then = th[t].then
        /\ th' = [th EXCEPT ![t] = r]
    BY <1>1, <1>2, <1>4, <2>1, <2>2, <2>4 DEF FqThreads, FqPlaces
  <2>6. obj' = [obj EXCEPT !.head = to, !.out = q]
    BY <1>1, <1>4, <2>1, <2>4 DEF FqObjects
  <2>7. obj' \in FqObjects /\ UNCHANGED <<obj.tail, obj.next, obj.count, obj.at>> /\ obj'.head = to
    BY <1>1, <1>3, <2>3, <2>4, <2>6 DEF FqObjects
  <2>8. mh2 \in [Nodes -> Threads \cup {Null}] /\ obj.head = th[t].ref
    BY <1>4, <2>4
  <2>9. FqWhole(pos, mh2, mt)'
    BY <1>2, <1>3, <2>4, <2>5, <2>7, <2>8, FqHeadMoves
  <2> QED
    BY <2>8, <2>9 DEF FqInv
<1>5. CASE /\ obj.head # th[t].ref /\ UNCHANGED obj
           /\ th' = [th EXCEPT ![t].ref = obj.head, ![t].pc = "release", ![t].then = "countHead"]
  <2>1. PICK r : r = [th[t] EXCEPT !.ref = obj.head, !.pc = "release", !.then = "countHead"]
    OBVIOUS
  <2>2. /\ r \in FqThreads /\ r.pc = "release" /\ r.node = n /\ r.then = "countHead"
        /\ th' = [th EXCEPT ![t] = r]
    BY <1>1, <1>2, <1>5, <2>1 DEF FqThreads, FqPlaces
  <2>3. ~Owns(r) /\ ~Owns(th[t])
    BY <1>3, <2>2 DEF Owns
  <2>4. r.pc \in Linked!Holding /\ th[t].pc \in Linked!Holding
    BY <1>3, <2>2 DEF Linked!Holding
  <2>5. r.pc \notin {"take", "free"} /\ th[t].pc \notin {"take", "free"}
    BY <1>3, <2>2
  <2>6. FqKnows(pos, r)
    BY <1>3, <2>2 DEF FqKnows
  <2>7. obj' \in FqObjects /\ UNCHANGED <<obj.head, obj.tail, obj.next, obj.count, obj.at>>
    BY <1>1, <1>5
  <2>8. FqWhole(pos, mh, mt)'
    BY <1>2, <2>2, <2>3, <2>4, <2>5, <2>6, <2>7, FqThreadMoves
  <2> QED
    BY <2>8 DEF FqInv
<1> QED
  BY <1>2, <1>4, <1>5 DEF Linked!MoveHead

\* The steps that settle the counts of a node.
FqLeaves(pos, mh, mt, mh2, mt2, t, n, internal, external) ==
  /\ \A k \in Nodes : k # n => mh2[k] = mh[k] /\ mt2[k] = mt[k]
  /\ mh2[n] \in {mh[n], Null} /\ mh2[n] # t /\ (mh[n] # t => mh2[n] = mh[n])
  /\ mt2[n] \in {mt[n], Null} /\ mt2[n] # t /\ (mt[n] # t => mt2[n] = mt[n])
  /\ FromEnd(pos, mh, obj.head, n) + FromEnd(pos, mt, obj.tail, n) + external
       = FromEnd(pos, mh2, obj.head, n) + FromEnd(pos, mt2, obj.tail, n)
  /\ internal + CountedBy(mh2[n]) + CountedBy(mt2[n]) + 1 = CountedBy(mh[n]) + CountedBy(mt[n])

LEMMA FqSettleActKeeps ==
  ASSUME IsFiniteSet(Threads), Null \notin Threads, NEW pos \in [Nodes -> Nat],
         NEW mh \in [Nodes -> Threads \cup {Null}], NEW mt \in [Nodes -> Threads \cup {Null}],
         FqWhole(pos, mh, mt), NEW t \in Threads, th[t].pc \in {"free", "release"}, NEW n, n = th[t].node,
         NEW mh2 \in [Nodes -> Threads \cup {Null}], NEW mt2 \in [Nodes -> Threads \cup {Null}],
         NEW i \in Int, NEW e \in Int, FqLeaves(pos, mh, mt, mh2, mt2, t, n, i, e), Linked!Settle(t, i, e)
  PROVE  FqInv'
<1>1. /\ th \in [Threads -> FqThreads] /\ obj \in FqObjects /\ th[t] \in FqThreads /\ FqKnows(pos, th[t])
      /\ obj.count \in [Nodes -> [internal : Int, external : Int]] /\ obj.at \in [Nodes -> {"new", "live", "freed", "twice"}]
  BY DEF FqWhole, FqTypes, FqObjects
<1>2. n \in Nodes /\ pos[n] > 0
  BY <1>1 DEF FqKnows, Linked!Holding
<1>3. obj.at[n] = "live"
  <2>1. th[t].pc \in Linked!Holding
    BY DEF Linked!Holding
  <2> QED
    BY <2>1, HeldIsLive
<1>4. PICK a, b \in Int : a = obj.count[n].internal /\ b = obj.count[n].external
  BY <1>1, <1>2
<1>5. PICK c : c = [internal |-> a + i, external |-> b + e]
  OBVIOUS
<1>6. c \in [internal : Int, external : Int] /\ c.internal = a + i /\ c.external = b + e
  BY <1>4, <1>5
<1>7. PICK cs, as : /\ cs = [obj.count EXCEPT ![n] = c]
                    /\ as = [obj.at EXCEPT ![n] = IF c.internal = 0 /\ c.external = 0 THEN "freed" ELSE "live"]
  OBVIOUS
<1>8. /\ cs \in [Nodes -> [internal : Int, external : Int]] /\ as \in [Nodes -> {"new", "live", "freed", "twice"}]
      /\ \A k \in Nodes : cs[k] = IF k = n THEN c ELSE obj.count[k]
      /\ \A k \in Nodes : as[k] = IF k = n THEN (IF c.internal = 0 /\ c.external = 0 THEN "freed" ELSE "live")
                                   ELSE obj.at[k]
  BY <1>1, <1>2, <1>6, <1>7
<1>9. obj' = [obj EXCEPT !.count = cs, !.at = as]
  <2>1. obj' = [obj EXCEPT !.count[n] = c, !.at[n] = IF c.internal = 0 /\ c.external = 0 THEN "freed" ELSE obj.at[n]]
    BY <1>1, <1>3, <1>4, <1>5 DEF Linked!Settle, Linked!Freed, FqObjects
  <2> QED
    BY <1>1, <1>3, <1>7, <2>1 DEF FqObjects
<1>10. obj' \in FqObjects /\ UNCHANGED <<obj.head, obj.tail, obj.next>> /\ obj'.count = cs /\ obj'.at = as
  BY <1>1, <1>8, <1>9 DEF FqObjects
<1>11. PICK r : r = IF th[t].then = "idle" THEN Linked!Idle ELSE [th[t] EXCEPT !.pc = th[t].then, !.then = "idle"]
  OBVIOUS
<1>12. /\ r \in FqThreads /\ r.pc = th[t].then /\ r.pc \in {"idle", "countTail", "countHead"} /\ r.then = "idle"
       /\ (r.pc = "countTail" => r.new = th[t].new) /\ th' = [th EXCEPT ![t] = r]
  <2>1. Linked!Nowhere \in Refs
    BY DEF Linked!Nowhere, Linked!Ref, Refs
  <2>2. Linked!Idle \in FqThreads /\ Linked!Idle.then = "idle" /\ Linked!Idle.pc = "idle"
    BY <2>1 DEF Linked!Idle, FqThreads, FqPlaces
  <2>3. th[t].then \in {"idle", "countTail", "countHead"} /\ {"idle", "countTail", "countHead"} \subseteq FqPlaces
    BY <1>1 DEF FqThreads, FqPlaces
  <2>4. CASE th[t].then = "idle"
    BY <1>11, <2>2, <2>4 DEF Linked!Settle
  <2>5. CASE th[t].then # "idle"
    <3>1. r = [th[t] EXCEPT !.pc = th[t].then, !.then = "idle"]
      BY <1>11, <2>5
    <3>2. r \in FqThreads
      BY <1>1, <2>3, <3>1 DEF FqThreads
    <3>3. r.pc = th[t].then /\ r.then = "idle" /\ r.new = th[t].new
      BY <1>1, <3>1 DEF FqThreads
    <3>4. th' = [th EXCEPT ![t] = r]
      BY <2>5, <3>1 DEF Linked!Settle
    <3> QED
      BY <2>3, <3>2, <3>3, <3>4
  <2> QED
    BY <2>4, <2>5
<1>13. FqSettles(pos, mh, mt, mh2, mt2, t, n, c)
  <2>1. /\ FromEnd(pos, mh, obj.head, n) \in Int /\ FromEnd(pos, mt, obj.tail, n) \in Int
        /\ FromEnd(pos, mh2, obj.head, n) \in Int /\ FromEnd(pos, mt2, obj.tail, n) \in Int
    BY DEF FromEnd
  <2>2. ASSUME NEW u PROVE CountedBy(u) \in Int
    BY <1>1 DEF CountedBy, FqThreads, Refs
  <2>3. b = FromEnd(pos, mh, obj.head, n) + FromEnd(pos, mt, obj.tail, n)
    BY <1>2, <1>4 DEF FqWhole, FqCounts
  <2>4. PICK p, q, x, y \in Int : p = CountedBy(mh[n]) /\ q = CountedBy(mt[n]) /\ x = CountedBy(mh2[n]) /\ y = CountedBy(mt2[n])
    BY <2>2
  <2>5. i + x + y + 1 = p + q
    BY <2>4 DEF FqLeaves
  <2>6. c.internal + x + y + 1 = a + p + q
    BY <1>4, <1>6, <2>4, <2>5
  <2>7. c.external = FromEnd(pos, mh2, obj.head, n) + FromEnd(pos, mt2, obj.tail, n)
    BY <1>4, <1>6, <2>1, <2>3 DEF FqLeaves
  <2> QED
    BY <1>4, <1>8, <1>10, <2>4, <2>6, <2>7 DEF FqSettles, FqLeaves
<1>14. FqWhole(pos, mh2, mt2)'
  BY <1>6, <1>10, <1>12, <1>13, FqSettleKeeps
<1> QED
  BY <1>14 DEF FqInv

LEMMA FqReleaseKeeps ==
  ASSUME IsFiniteSet(Threads), Null \notin Threads, NEW pos \in [Nodes -> Nat],
         NEW mh \in [Nodes -> Threads \cup {Null}], NEW mt \in [Nodes -> Threads \cup {Null}],
         FqWhole(pos, mh, mt), NEW t \in Threads, Linked!ReleaseRef(t)
  PROVE  FqInv'
<1>1. PICK n : n = th[t].node
  OBVIOUS
<1>2. th[t].pc = "release" /\ Linked!Settle(t, -1, 0) /\ FqKnows(pos, th[t]) /\ th \in [Threads -> FqThreads]
  BY DEF Linked!ReleaseRef, Linked!At, FqWhole, FqTypes
<1>3. n \in Nodes
  BY <1>1, <1>2 DEF FqKnows, Linked!Holding
<1>4. mh[n] # t /\ mt[n] # t
  BY <1>2, <1>3 DEF FqWhole, FqMovers
<1>5. FqLeaves(pos, mh, mt, mh, mt, t, n, -1, 0)
  <2>1. FromEnd(pos, mh, obj.head, n) \in Int /\ FromEnd(pos, mt, obj.tail, n) \in Int
    BY DEF FromEnd
  <2>2. ASSUME NEW u PROVE CountedBy(u) \in Int
    BY <1>2 DEF CountedBy, FqThreads, Refs
  <2>3. PICK p, q \in Int : p = CountedBy(mh[n]) /\ q = CountedBy(mt[n])
    BY <2>2
  <2>4. -1 + p + q + 1 = p + q
    BY <2>3
  <2> QED
    BY <1>4, <2>1, <2>3, <2>4 DEF FqLeaves
<1> QED
  BY <1>1, <1>2, <1>5, FqSettleActKeeps

LEMMA FqFreeKeeps ==
  ASSUME IsFiniteSet(Threads), Null \notin Threads, NEW pos \in [Nodes -> Nat],
         NEW mh \in [Nodes -> Threads \cup {Null}], NEW mt \in [Nodes -> Threads \cup {Null}],
         FqWhole(pos, mh, mt), NEW t \in Threads, Linked!FreeExternalCount(t)
  PROVE  FqInv'
<1>1. PICK n, i : n = th[t].node /\ i = th[t].ref.count - 2
  OBVIOUS
<1>2. /\ th[t].pc = "free" /\ Linked!Settle(t, i, -1) /\ FqKnows(pos, th[t]) /\ th \in [Threads -> FqThreads]
      /\ th[t].ref.count \in Nat /\ i \in Int
  BY <1>1 DEF Linked!FreeExternalCount, Linked!At, FqWhole, FqTypes, FqThreads, Refs
<1>3. n \in Nodes /\ pos[n] > 0
  BY <1>1, <1>2 DEF FqKnows, Linked!Holding
<1>4. ASSUME NEW u PROVE CountedBy(u) \in Int
  BY <1>2 DEF CountedBy, FqThreads, Refs
<1>5. CountedBy(t) = i + 1 /\ CountedBy(Null) = 0
  BY <1>1, <1>2 DEF CountedBy
<1>6. pos[obj.head.node] \in Nat /\ pos[obj.tail.node] \in Nat /\ pos[n] \in Nat
  BY <1>3 DEF FqWhole, FqOrder
<1>7. CASE mh[n] = t
  <2>1. PICK mh2 : mh2 = [mh EXCEPT ![n] = Null]
    OBVIOUS
  <2>2. mh2 \in [Nodes -> Threads \cup {Null}] /\ mh2[n] = Null /\ \A k \in Nodes : k # n => mh2[k] = mh[k]
    BY <1>3, <2>1
  <2>3. pos[n] < pos[obj.head.node] /\ mt[n] # t
    BY <1>3, <1>7 DEF FqWhole, FqMovers
  <2>4. FromEnd(pos, mh, obj.head, n) = 1 /\ FromEnd(pos, mh2, obj.head, n) = 0 /\ FromEnd(pos, mt, obj.tail, n) \in {0, 1}
    BY <1>6, <1>7, <2>2, <2>3 DEF FromEnd
  <2>5. PICK x \in {0, 1} : x = FromEnd(pos, mt, obj.tail, n)
    BY <2>4
  <2>6. 1 + x + (-1) = 0 + x
    BY <2>5
  <2>7. PICK q \in Int : q = CountedBy(mt[n])
    BY <1>4
  <2>8. i + 0 + q + 1 = i + 1 + q
    BY <1>2, <2>7
  <2>9. /\ CountedBy(mh[n]) = i + 1 /\ CountedBy(mh2[n]) = 0
    BY <1>5, <1>7, <2>2
  <2>10. FqLeaves(pos, mh, mt, mh2, mt, t, n, i, -1)
    BY <1>7, <2>2, <2>3, <2>4, <2>5, <2>6, <2>7, <2>8, <2>9 DEF FqLeaves
  <2> QED
    BY <1>1, <1>2, <2>2, <2>10, FqSettleActKeeps
<1>8. CASE mt[n] = t
  <2>1. PICK mt2 : mt2 = [mt EXCEPT ![n] = Null]
    OBVIOUS
  <2>2. mt2 \in [Nodes -> Threads \cup {Null}] /\ mt2[n] = Null /\ \A k \in Nodes : k # n => mt2[k] = mt[k]
    BY <1>3, <2>1
  <2>3. pos[n] < pos[obj.tail.node] /\ mh[n] # t
    BY <1>3, <1>8 DEF FqWhole, FqMovers
  <2>4. FromEnd(pos, mt, obj.tail, n) = 1 /\ FromEnd(pos, mt2, obj.tail, n) = 0 /\ FromEnd(pos, mh, obj.head, n) \in {0, 1}
    BY <1>6, <1>8, <2>2, <2>3 DEF FromEnd
  <2>5. PICK x \in {0, 1} : x = FromEnd(pos, mh, obj.head, n)
    BY <2>4
  <2>6. x + 1 + (-1) = x + 0
    BY <2>5
  <2>7. PICK p \in Int : p = CountedBy(mh[n])
    BY <1>4
  <2>8. i + p + 0 + 1 = p + (i + 1)
    BY <1>2, <2>7
  <2>9. /\ CountedBy(mt[n]) = i + 1 /\ CountedBy(mt2[n]) = 0
    BY <1>5, <1>8, <2>2
  <2>10. FqLeaves(pos, mh, mt, mh, mt2, t, n, i, -1)
    BY <1>8, <2>2, <2>3, <2>4, <2>5, <2>6, <2>7, <2>8, <2>9 DEF FqLeaves
  <2> QED
    BY <1>1, <1>2, <2>2, <2>10, FqSettleActKeeps
<1> QED
  BY <1>1, <1>2, <1>7, <1>8 DEF FqWhole, FqMovers

LEMMA FqInvKept ==
  ASSUME IsFiniteSet(Threads), Null \notin Threads, FqInv, [Linked!Next]_(Linked!vars)
  PROVE  FqInv'
<1>1. PICK pos \in [Nodes -> Nat], mh, mt \in [Nodes -> Threads \cup {Null}] : FqWhole(pos, mh, mt)
  BY DEF FqInv
<1>2. ASSUME FqWhole(pos, mh, mt)' PROVE FqInv'
  BY <1>2 DEF FqInv
<1>3. CASE UNCHANGED Linked!vars
  BY <1>1, <1>2, <1>3 DEF Linked!vars, FqWhole, FqTypes, FqOrder, FqMovers, FqCounts, FqOwners, FqKnows, Holders,
                          CountedAt, CountedBy, FromEnd
<1>4. CASE Linked!Next
  <2>1. PICK t \in Threads :
          \/ Linked!Emplace(t) \/ Linked!Count(t) \/ Linked!Store(t) \/ Linked!Link(t) \/ Linked!MoveTail(t)
          \/ Linked!FreeExternalCount(t) \/ Linked!ReleaseRef(t) \/ Linked!LoadHead(t) \/ Linked!Compare(t)
          \/ Linked!ReadNext(t) \/ Linked!MoveHead(t) \/ Linked!Take(t)
    BY <1>4 DEF Linked!Next
  <2>2. CASE Linked!Emplace(t)
    BY <1>1, <1>2, <2>2, FqEmplaceKeeps
  <2>3. CASE Linked!Count(t)
    BY <1>1, <2>3, FqCountActKeeps
  <2>4. CASE Linked!Store(t)
    BY <1>1, <1>2, <2>4, FqStoreKeeps
  <2>5. CASE Linked!Link(t)
    BY <1>1, <2>5, FqLinkActKeeps
  <2>6. CASE Linked!MoveTail(t)
    BY <1>1, <2>6, FqMoveTailKeeps
  <2>7. CASE Linked!FreeExternalCount(t)
    BY <1>1, <2>7, FqFreeKeeps
  <2>8. CASE Linked!ReleaseRef(t)
    BY <1>1, <2>8, FqReleaseKeeps
  <2>9. CASE Linked!LoadHead(t)
    BY <1>1, <1>2, <2>9, FqLoadKeeps
  <2>10. CASE Linked!Compare(t)
    BY <1>1, <1>2, <2>10, FqCompareKeeps
  <2>11. CASE Linked!ReadNext(t)
    BY <1>1, <1>2, <2>11, FqReadKeeps
  <2>12. CASE Linked!MoveHead(t)
    BY <1>1, <2>12, FqMoveHeadKeeps
  <2>13. CASE Linked!Take(t)
    BY <1>1, <1>2, <2>13, FqTakeKeeps
  <2> QED
    BY <2>1, <2>2, <2>3, <2>4, <2>5, <2>6, <2>7, <2>8, <2>9, <2>10, <2>11, <2>12, <2>13
<1> QED
  BY <1>3, <1>4

\* No node of the lock-free queue is freed while a thread that counted itself in still uses it,
\* while an end points to it, or twice: the counts of SetNewTail, Pop, FreeExternalCount and
\* ReleaseRef, which FqCounts adds up, come to nothing only when the last thread has left.
THEOREM LinkedMemorySafe ==
  ASSUME IsFiniteSet(Threads), Null \notin Threads
  PROVE  Linked!Spec => []Linked!MemorySafe
<1>1. Linked!Init => FqInv
  BY InitFqInv
<1>2. FqInv /\ [Linked!Next]_(Linked!vars) => FqInv'
  BY FqInvKept
<1>3. FqInv => Linked!MemorySafe
  BY FqAlive DEF FqInv
<1> QED
  BY <1>1, <1>2, <1>3, PTL DEF Linked!Spec

\* And every node of it that is between head and tail no more, and that no thread holds or is about
\* to link, has been freed.
THEOREM LinkedNoLeak ==
  ASSUME IsFiniteSet(Threads), Null \notin Threads
  PROVE  Linked!Spec => []Linked!NoLeak
<1>1. Linked!Init => FqInv
  BY InitFqInv
<1>2. FqInv /\ [Linked!Next]_(Linked!vars) => FqInv'
  BY FqInvKept
<1>3. FqInv => Linked!NoLeak
  BY FqNoLeak DEF FqInv
<1> QED
  BY <1>1, <1>2, <1>3, PTL DEF Linked!Spec
=============================================================================
