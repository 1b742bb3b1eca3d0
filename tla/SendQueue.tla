----------------------------- MODULE SendQueue ------------------------------
(***************************************************************************)
(* The send queue of a TCP session, in the chat server (CSession) and in   *)
(* the network library (Session).  Handlers, peers and the write callback  *)
(* meet here: Send is called from any thread, HandleWrite from an io       *)
(* thread, both under send_lock_ except when a write has failed.           *)
(*                                                                         *)
(* The queue owns the buffer that async_write reads, so the node being     *)
(* written has to stay at the front until its callback has run.            *)
(***************************************************************************)
EXTENDS Naturals, Sequences, FiniteSets, SequencesExt

CONSTANTS
  kMaxSendQueue, \* 1000 in the code
  MaxSends       \* bound on the calls of Send

ASSUME BoundsAssumption == kMaxSendQueue \in Nat /\ MaxSends \in Nat

VARIABLES
  send_queue_, \* numbers of the calls of Send that put the nodes there
  writes,      \* async_write operations whose callback has not run
  is_closed_,
  calls,       \* how often Send was called
  accepted,    \* the calls that were not refused, in order
  wire         \* the nodes the kernel took completely, in order

sendVars == <<send_queue_, writes, is_closed_, calls, accepted, wire>>

SendInit ==
  /\ send_queue_ = <<>>
  /\ writes = {}
  /\ is_closed_ = FALSE
  /\ calls = 0
  /\ accepted = <<>>
  /\ wire = <<>>

\* A write on a closed socket fails.
AsyncWrite(node) == [node |-> node, state |-> IF is_closed_ THEN "failed" ELSE "flying"]

-----------------------------------------------------------------------------
(* Send *)

Full == Len(send_queue_) > kMaxSendQueue

SendRefused ==
  /\ calls < MaxSends
  /\ Full
  /\ calls' = calls + 1
  /\ UNCHANGED <<send_queue_, writes, is_closed_, accepted, wire>>

\* Mutant: every Send starts a write.
SendWriting ==
  /\ calls < MaxSends
  /\ ~ Full
  /\ calls' = calls + 1
  /\ accepted' = Append(accepted, calls')
  /\ send_queue_' = Append(send_queue_, calls')
  /\ writes' = writes \cup {AsyncWrite(calls')}
  /\ UNCHANGED <<is_closed_, wire>>

\* Only the Send that finds the queue empty starts a write.
Send ==
  /\ calls < MaxSends
  /\ ~ Full
  /\ calls' = calls + 1
  /\ accepted' = Append(accepted, calls')
  /\ send_queue_' = Append(send_queue_, calls')
  /\ writes' = IF send_queue_ = <<>> THEN writes \cup {AsyncWrite(calls')} ELSE writes
  /\ UNCHANGED <<is_closed_, wire>>

-----------------------------------------------------------------------------
(* The kernel, and the callback *)

Write(w, state) == writes' = (writes \ {w}) \cup {[node |-> w.node, state |-> state]}

Written(w) ==
  /\ w.state = "flying"
  /\ Write(w, "done")
  /\ wire' = Append(wire, w.node)
  /\ UNCHANGED <<send_queue_, is_closed_, calls, accepted>>

\* The peer is gone, or Close has cancelled the operation.
WriteBreaks(w) ==
  /\ w.state = "flying"
  /\ Write(w, "failed")
  /\ UNCHANGED <<send_queue_, is_closed_, calls, accepted, wire>>

\* Mutant: the next write is started if more than one node is left.
HandleWrittenLate(w) ==
  /\ w.state = "done"
  /\ send_queue_' = Tail(send_queue_)
  /\ writes' = (writes \ {w}) \cup
       (IF Len(send_queue_') > 1 THEN {AsyncWrite(Head(send_queue_'))} ELSE {})
  /\ UNCHANGED <<is_closed_, calls, accepted, wire>>

\* HandleWrite without an error: the node goes, the next one is written.
HandleWritten(w) ==
  /\ w.state = "done"
  /\ send_queue_' = Tail(send_queue_)
  /\ writes' = (writes \ {w}) \cup
       (IF send_queue_' # <<>> THEN {AsyncWrite(Head(send_queue_'))} ELSE {})
  /\ UNCHANGED <<is_closed_, calls, accepted, wire>>

\* Mutant: a node that could not be written is dropped and the session lives.
HandleFailedSkipping(w) ==
  /\ w.state = "failed"
  /\ send_queue_' = Tail(send_queue_)
  /\ writes' = (writes \ {w}) \cup
       (IF send_queue_' # <<>> THEN {AsyncWrite(Head(send_queue_'))} ELSE {})
  /\ UNCHANGED <<is_closed_, calls, accepted, wire>>

\* HandleWrite with an error closes the session and leaves the queue as it is:
\* nothing will ever take a node out of it.
HandleFailed(w) ==
  /\ w.state = "failed"
  /\ writes' = writes \ {w}
  /\ is_closed_' = TRUE
  /\ UNCHANGED <<send_queue_, calls, accepted, wire>>

\* The reading side closes the session.
Close ==
  /\ ~ is_closed_
  /\ is_closed_' = TRUE
  /\ UNCHANGED <<send_queue_, writes, calls, accepted, wire>>

SendNext ==
  \/ SendRefused
  \/ Send
  \/ \E w \in writes :
       Written(w) \/ WriteBreaks(w) \/ HandleWritten(w) \/ HandleFailed(w)
  \/ Close

SendSpec == SendInit /\ [][SendNext]_sendVars

-----------------------------------------------------------------------------
(* Properties *)

Ids == 1 .. calls

\* The variables have their types, and the queue is bounded: one node more than
\* the constant, because the size is compared before the node is added and
\* with > in place of >=.
SendTypeOK ==
  /\ calls \in 0 .. MaxSends
  /\ send_queue_ \in Seq(Ids)
  /\ Len(send_queue_) <= kMaxSendQueue + 1
  /\ writes \subseteq [node : Ids, state : {"flying", "done", "failed"}]
  /\ is_closed_ \in BOOLEAN
  /\ accepted \in Seq(Ids)
  /\ wire \in Seq(Ids)

\* At most one write is under way and it is the one of the front: bytes of two
\* messages never mix, and no buffer is freed while the kernel reads it.
WritesTheFront ==
  /\ Cardinality(writes) <= 1
  /\ \A w \in writes : send_queue_ # <<>> /\ w.node = Head(send_queue_)

\* The client sees the accepted messages in order and without a gap: after a
\* write that failed, nothing is written any more.
WireInOrder == IsPrefix(wire, accepted)

\* While the session is open, a message in the queue has a write that will
\* bring it to the front: no Send relies on a callback that has run already.
NoneStranded == send_queue_ # <<>> /\ writes = {} => is_closed_
=============================================================================
