--------------------------- MODULE ServerPipeline ---------------------------
(***************************************************************************)
(* The way of a request through one server: a session reads it and posts   *)
(* it to the LogicQueue, the worker handles it and calls Send of the       *)
(* session, the SendQueue writes the reply.  The handlers of other servers *)
(* put notifications into the same SendQueue, and other sessions post to   *)
(* the same LogicQueue.                                                    *)
(*                                                                         *)
(* The module composes the two components and adds what is only between    *)
(* them: who calls Send, and which reply answers which request.            *)
(***************************************************************************)
EXTENDS LogicQueue, SendQueue

CONSTANTS
  Own,        \* a request of the session whose send queue is modelled
  Unhandled,  \* a message of that session that has no handler
  MaxNotifies \* bound on the notifications

\* The other messages come from other sessions.
ASSUME PipelineAssumption ==
  /\ {Own, Unhandled} \subseteq Messages
  /\ MaxNotifies \in Nat
  /\ MaxSends = MaxPosts + MaxNotifies

VARIABLES
  answers  \* for each call of Send: the request it answers, by its number in
           \* posted, or 0 for a notification

pipeVars == <<queueVars, sendVars, answers>>

PipeInit == QueueInit /\ SendInit /\ answers = <<>>

-----------------------------------------------------------------------------
\* A closed session reads nothing more.
Read ==
  /\ \E m \in Messages : Post(m) /\ (m \in {Own, Unhandled} => ~ is_closed_)
  /\ UNCHANGED <<sendVars, answers>>

\* Send has no result: nobody learns that a message was refused.
CallSend(request) ==
  /\ Send \/ SendRefused
  /\ answers' = Append(answers, request)

\* Mutant: no reply to a session that is closed.
HandleRequestIfOpen ==
  /\ Handle \/ Drain
  /\ Head(msg_queue_) = Own
  /\ IF is_closed_ THEN UNCHANGED <<sendVars, answers>> ELSE CallSend(Len(handled'))

\* The handler of a request of this session sends its reply, also when the
\* session has been closed meanwhile and also when the system stops.
HandleRequest ==
  /\ Handle \/ Drain
  /\ Head(msg_queue_) = Own
  /\ CallSend(Len(handled'))

HandleElse ==
  /\ Handle \/ Drain
  /\ Head(msg_queue_) # Own
  /\ UNCHANGED <<sendVars, answers>>

\* A handler of another session or of a peer notifies this session.
SendNotification ==
  /\ Cardinality({i \in DOMAIN answers : answers[i] = 0}) < MaxNotifies
  /\ CallSend(0)
  /\ UNCHANGED queueVars

QueueStep ==
  /\ \/ Lock \/ Test \/ Wait \/ Relock \/ Branch \/ Exit
     \/ SpuriousWake \/ Stop \/ Notify \/ Join
  /\ UNCHANGED <<sendVars, answers>>

WriteStep ==
  /\ \/ \E w \in writes :
          Written(w) \/ WriteBreaks(w) \/ HandleWritten(w) \/ HandleFailed(w)
     \/ Close
  /\ UNCHANGED <<queueVars, answers>>

PipeNext ==
  Read \/ HandleRequest \/ HandleElse \/ SendNotification \/ QueueStep \/ WriteStep

\* The worker and the destructor run on; the network owes nothing.
PipeSpec == PipeInit /\ [][PipeNext]_pipeVars /\ QueueFairness

-----------------------------------------------------------------------------
(* Properties.  Those of LogicQueue and SendQueue hold of the whole, too. *)

\* The variables of both parts and of the history between them have their
\* types; front() is called on a queue that has one, the send queue is bounded.
PipeTypeOK ==
  /\ QueueTypeOK
  /\ SendTypeOK
  /\ answers \in Seq(0 .. Len(handled))
  /\ Len(answers) = calls

Requests == {i \in DOMAIN handled : handled[i] = Own}

\* The calls of Send that answer a request.
Replies == {i \in DOMAIN answers : answers[i] > 0}

\* From end to end: the replies that reach the client answer his requests in
\* the order in which he made them, each once, whatever notifications come
\* between and whatever was refused.
RepliesInOrder ==
  \A i, j \in DOMAIN wire :
    i < j /\ answers[wire[i]] > 0 /\ answers[wire[j]] > 0
      => answers[wire[i]] < answers[wire[j]]

\* A request that has been handled is answered unless the send queue was full:
\* as many replies as requests were given to Send.
EachHandledIsAnswered ==
  /\ Requests = {answers[i] : i \in Replies}
  /\ Cardinality(Replies) = Cardinality(Requests)

\* The requests of a session and what Send was given, and what of it reached the client.
RepliesAnswerRequests == RepliesInOrder /\ EachHandledIsAnswered

\* The worker runs what was posted and sees the stop, if it was awake when it came.
QueueIsServed == PostedIsHandled /\ StopSeenIfAwake

=============================================================================
