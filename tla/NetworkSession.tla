--------------------------- MODULE NetworkSession ---------------------------
(***************************************************************************)
(* The TCP server of the network library (src/network): the acceptor, the  *)
(* sessions with their framing and their send queues, the map of sessions  *)
(* and the worker of the logic system.  The handlers of one session run on *)
(* one thread (or in its strand), those of two sessions, the acceptor and  *)
(* the worker do not.  The worker holds the mutex of the queue while it    *)
(* handles a message; its sleep is that of LogicQueue and not repeated.    *)
(***************************************************************************)
EXTENDS Naturals, Sequences, SequencesExt

CONSTANTS Sessions,
          Streams,         \* what a peer may send: sequences of Message
          HeadLength,      \* kHeadLength, in bytes
          MaxLength,       \* kMaxLength: of a message and of one read
          MaxSendQueue     \* kMaxSendQueue

VARIABLES obj

\* id: "hello" has a callback, "none" has none, "over" is above kMaxId.
Message(id, length) == [id |-> id, length |-> length]
\* Byte k of the i-th message of a peer; its head is the first HeadLength of them.
Bytes(stream) == FlattenSeq([i \in DOMAIN stream |-> [k \in 1..HeadLength + stream[i].length |-> <<i, k>>]])
Head0 == [parsed |-> FALSE, head |-> <<>>, msg |-> <<>>, of |-> Message("none", 0)]

Init ==
    \E stream \in [Sessions -> Streams] :
        obj = [stream |-> stream, wire |-> [s \in Sessions |-> Bytes(stream[s])],
               accept |-> [s \in Sessions |-> "new"],    \* new, started, done
               sessions |-> {}, stopped |-> {}, failed |-> {},
               recv |-> [s \in Sessions |-> Head0],
               msgs |-> <<>>, sendq |-> [s \in Sessions |-> <<>>],
               running |-> TRUE,
               posted |-> [s \in Sessions |-> <<>>],     \* history: all that was put into msgs
               handled |-> [s \in Sessions |-> <<>>],    \* history: the answers Send was called with
               refused |-> [s \in Sessions |-> {}],      \* history: places of those the full queue refused
               sent |-> [s \in Sessions |-> <<>>],       \* history: answers written
               early |-> {}]                             \* history: stopped before the acceptor had added them

(***************************************************************************)
(* Server: HandleAccept starts the session, and then adds it to the map.   *)
(***************************************************************************)
Start(s) ==
    /\ obj.accept[s] = "new"
    /\ \A other \in Sessions : obj.accept[other] # "started"
    /\ obj' = [obj EXCEPT !.accept[s] = "started"]

Emplace(s) ==
    /\ obj.accept[s] = "started"
    /\ obj' = [obj EXCEPT !.accept[s] = "done", !.sessions = @ \union {s}]

\* Mutant: the session is closed, but not erased from the map.
StopListed(o, s) == [o EXCEPT !.stopped = @ \union {s}]

\* Session::Stop with Server::DeleteSession; a second call does nothing.
Stop(o, s) ==
    IF s \in o.stopped THEN o
    ELSE [o EXCEPT !.stopped = @ \union {s}, !.sessions = @ \ {s},
                   !.early = @ \union IF o.accept[s] = "started" THEN {s} ELSE {}]

(***************************************************************************)
(* Reading.                                                                *)
(***************************************************************************)
Least(a, b) == IF a <= b THEN a ELSE b

\* MsgHead::ParseHead: a head is a head only when its bytes are those of one message.
ParseHead(stream, head) ==
    LET i == head[1][1]
    IN  IF head = [k \in 1..HeadLength |-> <<i, k>>] THEN stream[i] ELSE Message("over", 0)

\* One turn of the loop of ParseBuffer on the data left; `over` ends it.  A node is full
\* before it is looked at, and the rest of the data is for the next one.
ParseHeadPart(r, stream, data) ==
    LET n == Least(Len(data), HeadLength - Len(r.head))       \* MsgNode::Copy
        head == r.head \o SubSeq(data, 1, n)
        of == ParseHead(stream, head)
    IN  IF Len(head) < HeadLength THEN [r |-> [r EXCEPT !.head = head], data |-> <<>>, post |-> <<>>, over |-> FALSE]
        ELSE IF of.id = "over" \/ of.length > MaxLength
             THEN [r |-> [r EXCEPT !.head = head], data |-> <<>>, post |-> <<>>, over |-> TRUE]
        ELSE [r |-> [parsed |-> TRUE, head |-> head, msg |-> <<>>, of |-> of],
              data |-> SubSeq(data, n + 1, Len(data)), post |-> <<>>, over |-> FALSE]
\* Mutant: what is read after the end of a message is dropped.
ParseBodyAlone(r, data) ==
    LET msg == r.msg \o SubSeq(data, 1, Least(Len(data), r.of.length - Len(r.msg)))
    IN  IF Len(msg) < r.of.length THEN [r |-> [r EXCEPT !.msg = msg], data |-> <<>>, post |-> <<>>, over |-> FALSE]
        ELSE [r |-> Head0, data |-> <<>>, post |-> <<[of |-> r.of, msg |-> msg]>>, over |-> FALSE]

ParseBodyPart(r, data) ==
    LET n == Least(Len(data), r.of.length - Len(r.msg))
        msg == r.msg \o SubSeq(data, 1, n)
    IN  IF Len(msg) < r.of.length THEN [r |-> [r EXCEPT !.msg = msg], data |-> <<>>, post |-> <<>>, over |-> FALSE]
        ELSE [r |-> Head0, data |-> SubSeq(data, n + 1, Len(data)), post |-> <<[of |-> r.of, msg |-> msg]>>, over |-> FALSE]

RECURSIVE ParseBuffer(_, _, _)
ParseBuffer(r, stream, data) ==
    IF data = <<>> THEN [r |-> r, post |-> <<>>, over |-> FALSE]
    ELSE LET turn == IF r.parsed THEN ParseBodyPart(r, data) ELSE ParseHeadPart(r, stream, data)
             rest == ParseBuffer(turn.r, stream, turn.data)
         IN  [rest EXCEPT !.post = turn.post \o @, !.over = @ \/ turn.over]

\* HandleRead of n bytes, with PostMsgToQueue for every message found, and AsyncRead.
Read(s, n) ==
    /\ obj.running /\ obj.accept[s] # "new" /\ s \notin obj.stopped
    /\ n <= Least(Len(obj.wire[s]), MaxLength)
    /\ LET parsed == ParseBuffer(obj.recv[s], obj.stream[s], SubSeq(obj.wire[s], 1, n))
           read == [obj EXCEPT !.wire[s] = SubSeq(@, n + 1, Len(@)), !.recv[s] = parsed.r,
                               !.msgs = @ \o [i \in DOMAIN parsed.post |-> [session |-> s] @@ parsed.post[i]],
                               !.posted[s] = @ \o parsed.post]
       IN  obj' = IF parsed.over THEN Stop(read, s) ELSE read

\* The peer closes, or the connection fails.
ReadError(s) ==
    /\ obj.running /\ obj.accept[s] # "new" /\ s \notin obj.stopped
    /\ obj' = Stop(obj, s)

(***************************************************************************)
(* Sending.                                                                *)
(***************************************************************************)
\* The queue may hold one more than its limit; its front is being written.
Send(o, s, reply) ==
    IF Len(o.sendq[s]) > MaxSendQueue
    THEN [o EXCEPT !.handled[s] = Append(@, reply), !.refused[s] = @ \union {Len(o.handled[s]) + 1}]
    ELSE [o EXCEPT !.handled[s] = Append(@, reply), !.sendq[s] = Append(@, reply)]

\* HandleWrite.  After an error the queue is left as it is and nothing writes any more.
HandleWrite(s) ==
    /\ obj.running /\ obj.sendq[s] # <<>> /\ s \notin obj.failed
    /\ \/ /\ s \notin obj.stopped
          /\ obj' = [obj EXCEPT !.sent[s] = Append(@, Head(obj.sendq[s])), !.sendq[s] = Tail(@)]
       \/ obj' = [Stop(obj, s) EXCEPT !.failed = @ \union {s}]

(***************************************************************************)
(* LogicSystem: DealFirstMsg with the callback.  Text that is no JSON, as  *)
(* the empty text is not, throws out of the thread and ends the process.   *)
(***************************************************************************)
DealFirstMsg ==
    /\ obj.running /\ obj.msgs # <<>>
    /\ LET node == Head(obj.msgs)
           popped == [obj EXCEPT !.msgs = Tail(@)]
       IN  obj' = IF node.of.id # "hello" THEN popped
                  ELSE IF node.msg = <<>> THEN [obj EXCEPT !.running = FALSE]
                  ELSE Send(popped, node.session, node.msg)

Next ==
    \/ \E s \in Sessions : Start(s) \/ Emplace(s) \/ ReadError(s) \/ HandleWrite(s)
    \/ \E s \in Sessions : \E n \in 1..MaxLength : Read(s, n)
    \/ DealFirstMsg

(***************************************************************************)
(* Properties.                                                             *)
(***************************************************************************)
\* What the messages of a stream are when nothing cuts them.
Whole(stream, i) == [of |-> stream[i], msg |-> [k \in 1..stream[i].length |-> <<i, HeadLength + k>>]]
Ends(stream, i) == Len(Bytes(SubSeq(stream, 1, i)))
Illegal(message) == message.id = "over" \/ message.length > MaxLength

\* However the bytes of a peer are cut into reads, the logic system gets its messages
\* whole and in order up to the first illegal head, each as soon as it is complete, but
\* for an empty message, which waits for the next byte.
FramesAreKept ==
    \A s \in Sessions :
        LET stream == obj.stream[s]
            got == Len(Bytes(stream)) - Len(obj.wire[s])
            legal(i) == \A j \in 1..i : ~Illegal(stream[j])
            done(i) == Ends(stream, i) <= got /\ (stream[i].length = 0 => Ends(stream, i) < got)
        IN  obj.posted[s] = [i \in {j \in DOMAIN stream : legal(j) /\ done(j)} |-> Whole(stream, i)]

\* A peer gets the answers to its own messages, in their order, but for those that found
\* more than the limit waiting; no more than one above the limit ever wait.
AnswersAreKept ==
    \A s \in Sessions :
        LET answered == SelectSeq(obj.posted[s], LAMBDA p : p.of.id = "hello" /\ p.msg # <<>>)
            accepted == SelectSeq([i \in DOMAIN obj.handled[s] |-> <<i, obj.handled[s][i]>>], LAMBDA h : h[1] \notin obj.refused[s])
        IN  /\ IsPrefix(obj.handled[s], [i \in DOMAIN answered |-> answered[i].msg])
            /\ obj.sent[s] \o obj.sendq[s] = [i \in DOMAIN accepted |-> accepted[i][2]]
            /\ Len(obj.sendq[s]) <= MaxSendQueue + 1

\* A session that has stopped is in the map only if it stopped before it was added.
OnlyEarlyStopsStay == obj.sessions \intersect obj.stopped \subseteq obj.early
=============================================================================
