----------------------------- MODULE ChatClient -----------------------------
(***************************************************************************)
(* The chat client (src/chat/client): the login dialog, the connection to  *)
(* the chat server with the framing of TcpMgr, UserMgr's friends and their *)
(* messages, and the chat dialog, which keeps copies of them in its lists  *)
(* and on its page.  Qt runs all of it on one thread: a handler is a step. *)
(* The search, the applications and the drawing are left out.              *)
(***************************************************************************)
EXTENDS Naturals, Sequences, SequencesExt, FiniteSets

CONSTANTS Users,            \* uids of others, positive
          FriendLists,      \* the friends a login may be answered with
          PerPage,          \* kChatPerPage
          TextLimit,        \* 1024: characters in a text, and in all texts of a request
          Cuts,             \* the sizes of what arrives at once
          MaxLogins,        \* bound: clicks on the login button
          MaxSent,          \* bound: messages of the server
          MaxTexts          \* bound: texts of the user

VARIABLES obj

\* A unit of the stream is two bytes: the id and the length of a message, and its text.
HeadLength == 2
BodyLength == 2
\* Two bytes of a text, read as a length, exceed all that will arrive.
Huge == 1000

Fake == 200                 \* the test entries of the chat list: no friends, and not in chat_item_added_
Zero == 0                   \* the test entries of the contact list

Init ==
    obj = [dialog |-> "login", enabled |-> TRUE, logins |-> 0, http |-> 0,
           socket |-> "closed", asked |-> 0,            \* asked: logins the chat server has to answer
           sent |-> <<>>, wire |-> <<>>, buffer |-> <<>>, pending |-> FALSE, head |-> [of |-> 0, length |-> 0],
           friends |-> <<>>, msgs |-> [u \in Users |-> <<>>], chatLoaded |-> 0, contactLoaded |-> 0,
           items |-> <<>>, added |-> {}, itemMsgs |-> [u \in Users \union {Fake, Zero} |-> <<>>],
           contacts |-> <<>>, current |-> Zero, page |-> Zero, shown |-> <<>>, texts |-> 0, out |-> <<>>,
           crashed |-> FALSE,
           arrived |-> {}, handled |-> <<>>,            \* history: messages that arrived, that were dispatched
           coalesced |-> FALSE, stale |-> FALSE,        \* history: a second head in one call; buffer_ outlived a connection
           live |-> {}, firsts |-> [u \in Users |-> 0], \* history: friends since the login; texts that made an item
           stuck |-> {}]                                \* history: why the login button may stay disabled

(***************************************************************************)
(* LoginDialog and HttpMgr.                                                *)
(***************************************************************************)
OnLoginBtnClicked ==
    /\ obj.dialog = "login" /\ obj.enabled /\ obj.logins < MaxLogins
    /\ obj' = [obj EXCEPT !.enabled = FALSE, !.logins = @ + 1, !.http = @ + 1, !.stuck = {}]

\* The label "forgot" is never disabled; on return there is a new login dialog.
SwitchReset ==
    \/ obj.dialog = "login" /\ obj' = [obj EXCEPT !.dialog = "reset"]
    \/ obj.dialog = "reset" /\ obj' = [obj EXCEPT !.dialog = "login", !.enabled = TRUE, !.stuck = {}]

\* The answer comes to whatever login dialog there is.  An answer that is none leaves the
\* button disabled; QTcpSocket ignores a connectToHost unless it is unconnected.
SlotLoginModFinish ==
    /\ obj.http > 0
    /\ LET done == [obj EXCEPT !.http = @ - 1]
       IN  \/ obj.dialog # "login" /\ obj' = done
           \/ obj.dialog = "login" /\ obj' = [done EXCEPT !.stuck = @ \union {"http"}]
           \/ obj.dialog = "login" /\ obj' = [done EXCEPT !.enabled = TRUE]
           \/ /\ obj.dialog = "login"
              /\ obj' = IF obj.socket = "closed" THEN [done EXCEPT !.socket = "connecting"]
                        ELSE [done EXCEPT !.stuck = @ \union {"connected"}]

\* sig_tcp_connect_finish
Connected ==
    /\ obj.socket = "connecting"
    /\ obj' = [obj EXCEPT !.socket = "open", !.asked = @ + IF obj.dialog = "login" THEN 1 ELSE 0]
ErrorOccurred ==
    /\ obj.socket # "closed"
    /\ obj' = [obj EXCEPT !.socket = "closed", !.asked = 0, !.wire = <<>>,
                          !.enabled = @ \/ obj.dialog = "login",
                          !.stale = @ \/ obj.pending \/ obj.buffer # <<>>]

(***************************************************************************)
(* ChatDialog: its lists.                                                  *)
(***************************************************************************)
Least(a, b) == IF a <= b THEN a ELSE b
AfterPage(friends, loaded) == Least(loaded + PerPage, Len(friends))
Page(friends, loaded) == SubSeq(friends, loaded + 1, AfterPage(friends, loaded))

\* addChatUserList; the items made copy what UserMgr has of the friend.
AddChatUserList(o) ==
    LET new == SelectSeq(Page(o.friends, o.chatLoaded), LAMBDA u : u \notin o.added)
    IN  [o EXCEPT !.chatLoaded = AfterPage(o.friends, @), !.items = @ \o new, !.added = @ \union ToSet(new),
                  !.itemMsgs = [u \in DOMAIN @ |-> IF u \in ToSet(new) THEN o.msgs[u] ELSE @[u]]]
AddContactUserList(o) ==
    [o EXCEPT !.contactLoaded = AfterPage(o.friends, @), !.contacts = @ \o Page(o.friends, o.contactLoaded)]

SetSelectChatItem(o, uid) == [o EXCEPT !.current = IF uid = Zero THEN o.items[1] ELSE uid]
SetSelectChatPage(o, uid) ==
    LET u == IF uid = Zero THEN o.items[1] ELSE uid
    IN  [o EXCEPT !.page = u, !.shown = o.itemMsgs[u]]                     \* ChatPage::setUserInfo

NewChatDialog(o) ==
    LET chats == AddChatUserList([o EXCEPT !.dialog = "chat"])
        contacts == AddContactUserList([chats EXCEPT !.items = Append(@, Fake)])
    IN  SetSelectChatPage(SetSelectChatItem([contacts EXCEPT !.contacts = Append(@, Zero)], Zero), Zero)

\* slot_auth_rsp and slot_add_auth_friend: the other side, or this one, has accepted.
SlotAuthRsp(o, uid) ==
    IF uid \in ToSet(o.friends) THEN o
    ELSE [o EXCEPT !.friends = Append(@, uid), !.items = <<uid>> \o @, !.added = @ \union {uid},
                   !.contacts = <<uid>> \o @, !.live = @ \union {uid}]

\* The widget of a friend who has no item gets what UserMgr has, the new text already
\* among it, and then the text again; that of a stranger is made from a null pointer.
SlotTextChatMsg(o, uid, text) ==
    LET stored == IF uid \in ToSet(o.friends) THEN [o EXCEPT !.msgs[uid] = Append(@, text)] ELSE o
    IN  IF uid \in o.added
        THEN [stored EXCEPT !.itemMsgs[uid] = Append(@, text),
                            !.shown = IF uid = o.current THEN Append(@, text) ELSE @]      \* updateChatMsg
        ELSE IF uid \notin ToSet(o.friends) THEN [stored EXCEPT !.crashed = TRUE]
        ELSE [stored EXCEPT !.items = <<uid>> \o @, !.added = @ \union {uid},
                            !.itemMsgs[uid] = Append(stored.msgs[uid], text), !.firsts[uid] = text]

(***************************************************************************)
(* TcpMgr: the handlers, and readyRead.                                    *)
(***************************************************************************)
\* A login answer that is no JSON is only logged.  Without a chat dialog nobody is connected
\* to the signals of the notifications; with one, the front of a list without texts is read.
HandleMessage(o, i) ==
    LET m == o.sent[i]
        read == [o EXCEPT !.handled = Append(@, i)]
    IN  CASE m[1] = "login" -> NewChatDialog([read EXCEPT !.friends = @ \o m[2]])
          [] m[1] = "failed" -> [read EXCEPT !.enabled = @ \/ o.dialog = "login"]
          [] m[1] = "garbled" /\ o.dialog = "login" -> [read EXCEPT !.stuck = @ \union {"json"}]
          [] m[1] = "auth" /\ o.dialog = "chat" -> SlotAuthRsp(read, m[2])
          [] m[1] = "text" /\ o.dialog = "chat" -> SlotTextChatMsg(read, m[2], i)
          [] m[1] = "empty" /\ o.dialog = "chat" -> [read EXCEPT !.crashed = TRUE]
          [] OTHER -> read

\* One QDataStream reads all the heads of a call.  Its position stays behind the first
\* head, while buffer_ is cut: the next head is read HeadLength further than it is.
ReadHead(o, at) ==
    LET unit(k) == IF at + k <= Len(o.buffer) THEN o.buffer[at + k] ELSE <<0, 0>>       \* read past the end: 0
        length == CASE unit(2)[2] = 0 -> 0
                    [] unit(2)[2] = 2 -> BodyLength
                    [] OTHER -> Huge
    IN  [o EXCEPT !.buffer = SubSeq(@, HeadLength + 1, Len(@)), !.coalesced = @ \/ at > 0,
                  !.head = [of |-> IF unit(1)[2] = 1 THEN unit(1)[1] ELSE 0, length |-> length]]

RECURSIVE ReadyRead(_, _)
ReadyRead(o, at) ==
    IF o.crashed \/ (~o.pending /\ Len(o.buffer) < HeadLength) THEN o
    ELSE LET r == IF o.pending THEN o ELSE ReadHead(o, at)
             next == IF o.pending \/ at >= Len(o.buffer) THEN at ELSE Least(at + HeadLength, Len(o.buffer))
         IN  IF Len(r.buffer) < r.head.length THEN [r EXCEPT !.pending = TRUE]
             ELSE LET body == SubSeq(r.buffer, 1, r.head.length)
                      cut == [r EXCEPT !.pending = FALSE, !.buffer = SubSeq(@, r.head.length + 1, Len(@))]
                      whole == r.head.of # 0 /\ body = [k \in 1..BodyLength |-> <<r.head.of, HeadLength + k>>]
                  IN  ReadyRead(IF whole THEN HandleMessage(cut, r.head.of) ELSE cut, next)

Arrive(n) ==
    /\ obj.socket = "open" /\ n <= Len(obj.wire)
    /\ LET data == SubSeq(obj.wire, 1, n)
           ends == {data[k][1] : k \in {j \in 1..n : data[j][2] = HeadLength + BodyLength}}
       IN  obj' = ReadyRead([obj EXCEPT !.wire = SubSeq(@, n + 1, Len(@)), !.buffer = @ \o data,
                                        !.arrived = @ \union ends], 0)

(***************************************************************************)
(* The chat server, as the client sees it.                                 *)
(***************************************************************************)
Push(o, m) ==
    LET i == Len(o.sent) + 1
    IN  [o EXCEPT !.sent = Append(@, m), !.wire = @ \o [k \in 1..HeadLength + BodyLength |-> <<i, k>>]]

\* An answer to the login, a notification, or an answer that only is logged.
ServerSends ==
    /\ obj.socket = "open" /\ Len(obj.sent) < MaxSent
    /\ \/ /\ obj.asked > 0
          /\ \E m \in {<<"failed">>, <<"garbled">>} \union {<<"login", list>> : list \in FriendLists} :
                obj' = Push([obj EXCEPT !.asked = @ - 1], m)
       \/ \E m \in {<<"auth", u>> : u \in Users} \union {<<"text", u>> : u \in Users} \union {<<"empty">>, <<"other">>} :
            (obj.asked > 0 \/ obj.dialog = "chat") /\ obj' = Push(obj, m)

(***************************************************************************)
(* The user.                                                               *)
(***************************************************************************)
InChat == obj.dialog = "chat"
ScrollChats == InChat /\ obj.chatLoaded < Len(obj.friends) /\ obj' = AddChatUserList(obj)
ScrollContacts == InChat /\ obj.contactLoaded < Len(obj.friends) /\ obj' = AddContactUserList(obj)

SlotChatItemClicked(uid) ==
    /\ InChat /\ uid \in ToSet(obj.items)
    /\ obj' = [obj EXCEPT !.current = uid, !.page = uid, !.shown = obj.itemMsgs[uid]]

\* From the contacts or from a search that found a friend.  A user without an item has
\* had no texts: they would have made one.
SlotJumpChatItem(uid) ==
    /\ InChat /\ uid \in ToSet(obj.contacts) \union ToSet(obj.friends)
    /\ LET there == IF uid \in obj.added THEN obj
                    ELSE [obj EXCEPT !.items = <<uid>> \o @, !.added = @ \union {uid}]
       IN  obj' = SetSelectChatPage(SetSelectChatItem(there, uid), uid)

\* ChatPage::on_send_btn_clicked: the sizes of the texts, cut into requests.
Batches(sizes) ==
    LET step(acc, n) ==
            IF n > TextLimit THEN acc
            ELSE IF acc.size + n > TextLimit
                 THEN [size |-> n, batch |-> <<n>>, out |-> Append(acc.out, acc.batch)]
            ELSE [acc EXCEPT !.size = @ + n, !.batch = Append(@, n)]
        end == FoldLeft(step, [size |-> 0, batch |-> <<>>, out |-> <<>>], sizes)
    IN  IF end.size > 0 THEN Append(end.out, end.batch) ELSE end.out

\* The texts are shown, and kept by slot_append_send_chat_msg if the item is a user's.
OnSendBtnClicked(sizes) ==
    /\ InChat /\ obj.texts + Len(sizes) <= MaxTexts
    /\ LET fit == SelectSeq(sizes, LAMBDA n : n <= TextLimit)
           mine == [k \in DOMAIN fit |-> MaxSent + obj.texts + k]
           kept == obj.current # Zero /\ obj.current \in obj.added
       IN  obj' = [obj EXCEPT !.texts = @ + Len(sizes), !.shown = @ \o mine,
                              !.out = @ \o [b \in DOMAIN Batches(sizes) |-> <<obj.page, Batches(sizes)[b]>>],
                              !.itemMsgs = [u \in DOMAIN @ |-> IF kept /\ u = obj.current THEN @[u] \o mine ELSE @[u]],
                              !.msgs = [u \in Users |-> IF kept /\ u = obj.current /\ u \in ToSet(obj.friends)
                                                        THEN @[u] \o mine ELSE @[u]]]

Next ==
    /\ ~obj.crashed
    /\ \/ OnLoginBtnClicked \/ SwitchReset \/ SlotLoginModFinish \/ Connected \/ ErrorOccurred
       \/ ServerSends \/ \E n \in Cuts : Arrive(n)
       \/ ScrollChats \/ ScrollContacts
       \/ \E uid \in Users \union {Fake, Zero} : SlotChatItemClicked(uid) \/ SlotJumpChatItem(uid)
       \/ \E sizes \in BoundedSeq(1..TextLimit + 1, MaxTexts) : sizes # <<>> /\ OnSendBtnClicked(sizes)

(***************************************************************************)
(* Properties.                                                             *)
(***************************************************************************)
\* Messages are dispatched in the order they were sent, and all that have arrived, unless
\* one call of readyRead came to a second head or an old connection left bytes behind.
FramesAreRead ==
    /\ \A k \in 2..Len(obj.handled) : obj.handled[k - 1] < obj.handled[k]
    /\ ~obj.coalesced /\ ~obj.stale /\ ~obj.crashed => ToSet(obj.handled) = obj.arrived

\* The copies agree: an item has the texts UserMgr has of its friend, but the text that
\* made it twice; the page has those of the item it was opened for and sends to it.
TextsAreShown ==
    InChat /\ ~obj.crashed =>
        /\ obj.page = obj.current
        /\ obj.page \in Users => obj.shown = obj.itemMsgs[obj.page]
        /\ \A u \in ToSet(obj.friends) :
              IF u \in obj.added
              THEN obj.itemMsgs[u] = (IF obj.firsts[u] = 0 THEN <<>> ELSE <<obj.firsts[u]>>) \o obj.msgs[u]
              ELSE obj.msgs[u] = <<>>
        /\ \A k \in DOMAIN obj.out : LET sizes == obj.out[k][2] IN sizes # <<>> /\ FoldLeft(+, 0, sizes) <= TextLimit

\* Nobody is twice in the chat list, and in the contacts only who became a friend in this
\* run: UserMgr appends such a friend to the list it pages through.  Nobody is missed.
ListsAreWhole ==
    LET times(uid) == Cardinality({k \in DOMAIN obj.contacts : obj.contacts[k] = uid})
    IN  InChat =>
        /\ IsInjective(obj.items) /\ obj.added \subseteq ToSet(obj.items)
        /\ \A u \in ToSet(obj.friends) : times(u) <= IF u \in obj.live THEN 2 ELSE 1
        /\ \A k \in DOMAIN obj.friends :
              /\ k <= obj.contactLoaded => times(obj.friends[k]) > 0
              /\ k <= obj.chatLoaded => obj.friends[k] \in obj.added

\* The login button is disabled only while an answer is outstanding, or for ever: after
\* an answer that was no JSON, or one of HTTP that came while the socket was not closed.
ButtonComesBack ==
    obj.dialog = "login" /\ ~obj.enabled =>
        \/ obj.http > 0 \/ obj.socket = "connecting" \/ obj.asked > 0 \/ obj.stuck # {}
        \/ \E i \in DOMAIN obj.sent : obj.sent[i][1] \in {"login", "failed", "garbled"} /\ i \notin ToSet(obj.handled)

\* Only the text of somebody who is no friend, and a notification without texts, end the client.
DiesOfStrangers ==
    obj.crashed => LET m == obj.sent[Last(obj.handled)]
                   IN  m[1] = "empty" \/ (m[1] = "text" /\ m[2] \notin ToSet(obj.friends))
=============================================================================
