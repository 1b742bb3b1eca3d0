--------------------------- MODULE ClientDialogs ---------------------------
(***************************************************************************)
(* The dialogs of the chat client (src/chat/client): the labels of an      *)
(* application for a friendship (ApplyFriendDialog; AuthFriendDialog is the *)
(* same code but for what it sends), the lists and pages of the chat dialog *)
(* with the search and the applications, the text edit that collects       *)
(* pictures and files, and the forms before the login.  They are four      *)
(* machines, one step a handler: Qt runs all of them on one thread.        *)
(* Sizes, places and colours are left out.                                 *)
(***************************************************************************)
EXTENDS Naturals, Sequences, SequencesExt, FiniteSets

CONSTANTS Tips,             \* the labels offered, sequences of the bytes of their characters (1 or 3)
          FirstTips,        \* those that fit the first two lines
          MaxBytes,         \* of a label's name
          MaxLabels,        \* bound: labels offered
          Applicants,       \* strangers: each one's application, and what a search may find
          MaxQueries,       \* bound: searches
          Urls,             \* files to insert, sequences of letters, of which 0 is the ampersand
          MaxDoc,           \* bound: characters and objects in the edit
          MaxInserted,      \* bound: objects inserted for one message
          Countdown,        \* seconds to the return to the login
          Counter,          \* kCounter: seconds between two requests of a code
          Unsure,           \* fields the user fills in wrongly or not at all
          MaxHttp,          \* bound: requests under way
          MaxForms          \* bound: forms opened

VARIABLES obj

-----------------------------------------------------------------------------
(* The labels                                                              *)

LabelsInit ==
    obj = [tips |-> Tips, addKeys |-> SubSeq(Tips, 1, FirstTips), selected |-> {}, friends |-> {}, keys |-> <<>>,
           edit |-> <<>>, offered |-> FALSE, more |-> FALSE, open |-> TRUE, crashed |-> FALSE,
           removed |-> FALSE, garbled |-> FALSE]        \* history: a label was removed; by a name that was gone

Bytes(text) == FoldLeft(+, 0, text)

\* CustomizeEdit::limitTextLength: the bytes of the text are counted, each of a character
\* of three as three, and as many characters are kept as bytes were counted.
LimitTextLength(text) ==
    LET bytes == FlattenSeq([k \in DOMAIN text |-> [b \in 1..text[k] |-> text[k]]])
        count(acc, weight) == IF acc.len < MaxBytes THEN [i |-> acc.i + 1, len |-> acc.len + weight] ELSE acc
        i == FoldLeft(count, [i |-> 0, len |-> 0], bytes).i
    IN  IF Len(bytes) <= MaxBytes THEN text ELSE SubSeq(text, 1, IF i < Len(text) THEN i ELSE Len(text))

\* slot_label_text_change: the text is offered as a label.
SlotLabelTextChange(o, text) == [o EXCEPT !.edit = text, !.offered = text # <<>>]
Type(c) == obj' = SlotLabelTextChange(obj, LimitTextLength(Append(obj.edit, c)))
SlotLabelEditFinished == obj.offered /\ obj' = [obj EXCEPT !.offered = FALSE]

\* addLabel; the edit is left as it is if there is such a label.
AddLabel(o, name) ==
    IF name \in o.friends THEN o
    ELSE SlotLabelTextChange([o EXCEPT !.friends = @ \union {name}, !.keys = Append(@, name)], <<>>)

\* Enter, or a click on what is offered.
SlotLabelEnter ==
    /\ obj.edit # <<>>
    /\ LET text == obj.edit
           put(seq) == IF text \in ToSet(seq) THEN seq ELSE Append(seq, text)
       IN  Len(put(obj.tips)) <= MaxLabels
           /\ obj' = [AddLabel(obj, text) EXCEPT !.offered = FALSE, !.tips = put(@), !.addKeys = put(@), !.selected = @ \union {text}]

\* resetLabels asks the map for each key: one that is not in it would be a null pointer.
ResetLabels(o) == [o EXCEPT !.crashed = o.friends # {} /\ \E k \in DOMAIN o.keys : o.keys[k] \notin o.friends]

\* slot_remove_friend_label: the entry is erased and then read for the pointer to delete.
\* A name that belongs to the label deleted (`own`) may not be found in what follows.
SlotRemoveFriendLabel(o, name, own) ==
    LET erased == [o EXCEPT !.friends = @ \ {name}, !.removed = TRUE]
        whole == [ResetLabels([erased EXCEPT !.keys = SelectSeq(@, LAMBDA k : k # name)]) EXCEPT !.selected = @ \ {name}]
        lost == [ResetLabels(erased) EXCEPT !.garbled = TRUE]
    IN  IF name \notin o.friends THEN {o}
        ELSE {[erased EXCEPT !.crashed = TRUE], whole} \union (IF own THEN {lost} ELSE {})

\* FriendLabel::slot_close
SlotClose(name) == name \in obj.friends /\ obj' \in SlotRemoveFriendLabel(obj, name, TRUE)

\* ClickedLabel::mouseReleaseEvent has changed the state when it tells of it.
SlotChangeFriendLabelByTip(name) ==
    /\ name \in ToSet(obj.addKeys)
    /\ LET clicked == [obj EXCEPT !.selected = (@ \ {name}) \union ({name} \ @)]
       IN  obj' \in IF name \in clicked.selected THEN {AddLabel(clicked, name)} ELSE SlotRemoveFriendLabel(clicked, name, FALSE)

SlotShowMoreLabel ==
    /\ ~obj.more
    /\ obj' = [obj EXCEPT !.more = TRUE, !.addKeys = @ \o SelectSeq(obj.tips, LAMBDA t : t \notin ToSet(@))]

\* Sure sends the application, or the acceptance, but none of the labels.
SlotApplySure == obj' = [obj EXCEPT !.open = FALSE]
SlotAuthSure == obj' = [obj EXCEPT !.open = FALSE]

LabelsNext ==
    /\ obj.open /\ ~obj.crashed /\ ~obj.garbled            \* lists that disagree are not followed further
    /\ \/ \E c \in {1, 3} : Type(c)
       \/ SlotLabelEditFinished \/ SlotLabelEnter \/ SlotShowMoreLabel \/ SlotApplySure \/ SlotAuthSure
       \/ \E name \in ToSet(obj.tips) : SlotClose(name) \/ SlotChangeFriendLabelByTip(name)

\* A label offered is selected just when the application has it, the lists that keep the
\* order have what the maps have, and no name is two characters' bytes too long.
LabelsAgree ==
    /\ Bytes(obj.edit) <= MaxBytes + 2
    /\ ~obj.crashed /\ ~obj.garbled =>
          /\ IsInjective(obj.keys) /\ ToSet(obj.keys) = obj.friends /\ obj.selected = obj.friends
          /\ IsInjective(obj.addKeys) /\ ToSet(obj.addKeys) \subseteq ToSet(obj.tips)
          /\ obj.more => ToSet(obj.addKeys) = ToSet(obj.tips)

\* Only a removal ends the client.
DiesOfRemoval == obj.crashed => obj.removed

-----------------------------------------------------------------------------
(* The chat dialog: lists, pages, search and applications                  *)

\* asked: what the server has to answer; applied: who is in UserMgr's apply_list_; buttons:
\* whose item has an add button; unauth: the items a page made at the login.
ChatInit ==
    \E early \in SUBSET Applicants :
        obj = [state |-> "chat", mode |-> "chat", visible |-> "chat", page |-> "chat", side |-> {"chat"}, text |-> FALSE,
               pending |-> FALSE, loading |-> "none", asked |-> <<>>, find |-> "none", dialog |-> "none", searches |-> 0,
               applied |-> early, buttons |-> early, unauth |-> early, friends |-> {}, accepting |-> {}, sideRed |-> FALSE,
               contactRed |-> FALSE, crashed |-> FALSE,
               unseen |-> {}, live |-> {}, others |-> {},         \* history: applications not shown; that came later; friends made by the other side
               escaped |-> FALSE, lost |-> FALSE]                 \* history: a search's dialog was closed; its answer lost

\* A dialog takes the input of the window below it.
Free == obj.loading # "open" /\ obj.find = "none" /\ obj.dialog = "none"

See(o) == IF o.page = "apply" THEN [o EXCEPT !.unseen = {}] ELSE o

ShowSearch(o, search) ==
    LET m == IF search THEN "search" ELSE o.state
    IN  [o EXCEPT !.mode = m, !.visible = m]

\* clearLabelState: a click has changed the state of the label clicked.
ClearLabelState(o, label) == [o EXCEPT !.side = {label}]
SlotSideChat(o) == ShowSearch([ClearLabelState(o, "chat") EXCEPT !.page = "chat", !.state = "chat"], FALSE)
SlotSideContact(o) ==
    See([ShowSearch([ClearLabelState(o, "contact") EXCEPT !.page = "apply", !.state = "contact"], FALSE) EXCEPT !.sideRed = FALSE])
ClickSide(label) ==
    /\ Free
    /\ LET clicked == [obj EXCEPT !.side = (@ \ {label}) \union ({label} \ @)]
       IN  obj' = IF label = "chat" THEN SlotSideChat(clicked) ELSE SlotSideContact(clicked)

SlotSearchTextChanged == Free /\ obj' = IF ~obj.text THEN ShowSearch([obj EXCEPT !.text = TRUE], TRUE) ELSE [obj EXCEPT !.text = FALSE]
\* clear_action_, and handleGlobalMousePress in the search.
ClearSearch == Free /\ obj' = ShowSearch([obj EXCEPT !.text = FALSE], FALSE)

SlotJumpChatItem(o) == SlotSideChat([o EXCEPT !.side = @ \union {"chat"}])

\* ContactUserList::slot_item_clicked
SlotSwitchApplyFriendPage ==
    Free /\ obj.visible = "contact" /\ obj' = See([obj EXCEPT !.contactRed = FALSE, !.page = "apply"])
SlotSwitchFriendInfoPage == Free /\ obj.visible = "contact" /\ obj' = [obj EXCEPT !.page = "info"]
ClickMsgChat == Free /\ obj.page = "info" /\ obj' = SlotJumpChatItem(obj)

\* SearchList::slot_item_clicked and waitPending.
SlotItemClicked ==
    /\ Free /\ obj.visible = "search" /\ ~obj.pending /\ obj.searches < MaxQueries
    /\ \E a \in Applicants \union {"nobody", "self"} :
          obj' = [obj EXCEPT !.pending = TRUE, !.loading = "open", !.asked = Append(@, a), !.searches = @ + 1]

\* Escape closes the dialog that waits, and Qt::WA_DeleteOnClose deletes it.
Escape == obj.loading = "open" /\ obj' = [obj EXCEPT !.loading = "gone", !.escaped = TRUE]

\* slot_user_search deletes it, again if it is gone.
SlotUserSearch ==
    /\ obj.asked # <<>>
    /\ LET a == Head(obj.asked)
           done == [obj EXCEPT !.asked = Tail(@), !.pending = FALSE, !.loading = "none"]
       IN  \/ obj.loading = "gone" /\ obj' = [done EXCEPT !.crashed = TRUE]
           \/ obj' = CASE a = "nobody" -> [done EXCEPT !.find = "fail"]
                       [] a = "self" -> done
                       [] a \in obj.friends -> SlotJumpChatItem(done)
                       [] OTHER -> [done EXCEPT !.find = "success"]
SearchLost == obj.asked # <<>> /\ obj' = [obj EXCEPT !.asked = <<>>, !.lost = TRUE]

OnFailSureBtnClicked == obj.find = "fail" /\ obj' = [obj EXCEPT !.find = "none"]
OnAddFriendBtnClicked == obj.find = "success" /\ obj.dialog = "none" /\ obj' = [obj EXCEPT !.find = "none", !.dialog = "apply"]
CloseDialog == obj.dialog # "none" /\ obj' = [obj EXCEPT !.dialog = "none"]

\* ApplyFriendPage::slot_auth_friend, and sure in the dialog it opens.
SlotAuthFriend(u) == Free /\ obj.page = "apply" /\ u \in obj.buttons /\ obj' = [obj EXCEPT !.dialog = u]
Accept == obj.dialog \in Applicants /\ obj' = [obj EXCEPT !.dialog = "none", !.accepting = @ \union {obj.dialog}]

SlotFriendApply(u) ==
    /\ u \notin obj.applied                                       \* UserMgr::AlreadyApply
    /\ obj' = See([obj EXCEPT !.applied = @ \union {u}, !.buttons = @ \union {u}, !.live = @ \union {u},
                              !.sideRed = TRUE, !.contactRed = TRUE, !.unseen = @ \union {u}])

\* The page knows the items it made at the login only.
SlotAuthRsp(u) ==
    /\ u \in obj.accepting
    /\ obj' = [obj EXCEPT !.friends = @ \union {u}, !.accepting = @ \ {u}, !.buttons = @ \ ({u} \intersect obj.unauth)]
SlotAddAuthFriend(u) == u \notin obj.friends /\ obj' = [obj EXCEPT !.friends = @ \union {u}, !.others = @ \union {u}]

ChatNext ==
    /\ ~obj.crashed
    /\ \/ \E label \in {"chat", "contact"} : ClickSide(label)
       \/ SlotSearchTextChanged \/ ClearSearch \/ SlotSwitchApplyFriendPage \/ SlotSwitchFriendInfoPage \/ ClickMsgChat
       \/ SlotItemClicked \/ Escape \/ SlotUserSearch \/ SearchLost
       \/ OnFailSureBtnClicked \/ OnAddFriendBtnClicked \/ CloseDialog \/ Accept
       \/ \E u \in Applicants : SlotAuthFriend(u) \/ SlotFriendApply(u) \/ SlotAuthRsp(u) \/ SlotAddAuthFriend(u)

\* The list seen is that of the mode, the page that of the label selected, and an
\* application that nobody has seen has a red point on the way to it.
PagesAgree ==
    /\ obj.visible = obj.mode /\ obj.mode \in {"search", obj.state} /\ obj.side = {obj.state}
    /\ obj.page \in (IF obj.state = "chat" THEN {"chat"} ELSE {"apply", "info"})
    /\ obj.unseen # {} => obj.sideRed \/ obj.contactRed

\* Who is no friend can be accepted; who is one can be again only if the application
\* came after the login, or the other side made the friendship.
ButtonsAreTrue ==
    /\ obj.applied \ obj.friends \subseteq obj.buttons
    /\ obj.buttons \intersect obj.friends \subseteq obj.live \union obj.others

\* A search waits for an answer, or for ever once that is lost; what it finds is shown on
\* top of it, and only a dialog closed by the user brings the rest.
SearchesEnd ==
    /\ obj.pending => obj.asked # <<>> \/ obj.lost
    /\ obj.loading = "open" => obj.pending
    /\ ~obj.escaped => ~obj.crashed /\ (obj.find # "none" => obj.visible = "search") /\ ~(obj.find # "none" /\ obj.dialog # "none")

-----------------------------------------------------------------------------
(* The text edit of a message                                              *)

\* A character has no url, an object has one.  msg_list_ has the urls as they were inserted.
Char == <<>>
EditInit ==
    obj = [doc |-> <<>>, msgs |-> <<>>, got |-> <<>>, meant |-> <<>>,
           inOrder |-> TRUE, clash |-> FALSE, deleted |-> FALSE]  \* history: objects inserted in order; with like urls; deleted

\* QString::contains
Within(text, url) == \E at \in 0..Len(text) : at + Len(url) <= Len(text) /\ SubSeq(text, at + 1, at + Len(url)) = url
Objects(doc) == SelectSeq(doc, LAMBDA c : c # Char)
Put(doc, at, c) == SubSeq(doc, 1, at) \o <<c>> \o SubSeq(doc, at + 1, Len(doc))

TypeAt(at) == Len(obj.doc) < MaxDoc /\ obj' = [obj EXCEPT !.doc = Put(@, at, Char)]

\* insertImage and insertTextFile: at the cursor, and at the end of msg_list_.
InsertFile(at, url) ==
    /\ Len(obj.doc) < MaxDoc /\ Len(obj.msgs) < MaxInserted
    /\ obj' = [obj EXCEPT !.doc = Put(@, at, url), !.msgs = Append(@, url),
                          !.inOrder = @ /\ Objects(SubSeq(obj.doc, at + 1, Len(obj.doc))) = <<>>,
                          !.clash = @ \/ \E k \in DOMAIN obj.msgs : Within(obj.msgs[k], url) \/ Within(url, obj.msgs[k])]
DeleteAt(at) ==
    obj' = [obj EXCEPT !.doc = SubSeq(@, 1, at - 1) \o SubSeq(@, at + 1, Len(@)), !.deleted = @ \/ obj.doc[at] # Char]

\* The texts between the objects, of a document and of what the next object gets.
Text(n) == [url |-> Char, chars |-> n]
File(url) == [url |-> url, chars |-> 0]
Flush(acc) == IF acc.text = 0 THEN acc ELSE [acc EXCEPT !.out = Append(@, Text(acc.text)), !.text = 0]

\* toHtml writes an ampersand as one followed by "amp;", here the letter 1.
ToHtml(url) == FlattenSeq([k \in DOMAIN url |-> IF url[k] = 0 THEN <<0, 1>> ELSE <<url[k]>>])

\* An object gets the next message whose url is anywhere in the document, as HTML.
GetMsgList(doc, msgs) ==
    LET found(from) == SelectInSubSeq(msgs, from, Len(msgs), LAMBDA url : \E j \in DOMAIN doc : Within(ToHtml(doc[j]), url))
        step(acc, c) ==
            IF c = Char THEN [acc EXCEPT !.text = @ + 1]
            ELSE LET f == Flush(acc)
                     k == found(f.next)
                 IN  IF k = 0 THEN [f EXCEPT !.next = Len(msgs) + 1]
                     ELSE [f EXCEPT !.next = k + 1, !.out = Append(@, File(msgs[k]))]
    IN  Flush(FoldLeft(step, [text |-> 0, next |-> 1, out |-> <<>>], doc)).out

Written(doc) ==
    LET step(acc, c) == IF c = Char THEN [acc EXCEPT !.text = @ + 1] ELSE [Flush(acc) EXCEPT !.out = Append(@, File(c))]
    IN  Flush(FoldLeft(step, [text |-> 0, out |-> <<>>], doc)).out

\* on_send_btn_clicked takes the messages, and the edit is empty.
Send ==
    /\ obj.doc # <<>>
    /\ obj' = [obj EXCEPT !.doc = <<>>, !.msgs = <<>>, !.got = GetMsgList(obj.doc, obj.msgs), !.meant = Written(obj.doc)]

\* After the first message all is as at the beginning.
EditNext ==
    /\ obj.meant = <<>>
    /\ \/ \E at \in 0..Len(obj.doc) : TypeAt(at) \/ \E url \in Urls : InsertFile(at, url)
       \/ \E at \in DOMAIN obj.doc : DeleteAt(at)
       \/ Send

\* A message is sent as it was written if its objects were inserted in their order, HTML
\* leaves their urls as they are, and none was deleted whose url is like another's; the
\* texts are sent, and no object more.
SentAsWritten ==
    LET texts(list) == SelectSeq(list, LAMBDA m : m.url = Char)
        plain == \A k \in DOMAIN obj.meant : Within(ToHtml(obj.meant[k].url), obj.meant[k].url)
    IN  /\ obj.inOrder /\ plain /\ ~(obj.clash /\ obj.deleted) => obj.got = obj.meant
        /\ texts(obj.got) = texts(obj.meant) /\ Len(obj.got) <= Len(obj.meant)

-----------------------------------------------------------------------------
(* The forms before the login                                              *)

\* TipErr, in the order of tip_errs_.  The login form checks two of the fields.
Fields == <<"email", "password", "confirm", "verify", "user">>
Form(window) ==
    [window |-> window, invalid |-> Unsure, errs |-> {}, tip |-> "none", done |-> FALSE, countdown |-> Countdown,
     counting |-> FALSE, enabled |-> TRUE, counter |-> Counter, asked |-> FALSE, hasty |-> FALSE, since |-> Counter,  \* history: codes asked for too soon; seconds since one was
     untimed |-> FALSE]                   \* history: the button was pressed and stayed enabled
FormsInit == obj = [form |-> Form("login"), http |-> <<>>, forms |-> 1, orphan |-> FALSE]     \* history: an answer came to a form that did not ask

\* ErrTip
AddTipErr(f, field) == [f EXCEPT !.errs = @ \union {field}, !.tip = field]
DelTipErr(f, field) ==
    LET errs == f.errs \ {field}
        first == SelectInSeq(Fields, LAMBDA g : g \in errs)
    IN  [f EXCEPT !.errs = errs, !.tip = IF first = 0 THEN "none" ELSE Fields[first]]
Check(f, field) == IF field \in f.invalid THEN AddTipErr(f, field) ELSE DelTipErr(f, field)
\* A chain of checks ends at the first that fails.
CheckAll(f, fields) ==
    LET bad == SelectInSeq(fields, LAMBDA g : g \in f.invalid)
    IN  FoldLeft(Check, f, IF bad = 0 THEN fields ELSE SubSeq(fields, 1, bad))

\* Editing a field, which may make another that repeats it wrong, and leaving it.
Edit(field) == obj' = [obj EXCEPT !.form.invalid = (@ \ {field}) \union ({field} \ @)]
EditingFinished(field) == obj' = [obj EXCEPT !.form = Check(@, field)]

OnSureBtnClicked ==
    /\ obj.form.window # "login" /\ ~obj.form.done /\ Len(obj.http) < MaxHttp
    /\ LET fields == IF obj.form.window = "register" THEN <<"user", "email", "password", "confirm", "verify">>
                     ELSE <<"user", "email", "verify", "password">>
           valid == \A k \in DOMAIN fields : fields[k] \notin obj.form.invalid
           f == CheckAll(obj.form, fields)
       IN  obj' = IF valid THEN [obj EXCEPT !.form = [f EXCEPT !.asked = TRUE], !.http = Append(@, <<f.window, "submit">>)]
                  ELSE [obj EXCEPT !.form = f]

\* TimerBtn::mouseReleaseEvent disables the button whatever the e-mail is; the press of a
\* key does not, and the button of the reset form is no TimerBtn.
OnGetCodeBtnClicked ==
    /\ obj.form.window # "login" /\ obj.form.enabled /\ ~obj.form.done /\ Len(obj.http) < MaxHttp
    /\ \E by \in {"mouse", "key"} :
        LET timed == by = "mouse" /\ obj.form.window = "register"
            f == [Check(obj.form, "email") EXCEPT !.enabled = ~timed, !.untimed = @ \/ ~timed]
        IN  obj' = IF "email" \in f.invalid THEN [obj EXCEPT !.form = f]
                   ELSE [obj EXCEPT !.form = [f EXCEPT !.hasty = @ \/ f.since < Counter, !.since = 0],
                                    !.http = Append(@, <<f.window, "code">>)]

\* A second passes, for the timer of a disabled button, too.
ButtonTimeout ==
    /\ ~obj.form.enabled \/ obj.form.since < Counter
    /\ LET f == [obj.form EXCEPT !.since = IF @ < Counter THEN @ + 1 ELSE @]
       IN  obj' = [obj EXCEPT !.form = IF f.enabled THEN f
                                       ELSE IF f.counter = 1 THEN [f EXCEPT !.enabled = TRUE, !.counter = Counter]
                                       ELSE [f EXCEPT !.counter = @ - 1]]

\* The countdown reaches zero a second before it switches.
CountdownTimeout ==
    /\ obj.form.counting
    /\ obj' = IF obj.form.countdown = 0 THEN [obj EXCEPT !.form = Form("login"), !.orphan = FALSE]
              ELSE [obj EXCEPT !.form.countdown = @ - 1]

\* An answer reaches the form there is now; every form of a kind listens to the same signal.
Answer(ok) ==
    /\ obj.http # <<>>
    /\ LET m == Head(obj.http)
           rest == [obj EXCEPT !.http = Tail(@)]
           register == m = <<"register", "submit">>
       IN  obj' = IF m[1] # obj.form.window THEN rest
                  ELSE IF ok = "no" THEN [rest EXCEPT !.form.tip = "error"]              \* checkHttpResponse, or an error
                  ELSE [rest EXCEPT !.form.tip = "done", !.form.done = @ \/ register, !.form.counting = @ \/ register,
                                    !.orphan = @ \/ (register /\ ~obj.form.asked)]

\* MainWindow makes a new form at every switch, and setCentralWidget deletes the old one.
SlotSwitch(window) ==
    /\ (obj.form.window = "login") # (window = "login") /\ obj.forms < MaxForms
    /\ obj' = [obj EXCEPT !.form = Form(window), !.forms = @ + 1, !.orphan = FALSE]

FormsNext ==
    \/ \E field \in Unsure : Edit(field) \/ EditingFinished(field)
    \/ OnSureBtnClicked \/ OnGetCodeBtnClicked \/ ButtonTimeout \/ CountdownTimeout
    \/ \E ok \in {"yes", "no"} : Answer(ok)
    \/ \E window \in {"login", "register", "reset"} : SlotSwitch(window)

\* A field's error is shown only while the form has it, and errors are not without a
\* tip; who is told of a registration asked for it in this form, unless the answer was
\* to an earlier one, and is led back; a code is asked for once in the button's time, but
\* for presses that leave the button enabled.
FormsAgree ==
    LET f == obj.form
    IN  /\ f.tip \in ToSet(Fields) => f.tip \in f.errs
        /\ f.errs # {} => f.tip # "none"
        /\ f.done => f.counting /\ (f.asked \/ obj.orphan)
        /\ f.hasty => f.untimed
=============================================================================
