---------------------------- MODULE AccountProofs ----------------------------
(***************************************************************************)
(* Proofs about Accounts: registering and resetting, for every number of   *)
(* e-mails, names, calls and requests, and logging in, for every number of *)
(* logins, accounts and chat servers.                                      *)
(***************************************************************************)
EXTENDS Accounts, Friendship, SequenceTheorems, FiniteSetTheorems, WellFoundedInduction, TLAPS

-----------------------------------------------------------------------------
(* The codes: the inductive invariant *)

CallPlaces == {"idle", "query", "set", "expire", "get", "mail", "answered", "failed"}

CallRecord == [pc : CallPlaces, email : Emails \cup {Unset}, code : Calls \cup {Unset},
               blind : BOOLEAN]

VerifyTypes ==
    /\ call \in [Calls -> CallRecord]
    /\ codes \in [Emails -> [code : Calls \cup {Unset}, ttl : BOOLEAN]]
    /\ mailed \subseteq Emails \X Calls

\* The code c was made by its call for the e-mail e.
Made(c, e) == c \in Calls /\ call[c].code = c /\ call[c].email = e

\* What a call holds, by where it is.
CallsHold ==
    \A v \in Calls :
        /\ call[v].pc # "idle" => call[v].email \in Emails
        /\ call[v].pc \in {"idle", "query", "set", "get"} => call[v].code = Unset
        /\ call[v].pc \in {"expire", "failed", "answered"} => call[v].code = v
        /\ call[v].pc = "mail" => Made(call[v].code, call[v].email)

\* A code is in Redis and in the mail only for the e-mail it was made for.
CodesMade ==
    /\ \A e \in Emails : codes[e] = NoKey \/ Made(codes[e].code, e)
    /\ \A m \in mailed : Made(m[2], m[1])

\* Calls that are in flight together overlap.
InFlightOverlap == \A u, v \in InFlight : u # v => {u, v} \in overlap

\* A call that saw no code and is about to set one overlaps with the call whose
\* code has come in between.
SetSawNone ==
    \A v \in Calls : call[v].pc = "set" /\ ~ call[v].blind =>
        \/ codes[call[v].email] = NoKey
        \/ {codes[call[v].email].code, v} \in overlap

VerifyInv ==
    VerifyTypes /\ CallsHold /\ CodesMade /\ StoredCodesExpire /\ InFlightOverlap /\ SetSawNone

LEMMA InitVerifyInv == RegInit => VerifyInv
<1> SUFFICES ASSUME RegInit PROVE VerifyInv
  OBVIOUS
<1>1. /\ \A v \in Calls : call[v].pc = "idle" /\ call[v].code = Unset
      /\ \A e \in Emails : codes[e] = NoKey
      /\ mailed = {}
  BY DEF RegInit, NoCall
<1>2. VerifyTypes
  BY DEF RegInit, VerifyTypes, CallRecord, CallPlaces, NoCall, NoKey
<1> QED
  BY <1>1, <1>2
     DEF VerifyInv, CallsHold, CodesMade, StoredCodesExpire, InFlightOverlap, SetSawNone, InFlight

Called(pc, email, code, blind) == [pc |-> pc, email |-> email, code |-> code, blind |-> blind]

\* The call v, and no other, becomes r.
Becomes(v, r) == call' = [call EXCEPT ![v] = r] /\ r \in CallRecord

LEMMA CallRecords ==
    ASSUME NEW r \in CallRecord, NEW p
    PROVE  /\ [r EXCEPT !.pc = p] = Called(p, r.email, r.code, r.blind)
           /\ \A e : [r EXCEPT !.pc = p, !.email = e] = Called(p, e, r.code, r.blind)
           /\ \A c : [r EXCEPT !.pc = p, !.code = c] = Called(p, r.email, c, r.blind)
           /\ \A b : [r EXCEPT !.pc = p, !.blind = b] = Called(p, r.email, r.code, b)
<1> DEFINE q == [r EXCEPT !.pc = p]
<1>1. q = Called(p, r.email, r.code, r.blind)
  BY DEF CallRecord, Called
<1> HIDE DEF q
<1>2. /\ \A e : [q EXCEPT !.email = e] = Called(p, e, r.code, r.blind)
      /\ \A c : [q EXCEPT !.code = c] = Called(p, r.email, c, r.blind)
      /\ \A b : [q EXCEPT !.blind = b] = Called(p, r.email, r.code, b)
  BY <1>1 DEF Called
<1> QED
  BY <1>1, <1>2 DEF q

\* A step of a call writes its record.
LEMMA CallWritten ==
    ASSUME call \in [Calls -> CallRecord], NEW v \in Calls, NEW r \in CallRecord,
           call' = [call EXCEPT ![v] = r]
    PROVE  Becomes(v, r)
BY DEF Becomes

\* What the actions of the verify server make of a call.
LEMMA CallBecomes ==
    ASSUME VerifyInv, NEW v \in Calls
    PROVE  /\ \A e \in Emails : Ask(v, e) =>
                Becomes(v, Called("query", e, call[v].code, call[v].blind))
           /\ Query(v) =>
                \/ \E fails \in BOOLEAN : Becomes(v, Called("set", call[v].email, call[v].code, fails))
                \/ Becomes(v, Called("get", call[v].email, call[v].code, call[v].blind))
           /\ SetCode(v) =>
                \/ \E p \in {"expire", "failed"} : Becomes(v, Called(p, call[v].email, v, call[v].blind))
                \/ Becomes(v, NoCall)
           /\ SetExpire(v) =>
                \E p \in {"mail", "failed"} : Becomes(v, Called(p, call[v].email, call[v].code, call[v].blind))
           /\ GetCode(v) =>
                \/ Becomes(v, Called("mail", call[v].email, codes[call[v].email].code, call[v].blind))
                \/ Becomes(v, NoCall)
           /\ SendMail(v) =>
                \/ Becomes(v, Called("answered", call[v].email, call[v].code, call[v].blind)) /\ call[v].code = v
                \/ Becomes(v, NoCall) /\ call[v].code # v
<1>0. /\ call \in [Calls -> CallRecord] /\ call[v] \in CallRecord
      /\ call[v].email \in Emails \cup {Unset} /\ call[v].code \in Calls \cup {Unset} /\ call[v].blind \in BOOLEAN
      /\ NoCall \in CallRecord
      /\ \A p \in CallPlaces, e \in Emails \cup {Unset}, c \in Calls \cup {Unset}, b \in BOOLEAN :
            Called(p, e, c, b) \in CallRecord
  BY DEF VerifyInv, VerifyTypes, CallRecord, NoCall, CallPlaces, Called
<1>1. ASSUME Reply(v), call[v].code \in Calls
      PROVE  \/ Becomes(v, Called("answered", call[v].email, call[v].code, call[v].blind)) /\ call[v].code = v
             \/ Becomes(v, NoCall) /\ call[v].code # v
  <2>1. CASE call[v].code = v
    <3>1. call' = [call EXCEPT ![v] = [call[v] EXCEPT !.pc = "answered"]]
      BY <1>1, <2>1 DEF Reply, Move
    <3>2. [call[v] EXCEPT !.pc = "answered"] = Called("answered", call[v].email, call[v].code, call[v].blind)
      BY <1>0, CallRecords
    <3>3. call' = [call EXCEPT ![v] = Called("answered", call[v].email, call[v].code, call[v].blind)]
      BY <3>1, <3>2
    <3> QED
      BY <1>0, <2>1, <3>3, CallWritten DEF CallPlaces
  <2>2. CASE call[v].code # v
    BY <1>0, <1>1, <2>2, CallWritten DEF Reply
  <2> QED
    BY <2>1, <2>2
<1>2. ASSUME NEW e \in Emails, Ask(v, e)
      PROVE  Becomes(v, Called("query", e, call[v].code, call[v].blind))
  <2>1. call' = [call EXCEPT ![v] = [call[v] EXCEPT !.pc = "query", !.email = e]]
    BY <1>0, <1>2 DEF Ask
  <2>2. [call[v] EXCEPT !.pc = "query", !.email = e] = Called("query", e, call[v].code, call[v].blind)
    BY <1>0, CallRecords
  <2>3. call' = [call EXCEPT ![v] = Called("query", e, call[v].code, call[v].blind)]
    BY <2>1, <2>2
  <2> QED
    BY <1>0, <2>3, CallWritten DEF CallPlaces
<1>3. ASSUME Query(v)
      PROVE  \/ \E fails \in BOOLEAN : Becomes(v, Called("set", call[v].email, call[v].code, fails))
             \/ Becomes(v, Called("get", call[v].email, call[v].code, call[v].blind))
  <2>1. \/ \E fails \in BOOLEAN : call' = [call EXCEPT ![v] = [call[v] EXCEPT !.pc = "set", !.blind = fails]]
        \/ call' = [call EXCEPT ![v] = [call[v] EXCEPT !.pc = "get"]]
    BY <1>0, <1>3 DEF Query, Move
  <2>2. /\ \A b \in BOOLEAN :
             [call[v] EXCEPT !.pc = "set", !.blind = b] = Called("set", call[v].email, call[v].code, b)
        /\ [call[v] EXCEPT !.pc = "get"] = Called("get", call[v].email, call[v].code, call[v].blind)
    BY <1>0, CallRecords
  <2>3. CASE call' = [call EXCEPT ![v] = [call[v] EXCEPT !.pc = "get"]]
    <3>1. call' = [call EXCEPT ![v] = Called("get", call[v].email, call[v].code, call[v].blind)]
      BY <2>2, <2>3
    <3> QED
      BY <1>0, <3>1, CallWritten DEF CallPlaces
  <2>4. ASSUME NEW b \in BOOLEAN,
               call' = [call EXCEPT ![v] = [call[v] EXCEPT !.pc = "set", !.blind = b]]
        PROVE  Becomes(v, Called("set", call[v].email, call[v].code, b))
    <3>1. call' = [call EXCEPT ![v] = Called("set", call[v].email, call[v].code, b)]
      BY <2>2, <2>4
    <3> QED
      BY <1>0, <3>1, CallWritten DEF CallPlaces
  <2> QED
    BY <2>1, <2>3, <2>4
<1>4. ASSUME SetCode(v)
      PROVE  \/ \E p \in {"expire", "failed"} : Becomes(v, Called(p, call[v].email, v, call[v].blind))
             \/ Becomes(v, NoCall)
  <2>1. call[v].code = Unset /\ Unset # v
    BY <1>4, RegAssumption DEF SetCode, VerifyInv, CallsHold
  <2>2. \/ \E p \in {"expire", "failed"} : call' = [call EXCEPT ![v] = [call[v] EXCEPT !.pc = p, !.code = v]]
        \/ call' = [call EXCEPT ![v] = NoCall]
    BY <1>0, <1>4, <2>1 DEF SetCode, Reply
  <2>3. CASE call' = [call EXCEPT ![v] = NoCall]
    BY <1>0, <2>3, CallWritten
  <2>4. ASSUME NEW p \in {"expire", "failed"},
               call' = [call EXCEPT ![v] = [call[v] EXCEPT !.pc = p, !.code = v]]
        PROVE  Becomes(v, Called(p, call[v].email, v, call[v].blind))
    <3>1. [call[v] EXCEPT !.pc = p, !.code = v] = Called(p, call[v].email, v, call[v].blind)
      BY <1>0, CallRecords
    <3>2. call' = [call EXCEPT ![v] = Called(p, call[v].email, v, call[v].blind)]
      BY <2>4, <3>1
    <3> QED
      BY <1>0, <3>2, CallWritten DEF CallPlaces
  <2> QED
    BY <2>2, <2>3, <2>4
<1>5. ASSUME SetExpire(v)
      PROVE  \E p \in {"mail", "failed"} : Becomes(v, Called(p, call[v].email, call[v].code, call[v].blind))
  <2>1. PICK p \in {"mail", "failed"} : call' = [call EXCEPT ![v] = [call[v] EXCEPT !.pc = p]]
    BY <1>5 DEF SetExpire, Move
  <2>2. [call[v] EXCEPT !.pc = p] = Called(p, call[v].email, call[v].code, call[v].blind)
    BY <1>0, CallRecords
  <2>3. call' = [call EXCEPT ![v] = Called(p, call[v].email, call[v].code, call[v].blind)]
    BY <2>1, <2>2
  <2> QED
    BY <1>0, <2>3, CallWritten DEF CallPlaces
<1>6. ASSUME GetCode(v)
      PROVE  \/ Becomes(v, Called("mail", call[v].email, codes[call[v].email].code, call[v].blind))
             \/ Becomes(v, NoCall)
  <2>1. call[v].code = Unset /\ Unset # v /\ call[v].email \in Emails
    BY <1>6, RegAssumption DEF GetCode, VerifyInv, CallsHold
  <2>2. \E c \in Calls \cup {Unset} : c = codes[call[v].email].code
    BY <2>1 DEF VerifyInv, VerifyTypes
  <2>3. PICK c \in Calls \cup {Unset} : c = codes[call[v].email].code
    BY <2>2
  <2>4. \/ call' = [call EXCEPT ![v] = [call[v] EXCEPT !.pc = "mail", !.code = c]]
        \/ call' = [call EXCEPT ![v] = NoCall]
    BY <1>0, <1>6, <2>1, <2>3 DEF GetCode, Reply
  <2>5. [call[v] EXCEPT !.pc = "mail", !.code = c] = Called("mail", call[v].email, c, call[v].blind)
    BY <1>0, CallRecords
  <2>6. \/ call' = [call EXCEPT ![v] = Called("mail", call[v].email, c, call[v].blind)]
        \/ call' = [call EXCEPT ![v] = NoCall]
    BY <2>4, <2>5
  <2> QED
    BY <1>0, <2>3, <2>6, CallWritten DEF CallPlaces
<1>7. ASSUME SendMail(v)
      PROVE  \/ Becomes(v, Called("answered", call[v].email, call[v].code, call[v].blind)) /\ call[v].code = v
             \/ Becomes(v, NoCall) /\ call[v].code # v
  BY <1>1, <1>7 DEF SendMail, VerifyInv, CallsHold, Made
<1> QED
  BY <1>2, <1>3, <1>4, <1>5, <1>6, <1>7

\* What a call has made stays made: only a call that made no code is forgotten.
LEMMA MadeStays ==
    ASSUME VerifyInv, NEW v \in Calls,
           \/ \E e \in Emails : Ask(v, e)
           \/ Query(v) \/ SetCode(v) \/ SetExpire(v) \/ GetCode(v) \/ SendMail(v)
    PROVE  /\ call' \in [Calls -> CallRecord]
           /\ \A u \in Calls : u # v => call'[u] = call[u]
           /\ \A c, e : Made(c, e) => Made(c, e)'
<1> USE DEF VerifyInv, VerifyTypes
<1>1. ASSUME NEW r, Becomes(v, r)
      PROVE  call' \in [Calls -> CallRecord] /\ \A u \in Calls : u # v => call'[u] = call[u]
  BY <1>1 DEF Becomes
<1>2. ASSUME NEW r, Becomes(v, r), call[v].code = v => r.code = v /\ r.email = call[v].email
      PROVE  \A c, e : Made(c, e) => Made(c, e)'
  BY <1>2 DEF Becomes, Made
<1>3. call[v].pc \in {"idle", "query", "set", "get"} => call[v].code # v
  BY RegAssumption DEF CallsHold
<1>4. ASSUME NEW e \in Emails, Ask(v, e)
      PROVE  \E r : Becomes(v, r) /\ (call[v].code = v => r.code = v /\ r.email = call[v].email)
  BY <1>3, <1>4, CallBecomes DEF Ask
<1>5. CASE Query(v) \/ SetCode(v) \/ GetCode(v)
  <2>1. call[v].code # v
    BY <1>3, <1>5 DEF Query, SetCode, GetCode
  <2>2. \E r : Becomes(v, r)
    BY <1>5, CallBecomes
  <2> QED
    BY <1>1, <1>2, <2>1, <2>2
<1>6. CASE SetExpire(v) \/ SendMail(v)
  <2>1. \/ Becomes(v, NoCall) /\ call[v].code # v
        \/ \E p \in CallPlaces : Becomes(v, Called(p, call[v].email, call[v].code, call[v].blind))
    BY <1>6, CallBecomes DEF CallPlaces
  <2>2. \A p : /\ Called(p, call[v].email, call[v].code, call[v].blind).code = call[v].code
               /\ Called(p, call[v].email, call[v].code, call[v].blind).email = call[v].email
    BY DEF Called
  <2> QED
    BY <1>1, <1>2, <2>1, <2>2
<1> QED
  BY <1>1, <1>2, <1>4, <1>5, <1>6

\* A code that does not expire stays the code of its call while another one goes on.
LEMMA StaysStored ==
    ASSUME VerifyInv, NEW v \in Calls, call[v].pc \notin {"expire", "failed"},
           \A u \in Calls : u # v => call'[u] = call[u],
           NEW e \in Emails, codes[e] # NoKey, ~ codes[e].ttl
    PROVE  LET u == codes[e].code IN call'[u].email = e /\ call'[u].pc \in {"expire", "failed"}
<1>1. PICK u \in Calls : u = codes[e].code /\ call[u].email = e /\ call[u].pc \in {"expire", "failed"}
  BY DEF VerifyInv, CodesMade, Made, StoredCodesExpire
<1>2. call'[u] = call[u]
  BY <1>1
<1> QED
  BY <1>1, <1>2

\* The calls other than v hold what they held.
LEMMA OthersHold ==
    ASSUME VerifyInv, NEW v \in Calls,
           \A u \in Calls : u # v => call'[u] = call[u],
           \A c, e : Made(c, e) => Made(c, e)',
           /\ call'[v].pc # "idle" => call'[v].email \in Emails
           /\ call'[v].pc \in {"idle", "query", "set", "get"} => call'[v].code = Unset
           /\ call'[v].pc \in {"expire", "failed", "answered"} => call'[v].code = v
           /\ call'[v].pc = "mail" => Made(call[v].code, call[v].email)'
    PROVE  CallsHold'
<1> SUFFICES ASSUME NEW u \in Calls, u # v
             PROVE  /\ call'[u].pc # "idle" => call'[u].email \in Emails
                    /\ call'[u].pc \in {"idle", "query", "set", "get"} => call'[u].code = Unset
                    /\ call'[u].pc \in {"expire", "failed", "answered"} => call'[u].code = u
                    /\ call'[u].pc = "mail" => Made(call[u].code, call[u].email)'
  BY DEF CallsHold
<1>1. call'[u] = call[u]
  OBVIOUS
<1> QED
  BY <1>1 DEF VerifyInv, CallsHold

LEMMA AskPreserves ==
    ASSUME VerifyInv, NEW v \in Calls, NEW e \in Emails, Ask(v, e)
    PROVE  VerifyInv'
<1> USE RegAssumption DEF VerifyInv, VerifyTypes
<1>1. /\ call' \in [Calls -> CallRecord]
      /\ \A u \in Calls : u # v => call'[u] = call[u]
      /\ \A c, x : Made(c, x) => Made(c, x)'
  BY MadeStays
<1>2. call'[v].pc = "query" /\ call'[v].email = e /\ call'[v].code = Unset
  <2>1. Becomes(v, Called("query", e, call[v].code, call[v].blind)) /\ call[v].code = Unset
    BY CallBecomes DEF Ask, CallsHold
  <2> QED
    BY <2>1 DEF Becomes, Called
<1>3. UNCHANGED <<codes, mailed>> /\ overlap' = overlap \cup {{u, v} : u \in InFlight} /\ call[v].pc = "idle"
  BY DEF Ask
<1>4. CallsHold'
  BY <1>1, <1>2, OthersHold
<1>5. CodesMade'
  BY <1>1, <1>3 DEF CodesMade
<1>6. StoredCodesExpire'
  BY <1>1, <1>3, StaysStored DEF StoredCodesExpire, NoKey
<1>7. InFlightOverlap'
  BY <1>1, <1>2, <1>3 DEF InFlightOverlap, InFlight
<1>8. SetSawNone'
  BY <1>1, <1>2, <1>3 DEF SetSawNone
<1> QED
  BY <1>1, <1>3, <1>4, <1>5, <1>6, <1>7, <1>8

LEMMA QueryPreserves ==
    ASSUME VerifyInv, NEW v \in Calls, Query(v)
    PROVE  VerifyInv'
<1> USE RegAssumption DEF VerifyInv, VerifyTypes
<1>1. /\ call' \in [Calls -> CallRecord]
      /\ \A u \in Calls : u # v => call'[u] = call[u]
      /\ \A c, x : Made(c, x) => Made(c, x)'
  BY MadeStays
<1>2. /\ call'[v].pc \in {"set", "get"} /\ call'[v].email = call[v].email /\ call'[v].email \in Emails
      /\ call'[v].code = Unset
  <2>1. call[v].email \in Emails /\ call[v].code = Unset
    BY DEF Query, CallsHold
  <2>2. \/ \E fails \in BOOLEAN : Becomes(v, Called("set", call[v].email, call[v].code, fails))
        \/ Becomes(v, Called("get", call[v].email, call[v].code, call[v].blind))
    BY CallBecomes
  <2>3. ASSUME NEW p, NEW b, Becomes(v, Called(p, call[v].email, call[v].code, b))
        PROVE  call'[v].pc = p /\ call'[v].email = call[v].email /\ call'[v].code = call[v].code
    BY <2>3 DEF Becomes, Called
  <2> QED
    BY <2>1, <2>2, <2>3
<1>3. /\ UNCHANGED <<codes, mailed, overlap>> /\ call[v].pc = "query"
      /\ call'[v].pc = "set" => call'[v].blind \/ codes[call[v].email] = NoKey
  BY DEF Query, Move, CallRecord
<1>4. CallsHold'
  BY <1>1, <1>2, OthersHold
<1>5. CodesMade'
  BY <1>1, <1>3 DEF CodesMade
<1>6. StoredCodesExpire'
  BY <1>1, <1>3, StaysStored DEF StoredCodesExpire, NoKey
<1>7. InFlightOverlap'
  BY <1>1, <1>2, <1>3 DEF InFlightOverlap, InFlight
<1>8. SetSawNone'
  BY <1>1, <1>2, <1>3 DEF SetSawNone
<1> QED
  BY <1>1, <1>3, <1>4, <1>5, <1>6, <1>7, <1>8

\* The call that replies without a code leaves, and with it what overlapped it.
LEMMA ForgottenPreserves ==
    ASSUME VerifyInv, NEW v \in Calls, Becomes(v, NoCall), call[v].pc \notin {"expire", "failed"},
           call[v].code # v, UNCHANGED codes, overlap' = {p \in overlap : v \notin p},
           \/ mailed' = mailed
           \/ call[v].pc = "mail" /\ mailed' = mailed \cup {<<call[v].email, call[v].code>>}
    PROVE  VerifyInv'
<1> USE RegAssumption DEF VerifyInv, VerifyTypes
<1>1. /\ call' \in [Calls -> CallRecord]
      /\ \A u \in Calls : u # v => call'[u] = call[u]
      /\ call'[v].pc = "idle" /\ call'[v].code = Unset
  BY DEF Becomes, NoCall
<1>2. \A c, x : Made(c, x) => Made(c, x)'
  BY <1>1 DEF Made
<1>3. CallsHold'
  BY <1>1, <1>2, OthersHold
<1>4. call[v].pc = "mail" => Made(call[v].code, call[v].email) /\ call[v].email \in Emails
  BY DEF CallsHold
<1>5. CodesMade' /\ mailed' \subseteq Emails \X Calls
  <2>1. CASE mailed' = mailed
    BY <1>2, <2>1 DEF CodesMade
  <2>2. CASE call[v].pc = "mail" /\ mailed' = mailed \cup {<<call[v].email, call[v].code>>}
    <3>1. PICK c \in Calls, x \in Emails : Made(c, x) /\ mailed' = mailed \cup {<<x, c>>}
      BY <1>4, <2>2 DEF Made
    <3>2. \A m \in mailed : Made(m[2], m[1])'
      BY <1>2 DEF CodesMade
    <3> QED
      BY <1>2, <3>1, <3>2 DEF CodesMade
  <2> QED
    BY <2>1, <2>2
<1>6. StoredCodesExpire'
  BY <1>1, StaysStored DEF StoredCodesExpire, NoKey
<1>7. InFlightOverlap'
  BY <1>1 DEF InFlightOverlap, InFlight
<1>8. SetSawNone'
  <2> SUFFICES ASSUME NEW u \in Calls, call'[u].pc = "set", ~ call'[u].blind,
                      codes[call'[u].email] # NoKey
               PROVE  {codes[call'[u].email].code, u} \in overlap'
    BY DEF SetSawNone
  <2>1. u # v /\ call'[u] = call[u]
    BY <1>1
  <2>2. {codes[call[u].email].code, u} \in overlap
    BY <2>1 DEF SetSawNone
  <2>3. codes[call[u].email].code # v
    BY <2>1 DEF CodesMade, Made, CallsHold
  <2> QED
    BY <2>1, <2>2, <2>3
<1> QED
  BY <1>1, <1>3, <1>5, <1>6, <1>7, <1>8

LEMMA SetPreserves ==
    ASSUME VerifyInv, NEW v \in Calls, SetCode(v)
    PROVE  VerifyInv'
<1> USE RegAssumption DEF VerifyInv, VerifyTypes
<1>0. call[v].pc = "set" /\ call[v].email \in Emails /\ call[v].code # v
  BY DEF SetCode, CallsHold
<1>1. CASE Reply(v) /\ UNCHANGED <<codes, mailed>>
  <2>1. call' = [call EXCEPT ![v] = NoCall] /\ overlap' = {p \in overlap : v \notin p}
    BY <1>0, <1>1 DEF Reply
  <2>2. Becomes(v, NoCall)
    BY <2>1 DEF Becomes, NoCall, CallRecord, CallPlaces
  <2> QED
    BY <1>0, <1>1, <2>1, <2>2, ForgottenPreserves
<1>2. CASE /\ codes' = [codes EXCEPT ![call[v].email] = [code |-> v, ttl |-> FALSE]]
           /\ \E p \in {"expire", "failed"} : call' = [call EXCEPT ![v].pc = p, ![v].code = v]
           /\ UNCHANGED <<overlap, mailed>>
  <2>1. /\ call' \in [Calls -> CallRecord]
        /\ \A u \in Calls : u # v => call'[u] = call[u]
        /\ \A c, x : Made(c, x) => Made(c, x)'
    BY MadeStays
  <2>2. call'[v].pc \in {"expire", "failed"} /\ call'[v].email = call[v].email /\ call'[v].code = v
    <3>1. \/ \E p \in {"expire", "failed"} : Becomes(v, Called(p, call[v].email, v, call[v].blind))
          \/ Becomes(v, NoCall)
      BY CallBecomes
    <3>2. call'[v].pc \in {"expire", "failed"}
      BY <1>2
    <3> QED
      BY <3>1, <3>2 DEF Becomes, Called, NoCall
  <2> DEFINE x == call[v].email
  <2>3. /\ codes' \in [Emails -> [code : Calls \cup {Unset}, ttl : BOOLEAN]]
        /\ codes'[x] = [code |-> v, ttl |-> FALSE] /\ codes'[x].code = v
        /\ \A e \in Emails : e # x => codes'[e] = codes[e]
    BY <1>0, <1>2
  <2>4. CallsHold'
    BY <1>0, <2>1, <2>2, OthersHold
  <2>5. CodesMade'
    <3>1. ASSUME NEW e \in Emails PROVE codes'[e] = NoKey \/ Made(codes[e].code, e)'
      <4>1. CASE e = x
        BY <2>2, <2>3, <4>1 DEF Made
      <4>2. CASE e # x
        <5>1. codes'[e] = codes[e] /\ (codes[e] = NoKey \/ Made(codes[e].code, e))
          BY <2>3, <4>2 DEF CodesMade
        <5>2. ASSUME Made(codes[e].code, e) PROVE \E c : c = codes[e].code /\ Made(c, e)'
          BY <2>1, <5>2
        <5> QED
          BY <5>1, <5>2
      <4> QED
        BY <4>1, <4>2
    <3>2. \A m \in mailed : Made(m[2], m[1])'
      BY <2>1 DEF CodesMade
    <3> QED
      BY <1>2, <3>1, <3>2 DEF CodesMade
  <2>6. StoredCodesExpire'
    <3> SUFFICES ASSUME NEW e \in Emails, codes'[e] # NoKey, ~ codes'[e].ttl
                 PROVE  LET u == codes'[e].code IN call'[u].email = e /\ call'[u].pc \in {"expire", "failed"}
      BY DEF StoredCodesExpire, NoKey
    <3>1. CASE e = x
      BY <2>2, <2>3, <3>1
    <3>2. CASE e # x
      BY <1>0, <2>1, <2>3, <3>2, StaysStored
    <3> QED
      BY <3>1, <3>2
  <2>7. InFlightOverlap'
    BY <1>0, <1>2, <2>1, <2>2 DEF InFlightOverlap, InFlight
  <2>8. SetSawNone'
    <3> SUFFICES ASSUME NEW u \in Calls, call'[u].pc = "set", ~ call'[u].blind,
                        codes'[call'[u].email] # NoKey
                 PROVE  {codes'[call'[u].email].code, u} \in overlap'
      BY DEF SetSawNone, NoKey
    <3>1. u # v /\ call'[u] = call[u] /\ call[u].email \in Emails
      BY <2>1, <2>2 DEF CallsHold
    <3>2. CASE call[u].email = x
      BY <1>0, <1>2, <2>3, <3>1, <3>2 DEF InFlightOverlap, InFlight
    <3>3. CASE call[u].email # x
      BY <1>2, <2>3, <3>1, <3>3 DEF SetSawNone
    <3> QED
      BY <3>2, <3>3
  <2> QED
    BY <1>2, <2>1, <2>3, <2>4, <2>5, <2>6, <2>7, <2>8
<1> QED
  BY <1>1, <1>2 DEF SetCode

LEMMA SetExpirePreserves ==
    ASSUME VerifyInv, NEW v \in Calls, SetExpire(v)
    PROVE  VerifyInv'
<1> USE RegAssumption DEF VerifyInv, VerifyTypes
<1>0. /\ call[v].pc = "expire" /\ call[v].email \in Emails /\ call[v].code = v
      /\ UNCHANGED <<mailed, overlap>>
  BY DEF SetExpire, CallsHold
<1>1. /\ call' \in [Calls -> CallRecord]
      /\ \A u \in Calls : u # v => call'[u] = call[u]
      /\ \A c, x : Made(c, x) => Made(c, x)'
  BY MadeStays
<1> DEFINE x == call[v].email
<1>2. PICK p \in {"mail", "failed"} : Becomes(v, Called(p, x, v, call[v].blind))
  BY <1>0, CallBecomes
<1>3. call'[v].pc = p /\ call'[v].email = x /\ call'[v].code = v
  BY <1>2 DEF Becomes, Called
<1>4. /\ codes' \in [Emails -> [code : Calls \cup {Unset}, ttl : BOOLEAN]]
      /\ \A e \in Emails : e # x => codes'[e] = codes[e]
      /\ codes'[x].code = codes[x].code
      /\ codes[x] = NoKey => codes'[x] = NoKey
      /\ p = "mail" => codes'[x] = NoKey \/ codes'[x].ttl
      /\ p = "mail" \/ codes' = codes \/ codes'[x] = NoKey \/ codes'[x].ttl
  <2>1. \/ codes' = [codes EXCEPT ![x].ttl = (codes[x] # NoKey)]
        \/ Move(v, "failed") /\ UNCHANGED codes
    BY DEF SetExpire
  <2>2. Move(v, "failed") => p = "failed"
    BY <1>3 DEF Move
  <2>4. CASE codes[x] = NoKey
    BY <1>0, <2>1, <2>4 DEF NoKey
  <2>5. CASE codes[x] # NoKey
    <3>1. CASE codes' = [codes EXCEPT ![x].ttl = (codes[x] # NoKey)]
      <4>1. codes' = [codes EXCEPT ![x].ttl = TRUE]
        BY <2>5, <3>1
      <4>2. codes[x] \in [code : Calls \cup {Unset}, ttl : BOOLEAN]
        BY <1>0
      <4> HIDE DEF x
      <4> QED
        BY <1>0, <2>5, <4>1, <4>2 DEF x
    <3>2. CASE Move(v, "failed") /\ UNCHANGED codes
      BY <2>2, <3>2
    <3> QED
      BY <2>1, <3>1, <3>2
  <2> QED
    BY <2>4, <2>5
<1>5. CallsHold'
  <2>1. Made(v, x)'
    BY <1>0, <1>1, <1>3 DEF Made
  <2>2. call'[v].pc = "mail" => Made(call[v].code, call[v].email)'
    BY <1>3 DEF Made
  <2> QED
    BY <1>0, <1>1, <1>3, <2>2, OthersHold
<1>6. CodesMade'
  <2>1. ASSUME NEW e \in Emails PROVE codes'[e] = NoKey \/ Made(codes[e].code, e)'
    <3>1. codes'[e].code = codes[e].code /\ (codes[e] = NoKey => codes'[e] = NoKey)
      BY <1>4
    <3>2. ASSUME Made(codes[e].code, e) PROVE \E c : c = codes[e].code /\ Made(c, e)'
      BY <1>1, <3>2
    <3> QED
      BY <3>1, <3>2 DEF CodesMade
  <2>2. \A m \in mailed : Made(m[2], m[1])'
    BY <1>1 DEF CodesMade
  <2> QED
    BY <1>0, <2>1, <2>2 DEF CodesMade
<1>7. StoredCodesExpire'
  <2> SUFFICES ASSUME NEW e \in Emails, codes'[e] # NoKey, ~ codes'[e].ttl
               PROVE  LET u == codes'[e].code IN call'[u].email = e /\ call'[u].pc \in {"expire", "failed"}
    BY DEF StoredCodesExpire, NoKey
  <2>1. PICK u \in Calls : u = codes[e].code /\ call[u].email = e /\ call[u].pc \in {"expire", "failed"}
    <3>1. codes[e] # NoKey /\ ~ codes[e].ttl
      BY <1>3, <1>4
    <3> QED
      BY <3>1 DEF CodesMade, Made, StoredCodesExpire
  <2>2. codes'[e].code = u
    BY <1>4, <2>1
  <2>3. call'[u].email = e /\ call'[u].pc \in {"expire", "failed"}
    <3>1. CASE u = v
      <4>1. e = x
        BY <2>1, <3>1
      <4>2. p = "failed"
        BY <1>4, <4>1
      <4> QED
        BY <1>3, <3>1, <4>1, <4>2
    <3>2. CASE u # v
      BY <1>1, <2>1, <3>2
    <3> QED
      BY <3>1, <3>2
  <2> QED
    BY <2>2, <2>3
<1>8. InFlightOverlap'
  BY <1>0, <1>1, <1>3 DEF InFlightOverlap, InFlight
<1>9. SetSawNone'
  <2> SUFFICES ASSUME NEW u \in Calls, call'[u].pc = "set", ~ call'[u].blind,
                      codes'[call'[u].email] # NoKey
               PROVE  {codes'[call'[u].email].code, u} \in overlap'
    BY DEF SetSawNone, NoKey
  <2>1. u # v /\ call'[u] = call[u] /\ call[u].email \in Emails
    BY <1>1, <1>3 DEF CallsHold
  <2>2. codes[call[u].email] # NoKey /\ codes'[call[u].email].code = codes[call[u].email].code
    BY <1>4, <2>1
  <2> QED
    BY <1>0, <2>1, <2>2 DEF SetSawNone
<1> QED
  BY <1>0, <1>1, <1>4, <1>5, <1>6, <1>7, <1>8, <1>9

LEMMA GetPreserves ==
    ASSUME VerifyInv, NEW v \in Calls, GetCode(v)
    PROVE  VerifyInv'
<1> USE RegAssumption DEF VerifyInv, VerifyTypes
<1>0. /\ call[v].pc = "get" /\ call[v].email \in Emails /\ call[v].code # v
      /\ UNCHANGED <<codes, mailed>>
  BY DEF GetCode, CallsHold
<1>1. CASE Reply(v)
  <2>1. call' = [call EXCEPT ![v] = NoCall] /\ overlap' = {p \in overlap : v \notin p}
    BY <1>0, <1>1 DEF Reply
  <2>2. Becomes(v, NoCall)
    BY <2>1 DEF Becomes, NoCall, CallRecord, CallPlaces
  <2> QED
    BY <1>0, <1>1, <2>1, <2>2, ForgottenPreserves
<1>2. CASE /\ codes[call[v].email] # NoKey
           /\ call' = [call EXCEPT ![v].pc = "mail", ![v].code = codes[call[v].email].code]
           /\ UNCHANGED overlap
  <2>1. /\ call' \in [Calls -> CallRecord]
        /\ \A u \in Calls : u # v => call'[u] = call[u]
        /\ \A c, x : Made(c, x) => Made(c, x)'
    BY MadeStays
  <2>2. call'[v].pc = "mail" /\ call'[v].email = call[v].email /\ call'[v].code = codes[call[v].email].code
    <3>1. \/ Becomes(v, Called("mail", call[v].email, codes[call[v].email].code, call[v].blind))
          \/ Becomes(v, NoCall)
      BY CallBecomes
    <3>2. call'[v].pc = "mail"
      BY <1>2
    <3> QED
      BY <3>1, <3>2 DEF Becomes, Called, NoCall
  <2>3. PICK c \in Calls, x \in Emails : c = codes[call[v].email].code /\ x = call[v].email /\ Made(c, x)
    BY <1>0, <1>2 DEF CodesMade, Made
  <2>4. Made(call[v].code, call[v].email)'
    BY <2>1, <2>2, <2>3 DEF Made
  <2>5. CallsHold'
    BY <1>0, <2>1, <2>2, <2>4, OthersHold
  <2>6. CodesMade'
    BY <1>0, <2>1 DEF CodesMade
  <2>7. StoredCodesExpire'
    BY <1>0, <2>1, StaysStored DEF StoredCodesExpire, NoKey
  <2>8. InFlightOverlap'
    BY <1>0, <1>2, <2>1, <2>2 DEF InFlightOverlap, InFlight
  <2>9. SetSawNone'
    BY <1>0, <1>2, <2>1, <2>2 DEF SetSawNone
  <2> QED
    BY <1>0, <2>1, <2>5, <2>6, <2>7, <2>8, <2>9
<1> QED
  BY <1>1, <1>2 DEF GetCode

LEMMA MailPreserves ==
    ASSUME VerifyInv, NEW v \in Calls, SendMail(v)
    PROVE  VerifyInv'
<1> USE RegAssumption DEF VerifyInv, VerifyTypes
<1>0. /\ call[v].pc = "mail" /\ UNCHANGED codes
      /\ mailed' = mailed \cup {<<call[v].email, call[v].code>>} \/ mailed' = mailed
  BY DEF SendMail
<1>1. CASE call[v].code # v
  <2>1. call' = [call EXCEPT ![v] = NoCall] /\ overlap' = {p \in overlap : v \notin p}
    BY <1>1 DEF SendMail, Reply
  <2>2. Becomes(v, NoCall)
    BY <2>1 DEF Becomes, NoCall, CallRecord, CallPlaces
  <2> QED
    BY <1>0, <1>1, <2>1, <2>2, ForgottenPreserves
<1>2. CASE call[v].code = v
  <2>0. UNCHANGED overlap /\ call[v].email \in Emails
    BY <1>0, <1>2 DEF SendMail, Reply, CallsHold
  <2>1. /\ call' \in [Calls -> CallRecord]
        /\ \A u \in Calls : u # v => call'[u] = call[u]
        /\ \A c, x : Made(c, x) => Made(c, x)'
    BY MadeStays
  <2>2. call'[v].pc = "answered" /\ call'[v].email = call[v].email /\ call'[v].code = v
    <3>1. Becomes(v, Called("answered", call[v].email, call[v].code, call[v].blind))
      BY <1>2, CallBecomes
    <3> QED
      BY <1>2, <3>1 DEF Becomes, Called
  <2>3. CallsHold'
    BY <2>0, <2>1, <2>2, OthersHold
  <2>4. CodesMade' /\ mailed' \subseteq Emails \X Calls
    <3>1. PICK x \in Emails : x = call[v].email /\ Made(v, x)
      BY <1>2, <2>0 DEF Made
    <3>2. \A m \in mailed' : Made(m[2], m[1])'
      <4>1. \A m \in mailed : Made(m[2], m[1])'
        BY <2>1 DEF CodesMade
      <4>2. Made(v, x)'
        BY <2>1, <3>1
      <4> QED
        BY <1>0, <1>2, <3>1, <4>1, <4>2
    <3> QED
      BY <1>0, <1>2, <2>1, <3>1, <3>2 DEF CodesMade
  <2>5. StoredCodesExpire'
    BY <1>0, <2>1, StaysStored DEF StoredCodesExpire, NoKey
  <2>6. InFlightOverlap'
    BY <1>0, <2>0, <2>1, <2>2 DEF InFlightOverlap, InFlight
  <2>7. SetSawNone'
    BY <1>0, <2>0, <2>1, <2>2 DEF SetSawNone
  <2> QED
    BY <1>0, <2>1, <2>3, <2>4, <2>5, <2>6, <2>7
<1> QED
  BY <1>1, <1>2

\* Three minutes have passed.
LEMMA KeyExpires ==
    ASSUME VerifyInv, NEW x \in Emails, Expire(x)
    PROVE  VerifyInv'
<1> USE RegAssumption DEF VerifyInv, VerifyTypes
<1>1. /\ UNCHANGED <<call, mailed, overlap>>
      /\ codes' \in [Emails -> [code : Calls \cup {Unset}, ttl : BOOLEAN]]
      /\ codes'[x] = NoKey
      /\ \A e \in Emails : e # x => codes'[e] = codes[e]
  BY DEF Expire, NoKey
<1>2. CallsHold' /\ InFlightOverlap'
  BY <1>1 DEF CallsHold, Made, InFlightOverlap, InFlight
<1>3. CodesMade'
  BY <1>1 DEF CodesMade, Made
<1>4. StoredCodesExpire'
  <2> SUFFICES ASSUME NEW e \in Emails, codes'[e] # NoKey, ~ codes'[e].ttl
               PROVE  LET u == codes'[e].code IN call'[u].email = e /\ call'[u].pc \in {"expire", "failed"}
    BY DEF StoredCodesExpire, NoKey
  <2>1. e # x
    BY <1>1
  <2> QED
    BY <1>1, <2>1 DEF StoredCodesExpire
<1>5. SetSawNone'
  <2> SUFFICES ASSUME NEW u \in Calls, call'[u].pc = "set", ~ call'[u].blind,
                      codes'[call'[u].email] # NoKey
               PROVE  {codes'[call'[u].email].code, u} \in overlap'
    BY DEF SetSawNone, NoKey
  <2>1. call[u].email \in Emails /\ call[u].email # x
    BY <1>1 DEF CallsHold
  <2> QED
    BY <1>1, <2>1 DEF SetSawNone
<1> QED
  BY <1>1, <1>2, <1>3, <1>4, <1>5

\* Every step preserves what the codes rest on.
LEMMA NextVerifyInv ==
    ASSUME VerifyInv, [RegNext]_regVars
    PROVE  VerifyInv'
<1>1. ASSUME UNCHANGED <<call, codes, mailed, overlap>>
      PROVE  VerifyInv'
  BY <1>1
     DEF VerifyInv, VerifyTypes, CallsHold, CodesMade, Made, StoredCodesExpire, NoKey, InFlightOverlap,
         InFlight, SetSawNone
<1>2. CASE VerifyStep
  BY <1>2, AskPreserves, QueryPreserves, SetPreserves, SetExpirePreserves, GetPreserves, MailPreserves
     DEF VerifyStep
<1> QED
  BY <1>1, <1>2, KeyExpires DEF RegNext, regVars

\* Every state of registering satisfies VerifyInv.
THEOREM CodesInvariant == RegSpec => []VerifyInv
<1>1. VerifyInv /\ [RegNext]_regVars => VerifyInv'
  BY NextVerifyInv
<1> QED
  BY <1>1, InitVerifyInv, PTL DEF RegSpec

\* A code is overwritten by another only where two calls overlap, or where one
\* could not ask Redis.
LEMMA StepOverwrites ==
    ASSUME VerifyInv, [RegNext]_regVars, NEW e \in Emails,
           codes[e].code # Unset, codes'[e].code \notin {Unset, codes[e].code}
    PROVE  {codes[e].code, codes'[e].code} \in overlap \/ call[codes'[e].code].blind
<1> USE DEF VerifyInv, VerifyTypes
<1>1. PICK v \in Calls : SetCode(v) /\ codes' # codes
  <2>1. codes' # codes
    OBVIOUS
  <2>2. ASSUME NEW v \in Calls, SetExpire(v) PROVE FALSE
    <3>1. call[v].email \in Emails
      BY <2>2 DEF SetExpire, CallsHold
    <3>2. codes'[e].code = codes[e].code
      <4>1. codes' = codes \/ codes' = [codes EXCEPT ![call[v].email].ttl = (codes[call[v].email] # NoKey)]
        BY <2>2 DEF SetExpire
      <4> QED
        BY <3>1, <4>1
    <3> QED
      BY <3>2
  <2>3. ASSUME NEW x \in Emails, Expire(x) PROVE FALSE
    BY <2>3 DEF Expire, NoKey
  <2> QED
    BY <2>1, <2>2, <2>3 DEF RegNext, regVars, VerifyStep, Ask, Query, GetCode, SendMail
<1>2. /\ call[v].pc = "set" /\ call[v].email \in Emails
      /\ codes' = [codes EXCEPT ![call[v].email] = [code |-> v, ttl |-> FALSE]]
  BY <1>1 DEF SetCode, CallsHold
<1>3. e = call[v].email /\ codes'[e].code = v
  BY <1>2
<1>4. codes[e] # NoKey
  BY DEF NoKey
<1> QED
  BY <1>2, <1>3, <1>4 DEF SetSawNone

\* Nobody's code is overwritten but by a call that ran beside the one that made it,
\* or that Redis did not answer.
THEOREM OverwritesAreRaced == RegSpec => OverwrittenByOverlap
<1> DEFINE Step == \A e \in Emails :
         LET old == codes[e].code
             new == codes'[e].code
         IN  (old # Unset /\ new \notin {Unset, old}) => ({old, new} \in overlap \/ call[new].blind)
<1>1. VerifyInv /\ [RegNext]_regVars => Step
  BY StepOverwrites
<1> QED
  BY <1>1, CodesInvariant, PTL DEF RegSpec, OverwrittenByOverlap

-----------------------------------------------------------------------------
(* The requests: the inductive invariant *)

FormPlaces == {"idle", "register", "update", "insert", "reset", "password", "answered"}

Answers == {"none", "UserExist", "RolledBack", "Success", "NetworkError", "Duplicate",
            "PasswordUpdateFail"}

FormRecord == [pc : FormPlaces, kind : {"none", "register", "reset"}, name : Names \cup {Unset},
               email : Emails \cup {Unset}, code : Calls \cup {Unset}, seen : Nat,
               answer : Answers, uid : Nat]

UserRecord == [uid : Nat, name : Names, email : Emails, pwd : Forms, by : Forms]

GateTypes ==
    /\ form \in [Forms -> FormRecord]
    /\ users \in Seq(UserRecord)
    /\ userId \in Nat
    /\ idLock \in Forms \cup {Unset}

\* The row of user_id is locked by the transaction that has counted.
Numbered ==
    /\ \A i \in DOMAIN users : users[i].uid = i
    /\ userId = Len(users) + (IF idLock = Unset THEN 0 ELSE 1)
    /\ \A f \in Forms : form[f].pc = "insert" <=> idLock = f

\* What a request knows, by where it is: its code was mailed to its e-mail; the
\* names and e-mails of the rows it has seen are others; the first account of its
\* name has its e-mail.
FormHolds(f) ==
    /\ form[f].pc # "idle" => form[f].name \in Names /\ <<form[f].email, form[f].code>> \in mailed
    /\ form[f].pc \in {"register", "update", "insert"} => form[f].kind = "register"
    /\ form[f].pc \in {"reset", "password"} => form[f].kind = "reset"
    /\ form[f].pc # "answered" => form[f].answer = "none"
    /\ form[f].pc \in {"update", "insert"} =>
          /\ form[f].seen <= Len(users)
          /\ \A i \in 1 .. form[f].seen : users[i].name # form[f].name /\ users[i].email # form[f].email
    /\ form[f].pc = "password" =>
          \E i \in 1 .. Len(users) :
             /\ users[i].name = form[f].name /\ users[i].email = form[f].email
             /\ \A j \in 1 .. i - 1 : users[j].name # form[f].name

\* A row has the e-mail of the request that made it, which is done.
RowsHold ==
    \A i \in DOMAIN users :
        form[users[i].by].pc = "answered" /\ form[users[i].by].email = users[i].email

GateInv ==
    /\ GateTypes /\ Numbered /\ RowsHold
    /\ \A f \in Forms : FormHolds(f)
    /\ SameNameOnlyIfRaced
    /\ RegAnswersAreTrue

LEMMA InitGateInv == RegInit => GateInv
<1> SUFFICES ASSUME RegInit PROVE GateInv
  OBVIOUS
<1>1. /\ \A f \in Forms : form[f].pc = "idle" /\ form[f].kind = "none" /\ form[f].answer = "none"
      /\ users = <<>> /\ DOMAIN users = {} /\ Len(users) = 0 /\ userId = 0 /\ idLock = Unset
  BY DEF RegInit, NoForm
<1>2. GateTypes
  BY <1>1 DEF RegInit, GateTypes, FormRecord, FormPlaces, Answers, NoForm, UserRecord
<1>3. Numbered
  BY <1>1, RegAssumption DEF Numbered
<1> QED
  BY <1>1, <1>2, <1>3 DEF GateInv, RowsHold, FormHolds, SameNameOnlyIfRaced, RegAnswersAreTrue

\* No row is lost, and none changes its name, its e-mail or its maker.
RowsKept ==
    /\ Len(users) <= Len(users')
    /\ \A i \in 1 .. Len(users) :
          /\ users'[i].name = users[i].name /\ users'[i].email = users[i].email
          /\ users'[i].by = users[i].by /\ users'[i].uid = users[i].uid

\* What a request is told is true.
AnswerIsTrue(f) ==
    form[f].kind = "register" =>
        /\ form[f].answer = "Success" => \E i \in DOMAIN users : users[i].uid = form[f].uid /\ users[i].by = f
        /\ form[f].answer = "UserExist" => NameTaken(form[f].name) \/ EmailTaken(form[f].email)
        /\ form[f].answer = "Duplicate" =>
              \E i \in DOMAIN users : i > form[f].seen /\ users[i].email = form[f].email /\ users[i].by # f

\* A request that does not move keeps what it knows while the others add rows.
LEMMA FormKept ==
    ASSUME GateInv, GateTypes', RowsKept, mailed \subseteq mailed', NEW g \in Forms, form'[g] = form[g]
    PROVE  FormHolds(g)' /\ AnswerIsTrue(g)'
<1>1. /\ Len(users) \in Nat /\ Len(users') \in Nat
      /\ DOMAIN users = 1 .. Len(users) /\ DOMAIN users' = 1 .. Len(users')
      /\ 1 .. Len(users) \subseteq 1 .. Len(users')
  BY DEF GateInv, GateTypes, RowsKept
<1>2. FormHolds(g)'
  <2>1. form[g].seen \in Nat /\ FormHolds(g)
    BY DEF GateInv, GateTypes, FormRecord
  <2> QED
    BY <1>1, <2>1 DEF FormHolds, RowsKept
<1>3. AnswerIsTrue(g)'
  <2>1. AnswerIsTrue(g)
    BY DEF GateInv, RegAnswersAreTrue, AnswerIsTrue
  <2> QED
    BY <1>1, <2>1 DEF AnswerIsTrue, RowsKept, NameTaken, EmailTaken
<1> QED
  BY <1>2, <1>3

Filled(pc, kind, name, email, code, seen, answer, uid) ==
    [pc |-> pc, kind |-> kind, name |-> name, email |-> email, code |-> code, seen |-> seen,
     answer |-> answer, uid |-> uid]

LEMMA MovedRecord ==
    ASSUME NEW r \in FormRecord, NEW p
    PROVE  /\ [r EXCEPT !.pc = p] = Filled(p, r.kind, r.name, r.email, r.code, r.seen, r.answer, r.uid)
           /\ \A n : [r EXCEPT !.pc = p, !.seen = n] =
                        Filled(p, r.kind, r.name, r.email, r.code, n, r.answer, r.uid)
<1> DEFINE q == [r EXCEPT !.pc = p]
<1>1. q = Filled(p, r.kind, r.name, r.email, r.code, r.seen, r.answer, r.uid)
  BY DEF FormRecord, Filled
<1> HIDE DEF q
<1>2. \A n : [q EXCEPT !.seen = n] = Filled(p, r.kind, r.name, r.email, r.code, n, r.answer, r.uid)
  BY <1>1 DEF Filled
<1> QED
  BY <1>1, <1>2 DEF q

LEMMA FormWritten ==
    ASSUME GateTypes, NEW f \in Forms, NEW w \in FormRecord, form' = [form EXCEPT ![f] = w]
    PROVE  form'[f] = w /\ form' \in [Forms -> FormRecord] /\ \A g \in Forms : g # f => form'[g] = form[g]
BY DEF GateTypes

\* Answer and Refuse.
LEMMA AnswerWrites ==
    ASSUME GateTypes, NEW f \in Forms, NEW a \in Answers, NEW u \in Nat, Answer(f, a, u)
    PROVE  /\ form' \in [Forms -> FormRecord]
           /\ \A g \in Forms : g # f => form'[g] = form[g]
           /\ form'[f].pc = "answered" /\ form'[f].answer = a /\ form'[f].uid = u
           /\ form'[f].kind = form[f].kind /\ form'[f].name = form[f].name
           /\ form'[f].email = form[f].email /\ form'[f].code = form[f].code
           /\ form'[f].seen = form[f].seen
<1> DEFINE r == form[f]
           w == Filled("answered", r.kind, r.name, r.email, r.code, r.seen, a, u)
<1>1. r \in FormRecord
  BY DEF GateTypes
<1>2. form' = [form EXCEPT ![f] = [form[f] EXCEPT !.pc = "answered", !.answer = a, !.uid = u]]
  BY DEF Answer, GateTypes
<1>3. [form[f] EXCEPT !.pc = "answered", !.answer = a, !.uid = u] = w
  <2> DEFINE q == [form[f] EXCEPT !.pc = "answered"]
             x == [q EXCEPT !.answer = a]
  <2>1. q = Filled("answered", r.kind, r.name, r.email, r.code, r.seen, r.answer, r.uid)
    BY <1>1, MovedRecord
  <2> HIDE DEF q
  <2>2. x = Filled("answered", r.kind, r.name, r.email, r.code, r.seen, a, r.uid)
    BY <2>1 DEF Filled
  <2> HIDE DEF x
  <2>3. [x EXCEPT !.uid = u] = w
    BY <2>2 DEF Filled
  <2> QED
    BY <2>3 DEF q, x
<1>4. form' = [form EXCEPT ![f] = w]
  BY <1>2, <1>3
<1>5. w \in FormRecord
  BY <1>1 DEF FormRecord, Filled, FormPlaces
<1>6. form'[f] = w /\ form' \in [Forms -> FormRecord] /\ \A g \in Forms : g # f => form'[g] = form[g]
  BY <1>4, <1>5 DEF GateTypes
<1> QED
  BY <1>6 DEF Filled

LEMMA RefuseWrites ==
    ASSUME GateTypes, NEW f \in Forms, Refuse(f)
    PROVE  /\ form' \in [Forms -> FormRecord]
           /\ \A g \in Forms : g # f => form'[g] = form[g]
           /\ form'[f].pc = "idle" /\ form'[f].kind = "none" /\ form'[f].answer = "none"
<1>1. NoForm \in FormRecord
  BY DEF NoForm, FormRecord, FormPlaces, Answers
<1>2. form'[f] = NoForm /\ form' = [form EXCEPT ![f] = NoForm]
  BY DEF Refuse, GateTypes
<1> QED
  BY <1>1, <1>2 DEF GateTypes, NoForm

\* A request that goes on to another place, having counted the rows of the table.
LEMMA MoveWrites ==
    ASSUME GateTypes, NEW f \in Forms, NEW p \in FormPlaces, NEW s \in Nat,
           form' = [form EXCEPT ![f].pc = p, ![f].seen = s]
    PROVE  /\ form' \in [Forms -> FormRecord]
           /\ \A g \in Forms : g # f => form'[g] = form[g]
           /\ form'[f].pc = p /\ form'[f].answer = form[f].answer /\ form'[f].uid = form[f].uid
           /\ form'[f].kind = form[f].kind /\ form'[f].name = form[f].name
           /\ form'[f].email = form[f].email /\ form'[f].code = form[f].code
           /\ form'[f].seen = s
<1>1. form[f] \in FormRecord /\ form' = [form EXCEPT ![f] = [form[f] EXCEPT !.pc = p, !.seen = s]]
  BY DEF GateTypes
<1> DEFINE w == [form[f] EXCEPT !.pc = p, !.seen = s]
<1>2. w = Filled(p, form[f].kind, form[f].name, form[f].email, form[f].code, s, form[f].answer, form[f].uid)
  BY <1>1, MovedRecord
<1>3. form' = [form EXCEPT ![f] = w]
  BY <1>1
<1> HIDE DEF w
<1>4. w \in FormRecord
  BY <1>1, <1>2 DEF FormRecord, Filled
<1>5. form'[f] = w /\ form' \in [Forms -> FormRecord] /\ \A g \in Forms : g # f => form'[g] = form[g]
  BY <1>3, <1>4 DEF GateTypes
<1> QED
  BY <1>2, <1>5 DEF Filled

\* A request that goes on to another place and keeps the rest.
LEMMA MovesOn ==
    ASSUME GateTypes, NEW f \in Forms, NEW p \in FormPlaces, form' = [form EXCEPT ![f].pc = p]
    PROVE  /\ form' \in [Forms -> FormRecord]
           /\ \A g \in Forms : g # f => form'[g] = form[g]
           /\ form'[f].pc = p /\ form'[f].answer = form[f].answer /\ form'[f].uid = form[f].uid
           /\ form'[f].kind = form[f].kind /\ form'[f].name = form[f].name
           /\ form'[f].email = form[f].email /\ form'[f].code = form[f].code
           /\ form'[f].seen = form[f].seen
<1>1. /\ form[f] \in FormRecord /\ form[f].seen \in Nat
      /\ form' = [form EXCEPT ![f] = [form[f] EXCEPT !.pc = p]]
  BY DEF GateTypes, FormRecord
<1> DEFINE w == [form[f] EXCEPT !.pc = p]
<1>2. w = Filled(p, form[f].kind, form[f].name, form[f].email, form[f].code, form[f].seen, form[f].answer, form[f].uid)
  BY <1>1, MovedRecord
<1>3. form' = [form EXCEPT ![f] = w]
  BY <1>1
<1> HIDE DEF w
<1>4. w \in FormRecord
  BY <1>1, <1>2 DEF FormRecord, Filled
<1>5. form'[f] = w /\ form' \in [Forms -> FormRecord] /\ \A g \in Forms : g # f => form'[g] = form[g]
  BY <1>3, <1>4 DEF GateTypes
<1> QED
  BY <1>2, <1>5 DEF Filled

\* A request that has passed the comparison with the code.
LEMMA SubmitWrites ==
    ASSUME GateTypes, NEW f \in Forms, NEW k \in {"register", "reset"}, NEW n \in Names, NEW e \in Emails,
           NEW c \in Calls \cup {Unset},
           Submit(f, k, n, e, c)
    PROVE  /\ form' \in [Forms -> FormRecord]
           /\ \A g \in Forms : g # f => form'[g] = form[g]
           /\ form'[f].pc = k /\ form'[f].kind = k /\ form'[f].name = n /\ form'[f].email = e
           /\ form'[f].code = c /\ form'[f].answer = form[f].answer
<1> DEFINE r == form[f]
           w == Filled(k, k, n, e, c, r.seen, r.answer, r.uid)
<1>1. r \in FormRecord
  BY DEF GateTypes
<1>2. form' = [form EXCEPT ![f] = [form[f] EXCEPT !.pc = k, !.kind = k, !.name = n, !.email = e, !.code = c]]
  BY DEF GateTypes, Submit
<1>3. [form[f] EXCEPT !.pc = k, !.kind = k, !.name = n, !.email = e, !.code = c] = w
  <2> DEFINE q == [form[f] EXCEPT !.pc = k]
             x == [q EXCEPT !.kind = k]
             y == [x EXCEPT !.name = n]
             z == [y EXCEPT !.email = e]
  <2>1. q = Filled(k, r.kind, r.name, r.email, r.code, r.seen, r.answer, r.uid)
    BY <1>1, MovedRecord
  <2> HIDE DEF q
  <2>2. x = Filled(k, k, r.name, r.email, r.code, r.seen, r.answer, r.uid)
    BY <2>1 DEF Filled
  <2> HIDE DEF x
  <2>3. y = Filled(k, k, n, r.email, r.code, r.seen, r.answer, r.uid)
    BY <2>2 DEF Filled
  <2> HIDE DEF y
  <2>4. z = Filled(k, k, n, e, r.code, r.seen, r.answer, r.uid)
    BY <2>3 DEF Filled
  <2> HIDE DEF z
  <2>5. [z EXCEPT !.code = c] = w
    BY <2>4 DEF Filled
  <2> QED
    BY <2>5 DEF q, x, y, z
<1>4. form' = [form EXCEPT ![f] = w]
  BY <1>2, <1>3
<1>5. w \in FormRecord
  BY <1>1 DEF FormRecord, Filled, FormPlaces
<1>6. form'[f] = w /\ form' \in [Forms -> FormRecord] /\ \A g \in Forms : g # f => form'[g] = form[g]
  <2> HIDE DEF w
  <2> QED
    BY <1>4, <1>5, FormWritten, Zenon
<1> QED
  BY <1>6 DEF Filled

\* A request f that is not yet answered moves, the rows stay where they are.
LEMMA RowsStay ==
    ASSUME GateInv, NEW f \in Forms, form[f].pc # "answered",
           form' \in [Forms -> FormRecord], \A g \in Forms : g # f => form'[g] = form[g],
           users' \in Seq(UserRecord), Len(users') = Len(users), RowsKept, mailed' = mailed,
           userId' \in Nat, idLock' \in Forms \cup {Unset}, Numbered', FormHolds(f)', AnswerIsTrue(f)'
    PROVE  GateInv'
<1>1. GateTypes'
  BY DEF GateTypes
<1>2. /\ DOMAIN users = 1 .. Len(users) /\ DOMAIN users' = 1 .. Len(users)
      /\ \A i \in 1 .. Len(users) : users[i].by \in Forms
  <2>1. users \in Seq(UserRecord) /\ users' \in Seq(UserRecord)
    BY DEF GateInv, GateTypes
  <2>2. \A i \in 1 .. Len(users) : users[i] \in UserRecord
    BY <2>1
  <2>3. \A r \in UserRecord : r.by \in Forms
    BY DEF UserRecord
  <2> QED
    BY <2>1, <2>2, <2>3
<1>3. \A i \in 1 .. Len(users) : users'[i].by = users[i].by /\ users[i].by # f /\ form'[users[i].by] = form[users[i].by]
  BY <1>2 DEF GateInv, RowsHold, RowsKept
<1>4. RowsHold'
  BY <1>2, <1>3 DEF GateInv, RowsHold, RowsKept
<1>5. \A g \in Forms : FormHolds(g)' /\ AnswerIsTrue(g)'
  <2>1. ASSUME NEW g \in Forms, g # f PROVE FormHolds(g)' /\ AnswerIsTrue(g)'
    BY <1>1, <2>1, FormKept
  <2> QED
    BY <2>1
<1>6. SameNameOnlyIfRaced'
  BY <1>2, <1>3 DEF GateInv, SameNameOnlyIfRaced, RowsKept
<1>7. RegAnswersAreTrue'
  BY <1>5 DEF RegAnswersAreTrue, AnswerIsTrue
<1> QED
  BY <1>1, <1>4, <1>5, <1>6, <1>7 DEF GateInv

\* The same, and the database is left alone.
LEMMA OnlyForm ==
    ASSUME GateInv, NEW f \in Forms, form[f].pc \notin {"answered", "insert"},
           form' \in [Forms -> FormRecord], \A g \in Forms : g # f => form'[g] = form[g],
           form'[f].pc # "insert", UNCHANGED <<users, userId, idLock, mailed>>,
           FormHolds(f)', AnswerIsTrue(f)'
    PROVE  GateInv'
<1>1. users' \in Seq(UserRecord) /\ Len(users') = Len(users) /\ RowsKept
  BY DEF GateInv, GateTypes, RowsKept
<1>2. userId' \in Nat /\ idLock' \in Forms \cup {Unset}
  BY DEF GateInv, GateTypes
<1>3. Numbered'
  BY DEF GateInv, Numbered
<1> QED
  BY <1>1, <1>2, <1>3, RowsStay

\* An error that changes nothing.
LEMMA RefusePreserves ==
    ASSUME GateInv, NEW f \in Forms, form[f].pc \notin {"answered", "insert"}, Refuse(f),
           UNCHANGED <<users, userId, idLock, mailed>>
    PROVE  GateInv'
<1>1. /\ form' \in [Forms -> FormRecord]
      /\ \A g \in Forms : g # f => form'[g] = form[g]
      /\ form'[f].pc = "idle" /\ form'[f].kind = "none" /\ form'[f].answer = "none"
  BY RefuseWrites DEF GateInv
<1>2. FormHolds(f)' /\ AnswerIsTrue(f)'
  BY <1>1 DEF FormHolds, AnswerIsTrue
<1> QED
  BY <1>1, <1>2, OnlyForm

\* The code that a client fills in was mailed to the e-mail that it fills in: Redis
\* has it for no other.
LEMMA SubmitPreserves ==
    ASSUME VerifyInv, GateInv, NEW f \in Forms, NEW k \in {"register", "reset"}, NEW n \in Names,
           NEW e \in Emails, NEW c \in Calls \cup {Unset}, Submit(f, k, n, e, c), mailed' = mailed
    PROVE  GateInv'
<1>1. /\ form[f].pc = "idle" /\ codes[e] # NoKey /\ codes[e].code = c /\ UNCHANGED <<users, userId, idLock>>
      /\ c = Unset \/ \E m \in mailed : m[2] = c
  BY DEF Submit, CodeMatches
<1>2. Made(c, e)
  BY <1>1 DEF VerifyInv, CodesMade
<1>3. PICK m \in mailed : m[2] = c
  BY <1>1, <1>2, RegAssumption DEF Made
<1>4. <<e, c>> \in mailed
  <2>1. m \in Emails \X Calls /\ Made(m[2], m[1])
    BY DEF VerifyInv, VerifyTypes, CodesMade
  <2>2. m = <<m[1], m[2]>> /\ m[1] = e
    BY <1>2, <1>3, <2>1 DEF Made
  <2> QED
    BY <1>3, <2>2
<1>5. /\ form' \in [Forms -> FormRecord]
      /\ \A g \in Forms : g # f => form'[g] = form[g]
      /\ form'[f].pc = k /\ form'[f].kind = k /\ form'[f].name = n /\ form'[f].email = e
      /\ form'[f].code = c /\ form'[f].answer = form[f].answer
  <2>1. GateTypes
    BY DEF GateInv
  <2> QED
    BY <2>1, SubmitWrites
<1>6. form[f].answer = "none"
  BY <1>1 DEF GateInv, FormHolds
<1>7. FormHolds(f)' /\ AnswerIsTrue(f)'
  BY <1>4, <1>5, <1>6 DEF FormHolds, AnswerIsTrue
<1> QED
  BY <1>1, <1>5, <1>7, OnlyForm

LEMMA ExistsPreserves ==
    ASSUME GateInv, NEW f \in Forms, Exists(f), mailed' = mailed
    PROVE  GateInv'
<1>0. /\ form[f].pc = "register" /\ UNCHANGED <<users, userId, idLock>>
      /\ FormHolds(f) /\ GateTypes
  BY DEF Exists, GateInv
<1>1. CASE Refuse(f)
  BY <1>0, <1>1, RefusePreserves
<1>2. CASE /\ NameTaken(form[f].name) \/ EmailTaken(form[f].email)
           /\ Answer(f, "UserExist", 0)
  <2>1. /\ form' \in [Forms -> FormRecord]
        /\ \A g \in Forms : g # f => form'[g] = form[g]
        /\ form'[f].pc = "answered" /\ form'[f].answer = "UserExist"
        /\ form'[f].kind = form[f].kind /\ form'[f].name = form[f].name
        /\ form'[f].email = form[f].email /\ form'[f].code = form[f].code
    BY <1>0, <1>2, AnswerWrites DEF Answers
  <2>2. FormHolds(f)'
    BY <1>0, <2>1 DEF FormHolds
  <2>3. AnswerIsTrue(f)'
    BY <1>0, <1>2, <2>1 DEF AnswerIsTrue, NameTaken, EmailTaken
  <2> QED
    BY <1>0, <2>1, <2>2, <2>3, OnlyForm
<1>3. CASE /\ ~ NameTaken(form[f].name) /\ ~ EmailTaken(form[f].email)
           /\ form' = [form EXCEPT ![f].pc = "update", ![f].seen = Len(users)]
  <2>1. Len(users) \in Nat /\ DOMAIN users = 1 .. Len(users)
    BY <1>0 DEF GateTypes
  <2>2. /\ form' \in [Forms -> FormRecord]
        /\ \A g \in Forms : g # f => form'[g] = form[g]
        /\ form'[f].pc = "update" /\ form'[f].answer = form[f].answer
        /\ form'[f].kind = form[f].kind /\ form'[f].name = form[f].name
        /\ form'[f].email = form[f].email /\ form'[f].code = form[f].code
        /\ form'[f].seen = Len(users)
    BY <1>0, <1>3, <2>1, MoveWrites DEF FormPlaces
  <2>3. FormHolds(f)'
    BY <1>0, <1>3, <2>1, <2>2 DEF FormHolds, NameTaken, EmailTaken
  <2>4. AnswerIsTrue(f)'
    BY <1>0, <2>2 DEF AnswerIsTrue, FormHolds
  <2> QED
    BY <1>0, <2>2, <2>3, <2>4, OnlyForm
<1> QED
  BY <1>1, <1>2, <1>3 DEF Exists

LEMMA UpdateIdPreserves ==
    ASSUME GateInv, NEW f \in Forms, UpdateId(f), mailed' = mailed
    PROVE  GateInv'
<1>0. /\ form[f].pc = "update" /\ UNCHANGED users /\ FormHolds(f) /\ GateTypes /\ Numbered
      /\ form[f].seen \in Nat
  BY DEF UpdateId, GateInv, GateTypes, FormRecord
<1>1. CASE Answer(f, "RolledBack", 0) /\ UNCHANGED <<userId, idLock>>
  <2>1. /\ form' \in [Forms -> FormRecord]
        /\ \A g \in Forms : g # f => form'[g] = form[g]
        /\ form'[f].pc = "answered" /\ form'[f].answer = "RolledBack"
        /\ form'[f].kind = form[f].kind /\ form'[f].name = form[f].name
        /\ form'[f].email = form[f].email /\ form'[f].code = form[f].code
    BY <1>0, <1>1, AnswerWrites DEF Answers
  <2>2. FormHolds(f)' /\ AnswerIsTrue(f)'
    BY <1>0, <2>1 DEF FormHolds, AnswerIsTrue
  <2> QED
    BY <1>0, <1>1, <2>1, <2>2, OnlyForm
<1>2. CASE /\ idLock = Unset /\ idLock' = f /\ userId' = userId + 1
           /\ form' = [form EXCEPT ![f].pc = "insert"]
  <2>0. /\ GateTypes /\ "insert" \in FormPlaces
        /\ form' = [form EXCEPT ![f].pc = "insert"]
    BY <1>0, <1>2 DEF FormPlaces
  <2>1. /\ form' \in [Forms -> FormRecord]
        /\ \A g \in Forms : g # f => form'[g] = form[g]
        /\ form'[f].pc = "insert" /\ form'[f].answer = form[f].answer
        /\ form'[f].kind = form[f].kind /\ form'[f].name = form[f].name
        /\ form'[f].email = form[f].email /\ form'[f].code = form[f].code
        /\ form'[f].seen = form[f].seen
    BY <2>0, MovesOn
  <2>2. FormHolds(f)' /\ AnswerIsTrue(f)'
    BY <1>0, <2>1 DEF FormHolds, AnswerIsTrue
  <2>3. users' \in Seq(UserRecord) /\ Len(users') = Len(users) /\ RowsKept /\ userId \in Nat /\ Len(users) \in Nat
    BY <1>0 DEF GateTypes, RowsKept
  <2>4. Numbered'
    <3>1. f # Unset /\ \A g \in Forms : form[g].pc # "insert"
      BY <1>0, <1>2, RegAssumption DEF Numbered
    <3> QED
      BY <1>0, <1>2, <2>1, <2>3, <3>1 DEF Numbered
  <2> QED
    BY <1>0, <1>2, <2>1, <2>2, <2>3, <2>4, RowsStay
<1> QED
  BY <1>1, <1>2 DEF UpdateId, IdRowFree

\* The row that a committed registration adds.
LEMMA CommitPreserves ==
    ASSUME GateInv, NEW f \in Forms, form[f].pc = "insert", idLock' = Unset, ~ EmailTaken(form[f].email),
           users' = Append(users, [uid |-> userId, name |-> form[f].name, email |-> form[f].email,
                                   pwd |-> f, by |-> f]),
           Answer(f, "Success", userId) \/ Answer(f, "NetworkError", 0),
           userId' = userId, mailed' = mailed, VerifyInv
    PROVE  GateInv'
<1> DEFINE row == [uid |-> userId, name |-> form[f].name, email |-> form[f].email, pwd |-> f, by |-> f]
           n == Len(users)
<1>0. /\ FormHolds(f) /\ GateTypes /\ Numbered /\ idLock = f /\ f # Unset /\ userId = n + 1 /\ n \in Nat
      /\ form[f].seen \in Nat
  <2>1. f # Unset /\ Len(users) \in Nat
    BY RegAssumption DEF GateInv, GateTypes
  <2>2. form[f] \in FormRecord
    BY DEF GateInv, GateTypes
  <2>3. idLock = f
    BY DEF GateInv, Numbered
  <2> QED
    BY <2>1, <2>2, <2>3 DEF GateInv, Numbered, FormRecord
<1>1. form[f].name \in Names /\ form[f].email \in Emails
  BY <1>0 DEF FormHolds, VerifyInv, VerifyTypes
<1>2. row \in UserRecord
  BY <1>0, <1>1 DEF UserRecord
<1>3. /\ users' \in Seq(UserRecord) /\ Len(users') = n + 1
      /\ \A i \in 1 .. n : users'[i] = users[i]
      /\ users'[n + 1] = row
      /\ DOMAIN users = 1 .. n /\ DOMAIN users' = 1 .. n + 1
  <2> HIDE DEF row
  <2>1. users \in Seq(UserRecord) /\ users' = Append(users, row)
    BY <1>0 DEF GateTypes, row
  <2> QED
    BY <1>2, <2>1
<1>4. row.by = f /\ row.name = form[f].name /\ row.email = form[f].email /\ row.uid = n + 1
  BY <1>0
<1> HIDE DEF row
<1>5. RowsKept
  BY <1>0, <1>3 DEF RowsKept
<1>6. \A i \in 1 .. n : i \in 1 .. n + 1 /\ i # n + 1
  BY <1>0
<1>7. PICK a \in {"Success", "NetworkError"}, u \in Nat : Answer(f, a, u) /\ (a = "Success" => u = n + 1)
  BY <1>0
<1>8. /\ form' \in [Forms -> FormRecord]
      /\ \A g \in Forms : g # f => form'[g] = form[g]
      /\ form'[f].pc = "answered" /\ form'[f].answer = a /\ form'[f].uid = u
      /\ form'[f].kind = form[f].kind /\ form'[f].name = form[f].name
      /\ form'[f].email = form[f].email /\ form'[f].code = form[f].code
      /\ form'[f].seen = form[f].seen
  BY <1>0, <1>7, AnswerWrites DEF Answers
<1>9. GateTypes'
  BY <1>0, <1>3, <1>8 DEF GateTypes
<1>10. \A i \in 1 .. n : users[i].by \in Forms /\ users[i].by # f /\ form'[users[i].by] = form[users[i].by]
  <2>1. \A i \in 1 .. n : users[i] \in UserRecord
    BY <1>0, <1>3 DEF GateTypes
  <2>2. \A r \in UserRecord : r.by \in Forms
    BY DEF UserRecord
  <2>3. \A i \in 1 .. n : form[users[i].by].pc = "answered"
    BY <1>3 DEF GateInv, RowsHold
  <2> QED
    BY <1>8, <2>1, <2>2, <2>3
<1>11. RowsHold'
  <2>1. ASSUME NEW i \in 1 .. n + 1
        PROVE  form'[users'[i].by].pc = "answered" /\ form'[users'[i].by].email = users'[i].email
    <3>1. CASE i = n + 1
      BY <1>3, <1>4, <1>8, <3>1
    <3>2. CASE i # n + 1
      <4>1. i \in 1 .. n
        BY <1>0, <3>2
      <4> QED
        BY <1>3, <1>10, <4>1 DEF GateInv, RowsHold
    <3> QED
      BY <3>1, <3>2
  <2> QED
    BY <1>3, <2>1 DEF RowsHold
<1>12. Numbered'
  <2>1. \A i \in 1 .. n + 1 : users'[i].uid = i
    BY <1>0, <1>3, <1>4 DEF Numbered
  <2>2. \A g \in Forms : form'[g].pc # "insert"
    BY <1>0, <1>8 DEF Numbered
  <2> QED
    BY <1>0, <1>3, <2>1, <2>2, RegAssumption DEF Numbered
<1>13. \A g \in Forms : FormHolds(g)' /\ AnswerIsTrue(g)'
  <2>1. ASSUME NEW g \in Forms, g # f PROVE FormHolds(g)' /\ AnswerIsTrue(g)'
    BY <1>5, <1>8, <1>9, <2>1, FormKept
  <2>2. FormHolds(f)'
    BY <1>0, <1>8 DEF FormHolds
  <2>3. AnswerIsTrue(f)'
    <3>1. n + 1 \in DOMAIN users' /\ users'[n + 1].uid = n + 1 /\ users'[n + 1].by = f
      BY <1>0, <1>3, <1>4
    <3> QED
      BY <1>7, <1>8, <3>1 DEF AnswerIsTrue
  <2> QED
    BY <2>1, <2>2, <2>3
<1>14. SameNameOnlyIfRaced'
  <2> SUFFICES ASSUME NEW i \in 1 .. n + 1, NEW j \in 1 .. n + 1, i < j, users'[i].name = users'[j].name
               PROVE  form'[users'[j].by].seen < i
    BY <1>3 DEF SameNameOnlyIfRaced
  <2>1. i \in 1 .. n
    BY <1>0
  <2>2. CASE j = n + 1
    <3>1. users[i].name = form[f].name /\ users'[j].by = f
      BY <1>3, <1>4, <2>1, <2>2
    <3>2. ~ (i \in 1 .. form[f].seen)
      BY <1>0, <3>1 DEF FormHolds
    <3> QED
      BY <1>0, <1>8, <2>1, <3>1, <3>2
  <2>3. CASE j # n + 1
    <3>1. j \in 1 .. n
      BY <1>0, <2>3
    <3> QED
      BY <1>3, <1>10, <2>1, <3>1 DEF GateInv, SameNameOnlyIfRaced
  <2> QED
    BY <2>2, <2>3
<1>15. RegAnswersAreTrue'
  BY <1>13 DEF RegAnswersAreTrue, AnswerIsTrue
<1> QED
  BY <1>9, <1>11, <1>12, <1>13, <1>14, <1>15 DEF GateInv

LEMMA InsertPreserves ==
    ASSUME VerifyInv, GateInv, NEW f \in Forms, Insert(f), mailed' = mailed
    PROVE  GateInv'
<1>0. /\ form[f].pc = "insert" /\ idLock' = Unset /\ FormHolds(f) /\ GateTypes /\ Numbered
      /\ idLock = f /\ f # Unset /\ userId = Len(users) + 1 /\ Len(users) \in Nat
  <2>1. f # Unset /\ Len(users) \in Nat
    BY RegAssumption DEF GateInv, GateTypes
  <2>2. form[f].pc = "insert" /\ idLock' = Unset
    BY DEF Insert
  <2>3. idLock = f
    BY <2>2 DEF GateInv, Numbered
  <2> QED
    BY <2>1, <2>2, <2>3 DEF GateInv, Numbered
<1>1. CASE /\ ~ EmailTaken(form[f].email)
           /\ users' = Append(users, [uid |-> userId, name |-> form[f].name, email |-> form[f].email,
                                      pwd |-> f, by |-> f])
           /\ Answer(f, "Success", userId) \/ Answer(f, "NetworkError", 0)
           /\ UNCHANGED userId
  BY <1>0, <1>1, CommitPreserves
<1>2. CASE /\ Answer(f, IF EmailTaken(form[f].email) THEN "Duplicate" ELSE "RolledBack", 0)
           /\ userId' = userId - 1 /\ UNCHANGED users
  <2>1. PICK a \in {"Duplicate", "RolledBack"} :
          Answer(f, a, 0) /\ (a = "Duplicate" => EmailTaken(form[f].email))
    BY <1>2
  <2>2. /\ form' \in [Forms -> FormRecord]
        /\ \A g \in Forms : g # f => form'[g] = form[g]
        /\ form'[f].pc = "answered" /\ form'[f].answer = a
        /\ form'[f].kind = form[f].kind /\ form'[f].name = form[f].name
        /\ form'[f].email = form[f].email /\ form'[f].code = form[f].code
        /\ form'[f].seen = form[f].seen
    BY <1>0, <2>1, AnswerWrites DEF Answers
  <2>3. FormHolds(f)'
    BY <1>0, <2>2 DEF FormHolds
  <2>4. AnswerIsTrue(f)'
    <3> SUFFICES ASSUME a = "Duplicate"
                 PROVE  \E i \in DOMAIN users : i > form[f].seen /\ users[i].email = form[f].email /\ users[i].by # f
      BY <1>2, <2>1, <2>2 DEF AnswerIsTrue
    <3>1. PICK i \in DOMAIN users : users[i].email = form[f].email
      BY <2>1 DEF EmailTaken
    <3>2. i \in Nat /\ i >= 1 /\ form[f].seen \in Nat
      BY <1>0 DEF GateTypes, FormRecord
    <3>3. ~ (i \in 1 .. form[f].seen)
      BY <1>0, <3>1 DEF FormHolds
    <3>4. users[i].by # f
      BY <1>0 DEF GateInv, RowsHold
    <3> QED
      BY <3>1, <3>2, <3>3, <3>4
  <2>5. users' \in Seq(UserRecord) /\ Len(users') = Len(users) /\ RowsKept /\ userId' = Len(users)
    BY <1>0, <1>2 DEF GateTypes, RowsKept
  <2>6. Numbered'
    <3>1. \A g \in Forms : form'[g].pc # "insert"
      BY <1>0, <2>2 DEF Numbered
    <3> QED
      BY <1>0, <1>2, <2>5, <3>1, RegAssumption DEF Numbered
  <2> QED
    BY <1>0, <2>2, <2>3, <2>4, <2>5, <2>6, RowsStay
<1> QED
  BY <1>1, <1>2 DEF Insert

\* A name that is taken has a first row.
LEMMA FirstRow ==
    ASSUME GateTypes, NEW n, NameTaken(n)
    PROVE  LET i == FirstNamed(n)
           IN  i \in DOMAIN users /\ users[i].name = n /\ \A j \in 1 .. i - 1 : users[j].name # n
<1> DEFINE Rows == {i \in DOMAIN users : users[i].name = n}
<1>1. Rows \subseteq Nat /\ Rows # {} /\ DOMAIN users = 1 .. Len(users) /\ Len(users) \in Nat
  BY DEF GateTypes, NameTaken
<1> HIDE DEF Rows
<1>2. \E i \in Rows : \A j \in Rows : <<j, i>> \notin OpToRel(<, Nat)
  BY <1>1, NatLessThanWellFounded, WFMin
<1>3. PICK i \in Rows : \A j \in Rows : <<j, i>> \notin OpToRel(<, Nat)
  BY <1>2
<1>4. \A j \in Rows : ~ (j < i)
  BY <1>1, <1>3 DEF OpToRel
<1>5. i \in DOMAIN users /\ users[i].name = n
  BY DEF Rows
<1>6. \A j \in 1 .. i - 1 : j \in DOMAIN users /\ j < i
  BY <1>1, <1>5
<1>7. \A j \in 1 .. i - 1 : users[j].name # n
  BY <1>4, <1>6 DEF Rows
<1> QED
  BY <1>5, <1>7 DEF FirstNamed

LEMMA CheckEmailPreserves ==
    ASSUME GateInv, NEW f \in Forms, CheckEmail(f), mailed' = mailed
    PROVE  GateInv'
<1>0. /\ form[f].pc = "reset" /\ UNCHANGED <<users, userId, idLock>>
      /\ FormHolds(f) /\ GateTypes /\ form[f].seen \in Nat
  BY DEF CheckEmail, GateInv, GateTypes, FormRecord
<1>1. CASE Refuse(f)
  BY <1>0, <1>1, RefusePreserves
<1>2. CASE /\ NameTaken(form[f].name) /\ users[FirstNamed(form[f].name)].email = form[f].email
           /\ form' = [form EXCEPT ![f].pc = "password"]
  <2>1. /\ form' \in [Forms -> FormRecord]
        /\ \A g \in Forms : g # f => form'[g] = form[g]
        /\ form'[f].pc = "password" /\ form'[f].answer = form[f].answer
        /\ form'[f].kind = form[f].kind /\ form'[f].name = form[f].name
        /\ form'[f].email = form[f].email /\ form'[f].code = form[f].code
    BY <1>0, <1>2, MovesOn DEF FormPlaces
  <2>2. \E i \in 1 .. Len(users) :
          /\ users[i].name = form[f].name /\ users[i].email = form[f].email
          /\ \A j \in 1 .. i - 1 : users[j].name # form[f].name
    <3>1. DOMAIN users = 1 .. Len(users)
      BY <1>0 DEF GateTypes
    <3> QED
      BY <1>0, <1>2, <3>1, FirstRow
  <2>3. FormHolds(f)' /\ AnswerIsTrue(f)'
    BY <1>0, <2>1, <2>2 DEF FormHolds, AnswerIsTrue
  <2> QED
    BY <1>0, <2>1, <2>3, OnlyForm
<1> QED
  BY <1>1, <1>2 DEF CheckEmail

LEMMA UpdatePasswordPreserves ==
    ASSUME GateInv, NEW f \in Forms, UpdatePassword(f), mailed' = mailed
    PROVE  GateInv'
<1> DEFINE hit == {i \in DOMAIN users : users[i].name = form[f].name}
<1>0. /\ form[f].pc = "password" /\ UNCHANGED <<userId, idLock>>
      /\ FormHolds(f) /\ GateTypes /\ Numbered
  BY DEF UpdatePassword, GateInv
<1>1. CASE Refuse(f) /\ UNCHANGED users
  BY <1>0, <1>1, RefusePreserves
<1>2. CASE /\ users' = [i \in DOMAIN users |-> IF i \in hit THEN [users[i] EXCEPT !.pwd = f] ELSE users[i]]
           /\ \/ Answer(f, IF Cardinality(hit) = 1 THEN "Success" ELSE "PasswordUpdateFail", 0)
              \/ Answer(f, "NetworkError", 0)
  <2>1. PICK a \in Answers : Answer(f, a, 0)
    BY <1>2 DEF Answers
  <2>2. /\ form' \in [Forms -> FormRecord]
        /\ \A g \in Forms : g # f => form'[g] = form[g]
        /\ form'[f].pc = "answered"
        /\ form'[f].kind = form[f].kind /\ form'[f].name = form[f].name
        /\ form'[f].email = form[f].email /\ form'[f].code = form[f].code
    BY <1>0, <2>1, AnswerWrites
  <2>3. FormHolds(f)' /\ AnswerIsTrue(f)'
    BY <1>0, <2>2 DEF FormHolds, AnswerIsTrue
  <2>4. DOMAIN users = 1 .. Len(users) /\ Len(users) \in Nat /\ \A i \in 1 .. Len(users) : users[i] \in UserRecord
    BY <1>0 DEF GateTypes
  <2>5. \A r \in UserRecord :
          LET q == [r EXCEPT !.pwd = f]
          IN  q \in UserRecord /\ q.name = r.name /\ q.email = r.email /\ q.by = r.by /\ q.uid = r.uid
    BY DEF UserRecord
  <2>6. /\ DOMAIN users' = 1 .. Len(users)
        /\ \A i \in 1 .. Len(users) :
             /\ users'[i] \in UserRecord
             /\ users'[i].name = users[i].name /\ users'[i].email = users[i].email
             /\ users'[i].by = users[i].by /\ users'[i].uid = users[i].uid
    BY <1>2, <2>4, <2>5
  <2>7. users' \in [1 .. Len(users) -> UserRecord]
    BY <1>2, <2>4, <2>6
  <2>8. users' \in Seq(UserRecord) /\ Len(users') = Len(users)
    BY <2>4, <2>7, SeqDef
  <2>9. RowsKept
    BY <2>4, <2>6, <2>8 DEF RowsKept
  <2>10. Numbered'
    BY <1>0, <2>2, <2>4, <2>6, <2>8 DEF Numbered
  <2>11. userId' \in Nat /\ idLock' \in Forms \cup {Unset}
    BY <1>0 DEF GateTypes
  <2> QED
    BY <1>0, <2>2, <2>3, <2>8, <2>9, <2>10, <2>11, RowsStay
<1> QED
  BY <1>1, <1>2 DEF UpdatePassword

\* Every step preserves what the accounts rest on.
LEMMA NextGateInv ==
    ASSUME VerifyInv, VerifyInv', GateInv, [RegNext]_regVars
    PROVE  GateInv'
<1>1. CASE GateStep /\ UNCHANGED <<call, codes, mailed, overlap>>
  BY <1>1, SubmitPreserves, ExistsPreserves, UpdateIdPreserves, InsertPreserves, CheckEmailPreserves,
     UpdatePasswordPreserves
     DEF GateStep
<1>2. ASSUME UNCHANGED <<form, users, userId, idLock>>, mailed \subseteq mailed'
      PROVE  GateInv'
  <2>1. GateTypes' /\ Numbered' /\ RowsHold' /\ SameNameOnlyIfRaced' /\ RegAnswersAreTrue'
    BY <1>2
       DEF GateInv, GateTypes, Numbered, RowsHold, SameNameOnlyIfRaced, RegAnswersAreTrue, NameTaken, EmailTaken
  <2>2. RowsKept
    BY <1>2 DEF RowsKept, GateInv, GateTypes
  <2>3. \A f \in Forms : FormHolds(f)'
    BY <1>2, <2>1, <2>2, FormKept
  <2> QED
    BY <2>1, <2>3 DEF GateInv
<1>3. CASE (VerifyStep \/ \E e \in Emails : Expire(e)) /\ UNCHANGED <<form, users, userId, idLock>>
  <2>1. mailed \subseteq mailed'
    BY <1>3 DEF VerifyStep, Ask, Query, SetCode, SetExpire, GetCode, SendMail, Expire
  <2> QED
    BY <1>2, <1>3, <2>1
<1>4. CASE UNCHANGED regVars
  BY <1>2, <1>4 DEF regVars
<1> QED
  BY <1>1, <1>3, <1>4 DEF RegNext

\* Every state of registering satisfies GateInv.
THEOREM AccountsInvariant == RegSpec => []GateInv
<1>1. VerifyInv /\ VerifyInv' /\ GateInv /\ [RegNext]_regVars => GateInv'
  BY NextGateInv
<1> QED
  BY <1>1, InitGateInv, CodesInvariant, PTL DEF RegSpec

\* Uids number the rows, codes in Redis expire but for those of a set or an expire that ended
\* with an error, every account was made with a code mailed to its e-mail, two accounts share
\* a name only if they raced, and what the requests are told is true.
THEOREM RegistrationHolds == RegSpec => []RegistrationInv
<1>1. VerifyInv /\ GateInv => RegistrationInv
  <2> SUFFICES ASSUME VerifyInv, GateInv PROVE RegistrationInv
    OBVIOUS
  <2>1. RegTypeOK
    BY DEF VerifyInv, VerifyTypes, GateInv, GateTypes, Numbered, RegTypeOK
  <2>2. CodeProvesMail
    <3>1. ASSUME NEW i \in DOMAIN users PROVE <<users[i].email, form[users[i].by].code>> \in mailed
      <4>1. users[i] \in UserRecord
        BY DEF GateInv, GateTypes
      <4>2. users[i].by \in Forms
        BY <4>1 DEF UserRecord
      <4> QED
        BY <4>2 DEF GateInv, RowsHold, FormHolds
    <3> QED
      BY <3>1 DEF CodeProvesMail
  <2> QED
    BY <2>1, <2>2 DEF VerifyInv, GateInv, RegistrationInv
<1> QED
  BY <1>1, CodesInvariant, AccountsInvariant, PTL

\* A new password goes to the account whose e-mail got the code, and to another only
\* if it bears the same name.
THEOREM ResetsAreOwn == RegSpec => ResetsItsOwn
<1> DEFINE Own == \A f \in Forms : UpdatePassword(f) =>
         \A i \in DOMAIN users : users'[i].pwd # users[i].pwd =>
            \/ users[i].email = form[f].email
            \/ \E j \in 1..(i - 1) : users[j].email = form[f].email /\ users[j].name = users[i].name
<1>1. GateInv => Own
  <2> SUFFICES ASSUME GateInv, NEW f \in Forms, UpdatePassword(f), NEW i \in DOMAIN users,
                      users'[i].pwd # users[i].pwd, users[i].email # form[f].email
               PROVE  \E j \in 1..(i - 1) : users[j].email = form[f].email /\ users[j].name = users[i].name
    OBVIOUS
  <2>1. form[f].pc = "password" /\ DOMAIN users = 1 .. Len(users) /\ Len(users) \in Nat
    BY DEF UpdatePassword, GateInv, GateTypes
  <2>2. users[i].name = form[f].name
    BY DEF UpdatePassword
  <2>3. PICK j \in 1 .. Len(users) :
          /\ users[j].name = form[f].name /\ users[j].email = form[f].email
          /\ \A k \in 1 .. j - 1 : users[k].name # form[f].name
    BY <2>1 DEF GateInv, FormHolds
  <2>4. i # j /\ i \notin 1 .. j - 1
    BY <2>2, <2>3
  <2> QED
    BY <2>1, <2>2, <2>3, <2>4
<1>2. GateInv => [Own]_regVars
  BY <1>1
<1> QED
  BY <1>2, AccountsInvariant, PTL DEF ResetsItsOwn

\* Both action properties of registering.
THEOREM RegistrationStepsHold == RegSpec => RegistrationSteps
BY OverwritesAreRaced, ResetsAreOwn DEF RegistrationSteps

-----------------------------------------------------------------------------
(* Logging in: the inductive invariant *)

LoginPlaces == {"idle", "select", "read", "store", "told", "refused", "queued", "count",
                "uidInvalid", "tokenInvalid", "open", "ended"}

Readings == UNION {[S -> 0..NoCount] : S \in SUBSET ChatServers}

LoginRecord == [pc : LoginPlaces, account : Accounts \cup {NoToken}, read : Readings,
                server : ChatServers \cup {NoToken}, stored : SUBSET Logins, moved : Nat,
                reset : SUBSET ChatServers, counted : BOOLEAN, fault : BOOLEAN]

LoginTypes ==
    /\ login \in [Logins -> LoginRecord]
    /\ tokens \in [Accounts -> Logins \cup {NoToken}]
    /\ loginCount \in [ChatServers -> 0..NoCount]
    /\ selecting \in Logins \cup {NoToken}
    /\ serving \in [ChatServers -> {"down", "up", "unset", "leaving"}]

\* What a login has at each place.
LoginHolds(r) ==
    /\ r.pc # "idle" => r.account \in Accounts
    /\ r.pc \in {"store", "told", "queued", "count", "open", "ended"} => r.server \in ChatServers
    /\ r.pc \in {"idle", "select", "read", "store"} => r.stored = {}
    /\ r.pc \in {"idle", "select"} => r.read = <<>>
    /\ r.counted => r.pc \in {"open", "ended"}

\* A count that was read is the count, but for what was counted, or reset, since.
ReadsHold(r) ==
    r.pc = "read" => \A t \in DOMAIN r.read \ r.reset :
        \/ r.read[t] = NoCount
        \/ loginCount[t] # NoCount /\ r.read[t] <= loginCount[t] /\ loginCount[t] <= r.read[t] + r.moved

\* A server has logins only while it runs, and has counted them if its count was reset.
ServesHold(r) ==
    /\ r.pc \in {"queued", "count", "open"} => serving[r.server] # "down"
    /\ (r.server \in ChatServers /\ serving[r.server] = "up") =>
          /\ r.counted => r.pc = "open"
          /\ r.pc = "open" => r.counted \/ r.fault

\* The later login of the same account that replaced the token.
Replaced(l) == \E k \in Logins \ {l} : {k, l} \subseteq login[k].stored /\ login[k].account = login[l].account

\* A stored token is there until a later login of the account replaces it.
TokensHold == \A l \in Logins : l \in login[l].stored => tokens[login[l].account] = l \/ Replaced(l)

CountsHold ==
    \A s \in ChatServers : IF loginCount[s] = NoCount THEN Counted(s) = {}
                           ELSE loginCount[s] = Cardinality(Counted(s))

LoginInv ==
    /\ LoginTypes
    /\ \A l \in Logins : LoginHolds(login[l]) /\ ReadsHold(login[l]) /\ ServesHold(login[l])
    /\ TokensHold
    /\ CountsHold

LEMMA NoReading == <<>> \in Readings /\ DOMAIN <<>> = {}
BY DEF Readings

\* NoCount is more than any count.
LEMMA CountsAreFewer ==
    /\ NoCount \in Nat /\ NoCount > 0
    /\ \A S : S \subseteq Logins => IsFiniteSet(S) /\ Cardinality(S) \in Nat /\ Cardinality(S) < NoCount
<1>1. Cardinality(Logins) \in Nat
  BY LoginAssumption, FS_CardinalityType
<1>2. ASSUME NEW S, S \subseteq Logins
      PROVE  IsFiniteSet(S) /\ Cardinality(S) \in Nat /\ Cardinality(S) <= Cardinality(Logins)
  BY <1>2, LoginAssumption, FS_Subset, FS_CardinalityType
<1> QED
  BY <1>1, <1>2 DEF NoCount

LEMMA InitLoginInv == LgInit => LoginInv
<1> SUFFICES ASSUME LgInit PROVE LoginInv
  OBVIOUS
<1>1. Fresh \in LoginRecord
  BY NoReading DEF Fresh, LoginRecord, LoginPlaces
<1>2. LoginTypes
  BY <1>1, CountsAreFewer DEF LoginTypes, LgInit
<1>3. \A l \in Logins : login[l] = Fresh
  BY DEF LgInit
<1>4. \A l \in Logins : LoginHolds(login[l]) /\ ReadsHold(login[l])
  BY <1>3 DEF Fresh, LoginHolds, ReadsHold
<1>5. \A l \in Logins : ServesHold(login[l])
  BY <1>3 DEF Fresh, ServesHold
<1>6. TokensHold
  BY <1>3 DEF TokensHold, Fresh
<1>7. CountsHold
  BY <1>3 DEF CountsHold, Counted, Fresh, LgInit
<1> QED
  BY <1>2, <1>4, <1>5, <1>6, <1>7 DEF LoginInv

\* A login that goes on without counting or storing.
LEMMA LoginMoves ==
    ASSUME LoginInv, NEW l \in Logins, NEW w \in LoginRecord, login' = [login EXCEPT ![l] = w],
           UNCHANGED <<tokens, loginCount, serving>>, selecting' \in Logins \cup {NoToken},
           login[l].pc \notin {"open", "ended"}, ~ w.counted, w.stored = login[l].stored,
           login[l].pc # "idle" => w.account = login[l].account,
           LoginHolds(w), ReadsHold(w), ServesHold(w)
    PROVE  LoginInv'
<1>1. LoginTypes /\ LoginTypes'
  BY DEF LoginInv, LoginTypes
<1>2. login'[l] = w /\ \A k \in Logins : k # l => login'[k] = login[k]
  BY <1>1 DEF LoginTypes
<1>3. \A k \in Logins : LoginHolds(login'[k]) /\ ReadsHold(login[k])' /\ ServesHold(login[k])'
  BY <1>2 DEF LoginInv, ReadsHold, LoginHolds, ServesHold
<1>4. TokensHold'
  <2> SUFFICES ASSUME NEW g \in Logins, g \in login'[g].stored
               PROVE  tokens'[login'[g].account] = g \/ Replaced(g)'
    BY DEF TokensHold
  <2>1. \A k \in Logins : login'[k].stored = login[k].stored
    BY <1>2
  <2>2. \A k \in Logins : k \in login[k].stored => login'[k].account = login[k].account
    BY <1>2 DEF LoginInv, LoginHolds
  <2>3. tokens[login[g].account] = g \/ Replaced(g)
    BY <2>1 DEF LoginInv, TokensHold
  <2> QED
    BY <2>1, <2>2, <2>3 DEF Replaced
<1>5. CountsHold'
  <2>1. ~ login[l].counted
    BY DEF LoginInv, LoginHolds
  <2>2. \A s \in ChatServers : Counted(s)' = Counted(s)
    BY <1>2, <2>1 DEF Counted
  <2> QED
    BY <2>2 DEF CountsHold, LoginInv
<1> QED
  BY <1>1, <1>3, <1>4, <1>5 DEF LoginInv

Entry(pc, account, read, server, stored, moved, reset, counted, fault) ==
    [pc |-> pc, account |-> account, read |-> read, server |-> server, stored |-> stored, moved |-> moved,
     reset |-> reset, counted |-> counted, fault |-> fault]

\* The records that EXCEPT makes.
LEMMA LoginRecords ==
    ASSUME NEW r \in LoginRecord, NEW p
    PROVE  /\ [r EXCEPT !.pc = p]
                = Entry(p, r.account, r.read, r.server, r.stored, r.moved, r.reset, r.counted, r.fault)
           /\ \A a : [r EXCEPT !.pc = p, !.account = a]
                = Entry(p, a, r.read, r.server, r.stored, r.moved, r.reset, r.counted, r.fault)
           /\ \A s : [r EXCEPT !.pc = p, !.server = s]
                = Entry(p, r.account, r.read, s, r.stored, r.moved, r.reset, r.counted, r.fault)
           /\ \A b : [r EXCEPT !.pc = p, !.fault = b]
                = Entry(p, r.account, r.read, r.server, r.stored, r.moved, r.reset, r.counted, b)
           /\ \A f, m, z, t : [r EXCEPT !.pc = p, !.read = f, !.moved = m, !.reset = z, !.stored = t]
                = Entry(p, r.account, f, r.server, t, m, z, r.counted, r.fault)
<1> DEFINE q == [r EXCEPT !.pc = p]
<1>1. q = Entry(p, r.account, r.read, r.server, r.stored, r.moved, r.reset, r.counted, r.fault)
  BY DEF LoginRecord, Entry
<1> HIDE DEF q
<1>2. /\ \A a : [q EXCEPT !.account = a]
                = Entry(p, a, r.read, r.server, r.stored, r.moved, r.reset, r.counted, r.fault)
      /\ \A s : [q EXCEPT !.server = s]
                = Entry(p, r.account, r.read, s, r.stored, r.moved, r.reset, r.counted, r.fault)
      /\ \A b : [q EXCEPT !.fault = b]
                = Entry(p, r.account, r.read, r.server, r.stored, r.moved, r.reset, r.counted, b)
  BY <1>1 DEF Entry
<1>3. ASSUME NEW f, NEW m, NEW z, NEW t
      PROVE  [q EXCEPT !.read = f, !.moved = m, !.reset = z, !.stored = t]
               = Entry(p, r.account, f, r.server, t, m, z, r.counted, r.fault)
  <2> DEFINE q1 == [q EXCEPT !.read = f]
             q2 == [q1 EXCEPT !.moved = m]
             q3 == [q2 EXCEPT !.reset = z]
  <2>1. q1 = Entry(p, r.account, f, r.server, r.stored, r.moved, r.reset, r.counted, r.fault)
    BY <1>1 DEF Entry
  <2> HIDE DEF q1
  <2>2. q2 = Entry(p, r.account, f, r.server, r.stored, m, r.reset, r.counted, r.fault)
    BY <2>1 DEF Entry
  <2> HIDE DEF q2
  <2>3. q3 = Entry(p, r.account, f, r.server, r.stored, m, z, r.counted, r.fault)
    BY <2>2 DEF Entry
  <2> HIDE DEF q3
  <2>4. [q3 EXCEPT !.stored = t] = Entry(p, r.account, f, r.server, t, m, z, r.counted, r.fault)
    BY <2>3 DEF Entry
  <2> QED
    BY <2>4 DEF q3, q2, q1
<1> QED
  BY <1>1, <1>2, <1>3 DEF q

\* Those that leave a login where it is.
LEMMA RecordsInPlace ==
    ASSUME NEW r \in LoginRecord
    PROVE  /\ \A f : [r EXCEPT !.read = f]
                = Entry(r.pc, r.account, f, r.server, r.stored, r.moved, r.reset, r.counted, r.fault)
           /\ \A m : [r EXCEPT !.moved = m]
                = Entry(r.pc, r.account, r.read, r.server, r.stored, m, r.reset, r.counted, r.fault)
BY DEF LoginRecord, Entry

LEMMA CountedWritten ==
    ASSUME NEW r \in LoginRecord, NEW c \in BOOLEAN, NEW z
    PROVE  [r EXCEPT !.counted = c, !.reset = z]
             = Entry(r.pc, r.account, r.read, r.server, r.stored, r.moved, z, c, r.fault)
<1> DEFINE q == [r EXCEPT !.counted = c]
<1>1. q = Entry(r.pc, r.account, r.read, r.server, r.stored, r.moved, r.reset, c, r.fault)
  <2>1. \A b \in BOOLEAN : [r EXCEPT !.counted = b]
          = Entry(r.pc, r.account, r.read, r.server, r.stored, r.moved, r.reset, b, r.fault)
    BY DEF LoginRecord, Entry
  <2> QED
    BY <2>1
<1> HIDE DEF q
<1>2. [q EXCEPT !.reset = z] = Entry(r.pc, r.account, r.read, r.server, r.stored, r.moved, z, c, r.fault)
  BY <1>1 DEF Entry
<1> QED
  BY <1>2 DEF q

LEMMA CheckPasswordLogs ==
    ASSUME LoginInv, NEW l \in Logins, NEW a \in Accounts, CheckPassword(l, a)
    PROVE  LoginInv'
<1> DEFINE r == login[l]
           w == Entry("select", a, r.read, r.server, r.stored, r.moved, r.reset, r.counted, r.fault)
<1>1. r \in LoginRecord /\ LoginHolds(r) /\ ServesHold(r) /\ r.pc = "idle"
  BY DEF LoginInv, LoginTypes, CheckPassword, At
<1>2. login' = [login EXCEPT ![l] = [login[l] EXCEPT !.pc = "select", !.account = a]]
  BY DEF CheckPassword, LoginInv, LoginTypes
<1>3. login' = [login EXCEPT ![l] = w]
  <2>1. [r EXCEPT !.pc = "select", !.account = a] = w
    BY <1>1, LoginRecords
  <2> QED
    BY <1>2, <2>1
<1>4. w \in LoginRecord
  BY <1>1 DEF LoginRecord, Entry, LoginPlaces
<1>5. LoginHolds(w) /\ ReadsHold(w) /\ ServesHold(w) /\ ~ w.counted /\ w.stored = r.stored
  BY <1>1 DEF LoginHolds, ReadsHold, ServesHold, Entry
<1>6. UNCHANGED <<tokens, loginCount, serving>> /\ selecting' \in Logins \cup {NoToken}
  BY DEF CheckPassword, LoginInv, LoginTypes
<1> QED
  BY <1>1, <1>3, <1>4, <1>5, <1>6, LoginMoves

LEMMA EnterSelectLogs ==
    ASSUME LoginInv, NEW l \in Logins, EnterSelect(l)
    PROVE  LoginInv'
<1> DEFINE r == login[l]
           w == Entry("read", r.account, r.read, r.server, r.stored, r.moved, r.reset, r.counted, r.fault)
<1>1. r \in LoginRecord /\ LoginHolds(r) /\ ServesHold(r) /\ r.pc = "select"
  BY DEF LoginInv, LoginTypes, EnterSelect, At
<1>2. login' = [login EXCEPT ![l] = [login[l] EXCEPT !.pc = "read"]]
  BY DEF EnterSelect, LoginInv, LoginTypes
<1>3. login' = [login EXCEPT ![l] = w]
  BY <1>1, <1>2, LoginRecords
<1>4. w \in LoginRecord
  BY <1>1 DEF LoginRecord, Entry, LoginPlaces
<1>5. DOMAIN w.read = {}
  BY <1>1, NoReading DEF LoginHolds, Entry
<1>6. /\ LoginHolds(w) /\ ReadsHold(w) /\ ServesHold(w)
      /\ ~ w.counted /\ w.stored = r.stored /\ w.account = r.account
  BY <1>1, <1>5 DEF LoginHolds, ReadsHold, ServesHold, Entry
<1>7. UNCHANGED <<tokens, loginCount, serving>> /\ selecting' \in Logins \cup {NoToken}
  BY DEF EnterSelect
<1> QED
  BY <1>1, <1>3, <1>4, <1>6, <1>7, LoginMoves

LEMMA ReadCountLogs ==
    ASSUME LoginInv, NEW l \in Logins, NEW s \in ChatServers, ReadCount(l, s)
    PROVE  LoginInv'
<1>1. NoCount \in 0..NoCount
  BY CountsAreFewer
<1>2. PICK n \in {loginCount[s], NoCount} :
        login' = [login EXCEPT ![l].read = [t \in DOMAIN @ \cup {s} |-> IF t = s THEN n ELSE @[t]]]
  BY DEF ReadCount
<1> DEFINE r == login[l]
           f == [t \in DOMAIN r.read \cup {s} |-> IF t = s THEN n ELSE r.read[t]]
           w == Entry("read", r.account, f, r.server, r.stored, r.moved, r.reset, r.counted, r.fault)
<1>3. r \in LoginRecord /\ LoginHolds(r) /\ ReadsHold(r) /\ ServesHold(r) /\ r.pc = "read"
  BY DEF LoginInv, LoginTypes, ReadCount, At
<1>4. login' = [login EXCEPT ![l] = [login[l] EXCEPT !.read = f]]
  BY <1>2 DEF LoginInv, LoginTypes
<1>5. login' = [login EXCEPT ![l] = w]
  <2>1. [r EXCEPT !.read = f]
          = Entry(r.pc, r.account, f, r.server, r.stored, r.moved, r.reset, r.counted, r.fault)
    BY <1>3, RecordsInPlace
  <2> QED
    BY <1>3, <1>4, <2>1
<1>6. n \in 0..NoCount
  BY <1>1 DEF LoginInv, LoginTypes
<1>7. f \in Readings
  <2>1. PICK S \in SUBSET ChatServers : r.read \in [S -> 0..NoCount]
    BY <1>3 DEF LoginRecord, Readings
  <2>2. f \in [S \cup {s} -> 0..NoCount]
    BY <2>1, <1>6
  <2>3. S \cup {s} \in SUBSET ChatServers
    OBVIOUS
  <2> QED
    BY <2>2, <2>3 DEF Readings
<1>8. w \in LoginRecord
  BY <1>3, <1>7 DEF LoginRecord, Entry
<1>9. LoginHolds(w) /\ ServesHold(w) /\ ~ w.counted /\ w.stored = r.stored /\ w.account = r.account
  BY <1>3 DEF LoginHolds, ServesHold, Entry
<1>10. ReadsHold(w)
  <2> SUFFICES ASSUME NEW t \in (DOMAIN r.read \cup {s}) \ r.reset, f[t] # NoCount
               PROVE  loginCount[t] # NoCount /\ f[t] <= loginCount[t] /\ loginCount[t] <= f[t] + r.moved
    BY DEF ReadsHold, Entry
  <2>1. CASE t = s
    BY <2>1, <1>3 DEF LoginInv, LoginTypes, LoginRecord
  <2>2. CASE t # s
    BY <2>2, <1>3 DEF ReadsHold
  <2> QED
    BY <2>1, <2>2
<1>11. UNCHANGED <<tokens, loginCount, serving>> /\ selecting' \in Logins \cup {NoToken}
  BY DEF ReadCount, LoginInv, LoginTypes
<1> QED
  BY <1>3, <1>5, <1>8, <1>9, <1>10, <1>11, LoginMoves

LEMMA SelectServerLogs ==
    ASSUME LoginInv, NEW l \in Logins, SelectServer(l)
    PROVE  LoginInv'
<1>1. PICK s \in ChatServers : login' = [login EXCEPT ![l].pc = "store", ![l].server = s]
  BY DEF SelectServer, LeastRead
<1> DEFINE r == login[l]
           w == Entry("store", r.account, r.read, s, r.stored, r.moved, r.reset, r.counted, r.fault)
<1>2. r \in LoginRecord /\ LoginHolds(r) /\ r.pc = "read"
  BY DEF LoginInv, LoginTypes, SelectServer, At
<1>3. login' = [login EXCEPT ![l] = [login[l] EXCEPT !.pc = "store", !.server = s]]
  BY <1>1 DEF LoginInv, LoginTypes
<1>4. login' = [login EXCEPT ![l] = w]
  <2>1. [r EXCEPT !.pc = "store", !.server = s] = w
    BY <1>2, LoginRecords
  <2> QED
    BY <1>3, <2>1
<1>5. w \in LoginRecord
  BY <1>2 DEF LoginRecord, Entry, LoginPlaces
<1>6. /\ LoginHolds(w) /\ ReadsHold(w) /\ ServesHold(w)
      /\ ~ w.counted /\ w.stored = r.stored /\ w.account = r.account
  BY <1>2 DEF LoginHolds, ReadsHold, ServesHold, Entry
<1>7. UNCHANGED <<tokens, loginCount, serving>> /\ selecting' \in Logins \cup {NoToken}
  BY DEF SelectServer
<1> QED
  BY <1>2, <1>4, <1>5, <1>6, <1>7, LoginMoves

LEMMA FaultWritten ==
    ASSUME NEW r \in LoginRecord, NEW p, NEW b \in BOOLEAN
    PROVE  [r EXCEPT !.pc = p, !.fault = b]
             = Entry(p, r.account, r.read, r.server, r.stored, r.moved, r.reset, r.counted, b)
<1> DEFINE q == [r EXCEPT !.pc = p]
<1>1. q = Entry(p, r.account, r.read, r.server, r.stored, r.moved, r.reset, r.counted, r.fault)
  BY LoginRecords
<1> HIDE DEF q
<1>2. \A c \in BOOLEAN : [q EXCEPT !.fault = c]
               = Entry(p, r.account, r.read, r.server, r.stored, r.moved, r.reset, r.counted, c)
  BY <1>1 DEF Entry
<1>3. [q EXCEPT !.fault = b] = Entry(p, r.account, r.read, r.server, r.stored, r.moved, r.reset, r.counted, b)
  BY <1>2
<1> QED
  BY <1>3 DEF q

\* Connecting, the check of the token, and a login that could not be counted.
GoesOn(l, p, b) == login' = [login EXCEPT ![l] = [login[l] EXCEPT !.pc = p, !.fault = b]]

LEMMA LoginGoesOn ==
    ASSUME LoginInv, NEW l \in Logins, NEW p \in LoginPlaces, NEW b \in BOOLEAN, GoesOn(l, p, b),
           UNCHANGED <<tokens, loginCount, selecting, serving>>,
           \/ login[l].pc = "told" /\ p = "queued" /\ serving[login[l].server] # "down"
           \/ login[l].pc = "queued" /\ p \in {"count", "uidInvalid", "tokenInvalid"}
           \/ login[l].pc = "count" /\ p = "open" /\ b
    PROVE  LoginInv'
<1> DEFINE r == login[l]
           w == Entry(p, r.account, r.read, r.server, r.stored, r.moved, r.reset, r.counted, b)
<1>1. r \in LoginRecord /\ LoginHolds(r) /\ ServesHold(r)
  BY DEF LoginInv, LoginTypes
<1>2. login' = [login EXCEPT ![l] = w]
  <2>1. [r EXCEPT !.pc = p, !.fault = b] = w
    BY <1>1, FaultWritten
  <2> QED
    BY <2>1 DEF GoesOn
<1>3. w \in LoginRecord
  BY <1>1 DEF LoginRecord, Entry
<1>4. r.pc \in {"told", "queued", "count"} /\ p \in {"queued", "count", "uidInvalid", "tokenInvalid", "open"}
  OBVIOUS
<1>5. LoginHolds(w) /\ ReadsHold(w) /\ ~ w.counted /\ w.stored = r.stored /\ w.account = r.account
  BY <1>1, <1>4 DEF LoginHolds, ReadsHold, Entry
<1>6. ServesHold(w)
  <2>1. ~ r.counted
    BY <1>1, <1>4 DEF LoginHolds
  <2> QED
    BY <1>1, <2>1 DEF ServesHold, Entry
<1> QED
  BY <1>1, <1>2, <1>3, <1>4, <1>5, <1>6, LoginMoves DEF LoginInv, LoginTypes

\* A step that leaves fault alone writes what is there.
LEMMA SamePlace ==
    ASSUME NEW r \in LoginRecord, NEW p
    PROVE  [r EXCEPT !.pc = p] = [r EXCEPT !.pc = p, !.fault = r.fault]
BY LoginRecords

LEMMA ConnectLogs ==
    ASSUME LoginInv, NEW l \in Logins, Connect(l)
    PROVE  LoginInv'
<1>1. login[l] \in LoginRecord /\ login[l].fault \in BOOLEAN
  BY DEF LoginInv, LoginTypes, LoginRecord
<1>2. login' = [login EXCEPT ![l] = [login[l] EXCEPT !.pc = "queued"]]
  BY DEF Connect, LoginInv, LoginTypes
<1>3. login' = [login EXCEPT ![l] = [login[l] EXCEPT !.pc = "queued", !.fault = login[l].fault]]
  BY <1>1, <1>2, SamePlace
<1> QED
  BY <1>1, <1>3, LoginGoesOn DEF GoesOn, Connect, At, LoginPlaces

LEMMA CheckTokenLogs ==
    ASSUME LoginInv, NEW l \in Logins, CheckToken(l)
    PROVE  LoginInv'
<1>1. login[l] \in LoginRecord /\ login[l].fault \in BOOLEAN
  BY DEF LoginInv, LoginTypes, LoginRecord
<1>2. PICK p \in {"count", "uidInvalid", "tokenInvalid"}, b \in BOOLEAN :
        login' = [login EXCEPT ![l] = [login[l] EXCEPT !.pc = p, !.fault = b]]
  <2>1. \/ \E p \in {"count", "uidInvalid", "tokenInvalid"} :
             login' = [login EXCEPT ![l] = [login[l] EXCEPT !.pc = p]]
        \/ login' = [login EXCEPT ![l] = [login[l] EXCEPT !.pc = "uidInvalid", !.fault = TRUE]]
    BY DEF CheckToken, LoginInv, LoginTypes
  <2>2. ASSUME NEW p \in {"count", "uidInvalid", "tokenInvalid"},
               login' = [login EXCEPT ![l] = [login[l] EXCEPT !.pc = p]]
        PROVE  login' = [login EXCEPT ![l] = [login[l] EXCEPT !.pc = p, !.fault = login[l].fault]]
    BY <1>1, <2>2, SamePlace
  <2> QED
    BY <1>1, <2>1, <2>2
<1> QED
  BY <1>2, LoginGoesOn DEF GoesOn, CheckToken, At, LoginPlaces

\* What a step of all logins leaves of one: the token and the place where it was stored.
LEMMA TokensStay ==
    ASSUME LoginInv, UNCHANGED tokens,
           \A k \in Logins : login'[k].stored = login[k].stored /\ login'[k].account = login[k].account
    PROVE  TokensHold'
BY DEF LoginInv, TokensHold, Replaced

\* The token of an earlier login of the account is replaced; the new one is there.
LEMMA StoreTokenLogs ==
    ASSUME LoginInv, NEW l \in Logins, StoreToken(l)
    PROVE  LoginInv'
<1>1. PICK ok \in BOOLEAN, answer \in {"told", "refused"} :
        /\ IF ok THEN SetToken(login[l].account, l) ELSE UNCHANGED tokens
        /\ login' = [login EXCEPT ![l].pc = answer, ![l].read = <<>>, ![l].moved = 0, ![l].reset = {},
                                  ![l].stored = IF ok THEN {k \in Logins : k \in login[k].stored} \cup {l} ELSE {}]
  BY DEF StoreToken
<1> DEFINE r == login[l]
           t == IF ok THEN {k \in Logins : k \in login[k].stored} \cup {l} ELSE {}
           w == Entry(answer, r.account, <<>>, r.server, t, 0, {}, r.counted, r.fault)
<1>2. r \in LoginRecord /\ LoginHolds(r) /\ ServesHold(r) /\ r.pc = "store"
  BY DEF LoginInv, LoginTypes, StoreToken, At
<1>3. login' = [login EXCEPT ![l] = w]
  <2>1. login' = [login EXCEPT ![l] = [login[l] EXCEPT !.pc = answer, !.read = <<>>, !.moved = 0, !.reset = {},
                                                       !.stored = t]]
    BY <1>1 DEF LoginInv, LoginTypes
  <2>2. \A z : [r EXCEPT !.pc = answer, !.read = <<>>, !.moved = 0, !.reset = {}, !.stored = z]
                = Entry(answer, r.account, <<>>, r.server, z, 0, {}, r.counted, r.fault)
    <3>1. \A f, m, x, z : [r EXCEPT !.pc = answer, !.read = f, !.moved = m, !.reset = x, !.stored = z]
                = Entry(answer, r.account, f, r.server, z, m, x, r.counted, r.fault)
      BY <1>2, LoginRecords
    <3> QED
      BY <3>1
  <2> QED
    BY <2>1, <2>2
<1>4. w \in LoginRecord
  <2>1. t \in SUBSET Logins
    OBVIOUS
  <2> HIDE DEF t
  <2> QED
    BY <1>2, <2>1, NoReading DEF LoginRecord, Entry, LoginPlaces
<1>5. login' \in [Logins -> LoginRecord] /\ login'[l] = w /\ \A k \in Logins : k # l => login'[k] = login[k]
  BY <1>3, <1>4 DEF LoginInv, LoginTypes
<1>6. /\ w.pc = answer /\ w.account = r.account /\ w.server = r.server /\ w.stored = t
      /\ w.counted = r.counted /\ ~ r.counted
  BY <1>2 DEF Entry, LoginHolds
<1>7. r.account \in Accounts /\ r.stored = {}
  BY <1>2 DEF LoginHolds
<1>8. tokens' = IF ok THEN [tokens EXCEPT ![r.account] = l] ELSE tokens
  BY <1>1 DEF SetToken
<1> HIDE DEF w, t
<1>9. LoginTypes'
  <2>1. tokens' \in [Accounts -> Logins \cup {NoToken}] /\ UNCHANGED <<loginCount, selecting, serving>>
    BY <1>8 DEF LoginInv, LoginTypes, StoreToken
  <2> QED
    BY <1>5, <2>1 DEF LoginInv, LoginTypes
<1>10. \A k \in Logins : LoginHolds(login'[k]) /\ ReadsHold(login[k])' /\ ServesHold(login[k])'
  <2>1. LoginHolds(w) /\ ServesHold(w) /\ w.pc # "read"
    BY <1>2, <1>6 DEF LoginHolds, ServesHold
  <2>2. UNCHANGED <<loginCount, serving>>
    BY DEF StoreToken
  <2>3. \A k \in Logins : k # l => LoginHolds(login'[k]) /\ ReadsHold(login[k])' /\ ServesHold(login[k])'
    BY <1>5, <2>2 DEF LoginInv, ReadsHold, ServesHold
  <2>4. LoginHolds(login'[l]) /\ ReadsHold(login[l])' /\ ServesHold(login[l])'
    BY <1>5, <2>1, <2>2 DEF ReadsHold, ServesHold
  <2> QED
    BY <2>3, <2>4
<1>11. TokensHold'
  <2> SUFFICES ASSUME NEW g \in Logins, g \in login'[g].stored
               PROVE  tokens'[login'[g].account] = g \/ Replaced(g)'
    BY DEF TokensHold
  <2>1. CASE g = l
    <3>1. ok
      BY <1>5, <1>6, <2>1 DEF t
    <3> QED
      BY <1>5, <1>6, <1>7, <1>8, <2>1, <3>1 DEF LoginInv, LoginTypes
  <2>2. CASE g # l
    <3>1. login'[g] = login[g] /\ g \in login[g].stored
      BY <1>5, <2>2
    <3>2. login[g].account \in Accounts
      BY <3>1 DEF LoginInv, LoginHolds
    <3>3. CASE ok /\ login[g].account = r.account
      BY <1>5, <1>6, <2>2, <3>1, <3>3 DEF Replaced, t
    <3>4. CASE ~ (ok /\ login[g].account = r.account)
      <4>1. tokens'[login[g].account] = tokens[login[g].account]
        BY <1>7, <1>8, <3>2, <3>4 DEF LoginInv, LoginTypes
      <4>2. Replaced(g) => Replaced(g)'
        BY <1>5, <1>7, <2>2, <3>1 DEF Replaced
      <4> QED
        BY <3>1, <4>1, <4>2 DEF LoginInv, TokensHold
    <3> QED
      BY <3>3, <3>4
  <2> QED
    BY <2>1, <2>2
<1>12. CountsHold'
  <2>1. \A s \in ChatServers : Counted(s)' = Counted(s)
    BY <1>5, <1>6 DEF Counted
  <2> QED
    BY <2>1 DEF CountsHold, LoginInv, StoreToken
<1> QED
  BY <1>9, <1>10, <1>11, <1>12 DEF LoginInv

\* A login that could be counted.
IsCounted(l) ==
    login' = [k \in Logins |-> IF k = l THEN [login[k] EXCEPT !.pc = "open", !.counted = TRUE]
                               ELSE IF At(k, "read") THEN [login[k] EXCEPT !.moved = login[k].moved + 1]
                               ELSE login[k]]

\* The count and the logins in it grow together.
LEMMA CountedLogs ==
    ASSUME LoginInv, NEW l \in Logins, At(l, "count"), UNCHANGED <<tokens, selecting, serving>>,
           NEW v \in ChatServers, v = login[l].server,
           loginCount' = [loginCount EXCEPT ![v] = Incremented(v)], IsCounted(l)
    PROVE  LoginInv'
<1>1. /\ login[l] \in LoginRecord /\ LoginHolds(login[l]) /\ ServesHold(login[l]) /\ login[l].pc = "count"
      /\ ~ login[l].counted
  BY DEF LoginInv, LoginTypes, LoginHolds, At
<1>3. ASSUME NEW k \in Logins
      PROVE  /\ login'[k] \in LoginRecord
             /\ login'[k].pc = IF k = l THEN "open" ELSE login[k].pc
             /\ login'[k].account = login[k].account /\ login'[k].read = login[k].read
             /\ login'[k].server = login[k].server /\ login'[k].stored = login[k].stored
             /\ login'[k].reset = login[k].reset
             /\ login'[k].moved = IF k # l /\ login[k].pc = "read" THEN login[k].moved + 1 ELSE login[k].moved
             /\ k = l => login'[k].counted
             /\ k # l => login'[k].counted = login[k].counted /\ login'[k].fault = login[k].fault
  <2> DEFINE r == login[k]
  <2>1. r \in LoginRecord
    BY DEF LoginInv, LoginTypes
  <2>2. CASE k = l
    <3>1. login'[k] = [r EXCEPT !.pc = "open", !.counted = TRUE]
      BY <2>2 DEF IsCounted
    <3>2. login'[k] = Entry("open", r.account, r.read, r.server, r.stored, r.moved, r.reset, TRUE, r.fault)
      <4> DEFINE q == [r EXCEPT !.pc = "open"]
      <4>1. q = Entry("open", r.account, r.read, r.server, r.stored, r.moved, r.reset, r.counted, r.fault)
        BY <2>1, LoginRecords
      <4> HIDE DEF q
      <4>2. \A c \in BOOLEAN : [q EXCEPT !.counted = c]
              = Entry("open", r.account, r.read, r.server, r.stored, r.moved, r.reset, c, r.fault)
        BY <4>1 DEF Entry
      <4>3. [q EXCEPT !.counted = TRUE]
              = Entry("open", r.account, r.read, r.server, r.stored, r.moved, r.reset, TRUE, r.fault)
        BY <4>2
      <4> QED
        BY <3>1, <4>3 DEF q
    <3> QED
      BY <2>1, <2>2, <3>2 DEF Entry, LoginRecord, LoginPlaces
  <2>3. CASE k # l /\ At(k, "read")
    <3>1. login'[k] = [r EXCEPT !.moved = r.moved + 1]
      BY <2>3 DEF IsCounted
    <3>2. login'[k] = Entry(r.pc, r.account, r.read, r.server, r.stored, r.moved + 1, r.reset, r.counted, r.fault)
      BY <2>1, <3>1, RecordsInPlace
    <3> QED
      BY <2>1, <2>3, <3>2 DEF Entry, LoginRecord, At
  <2>4. CASE k # l /\ ~ At(k, "read")
    <3>1. login'[k] = r
      BY <2>4 DEF IsCounted
    <3> QED
      BY <2>1, <2>4, <3>1 DEF At
  <2> QED
    BY <2>2, <2>3, <2>4
<1>4. ASSUME NEW s \in ChatServers
      PROVE  /\ s # v => Counted(s)' = Counted(s)
             /\ Counted(v)' = Counted(v) \cup {l}
             /\ Cardinality(Counted(v)') = Incremented(v)
             /\ Cardinality(Counted(v)') \in 1..(NoCount - 1)
  <2>1. s # v => Counted(s)' = Counted(s)
    BY <1>1, <1>3 DEF Counted
  <2>2. Counted(v)' = Counted(v) \cup {l} /\ l \notin Counted(v)
    BY <1>1, <1>3 DEF Counted
  <2>3. Counted(v) \subseteq Logins /\ Counted(v)' \subseteq Logins
    BY <2>2 DEF Counted
  <2>4. Cardinality(Counted(v)') = Cardinality(Counted(v)) + 1
    BY <2>2, <2>3, CountsAreFewer, FS_AddElement
  <2>5. Cardinality(Counted(v)') = Incremented(v)
    <3>1. IF loginCount[v] = NoCount THEN Counted(v) = {} ELSE loginCount[v] = Cardinality(Counted(v))
      BY DEF LoginInv, CountsHold
    <3>2. Cardinality({}) = 0
      BY FS_EmptySet
    <3> QED
      BY <2>4, <3>1, <3>2 DEF Incremented
  <2> QED
    BY <2>1, <2>2, <2>3, <2>4, <2>5, CountsAreFewer
<1>5. /\ loginCount \in [ChatServers -> 0..NoCount] /\ loginCount' \in [ChatServers -> 0..NoCount]
      /\ loginCount'[v] = Incremented(v) /\ Incremented(v) # NoCount
      /\ \A s \in ChatServers : s # v => loginCount'[s] = loginCount[s]
  <2>1. Incremented(v) \in 0..NoCount /\ Incremented(v) # NoCount
    <3>1. PICK n \in 1..(NoCount - 1) : n = Incremented(v)
      BY <1>1, <1>4
    <3> QED
      BY <3>1, CountsAreFewer
  <2> QED
    BY <1>1, <2>1 DEF LoginInv, LoginTypes
<1>6. LoginTypes'
  <2>1. login' \in [Logins -> LoginRecord]
    BY <1>3 DEF IsCounted
  <2> QED
    BY <1>5, <2>1 DEF LoginInv, LoginTypes
<1>7. ASSUME NEW k \in Logins
      PROVE  LoginHolds(login'[k]) /\ ReadsHold(login[k])' /\ ServesHold(login[k])'
  <2>1. LoginHolds(login'[k])
    BY <1>1, <1>3 DEF LoginInv, LoginHolds
  <2>2. ReadsHold(login[k])'
    <3> SUFFICES ASSUME login'[k].pc = "read", NEW t \in DOMAIN login[k].read \ login[k].reset,
                        login[k].read[t] # NoCount
                 PROVE  /\ loginCount'[t] # NoCount /\ login[k].read[t] <= loginCount'[t]
                        /\ loginCount'[t] <= login[k].read[t] + login'[k].moved
      BY <1>3 DEF ReadsHold
    <3>1. k # l /\ login[k].pc = "read" /\ login'[k].moved = login[k].moved + 1
      BY <1>3
    <3>2. login[k] \in LoginRecord /\ login[k].moved \in Nat
      BY DEF LoginInv, LoginTypes, LoginRecord
    <3>3. login[k].read[t] \in 0..NoCount /\ t \in ChatServers
      BY <3>2 DEF LoginRecord, Readings
    <3>4. /\ loginCount[t] # NoCount
          /\ login[k].read[t] <= loginCount[t] /\ loginCount[t] <= login[k].read[t] + login[k].moved
      BY <3>1 DEF LoginInv, ReadsHold
    <3>5. loginCount[t] \in Nat /\ loginCount'[t] \in {loginCount[t], loginCount[t] + 1}
      BY <1>5, <3>3, <3>4 DEF Incremented
    <3>6. loginCount'[t] # NoCount
      BY <1>5, <3>3, <3>4
    <3> QED
      BY <3>1, <3>2, <3>3, <3>4, <3>5, <3>6, CountsAreFewer
  <2>3. ServesHold(login[k])'
    <3>1. ServesHold(login[k]) /\ UNCHANGED serving
      BY DEF LoginInv
    <3> QED
      BY <1>1, <1>3, <3>1 DEF ServesHold
  <2> QED
    BY <2>1, <2>2, <2>3
<1>8. TokensHold'
  BY <1>3, TokensStay
<1>9. CountsHold'
  BY <1>1, <1>4, <1>5 DEF LoginInv, CountsHold
<1> QED
  BY <1>6, <1>7, <1>8, <1>9 DEF LoginInv

LEMMA CountLoginLogs ==
    ASSUME LoginInv, NEW l \in Logins, CountLogin(l)
    PROVE  LoginInv'
<1>1. UNCHANGED <<tokens, selecting, serving>> /\ At(l, "count") /\ login[l].pc = "count"
  BY DEF CountLogin, At
<1>2. PICK v \in ChatServers : v = login[l].server
  BY <1>1 DEF LoginInv, LoginHolds
<1>3. CASE loginCount' = [loginCount EXCEPT ![v] = Incremented(v)] /\ IsCounted(l)
  BY <1>1, <1>2, <1>3, CountedLogs
<1>4. CASE login' = [login EXCEPT ![l].pc = "open", ![l].fault = TRUE] /\ UNCHANGED loginCount
  <2>1. login' = [login EXCEPT ![l] = [login[l] EXCEPT !.pc = "open", !.fault = TRUE]]
    BY <1>4 DEF LoginInv, LoginTypes
  <2> QED
    BY <1>1, <1>4, <2>1, LoginGoesOn DEF GoesOn, LoginPlaces
<1> QED
  BY <1>2, <1>3, <1>4 DEF CountLogin, IsCounted

Servings == {"down", "up", "unset", "leaving"}

\* A login when the count of v is reset or deleted.
Discounted(k, v) ==
    /\ login'[k] \in LoginRecord
    /\ login'[k].pc = login[k].pc
    /\ login'[k].account = login[k].account /\ login'[k].read = login[k].read
    /\ login'[k].server = login[k].server /\ login'[k].stored = login[k].stored
    /\ login'[k].moved = login[k].moved /\ login'[k].fault = login[k].fault
    /\ login'[k].reset = IF login[k].pc = "read" THEN login[k].reset \cup {v} ELSE login[k].reset
    /\ login'[k].counted <=> login[k].counted /\ login[k].server # v

LEMMA SetCountLeaves ==
    ASSUME LoginInv, NEW v \in ChatServers, NEW n, SetCount(v, n), NEW k \in Logins
    PROVE  Discounted(k, v)
<1>1. Discounted(k, v)
  <2> DEFINE r == login[k]
  <2>1. r \in LoginRecord
    BY DEF LoginInv, LoginTypes
  <2>2. PICK c \in BOOLEAN, x \in SUBSET ChatServers :
           /\ c <=> r.counted /\ r.server # v
           /\ x = IF r.pc = "read" THEN r.reset \cup {v} ELSE r.reset
           /\ login'[k] = [r EXCEPT !.counted = c, !.reset = x]
    <3> DEFINE c == r.counted /\ r.server # v
               x == IF r.pc = "read" THEN r.reset \cup {v} ELSE r.reset
    <3>1. login'[k] = [r EXCEPT !.counted = c, !.reset = x]
      BY DEF SetCount, At
    <3>2. c \in BOOLEAN
      OBVIOUS
    <3>3. x \in SUBSET ChatServers
      BY <2>1 DEF LoginRecord
    <3> QED
      BY <3>1, <3>2, <3>3
  <2>3. login'[k] = Entry(r.pc, r.account, r.read, r.server, r.stored, r.moved, x, c, r.fault)
    BY <2>1, <2>2, CountedWritten
  <2> QED
    BY <2>1, <2>2, <2>3 DEF Entry, LoginRecord, Discounted
<1> QED
  BY <1>1

\* A count is reset or deleted, and with it who was in it.
LEMMA SetCountLogs ==
    ASSUME LoginInv, NEW v \in ChatServers, NEW n \in {0, NoCount}, SetCount(v, n),
           NEW z \in {"up", "leaving"}, z = "up" => serving[v] = "down", serving' = [serving EXCEPT ![v] = z],
           UNCHANGED <<tokens, selecting>>
    PROVE  LoginInv'
<1>1. ASSUME NEW k \in Logins PROVE Discounted(k, v)
  BY SetCountLeaves
<1> USE DEF Discounted
<1>2. /\ loginCount \in [ChatServers -> 0..NoCount] /\ loginCount' = [loginCount EXCEPT ![v] = n]
      /\ loginCount' \in [ChatServers -> 0..NoCount]
  <2>1. n \in 0..NoCount
    BY CountsAreFewer
  <2> QED
    BY <2>1 DEF LoginInv, LoginTypes, SetCount
<1>3. /\ serving \in [ChatServers -> Servings] /\ serving' \in [ChatServers -> Servings]
      /\ serving'[v] = z /\ \A s \in ChatServers : s # v => serving'[s] = serving[s]
  BY DEF LoginInv, LoginTypes, Servings
<1>4. LoginTypes'
  <2>1. login' \in [Logins -> LoginRecord]
    BY <1>1 DEF SetCount
  <2> QED
    BY <1>2, <1>3, <2>1 DEF LoginInv, LoginTypes, Servings
<1>5. ASSUME NEW k \in Logins
      PROVE  LoginHolds(login'[k]) /\ ReadsHold(login[k])' /\ ServesHold(login[k])'
  <2>1. LoginHolds(login[k]) /\ ReadsHold(login[k]) /\ ServesHold(login[k]) /\ login[k] \in LoginRecord
    BY DEF LoginInv, LoginTypes
  <2>2. LoginHolds(login'[k])
    BY <1>1, <2>1 DEF LoginHolds
  <2>3. ReadsHold(login[k])'
    <3> SUFFICES ASSUME login[k].pc = "read", NEW t \in DOMAIN login[k].read \ login'[k].reset
                 PROVE  \/ login[k].read[t] = NoCount
                        \/ /\ loginCount'[t] # NoCount /\ login[k].read[t] <= loginCount'[t]
                           /\ loginCount'[t] <= login[k].read[t] + login[k].moved
      BY <1>1 DEF ReadsHold
    <3>1. t # v /\ t \notin login[k].reset
      BY <1>1
    <3>2. t \in ChatServers
      BY <2>1 DEF LoginRecord, Readings
    <3>3. loginCount'[t] = loginCount[t]
      BY <1>2, <3>1, <3>2
    <3> QED
      BY <2>1, <3>1, <3>3 DEF ReadsHold
  <2>4. ServesHold(login[k])'
    <3>1. CASE login[k].server = v
      BY <1>1, <1>3, <2>1, <3>1 DEF ServesHold
    <3>2. CASE login[k].server # v
      <4>1. login[k].server \in ChatServers => serving'[login[k].server] = serving[login[k].server]
        BY <1>3, <3>2
      <4>2. login[k].pc \in {"queued", "count", "open"} => login[k].server \in ChatServers
        BY <2>1 DEF LoginHolds
      <4>3. /\ login'[k].pc = login[k].pc /\ login'[k].server = login[k].server
            /\ login'[k].fault = login[k].fault /\ (login'[k].counted <=> login[k].counted)
        BY <1>1, <3>2
      <4> QED
        BY <2>1, <4>1, <4>2, <4>3 DEF ServesHold
    <3> QED
      BY <3>1, <3>2
  <2> QED
    BY <2>2, <2>3, <2>4
<1>6. TokensHold'
  BY <1>1, TokensStay
<1>7. CountsHold'
  <2>1. Counted(v)' = {}
    BY <1>1 DEF Counted
  <2>2. \A s \in ChatServers : s # v => Counted(s)' = Counted(s)
    BY <1>1 DEF Counted
  <2>3. loginCount'[v] = n /\ \A s \in ChatServers : s # v => loginCount'[s] = loginCount[s]
    BY <1>2
  <2>4. IF loginCount'[v] = NoCount THEN Counted(v)' = {} ELSE loginCount'[v] = Cardinality(Counted(v)')
    BY <2>1, <2>3, FS_EmptySet
  <2> QED
    BY <2>2, <2>3, <2>4 DEF LoginInv, CountsHold
<1> QED
  BY <1>4, <1>5, <1>6, <1>7 DEF LoginInv

\* A reset or a deletion that failed.
LEMMA NotSetLogs ==
    ASSUME LoginInv, NEW v \in ChatServers, NEW z \in {"unset", "leaving"}, serving' = [serving EXCEPT ![v] = z],
           UNCHANGED <<login, loginCount, tokens, selecting>>
    PROVE  LoginInv'
<1>1. /\ serving' \in [ChatServers -> Servings]
      /\ serving'[v] = z /\ \A s \in ChatServers : s # v => serving'[s] = serving[s]
  BY DEF LoginInv, LoginTypes, Servings
<1>2. LoginTypes'
  BY <1>1 DEF LoginInv, LoginTypes, Servings
<1>3. ASSUME NEW k \in Logins PROVE ServesHold(login[k])'
  <2>1. ServesHold(login[k]) /\ LoginHolds(login[k])
    BY DEF LoginInv
  <2> QED
    BY <1>1, <2>1 DEF ServesHold, LoginHolds
<1>4. (\A k \in Logins : LoginHolds(login[k]) /\ ReadsHold(login[k]))'
  BY DEF LoginInv, LoginHolds, ReadsHold
<1>5. TokensHold' /\ CountsHold'
  BY DEF LoginInv, TokensHold, Replaced, CountsHold, Counted
<1> QED
  BY <1>2, <1>3, <1>4, <1>5 DEF LoginInv

LEMMA StartLogs ==
    ASSUME LoginInv, NEW s \in ChatServers, Start(s)
    PROVE  LoginInv'
BY SetCountLogs, NotSetLogs DEF Start

LEMMA StopLogs ==
    ASSUME LoginInv, NEW s \in ChatServers, Stop(s)
    PROVE  LoginInv'
BY SetCountLogs, NotSetLogs DEF Stop

\* The sessions of a process end with it; what it has stored stays.
LEMMA DieLogs ==
    ASSUME LoginInv, NEW v \in ChatServers, Die(v)
    PROVE  LoginInv'
<1>1. ASSUME NEW k \in Logins
      PROVE  /\ login'[k] \in LoginRecord
             /\ login'[k].pc = IF login[k].server = v /\ login[k].pc \in {"queued", "count", "open"}
                               THEN "ended" ELSE login[k].pc
             /\ login'[k].account = login[k].account /\ login'[k].read = login[k].read
             /\ login'[k].server = login[k].server /\ login'[k].stored = login[k].stored
             /\ login'[k].moved = login[k].moved /\ login'[k].fault = login[k].fault
             /\ login'[k].reset = login[k].reset /\ login'[k].counted = login[k].counted
  <2> DEFINE r == login[k]
  <2>1. r \in LoginRecord
    BY DEF LoginInv, LoginTypes
  <2>2. CASE r.server = v /\ r.pc \in {"queued", "count", "open"}
    <3>1. login'[k] = [r EXCEPT !.pc = "ended"]
      BY <2>2 DEF Die
    <3>2. login'[k] = Entry("ended", r.account, r.read, r.server, r.stored, r.moved, r.reset, r.counted, r.fault)
      BY <2>1, <3>1, LoginRecords
    <3> QED
      BY <2>1, <2>2, <3>2 DEF Entry, LoginRecord, LoginPlaces
  <2>3. CASE ~ (r.server = v /\ r.pc \in {"queued", "count", "open"})
    <3>1. login'[k] = r
      BY <2>3 DEF Die
    <3> QED
      BY <2>1, <2>3, <3>1
  <2> QED
    BY <2>2, <2>3
<1>2. /\ serving' \in [ChatServers -> Servings]
      /\ serving'[v] = "down" /\ \A s \in ChatServers : s # v => serving'[s] = serving[s]
      /\ UNCHANGED <<tokens, loginCount, selecting>>
  BY DEF LoginInv, LoginTypes, Servings, Die
<1>3. LoginTypes'
  <2>1. login' \in [Logins -> LoginRecord]
    BY <1>1 DEF Die
  <2> QED
    BY <1>2, <2>1 DEF LoginInv, LoginTypes, Servings
<1>4. ASSUME NEW k \in Logins
      PROVE  LoginHolds(login'[k]) /\ ReadsHold(login[k])' /\ ServesHold(login[k])'
  <2>1. LoginHolds(login[k]) /\ ReadsHold(login[k]) /\ ServesHold(login[k]) /\ login[k] \in LoginRecord
    BY DEF LoginInv, LoginTypes
  <2>2. LoginHolds(login'[k])
    BY <1>1, <2>1 DEF LoginHolds
  <2>3. ReadsHold(login[k])'
    BY <1>1, <1>2, <2>1 DEF ReadsHold
  <2>4. ServesHold(login[k])'
    <3>1. CASE login[k].server = v
      BY <1>1, <1>2, <3>1 DEF ServesHold
    <3>2. CASE login[k].server # v
      <4>1. login[k].server \in ChatServers => serving'[login[k].server] = serving[login[k].server]
        BY <1>2, <3>2
      <4>2. login[k].pc \in {"queued", "count", "open"} => login[k].server \in ChatServers
        BY <2>1 DEF LoginHolds
      <4>3. /\ login'[k].pc = login[k].pc /\ login'[k].server = login[k].server
            /\ login'[k].fault = login[k].fault /\ login'[k].counted = login[k].counted
        BY <1>1, <3>2
      <4> QED
        BY <2>1, <4>1, <4>2, <4>3 DEF ServesHold
    <3> QED
      BY <3>1, <3>2
  <2> QED
    BY <2>2, <2>3, <2>4
<1>5. TokensHold'
  BY <1>1, <1>2, TokensStay
<1>6. CountsHold'
  <2>1. \A s \in ChatServers : Counted(s)' = Counted(s)
    BY <1>1 DEF Counted
  <2> QED
    BY <1>2, <2>1 DEF CountsHold, LoginInv
<1> QED
  BY <1>3, <1>4, <1>5, <1>6 DEF LoginInv

LEMMA NextLoginInv == LoginInv /\ [LgNext]_lgVars => LoginInv'
<1> SUFFICES ASSUME LoginInv, [LgNext]_lgVars PROVE LoginInv'
  OBVIOUS
<1>1. CASE LgNext
  BY <1>1, CheckPasswordLogs, EnterSelectLogs, ReadCountLogs, SelectServerLogs, StoreTokenLogs,
     ConnectLogs, CheckTokenLogs, CountLoginLogs, StartLogs, StopLogs, DieLogs DEF LgNext
<1>2. CASE UNCHANGED lgVars
  BY <1>2 DEF lgVars, LoginInv, LoginTypes, LoginHolds, ReadsHold, ServesHold, TokensHold, Replaced,
              CountsHold, Counted
<1> QED
  BY <1>1, <1>2

\* Every state of logging in satisfies LoginInv.
THEOREM LoginsInvariant == LgSpec => []LoginInv
BY InitLoginInv, NextLoginInv, PTL DEF LgSpec

\* The count of a chat server is of the logins that were counted since it was last reset or
\* deleted, and while a server runs that could reset it, of those this process accepted.
THEOREM LoginsTyped == LgSpec => [](LgTypeOK /\ CountsItsOwnLogins)
<1>1. LoginInv => LgTypeOK /\ CountsItsOwnLogins
  <2> SUFFICES ASSUME LoginInv PROVE LgTypeOK /\ CountsItsOwnLogins
    OBVIOUS
  <2>1. LgTypeOK
    BY DEF LoginInv, LoginTypes, CountsHold, LgTypeOK
  <2>2. CountsItsOwnLogins
    BY DEF LoginInv, ServesHold, CountsItsOwnLogins, At
  <2> QED
    BY <2>1, <2>2
<1> QED
  BY <1>1, LoginsInvariant, PTL

\* A token is refused only if it could not be stored, or a later login of the account
\* stored its own; that there is none, only then, or if Redis or MySQL failed.
THEOREM RefusedTokensAreLost == LgSpec => TokenRefusedOnlyIfLost
<1> DEFINE Lost == \A l \in Logins :
         (/\ At(l, "queued")
          /\ login'[l].pc \in {"tokenInvalid", "uidInvalid"}
          /\ login'[l].pc = "uidInvalid" => ~login'[l].fault) =>
         \/ l \notin login[l].stored
         \/ \E k \in Logins \ {l} : {k, l} \subseteq login[k].stored /\ login[k].account = login[l].account
<1>1. LoginInv /\ LoginInv' /\ LgNext => Lost
  <2> SUFFICES ASSUME LoginInv, LoginInv', LgNext, NEW l \in Logins, At(l, "queued"),
                      login'[l].pc \in {"tokenInvalid", "uidInvalid"},
                      login'[l].pc = "uidInvalid" => ~ login'[l].fault,
                      l \in login[l].stored
               PROVE  Replaced(l)
    BY DEF Replaced
  <2>1. LoginTypes /\ login[l] \in LoginRecord /\ login[l].pc = "queued"
    BY DEF LoginInv, LoginTypes, At
  <2>2. CheckToken(l)
    <3>1. ASSUME NEW k \in Logins, k # l,
                 \/ \E a \in Accounts : CheckPassword(k, a)
                 \/ EnterSelect(k) \/ \E s \in ChatServers : ReadCount(k, s)
                 \/ SelectServer(k) \/ StoreToken(k) \/ Connect(k) \/ CheckToken(k)
          PROVE  FALSE
      <4>1. login'[l].pc = login[l].pc
        BY <2>1, <3>1
           DEF LoginTypes, CheckPassword, EnterSelect, ReadCount, SelectServer, StoreToken, Connect, CheckToken
      <4> QED
        BY <2>1, <4>1
    <3>2. ASSUME NEW k \in Logins, k # l, CountLogin(k)
          PROVE  FALSE
      <4>1. login'[l] = login[l]
        BY <2>1, <3>2 DEF LoginTypes, CountLogin, At
      <4> QED
        BY <2>1, <4>1
    <3>3. ASSUME NEW s \in ChatServers, Start(s) \/ Stop(s)
          PROVE  FALSE
      <4>1. CASE login' = login
        BY <2>1, <4>1
      <4>2. CASE \E n \in {0, NoCount} : SetCount(s, n)
        <5>1. login'[l].pc = login[l].pc
          BY <4>2, SetCountLeaves DEF Discounted
        <5> QED
          BY <2>1, <5>1
      <4> QED
        BY <3>3, <4>1, <4>2 DEF Start, Stop
    <3>4. ASSUME NEW s \in ChatServers, Die(s)
          PROVE  FALSE
      <4>1. login'[l] \in {login[l], [login[l] EXCEPT !.pc = "ended"]}
        BY <3>4 DEF Die
      <4>2. login'[l].pc \in {"queued", "ended"}
        BY <2>1, <4>1, LoginRecords DEF Entry
      <4> QED
        BY <4>2
    <3>5. /\ \A a \in Accounts : ~ CheckPassword(l, a)
          /\ ~ EnterSelect(l) /\ \A s \in ChatServers : ~ ReadCount(l, s)
          /\ ~ SelectServer(l) /\ ~ StoreToken(l) /\ ~ Connect(l) /\ ~ CountLogin(l)
      BY <2>1 DEF At, CheckPassword, EnterSelect, ReadCount, SelectServer, StoreToken, Connect, CountLogin
    <3>6. CASE \E s \in ChatServers : Start(s) \/ Stop(s) \/ Die(s)
      BY <3>3, <3>4, <3>6
    <3>7. ASSUME NEW k \in Logins,
                 \/ \E a \in Accounts : CheckPassword(k, a)
                 \/ EnterSelect(k) \/ \E s \in ChatServers : ReadCount(k, s)
                 \/ SelectServer(k) \/ StoreToken(k) \/ Connect(k) \/ CheckToken(k) \/ CountLogin(k)
          PROVE  CheckToken(l)
      <4>1. CASE k = l
        BY <3>5, <3>7, <4>1
      <4>2. CASE k # l
        BY <3>1, <3>2, <3>7, <4>2
      <4> QED
        BY <4>1, <4>2
    <3> QED
      BY <3>6, <3>7 DEF LgNext
  <2>3. tokens[login[l].account] # l
    <3>1. SUFFICES ASSUME tokens[login[l].account] = l PROVE FALSE
      OBVIOUS
    <3>2. l # NoToken
      BY LoginAssumption
    <3>3. \/ login' = [login EXCEPT ![l].pc = "count"]
          \/ login' = [login EXCEPT ![l].pc = "uidInvalid", ![l].fault = TRUE]
      BY <2>2, <3>1, <3>2 DEF CheckToken
    <3>4. CASE login' = [login EXCEPT ![l].pc = "count"]
      BY <2>1, <3>4 DEF LoginTypes, LoginRecord
    <3>5. CASE login' = [login EXCEPT ![l].pc = "uidInvalid", ![l].fault = TRUE]
      <4>1. login'[l] = [login[l] EXCEPT !.pc = "uidInvalid", !.fault = TRUE]
        BY <2>1, <3>5 DEF LoginTypes
      <4>2. \A c \in BOOLEAN : [login[l] EXCEPT !.pc = "uidInvalid", !.fault = c]
              = Entry("uidInvalid", login[l].account, login[l].read, login[l].server, login[l].stored,
                      login[l].moved, login[l].reset, login[l].counted, c)
        BY <2>1, FaultWritten
      <4>3. login'[l] = Entry("uidInvalid", login[l].account, login[l].read, login[l].server, login[l].stored,
                              login[l].moved, login[l].reset, login[l].counted, TRUE)
        BY <4>1, <4>2
      <4> QED
        BY <4>3 DEF Entry
    <3> QED
      BY <3>3, <3>4, <3>5
  <2> QED
    BY <2>3 DEF LoginInv, TokensHold
<1>2. LoginInv /\ LoginInv' /\ [LgNext]_lgVars => [Lost]_lgVars
  BY <1>1
<1> QED
  BY <1>2, LoginsInvariant, PTL DEF LgSpec, TokenRefusedOnlyIfLost

\* What a login in the middle of its selection has read is known to be a count or not.
LEMMA LeastIsKnown ==
    ASSUME LoginInv, NEW l \in Logins, SelectServer(l), NEW s \in LeastRead(l),
           NEW t \in ChatServers, login[l].read[t] # NoCount
    PROVE  /\ login[l].read[s] # NoCount
           /\ {s, t} \cap login[l].reset = {} => loginCount[s] <= loginCount[t] + login[l].moved
<1> DEFINE r == login[l]
<1>1. r \in LoginRecord /\ r.moved \in Nat /\ r.pc = "read" /\ DOMAIN r.read = ChatServers /\ s \in ChatServers
  BY DEF LoginInv, LoginTypes, LoginRecord, SelectServer, LeastRead, At
<1>2. r.read[s] \in 0..NoCount /\ r.read[t] \in 0..NoCount
  BY <1>1 DEF LoginRecord, Readings
<1>3. r.read[s] <= r.read[t]
  BY DEF LeastRead
<1>4. r.read[s] # NoCount
  BY <1>2, <1>3, CountsAreFewer
<1>5. ASSUME s \notin r.reset, t \notin r.reset
      PROVE  loginCount[s] <= loginCount[t] + r.moved
  <2>1. \A u \in {s, t} : r.read[u] <= loginCount[u] /\ loginCount[u] <= r.read[u] + r.moved
    BY <1>1, <1>4, <1>5 DEF LoginInv, ReadsHold
  <2>2. loginCount[t] \in 0..NoCount /\ loginCount[s] \in 0..NoCount
    BY <1>1 DEF LoginInv, LoginTypes
  <2> QED
    BY <1>1, <1>2, <1>3, <2>1, <2>2, CountsAreFewer
<1> QED
  BY <1>4, <1>5

\* The chat server chosen for a login has no greater count than any other whose count could
\* be read, but for what was counted, or reset, in the meantime.
THEOREM LeastIsChosen == LgSpec => LeastLoadedIsChosen
<1> DEFINE Least == \A l \in Logins : SelectServer(l) =>
         LET s == login'[l].server
             known == {t \in ChatServers : login[l].read[t] # NoCount}
         IN  known # {} =>
               /\ s \in known
               /\ \A t \in known : {s, t} \cap login[l].reset = {} =>
                                      loginCount[s] <= loginCount[t] + login[l].moved
<1>1. LoginInv => Least
  <2> SUFFICES ASSUME LoginInv, NEW l \in Logins, SelectServer(l), NEW t \in ChatServers,
                      login[l].read[t] # NoCount
               PROVE  /\ login'[l].server \in ChatServers /\ login[l].read[login'[l].server] # NoCount
                      /\ {login'[l].server, t} \cap login[l].reset = {} =>
                            loginCount[login'[l].server] <= loginCount[t] + login[l].moved
    OBVIOUS
  <2>1. PICK s \in LeastRead(l) : login' = [login EXCEPT ![l].pc = "store", ![l].server = s]
    BY DEF SelectServer
  <2>2. login[l] \in LoginRecord
    BY DEF LoginInv, LoginTypes
  <2>3. login'[l] = [login[l] EXCEPT !.pc = "store", !.server = s]
    BY <2>1 DEF LoginInv, LoginTypes
  <2>4. [login[l] EXCEPT !.pc = "store", !.server = s].server = s
    <3>1. [login[l] EXCEPT !.pc = "store", !.server = s]
            = Entry("store", login[l].account, login[l].read, s, login[l].stored, login[l].moved,
                    login[l].reset, login[l].counted, login[l].fault)
      BY <2>2, LoginRecords
    <3> QED
      BY <3>1 DEF Entry
  <2> QED
    BY <2>3, <2>4, LeastIsKnown DEF LeastRead
<1>2. LoginInv => [Least]_lgVars
  BY <1>1
<1> QED
  BY <1>2, LoginsInvariant, PTL DEF LeastLoadedIsChosen

\* The properties of logging in.
THEOREM LoginStepsHold == LgSpec => LoginSteps
BY LoginsTyped, RefusedTokensAreLost, LeastIsChosen DEF LoginSteps

\* Registering and logging in side by side: neither touches what the other keeps.
THEOREM AccountStepsHold == RegSpec /\ LgSpec => AccountSteps
BY RegistrationStepsHold, LoginStepsHold DEF AccountSteps

-----------------------------------------------------------------------------
(***************************************************************************)
(* Proofs about Friendship, for every number of people and of chat servers.*)
(* FriendshipInv alone is not inductive: FrInd adds which rows a worker    *)
(* has locked, and that it inserts only for an accepted application.       *)
(***************************************************************************)

-----------------------------------------------------------------------------
(* The inductive invariant *)

Stages == {"idle", "apply", "auth", "own", "first", "second", "commit"}
Endings == {"none", "applied", "friends", "error"}
Works == [pc : Stages, pair : Pairs \cup {Nobody}, answer : Endings]
\* The rows w has inserted and not committed.
Inserted(w) ==
    {p \in Pairs : \/ p = work[w].pair /\ work[w].pc \in {"second", "commit"}
                   \/ p = Back(work[w].pair) /\ work[w].pc = "commit"}

FrShape ==
    /\ accepted \in SUBSET applied /\ applied \in SUBSET Pairs /\ friends \in SUBSET Pairs
    /\ rowLock \in [Pairs -> Workers \cup {Nobody}]
    /\ work \in [Workers -> Works]
    /\ \A w \in Workers : work[w].pc # "idle" => work[w].pair \in Pairs
\* A worker has locked what it has inserted, and nothing else: two workers with one pair
\* are never both past its first row.
LocksAreInsertions == \A w \in Workers, p \in Pairs : rowLock[p] = w <=> p \in Inserted(w)
\* Only an accepted application leads to a friendship.
InsertsAccepted ==
    \A w \in Workers : work[w].pc \in {"own", "first", "second", "commit"} => Back(work[w].pair) \in accepted

FrInd == FrShape /\ LocksAreInsertions /\ InsertsAccepted
            /\ FriendshipIsMutual /\ FriendsWereAccepted /\ AcceptedBecomesFriends

\* Back is its own inverse on pairs.
LEMMA BackIsPair == \A p \in Pairs : Back(p) \in Pairs /\ Back(Back(p)) = p /\ Back(p) # p
<1> SUFFICES ASSUME NEW a \in People, NEW b \in People, a # b
             PROVE  LET p == <<a, b>> IN Back(p) \in Pairs /\ Back(Back(p)) = p /\ Back(p) # p
  BY DEF Pairs
<1> QED
  BY DEF Pairs, Back

LEMMA FrInitInd == FrInit => FrInd
<1> SUFFICES ASSUME FrInit PROVE FrInd
  OBVIOUS
<1> USE DEF FrInit
<1>1. FrShape
  BY DEF FrShape, Idle, Stages, Works, Endings
<1>2. \A w \in Workers : work[w].pc = "idle" /\ w # Nobody
  BY FriendAssumption DEF Idle
<1>3. \A w \in Workers : Inserted(w) = {}
  BY <1>2 DEF Inserted
<1>4. LocksAreInsertions
  BY <1>2, <1>3 DEF LocksAreInsertions
<1> QED
  BY <1>1, <1>2, <1>4 DEF FrInd, InsertsAccepted, FriendshipIsMutual, FriendsWereAccepted, AcceptedBecomesFriends

\* What a step of w does to the work of all.
LEMMA WorkAfter ==
  ASSUME FrShape, NEW w \in Workers, NEW pc \in Stages, NEW answer \in Endings,
         To(w, pc) \/ (pc = "idle" /\ Finish(w, answer)), work[w].pair \in Pairs
  PROVE  /\ work' \in [Workers -> Works]
         /\ work'[w].pc = pc /\ work'[w].pair = work[w].pair
         /\ \A v \in Workers : v # w => work'[v] = work[v]
         /\ \A v \in Workers : work'[v].pc # "idle" => work'[v].pair \in Pairs
<1>1. work[w].answer \in Endings
  BY DEF FrShape, Works
<1>2. PICK r \in Works : r.pc = pc /\ r.pair = work[w].pair /\ work' = [work EXCEPT ![w] = r]
  BY <1>1 DEF To, Finish, Works
<1> QED
  BY <1>2 DEF FrShape

\* A step that changes neither locks nor friends, and may accept applications, keeps FrInd
\* if it pays for those it accepts and for its own worker leaving the accept.
LEMMA QuietKeeps ==
  ASSUME FrInd, NEW w \in Workers, work' \in [Workers -> Works],
         \A v \in Workers : v # w => work'[v] = work[v],
         work[w].pc \notin {"second", "commit"}, work'[w].pc \notin {"second", "commit"},
         work'[w].pc # "idle" => work'[w].pair \in Pairs,
         UNCHANGED <<friends, rowLock>>, applied' \in SUBSET Pairs, accepted' \in SUBSET applied',
         accepted \subseteq accepted', broken \subseteq broken',
         work'[w].pc \in {"own", "first"} => Back(work'[w].pair) \in accepted',
         AcceptedBecomesFriends'
  PROVE  FrInd'
<1>1. \A v \in Workers, p \in Pairs : p \in Inserted(v)' <=> p \in Inserted(v)
  BY DEF Inserted
<1>2. FrShape'
  BY DEF FrInd, FrShape
<1>3. LocksAreInsertions'
  BY <1>1 DEF FrInd, LocksAreInsertions
<1>4. InsertsAccepted'
  BY DEF FrInd, InsertsAccepted
<1> QED
  BY <1>2, <1>3, <1>4 DEF FrInd, FriendshipIsMutual, FriendsWereAccepted

LEMMA ReceiveKeeps ==
  ASSUME FrInd, NEW w \in Workers, NEW kind \in {"apply", "auth"}, NEW p \in Pairs, Receive(w, kind, p)
  PROVE  FrInd'
<1>1. PICK r \in Works : r.pc = kind /\ r.pair = p /\ work' = [work EXCEPT ![w] = r]
  BY DEF Receive, Works, Stages, Endings
<1>2. /\ work' \in [Workers -> Works] /\ work'[w].pc = kind /\ work'[w].pair = p
      /\ \A v \in Workers : v # w => work'[v] = work[v]
  BY <1>1 DEF FrInd, FrShape
<1>3. AcceptedBecomesFriends'
  BY <1>2 DEF FrInd, AcceptedBecomesFriends, Receive
<1>4. accepted \in SUBSET applied /\ applied \in SUBSET Pairs
  BY DEF FrInd, FrShape
<1> QED
  BY <1>2, <1>3, <1>4, QuietKeeps DEF Receive

LEMMA ApplyKeeps ==
  ASSUME FrInd, NEW w \in Workers, Apply(w)
  PROVE  FrInd'
<1>1. work[w].pair \in Pairs /\ FrShape
  BY DEF FrInd, FrShape, Apply
<1>2. Finish(w, "applied") \/ Finish(w, "error")
  BY DEF Apply
<1>3. /\ work' \in [Workers -> Works] /\ work'[w].pc = "idle"
      /\ \A v \in Workers : v # w => work'[v] = work[v]
  BY <1>1, <1>2, WorkAfter DEF Stages, Endings
<1>4. AcceptedBecomesFriends'
  BY <1>3 DEF FrInd, AcceptedBecomesFriends, Apply
<1>5. accepted \in SUBSET applied' /\ applied' \in SUBSET Pairs
  BY <1>1 DEF FrShape, Apply
<1> QED
  BY <1>3, <1>4, <1>5, QuietKeeps DEF Apply

LEMMA AcceptTheirsKeeps ==
  ASSUME FrInd, NEW w \in Workers, AcceptTheirs(w)
  PROVE  FrInd'
<1> DEFINE theirs == Back(work[w].pair)
<1>1. work[w].pair \in Pairs /\ FrShape /\ work[w].pc = "auth"
  BY DEF FrInd, FrShape, AcceptTheirs
<1>2. \/ theirs \in applied /\ accepted' = accepted \cup {theirs} /\ To(w, "own") /\ UNCHANGED broken
      \/ /\ theirs \in applied /\ accepted' = accepted \cup {theirs}
         /\ Finish(w, "error") /\ broken' = broken \cup {theirs}
      \/ accepted' = accepted /\ Finish(w, "error") /\ UNCHANGED broken
  BY DEF AcceptTheirs
<1>3. UNCHANGED <<applied, friends, rowLock, handledReqs>>
  BY DEF AcceptTheirs
<1> HIDE DEF theirs
<1>4. CASE theirs \in applied /\ accepted' = accepted \cup {theirs} /\ To(w, "own") /\ UNCHANGED broken
  <2>1. /\ work' \in [Workers -> Works] /\ work'[w].pc = "own" /\ work'[w].pair = work[w].pair
        /\ \A v \in Workers : v # w => work'[v] = work[v]
    BY <1>1, <1>4, WorkAfter DEF Stages, Endings
  <2>2. AcceptedBecomesFriends'
    <3> SUFFICES ASSUME NEW p \in accepted'
                 PROVE  \/ p \in friends'
                        \/ {p, Back(p)} \cap broken' # {}
                        \/ \E v \in Workers : /\ work'[v].pair \in {p, Back(p)}
                                              /\ work'[v].pc \in {"own", "first", "second", "commit"}
      BY DEF AcceptedBecomesFriends
    <3>1. CASE p = theirs
      BY <1>1, <2>1, <3>1, BackIsPair DEF theirs
    <3>2. CASE p \in accepted
      BY <1>1, <1>3, <1>4, <2>1, <3>2 DEF FrInd, AcceptedBecomesFriends
    <3> QED
      BY <1>4, <3>1, <3>2
  <2> QED
    BY <1>1, <1>3, <1>4, <2>1, <2>2, QuietKeeps DEF theirs, FrShape
<1>5. CASE /\ accepted' \in {accepted, accepted \cup {theirs}} /\ Finish(w, "error")
           /\ \/ accepted' = accepted /\ UNCHANGED broken
              \/ theirs \in applied /\ broken' = broken \cup {theirs}
  <2>1. /\ work' \in [Workers -> Works] /\ work'[w].pc = "idle"
        /\ \A v \in Workers : v # w => work'[v] = work[v]
    BY <1>1, <1>5, WorkAfter DEF Stages, Endings
  <2>2. AcceptedBecomesFriends'
    <3> SUFFICES ASSUME NEW p \in accepted', p \notin broken'
                 PROVE  \/ p \in friends'
                        \/ {p, Back(p)} \cap broken' # {}
                        \/ \E v \in Workers : /\ work'[v].pair \in {p, Back(p)}
                                              /\ work'[v].pc \in {"own", "first", "second", "commit"}
      BY DEF AcceptedBecomesFriends
    <3>1. p \in accepted /\ broken \subseteq broken'
      BY <1>5
    <3> QED
      BY <1>1, <1>3, <2>1, <3>1 DEF FrInd, AcceptedBecomesFriends
  <2> QED
    BY <1>1, <1>3, <1>5, <2>1, <2>2, QuietKeeps DEF FrShape
<1> QED
  BY <1>2, <1>4, <1>5

LEMMA AcceptOwnKeeps ==
  ASSUME FrInd, NEW w \in Workers, AcceptOwn(w)
  PROVE  FrInd'
<1> DEFINE own == work[w].pair
<1>1. /\ own \in Pairs /\ Back(own) \in Pairs /\ Back(Back(own)) = own
      /\ FrShape /\ work[w].pc = "own" /\ Back(own) \in accepted
  BY BackIsPair DEF FrInd, FrShape, InsertsAccepted, AcceptOwn
<1>2. /\ accepted' \in {accepted, accepted \cup ({own} \cap applied)}
      /\ \/ To(w, "first") /\ UNCHANGED broken
         \/ Finish(w, "error") /\ broken' = broken \cup {Back(own)}
  BY DEF AcceptOwn
<1>3. UNCHANGED <<applied, friends, rowLock, handledReqs>>
  BY DEF AcceptOwn
<1>4. PICK pc \in {"first", "idle"} :
        /\ work' \in [Workers -> Works] /\ work'[w].pc = pc /\ work'[w].pair = own
        /\ \A v \in Workers : v # w => work'[v] = work[v]
  BY <1>1, <1>2, WorkAfter DEF Stages, Endings
<1>5. pc = "first" \/ Back(own) \in broken'
  <2>1. CASE Finish(w, "error") /\ broken' = broken \cup {Back(own)}
    BY <2>1
  <2>2. CASE To(w, "first")
    BY <1>1, <1>4, <2>2, WorkAfter DEF Stages, Endings
  <2> QED
    BY <1>2, <2>1, <2>2
<1>6. /\ accepted \subseteq accepted' /\ accepted' \subseteq accepted \cup {own} /\ accepted' \in SUBSET applied
      /\ broken \subseteq broken'
  BY <1>1, <1>2 DEF FrShape
<1>7. AcceptedBecomesFriends'
  <2> SUFFICES ASSUME NEW p \in accepted'
               PROVE  \/ p \in friends'
                      \/ {p, Back(p)} \cap broken' # {}
                      \/ \E v \in Workers : /\ work'[v].pair \in {p, Back(p)}
                                            /\ work'[v].pc \in {"own", "first", "second", "commit"}
    BY DEF AcceptedBecomesFriends
  <2>1. CASE own \in {p, Back(p)}
    <3>1. p \in Pairs
      BY <1>6, <1>1 DEF FrShape
    <3>2. Back(own) \in {p, Back(p)}
      BY <2>1, <3>1, BackIsPair
    <3> QED
      BY <1>4, <1>5, <2>1, <3>2
  <2>2. CASE own \notin {p, Back(p)}
    <3>1. p \in accepted
      BY <1>6, <2>2
    <3> QED
      BY <1>3, <1>4, <1>6, <2>2, <3>1 DEF FrInd, AcceptedBecomesFriends
  <2> QED
    BY <2>1, <2>2
<1> QED
  BY <1>1, <1>3, <1>4, <1>6, <1>7, QuietKeeps DEF FrShape

\* While w inserts, and when it has committed or given up: what all branches share.
LEMMA InsertingKeeps ==
  ASSUME FrInd, NEW w \in Workers, work[w].pc \in {"own", "first", "second", "commit"},
         NEW pc \in {"idle", "second", "commit"}, work' \in [Workers -> Works],
         work'[w].pc = pc, work'[w].pair = work[w].pair,
         \A v \in Workers : v # w => work'[v] = work[v],
         UNCHANGED <<applied, accepted>>, friends \subseteq friends', broken \subseteq broken',
         pc # "idle" \/ Back(work[w].pair) \in broken' \/ {work[w].pair, Back(work[w].pair)} \subseteq friends'
  PROVE  InsertsAccepted' /\ AcceptedBecomesFriends'
<1> DEFINE own == work[w].pair
<1>1. own \in Pairs /\ Back(own) \in Pairs /\ Back(Back(own)) = own /\ Back(own) \in accepted /\ FrShape
  BY BackIsPair DEF FrInd, FrShape, InsertsAccepted
<1>2. InsertsAccepted'
  BY <1>1 DEF FrInd, InsertsAccepted
<1>3. AcceptedBecomesFriends'
  <2> SUFFICES ASSUME NEW p \in accepted
               PROVE  \/ p \in friends'
                      \/ {p, Back(p)} \cap broken' # {}
                      \/ \E v \in Workers : /\ work'[v].pair \in {p, Back(p)}
                                            /\ work'[v].pc \in {"own", "first", "second", "commit"}
    BY DEF AcceptedBecomesFriends
  <2>1. CASE own \in {p, Back(p)}
    <3>1. p \in Pairs /\ p \in {own, Back(own)} /\ Back(own) \in {p, Back(p)}
      BY <1>1, <2>1, BackIsPair DEF FrShape
    <3> QED
      BY <2>1, <3>1
  <2>2. CASE own \notin {p, Back(p)}
    BY <2>2 DEF FrInd, AcceptedBecomesFriends
  <2> QED
    BY <2>1, <2>2
<1> QED
  BY <1>2, <1>3

\* A worker that ends gives back its locks and no other.
LEMMA UnlockKeeps ==
  ASSUME FrShape, LocksAreInsertions, NEW w \in Workers, work' \in [Workers -> Works], work'[w].pc = "idle",
         \A v \in Workers : v # w => work'[v] = work[v], rowLock' = Unlock(w)
  PROVE  LocksAreInsertions' /\ rowLock' \in [Pairs -> Workers \cup {Nobody}]
<1>1. \A p \in Pairs : rowLock'[p] = IF rowLock[p] = w THEN Nobody ELSE rowLock[p]
  BY DEF Unlock
<1>2. \A p \in Pairs : p \notin Inserted(w)'
  BY DEF Inserted
<1>3. \A v \in Workers, p \in Pairs : v # w => (p \in Inserted(v)' <=> p \in Inserted(v))
  BY DEF Inserted
<1>4. \A v \in Workers : v # Nobody
  BY FriendAssumption
<1>5. LocksAreInsertions'
  <2> SUFFICES ASSUME NEW v \in Workers, NEW p \in Pairs
               PROVE  rowLock'[p] = v <=> p \in Inserted(v)'
    BY DEF LocksAreInsertions
  <2>1. CASE v = w
    BY <1>1, <1>2, <1>4, <2>1
  <2>2. CASE v # w
    BY <1>1, <1>3, <1>4, <2>2 DEF LocksAreInsertions
  <2> QED
    BY <2>1, <2>2
<1>6. rowLock' \in [Pairs -> Workers \cup {Nobody}]
  BY DEF Unlock, FrShape
<1> QED
  BY <1>5, <1>6

\* A worker that gives up, or whose server ends, wherever it is.
LEMMA LeavingKeeps ==
  ASSUME FrInd, NEW w \in Workers, work[w].pc # "idle", NEW answer \in Endings, Finish(w, answer),
         rowLock' = Unlock(w), broken \subseteq broken',
         work[w].pc \in {"own", "first", "second", "commit"} => Back(work[w].pair) \in broken',
         UNCHANGED <<applied, accepted, friends, handledReqs>>
  PROVE  FrInd'
<1>1. FrShape /\ work[w].pair \in Pairs /\ LocksAreInsertions
  BY DEF FrInd, FrShape
<1>2. /\ work' \in [Workers -> Works] /\ work'[w].pc = "idle" /\ work'[w].pair = work[w].pair
      /\ \A v \in Workers : v # w => work'[v] = work[v]
      /\ \A v \in Workers : work'[v].pc # "idle" => work'[v].pair \in Pairs
  BY <1>1, WorkAfter DEF Stages
<1>3. LocksAreInsertions' /\ rowLock' \in [Pairs -> Workers \cup {Nobody}]
  BY <1>1, <1>2, UnlockKeeps
<1>4. InsertsAccepted' /\ AcceptedBecomesFriends'
  <2>1. CASE work[w].pc \in {"own", "first", "second", "commit"}
    BY <1>2, <2>1, InsertingKeeps
  <2>2. CASE work[w].pc \notin {"own", "first", "second", "commit"}
    BY <1>2, <2>2 DEF FrInd, InsertsAccepted, AcceptedBecomesFriends
  <2> QED
    BY <2>1, <2>2
<1>5. FrShape'
  BY <1>1, <1>2, <1>3 DEF FrShape
<1> QED
  BY <1>3, <1>4, <1>5 DEF FrInd, FriendshipIsMutual, FriendsWereAccepted

LEMMA RollbackKeeps ==
  ASSUME FrInd, NEW w \in Workers, work[w].pc \in {"first", "second", "commit"}, Rollback(w),
         UNCHANGED <<applied, accepted, friends, handledReqs>>
  PROVE  FrInd'
BY LeavingKeeps DEF Rollback, Endings

LEMMA EndKeeps ==
  ASSUME FrInd, NEW w \in Workers, End(w)
  PROVE  FrInd'
<1>1. broken \subseteq broken'
      /\ (work[w].pc \in {"own", "first", "second", "commit"} => Back(work[w].pair) \in broken')
  BY DEF End
<1> QED
  BY <1>1, LeavingKeeps DEF End, Endings

LEMMA InsertKeeps ==
  ASSUME FrInd, NEW w \in Workers, InsertFirst(w) \/ InsertSecond(w)
  PROVE  FrInd'
<1> DEFINE own == work[w].pair
<1>1. FrShape /\ own \in Pairs /\ Back(own) \in Pairs /\ LocksAreInsertions
  BY BackIsPair DEF FrInd, FrShape, InsertFirst, InsertSecond
<1>2. PICK p \in {own, Back(own)}, next \in {"second", "commit"} :
        /\ \/ work[w].pc = "first" /\ p = own /\ next = "second"
           \/ work[w].pc = "second" /\ p = Back(own) /\ next = "commit"
        /\ InsertIgnore(w, p, next)
        /\ UNCHANGED <<applied, accepted, friends, handledReqs>>
  BY DEF InsertFirst, InsertSecond
<1>3. CASE Rollback(w)
  BY <1>2, <1>3, RollbackKeeps
<1>4. CASE rowLock[p] = Nobody /\ rowLock' = [rowLock EXCEPT ![p] = w] /\ To(w, next) /\ UNCHANGED broken
  <2>1. /\ work' \in [Workers -> Works] /\ work'[w].pc = next /\ work'[w].pair = own
        /\ \A v \in Workers : v # w => work'[v] = work[v]
        /\ \A v \in Workers : work'[v].pc # "idle" => work'[v].pair \in Pairs
    BY <1>1, <1>4, WorkAfter DEF Stages, Endings
  <2>2. \A q \in Pairs : q \in Inserted(w)' <=> q \in Inserted(w) \/ q = p
    BY <1>2, <2>1 DEF Inserted
  <2>3. \A v \in Workers, q \in Pairs : v # w => (q \in Inserted(v)' <=> q \in Inserted(v))
    BY <2>1 DEF Inserted
  <2>4. \A q \in Pairs : rowLock'[q] = IF q = p THEN w ELSE rowLock[q]
    BY <1>1, <1>4 DEF FrShape
  <2>5. LocksAreInsertions'
    <3> SUFFICES ASSUME NEW v \in Workers, NEW q \in Pairs
                 PROVE  rowLock'[q] = v <=> q \in Inserted(v)'
      BY DEF LocksAreInsertions
    <3>1. rowLock[q] = v <=> q \in Inserted(v)
      BY <1>1 DEF LocksAreInsertions
    <3>2. v # Nobody
      BY FriendAssumption
    <3> QED
      BY <1>4, <2>2, <2>3, <2>4, <3>1, <3>2
  <2>6. FrShape'
    BY <1>1, <1>2, <1>4, <2>1 DEF FrShape
  <2>7. InsertsAccepted' /\ AcceptedBecomesFriends'
    BY <1>2, <1>4, <2>1, InsertingKeeps
  <2> QED
    BY <1>2, <2>5, <2>6, <2>7 DEF FrInd, FriendshipIsMutual, FriendsWereAccepted
<1> QED
  BY <1>2, <1>3, <1>4 DEF InsertIgnore

LEMMA CommitKeeps ==
  ASSUME FrInd, NEW w \in Workers, Commit(w)
  PROVE  FrInd'
<1> DEFINE own == work[w].pair
<1>1. /\ FrShape /\ own \in Pairs /\ LocksAreInsertions /\ work[w].pc = "commit"
      /\ Back(own) \in Pairs /\ Back(Back(own)) = own /\ Back(own) \in accepted
  BY BackIsPair DEF FrInd, FrShape, InsertsAccepted, Commit
<1>2. UNCHANGED <<applied, accepted, handledReqs>>
  BY DEF Commit
<1>3. CASE Rollback(w) /\ UNCHANGED friends
  BY <1>1, <1>2, <1>3, RollbackKeeps
<1>4. CASE /\ friends' = friends \cup {p \in Pairs : rowLock[p] = w}
           /\ rowLock' = Unlock(w) /\ UNCHANGED broken
           /\ Finish(w, "friends") \/ Finish(w, "error")
  <2>1. /\ work' \in [Workers -> Works] /\ work'[w].pc = "idle" /\ work'[w].pair = own
        /\ \A v \in Workers : v # w => work'[v] = work[v]
        /\ \A v \in Workers : work'[v].pc # "idle" => work'[v].pair \in Pairs
    BY <1>1, <1>4, WorkAfter DEF Stages, Endings
  <2>2. \A p \in Pairs : rowLock[p] = w <=> p \in {own, Back(own)}
    BY <1>1 DEF LocksAreInsertions, Inserted
  <2>3. friends' = friends \cup {own, Back(own)}
    BY <1>1, <1>4, <2>2
  <2>4. LocksAreInsertions' /\ rowLock' \in [Pairs -> Workers \cup {Nobody}]
    BY <1>1, <1>4, <2>1, UnlockKeeps
  <2>5. InsertsAccepted' /\ AcceptedBecomesFriends'
    BY <1>1, <1>2, <1>4, <2>1, <2>3, InsertingKeeps
  <2>6. FrShape'
    BY <1>1, <1>2, <2>1, <2>3, <2>4 DEF FrShape
  <2>7. FriendshipIsMutual' /\ FriendsWereAccepted'
    BY <1>1, <1>2, <2>3 DEF FrInd, FriendshipIsMutual, FriendsWereAccepted
  <2> QED
    BY <2>4, <2>5, <2>6, <2>7 DEF FrInd
<1> QED
  BY <1>3, <1>4 DEF Commit

\* FrInd is inductive.
LEMMA FrNextInd == FrInd /\ [FrNext]_frVars => FrInd'
<1> SUFFICES ASSUME FrInd, [FrNext]_frVars PROVE FrInd'
  OBVIOUS
<1>1. CASE UNCHANGED frVars
  <2>1. \A w \in Workers : Inserted(w)' = Inserted(w)
    BY <1>1 DEF frVars, Inserted
  <2> QED
    BY <1>1, <2>1 DEF frVars, FrInd, FrShape, LocksAreInsertions, InsertsAccepted, FriendshipIsMutual,
       FriendsWereAccepted, AcceptedBecomesFriends
<1>2. CASE FrNext
  BY <1>2, ReceiveKeeps, ApplyKeeps, AcceptTheirsKeeps, AcceptOwnKeeps, InsertKeeps, CommitKeeps,
     EndKeeps
  DEF FrNext, WorkStep
<1> QED
  BY <1>1, <1>2

\* Nothing that was committed is taken back.
LEMMA CommittedStays ==
  ASSUME FrInd, FrNext
  PROVE  applied \subseteq applied' /\ accepted \subseteq accepted' /\ friends \subseteq friends'
BY DEF FrNext, Receive, WorkStep, Apply, AcceptTheirs, AcceptOwn, InsertFirst, InsertSecond, Commit, End

\* What one worker was told stays true.
Told(w) ==
    /\ work[w].answer = "applied" => work[w].pair \in applied
    /\ work[w].answer = "friends" =>
          Back(work[w].pair) \in accepted /\ {work[w].pair, Back(work[w].pair)} \subseteq friends

LEMMA AnswersAre ==
  ASSUME FrInd, NEW w \in Workers, WorkStep(w)
  PROVE  /\ work'[w].pair = work[w].pair
         /\ \/ work'[w].answer \in {work[w].answer, "none", "error"}
            \/ work'[w].answer = "applied" /\ work[w].pair \in applied'
            \/ /\ work'[w].answer = "friends" /\ Back(work[w].pair) \in accepted'
               /\ {work[w].pair, Back(work[w].pair)} \subseteq friends'
<1>1. work \in [Workers -> Works]
  BY DEF FrInd, FrShape
<1>2. ASSUME NEW pc, To(w, pc)
      PROVE  work'[w].pair = work[w].pair /\ work'[w].answer = work[w].answer
  BY <1>1, <1>2 DEF To
<1>3. ASSUME NEW answer, Finish(w, answer)
      PROVE  work'[w].pair = work[w].pair /\ work'[w].answer = answer
  BY <1>1, <1>3 DEF Finish
<1>4. CASE Apply(w)
  BY <1>3, <1>4 DEF Apply
<1>5. CASE AcceptTheirs(w) \/ AcceptOwn(w) \/ End(w)
  <2>1. (\E pc : To(w, pc)) \/ Finish(w, "error") \/ Finish(w, "none")
    BY <1>5 DEF AcceptTheirs, AcceptOwn, End
  <2> QED
    BY <1>2, <1>3, <2>1
<1>6. CASE InsertFirst(w) \/ InsertSecond(w)
  <2>1. (\E pc : To(w, pc)) \/ Finish(w, "error")
    BY <1>6 DEF InsertFirst, InsertSecond, InsertIgnore, Rollback
  <2> QED
    BY <1>2, <1>3, <2>1
<1>7. CASE Commit(w)
  <2>1. /\ work[w].pair \in Pairs /\ Back(work[w].pair) \in Pairs /\ work[w].pc = "commit"
        /\ Back(work[w].pair) \in accepted
    BY <1>7, BackIsPair DEF FrInd, FrShape, InsertsAccepted, Commit
  <2>2. {work[w].pair, Back(work[w].pair)} \subseteq {p \in Pairs : rowLock[p] = w}
    BY <2>1 DEF FrInd, LocksAreInsertions, Inserted
  <2>3. CASE Finish(w, "error")
    BY <1>3, <2>3
  <2>4. CASE /\ friends' = friends \cup {p \in Pairs : rowLock[p] = w} /\ Finish(w, "friends")
             /\ UNCHANGED accepted
    BY <1>3, <2>1, <2>2, <2>4
  <2> QED
    BY <1>7, <2>3, <2>4 DEF Commit, Rollback
<1> QED
  BY <1>4, <1>5, <1>6, <1>7 DEF WorkStep

LEMMA SuccessStays == FrInd /\ SuccessIsTrue /\ [FrNext]_frVars => SuccessIsTrue'
<1> SUFFICES ASSUME FrInd, SuccessIsTrue, [FrNext]_frVars, NEW v \in Workers PROVE Told(v)'
  BY DEF SuccessIsTrue, Told
<1>1. Told(v)
  BY DEF SuccessIsTrue, Told
<1>2. CASE UNCHANGED frVars
  BY <1>1, <1>2 DEF frVars, Told
<1>3. CASE FrNext
  <2>1. applied \subseteq applied' /\ accepted \subseteq accepted' /\ friends \subseteq friends'
    BY <1>3, CommittedStays
  <2>2. ASSUME work'[v] = work[v] PROVE Told(v)'
    BY <1>1, <2>1, <2>2 DEF Told
  <2>3. PICK w \in Workers : (\E kind \in {"apply", "auth"}, p \in Pairs : Receive(w, kind, p)) \/ WorkStep(w)
    BY <1>3 DEF FrNext
  <2>4. work \in [Workers -> Works]
    BY DEF FrInd, FrShape
  <2>5. CASE v # w
    <3>1. \E r : work' = [work EXCEPT ![w] = r]
      BY <2>3 DEF Receive, WorkStep, Apply, AcceptTheirs, AcceptOwn, InsertFirst, InsertSecond, InsertIgnore,
                  Commit, End, Rollback, To, Finish
    <3>2. work'[v] = work[v]
      BY <2>4, <2>5, <3>1
    <3> QED
      BY <2>2, <3>2
  <2>6. CASE v = w /\ WorkStep(w)
    <3>1. CASE work'[v].answer \in {work[v].answer, "none", "error"}
      BY <1>1, <2>1, <2>6, <3>1, AnswersAre DEF Told
    <3>2. CASE work'[v].answer \in {"applied", "friends"} /\ work'[v].answer # work[v].answer
      BY <2>6, <3>2, AnswersAre DEF Told
    <3> QED
      BY <2>6, <3>1, <3>2, AnswersAre
  <2>7. CASE v = w /\ \E kind \in {"apply", "auth"}, p \in Pairs : Receive(w, kind, p)
    <3>1. work'[v].answer = "none"
      BY <2>4, <2>7 DEF Receive
    <3> QED
      BY <3>1 DEF Told
  <2> QED
    BY <2>3, <2>5, <2>6, <2>7
<1> QED
  BY <1>2, <1>3

(* Whatever handlers run at the same time, on however many servers, and    *)
(* wherever their statements fail, carried out or not, or their servers    *)
(* end: friendship is mutual and follows an accepted application, an       *)
(* accepted application is a friendship, is being handled, or was cut off  *)
(* on its way there, and a success that a client was told is final         *)
(* (mysql_mgr.cpp:183-230).                                                *)
THEOREM FriendshipHolds == FrSpec => []FriendshipInv
<1>1. FrInd /\ SuccessIsTrue => FriendshipInv
  BY DEF FrInd, FriendshipInv, FrShape, FrTypeOK, Works, Stages
<1>2. FrInit => SuccessIsTrue
  BY DEF FrInit, SuccessIsTrue, Idle
<1> QED
  BY <1>1, <1>2, FrInitInd, FrNextInd, SuccessStays, PTL DEF FrSpec
=============================================================================
