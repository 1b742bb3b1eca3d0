------------------------------ MODULE RedisMgr ------------------------------
(***************************************************************************)
(* RedisMgr, and the cache of records that its callers keep there          *)
(* (LogicSystem::GetBaseInfo).  Threads borrow one of the pool's           *)
(* connections, send a command and read the reply.  A connection on which  *)
(* an error occurred goes back to the pool, and hiredis refuses every      *)
(* later command on it.  An argument is a sequence of words: a command is  *)
(* one text, which hiredis splits at its spaces, and a "%" in it is a      *)
(* directive that finds no argument.  Redis is external: up or down, with  *)
(* Reply to what it is sent.  The mutex of the pool is left to             *)
(* ConnectionPool.                                                         *)
(***************************************************************************)
EXTENDS Integers, Sequences, SequencesExt, FiniteSets

CONSTANTS Threads, Connections,     \* how many the constructor asks for
          Commands, Users, Records, \* arguments of the calls, and what MySQL may hold of a user
          Digits,                   \* the words that are numbers, in their order
          MaxCalls, MaxOutages

VARIABLES obj

(***************************************************************************)
(* Redis: an argument is a unit, whatever it is made of.                   *)
(***************************************************************************)
Unit(word) == <<word>>
None == [type |-> "none", value |-> <<>>]
Entry(store, key) == IF key \in DOMAIN store THEN store[key] ELSE None
With(store, key, type, value) == [k \in DOMAIN store \union {key} |-> IF k = key THEN [type |-> type, value |-> value] ELSE store[k]]
Without(store, keys) == [k \in DOMAIN store \ keys |-> store[k]]
\* A list or a hash that has lost its last element is not there any more.
Left(store, key, type, value) == IF DOMAIN value = {} THEN Without(store, {key}) ELSE With(store, key, type, value)
Answer(type, value, store) == [type |-> type, value |-> value, store |-> store]

Exact == [GET |-> 1, SET |-> 2, LPop |-> 1, RPop |-> 1, HSET |-> 3, HGET |-> 2, HINCRBY |-> 3]
Least == [LPush |-> 2, RPush |-> 2, HDEL |-> 2, DEL |-> 1, EXISTS |-> 1]
Types == [GET |-> "string", LPop |-> "list", RPop |-> "list", LPush |-> "list", RPush |-> "list",
          HSET |-> "hash", HGET |-> "hash", HINCRBY |-> "hash", HDEL |-> "hash"]
NumberOf(unit) == IF Len(unit) = 1 /\ Contains(Digits, unit[1]) THEN {SelectInSeq(Digits, LAMBDA w : w = unit[1]) - 1} ELSE {}

Reply(store, verb, args) ==
    LET n == Len(args)
        key == args[1]
        rest == Tail(args)
        entry == Entry(store, key)
        value == entry.value
        has == n > 1 /\ entry.type = "hash" /\ args[2] \in DOMAIN value
        before == IF has THEN value[args[2]] ELSE <<Digits[1]>>
        sums == {a + b + 1 : a \in NumberOf(before), b \in NumberOf(args[3])} \intersect DOMAIN Digits
        sum == CHOOSE s \in sums : TRUE
        put(v) == With(store, key, "hash", [f \in DOMAIN value \union {args[2]} |-> IF f = args[2] THEN v ELSE value[f]])
        gone == {f \in ToSet(rest) : entry.type = "hash" /\ f \in DOMAIN value}
        fits == /\ IF verb \in DOMAIN Exact THEN n = Exact[verb] ELSE n >= Least[verb]
                /\ verb \in DOMAIN Types => entry.type \in {"none", Types[verb]}
        nil == Answer("nil", <<>>, store)
        list(new) == Answer("integer", Len(new), With(store, key, "list", new))
        popped(x, new) == Answer("string", x, Left(store, key, "list", new))
    IN  IF ~fits THEN Answer("error", <<>>, store)
        ELSE CASE verb = "GET" -> IF entry = None THEN nil ELSE Answer("string", value, store)
               [] verb = "SET" -> Answer("status", "OK", With(store, key, "string", args[2]))
               [] verb = "LPush" -> list(Reverse(rest) \o value)
               [] verb = "RPush" -> list(value \o rest)
               [] verb = "LPop" -> IF entry = None THEN nil ELSE popped(Head(value), Tail(value))
               [] verb = "RPop" -> IF entry = None THEN nil ELSE popped(Last(value), Front(value))
               [] verb = "HSET" -> Answer("integer", IF has THEN 0 ELSE 1, put(args[3]))
               [] verb = "HGET" -> IF has THEN Answer("string", before, store) ELSE nil
               [] verb = "HINCRBY" -> IF sums = {} THEN Answer("error", <<>>, store) ELSE Answer("integer", sum - 1, put(<<Digits[sum]>>))
               [] verb = "HDEL" -> Answer("integer", Cardinality(gone), Left(store, key, "hash", [f \in DOMAIN value \ gone |-> value[f]]))
               [] verb = "DEL" -> Answer("integer", Cardinality(ToSet(args) \intersect DOMAIN store), Without(store, ToSet(args)))
               [] verb = "EXISTS" -> Answer("integer", Cardinality({i \in 1..n : args[i] \in DOMAIN store}), store)

(***************************************************************************)
(* RedisMgr: a result is Done, or Failed: nullopt or false.                *)
(***************************************************************************)
Failed == [done |-> FALSE, value |-> <<>>]
Done(value) == [done |-> TRUE, value |-> value]

Optional(reply) == IF reply.type = "string" THEN Done(reply.value) ELSE Failed     \* Get, LPop, RPop, HGet
Status(reply) == IF reply.type = "status" /\ reply.value = "OK" THEN Done(<<>>) ELSE Failed   \* Set
Pushed(reply) == IF reply.type = "integer" THEN Done(<<>>) ELSE Failed             \* LPush, RPush, HSet
Number(reply) == IF reply.type = "integer" THEN Done(<<Digits[reply.value + 1]>>) ELSE Failed  \* HIncrBy
One(reply) == IF reply.type = "integer" /\ reply.value = 1 THEN Done(<<>>) ELSE Failed         \* HDel, Del, Exists
Result(verb, reply) ==
    CASE verb \in {"GET", "LPop", "RPop", "HGET"} -> Optional(reply)
      [] verb = "SET" -> Status(reply)
      [] verb \in {"LPush", "RPush", "HSET"} -> Pushed(reply)
      [] verb = "HINCRBY" -> Number(reply)
      [] verb \in {"HDEL", "DEL", "EXISTS"} -> One(reply)

\* What the call promises of a store: to tell what is there, and whether it has changed it.
Promise(store, verb, args) ==
    LET reply == Reply(store, verb, args)
        there == CASE verb \in {"DEL", "EXISTS"} -> args[1] \in DOMAIN store
                   [] verb = "HDEL" -> reply.store # store
                   [] OTHER -> reply.type \notin {"nil", "error"}
    IN  IF ~there THEN Failed
        ELSE Done(CASE reply.type = "string" -> reply.value
                    [] verb = "HINCRBY" -> reply.store[args[1]].value[args[2]]
                    [] OTHER -> <<>>)

\* The words of the text, each an argument of its own.
Sent(args) == LET words == FlattenSeq(args) IN [i \in DOMAIN words |-> Unit(words[i])]
Several(args) == \E i \in DOMAIN args : Len(args[i]) # 1
Ask(verb, args) == [verb |-> verb, args |-> args]
Key(u) == Unit(u)

Idle == [step |-> "idle", conn |-> 0, call |-> Ask("GET", <<>>), user |-> "none", record |-> <<>>, result |-> Failed, meant |-> Failed, late |-> FALSE]
Init ==
    \E made \in 0..Connections :           \* those that cannot connect are left out
       obj = [up |-> TRUE, store |-> <<>>, broken |-> {}, made |-> 1..made, queue |-> [i \in 1..made |-> i],
              at |-> [t \in Threads |-> Idle], calls |-> 0, outages |-> 0,
              users |-> [u \in Users |-> CHOOSE r \in Records : TRUE],
              held |-> [u \in Users |-> {CHOOSE r \in Records : TRUE}],   \* history: what MySQL has held of them
              model |-> <<>>,      \* history: the store that the results tell of
              lost |-> FALSE,      \* history: replies were lost, or data
              several |-> FALSE,   \* history: a command of too many words was carried out
              undefined |-> FALSE] \* a directive without argument was formatted

To(t, new) == [obj.at EXCEPT ![t] = new]
Call(t) ==
    \/ \E c \in Commands : obj' = [obj EXCEPT !.calls = @ + 1, !.at = To(t, [Idle EXCEPT !.step = "ask", !.call = c])]
    \/ \E u \in Users : obj' = [obj EXCEPT !.calls = @ + 1, !.at = To(t, [Idle EXCEPT !.step = "ask", !.call = Ask("GET", <<Key(u)>>), !.user = u])]

\* GetConnection waits for one: for ever, if none could be made.
Borrow(t) ==
    /\ obj.queue # <<>>
    /\ obj' = [obj EXCEPT !.queue = Tail(@), !.at[t].step = "send", !.at[t].conn = Head(obj.queue)]

Send(t) ==
    LET me == obj.at[t]
        reply == Reply(obj.store, me.call.verb, Sent(me.call.args))
        meant == Reply(obj.model, me.call.verb, me.call.args)
        result == Result(me.call.verb, reply)
        sent == [obj EXCEPT !.store = reply.store, !.several = @ \/ (Several(me.call.args) /\ reply.store # obj.store)]
        told(p, r) == [p EXCEPT !.at[t].step = "return", !.at[t].result = r, !.at[t].late = obj.outages > 0,
                              !.at[t].meant = Promise(obj.model, me.call.verb, me.call.args)]
    IN  IF "%" \in ToSet(FlattenSeq(me.call.args)) THEN obj' = [obj EXCEPT !.undefined = TRUE]
        ELSE IF ~obj.up \/ me.conn \in obj.broken THEN obj' = [told(obj, Failed) EXCEPT !.broken = @ \union {me.conn}]
        ELSE \/ obj' = [told(sent, result) EXCEPT !.model = IF result.done THEN meant.store ELSE @]
             \/ /\ obj.outages < MaxOutages               \* carried out, but the reply is lost
                /\ obj' = [told(sent, Failed) EXCEPT !.up = FALSE, !.outages = @ + 1, !.broken = obj.made, !.lost = TRUE]

\* The reply is freed, and then the connection given back.
Return(t) ==
    LET me == obj.at[t]
    IN  obj' = [obj EXCEPT !.queue = Append(@, me.conn), !.at[t].step = "got", !.at[t].conn = 0]

\* GetBaseInfo: what Redis does not tell, MySQL does; it is written to Redis, failing or not.
Go(t) ==
    LET me == obj.at[t]
    IN  IF me.user # "none" /\ me.call.verb = "GET" /\ ~me.result.done
        THEN LET record == obj.users[me.user]
             IN  obj' = [obj EXCEPT !.at[t] = [me EXCEPT !.step = "ask", !.call = Ask("SET", <<Key(me.user), record>>), !.record = record]]
        ELSE obj' = [obj EXCEPT !.at[t] = Idle]

\* The record a caller of GetBaseInfo is given.
Given(me) == IF me.call.verb = "GET" THEN me.result.value ELSE me.record

Next ==
    /\ ~obj.undefined
    /\ \/ \E t \in Threads :
             \/ obj.at[t].step = "idle" /\ obj.calls < MaxCalls /\ Call(t)
             \/ obj.at[t].step = "ask" /\ Borrow(t)
             \/ obj.at[t].step = "send" /\ Send(t)
             \/ obj.at[t].step = "return" /\ Return(t)
             \/ obj.at[t].step = "got" /\ Go(t)
       \/ /\ obj.up /\ obj.outages < MaxOutages           \* what was not saved is gone
          /\ \E kept \in {obj.store, <<>>} :
               obj' = [obj EXCEPT !.up = FALSE, !.outages = @ + 1, !.broken = obj.made, !.store = kept, !.lost = @ \/ kept # obj.store]
       \/ ~obj.up /\ obj' = [obj EXCEPT !.up = TRUE]
       \/ \E u \in Users, r \in Records :                 \* the gate server resets a password
             r \notin obj.held[u] /\ obj' = [obj EXCEPT !.users[u] = r, !.held[u] = @ \union {r}]

(***************************************************************************)
(* Properties.                                                             *)
(***************************************************************************)
Busy == {t \in Threads : obj.at[t].conn # 0}
\* A connection is in the queue or with one thread, whatever the command led to; a thread
\* can only wait for one because the others have them all, or none could be made at the start.
ConnectionsComeBack ==
    /\ \A c \in obj.made : Cardinality({i \in DOMAIN obj.queue : obj.queue[i] = c}) + Cardinality({t \in Busy : obj.at[t].conn = c}) = 1
    /\ obj.queue = <<>> => Cardinality(Busy) = Cardinality(obj.made)

\* A result says what Redis did, or is a failure for a reason: an outage, at any time
\* before, or words that no command has; and what is in Redis is what the results tell,
\* but for replies and data that were lost and for values taken apart at their spaces.
ResultsAreTrue ==
    /\ \A t \in Threads :
          LET me == obj.at[t]
          IN  me.step \in {"return", "got"} /\ me.result # me.meant =>
                 \/ obj.outages > 0 \/ obj.several
                 \/ Several(me.call.args)
    /\ ~obj.lost /\ ~obj.several => obj.store = obj.model

\* One outage and no command of this process is answered any more: its connections are
\* not made again.
OutageIsFinal ==
    \A t \in Threads : obj.at[t].late => ~obj.at[t].result.done

\* A caller is given a record that MySQL has held of this user, if not the last; one of
\* several words is never found in Redis.
RecordsAreOfUser ==
    /\ \A t \in Threads :
          LET me == obj.at[t]
          IN  me.user # "none" /\ me.step = "got" /\ (me.call.verb = "SET" \/ me.result.done) => Given(me) \in obj.held[me.user]
    /\ \A u \in Users : Key(u) \in DOMAIN obj.store => Entry(obj.store, Key(u)).value \in {r \in obj.held[u] : Len(r) = 1}
=============================================================================
