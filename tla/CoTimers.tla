------------------------------ MODULE CoTimers ------------------------------
(***************************************************************************)
(* The coroutine runtime (co_async): when_all and when_any start tasks that *)
(* sleep until a time and then return or throw; TimerLoop resumes them one *)
(* by one in the order of the times.  It runs on one thread, and a task    *)
(* that ends resumes the coroutine that awaits it at once, which destroys  *)
(* the other tasks: all of that is one step.                               *)
(***************************************************************************)
EXTENDS Naturals, Sequences, FiniteSets, TLC

CONSTANTS Parents,      \* how many coroutines await a when_all or a when_any
          Width,        \* how many tasks each awaits
          MaxTime       \* bound: times to sleep until; at time 0 a task does not sleep

VARIABLES obj

Tasks == (1..Parents) \X (1..Width)
Children(p) == {p} \X (1..Width)

\* Each awaiter starts its second task first, and its first task last.
StartOrder ==
    [i \in 1..(Parents * Width) |->
        <<(i - 1) \div Width + 1, IF i % Width = 0 THEN 1 ELSE (i % Width) + 1>>]

\* timers: time -> task (a std::map: one task for each time).  index: task -> time, the
\* iterator that search_table_ keeps.  undefined: something destroyed was used.
Init ==
    \E kind \in [1..Parents -> {"all", "any"}], at \in [Tasks -> 0..MaxTime], throws \in SUBSET Tasks :
        obj = [kind |-> kind, at |-> at, throws |-> throws, todo |-> StartOrder,
               timers |-> <<>>, index |-> <<>>, gone |-> {},
               result |-> [p \in 1..Parents |-> 0], count |-> [p \in 1..Parents |-> Width],
               undefined |-> FALSE,
               collided |-> FALSE]        \* history: two tasks slept until the same time

Without(f, xs) == [y \in DOMAIN f \ xs |-> f[y]]

(***************************************************************************)
(* TimerLoop, as functions of the state.                                   *)
(***************************************************************************)
AddTimer(o, c) ==
    LET e == o.at[c]
    IN  [o EXCEPT !.timers = @ @@ (e :> c), !.index = @ @@ (c :> e), !.collided = @ \/ e \in DOMAIN o.timers]

\* The tasks of cs that sleep leave the loop; to erase what was erased is undefined.
DeleteTasks(o, cs) ==
    LET sleeping == cs \intersect DOMAIN o.index
        times == {o.index[c] : c \in sleeping}
    IN  [o EXCEPT !.timers = Without(@, times), !.index = Without(@, sleeping),
                  !.undefined = @ \/ ~(times \subseteq DOMAIN o.timers)
                                  \/ Cardinality(times) < Cardinality(sleeping)]

(***************************************************************************)
(* The awaiting coroutine is resumed: it goes on to its end.               *)
(***************************************************************************)
Threw == Width + 1
AllDone == Width + 2

\* Mutant: the tasks that have not ended stay in the loop.
ResumedKeeping(o, p, result) ==
    IF o.result[p] # 0 THEN [o EXCEPT !.undefined = TRUE]
    ELSE [o EXCEPT !.result[p] = result, !.gone = @ \union Children(p)]

Resumed(o, p, result) ==
    IF o.result[p] # 0 THEN [o EXCEPT !.undefined = TRUE]
    ELSE [DeleteTasks(o, Children(p)) EXCEPT !.result[p] = result, !.gone = @ \union Children(p)]

\* When the task they await has ended.
WhenAllHelper(o, c) ==
    LET p == c[1]
        counted == [o EXCEPT !.count[p] = @ - 1]
    IN  IF c \in o.throws THEN Resumed(o, p, Threw)
        ELSE IF counted.count[p] = 0 THEN Resumed(counted, p, AllDone)
        ELSE counted
WhenAnyHelper(o, c) == Resumed(o, c[1], IF c \in o.throws THEN Threw ELSE c[2])
Finished(o, c) == IF o.kind[c[1]] = "all" THEN WhenAllHelper(o, c) ELSE WhenAnyHelper(o, c)

Start ==
    /\ obj.todo # <<>>
    /\ LET c == Head(obj.todo)
           o == [obj EXCEPT !.todo = Tail(@)]
       IN  obj' = IF c \in obj.gone THEN [o EXCEPT !.undefined = TRUE]
                  ELSE IF obj.at[c] = 0 THEN Finished(o, c)
                  ELSE AddTimer(o, c)

RunFirst ==
    /\ obj.todo = <<>>
    /\ \E e \in DOMAIN obj.timers :
        /\ \A f \in DOMAIN obj.timers : e <= f
        /\ obj' = Finished(DeleteTasks(obj, {obj.timers[e]}), obj.timers[e])

Next == ~obj.undefined /\ (Start \/ RunFirst)
Spec == Init /\ [][Next]_obj

(***************************************************************************)
(* Properties.                                                             *)
(***************************************************************************)
\* A task other than the first that does not sleep, and resumes its awaiter.
EndsInLoop(c) == c[2] > 1 /\ obj.at[c] = 0 /\ (obj.kind[c[1]] = "any" \/ c \in obj.throws)

\* Nothing is used after it was destroyed, unless two tasks slept until the same time
\* or a task resumed its awaiter from the loop that was still starting tasks.
NothingDestroyedIsUsed == obj.undefined => obj.collided \/ \E c \in Tasks : EndsInLoop(c)

\* Unless two tasks slept until the same time: when_any returns the result of the first
\* to end, when_all returns when all have ended, an exception wins over both, and the
\* loop ends only when nobody is waiting any more.
AwaitersGetTheirs ==
    \/ obj.collided \/ obj.undefined
    \/ /\ \A p \in 1..Parents :
            LET earlier(c, d) == obj.at[c] < obj.at[d] \/ obj.at[c] = 0
            IN  /\ obj.result[p] \in 1..Width =>
                    \A c \in Children(p) \ {<<p, obj.result[p]>>} : earlier(<<p, obj.result[p]>>, c)
                /\ obj.result[p] = AllDone => Children(p) \intersect obj.throws = {}
                /\ obj.result[p] = Threw => Children(p) \intersect obj.throws # {}
       /\ obj.todo = <<>> /\ obj.timers = <<>> => \A p \in 1..Parents : obj.result[p] # 0
=============================================================================
