--------------------------- MODULE InterruptFlag ---------------------------
(***************************************************************************)
(* InterruptFlag and the waits that an interrupt should end                *)
(* (interruptible_thread.h): Wait on a condition_variable_any, which holds *)
(* set_clear_mutex_ from the test of the flag to the sleep; the wait with  *)
(* a predicate, which tests the flag before and after its loop only; and   *)
(* that for a future, whose loop tests the flag.  The last two wake every  *)
(* millisecond: they are never asleep for good.                            *)
(***************************************************************************)
EXTENDS Naturals, FiniteSets

VARIABLES obj, th

vars == <<obj, th>>

Waiters == {"any", "pred", "future"}
SetterOf(w) == [any |-> "setAny", pred |-> "setPred", future |-> "setFuture"][w]
Actors == Waiters \union {SetterOf(w) : w \in Waiters}

\* Each waiter has its own flag; `holds`: the predicate, and whether the future is ready.
Init ==
    /\ obj = [flag |-> [w \in Waiters |-> FALSE], mutex |-> [w \in Waiters |-> "free"],
              cond |-> [w \in Waiters |-> FALSE],       \* thread_cond_any_ or thread_cond_ is set
              holds |-> [w \in {"pred", "future"} |-> FALSE],
              waited |-> FALSE,       \* history: the wait with a predicate has come to its loop,
              told |-> FALSE]         \* and its flag was set when the loop ended
    /\ th = [a \in Actors |-> "start"]

At(a, pc) == th[a] = pc
Go(a, pc) == th' = [th EXCEPT ![a] = pc]

(***************************************************************************)
(* Set, in the thread that interrupts.                                     *)
(***************************************************************************)
StoreFlag(w) ==
    /\ At(SetterOf(w), "start")
    /\ obj' = [obj EXCEPT !.flag[w] = TRUE]
    /\ Go(SetterOf(w), "notify")

\* Under set_clear_mutex_.  The notification of the wait with a predicate only cuts its
\* millisecond short.
NotifyWaiter(w) ==
    /\ At(SetterOf(w), "notify")
    /\ obj.mutex[w] = "free"
    /\ th' = [th EXCEPT ![SetterOf(w)] = "done", ![w] = IF @ = "asleep" /\ obj.cond[w] THEN "woken" ELSE @]
    /\ UNCHANGED obj

(***************************************************************************)
(* Wait(condition_variable_any).  It may also be woken by another notifier. *)
(***************************************************************************)
LockFlag ==
    /\ At("any", "start") \/ At("any", "woken")
    /\ obj.mutex["any"] = "free"
    /\ obj' = [obj EXCEPT !.mutex["any"] = "held", !.cond["any"] = TRUE]
    /\ Go("any", IF At("any", "start") THEN "before" ELSE "after")

\* InterruptionPoint; the destructor of the lock clears the pointer and unlocks.
PointAny ==
    /\ At("any", "before") \/ At("any", "after")
    /\ IF At("any", "before") /\ ~obj.flag["any"]
       THEN Go("any", "sleep") /\ UNCHANGED obj
       ELSE /\ Go("any", IF obj.flag["any"] THEN "interrupted" ELSE "returned")
            /\ obj' = [obj EXCEPT !.mutex["any"] = "free", !.cond["any"] = FALSE]

SleepAny ==
    /\ At("any", "sleep")
    /\ obj' = [obj EXCEPT !.mutex["any"] = "free"]
    /\ Go("any", "asleep")

OtherNotify == At("any", "asleep") /\ Go("any", "woken") /\ UNCHANGED obj

(***************************************************************************)
(* InterruptibleWait with a predicate.                                     *)
(***************************************************************************)
PointPred ==
    /\ At("pred", "start") \/ At("pred", "end")
    /\ Go("pred", IF obj.flag["pred"] THEN "interrupted"
                  ELSE IF At("pred", "start") THEN "set" ELSE "returned")
    /\ obj' = IF At("pred", "end") THEN [obj EXCEPT !.cond["pred"] = FALSE] ELSE obj

SetConditionVariable ==
    /\ At("pred", "set")
    /\ obj.mutex["pred"] = "free"
    /\ obj' = [obj EXCEPT !.cond["pred"] = TRUE, !.waited = TRUE]
    /\ Go("pred", "loop")

\* while (!pred()) wait_for(1 ms)
LoopPred ==
    /\ At("pred", "loop")
    /\ obj.holds["pred"]
    /\ obj' = [obj EXCEPT !.told = obj.flag["pred"]]
    /\ Go("pred", "end")

Pred == PointPred \/ SetConditionVariable \/ LoopPred

(***************************************************************************)
(* InterruptibleWait for a future: its loop ends by the flag, too.         *)
(***************************************************************************)
LoopFuture ==
    /\ At("future", "start")
    /\ obj.flag["future"] \/ obj.holds["future"]
    /\ Go("future", "end")
    /\ UNCHANGED obj

PointFuture ==
    /\ At("future", "end")
    /\ Go("future", IF obj.flag["future"] THEN "interrupted" ELSE "returned")
    /\ UNCHANGED obj

Future == LoopFuture \/ PointFuture
BecomesTrue(w) == ~obj.holds[w] /\ obj' = [obj EXCEPT !.holds[w] = TRUE] /\ UNCHANGED th

Next ==
    \/ \E w \in Waiters : StoreFlag(w) \/ NotifyWaiter(w)
    \/ LockFlag \/ PointAny \/ SleepAny \/ OtherNotify
    \/ Pred \/ Future \/ \E w \in {"pred", "future"} : BecomesTrue(w)

\* A thread that can go on does; nobody has to interrupt, or to make a predicate hold.
Fairness ==
    /\ WF_vars(LockFlag) /\ WF_vars(PointAny) /\ WF_vars(SleepAny) /\ WF_vars(Pred) /\ WF_vars(Future)
    /\ \A w \in Waiters : WF_vars(NotifyWaiter(w))
Spec == Init /\ [][Next]_vars /\ Fairness

(***************************************************************************)
(* Properties.                                                             *)
(***************************************************************************)
\* A thread in Wait never sleeps through an interrupt: the flag is stored before the
\* mutex is taken, and the mutex is held from its test to the sleep.  An interrupt that
\* came while the predicate was waited for is not forgotten: the wait does not return
\* then, but throws; yet never before the predicate holds.  No wait returns before what
\* it waits for is there.
InterruptIsSeen ==
    /\ At("any", "asleep") => ~At("setAny", "done")
    /\ At("pred", "returned") => ~obj.told
    /\ At("pred", "interrupted") /\ obj.waited => obj.holds["pred"]
    /\ \A w \in {"pred", "future"} : At(w, "returned") => obj.holds[w]

\* An interrupt ends Wait and the wait for a future; the wait with a predicate only once
\* the predicate holds.
Interrupted(w) ==
    /\ obj.flag[w]
    /\ \/ w = "any" /\ At(w, "asleep")
       \/ w = "pred" /\ At(w, "loop") /\ obj.holds[w]
       \/ w = "future" /\ At(w, "start")
InterruptEndsWait == \A w \in Waiters : Interrupted(w) ~> At(w, "interrupted")
=============================================================================
