----------------------------- MODULE ThreadPool -----------------------------
(***************************************************************************)
(* The thread pools.  ThreadPool (thread_pool.h): workers wait for tasks   *)
(* under mtx_; stop_ is an atomic that Stop sets, and Commit reads,        *)
(* without it.  StealThreadPool (steal_thread_pool.h), below, is another   *)
(* machine: every worker has a queue, takes from its head, and when it is  *)
(* empty steals from the tails of the others in turn.                      *)
(***************************************************************************)
EXTENDS Naturals, Sequences, FiniteSets

CONSTANTS Threads,              \* the workers of a ThreadPool
          Workers,              \* how many a StealThreadPool has: 0..Workers - 1
          MaxTasks,             \* bound: calls of Commit
          MaxStops              \* bound: calls of Stop of a StealThreadPool

VARIABLES obj, th

vars == <<obj, th>>

\* clients: the calls of Commit that have found stop_ unset and not yet queued their
\* task; notifies: those that have yet to notify.  stopping: how far the destructor is.
Init ==
    /\ obj = [tasks |-> <<>>, stop |-> FALSE, stopping |-> "no", clients |-> {}, commits |-> 0,
              notifies |-> 0,
              run |-> <<>>,         \* history: the tasks in the order in which they were taken
              queued |-> <<>>,      \* history: the tasks in the order in which they were queued
              missed |-> {}]        \* history: workers that notify_all found between test and sleep
    /\ th = [t \in Threads |-> "loop"]

At(t, pc) == th[t] = pc
Go(t, pc) == th' = [th EXCEPT ![t] = pc]
Asleep == {t \in Threads : At(t, "asleep")}

(***************************************************************************)
(* Commit, and Stop of the destructor, after which nothing is committed:   *)
(* but a Commit may have read stop_ before.                                *)
(***************************************************************************)
Commit ==
    /\ obj.commits < MaxTasks
    /\ ~obj.stop
    /\ obj' = [obj EXCEPT !.commits = @ + 1, !.clients = @ \union {obj.commits + 1}]
    /\ UNCHANGED th

\* The queue is locked from a worker's test to its sleep.
MtxFree == \A t \in Threads : ~At(t, "sleep")

\* Mutant: only the task that finds the queue empty notifies.
EnqueueFirst ==
    /\ MtxFree
    /\ \E k \in obj.clients :
        obj' = [obj EXCEPT !.tasks = Append(@, k), !.queued = Append(@, k), !.clients = @ \ {k},
                           !.notifies = IF obj.tasks = <<>> THEN @ + 1 ELSE @]
    /\ UNCHANGED th

Enqueue ==
    /\ MtxFree
    /\ \E k \in obj.clients :
        obj' = [obj EXCEPT !.tasks = Append(@, k), !.queued = Append(@, k), !.clients = @ \ {k}, !.notifies = @ + 1]
    /\ UNCHANGED th

\* After the mutex has been released.
NotifyOne ==
    /\ obj.notifies > 0
    /\ obj' = [obj EXCEPT !.notifies = @ - 1]
    /\ \/ Asleep = {} /\ UNCHANGED th
       \/ \E t \in Asleep : Go(t, "test")

Stop ==
    /\ ~obj.stop
    /\ obj' = [obj EXCEPT !.stop = TRUE, !.stopping = "notify"]
    /\ UNCHANGED th

NotifyAll ==
    /\ obj.stopping = "notify"
    /\ obj' = [obj EXCEPT !.stopping = "join", !.missed = {t \in Threads : At(t, "sleep")}]
    /\ th' = [t \in Threads |-> IF At(t, "asleep") THEN "test" ELSE th[t]]

Join ==
    /\ obj.stopping = "join"
    /\ \A t \in Threads : At(t, "ended")
    /\ obj' = [obj EXCEPT !.stopping = "joined"]
    /\ UNCHANGED th

(***************************************************************************)
(* A worker.  A spurious wake-up is a move from asleep to test.            *)
(***************************************************************************)
Loop(t) ==
    /\ At(t, "loop")
    /\ Go(t, IF obj.stop THEN "ended" ELSE "test")
    /\ UNCHANGED obj

Test(t) ==
    /\ At(t, "test")
    /\ MtxFree
    /\ \/ obj.stop /\ Go(t, "ended") /\ UNCHANGED obj
       \/ /\ ~obj.stop /\ obj.tasks # <<>>
          /\ obj' = [obj EXCEPT !.tasks = Tail(@), !.run = Append(@, Head(obj.tasks))]
          /\ Go(t, "run")
       \/ ~obj.stop /\ obj.tasks = <<>> /\ Go(t, "sleep") /\ UNCHANGED obj

Sleep(t) == At(t, "sleep") /\ Go(t, "asleep") /\ UNCHANGED obj
Run(t) == At(t, "run") /\ Go(t, "loop") /\ UNCHANGED obj

Worker(t) == Loop(t) \/ Test(t) \/ Sleep(t) \/ Run(t)
Next == Commit \/ Enqueue \/ NotifyOne \/ Stop \/ NotifyAll \/ Join \/ \E t \in Threads : Worker(t)

\* A thread that can go on does, and so does a Commit that has begun; a task ends.
Fairness == WF_vars(Enqueue) /\ WF_vars(NotifyOne) /\ WF_vars(NotifyAll) /\ \A t \in Threads : WF_vars(Worker(t))
Spec == Init /\ [][Next]_vars /\ Fairness

(***************************************************************************)
(* Properties.                                                             *)
(***************************************************************************)
\* Tasks are taken in the order in which they were queued, each once; and while the
\* pool is not stopped a worker sleeps over queued tasks only if as many are awake, or
\* about to be notified, as there are tasks.
TasksAreServed ==
    /\ obj.queued = obj.run \o obj.tasks
    /\ Asleep # {} /\ ~obj.stop =>
        Len(obj.tasks) <= obj.notifies + Cardinality({t \in Threads : At(t, "test")})

\* Stop is missed only by a worker that had tested and was not asleep yet, at most
\* one, since it holds the mutex: the join then waits for ever.
StopIsMissedByOne ==
    /\ Cardinality(obj.missed) <= 1
    /\ obj.stopping = "join" => Asleep \subseteq obj.missed

\* What was committed is run unless the pool is stopped; a stopped pool leaves the
\* queue as it is.
Committed(k) == k \in obj.clients
RunOrStopped(k) == obj.stop \/ k \in {obj.run[i] : i \in DOMAIN obj.run}
CommittedIsRun == \A k \in 1..MaxTasks : Committed(k) ~> RunOrStopped(k)

-----------------------------------------------------------------------------
(***************************************************************************)
(* StealThreadPool.  Commit chooses the next queue by reading and then     *)
(* writing thread_index.  Start only clears stop_: workers that have ended *)
(* stay so.                                                                *)
(***************************************************************************)
W == 0..(Workers - 1)

\* clients[k]: what Commit of task k has read, from the test of stop_ to its Push.
StealInit ==
    /\ obj = [queues |-> [w \in W |-> <<>>], stop |-> FALSE, index |-> 0, commits |-> 0, stops |-> 0,
              clients |-> {}, run |-> {}, twice |-> FALSE]    \* history: tasks run, any of them twice
    /\ th = [w \in W |-> [pc |-> "loop", i |-> 0]]

(***************************************************************************)
(* Commit, Stop, Start.                                                    *)
(***************************************************************************)
ReadIndex ==
    /\ obj.commits < MaxTasks
    /\ ~obj.stop
    /\ obj' = [obj EXCEPT !.commits = @ + 1,
                          !.clients = @ \union {[task |-> obj.commits + 1, to |-> (obj.index + 1) % Workers]}]
    /\ UNCHANGED th

\* thread_index.store, then Push: nothing is read in between.
Push ==
    /\ \E c \in obj.clients :
        obj' = [obj EXCEPT !.index = c.to, !.clients = @ \ {c}, !.queues[c.to] = Append(@, c.task)]
    /\ UNCHANGED th

SetStop ==
    /\ \/ ~obj.stop /\ obj.stops < MaxStops /\ obj' = [obj EXCEPT !.stop = TRUE, !.stops = @ + 1]
       \/ obj.stop /\ obj' = [obj EXCEPT !.stop = FALSE]
    /\ UNCHANGED th

(***************************************************************************)
(* WorkerThread.                                                           *)
(***************************************************************************)
Move(w, pc, i) == th' = [th EXCEPT ![w] = [pc |-> pc, i |-> i]]
Ran(k) == [obj EXCEPT !.run = @ \union {k}, !.twice = @ \/ k \in obj.run]

StealLoop(w) ==
    /\ th[w].pc = "loop"
    /\ Move(w, IF obj.stop THEN "ended" ELSE "pop", 0)
    /\ UNCHANGED obj

TryPop(w) ==
    /\ th[w].pc = "pop"
    /\ LET q == obj.queues[w]
       IN  \/ q = <<>> /\ Move(w, "steal", 0) /\ UNCHANGED obj
           \/ q # <<>> /\ Move(w, "loop", 0) /\ obj' = [Ran(Head(q)) EXCEPT !.queues[w] = Tail(q)]

\* Mutant: the last queue is never looked at.
TryStealButLast(w) ==
    /\ th[w].pc = "steal"
    /\ LET i == th[w].i
       IN  \/ i = Workers - 1 /\ Move(w, "loop", 0) /\ UNCHANGED obj
           \/ /\ i < Workers - 1
              /\ LET q == obj.queues[i]
                 IN  \/ (i = w \/ q = <<>>) /\ Move(w, "steal", i + 1) /\ UNCHANGED obj
                     \/ /\ i # w /\ q # <<>>
                        /\ Move(w, "loop", 0)
                        /\ obj' = [Ran(q[Len(q)]) EXCEPT !.queues[i] = SubSeq(q, 1, Len(q) - 1)]

TrySteal(w) ==
    /\ th[w].pc = "steal"
    /\ LET i == th[w].i
       IN  \/ i = Workers /\ Move(w, "loop", 0) /\ UNCHANGED obj
           \/ /\ i < Workers
              /\ LET q == obj.queues[i]
                 IN  \/ (i = w \/ q = <<>>) /\ Move(w, "steal", i + 1) /\ UNCHANGED obj
                     \/ /\ i # w /\ q # <<>>
                        /\ Move(w, "loop", 0)
                        /\ obj' = [Ran(q[Len(q)]) EXCEPT !.queues[i] = SubSeq(q, 1, Len(q) - 1)]

Thief(w) == StealLoop(w) \/ TryPop(w) \/ TrySteal(w)
StealNext == ReadIndex \/ Push \/ SetStop \/ \E w \in W : Thief(w)

\* One worker is enough: worker 0 is scheduled, the others may never be.
StealFairness == WF_vars(Push) /\ WF_vars(Thief(0))
StealSpec == StealInit /\ [][StealNext]_vars /\ StealFairness

(***************************************************************************)
(* Properties.                                                             *)
(***************************************************************************)
\* No task is run twice; none is forgotten.
RunOnce ==
    /\ ~obj.twice
    /\ Cardinality(obj.run) + Cardinality(obj.clients) +
        Cardinality({p \in W \X (1..MaxTasks) : p[2] <= Len(obj.queues[p[1]])}) = obj.commits

\* As long as one worker has not seen a stop, whatever was committed is run, on
\* whichever queue it is; after that a restarted pool accepts tasks for nobody.
Handed(k) == \E c \in obj.clients : c.task = k
RunOrEnded(k) == k \in obj.run \/ th[0].pc = "ended"
OneWorkerRunsAll == \A k \in 1..MaxTasks : Handed(k) ~> RunOrEnded(k)
=============================================================================
