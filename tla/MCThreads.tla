----------------------------- MODULE MCThreads -----------------------------
(***************************************************************************)
(* Instances for TLC of what runs work: the thread pools, the thread that  *)
(* can be interrupted, the parallel search and sort, coroutines, the       *)
(* handlers of the client's dialogs, and the frames of a level of the      *)
(* platform game.  A behaviour is one of one of them (`part`).             *)
(***************************************************************************)
EXTENDS Integers, Sequences, TLC

VARIABLES part, obj, th

vars == <<part, obj, th>>

Pool == INSTANCE ThreadPool WITH Threads <- 1..2, MaxTasks <- 3, Workers <- 1, MaxStops <- 0
Steal == INSTANCE ThreadPool WITH Threads <- {}, Workers <- 3, MaxTasks <- 2, MaxStops <- 1
Interrupt == INSTANCE InterruptFlag
Parallel == INSTANCE ParallelAlgorithms WITH MaxLength <- 6, PerThread <- 2, Hardware <- 3, MaxElements <- 3, MaxKey <- 2
Co == INSTANCE CoTimers WITH Parents <- 2, Width <- 2, MaxTime <- 3

Dialogs == INSTANCE ClientDialogs WITH Tips <- <<<<1>>, <<3>>>>, FirstTips <- 1, MaxBytes <- 3, MaxLabels <- 3,
    Applicants <- {"ann"}, MaxQueries <- 2, Urls <- {<<2>>, <<2, 3>>, <<4, 0, 4>>}, MaxDoc <- 4, MaxInserted <- 3,
    Countdown <- 1, Counter <- 2, MaxHttp <- 1, MaxForms <- 3, Unsure <- {"email", "confirm"}

\* A small level: a ladder, a slope, a platform, a pit and thorns; then enemies and a crate.
At(kind, x, y, w, h, gravity, min, max, speed, jump) ==
    [kind |-> kind, x |-> x, y |-> y, w |-> w, h |-> h, vx |-> 0, vy |-> 0, force |-> 0, gravity |-> gravity,
     flags |-> [below |-> FALSE, above |-> FALSE, left |-> FALSE, right |-> FALSE, ladder |-> FALSE, top |-> FALSE],
     active |-> TRUE, forward |-> FALSE, timer |-> 0, min |-> min, max |-> max, speed |-> speed, jump |-> jump, interval |-> 2]
Climbs == <<<<"empty", "empty", "empty", "empty", "empty">>,
            <<"empty", "ladder", "empty", "empty", "empty">>,
            <<"empty", "ladder", "unisolid", "empty", "solid">>,
            <<"slope_0_1", "ladder", "empty", "hazard", "solid">>,
            <<"solid", "solid", "empty", "solid", "solid">>>>
Meadow == <<<<"empty", "empty", "empty", "empty", "empty">>,
            <<"empty", "empty", "empty", "empty", "empty">>,
            <<"empty", "empty", "empty", "empty", "solid">>,
            <<"solid", "solid", "solid", "solid", "solid">>>>
Hero(x, y, h) == At("player", x, y, 3, h, TRUE, 0, 0, 0, 0)
Crate == At("solid", 6, 9, 2, 3, FALSE, 0, 0, 0, 0)
Places == [climbs |-> [map |-> Climbs, start |-> <<Hero(5, 5, 5)>>, keys |-> {{}, {"left"}, {"right"}, {"up"}, {"down"}, {"jump"}, {"right", "jump"}}, fast |-> 2, run |-> 2],
   enemies |-> [map |-> Meadow, keys |-> {{"right"}, {"jump"}}, fast |-> 3, run |-> 1, start |->
     <<Hero(0, 2, 3), At("opossum", 14, 8, 4, 4, TRUE, 10, 14, 2, 0), At("eagle", 17, 5, 3, 3, FALSE, 3, 5, 2, 0), Crate>>],
   frogs |-> [map |-> Meadow, keys |-> {{"right"}, {"jump"}}, fast |-> 3, run |-> 1, start |-> <<Hero(0, 2, 3), At("frog", 13, 9, 3, 3, TRUE, 10, 13, 1, 2), Crate>>]]
World(place) == INSTANCE SunnyWorld WITH Map <- Places[place].map, Tile <- 4, Start <- Places[place].start, Keys <- Places[place].keys,
    Gravity <- 1, MaxSpeed <- Places[place].fast, MoveForce <- 1, MaxRun <- Places[place].run,
    ClimbSpeed <- 1, JumpVelocity <- 4, Stunned <- 1, CoyoteTime <- 1, Invincible <- 2, Margin <- 2

Init ==
    \/ part = "pool" /\ Pool!Init
    \/ part = "steal" /\ Steal!StealInit
    \/ part = "interrupt" /\ Interrupt!Init
    \/ part = "parallel" /\ Parallel!Init
    \/ part = "co" /\ Co!Init /\ th = <<>>
    \/ part = "labels" /\ Dialogs!LabelsInit /\ th = <<>>
    \/ part = "chat" /\ Dialogs!ChatInit /\ th = <<>>
    \/ part = "edit" /\ Dialogs!EditInit /\ th = <<>>
    \/ part = "forms" /\ Dialogs!FormsInit /\ th = <<>>
    \/ \E place \in DOMAIN Places : part = place /\ World(place)!Init /\ th = <<>>
Next ==
    /\ UNCHANGED part
    /\ \/ part = "pool" /\ Pool!Next
       \/ part = "steal" /\ Steal!StealNext
       \/ part = "interrupt" /\ Interrupt!Next
       \/ part = "parallel" /\ Parallel!Next
       \/ part = "co" /\ Co!Next /\ UNCHANGED th
       \/ part = "labels" /\ Dialogs!LabelsNext /\ UNCHANGED th
       \/ part = "chat" /\ Dialogs!ChatNext /\ UNCHANGED th
       \/ part = "edit" /\ Dialogs!EditNext /\ UNCHANGED th
       \/ part = "forms" /\ Dialogs!FormsNext /\ UNCHANGED th
       \/ \E place \in DOMAIN Places : part = place /\ World(place)!Next /\ UNCHANGED th

\* The fairness of the modules.
In(p, A) == part = p /\ A /\ UNCHANGED part
Spec ==
    /\ Init /\ [][Next]_vars
    /\ WF_vars(In("pool", Pool!Enqueue))
    /\ WF_vars(In("pool", Pool!NotifyOne))
    /\ WF_vars(In("pool", Pool!NotifyAll))
    /\ \A t \in 1..2 : WF_vars(In("pool", Pool!Worker(t)))
    /\ WF_vars(In("steal", Steal!Push))
    /\ WF_vars(In("steal", Steal!Thief(0)))
    /\ WF_vars(In("interrupt", Interrupt!LockFlag))
    /\ WF_vars(In("interrupt", Interrupt!PointAny))
    /\ WF_vars(In("interrupt", Interrupt!SleepAny))
    /\ WF_vars(In("interrupt", Interrupt!Pred))
    /\ WF_vars(In("interrupt", Interrupt!Future))
    /\ \A w \in {"any", "pred", "future"} : WF_vars(In("interrupt", Interrupt!NotifyWaiter(w)))

\* Tasks are taken in order and once, workers are woken for them, an interrupt is neither
\* slept through nor forgotten, what a search returns is there, and a sort ends with all in order; the
\* dialogs show and send what the handlers were told; the bodies of a level of the
\* platform game keep out of its walls, and their states and ranges, frame after frame.
WorkIsServed ==
    /\ part = "pool" => Pool!TasksAreServed /\ Pool!StopIsMissedByOne
    /\ part = "steal" => Steal!RunOnce
    /\ part = "interrupt" => Interrupt!InterruptIsSeen
    /\ part = "parallel" => Parallel!FindAnswers /\ Parallel!SortEnds
    /\ part = "labels" => Dialogs!LabelsAgree /\ Dialogs!DiesOfRemoval
    /\ part = "chat" => Dialogs!PagesAgree /\ Dialogs!ButtonsAreTrue /\ Dialogs!SearchesEnd
    /\ part = "edit" => Dialogs!SentAsWritten
    /\ part = "forms" => Dialogs!FormsAgree
    /\ \A place \in DOMAIN Places : part = place =>
         World(place)!NoJumpInTheAir /\ World(place)!StateFits /\ World(place)!EnemiesKeepRange
    /\ part = "climbs" => World("climbs")!EntersByCorners

\* Coroutines are resumed in order, by what they await, and while they exist.
CoroutinesAreServed == part = "co" => Co!NothingDestroyedIsUsed /\ Co!AwaitersGetTheirs

\* What was committed is run, and an interrupt ends a wait, that with a predicate once the
\* predicate holds: CommittedIsRun, OneWorkerRunsAll and InterruptEndsWait of the modules.
WorkIsDone ==
    /\ \A k \in 1..3 : part = "pool" /\ Pool!Committed(k) ~> part = "pool" /\ Pool!RunOrStopped(k)
    /\ \A k \in 1..2 : part = "steal" /\ Steal!Handed(k) ~> part = "steal" /\ Steal!RunOrEnded(k)
    /\ \A w \in {"any", "pred", "future"} :
         part = "interrupt" /\ Interrupt!Interrupted(w) ~> part = "interrupt" /\ Interrupt!At(w, "interrupted")
=============================================================================
