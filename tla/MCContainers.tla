---------------------------- MODULE MCContainers ----------------------------
(***************************************************************************)
(* Instances of the containers, and of Tetris, for TLC.  A behaviour is    *)
(* one of one container (`part`); they share the names of the threads and  *)
(* nodes, and the variables: the object and what the threads do with it.   *)
(***************************************************************************)
EXTENDS Naturals, TLC

CONSTANTS t1, t2, t3, t4, n1, n2, n3, n4, Null

Threads == {t1, t2, t3}
Nodes == {n1, n2, n3}

VARIABLES part, obj, th

Ring == INSTANCE CircularQueue WITH N <- 1, MaxPushes <- 3, MaxPops <- 3
Pending == INSTANCE LockFreeStack WITH MaxPops <- 4
Hazard == INSTANCE HazardPointerStack WITH MaxPops <- 3
Counted == INSTANCE RefCountStack WITH MaxPops <- 3, MaxCount <- 5
Queue == INSTANCE LockFreeQueue WITH Nodes <- Nodes \union {n4}, MaxPushes <- 2, MaxPops <- 2, MaxCount <- 3
Locked == INSTANCE ThreadSafeQueue WITH MaxPushes <- 3, MaxPops <- 4
Chan == INSTANCE Channel WITH Threads <- Threads \union {t4}, Capacities <- {0, 1, 2}, MaxSends <- 3, MaxReceives <- 3
\* A tree that is not stored and splits its root twice, and one that is.
Tree == INSTANCE Database WITH Keys <- 1..6, MaxCells <- 1, MaxChildren <- 2, MaxExits <- 0
Stored == INSTANCE Database WITH Keys <- 1..5, MaxCells <- 1, MaxChildren <- 2, MaxExits <- 1
Templates == INSTANCE ContainerTemplates WITH Values <- {1, 2}, MaxSize <- 2, MaxNodes <- 3
Locks == INSTANCE LockedContainers WITH Keys <- 1..3, Values <- {"x", "y"}, Buckets <- 2, N <- 1, MaxCalls <- 4, MaxWalks <- 3
\* Small fields, so that pieces meet: keys between the frames, and keys at any time.
Blocks == INSTANCE Tetris WITH Row <- 5, Col <- 4, InitX <- 1, InitY <- 3, PreviewSize <- 1, Prototypes <- {"I", "O"},
                               Map <- {}, Racing <- FALSE, MaxCommands <- 2, MaxLocks <- 2
Race == INSTANCE Tetris WITH Row <- 4, Col <- 4, InitX <- 1, InitY <- 2, PreviewSize <- 1, Prototypes <- {"I"},
                             Map <- {}, Racing <- TRUE, MaxCommands <- 2, MaxLocks <- 1

Init ==
    \/ part = "ring" /\ Ring!Init
    \/ part = "pending" /\ Pending!Init
    \/ part = "hazard" /\ Hazard!Init
    \/ part = "counted" /\ Counted!Init
    \/ part = "queue" /\ Queue!Init
    \/ part = "locked" /\ Locked!Init
    \/ part = "channel" /\ Chan!Init
    \/ part = "list" /\ Locks!ListInit
    \/ part = "tree" /\ th = <<>> /\ Tree!Init
    \/ part = "stored" /\ th = <<>> /\ Stored!Init
    \/ part = "templates" /\ th = <<>> /\ Templates!Init
    \/ part = "locks" /\ Locks!Init
    \/ part = "blocks" /\ th = <<>> /\ Blocks!Init
    \/ part = "race" /\ th = <<>> /\ Race!Init
Next ==
    /\ UNCHANGED part
    /\ \/ part = "ring" /\ Ring!Next
       \/ part = "pending" /\ Pending!Next
       \/ part = "hazard" /\ Hazard!Next
       \/ part = "counted" /\ Counted!Next
       \/ part = "queue" /\ Queue!Next
       \/ part = "locked" /\ Locked!Next
       \/ part = "channel" /\ Chan!Next
       \/ part = "list" /\ Locks!ListNext
       \/ part = "tree" /\ UNCHANGED th /\ Tree!Next
       \/ part = "stored" /\ UNCHANGED th /\ Stored!Next
       \/ part = "templates" /\ UNCHANGED th /\ Templates!Next
       \/ part = "locks" /\ Locks!Next
       \/ part = "blocks" /\ UNCHANGED th /\ Blocks!Next
       \/ part = "race" /\ UNCHANGED th /\ Race!Next
Spec == Init /\ [][Next]_<<part, obj, th>>

\* No node is freed while a thread may still use it, or twice, but by a ForEach that strays
\* from its node and by the destructor of a queue that is not empty; the lists of the locked
\* containers are never found shorter than a thread that holds the mutex has seen them; the
\* piece of Tetris is where the field has room.
MemorySafe ==
    /\ part = "pending" => Pending!MemorySafe
    /\ part = "hazard" => Hazard!MemorySafe /\ Hazard!CrashNeedsRace
    /\ part = "counted" => Counted!MemorySafe
    /\ part = "queue" => Queue!MemorySafe
    /\ part = "locked" => Locked!PopFinds
    /\ part = "list" => Locks!ListIsWhole
    /\ part = "locks" => Locks!RingIsQueue
    /\ part = "templates" => Templates!LifetimesAsKnown /\ Templates!OwnedIsAlive
    /\ part = "blocks" => Blocks!PieceFits
    /\ part = "race" => Race!PieceFits

\* Every popped node is freed, or waits where a thread will find it.
Reclaimed ==
    /\ part = "pending" => Pending!NoneMislaid /\ Pending!EmptyPopsStayCounted
    /\ part = "hazard" => Hazard!NoneMislaid
    /\ part = "counted" => Counted!NoLeak
    /\ part = "queue" => Queue!NoLeak

\* Each swap that counts is a push or a pop of a stack or of a queue, each operation of
\* a vector, a list or a table one of a sequence or of a set; the field of Tetris is made of
\* the pieces that were locked.
HoldsWhatWasPut ==
    /\ part = "ring" => Ring!QueueUnlessLapped
    /\ part = "pending" => Pending!LinkedAsStack
    /\ part = "hazard" => Hazard!LinkedAsStack
    /\ part = "counted" => Counted!LinkedAsStack
    /\ part = "queue" => Queue!FifoButLost
    /\ part = "channel" => Chan!ChannelFifo
    /\ part = "tree" => Tree!TableIsWhole /\ Tree!GivesUpLate
    /\ part = "stored" => Stored!TableIsWhole /\ Stored!GivesUpLate
    /\ part = "templates" => Templates!VectorIsSequence /\ Templates!ListIsRing
    /\ part = "locks" => Locks!TableIsMap
    /\ part = "blocks" => Blocks!CellsAreCounted /\ Blocks!PiecesAreKept /\ Blocks!TextsAreTrue
    /\ part = "race" => Race!CellsAreCounted /\ Race!PiecesAreKept /\ Race!TextsAreTrue

\* No thread sleeps although what it waits for is there, but for the notification that
\* ThreadSafeQueue can send between a test and a sleep; no piece is out of the player's
\* hands before it has landed.
NoneSleepsInVain ==
    /\ part = "locked" => Locked!SleepsOnItemOnlyIfMissed
    /\ part = "channel" => Chan!NoneSleepsInVain
    /\ part = "locks" => Locks!NoneSleepsInVain
    /\ part = "blocks" => Blocks!LockedHasLanded

\* Sound: the properties are invariants.
Symmetry == Permutations(Threads) \union Permutations(Nodes)
=============================================================================
