------------------------------- MODULE Tetris -------------------------------
(***************************************************************************)
(* Tetris in the terminal (src/tetris).  One thread runs the game, frame   *)
(* after frame (Engine::Loop); another reads keys and calls the same       *)
(* object (Control::ProcessCommand).  Nothing locks it.  Colours, points,  *)
(* levels and the pace of the fall are left out; what is drawn is left out *)
(* but for the two texts that are drawn over the field.                    *)
(***************************************************************************)
EXTENDS Integers, Sequences, FiniteSets, SequencesExt, FiniteSetsExt

CONSTANTS Row, Col, InitX, InitY, PreviewSize,
          Prototypes,                \* the kinds of pieces
          Map,                       \* the cells that are filled at first
          Racing,                    \* keys come at any time, or only while the loop sleeps
          MaxCommands, MaxLocks      \* bounds: keys, pieces that are locked in a game

VARIABLES obj

Field == (0..Col - 1) \X (0..Row - 1)

-----------------------------------------------------------------------------
(* Pieces.  The four shapes of a kind are the quarter turns of the first.  *)

Shape == [I |-> {<<0, 0>>, <<-1, 0>>, <<1, 0>>, <<2, 0>>}, J |-> {<<0, 0>>, <<-1, 1>>, <<-1, 0>>, <<1, 0>>},
          L |-> {<<0, 0>>, <<-1, 0>>, <<1, 0>>, <<1, 1>>}, O |-> {<<0, 0>>, <<0, 1>>, <<1, 1>>, <<1, 0>>},
          S |-> {<<0, 0>>, <<-1, 0>>, <<0, 1>>, <<1, 1>>}, T |-> {<<0, 0>>, <<-1, 0>>, <<0, 1>>, <<1, 0>>},
          Z |-> {<<0, 0>>, <<-1, 1>>, <<0, 1>>, <<1, 0>>}]
Turned(p, index) ==
    CASE index = 0 -> p [] index = 1 -> <<p[2], -p[1]>> [] index = 2 -> <<-p[1], -p[2]>> [] OTHER -> <<-p[2], p[1]>>

\* Where a turn is tried: the offsets of the two shapes, one after the other.
OffsetI == <<<<<<0, 0>>, <<-1, 0>>, <<2, 0>>, <<-1, 0>>, <<2, 0>>>>, <<<<-1, 0>>, <<0, 0>>, <<0, 0>>, <<0, 1>>, <<0, -2>>>>,
             <<<<-1, 1>>, <<1, 1>>, <<-2, 1>>, <<1, 0>>, <<-2, 0>>>>, <<<<0, 1>>, <<0, 1>>, <<0, 1>>, <<0, -1>>, <<0, 2>>>>>>
OffsetO == <<<<<<0, 0>>>>, <<<<0, -1>>>>, <<<<-1, -1>>>>, <<<<-1, 0>>>>>>
OffsetJLSTZ == <<<<<<0, 0>>, <<0, 0>>, <<0, 0>>, <<0, 0>>, <<0, 0>>>>, <<<<0, 0>>, <<1, 0>>, <<1, -1>>, <<0, 2>>, <<1, 2>>>>,
                 <<<<0, 0>>, <<0, 0>>, <<0, 0>>, <<0, 0>>, <<0, 0>>>>, <<<<0, 0>>, <<-1, 0>>, <<-1, -1>>, <<0, 2>>, <<-1, 2>>>>>>
GetOffset(type) == CASE type = "I" -> OffsetI [] type = "O" -> OffsetO [] OTHER -> OffsetJLSTZ

GetTetromino(p) == {LET d == Turned(c, p.index) IN <<p.x + d[1], p.y + d[2]>> : c \in Shape[p.type]}
Test(o, p) == GetTetromino(p) \subseteq Field \ o.field
Moved(p, dx, dy, index) == [p EXCEPT !.x = @ + dx, !.y = @ + dy, !.index = index]

\* Piece::Rotate: the move that is made, or none.
Rotations(p, index) ==
    LET offset == GetOffset(p.type)
    IN  [i \in DOMAIN offset[1] |-> <<offset[p.index + 1][i][1] - offset[index + 1][i][1],
                                      offset[p.index + 1][i][2] - offset[index + 1][i][2], index>>]
Transforms(p, command) ==
    CASE command = "left" -> <<<<-1, 0, p.index>>>>
      [] command = "right" -> <<<<1, 0, p.index>>>>
      [] command = "down" -> <<<<0, -1, p.index>>>>
      [] command = "rotateR" -> Rotations(p, (p.index + 1) % 4)
      [] command = "rotateL" -> Rotations(p, (p.index + 3) % 4)
      [] command = "rotate2" -> Rotations(p, (p.index + 2) % 4)
Chosen(o, command) ==
    SelectSeq(Transforms(o.piece, command), LAMBDA t : Test(o, Moved(o.piece, t[1], t[2], t[3])))
CanFall(o) == Chosen(o, "down") # <<>>

-----------------------------------------------------------------------------
(* The game.  A piece has a number (`id`), which is history.               *)

\* Game::GeneratePiece for each kind the bag may give.
Generated(o) ==
    LET bag == IF o.bags = {} THEN Prototypes ELSE o.bags
    IN  {[o EXCEPT !.bags = bag \ {t}, !.dealt = @ + 1,
                   !.preview = Append(@, [type |-> t, x |-> InitX, y |-> InitY, index |-> 0, id |-> o.dealt + 1])] : t \in bag}
RECURSIVE Filled(_)
Filled(states) ==
    IF \E o \in states : Len(o.preview) < PreviewSize
    THEN Filled(UNION {IF Len(o.preview) < PreviewSize THEN Generated(o) ELSE {o} : o \in states}) ELSE states

\* Game::PickPiece; the first one comes from the bag.
PickPiece(o) ==
    LET picked(q) == [q EXCEPT !.piece = Head(q.preview), !.preview = Tail(@), !.swapped = FALSE,
                               !.ending = @ \/ ~Test(q, [Head(q.preview) EXCEPT !.x = InitX, !.y = InitY, !.index = 0])]
    IN  Filled({picked(q) : q \in IF o.preview = <<>> THEN Generated(o) ELSE {o}})

NoPiece == [type |-> "none"]
\* Game::Init and the thread of the keys are all that a game begins with; the rest goes on.
Reset(o) ==
    PickPiece([o EXCEPT !.running = TRUE, !.locking = FALSE, !.holding = FALSE, !.ending = FALSE, !.field = Map, !.lines = 0,
                        !.bags = {}, !.preview = <<>>, !.hold = NoPiece, !.dealt = 0, !.locks = {}, !.mixed = FALSE,
                        !.heldInLock = FALSE])

Unset == [known |-> FALSE, ending |-> FALSE, helping |-> FALSE]
Init ==
    obj \in Reset([running |-> FALSE, helping |-> FALSE, piece |-> NoPiece,
                   locking |-> FALSE, holding |-> FALSE, ending |-> FALSE, field |-> Map, lines |-> 0,
                   bags |-> {}, preview |-> <<>>, hold |-> NoPiece, dealt |-> 0, locks |-> {}, mixed |-> FALSE, heldInLock |-> FALSE,
                   loop |-> "sleep", key |-> <<"get">>, commands |-> 0,
                   seen |-> Unset, drawn |-> Unset, text |-> {},      \* ShowStatus, ShowGame; texts over the field
                   swapped |-> FALSE,        \* history: the piece has come out of the hold
                   torn |-> FALSE,           \* history: the threads changed the piece at the same time
                   missed |-> FALSE,         \* history: something to show changed in the middle of a frame
                   wiped |-> FALSE])         \* history: the help covered the end of the game, or that
                                             \* came before the first frame

\* Whether a change of the piece meets one of the other thread, or changes what is shown.
InLock(o) == o.loop \in {"lock", "clear", "pick", "unlock"}
Noted(o, o2) ==
    [o2 EXCEPT !.missed = @ \/ (o.loop = "game" /\ <<o.ending, o.helping>> # <<o2.ending, o2.helping>>),
               !.torn = @ \/ (InLock(o) /\ o2.piece # o.piece)]

-----------------------------------------------------------------------------
(* The keys.  A guard is read, then a step acts on it.                     *)

Moves == {"left", "right", "down", "rotateR", "rotateL", "rotate2"}
Commands == Moves \union {"drop", "hold", "reset", "help", "quit"}
Key(o) == obj' = Noted(obj, o)

KeysRun == Racing \/ obj.loop = "sleep"
Get(command) ==
    /\ obj.key = <<"get">> /\ obj.running /\ KeysRun /\ obj.commands < MaxCommands
    /\ LET o == [obj EXCEPT !.commands = @ + 1]
       IN  CASE command \in Moves -> obj' = IF o.locking THEN o ELSE [o EXCEPT !.key = <<"move", command>>]
             [] command = "drop" -> obj' = IF o.locking THEN o ELSE [o EXCEPT !.key = <<"drop">>]
             [] command = "hold" -> obj' = IF o.holding THEN o ELSE [o EXCEPT !.holding = TRUE, !.key = <<"hold">>]
             [] command = "reset" -> \E q \in Reset(o) : Key(q)
             [] command = "help" -> Key([o EXCEPT !.helping = ~@])
             [] command = "quit" -> obj' = [o EXCEPT !.running = FALSE]

\* Piece::Transform: where the piece would be is tested, then it is moved.
TestMove ==
    /\ obj.key[1] = "move" /\ KeysRun
    /\ LET t == Chosen(obj, obj.key[2])
       IN  obj' = [obj EXCEPT !.key = IF t = <<>> THEN <<"get">> ELSE <<"transform", t[1], obj.piece>>]
Transform ==
    /\ obj.key[1] = "transform" /\ KeysRun
    /\ LET t == obj.key[2]
           stale == obj.piece # obj.key[3]
       IN  Key([obj EXCEPT !.key = <<"get">>, !.piece = Moved(@, t[1], t[2], t[3]), !.torn = @ \/ stale])

\* Game::Drop
Drop ==
    /\ obj.key = <<"drop">> /\ KeysRun
    /\ obj' = [obj EXCEPT !.locking = TRUE, !.key = <<"falls">>]
Falls ==
    /\ obj.key = <<"falls">> /\ KeysRun
    /\ IF CanFall(obj) THEN Key([obj EXCEPT !.piece.y = @ - 1]) ELSE obj' = [obj EXCEPT !.key = <<"get">>]

\* Game::Hold: the piece that comes back is where a new one is, but turned as it was.
Hold ==
    /\ obj.key = <<"hold">> /\ KeysRun
    /\ LET o == [obj EXCEPT !.key = <<"get">>, !.hold = obj.piece, !.heldInLock = @ \/ obj.locking]
           back == [o EXCEPT !.piece = [obj.hold EXCEPT !.x = InitX, !.y = InitY], !.swapped = TRUE]
       IN  IF obj.hold = NoPiece THEN \E q \in PickPiece(o) : Key(q) ELSE Key(back)

-----------------------------------------------------------------------------
(* The loop.                                                               *)

LoopRuns == Racing \/ obj.key = <<"get">>
At(pc) == obj.loop = pc /\ LoopRuns

Frame == At("sleep") /\ obj' = [obj EXCEPT !.loop = IF obj.running THEN "logic" ELSE "exit"]

\* Game::UpdateLogic, when the time has come and before
Logic ==
    /\ At("logic")
    /\ \/ obj' = [obj EXCEPT !.loop = "status"]
       \/ /\ ~obj.ending
          /\ obj' = IF CanFall(obj) THEN [obj EXCEPT !.loop = "fall"]
                    ELSE IF obj.locking THEN [obj EXCEPT !.loop = "lock"] ELSE [obj EXCEPT !.locking = TRUE, !.loop = "status"]
Fall ==
    /\ At("fall")
    /\ obj' = [obj EXCEPT !.loop = "status", !.piece.y = @ - 1, !.torn = @ \/ ~CanFall(obj)]
Lock ==
    /\ At("lock") /\ Cardinality(obj.locks) < MaxLocks
    /\ obj' = [obj EXCEPT !.loop = "clear", !.field = @ \union (GetTetromino(obj.piece) \intersect Field),
                          !.locks = @ \union {obj.piece.id}, !.mixed = @ \/ obj.swapped \/ obj.torn]
\* Full rows go, what is above them comes down.
Full(field, y) == \A x \in 0..Col - 1 : <<x, y>> \in field
Clear ==
    /\ At("clear")
    /\ LET full == {y \in 0..Row - 1 : Full(obj.field, y)}
           Down(c) == <<c[1], c[2] - Cardinality({y \in full : y < c[2]})>>
       IN  obj' = [obj EXCEPT !.loop = "pick", !.field = {Down(c) : c \in {d \in @ : d[2] \notin full}}, !.lines = @ + Cardinality(full)]
Pick ==
    /\ At("pick")
    /\ \E o \in PickPiece(obj) : obj' = [o EXCEPT !.loop = "unlock"]
Unlock ==
    /\ At("unlock")
    /\ obj' = [obj EXCEPT !.loop = "status", !.locking = FALSE, !.holding = FALSE, !.heldInLock = FALSE]

\* The end is drawn when it has come since the last frame.  The help is drawn over it, in
\* every frame, unless it was open in the first (prev_helping keeps its first value).
Now == [known |-> TRUE, ending |-> obj.ending, helping |-> obj.helping]
Previous(prev) == IF prev.known THEN prev ELSE Now
ShowStatus ==
    /\ At("status")
    /\ LET prev == Previous(obj.seen)
           ends == obj.ending /\ ~prev.ending
           helps == obj.helping /\ ~prev.helping
       IN  obj' = [obj EXCEPT !.loop = "game", !.seen = [prev EXCEPT !.ending = obj.ending],
                              !.wiped = @ \/ helps \/ (obj.ending /\ ~obj.seen.known),
                              !.text = IF helps THEN {"helping"} ELSE @ \union {w \in {"ending"} : ends}]
\* The field is drawn anew, over the texts, when one of them has ended.
ShowGame ==
    /\ At("game")
    /\ LET clear == \E w \in {"ending", "helping"} : ~Now[w] /\ Previous(obj.drawn)[w]
       IN  obj' = [obj EXCEPT !.loop = "sleep", !.drawn = Now, !.text = IF clear THEN {} ELSE @,
                              !.wiped = (@ \/ clear) /\ obj.ending]

Next ==
    \/ \E command \in Commands : Get(command)
    \/ TestMove \/ Transform \/ Drop \/ Falls \/ Hold
    \/ Frame \/ Logic \/ Fall \/ Lock \/ Clear \/ Pick \/ Unlock \/ ShowStatus \/ ShowGame
Spec == Init /\ [][Next]_obj

(***************************************************************************)
(* Properties.                                                             *)
(***************************************************************************)

\* Every cell of the piece is a cell of the field, where Lock and the drawing write it, and
\* a free one as long as the game goes on; but not when the piece came out of the hold,
\* turned, or when both threads moved it at once.
PieceFits ==
    obj.swapped \/ obj.torn \/ (/\ GetTetromino(obj.piece) \subseteq Field
                                /\ obj.ending \/ obj.loop \in {"clear", "pick"} \/ Test(obj, obj.piece))

\* The cells of the field are those of the pieces that were locked less the rows that were
\* cleared, and no full row stays.
CellsAreCounted ==
    obj.mixed \/ (/\ Cardinality(obj.field) = Cardinality(Map) + 4 * Cardinality(obj.locks) - Col * obj.lines
                  /\ obj.loop # "clear" => \A y \in 0..Row - 1 : ~Full(obj.field, y))

\* No piece is in two places, and none that was dealt is lost.
PiecesAreKept ==
    obj.torn \/ LET waiting == {p.id : p \in ToSet(obj.preview)} \union (IF obj.hold = NoPiece THEN {} ELSE {obj.hold.id})
                    locking == obj.loop \in {"clear", "pick"}
                IN  /\ Cardinality(waiting) = Len(obj.preview) + (IF obj.hold = NoPiece THEN 0 ELSE 1)
                    /\ waiting \intersect obj.locks = {}
                    /\ (obj.piece.id \in obj.locks) = locking
                    /\ waiting \union obj.locks \union {obj.piece.id} = 1..obj.dealt

\* A player who cannot move the piece has dropped it, or it has landed; but a piece that
\* took the place of a landed one falls all the way by itself.  (A key that is acted on when
\* the piece has landed meanwhile may move it off its ledge: keys come between frames here.)
LockedHasLanded ==
    obj.locking /\ ~Racing /\ ~obj.heldInLock /\ obj.key # <<"falls">> /\ ~InLock(obj) /\ obj.loop # "fall" => ~CanFall(obj)

\* Between frames a text is on the screen only while it is true; the end of a game that was
\* seen is on it, unless the help was closed meanwhile or the first frame came later.
TextsAreTrue ==
    obj.loop = "logic" /\ ~obj.missed =>
        /\ obj.text \subseteq {w \in {"ending", "helping"} : obj.drawn[w]}
        /\ "ending" \in obj.text \/ obj.wiped \/ ~obj.drawn.ending
=============================================================================
