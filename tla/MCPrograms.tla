----------------------------- MODULE MCPrograms -----------------------------
(***************************************************************************)
(* Instances of the sequential programs and of the two ends of a           *)
(* connection, for TLC.  A behaviour is one of one program (`part`).       *)
(***************************************************************************)
EXTENDS Integers, Sequences, FiniteSets, TLC

CONSTANTS t1, t2

VARIABLES part, obj

-----------------------------------------------------------------------------
(* Lines of Monkey, as the parser leaves them                              *)

I(n) == <<"int", n>>
B(b) == <<"bool", b>>
S(s) == <<"str", <<s>>>>
Id(x) == <<"id", x>>
In(op, l, r) == <<"infix", op, l, r>>
Fn(ps, body) == <<"fn", "", ps, body>>
Ex(e) == <<"expr", e>>
Ret(e) == <<"return", e>>
Let(x, e) == <<"let", x, IF e[1] = "fn" THEN [e EXCEPT ![2] = x] ELSE e>>
If(c, y, n) == <<"if", c, y, n>>
CallOf(f, args) == <<"call", f, args>>
NoBlk == <<<<"none">>>>

Atoms == {I(0), I(2), B(TRUE), S("s"), Id("a"), Id("f"), <<"array", <<I(1), Id("a")>>>>, If(B(FALSE), <<Ex(I(1))>>, NoBlk)}
Ops == {"+", "-", "*", "/", "<", ">", "==", "!="}
Infixes == {In(op, l, r) : op \in Ops, l \in Atoms, r \in {I(0), B(TRUE), S("s"), Id("f")}}
Prefixes == {<<"prefix", op, e>> : op \in {"!", "-"}, e \in Atoms}
Ifs == {If(c, y, n) : c \in {B(TRUE), Id("a")}, y \in {<<>>, <<Ex(I(1))>>, <<Let("b", I(3))>>, <<Ret(I(4))>>, <<Let("b", I(3)), Ex(Id("b"))>>},
                      n \in {NoBlk, <<>>, <<Ex(I(2)), Ex(Id("a"))>>, <<Ex(If(B(TRUE), <<Ex(I(5))>>, NoBlk))>>}}
Calls == {CallOf(f, args) : f \in {Id("f"), Id("len"), Id("last"), I(1)}, args \in {<<>>, <<I(2)>>, <<Id("a"), I(1)>>}}
Indexes == {<<"index", l, i>> : l \in {Id("a"), <<"array", <<I(1), Id("a")>>>>, <<"hash", <<<<I(1), B(TRUE)>>, <<Id("a"), I(7)>>>>>>}, i \in {I(0), I(1), S("s"), Id("f")}}
Exprs == Infixes \union Prefixes \union Ifs \union Calls \union Indexes
SomeFns == {
   Fn(<<"n">>, <<Ex(If(In(">", Id("n"), I(0)), <<Ex(In("+", Id("n"), CallOf(Id("f"), <<In("-", Id("n"), I(1))>>)))>>, <<Ex(I(0))>>))>>),
   Fn(<<>>, <<>>), Fn(<<>>, <<Let("b", I(1))>>), Fn(<<>>, <<Ex(I(1)), Ret(I(2)), Ex(I(3))>>),
   Fn(<<"n">>, <<Let("b", In("+", Id("n"), I(1))), Ex(Fn(<<"m">>, <<Ex(In("-", Id("b"), Id("m")))>>))>>),
   Fn(<<"n">>, <<Ex(If(Id("n"), <<Let("b", I(9))>>, NoBlk)), Ex(Id("n"))>>),
   Fn(<<"n">>, <<Ex(If(Id("n"), <<Let("b", I(9)), Ex(Id("b"))>>, NoBlk)), Ex(Id("b"))>>),
   Fn(<<"n">>, <<Ex(If(In("==", Id("n"), I(0)), <<Ret(I(8))>>, NoBlk)), Ret(CallOf(Id("f"), <<In("-", Id("n"), I(1))>>))>>),
   Fn(<<"n", "m">>, <<Let("g", Fn(<<"k">>, <<Ex(If(In("<", Id("k"), Id("m")), <<Ex(CallOf(Id("g"), <<In("+", Id("k"), I(1))>>))>>, <<Ex(Id("n"))>>))>>)), Ex(CallOf(Id("g"), <<I(0)>>))>>)
  }
Lets == {<<Let("a", e)>> : e \in {I(2), B(FALSE), S("t"), <<"array", <<I(4), I(5)>>>>, In("+", Id("a"), I(1)), In("+", I(1), B(TRUE))}}
  \union {<<Let("f", e)>> : e \in SomeFns}
\* Each construct, in lines that are read after one another.
Lines1 == Lets \union {<<Ex(e)>> : e \in Exprs} \union {<<Let("a", I(1)), Ex(In("+", Id("a"), B(TRUE)))>>, <<>>, <<Ret(I(1))>>, <<Let("a", I(1))>>,
   <<Ex(<<"array", <<I(3), I(3), I(3)>>>>), Ex(CallOf(Id("f"), <<I(0)>>))>>, <<Ex(<<"hash", <<<<I(1), I(4)>>, <<Id("a"), I(7)>>>>>>)>>,
   <<Let("a", I(6)), Let("b", I(7)), Ex(CallOf(CallOf(Id("f"), <<I(2)>>), <<I(1)>>))>>}
\* Longer sessions: lines that fail, and more constants than a word can number.
Lines2 == {<<Let("a", I(1))>>, <<Let("a", I(2)), Let("b", I(3)), Ex(In("+", Id("a"), B(TRUE)))>>, <<Let("f", Fn(<<>>, <<Ex(In("+", Id("a"), I(5)))>>))>>,
  <<Ex(CallOf(Id("f"), <<>>))>>, <<Ex(Id("a"))>>, <<Ex(Id("b"))>>, <<Let("b", Id("f"))>>,<<Let("b", In("+", I(1), CallOf(Id("f"), <<>>)))>>,  <<Ex(Id("c"))>>}

Monkey == INSTANCE MonkeySession WITH Lines <- Lines1, MaxLines <- 2, StackSize <- 8, FrameSize <- 4, GlobalSize <- 10, Word <- 10, Byte <- 4
Repl == INSTANCE MonkeySession WITH Lines <- Lines2, MaxLines <- 4, StackSize <- 8, FrameSize <- 4, GlobalSize <- 6, Word <- 6, Byte <- 4

(* Each pair of operators in both trees, and the positions that bind tightest. *)
Meant == {<<Ex(e)>> : e \in
   {In(o1, In(o2, I(1), I(2)), I(3)) : o1, o2 \in Ops} \union {In(o1, I(1), In(o2, I(2), I(3))) : o1, o2 \in Ops} \union
   {In("*", <<"prefix", "-", Id("a")>>, <<"prefix", "!", <<"prefix", "-", Id("b")>>>>), <<"prefix", "-", In("*", Id("a"), Id("b"))>>,
    <<"prefix", "-", <<"index", CallOf(<<"index", Id("a"), I(0)>>, <<Id("b")>>), I(1)>>>>,
    <<"index", <<"prefix", "-", Id("a")>>, I(0)>>, CallOf(In("+", Id("a"), Id("b")), <<>>)}}
Mistypes == {<<"(">>, <<")">>, <<"{">>, <<"}">>, <<";">>, <<",">>, <<"let">>, <<"=">>, <<"int", 101>>, <<"illegal">>, <<"ident", "x">>}
Parsing == INSTANCE MonkeyParser WITH Lines <- Lines2 \union Meant \union {<<Ex(e)>> : e \in Ifs \union Calls \union Indexes} \union Lets,
                                      Slips <- Mistypes, MaxSlips <- 1, MaxInt <- 100, MaxText <- 4

-----------------------------------------------------------------------------
(* Connections                                                             *)

M(id, length) == [id |-> id, length |-> length]
Streams == {<<M("none", 0), M("hello", 1), M("hello", 3)>>,
            <<M("hello", 1), M("over", 1), M("hello", 1)>>, <<M("hello", 0)>>, <<M("hello", 4)>>}
Network == INSTANCE NetworkSession WITH Sessions <- {t1, t2}, HeadLength <- 2, MaxLength <- 3, MaxSendQueue <- 0

Logins == INSTANCE ChatClient WITH Users <- {1, 2}, FriendLists <- {<<1>>}, PerPage <- 1, TextLimit <- 2,
                                   Cuts <- 1..12, MaxLogins <- 2, MaxSent <- 2, MaxTexts <- 0
Notified == INSTANCE ChatClient WITH Users <- {1, 2}, FriendLists <- {<<>>, <<2, 1>>}, PerPage <- 1, TextLimit <- 2,
                                     Cuts <- {4}, MaxLogins <- 1, MaxSent <- 3, MaxTexts <- 0
\* Two friends and a text, or one friend and two texts at once.
Texts(friends, texts) == INSTANCE ChatClient WITH Users <- {1, 2}, FriendLists <- {friends}, PerPage <- 1, TextLimit <- 1,
                                                  Cuts <- {4, 8}, MaxLogins <- 1, MaxSent <- 2, MaxTexts <- texts

\* Every command on one key, with arguments of one word and of two.
Word(w) == <<w>>
Two == <<"x", "1">>
Asked == {[verb |-> v, args |-> <<Word("k")>> \o rest] :
   <<v, rest>> \in ({"GET", "LPop", "RPop", "DEL", "EXISTS"} \X {<<>>}) \union ({"SET", "LPush", "RPush"} \X {<<Word("1")>>, <<Two>>})
                   \union ({"HGET", "HDEL"} \X {<<Word("f")>>}) \union ({"HSET", "HINCRBY"} \X {<<Word("f"), Word("1")>>})}
   \union {[verb |-> "EXISTS", args |-> <<Two>>], [verb |-> "SET", args |-> <<Word("k"), Word("%")>>]}
Redis == INSTANCE RedisMgr WITH Threads <- {t1}, Connections <- 1, Commands <- Asked, Users <- {}, Records <- {Word("r")}, Digits <- <<"0", "1", "2">>,
                                MaxCalls <- 3, MaxOutages <- 1
Cache == INSTANCE RedisMgr WITH Threads <- {t1, t2}, Connections <- 2, Commands <- {[verb |-> "HINCRBY", args |-> <<Word("k"), Word("f"), Word("1")>>]},
                                Users <- {"u"}, Records <- {Word("r"), <<"r", "s">>}, Digits <- <<"0", "1", "2">>, MaxCalls <- 2, MaxOutages <- 1

-----------------------------------------------------------------------------
Scenes == INSTANCE SunnyScenes WITH Levels <- 2, MaxHealth <- 2, MaxScore <- 1, MaxTouches <- 2

Ghosts == INSTANCE GhostEscape WITH MaxHealth <- 2, MaxMana <- 1, InvincibleTime <- 1, CoolDown <- 1, EndTime <- 1, Interval <- 1,
    SpellFrames <- 2, EffectFrames <- 1, DieFrames <- 1, Num <- 2, MaxSpawned <- 2, MaxGames <- 1, Places <- {"start"}
Buttons == INSTANCE GhostEscape WITH MaxHealth <- 1, MaxMana <- 1, InvincibleTime <- 1, CoolDown <- 1, EndTime <- 2, Interval <- 1,
    SpellFrames <- 1, EffectFrames <- 1, DieFrames <- 1, Num <- 1, MaxSpawned <- 1, MaxGames <- 2, Places <- {"none", "pause", "back", "start"}

\* Names of several words, or more games than places.
Arcades(typed, games) == INSTANCE Arcade WITH MaxHealth <- 2, EnemyHealth <- 2, Bounces <- 1, CoolDown <- 1, EnemyCoolDown <- 1, EndTime <- 1, BoomFrames <- 2,
    MaxEnemies <- 2, MaxShots <- 2, MaxBalls <- 1, Places <- 2, Scores <- {10, 20}, Typed <- typed, MaxName <- 4, MaxGames <- games, MaxStarts <- 2,
    Deltas <- {1, 2}, Kinds <- {1, 2}, Height <- 2, GenerateTime <- 2, IncreaseTime <- 3, FireFrames <- 2, FireTime <- 1,
    ExplosionFrames <- 2, ExplosionTime <- 1, ShakeTime <- 2, Hp <- 2, MaxChickens <- 2, MaxBullets <- 2
Named == {<<" ", "9">>, <<"L", "C">>}

\* Levels with an object that cannot be read, without a player, and without a file.
Level(kinds) == [there |-> kinds # <<>>, kinds |-> kinds]
Full == Level(<<"layer", "main", "player", "enemy", "item", "item", "exit">>)
Ways == [stage |-> <<Full, Level(<<"layer", "main", "item", "broken", "player", "exit">>), Level(<<"layer", "main", "item">>)>>,
         lost |-> <<Full, Level(<<>>)>>]
\* Files: a tileset that is not there, first gids out of order, pictures with gaps.
TileOf(id, properties, boxes, animation) == [id |-> id, properties |-> properties, boxes |-> boxes, animation |-> animation]
Pictures == [ground |-> [single |-> TRUE, tiles |-> <<TileOf(0, <<<<"solid", "yes">>>>, <<0>>, "none"), TileOf(2, <<<<"slope", "0_1">>>>, <<0>>, "none")>>],
             actor |-> [single |-> FALSE, tiles |-> <<TileOf(0, <<<<"tag", "enemy">>, <<"gravity", "yes">>>>, <<0, 2>>, "whole"),
                        TileOf(1, <<<<"hazard", "yes">>>>, <<0, 2>>, "none"), TileOf(2, <<<<"solid", "yes">>, <<"tag", "item">>, <<"gravity", "yes">>>>, <<0, 2>>, "none"),
                        TileOf(3, <<<<"solid", "no">>, <<"gravity", "no">>>>, <<0, 2>>, "broken")>>]]
SetAt(first, source, count) == [first |-> first, source |-> source, count |-> count]
Sets == {<<SetAt(1, "ground", 3), SetAt(4, "actor", 4)>>, <<SetAt(1, "ground", 3), SetAt(4, "props", 2), SetAt(6, "actor", 4)>>,
         <<SetAt(3, "actor", 4), SetAt(-1, "ground", 3)>>, <<SetAt(1, "actor", 4), SetAt(5, "ground", 3)>>}
Layer(type, name, visible, data, objects) == [type |-> type, name |-> name, visible |-> visible, data |-> data, objects |-> objects]
Image(name, visible) == Layer("imagelayer", name, visible, <<>>, <<>>)
ShapeOf(name, gid) == IF gid # 0 \/ name = "main" THEN "rectangle" ELSE IF name = "b" THEN "polygon" ELSE "point"
Objects(g, h) == Layer("objectgroup", "objects", TRUE, <<>>,
   [i \in 1..4 |-> LET name == <<"a", "b", "c", "main">>[i]
                       gid == <<g, h, g, 0>>[i]
                   IN  [name |-> name, gid |-> gid, shape |-> ShapeOf(name, gid), tag |-> "next_level"]])
FileOf(tile, sets, first, data, objects) ==
    [file |-> "whole", width |-> 2, height |-> 1, tile |-> tile, tilesets |-> sets,
     layers |-> <<first, Layer("tilelayer", "main", TRUE, data, <<>>), Layer("tilelayer", "back", TRUE, <<2, 4>>, <<>>), objects, Layer("group", "more", TRUE, <<>>, <<>>)>>]
Drawn == {FileOf(tile, sets, first, <<0, 1>>, Objects(5, 6)) : tile \in {0, 1}, sets \in Sets, first \in {Image("far", TRUE), Image("main", FALSE), Image("main", TRUE)}}
  \union {FileOf(1, sets, Image("far", TRUE), data, Objects(0, 1)) : sets \in Sets, data \in {<<3, 5>>, <<1>>, <<9, -1>>, <<7, 6>>}}
  \union {FileOf(1, sets, Image("far", TRUE), <<0, 1>>, Objects(g, h)) : sets \in Sets, g \in {0, 1, 3, 5, 6, 7}, h \in {0, 4, 6, 7}}
  \union {[file |-> "garbled", width |-> 0, height |-> 0, tile |-> 0, tilesets |-> <<>>, layers |-> <<>>]}
Engine(way) == INSTANCE SunnyEngine WITH Configured <- [pause |-> {"P", "Escape"}, attack |-> {"K", "MouseLeft"}], Names <- <<"Resume", "Save">>,
    MaxPresses <- 3, MaxEvents <- 2, Levels <- Ways[way], EffectFrames <- 2, MaxTouches <- 2, Maps <- Drawn, Tilesets <- Pictures

Init ==
    \/ part = "monkey" /\ Monkey!Init
    \/ part = "repl" /\ Repl!Init
    \/ part = "parser" /\ Parsing!Init
    \/ part = "network" /\ Network!Init
    \/ part = "logins" /\ Logins!Init
    \/ part = "notified" /\ Notified!Init
    \/ part = "texts" /\ Texts(<<2, 1>>, 1)!Init
    \/ part = "batches" /\ Texts(<<2>>, 2)!Init
    \/ part = "redis" /\ Redis!Init
    \/ part = "cache" /\ Cache!Init
    \/ part = "scenes" /\ Scenes!Init
    \/ part = "ghosts" /\ Ghosts!Init
    \/ part = "buttons" /\ Buttons!Init
    \/ part = "shooter" /\ Arcades(Named, 2)!ShooterInit
    \/ part = "board" /\ Arcades(Named, 2)!BoardInit
    \/ part = "ranks" /\ Arcades({}, 4)!BoardInit
    \/ part = "chicken" /\ Arcades(Named, 2)!ChickenInit
    \/ part = "ui" /\ Engine("stage")!UiInit
    \/ \E way \in DOMAIN Ways : part = way /\ Engine(way)!StageInit
    \/ part = "loader" /\ Engine("stage")!LoaderInit
Next ==
    /\ UNCHANGED part
    /\ \/ part = "monkey" /\ Monkey!Next
       \/ part = "repl" /\ Repl!Next
       \/ part = "parser" /\ Parsing!Next
       \/ part = "network" /\ Network!Next
       \/ part = "logins" /\ Logins!Next
       \/ part = "notified" /\ Notified!Next
       \/ part = "texts" /\ Texts(<<2, 1>>, 1)!Next
       \/ part = "batches" /\ Texts(<<2>>, 2)!Next
       \/ part = "redis" /\ Redis!Next
       \/ part = "cache" /\ Cache!Next
       \/ part = "scenes" /\ Scenes!Next
       \/ part = "ghosts" /\ Ghosts!Next
       \/ part = "buttons" /\ Buttons!Next
       \/ part = "shooter" /\ Arcades(Named, 2)!ShooterNext
       \/ part = "board" /\ Arcades(Named, 2)!BoardNext
       \/ part = "ranks" /\ Arcades({}, 4)!BoardNext
       \/ part = "chicken" /\ Arcades(Named, 2)!ChickenNext
       \/ part = "ui" /\ Engine("stage")!UiNext
       \/ \E way \in DOMAIN Ways : part = way /\ Engine(way)!StageNext
       \/ part = "loader" /\ Engine("stage")!LoaderNext
Spec == Init /\ [][Next]_<<part, obj>>

\* What a program shows is what was put in: the tree and the value of a line,
\* the texts and the friends of the client, health and scores.
ShowsWhatIsThere ==
    /\ part = "monkey" => Monkey!EvaluatesAlike
    /\ part = "repl" => Repl!EvaluatesAlike
    /\ part = "parser" => Parsing!ParsesAsMeant
    /\ part = "notified" => Notified!ListsAreWhole
    /\ part = "texts" => Texts(<<2, 1>>, 1)!TextsAreShown
    /\ part = "batches" => Texts(<<2>>, 2)!TextsAreShown
    /\ part = "redis" => Redis!ResultsAreTrue
    /\ part = "cache" => Cache!ResultsAreTrue /\ Cache!RecordsAreOfUser
    /\ part = "scenes" => Scenes!HeartsAreTrue /\ Scenes!ScoresAreKept
    /\ part = "ghosts" => Ghosts!ScoreIsKills /\ Ghosts!EnemiesJoin
    /\ part = "buttons" => Buttons!BestIsKept /\ Buttons!PressedIsHeld
    /\ part = "shooter" => Arcades(Named, 2)!ScoresOnce /\ Arcades(Named, 2)!HealthFits
    /\ part = "board" => Arcades(Named, 2)!BestAreKept /\ Arcades(Named, 2)!NamesAreWhole
    /\ part = "ranks" => Arcades({}, 4)!BestAreKept
    /\ part = "chicken" => Arcades(Named, 2)!CountsFit
    /\ \A way \in DOMAIN Ways : part = way => Engine(way)!CountedOnce
    /\ part = "loader" => Engine("stage")!TilesAreMeant /\ Engine("stage")!SolidsStop

\* Order and structure survive: of messages whatever the cuts of the stream, of the
\* tokens of a line, of the stack of scenes.
StaysInOrder ==
    /\ part = "parser" => Parsing!AcceptedIsWhole /\ Parsing!TokensCoverText /\ Parsing!PrintedParsesBack
    /\ part = "network" => Network!FramesAreKept /\ Network!AnswersAreKept
    /\ part = "logins" => Logins!FramesAreRead
    /\ part = "notified" => Notified!FramesAreRead
    /\ part = "scenes" => Scenes!ScenesFit
    /\ part = "ghosts" => Ghosts!GhostIsThere /\ Ghosts!EndsInTime
    /\ part = "buttons" => Buttons!EndsInTime
    /\ part = "shooter" => Arcades(Named, 2)!EndFits
    /\ part = "board" => Arcades(Named, 2)!FileIsReadBack
    /\ part = "chicken" => Arcades(Named, 2)!EffectsEnd
    /\ part = "ui" => Engine("stage")!KeysAreSeen /\ Engine("stage")!OncePerPress /\ Engine("stage")!PressedIsHeld
    /\ \A way \in DOMAIN Ways : part = way => Engine(way)!RegisteredOnce /\ Engine(way)!LayersStayBehind

\* A program fails, or keeps what it should give back, only for the reasons named.
FailsOnlyAsKnown ==
    /\ part = "monkey" => Monkey!DeadOnlyIfOdd
    /\ part = "repl" => Repl!DeadOnlyIfOdd
    /\ part = "parser" => Parsing!DiesOfLet
    /\ part = "network" => Network!OnlyEarlyStopsStay
    /\ part = "logins" => Logins!ButtonComesBack /\ Logins!DiesOfStrangers
    /\ part = "notified" => Notified!ButtonComesBack /\ Notified!DiesOfStrangers
    /\ part = "texts" => Texts(<<2, 1>>, 1)!DiesOfStrangers
    /\ part = "batches" => Texts(<<2>>, 2)!DiesOfStrangers
    /\ part = "redis" => Redis!OutageIsFinal /\ Redis!ConnectionsComeBack
    /\ part = "cache" => Cache!OutageIsFinal /\ Cache!ConnectionsComeBack
    /\ part = "scenes" => Scenes!UndeadOnlyByExit
    /\ \A way \in DOMAIN Ways : part = way => Engine(way)!ReadsWhatIsThere
    /\ part = "loader" => Engine("stage")!BodiesAreInScene /\ Engine("stage")!LoadsOrDies

\* Sound: the properties are invariants.
Symmetry == Permutations({t1, t2})
=============================================================================
