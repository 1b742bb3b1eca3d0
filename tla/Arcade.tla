------------------------------- MODULE Arcade -------------------------------
(***************************************************************************)
(* The two games of src/sdl2.  Of shooter: the frames of SceneMain (a step *)
(* is one of the calls of SceneMain::update), and the scenes with the      *)
(* leader board that is kept in a file.  Of chicken_evil: the frames of    *)
(* the engine, with the timers, animations and the camera of sdl2/common.  *)
(* Where things are is reduced to what touches what, which is free; times  *)
(* are counted in frames.                                                  *)
(***************************************************************************)
EXTENDS Integers, Sequences, SequencesExt, FiniteSetsExt

CONSTANTS MaxHealth, EnemyHealth, Bounces, CoolDown, EnemyCoolDown, EndTime, BoomFrames,
          MaxEnemies, MaxShots, MaxBalls,          \* bounds: enemies of a game, projectiles in flight
          Places,                                  \* of the leader board
          Scores, Typed, MaxName, MaxGames, MaxStarts, \* what a game brings, what is typed, and bounds
          Deltas, Kinds, Height, GenerateTime, IncreaseTime, FireFrames, FireTime, ExplosionFrames, ExplosionTime,
          ShakeTime, Hp, MaxChickens, MaxBullets   \* bounds: chickens of a game (and at once), bullets of a game

VARIABLES obj

Valid(s) == SelectSeq(s, LAMBDA x : x.valid)

-----------------------------------------------------------------------------
(* SceneMain                                                               *)

Enemy(id) == [id |-> id, health |-> EnemyHealth, cool |-> 0, valid |-> TRUE]
Item(id) == [id |-> id, bounces |-> Bounces, valid |-> TRUE]

ShooterInit ==
    obj = [phase |-> "keys", alive |-> TRUE, health |-> MaxHealth, cool |-> 0, score |-> 0, ends |-> 0, final |-> 0, scene |-> "main",
           enemies |-> <<>>, shots |-> 0, balls |-> 0, booms |-> <<>>, items |-> <<>>, spawned |-> 0,
           killed |-> {}, taken |-> {}, hits |-> 0, healed |-> 0]     \* history

At(phase) == obj.scene = "main" /\ obj.phase = phase
Then(phase, o) == obj' = [o EXCEPT !.phase = phase]

\* Firing is held back by the time since the last shot.
KeyboardControl ==
    /\ At("keys")
    /\ \E fire \in IF obj.alive /\ obj.shots < MaxShots THEN BOOLEAN ELSE {FALSE} :
         Then("shots", IF fire /\ obj.cool = 0 THEN [obj EXCEPT !.cool = CoolDown, !.shots = @ + 1]
                       ELSE [obj EXCEPT !.cool = Max({0, @ - 1})])

EnemyExplode(o, e, drops) ==
    LET id == o.enemies[e].id
    IN  [o EXCEPT !.booms = Append(@, 0), !.score = @ + 10, !.killed = @ \union {id}, !.enemies[e].valid = FALSE,
                  !.items = IF drops THEN Append(@, Item(id)) ELSE @]
\* A projectile meets `to`: 0 nothing, -1 the edge of the window.
ShotAt(o, to, drops) ==
    CASE to = -1 -> [o EXCEPT !.shots = @ - 1]
      [] to > 0 /\ o.enemies[to].valid ->
           LET hit == [o EXCEPT !.shots = @ - 1, !.enemies[to].health = @ - 1]
           IN  IF hit.enemies[to].health <= 0 THEN EnemyExplode(hit, to, drops) ELSE hit
      [] OTHER -> o
PlayerProjectileUpdate ==
    /\ At("shots")
    /\ \E to \in [1..obj.shots -> -1..Len(obj.enemies)], drops \in BOOLEAN :
         Then("balls", FoldLeft(LAMBDA o, t : ShotAt(o, t, drops), obj, to))

EnemyProjectileUpdate ==
    /\ At("balls")
    /\ \E out \in 0..obj.balls : \E hits \in IF obj.alive THEN 0..obj.balls - out ELSE {0} :
         Then("spawn", [obj EXCEPT !.health = @ - hits, !.hits = @ + hits, !.balls = @ - out - hits])

\* The dice of spwanEnemy
SpawnEnemy ==
    /\ At("spawn")
    /\ \E comes \in IF obj.spawned < MaxEnemies THEN BOOLEAN ELSE {FALSE} :
         Then("enemies", IF comes THEN [obj EXCEPT !.enemies = Append(@, Enemy(obj.spawned + 1)), !.spawned = @ + 1] ELSE obj)

EnemyShoot(o, e) ==
    IF o.balls < MaxBalls THEN [o EXCEPT !.balls = @ + 1, !.enemies[e].cool = EnemyCoolDown] ELSE o
EnemyStep(o, e, where, drops) ==
    CASE ~o.enemies[e].valid -> o                         \* killed in this frame
      [] where = "out" /\ o.enemies[e].valid -> [o EXCEPT !.enemies[e].valid = FALSE]
      [] where = "ram" /\ o.enemies[e].valid -> EnemyExplode([o EXCEPT !.health = @ - 1, !.hits = @ + 1], e, drops)
      [] where = "on" /\ o.enemies[e].valid /\ o.alive /\ o.enemies[e].cool = 0 -> EnemyShoot(o, e)
      [] OTHER -> [o EXCEPT !.enemies[e].cool = Max({0, @ - 1})]
EnemyUpdate ==
    /\ At("enemies")
    /\ \E where \in [DOMAIN obj.enemies -> IF obj.alive THEN {"on", "out", "ram"} ELSE {"on", "out"}], drops \in BOOLEAN :
         LET done == FoldLeftDomain(LAMBDA o, e : EnemyStep(o, e, where[e], drops), obj, obj.enemies)
         IN  Then("player", [done EXCEPT !.enemies = Valid(@)])

PlayerUpdate ==
    /\ At("player")
    /\ Then("booms", IF obj.alive /\ obj.health <= 0
                     THEN [obj EXCEPT !.alive = FALSE, !.booms = Append(@, 0), !.final = obj.score] ELSE obj)

\* One image a frame.
ExplosionUpdate ==
    /\ At("booms")
    /\ Then("items", [obj EXCEPT !.booms = SelectSeq([k \in DOMAIN @ |-> @[k] + 1], LAMBDA f : f < BoomFrames)])

PlayerGetItem(o, id) ==
    [o EXCEPT !.health = Min({MaxHealth, @ + 1}), !.healed = @ + (IF o.health < MaxHealth THEN 1 ELSE 0),
              !.score = @ + 5, !.taken = @ \union {id}]
\* An item is at an edge, which it leaves by after its bounces, or at the player.
ItemStep(o, k, edge, met) ==
    LET item == o.items[k]
        moved == [o EXCEPT !.items[k].bounces = IF edge THEN @ - 1 ELSE @]
    IN  CASE edge /\ item.bounces = 0 -> [o EXCEPT !.items[k].valid = FALSE]
          [] ~(edge /\ item.bounces = 0) /\ met /\ o.alive -> PlayerGetItem([moved EXCEPT !.items[k].valid = FALSE], item.id)
          [] OTHER -> moved
ItemUpdate ==
    /\ At("items")
    /\ \E edge, met \in SUBSET DOMAIN obj.items :
         LET done == FoldLeftDomain(LAMBDA o, k : ItemStep(o, k, k \in edge, k \in met), obj, obj.items)
         IN  Then("end", [done EXCEPT !.items = Valid(@)])

\* changeSceneDelay, then the next frame; Escape in between.
ChangeSceneDelay ==
    /\ At("end")
    /\ \E escapes \in BOOLEAN :
         LET ends == IF obj.alive THEN obj.ends ELSE obj.ends + 1
         IN  Then("keys", [obj EXCEPT !.ends = ends, !.scene = CASE ends > EndTime -> "end"
                                                                 [] ends <= EndTime /\ escapes -> "title"
                                                                 [] OTHER -> "main"])

ShooterNext ==
    \/ KeyboardControl \/ PlayerProjectileUpdate \/ EnemyProjectileUpdate \/ SpawnEnemy \/ EnemyUpdate
    \/ PlayerUpdate \/ ExplosionUpdate \/ ItemUpdate \/ ChangeSceneDelay

\* An enemy counts once, however many projectiles reach it in a frame, and an item once.
ScoresOnce == obj.score = 10 * Cardinality(obj.killed) + 5 * Cardinality(obj.taken)
\* What the player lost and got back is what is left; between two frames the player
\* lives if and only if any is left, and the dead are not healed.
HealthFits ==
    /\ obj.health = MaxHealth - obj.hits + obj.healed
    /\ obj.health <= MaxHealth
    /\ obj.phase \notin {"keys", "shots", "balls", "spawn", "enemies", "player"} => (obj.alive <=> obj.health > 0)
    /\ obj.phase \in {"keys", "shots"} => (obj.alive <=> obj.health > 0)
\* The end comes after the time of the explosion, with the score of the moment of the
\* death, which shots in flight may still pass.
EndFits ==
    /\ obj.scene = "end" => ~obj.alive /\ obj.ends = EndTime + 1
    /\ ~obj.alive => obj.final <= obj.score /\ obj.score - obj.final \in {10 * k : k \in 0..MaxShots}

-----------------------------------------------------------------------------
(* Scenes and the leader board                                             *)

\* A name is bytes: "L" leads a character and "C" continues it.  The file is a line
\* of score and name for each entry, read back word by word.  The number that a word
\* of digits is read as is higher than any score.
Misread == Max(Scores) + 1
Entry(score, name) == [score |-> score, name |-> name]
RECURSIVE Words(_)
Words(bytes) ==
    IF bytes = <<>> THEN <<>>
    ELSE IF Head(bytes) = " " THEN Words(Tail(bytes))
    ELSE LET ends == {k \in DOMAIN bytes : bytes[k] = " "} \union {Len(bytes) + 1}
         IN  <<SubSeq(bytes, 1, Min(ends) - 1)>> \o Words(SubSeq(bytes, Min(ends), Len(bytes)))
\* A word of the file: of a name, or a score.  A word of digits is read as a number.
InFile(board) == FlattenSeq([k \in DOMAIN board |-> <<[is |-> "score", score |-> board[k].score, name |-> <<>>]>>
                            \o LET words == Words(board[k].name) IN [w \in DOMAIN words |-> [is |-> "word", score |-> Misread, name |-> words[w]]]])
IsNumber(word) == word.is = "score" \/ \A k \in DOMAIN word.name : word.name[k] = "9"

\* multimap::insert: after those of the same score; the last of too many is dropped.
InsertLeaderBoard(board, entry) ==
    LET above == Cardinality({k \in DOMAIN board : board[k].score >= entry.score})
        longer == InsertAt(board, above + 1, entry)
    IN  SubSeq(longer, 1, Min({Len(longer), Places}))
RECURSIVE ReadPairs(_, _)
ReadPairs(words, board) ==
    IF Len(words) < 2 \/ ~IsNumber(words[1]) THEN board
    ELSE ReadPairs(SubSeq(words, 3, Len(words)), InsertLeaderBoard(board, Entry(words[1].score, words[2].name)))
LoadData(file) == ReadPairs(InFile(file), <<>>)

Unnamed == <<"L", "C">>                 \* what an empty name becomes
BoardInit ==
    obj = [run |-> "off", scene |-> "none", typing |-> FALSE, name |-> <<>>, final |-> 0, board |-> <<>>, file |-> <<>>,
           all |-> <<>>, saved |-> <<>>, starts |-> 0, failed |-> FALSE, fresh |-> FALSE]   \* history

\* Game::init: everything may fail before the data is loaded; then nothing runs.
Start(works) ==
    /\ obj.run = "off" /\ obj.starts < MaxStarts
    /\ obj' = IF works
              THEN [obj EXCEPT !.run = "on", !.scene = "title", !.board = LoadData(obj.file), !.starts = @ + 1, !.fresh = TRUE]
              ELSE [obj EXCEPT !.run = "on", !.scene = "none", !.board = <<>>, !.starts = @ + 1, !.failed = TRUE]
\* ~Game saves whatever the board is.
End ==
    /\ obj.run = "on"
    /\ obj' = [obj EXCEPT !.run = "off", !.scene = "none", !.file = obj.board, !.saved = obj.board, !.board = <<>>, !.fresh = FALSE]
In(scene) == obj.run = "on" /\ obj.scene = scene
Play == In("title") /\ obj' = [obj EXCEPT !.scene = "main", !.fresh = FALSE]
Escape == In("main") /\ obj' = [obj EXCEPT !.scene = "title"]
Die ==
    /\ In("main") /\ Len(obj.all) < MaxGames
    /\ \E score \in Scores : obj' = [obj EXCEPT !.scene = "end", !.typing = TRUE, !.name = <<>>, !.final = score]
Typing == In("end") /\ obj.typing
Type == Typing /\ \E text \in Typed : Len(obj.name) + Len(text) <= MaxName /\ obj' = [obj EXCEPT !.name = @ \o text]
\* removeLastUTF8Char
RemoveLastUTF8Char(s) ==
    IF Last(s) \in {"L", "C"}
    THEN SubSeq(s, 1, Max({k \in 1..Len(s) - 1 : s[k] = "L"}) - 1)
    ELSE Front(s)
Backspace == Typing /\ obj.name # <<>> /\ obj' = [obj EXCEPT !.name = RemoveLastUTF8Char(@)]
Return ==
    /\ Typing
    /\ LET name == IF obj.name = <<>> THEN Unnamed ELSE obj.name
       IN  obj' = [obj EXCEPT !.typing = FALSE, !.name = name, !.all = Append(@, Entry(obj.final, name)),
                              !.board = InsertLeaderBoard(@, Entry(obj.final, name))]
Again == In("end") /\ ~obj.typing /\ obj' = [obj EXCEPT !.scene = "main"]

BoardNext ==
    \/ (\E works \in BOOLEAN : Start(works)) \/ End \/ Play \/ Escape \/ Die \/ Type \/ Backspace \/ Return \/ Again

\* Nothing of a character is left over.
NamesAreWhole ==
    \A k \in DOMAIN obj.name : obj.name[k] = "C" <=> k > 1 /\ obj.name[k - 1] = "L"
OneWord(entry) == Words(entry.name) = <<entry.name>>
\* While every name is one word and every start succeeds, the best scores ever entered
\* are on the board, or in the file, highest first, and the earlier of equals.
BestAreKept ==
    ~obj.failed /\ (\A k \in DOMAIN obj.all : OneWord(obj.all[k]))
       => (IF obj.run = "on" THEN obj.board ELSE obj.file) =
          SubSeq(SortSeq(obj.all, LAMBDA a, b : a.score > b.score), 1, Min({Places, Len(obj.all)}))
\* Read back, a file of names of one word is the board that was saved; of another the
\* entries before the first name of several words are kept, behind what its digits were
\* taken for.
FileIsReadBack ==
    obj.fresh =>
      LET several == {k \in DOMAIN obj.saved : ~OneWord(obj.saved[k])}
          before == SubSeq(obj.saved, 1, Min(several \union {Len(obj.saved) + 1}) - 1)
          known == SelectSeq(obj.board, LAMBDA entry : entry.score # Misread)
      IN  /\ several = {} => obj.board = obj.saved
          /\ Len(obj.board) < Places => IsPrefix(before, known)
          /\ Misread \notin {obj.saved[k].score : k \in DOMAIN obj.saved} /\ Misread \in {obj.board[k].score : k \in DOMAIN obj.board}
               => several # {}

-----------------------------------------------------------------------------
(* Timers, animations and the camera                                       *)

Timer(wait, oneShot) == [pass |-> 0, wait |-> wait, oneShot |-> oneShot, shot |-> FALSE, fired |-> FALSE]
Restart(t) == [t EXCEPT !.pass = 0, !.shot = FALSE]
\* The time that is left over is kept; `fired`: the callback is called in this update.
TimerUpdate(t, delta) ==
    LET due == t.pass + delta >= t.wait
        fires == due /\ ~(t.oneShot /\ t.shot)
    IN  [t EXCEPT !.pass = @ + delta - (IF due THEN t.wait ELSE 0), !.shot = @ \/ fires, !.fired = fires]

\* An animation that is shown once keeps its last image, and calls on_finished at
\* every further turn.
Animation(frames, interval) == [timer |-> Timer(interval, FALSE), frames |-> frames, frame |-> 0, finished |-> FALSE]
Reset(a) == [a EXCEPT !.timer = Restart(@), !.frame = 0]
AnimationUpdate(a, delta) ==
    LET t == TimerUpdate(a.timer, delta)
    IN  [a EXCEPT !.timer = t, !.frame = IF t.fired THEN Min({@ + 1, a.frames - 1}) ELSE @,
                  !.finished = t.fired /\ a.frame + 1 >= a.frames]

Camera == [timer |-> Timer(ShakeTime, TRUE), shaking |-> FALSE, moved |-> FALSE]
Shake(c) == [c EXCEPT !.shaking = TRUE, !.timer = Restart(@)]
CameraUpdate(c, delta) ==
    LET t == TimerUpdate(c.timer, delta)
        shaking == c.shaking /\ ~t.fired
    IN  [timer |-> t, shaking |-> shaking, moved |-> shaking \/ (c.moved /\ ~t.fired)]

-----------------------------------------------------------------------------
(* chicken_evil                                                            *)

Chicken(id, kind) ==
    [id |-> id, speed |-> kind, y |-> 0, alive |-> TRUE, valid |-> TRUE, explosion |-> Animation(ExplosionFrames, ExplosionTime),
     dead |-> 0]                                                    \* history
Bullet(id) == [id |-> id, valid |-> TRUE]

\* Every timer but the camera's begins when the game does.
ChickenInit ==
    obj = [hp |-> Hp, score |-> 0, perGen |-> 1, generate |-> Timer(GenerateTime, FALSE), increase |-> Timer(IncreaseTime, FALSE),
           chicken |-> <<>>, bullets |-> <<>>, cool |-> TRUE, fire |-> Animation(FireFrames, FireTime), camera |-> Camera, quit |-> FALSE,
           hatched |-> 0, fired |-> 0, hit |-> {}, spent |-> {}, passed |-> {}, since |-> FireFrames * FireTime]    \* history

\* The kinds are thrown by an engine that is gone when the callback runs.
Generate(o, kinds) ==
    IF ~o.generate.fired THEN o
    ELSE LET n == Min({o.perGen, MaxChickens - o.hatched})
         IN  [o EXCEPT !.chicken = @ \o [k \in 1..n |-> Chicken(o.hatched + k, kinds[k])], !.hatched = @ + n]
TimersUpdate(o, delta, kinds) ==
    LET made == Generate([o EXCEPT !.generate = TimerUpdate(@, delta)], kinds)
        later == TimerUpdate(o.increase, delta)
    IN  [made EXCEPT !.increase = later, !.perGen = IF later.fired THEN Min({@ + 1, MaxChickens}) ELSE @]

ChickenUpdate(c, delta) ==
    IF c.alive THEN [c EXCEPT !.y = @ + c.speed * delta]
    ELSE LET a == AnimationUpdate(c.explosion, delta) IN [c EXCEPT !.explosion = a, !.valid = @ /\ ~a.finished, !.dead = @ + delta]
\* A bullet meets a chicken.
Meets(o, c, b) ==
    IF ~o.chicken[c].alive \/ ~o.bullets[b].valid THEN o
    ELSE [o EXCEPT !.chicken[c].alive = FALSE, !.bullets[b].valid = FALSE, !.score = @ + 1,
                   !.hit = @ \union {o.chicken[c].id}, !.spent = @ \union {o.bullets[b].id}]
Passes(o, c) ==
    IF ~o.chicken[c].alive \/ o.chicken[c].y <= Height THEN o
    ELSE [o EXCEPT !.chicken[c].alive = FALSE, !.hp = @ - 1, !.passed = @ \union {o.chicken[c].id}]
\* met[c]: the bullets where chicken c is.
ChickenTurn(o, c, met, delta) ==
    Passes(FoldLeft(LAMBDA p, b : Meets(p, c, b), [o EXCEPT !.chicken[c] = ChickenUpdate(@, delta)],
                    SetToSortSeq(met, <)), c)
Hunt(o, met, delta) ==
    LET done == FoldLeftDomain(LAMBDA p, c : ChickenTurn(p, c, met[c], delta), o, met)
    IN  [done EXCEPT !.bullets = Valid(@), !.chicken = SortSeq(Valid(@), LAMBDA a, b : a.y < b.y)]

\* The animation of a shot ends, and the next may begin in the same frame.
Fire(o, key, delta) ==
    LET fire == AnimationUpdate(o.fire, delta)
        going == IF o.cool THEN o ELSE [o EXCEPT !.camera = Shake(@), !.fire = fire, !.cool = fire.finished]
        timed == [going EXCEPT !.since = Min({FireFrames * FireTime, @ + delta})]
    IN  IF timed.cool /\ key
        THEN [timed EXCEPT !.fire = Reset(@), !.cool = FALSE, !.bullets = Append(@, Bullet(o.fired + 1)), !.fired = @ + 1, !.since = 0]
        ELSE timed

GameOver(o) == [o EXCEPT !.quit = @ \/ o.hp <= 0]
\* A turn of mainloop: the button and the wish to quit as the events left them, then
\* on_update, in which bullets leave the window.
Frame ==
    /\ ~obj.quit
    /\ \E delta \in Deltas, key \in IF obj.fired < MaxBullets THEN BOOLEAN ELSE {FALSE}, quits \in BOOLEAN,
          kinds \in [1..MaxChickens -> Kinds], out \in SUBSET {obj.bullets[b].id : b \in DOMAIN obj.bullets} :
         LET made == TimersUpdate(obj, delta, kinds)
             flown == [made EXCEPT !.bullets = SelectSeq(@, LAMBDA b : b.id \notin out)]
         IN  \E met \in [DOMAIN made.chicken -> SUBSET DOMAIN flown.bullets] :
               LET shot == Fire(Hunt(flown, met, delta), key, delta)
               IN  obj' = GameOver([shot EXCEPT !.camera = CameraUpdate(@, delta), !.quit = quits])
ChickenNext == Frame

\* A bullet kills one chicken and a chicken dies of one bullet; one that was hit is not
\* counted as passed as well, and only what was lost is missing.
CountsFit ==
    /\ obj.score = Cardinality(obj.hit) /\ obj.score = Cardinality(obj.spent)
    /\ obj.hp = Hp - Cardinality(obj.passed) /\ obj.hit \intersect obj.passed = {}
    /\ obj.hp <= 0 => obj.quit
\* The dead explode once and are gone; the camera comes to rest; two shots are as far
\* apart as the animation is long.
EffectsEnd ==
    /\ \A k \in DOMAIN obj.chicken : obj.chicken[k].dead < ExplosionFrames * ExplosionTime + Max(Deltas)
    /\ obj.camera.moved <=> obj.camera.shaking
    /\ obj.cool => obj.since >= FireFrames * FireTime
=============================================================================
