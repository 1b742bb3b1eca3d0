---------------------------- MODULE GhostEscape ----------------------------
(***************************************************************************)
(* The game Ghost Escape (src/sdl3/ghost_escape): the tree of objects and  *)
(* its changes while it is walked through, the scenes, the player, the     *)
(* enemies, the weapon, the buttons, and the scores.  A step is one turn   *)
(* of Game::run: a change of scene, at most one event, then an update.     *)
(* Health, mana and times are counted in hits, spells and turns; where     *)
(* things are is reduced to what touches what.                             *)
(***************************************************************************)
EXTENDS Integers, Sequences, SequencesExt, FiniteSetsExt

CONSTANTS MaxHealth, MaxMana, InvincibleTime, CoolDown, EndTime, Interval, SpellFrames, EffectFrames, DieFrames,
          Num,                       \* enemies of a wave
          Places,                    \* where the mouse comes
          MaxSpawned, MaxGames       \* bounds: enemies of a game, games

VARIABLES obj

\* The buttons of a scene in the order of its children.
Buttons(scene) == IF scene = "main" THEN <<"pause", "restart", "back">> ELSE <<"start", "credits", "quit">>

Stats == [health |-> MaxHealth, hurt |-> 0]      \* hurt: turns since the last hit, 0 if it may be hit
Child(kind) == [kind |-> kind, stats |-> Stats, state |-> "normal", frame |-> 0, finish |-> FALSE, next |-> FALSE,
                active |-> TRUE, remove |-> FALSE]
Player == Child("player")
Ghost == [Child("ghost") EXCEPT !.active = FALSE]       \* the effect of the player's death

\* What a scene begins with.
Fresh == [world |-> <<>>, toAdd |-> <<>>, pressed |-> {}, hover |-> "none", trigger |-> {}, paused |-> FALSE, ended |-> FALSE,
          timer |-> 0, endActive |-> FALSE, endTimer |-> 0, cool |-> CoolDown, mana |-> MaxMana, credits |-> FALSE]

\* The first change, to the title, is wanted before the first turn.
Init ==
    obj = [s |-> Fresh, scene |-> "none", wanted |-> "title", running |-> TRUE, score |-> 0, high |-> 0, file |-> 0,
           games |-> 0, spawned |-> 0, joined |-> 0,           \* history of the game that is played
           best |-> 0, unsaved |-> FALSE,      \* history: the best score, and whether a save failed
           dead |-> 0,               \* history: turns since the player died, pauses left out
           held |-> "up",            \* history: where the mouse went down, "up" while it is not
           dragged |-> FALSE]        \* history: it came up elsewhere

-----------------------------------------------------------------------------
(* Scenes                                                                  *)

\* SceneMain::saveData, SceneTitle::loadData
Clean(o, saves) ==
    CASE o.scene # "main" -> o
      [] o.scene = "main" /\ saves -> [o EXCEPT !.file = o.high]
      [] OTHER -> [o EXCEPT !.unsaved = TRUE]
\* Game::setScore
SetScore(o, score) == [o EXCEPT !.score = score, !.high = Max({@, score}), !.best = Max({@, score})]
InitTitle(o) == [o EXCEPT !.s = Fresh, !.scene = "title", !.high = o.file]
InitMain(o) ==
    [SetScore(o, 0) EXCEPT !.s = [Fresh EXCEPT !.world = <<Ghost, Player>>], !.scene = "main", !.games = @ + 1,
                           !.spawned = 0, !.joined = 0, !.dead = 0]
\* The old scene is cleaned, then the new one begins.
TakeScene(o, saves) ==
    LET cleaned == [Clean(o, saves) EXCEPT !.wanted = "none"]
    IN  CASE o.wanted = "none" -> o
          [] o.wanted = "title" -> InitTitle(cleaned)
          [] OTHER -> InitMain(cleaned)
ChangeScene(o, scene) == [o EXCEPT !.wanted = scene]

AddScore(o, n) == SetScore(o, o.score + n)

-----------------------------------------------------------------------------
(* Actors                                                                  *)

Alive(c) == c.stats.health > 0
TakeDamage(c) ==
    IF Alive(c) /\ c.stats.hurt = 0
    THEN [c EXCEPT !.stats = [health |-> @.health - 1, hurt |-> IF @.health > 1 THEN 1 ELSE 0]] ELSE c
StatsUpdate(c) == [c EXCEPT !.stats.hurt = IF @ = 0 \/ @ > InvincibleTime THEN 0 ELSE @ + 1]
\* SpriteAnim::update of an animation that is shown once.
Animate(c, frames) ==
    IF c.finish THEN c ELSE [c EXCEPT !.frame = IF @ + 1 >= frames THEN 0 ELSE @ + 1, !.finish = c.frame + 1 >= frames]

Enemies(o) == {k \in DOMAIN o.s.world : o.s.world[k].kind = "enemy"}
PlayerAt(o) == CHOOSE k \in DOMAIN o.s.world : o.s.world[k].kind = "player"
ThePlayer(o) == o.s.world[PlayerAt(o)]

\* Stats regain mana, the weapon cools down, and the dead player leaves its effect.
UpdatePlayer(o, k) ==
    LET c == StatsUpdate(o.s.world[k])
        ticked == [o EXCEPT !.s.world[k] = c, !.s.cool = IF @ < CoolDown THEN @ + 1 ELSE @,
                            !.s.mana = IF @ < MaxMana THEN @ + 1 ELSE @]
        ghost == CHOOSE g \in DOMAIN o.s.world : o.s.world[g].kind = "ghost"
    IN  IF Alive(c) THEN ticked ELSE [ticked EXCEPT !.s.world[k].active = FALSE, !.s.world[ghost].active = TRUE]

\* Enemy: attack, checkState, remove.  A death is counted when the state changes.
EnemyState(c) == IF ~Alive(c) THEN "die" ELSE IF c.stats.hurt > 0 THEN "hurt" ELSE "normal"
EnemyAttack(o, k, near) ==
    IF Alive(o.s.world[k]) /\ Alive(ThePlayer(o)) /\ k \in near THEN [o EXCEPT !.s.world[PlayerAt(o)] = TakeDamage(@)] ELSE o
ChangeState(o, k) ==
    LET state == EnemyState(o.s.world[k])
        dies == state = "die" /\ o.s.world[k].state # "die"
        changed == [o EXCEPT !.s.world[k].state = state]
    IN  IF dies THEN AddScore(changed, 1) ELSE changed
UpdateEnemy(o, k, near) ==
    LET changed == ChangeState(EnemyAttack(o, k, near), k)
        e == changed.s.world[k]
        ticked == StatsUpdate([e EXCEPT !.remove = e.finish])
    IN  [changed EXCEPT !.s.world[k] = IF e.state = "die" THEN Animate(ticked, DieFrames) ELSE ticked]

\* A spell hits, as long as it is seen, each enemy it touches.
UpdateSpell(o, k, struck) ==
    LET c == Animate(o.s.world[k], SpellFrames)
        hit == FoldSet(LAMBDA j, world : [world EXCEPT ![j] = TakeDamage(@)], o.s.world, struck \intersect Enemies(o))
    IN  IF c.finish THEN [o EXCEPT !.s.world[k] = [c EXCEPT !.remove = TRUE]] ELSE [o EXCEPT !.s.world = [hit EXCEPT ![k] = c]]

\* An effect that ends is followed by its enemy, from the next turn on.
UpdateEffect(o, k) ==
    LET c == Animate(o.s.world[k], EffectFrames)
        ended == [c EXCEPT !.remove = TRUE, !.next = FALSE]
    IN  IF ~c.finish THEN [o EXCEPT !.s.world[k] = c]
        ELSE [o EXCEPT !.s.world[k] = ended, !.s.toAdd = IF c.next THEN Append(@, Child("enemy")) ELSE @]

UpdateChild(o, k, near, struck) ==
    LET c == o.s.world[k]
    IN  IF ~c.active THEN o
        ELSE CASE c.kind = "player" -> UpdatePlayer(o, k)
               [] c.kind = "enemy" -> UpdateEnemy(o, k, near)
               [] c.kind = "spell" -> UpdateSpell(o, k, struck)
               [] OTHER -> UpdateEffect(o, k)

-----------------------------------------------------------------------------
(* The children of a scene                                                 *)

\* Update of object.h: a partition that updates who stays, from the front and, when one is
\* to be removed, from the back; those are exchanged.  What stays is in [1, i).
Swap(s, i, j) == [s EXCEPT ![i] = s[j], ![j] = s[i]]
RECURSIVE Partition(_, _, _, _, _, _)
Partition(o, i, j, front, near, struck) ==
    CASE i > j -> [o EXCEPT !.s.world = SubSeq(@, 1, i - 1)]
      [] i <= j /\ front /\ ~o.s.world[i].remove -> Partition(UpdateChild(o, i, near, struck), i + 1, j, TRUE, near, struck)
      [] i <= j /\ front /\ o.s.world[i].remove -> Partition(o, i, j, FALSE, near, struck)
      [] i <= j /\ ~front /\ i = j -> [o EXCEPT !.s.world = SubSeq(@, 1, i - 1)]
      [] OTHER -> IF o.s.world[j].remove THEN Partition(o, i, j - 1, FALSE, near, struck)
                  ELSE Partition([UpdateChild(o, j, near, struck) EXCEPT !.s.world = Swap(@, i, j)], i + 1, j - 1, TRUE, near, struck)

\* Spawner::update: the effects of a wave go straight to the world, which is not walked through yet.
Spawn(o) ==
    LET effect == [Child("effect") EXCEPT !.next = TRUE]
    IN  IF o.s.timer + 1 < Interval THEN [o EXCEPT !.s.timer = @ + 1]
        ELSE IF o.spawned + Num > MaxSpawned THEN [o EXCEPT !.s.timer = 0]
        ELSE [o EXCEPT !.s.timer = 0, !.spawned = @ + Num, !.s.world = @ \o [n \in 1..Num |-> effect]]

\* Timer::update of the timer that ends the game; it tells once.
TimerUpdate(o) ==
    IF ~o.s.endActive THEN [st |-> o, out |-> FALSE]
    ELSE IF o.s.endTimer + 1 < EndTime THEN [st |-> [o EXCEPT !.s.endTimer = @ + 1], out |-> FALSE]
    ELSE [st |-> [o EXCEPT !.s.endTimer = 0], out |-> TRUE]

\* Scene::update: what was kept for later joins first.
SceneUpdate(o, near, struck) ==
    LET joined == [o EXCEPT !.s.world = @ \o o.s.toAdd, !.s.toAdd = <<>>, !.joined = @ + Len(o.s.toAdd)]
        timed == TimerUpdate(Spawn(joined))
    IN  IF o.s.paused THEN [st |-> joined, out |-> FALSE]
        ELSE [timed EXCEPT !.st = Partition(@, 1, Len(@.s.world), TRUE, near, struck)]

-----------------------------------------------------------------------------
(* Buttons and events                                                      *)

\* HandleEvents: the first child that takes an event ends it.
Enabled(o) == SelectSeq(Buttons(o.scene), LAMBDA b : ~(b = "pause" /\ o.s.ended))
Hovered(o) == {k \in DOMAIN Enabled(o) : Enabled(o)[k] = o.s.hover}
ButtonDown(o) == [o EXCEPT !.s.pressed = @ \union {o.s.hover}]
ButtonUp(o) ==
    LET k == IF Hovered(o) = {} THEN Len(Enabled(o)) ELSE Max(Hovered(o))
        told == ToSet(SubSeq(Enabled(o), 1, k))
    IN  [o EXCEPT !.s.pressed = @ \ told, !.s.trigger = IF Hovered(o) = {} THEN @ ELSE @ \union {o.s.hover}]

\* WeaponThunder::handleEvents, Weapon::attack
CanAttack(o) == o.s.cool >= CoolDown /\ o.s.mana > 0
Attack(o) ==
    IF CanAttack(o) THEN [o EXCEPT !.s.mana = @ - 1, !.s.cool = 0, !.s.world = Append(@, Child("spell"))] ELSE o

Down(o) ==
    IF Hovered(o) # {} THEN ButtonDown(o)
    ELSE IF o.scene = "main" /\ ~o.s.paused /\ ThePlayer(o).active THEN Attack(o) ELSE o
Up(o) == IF o.s.credits THEN [o EXCEPT !.s.credits = FALSE] ELSE ButtonUp(o)
HandleEvents(o, event) ==
    CASE event = "down" -> [Down(o) EXCEPT !.held = o.s.hover]
      [] event = "up" -> [Up(o) EXCEPT !.held = "up", !.dragged = @ \/ o.held # o.s.hover \/ o.s.credits]
      [] event = "quit" -> [o EXCEPT !.running = FALSE]
      [] OTHER -> o

\* HUDButton::checkHover of the buttons that are updated, and getIsTrigger.
CheckHover(o, at) == [o EXCEPT !.s.hover = IF at \in ToSet(Enabled(o)) THEN at ELSE "none"]
IsTrigger(o, b) == b \in o.s.trigger
Taken(o, b) ==
    [o EXCEPT !.s.trigger = @ \ {b}, !.s.pressed = @ \ {b}, !.s.hover = IF @ = b THEN "none" ELSE @]

CheckButtonPause(o) == IF IsTrigger(o, "pause") THEN [Taken(o, "pause") EXCEPT !.s.paused = ~@] ELSE o
CheckButtonRestart(o) == IF IsTrigger(o, "restart") THEN ChangeScene(Taken(o, "restart"), "main") ELSE o
CheckButtonBack(o) == IF IsTrigger(o, "back") THEN ChangeScene(Taken(o, "back"), "title") ELSE o
CheckEndTimer(o, out) ==
    LET started == [o EXCEPT !.s.endActive = @ \/ ~ThePlayer(o).active]
    IN  IF out THEN [started EXCEPT !.s.paused = TRUE, !.s.ended = TRUE, !.s.endActive = FALSE] ELSE started

UpdateMain(o, at, near, struck) ==
    LET updated == SceneUpdate(o, near, struck)
        hovered == CheckHover(updated.st, at)
        counted == [hovered EXCEPT !.dead = IF ThePlayer(o).active \/ o.s.paused \/ o.s.ended THEN @ ELSE @ + 1]
    IN  CheckEndTimer(CheckButtonBack(CheckButtonRestart(CheckButtonPause(counted))), updated.out)

CheckButtonStart(o) == IF IsTrigger(o, "start") THEN ChangeScene(Taken(o, "start"), "main") ELSE o
CheckButtonCredits(o) == IF IsTrigger(o, "credits") THEN [Taken(o, "credits") EXCEPT !.s.credits = ~@] ELSE o
CheckButtonQuit(o) == IF IsTrigger(o, "quit") THEN [Taken(o, "quit") EXCEPT !.running = FALSE] ELSE o
UpdateTitle(o, at) ==
    IF o.s.credits THEN o ELSE CheckButtonQuit(CheckButtonCredits(CheckButtonStart(CheckHover(o, at))))

-----------------------------------------------------------------------------
(* Game::run                                                               *)

Wanted(o) == o.wanted = "main" => o.games < MaxGames
Turn(event, at) ==
    /\ obj.running /\ Wanted(obj)
    /\ event = "down" => obj.held = "up"
    /\ event = "up" => obj.held # "up"
    /\ \E saves \in IF obj.scene = "main" /\ obj.wanted # "none" THEN BOOLEAN ELSE {TRUE} :
         LET o == HandleEvents(TakeScene(obj, saves), event)
         IN  IF o.scene = "main"
             THEN \E near \in SUBSET Enemies(o), struck \in SUBSET Enemies(o) : obj' = UpdateMain(o, at, near, struck)
             ELSE obj' = UpdateTitle(o, at)

\* Game::clean, when the loop has ended.
Leave ==
    /\ ~obj.running /\ obj.scene # "none"
    /\ obj' = [Clean(obj, TRUE) EXCEPT !.scene = "none", !.s = Fresh]

Next ==
    \/ \E event \in {"none", "down", "up", "quit"}, at \in Places : Turn(event, at)
    \/ Leave
Spec == Init /\ [][Next]_obj

(***************************************************************************)
(* Properties.                                                             *)
(***************************************************************************)
InMain == obj.scene = "main"

\* The score is the number of the enemies that came and no longer live, however many hits
\* of how many spells reached them in a turn, and whoever was removed meanwhile.
ScoreIsKills ==
    InMain => obj.score = obj.joined - Cardinality({k \in Enemies(obj) : obj.s.world[k].state # "die"})

\* No enemy is lost on its way from its effect to the world.
EnemiesJoin ==
    InMain => obj.spawned = obj.joined + Len(obj.s.toAdd) + Cardinality({k \in DOMAIN obj.s.world : obj.s.world[k].next})

\* The effect the player points to is there as long as the player may still show it.
GhostIsThere ==
    InMain => /\ Cardinality({k \in DOMAIN obj.s.world : obj.s.world[k].kind = "player"}) = 1
              /\ ThePlayer(obj).active => \E k \in DOMAIN obj.s.world : obj.s.world[k].kind = "ghost" /\ ~obj.s.world[k].remove

\* A death ends the game: not before the time of the timer, not a turn after it, and for good.
EndsInTime ==
    InMain => /\ obj.dead <= EndTime
              /\ obj.s.ended => obj.s.paused /\ ~ThePlayer(obj).active /\ obj.dead = EndTime

\* The best score of all games is on show while one is played, on the title, and in the
\* file when the program ends, whichever way the games end, unless a file was not written.
BestIsKept ==
    obj.unsaved \/ IF obj.scene = "none" THEN ~obj.running => obj.file = obj.best ELSE obj.high = obj.best

\* A button looks pressed only while the mouse is down, unless the mouse came up over
\* another one, which ends the event before the button hears of it.
PressedIsHeld == obj.dragged \/ obj.s.pressed \intersect ToSet(Enabled(obj)) \subseteq {obj.held}
=============================================================================
