---------------------------- MODULE SunnyScenes ----------------------------
(***************************************************************************)
(* The scenes of the platform game (src/sdl3/sunny_land) and what passes   *)
(* between them: the stack and its one pending request (SceneManager), the *)
(* state of the game (GameState), the data that outlive a scene            *)
(* (SessionData), the saved file, and the health of the player.  One frame *)
(* is the input of the top scene, then its update and the request.  Where  *)
(* the player is and what is touched is left open: the touches of a frame  *)
(* are found together, before the first of them is handled.  The file can  *)
(* always be read and written.                                             *)
(***************************************************************************)
EXTENDS Naturals, Sequences, SequencesExt, FiniteSetsExt

CONSTANTS Levels,          \* the last one has the win, the others an exit to the next
          MaxHealth, MaxScore,
          MaxTouches       \* pairs in which the player is, in one frame

VARIABLES obj

NoRequest == [action |-> "None", scene |-> "none"]
\* SessionData, as constructed and after reset (which keeps the high score).
Fresh(high) == [health |-> MaxHealth, score |-> 0, high |-> high, levelHealth |-> MaxHealth,
                levelScore |-> 0, map |-> 1, win |-> FALSE]
Alive(body) == body.health > 0

Init ==
    obj = [stack |-> <<>>, pending |-> [action |-> "Push", scene |-> "Title"], state |-> "Title",
           data |-> Fresh(0), file |-> [levelScore |-> 0, levelHealth |-> MaxHealth, high |-> 0, map |-> 1],
           body |-> [health |-> MaxHealth, dead |-> FALSE, invincible |-> FALSE],
           phase |-> "input", quit |-> FALSE, running |-> TRUE,
           unseen |-> FALSE,          \* history: hit by an object since the hearts were drawn
           still |-> FALSE]           \* history: entered the level without health

Top(o) == IF o.stack = <<>> THEN "none" ELSE Last(o.stack)
Request(o, action, scene) ==
    [o EXCEPT !.pending = [action |-> action, scene |-> IF action = "Pop" THEN @.scene ELSE scene]]

-----------------------------------------------------------------------------
(* SessionData and its file                                                *)

SyncHighScore(o) ==
    LET high == Max({o.file.high, o.data.high})
    IN  [o EXCEPT !.data.high = high, !.file.high = high]

Load(o) ==
    [o EXCEPT !.data = [@ EXCEPT !.score = o.file.levelScore, !.levelScore = o.file.levelScore,
                                 !.health = o.file.levelHealth, !.levelHealth = o.file.levelHealth,
                                 !.high = Max({@, o.file.high}), !.map = o.file.map]]

Save(o) == [o EXCEPT !.file = [levelScore |-> o.data.levelScore, levelHealth |-> o.data.levelHealth,
                               high |-> o.data.high, map |-> o.data.map]]

SetNextLevel(data) ==
    [data EXCEPT !.map = @ + 1, !.levelHealth = data.health, !.levelScore = data.score]

-----------------------------------------------------------------------------
(* SceneManager                                                            *)

\* init of a scene
Enter(o, scene) ==
    CASE scene = "Title" -> SyncHighScore([o EXCEPT !.state = "Title"])
      [] scene = "Game" -> LET synced == SyncHighScore([o EXCEPT !.state = "Playing"])
                           IN  [synced EXCEPT !.body = [health |-> o.data.health, dead |-> FALSE, invincible |-> FALSE],
                                              !.unseen = FALSE, !.still = o.data.health = 0]
      [] scene = "Menu" -> [o EXCEPT !.state = "Paused"]
      [] scene = "End" -> [o EXCEPT !.state = "GameOver"]
      [] OTHER -> o

PushScene(o, scene) == [Enter(o, scene) EXCEPT !.stack = Append(@, scene)]

\* A request to pop leaves the scene of an earlier request where it is.
ProcessPendingActions(o) ==
    LET scene == o.pending.scene
        done == [o EXCEPT !.pending = IF @.action \in {"Push", "Replace"} THEN NoRequest ELSE [@ EXCEPT !.action = "None"]]
    IN  CASE o.pending.action = "Push" -> PushScene(done, scene)
          [] o.pending.action = "Pop" -> [done EXCEPT !.stack = IF @ = <<>> THEN @ ELSE Front(@)]
          [] o.pending.action = "Replace" -> PushScene([done EXCEPT !.stack = <<>>], scene)
          [] OTHER -> o

-----------------------------------------------------------------------------
(* Input: a click on a button of the scene, then the pause key             *)

Buttons(scene) ==
    CASE scene = "Title" -> {"Start", "Load", "Helps", "Quit"}
      [] scene = "Menu" -> {"Resume", "Save", "Back", "Quit"}
      [] scene = "End" -> {"Back", "Restart"}
      [] OTHER -> {}

Resume(o) == Request([o EXCEPT !.state = "Playing"], "Pop", "none")

Click(o, button) ==
    CASE button \in {"Start", "Restart"} -> Request([o EXCEPT !.data = Fresh(@.high)], "Replace", "Game")
      [] button = "Load" -> Request(Load(o), "Replace", "Game")
      [] button = "Helps" -> Request(o, "Push", "Helps")
      [] button = "Back" -> Request(o, "Replace", "Title")
      [] button = "Save" -> Save(o)
      [] button = "Resume" -> Resume(o)
      [] button = "Quit" -> [(IF Top(o) = "Title" THEN SyncHighScore(o) ELSE o) EXCEPT !.quit = TRUE]
      [] OTHER -> o

Pause(o) == IF Top(o) = "Game" THEN Request(o, "Push", "Menu") ELSE IF Top(o) = "Menu" THEN Resume(o) ELSE o

HandleInput(button, pause) ==
    LET clicked == Click(obj, button)
        handled == IF pause THEN Pause(clicked) ELSE clicked
    IN  /\ obj.phase = "input" /\ obj.running /\ ~obj.quit /\ Top(obj) # "Helps"
        /\ button \in Buttons(Top(obj)) \union {"none"}
        /\ obj' = [handled EXCEPT !.phase = "update"]

\* The mouse is pressed, wherever it is, or not.
HelpsInput(pressed) ==
    /\ obj.phase = "input" /\ obj.running /\ ~obj.quit /\ Top(obj) = "Helps"
    /\ obj' = [(IF pressed THEN Request(obj, "Pop", "none") ELSE obj) EXCEPT !.phase = "update"]

\* The window was closed, or a scene asked to quit: the scene gets no input any more, but
\* it is updated once.
HandleEvents ==
    /\ obj.phase = "input" /\ obj.running
    /\ obj' = [obj EXCEPT !.quit = TRUE, !.running = FALSE, !.phase = "update"]

-----------------------------------------------------------------------------
(* Update                                                                  *)

\* PlayerComponent::takeDamage with HealthComponent::takeDamage.
Hurts(body) == ~body.dead /\ Alive(body) /\ ~body.invincible
TakeDamage(body) ==
    IF ~Hurts(body) THEN body
    ELSE [health |-> body.health - 1, dead |-> body.health = 1, invincible |-> body.health > 1]

UpdateHealthWithUI(o) == [o EXCEPT !.data.health = o.body.health, !.unseen = FALSE]
HandlePlayerDamage(o) == IF Hurts(o.body) THEN UpdateHealthWithUI([o EXCEPT !.body = TakeDamage(@)]) ELSE o
AddScore(o, points) == [o EXCEPT !.data.score = @ + points, !.data.high = Max({@, o.data.score + points})]
ShowEndScene(o, win) == Request([o EXCEPT !.data.win = win], "Push", "End")

\* HandleObjectCollisions, for one pair.
Touch(o, what) ==
    CASE what = "enemy" -> HandlePlayerDamage(o)
      [] what = "stomp" -> AddScore(o, 2)
      [] what = "gem" -> AddScore(o, 1)
      [] what = "fruit" -> UpdateHealthWithUI(IF Alive(o.body) THEN [o EXCEPT !.body.health = IF @ < MaxHealth THEN @ + 1 ELSE @] ELSE o)
      [] what = "hazard" -> [o EXCEPT !.body = TakeDamage(@), !.unseen = @ \/ Hurts(o.body)]
      [] what = "next_level" -> Request([o EXCEPT !.data = SetNextLevel(@)], "Replace", "Game")
      [] what = "win" -> ShowEndScene(o, TRUE)

Points(touches) == FoldLeft(LAMBDA sum, what : sum + (CASE what = "stomp" -> 2 [] what = "gem" -> 1 [] OTHER -> 0), 0, touches)

\* What the physics engine may find: a dead player has no collider, and there is one exit.
Possible(touches, tile) ==
    /\ obj.body.dead => touches = <<>> /\ ~tile
    /\ Len(SelectSeq(touches, LAMBDA what : what \in {"next_level", "win"})) <= 1
    /\ "next_level" \in ToSet(touches) => obj.data.map < Levels
    /\ "win" \in ToSet(touches) => obj.data.map = Levels
    /\ obj.data.score + Points(touches) <= MaxScore

\* tile: on a dangerous tile; fall: below the world.  The time of invincibility may end.
GameUpdate(touches, tile, fall) ==
    /\ obj.phase = "update" /\ Top(obj) = "Game" /\ obj.state = "Playing"
    /\ Possible(touches, tile)
    /\ \E invincible \in {FALSE, obj.body.invincible} :
         LET start == [obj EXCEPT !.body.invincible = invincible, !.phase = "input"]
             touched == FoldLeft(Touch, start, touches)
             stung == IF tile THEN HandlePlayerDamage(touched) ELSE touched
         IN  obj' = ProcessPendingActions(IF fall THEN ShowEndScene(stung, FALSE) ELSE stung)

OtherUpdate ==
    /\ obj.phase = "update" /\ Top(obj) # "Game"
    /\ obj' = ProcessPendingActions([obj EXCEPT !.phase = "input"])

Touches == {"enemy", "stomp", "gem", "fruit", "hazard", "next_level", "win"}

Next ==
    \/ \E button \in Buttons(Top(obj)) \union {"none"}, pause \in BOOLEAN : HandleInput(button, pause)
    \/ \E pressed \in BOOLEAN : HelpsInput(pressed)
    \/ HandleEvents
    \/ \E touches \in BoundedSeq(Touches, MaxTouches), tile, fall \in BOOLEAN : GameUpdate(touches, tile, fall)
    \/ OtherUpdate

(***************************************************************************)
(* Properties.                                                             *)
(***************************************************************************)
\* However requests of a frame overwrite each other, the stack is one of these, and the
\* state of the game is that of its top scene: what lies under a menu never runs.
ScenesFit ==
    obj.phase = "input" =>
        <<obj.stack, obj.state>> \in {<<<<>>, "Title">>, <<<<"Title">>, "Title">>, <<<<"Title", "Helps">>, "Title">>,
            <<<<"Game">>, "Playing">>, <<<<"Game", "Menu">>, "Paused">>, <<<<"Game", "End">>, "GameOver">>}

\* A player without health is dead and falls, but one that died on its way into this level
\* or was saved there: PlayerComponent is new, and without health nothing can hurt it.
UndeadOnlyByExit ==
    Top(obj) = "Game" /\ ~Alive(obj.body) => IF obj.still THEN obj.data.map > 1 /\ ~obj.body.dead ELSE obj.body.dead

\* The hearts and what goes to the next level are the player's health, but for hits by
\* objects of the map since they were drawn; those make the player stronger than it is.
HeartsAreTrue ==
    Top(obj) \in {"Game", "Menu"} =>
        IF obj.unseen THEN obj.data.health > obj.body.health ELSE obj.data.health = obj.body.health

\* The saved high score is behind only in a game, or after one that was left without the
\* title; a saved game has no more points than were ever made, and starts a level.
ScoresAreKept ==
    /\ obj.data.score <= obj.data.high /\ obj.data.levelScore <= obj.data.score
    /\ obj.file.high <= obj.data.high /\ obj.file.levelScore <= obj.file.high
    /\ obj.file.high < obj.data.high => obj.stack # <<>> /\ Head(obj.stack) = "Game"
    /\ obj.file.map = 1 => obj.file.levelScore = 0 /\ obj.file.levelHealth = MaxHealth
=============================================================================
