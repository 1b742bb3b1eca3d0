---------------------------- MODULE SunnyWorld ----------------------------
(***************************************************************************)
(* A level of the platform game (src/sdl3/sunny_land) while it is played:  *)
(* the physics engine, the states of the player, and the behaviours of the *)
(* enemies.  A step is a frame: the keys, the physics of all bodies, the   *)
(* components of each object, and what the scene does with the collisions. *)
(* A unit of length is a pixel of a small map, a unit of time a frame;     *)
(* pictures, sounds and the camera are left out.                           *)
(***************************************************************************)
EXTENDS Integers, Sequences, SequencesExt, FiniteSetsExt

CONSTANTS Map,                       \* rows of tiles, from above
          Tile,                      \* the size of a tile
          Start,                     \* the bodies of the level: the player first
          Keys,                      \* the sets of keys that may be down
          Gravity, MaxSpeed,         \* of the engine
          MoveForce, MaxRun, ClimbSpeed, JumpVelocity, Stunned, CoyoteTime, Invincible,     \* of the player
          Margin                     \* how far below the map a game is lost

VARIABLES obj

Height == Len(Map)
Width == Len(Map[1])

\* TileLayerComponent::getTileTypeAt: nothing outside of the map.
TileAt(x, y) == IF y \in 0..Height - 1 /\ x \in 0..Width - 1 THEN Map[y + 1][x + 1] ELSE "empty"
Clamp(v, low, high) == IF v < low THEN low ELSE IF v > high THEN high ELSE v
Abs(v) == IF v < 0 THEN -v ELSE v
Larger(a, b) == IF a > b THEN a ELSE b

\* The flags of PhysicsComponent that are set in a frame.
NoFlags == [below |-> FALSE, above |-> FALSE, left |-> FALSE, right |-> FALSE, ladder |-> FALSE, top |-> FALSE]
\* A body as the level loader makes it.  kind: "player", "frog", "opossum", "eagle" or "solid".
Body(kind, x, y, w, h, gravity, min, max, speed, jump, interval) ==
    [kind |-> kind, x |-> x, y |-> y, w |-> w, h |-> h, vx |-> 0, vy |-> 0, force |-> 0, gravity |-> gravity,
     flags |-> NoFlags, active |-> TRUE, forward |-> FALSE, timer |-> 0,
     min |-> min, max |-> max, speed |-> speed, jump |-> jump, interval |-> interval]

PlaceOf(b) == [x |-> b.x, y |-> b.y, w |-> b.w, h |-> b.h]
Init ==
    obj = [bodies |-> Start, state |-> "idle", flipped |-> FALSE, coyote |-> 0, stunned |-> 0, invincible |-> 0,
           health |-> 2, lost |-> FALSE, removed |-> {},
           jumps |-> 0,              \* history: since the player last stood or climbed
           was |-> PlaceOf(Start[1])]   \* history: the player before its last move

-----------------------------------------------------------------------------
(* PhysicsEngine: one body against the tiles                               *)

\* getTileHeightAtWidth
TileHeight(width, type) ==
    LET w == Clamp(width, 0, Tile)
    IN  CASE type = "slope_0_1" -> w
          [] type = "slope_0_2" -> w \div 2
          [] type = "slope_2_1" -> w \div 2 + Tile \div 2
          [] type = "slope_1_0" -> Tile - w
          [] type = "slope_2_0" -> (Tile - w) \div 2
          [] type = "slope_1_2" -> (Tile - w) \div 2 + Tile \div 2
          [] OTHER -> 0

Flag(b, name) == [b EXCEPT !.flags[name] = TRUE]
\* The body at its new place, m.x and m.y; y cannot be below the slope.
OnSlope(m, row, height, stop) ==
    LET ground == (row + 1) * Tile - m.b.h - height
    IN  IF height > 0 /\ m.y > ground
        THEN [m EXCEPT !.y = ground, !.b = Flag([@ EXCEPT !.vy = IF stop THEN 0 ELSE @], "below")] ELSE m

\* One column, at the heights of the old place.
MoveX(m, dx) ==
    LET b == m.b
        side == IF dx > 0 THEN "right" ELSE "left"
        column == (m.x + IF dx > 0 THEN b.w ELSE 0) \div Tile
        bottom == (b.y + b.h - 1) \div Tile
        types == {TileAt(column, b.y \div Tile), TileAt(column, bottom)}
        within == m.x + (IF dx > 0 THEN b.w ELSE 0) - column * Tile
    IN  IF dx = 0 THEN m
        ELSE IF "solid" \in types
        THEN [m EXCEPT !.x = IF dx > 0 THEN column * Tile - b.w ELSE (column + 1) * Tile,
                       !.b = Flag([@ EXCEPT !.vx = 0], side)]
        ELSE OnSlope(m, bottom, TileHeight(within, TileAt(column, bottom)), FALSE)

\* One row, at the columns of the old place.  Only who has gravity stands on a ladder.
MoveY(m, dy) ==
    LET b == m.b
        row == (m.y + IF dy > 0 THEN b.h ELSE 0) \div Tile
        left == b.x \div Tile
        right == (b.x + b.w - 1) \div Tile
        types == {TileAt(left, row), TileAt(right, row)}
        stand == [m EXCEPT !.y = row * Tile - b.h, !.b = Flag([@ EXCEPT !.vy = 0], "below")]
        slope == Larger(TileHeight(b.x - left * Tile, TileAt(left, row)), TileHeight(b.x + b.w - right * Tile, TileAt(right, row)))
    IN  CASE dy > 0 /\ types \intersect {"solid", "unisolid"} # {} -> stand
          [] dy > 0 /\ types = {"ladder"} ->
               IF "ladder" \notin {TileAt(left, row - 1), TileAt(right, row - 1)} /\ b.gravity
               THEN [stand EXCEPT !.b = Flag(@, "top")] ELSE m
          [] dy > 0 /\ types \intersect {"solid", "unisolid"} = {} /\ types # {"ladder"} -> OnSlope(m, row, slope, TRUE)
          [] dy < 0 /\ "solid" \in types ->
               [m EXCEPT !.y = (row + 1) * Tile, !.b = Flag([@ EXCEPT !.vy = 0], "above")]
          [] OTHER -> m

ResolveTileCollisions(b) ==
    LET free == [b |-> b, x |-> b.x + b.vx, y |-> b.y + b.vy]
        moved == IF b.active THEN MoveY(MoveX(free, b.vx), b.vy) ELSE free
    IN  [moved.b EXCEPT !.x = moved.x, !.y = moved.y,
                        !.vx = Clamp(@, -MaxSpeed, MaxSpeed), !.vy = Clamp(@, -MaxSpeed, MaxSpeed)]

\* Left, above and right of the map is no way; no flag tells of it.
ApplyWorldBounds(b) ==
    [b EXCEPT !.vx = IF b.x < 0 \/ b.x + b.w > Width * Tile THEN 0 ELSE @, !.x = Clamp(@, 0, Width * Tile - b.w),
              !.vy = IF b.y < 0 THEN 0 ELSE @, !.y = Larger(@, 0)]

\* Everything but a solid moves.
UpdateBody(b) ==
    LET pulled == [b EXCEPT !.flags = NoFlags, !.vx = @ + b.force, !.vy = IF b.gravity THEN @ + Gravity ELSE @, !.force = 0]
    IN  ApplyWorldBounds(ResolveTileCollisions(pulled))

-----------------------------------------------------------------------------
(* PhysicsEngine: bodies against each other, and the triggers of tiles     *)

Overlaps(a, b) == a.x + a.w > b.x /\ a.x < b.x + b.w /\ a.y + a.h > b.y /\ a.y < b.y + b.h
CenterX(b) == 2 * b.x + b.w
CenterY(b) == 2 * b.y + b.h
OverlapX(a, b) == IF CenterX(a) < CenterX(b) THEN a.x + a.w - b.x ELSE b.x + b.w - a.x
OverlapY(a, b) == IF CenterY(a) < CenterY(b) THEN a.y + a.h - b.y ELSE b.y + b.h - a.y

\* Out of the solid by the shorter way; a speed towards it ends.
ResolveSolid(m, s) ==
    LET sign(before) == IF before THEN -1 ELSE 1
        x == sign(CenterX(m) < CenterX(s))
        y == sign(CenterY(m) < CenterY(s))
        pushedX == [m EXCEPT !.x = @ + x * OverlapX(m, s)]
        pushedY == [m EXCEPT !.y = @ + y * OverlapY(m, s)]
    IN  IF OverlapX(m, s) < OverlapY(m, s)
        THEN IF x * m.vx < 0 THEN Flag([pushedX EXCEPT !.vx = 0], IF x < 0 THEN "right" ELSE "left") ELSE pushedX
        ELSE IF y * m.vy < 0 THEN Flag([pushedY EXCEPT !.vy = 0], IF y < 0 THEN "below" ELSE "above") ELSE pushedY

\* checkObjectCollisions, for the pairs in their order; those that are for the scene are kept.
CheckPair(acc, pair) ==
    LET a == acc.bodies[pair[1]]
        b == acc.bodies[pair[2]]
    IN  IF ~(a.active /\ b.active /\ Overlaps(a, b)) THEN acc
        ELSE IF a.kind # "solid" /\ b.kind = "solid" THEN [acc EXCEPT !.bodies[pair[1]] = ResolveSolid(a, b)]
        ELSE IF a.kind = "solid" /\ b.kind # "solid" THEN [acc EXCEPT !.bodies[pair[2]] = ResolveSolid(b, a)]
        ELSE [acc EXCEPT !.pairs = Append(@, pair)]
RECURSIVE CheckFrom(_, _, _, _)
CheckFrom(acc, removed, i, j) ==
    IF i >= Len(acc.bodies) THEN acc
    ELSE IF j > Len(acc.bodies) THEN CheckFrom(acc, removed, i + 1, i + 2)
    ELSE CheckFrom(IF {i, j} \intersect removed = {} THEN CheckPair(acc, <<i, j>>) ELSE acc, removed, i, j + 1)

CeilDiv(a, b) == (a + b - 1) \div b
TouchedTiles(b) ==
    {TileAt(x, y) : x \in b.x \div Tile..CeilDiv(b.x + b.w - 1, Tile) - 1, y \in b.y \div Tile..CeilDiv(b.y + b.h - 1, Tile) - 1}
CheckTileTriggers(b) == [b EXCEPT !.flags.ladder = b.active /\ "ladder" \in TouchedTiles(b)]

PhysicsUpdate(bodies, removed) ==
    LET moved == [i \in DOMAIN bodies |-> IF bodies[i].kind = "solid" \/ i \in removed THEN bodies[i] ELSE UpdateBody(bodies[i])]
        met == CheckFrom([bodies |-> moved, pairs |-> <<>>], removed, 1, 2)
    IN  [met EXCEPT !.bodies = [i \in DOMAIN @ |-> CheckTileTriggers(@[i])]]

-----------------------------------------------------------------------------
(* The states of the player                                                *)

Player(o) == o.bodies[1]
Dead(o) == o.state = "dead"

ClimbEnter(p) == [p EXCEPT !.gravity = FALSE]
ClimbExit(p) == [p EXCEPT !.gravity = TRUE]
JumpEnter(p) == [p EXCEPT !.vy = -JumpVelocity]
HurtEnter(p, flipped) == [p EXCEPT !.vx = IF flipped THEN 1 ELSE -1, !.vy = -2]
DeadEnter(p) == [p EXCEPT !.vx = 0, !.vy = -2, !.active = FALSE]
\* setState: exit of the old state, enter of the new one.
Enter(o, state) ==
    LET p == IF o.state = "climb" THEN ClimbExit(Player(o)) ELSE Player(o)
        entered == CASE state = "climb" -> ClimbEnter(p)
                     [] state = "jump" -> JumpEnter(p)
                     [] state = "hurt" -> HurtEnter(p, o.flipped)
                     [] state = "dead" -> DeadEnter(p)
                     [] OTHER -> p
    IN  [o EXCEPT !.bodies[1] = entered, !.state = state, !.stunned = 0, !.jumps = IF state = "jump" THEN @ + 1 ELSE @]

\* A run to one side first ends the other one.
Steer(o, keys) ==
    LET p == Player(o)
        left == "left" \in keys
    IN  IF keys \intersect {"left", "right"} = {} THEN o
        ELSE [o EXCEPT !.flipped = left,
                       !.bodies[1] = [p EXCEPT !.vx = IF (left /\ p.vx > 0) \/ (~left /\ p.vx < 0) THEN 0 ELSE @,
                                               !.force = @ + IF left THEN -MoveForce ELSE MoveForce]]

Choose(keys, minus, plus) == IF minus \in keys THEN -ClimbSpeed ELSE IF plus \in keys THEN ClimbSpeed ELSE 0
IdleInput(o, keys) ==
    LET p == Player(o)
    IN  IF p.flags.ladder /\ "up" \in keys THEN Enter(o, "climb")
        ELSE IF p.flags.top /\ "down" \in keys THEN Enter([o EXCEPT !.bodies[1].y = @ + 2], "climb")
        ELSE IF keys \intersect {"left", "right"} # {} THEN Enter(o, "walk")
        ELSE IF "jump" \in keys THEN Enter(o, "jump") ELSE o
WalkInput(o, keys) ==
    IF Player(o).flags.ladder /\ "up" \in keys THEN Enter(o, "climb")
    ELSE IF "jump" \in keys THEN Enter(o, "jump")
    ELSE IF keys \intersect {"left", "right"} = {} THEN Enter(o, "idle") ELSE Steer(o, keys)
AirInput(o, keys) ==
    IF Player(o).flags.ladder /\ keys \intersect {"up", "down"} # {} THEN Enter(o, "climb") ELSE Steer(o, keys)
ClimbInput(o, keys) ==
    LET steered == [o EXCEPT !.bodies[1].vy = Choose(keys, "up", "down"), !.bodies[1].vx = Choose(keys, "left", "right")]
    IN  IF "jump" \in keys THEN Enter(steered, "jump") ELSE steered
HandleInput(o, keys) ==
    CASE o.state = "idle" -> IdleInput(o, keys)
      [] o.state = "walk" -> WalkInput(o, keys)
      [] o.state \in {"jump", "fall"} -> AirInput(o, keys)
      [] o.state = "climb" -> ClimbInput(o, keys)
      [] OTHER -> o

OnGround(o) == o.coyote < CoyoteTime \/ Player(o).flags.below
Limited(o) == [o EXCEPT !.bodies[1].vx = Clamp(@, -MaxRun, MaxRun)]
Rubbed(o) == [o EXCEPT !.bodies[1].vx = IF @ < 0 THEN -(-@ \div 2) ELSE @ \div 2]
Land(o) == Enter(o, IF Player(o).vx = 0 THEN "idle" ELSE "walk")
IdleUpdate(o) == IF OnGround(o) THEN Rubbed(o) ELSE Enter(Rubbed(o), "fall")
WalkUpdate(o) == IF OnGround(o) THEN Limited(o) ELSE Enter(Limited(o), "fall")
JumpUpdate(o) == IF Player(o).vy >= 0 THEN Enter(Limited(o), "fall") ELSE Limited(o)
FallUpdate(o) == IF Player(o).flags.below THEN Land(Limited(o)) ELSE Limited(o)
ClimbUpdate(o) == IF Player(o).flags.below THEN Enter(o, "idle") ELSE IF ~Player(o).flags.ladder THEN Enter(o, "fall") ELSE o
HurtUpdate(o) ==
    IF Player(o).flags.below THEN Land(o)
    ELSE IF o.stunned + 1 > Stunned THEN Enter(o, "fall") ELSE [o EXCEPT !.stunned = @ + 1]
StateUpdate(o) ==
    CASE o.state = "idle" -> IdleUpdate(o)
      [] o.state = "walk" -> WalkUpdate(o)
      [] o.state = "jump" -> JumpUpdate(o)
      [] o.state = "fall" -> FallUpdate(o)
      [] o.state = "climb" -> ClimbUpdate(o)
      [] o.state = "hurt" -> HurtUpdate(o)
      [] OTHER -> o

\* PlayerComponent::update and HealthComponent::update
PlayerUpdate(o) ==
    LET coyote == IF Player(o).flags.below THEN 0 ELSE Clamp(o.coyote + 1, 0, CoyoteTime)
    IN  StateUpdate([o EXCEPT !.coyote = coyote, !.invincible = Larger(@ - 1, 0),
                              !.jumps = IF Player(o).flags.below \/ o.state = "climb" THEN 0 ELSE @])

TakeDamage(o) ==
    IF Dead(o) \/ o.health = 0 \/ o.invincible > 0 THEN o
    ELSE IF o.health = 1 THEN Enter([o EXCEPT !.health = 0], "dead")
    ELSE Enter([o EXCEPT !.health = @ - 1, !.invincible = Invincible], "hurt")

-----------------------------------------------------------------------------
(* The enemies, and the scene                                              *)

Turn(b, forward) == [b EXCEPT !.forward = forward]
Patrol(b) ==
    IF b.flags.right \/ b.x >= b.max THEN Turn([b EXCEPT !.vx = -b.speed], FALSE)
    ELSE IF b.flags.left \/ b.x <= b.min THEN Turn([b EXCEPT !.vx = b.speed], TRUE) ELSE b
UpDown(b) ==
    IF b.flags.above \/ b.y <= b.min THEN Turn([b EXCEPT !.vy = b.speed], TRUE)
    ELSE IF b.flags.below \/ b.y >= b.max THEN Turn([b EXCEPT !.vy = -b.speed], FALSE) ELSE b
\* Only before a jump is the side chosen.
Hop(b) ==
    LET forward == IF b.forward THEN ~(b.flags.right \/ b.x >= b.max) ELSE b.flags.left \/ b.x <= b.min
    IN  IF ~b.flags.below THEN b
        ELSE IF b.timer + 1 < b.interval THEN [b EXCEPT !.timer = @ + 1, !.vx = 0]
        ELSE Turn([b EXCEPT !.timer = 0, !.vx = IF forward THEN b.speed ELSE -b.speed, !.vy = -b.jump], forward)
AIUpdate(b) ==
    CASE b.kind = "opossum" -> Patrol(b)
      [] b.kind = "eagle" -> UpDown(b)
      [] b.kind = "frog" -> Hop(b)
      [] OTHER -> b

\* playerVSEnemyCollision; all enemies die of one stomp.
PlayerVSEnemy(o, i) ==
    LET p == Player(o)
        e == o.bodies[i]
        stomp == OverlapX(p, e) > OverlapY(p, e) /\ CenterY(p) < CenterY(e)
    IN  IF stomp THEN [o EXCEPT !.removed = @ \union {i}, !.bodies[1].vy = -JumpVelocity] ELSE TakeDamage(o)

GameUpdate(o) ==
    LET physics == PhysicsUpdate(o.bodies, o.removed)
        alive == [i \in DOMAIN physics.bodies |-> IF i \in o.removed THEN physics.bodies[i] ELSE AIUpdate(physics.bodies[i])]
        updated == PlayerUpdate([o EXCEPT !.bodies = alive, !.was = PlaceOf(Player(o))])
        met == FoldLeft(LAMBDA q, pair : IF pair[1] = 1 THEN PlayerVSEnemy(q, pair[2]) ELSE q, updated, physics.pairs)
        p == physics.bodies[1]
        stung == IF p.active /\ "hazard" \in TouchedTiles(p) THEN TakeDamage(met) ELSE met
    IN  [stung EXCEPT !.lost = Player(stung).y > Height * Tile + Margin]

Frame(keys) ==
    /\ ~obj.lost
    /\ obj' = GameUpdate(HandleInput(obj, keys))
Next == \E keys \in Keys : Frame(keys)
Spec == Init /\ [][Next]_obj

(***************************************************************************)
(* Properties.                                                             *)
(***************************************************************************)
\* Between two jumps the player has stood or climbed.
NoJumpInTheAir == obj.jumps <= 1

\* The state of the player fits its body: without gravity just on a ladder it climbs, on
\* the ground or briefly off it while it stands or walks, and without a collider when dead.
StateFits ==
    LET p == Player(obj)
    IN  /\ p.gravity = (obj.state # "climb") /\ p.active = ~Dead(obj) /\ Dead(obj) = (obj.health = 0)
        /\ obj.state = "climb" => p.flags.ladder /\ ~p.flags.below
        /\ obj.state \in {"idle", "walk"} => OnGround(obj)
        /\ obj.state = "hurt" => obj.stunned <= Stunned

\* The tiles look at two corners of a side, and at each axis from the old place of the
\* other: a move enters solid ground only over the corner of a tile that is ahead on both
\* axes, or around a tile that is between the two corners.
Box(x, y) == [x |-> x * Tile, y |-> y * Tile, w |-> Tile, h |-> Tile]
Solid == {t \in (0..Width - 1) \X (0..Height - 1) : TileAt(t[1], t[2]) = "solid"}
EntersByCorners ==
    LET p == Player(obj)
        old == obj.was
        columns == old.x \div Tile..(old.x + old.w - 1) \div Tile
        rows == old.y \div Tile..(old.y + old.h - 1) \div Tile
        ends(cells) == cells \ {c \in cells : c - 1 \in cells /\ c + 1 \in cells}
        seen(t) == (t[1] \notin columns /\ t[2] \in ends(rows)) \/ (t[2] \notin rows /\ t[1] \in ends(columns))
        within(b) == {t \in Solid : Overlaps(b, Box(t[1], t[2]))}
    IN  p.active /\ within(old) = {} => \A t \in within(p) : ~seen(t)

\* An enemy walks on for ever, and goes no further than a step (a frog: a jump) past its
\* range, whatever it meets; that is so where the range ends inside of the map, for the
\* bounds of the map stop a body without a flag that would turn it.
EnemiesKeepRange ==
    \A i \in (2..Len(obj.bodies)) \ obj.removed :
        LET e == obj.bodies[i]
            far == CASE e.kind = "opossum" -> e.speed [] e.kind = "frog" -> 2 * e.jump * e.speed [] OTHER -> Width * Tile
            inside == e.min >= 0 /\ e.max <= Width * Tile - e.w
        IN  /\ inside => e.x \in e.min - far..e.max + far
            /\ inside /\ e.kind = "opossum" /\ obj.was # PlaceOf(Start[1]) => e.vx # 0
            /\ e.kind = "eagle" => e.y \in e.min - e.speed..e.max + e.speed
=============================================================================
