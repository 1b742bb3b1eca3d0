---------------------------- MODULE SunnyEngine ----------------------------
(***************************************************************************)
(* The engine of the platform game (src/sdl3/sunny_land/engine), beside    *)
(* its physics (SunnyWorld) and the requests of its scenes (SunnyScenes):  *)
(* the input of a frame and the elements of a menu (Ui), the objects of a  *)
(* scene and what the physics engine keeps of them (Stage), and the        *)
(* loading of a level (Loader).  Each is a machine of its own over obj.    *)
(* Places, pictures and sounds are left out.                               *)
(***************************************************************************)
EXTENDS Integers, Sequences, SequencesExt, FiniteSetsExt

CONSTANTS Configured,       \* actions and their keys, as the configuration has them
          Names,            \* the buttons of the menu, from above
          MaxPresses, MaxEvents,    \* in all, and between two frames
          Levels,           \* what a level's file has: whether it is there, and the kinds of its objects
          EffectFrames, MaxTouches, \* the length of an effect; what is touched in a frame
          Maps, Tilesets    \* files of levels, and the files of tilesets that can be read

VARIABLES obj

-----------------------------------------------------------------------------
(* InputManager                                                            *)

\* The mouse is mapped for the menus where the configuration does not.
KeysOf == [a \in DOMAIN Configured \union {"MouseLeftClick", "MouseRightClick"} |->
             IF a \in DOMAIN Configured THEN Configured[a]
             ELSE IF a = "MouseLeftClick" THEN {"MouseLeft"} ELSE {"MouseRight"}]
Keys == UNION {KeysOf[a] : a \in DOMAIN Configured \union {"MouseLeftClick"}}
IsDown(states, a) == states[a] \in {"pressed", "held"}

UiInit ==
    obj = [states |-> [a \in DOMAIN KeysOf |-> "inactive"], mouse |-> "none", quit |-> FALSE,
           scene |-> "Game", request |-> "none", buttons |-> [b \in {} |-> "normal"], phase |-> "update", events |-> 0,
           down |-> {}, presses |-> 0,       \* the keyboard and the mouse
           \* history
           parted |-> {},            \* actions a key of which went up while another was down
           missed |-> {},            \* buttons that did not see the mouse go up
           clicks |-> 0,             \* presses of the mouse less callbacks
           pauses |-> 0]             \* presses of a key of "pause" less what they caused

Aged(state) == CASE state = "pressed" -> "held" [] state = "released" -> "inactive" [] OTHER -> state
UpdateActionStates(key, active, repeat) ==
    [a \in DOMAIN obj.states |->
       IF key \notin KeysOf[a] THEN obj.states[a]
       ELSE IF ~active THEN "released" ELSE IF repeat THEN "held" ELSE "pressed"]

\* InputManager::update: the states of the last frame, then the events that wait.
Age ==
    /\ obj.phase = "update"
    /\ obj' = [obj EXCEPT !.states = [a \in DOMAIN @ |-> Aged(@[a])], !.phase = "poll", !.events = 0]

Polled(o) == [o EXCEPT !.events = @ + 1]
Polls == obj.phase = "poll" /\ obj.events < MaxEvents
Press(key) ==
    /\ Polls /\ key \notin obj.down /\ obj.presses < MaxPresses
    /\ obj' = Polled([obj EXCEPT !.states = UpdateActionStates(key, TRUE, FALSE), !.down = @ \union {key}, !.presses = @ + 1,
                                 !.parted = {a \in @ : key \notin KeysOf[a]},
                                 !.clicks = IF key = "MouseLeft" THEN @ + 1 ELSE @,
                                 !.pauses = IF key \in KeysOf["pause"] THEN @ + 1 ELSE @])
Repeat(key) ==
    /\ Polls /\ key \in obj.down \ {"MouseLeft", "MouseRight"}
    /\ obj' = Polled([obj EXCEPT !.states = UpdateActionStates(key, TRUE, TRUE),
                                 !.parted = {a \in @ : key \notin KeysOf[a]}])
Release(key) ==
    /\ Polls /\ key \in obj.down
    /\ obj' = Polled([obj EXCEPT !.states = UpdateActionStates(key, FALSE, FALSE), !.down = @ \ {key},
                                 !.parted = @ \union {a \in DOMAIN KeysOf : key \in KeysOf[a] /\ KeysOf[a] \intersect obj.down # {key}}])
Move(place) ==
    /\ Polls /\ place # obj.mouse
    /\ obj' = Polled([obj EXCEPT !.mouse = place])
CloseWindow ==
    /\ Polls /\ ~obj.quit
    /\ obj' = Polled([obj EXCEPT !.quit = TRUE])

-----------------------------------------------------------------------------
(* The states of a button, and the elements of a scene                     *)

\* UIState::handleInput: the next state, or none.
NormalNext(inside) == IF inside THEN "hover" ELSE "none"
HoverNext(inside, click) == IF ~inside THEN "normal" ELSE IF click = "pressed" THEN "pressed" ELSE "none"
PressedNext(inside, click) == IF click # "released" THEN "none" ELSE IF inside THEN "hover" ELSE "normal"

IsPointInside(b) == obj.mouse = b
NextOf(b) ==
    LET click == obj.states["MouseLeftClick"]
    IN  CASE obj.buttons[b] = "normal" -> NormalNext(IsPointInside(b))
          [] obj.buttons[b] = "hover" -> HoverNext(IsPointInside(b), click)
          [] obj.buttons[b] = "pressed" -> PressedNext(IsPointInside(b), click)
\* The first element that changes takes the input of the frame: those after it, and the
\* objects of the scene, get none.
Takers == SelectSeq(Names, LAMBDA b : b \in DOMAIN obj.buttons /\ NextOf(b) # "none")

\* The callback of a button runs before the button leaves its state.
Callback(o, b) == [o EXCEPT !.request = IF b = "Resume" THEN "pop" ELSE @, !.clicks = @ - 1]

UiHandleInput(o) ==
    IF Takers = <<>> THEN o
    ELSE LET b == Takers[1]
             clicked == IF obj.buttons[b] = "pressed" /\ NextOf(b) = "hover" THEN Callback(o, b) ELSE o
         IN  [clicked EXCEPT !.buttons[b] = NextOf(b),
                             !.missed = (@ \ {b}) \union {other \in DOMAIN o.buttons \ {b} :
                                           o.buttons[other] = "pressed" /\ o.states["MouseLeftClick"] = "released"}]

\* MenuScene and GameScene::handleInput: the elements first, then the pause key, whatever they did.
HandlePause(o) ==
    IF o.states["pause"] # "pressed" THEN o
    ELSE [o EXCEPT !.request = IF o.scene = "Game" THEN "push" ELSE "pop", !.pauses = @ - 1]

\* No input once the program is asked to quit.
HandleEvents ==
    /\ obj.phase = "poll"
    /\ obj' = [(IF obj.quit THEN obj ELSE HandlePause(UiHandleInput(obj))) EXCEPT !.phase = IF obj.quit THEN "ended" ELSE "handled"]

\* MenuScene::createUI
NewButton == "normal"
CreateUI(o) == [o EXCEPT !.scene = "Menu", !.buttons = [b \in ToSet(Names) |-> NewButton]]
\* The request is done after the update of the scene.
SceneUpdate ==
    LET done == [obj EXCEPT !.phase = "update", !.request = "none"]
    IN  /\ obj.phase = "handled"
        /\ obj' = CASE obj.request = "push" -> CreateUI(done)
                    [] obj.request = "pop" -> [done EXCEPT !.scene = "Game", !.buttons = [b \in {} |-> "normal"], !.missed = {}]
                    [] OTHER -> done

UiNext ==
    \/ Age
    \/ \E key \in Keys : Press(key) \/ Repeat(key) \/ Release(key)
    \/ \E place \in ToSet(Names) \union {"none"} : Move(place)
    \/ CloseWindow
    \/ HandleEvents
    \/ SceneUpdate

\* An action that is down has a key that is down.  An action that is not, though one of
\* its keys is, has lost another of its keys meanwhile.
KeysAreSeen ==
    \A a \in DOMAIN KeysOf :
       /\ IsDown(obj.states, a) => KeysOf[a] \intersect obj.down # {}
       /\ ~IsDown(obj.states, a) /\ KeysOf[a] \intersect obj.down # {} => a \in obj.parted

\* A press of the mouse runs one callback at most, a press of the pause key opens or
\* closes the menu once at most, however long it is held and whatever is pressed with it.
OncePerPress == obj.clicks >= 0 /\ obj.pauses >= 0

\* After the input of a frame, a button that looks pressed is held by the mouse, unless the
\* frame in which the mouse went up was taken by a button before it.
PressedIsHeld ==
    obj.phase = "handled" =>
       \A b \in DOMAIN obj.buttons : obj.buttons[b] = "pressed" => "MouseLeft" \in obj.down \/ b \in obj.missed

-----------------------------------------------------------------------------
(* The objects of a level                                                  *)
(* kinds: "layer", "main" (the layer of tiles that collide), "player",     *)
(* "enemy", "item", "exit", "effect", and "broken": an object whose        *)
(* animation cannot be parsed.                                             *)

StageInit ==
    obj = [level |-> 0, objects |-> <<>>, additions |-> <<>>, initialized |-> FALSE, next |-> 1,
           components |-> <<>>, layers |-> {}, pairs |-> <<>>,      \* of the PhysicsEngine
           menu |-> FALSE, request |-> "next", phase |-> "act", quit |-> FALSE, running |-> TRUE,
           \* history
           taken |-> <<>>,           \* items and enemies that were counted
           broken |-> FALSE,         \* a broken object was met
           fault |-> {}]             \* what was read after its object was gone

Has(kind, o) == \E i \in DOMAIN o.objects : o.objects[i].kind = kind
Ids(objects) == {objects[i].id : i \in DOMAIN objects}
KindOf(o, id) == LET i == CHOOSE i \in DOMAIN o.objects : o.objects[i].id = id IN o.objects[i].kind
Solid(kind) == kind \in {"player", "enemy", "item", "exit", "broken"}

RegisterComponent(components, id) == Append(components, id)
UnregisterComponents(components, ids) == SelectSeq(components, LAMBDA id : id \notin ids)

\* LevelLoader: an object registers its physics as it gets the component, and comes into the
\* scene at its end.
LoadObject(o, kind) ==
    [o EXCEPT !.components = IF Solid(kind) THEN RegisterComponent(@, o.next) ELSE @,
              !.objects = IF kind = "broken" THEN @ ELSE Append(@, [id |-> o.next, kind |-> kind, marked |-> FALSE, timer |-> 0]),
              !.broken = @ \/ kind = "broken",
              !.next = @ + 1]

\* GameScene::init: a step that fails leaves the scene as it is, and asks to quit.
InitScene(o) ==
    LET level == Levels[o.level]
        loaded == FoldLeft(LoadObject, o, level.kinds)
        main == [loaded EXCEPT !.layers = {loaded.objects[i].id : i \in {i \in DOMAIN loaded.objects : loaded.objects[i].kind = "main"}}]
        failed(at) == [at EXCEPT !.initialized = FALSE, !.quit = TRUE]
    IN  IF ~level.there THEN failed(o)
        ELSE IF ~Has("main", loaded) THEN failed(loaded)
        ELSE IF ~Has("player", loaded) THEN failed(main)
        ELSE [main EXCEPT !.initialized = TRUE]

\* GameObject::clean: the components unregister.
CleanObjects(o, ids) ==
    [o EXCEPT !.components = UnregisterComponents(@, ids), !.layers = @ \ ids]
\* Scene::clean does nothing to a scene that was not initialized; then the scene is destroyed.
CleanScene(o) ==
    [(IF o.initialized THEN CleanObjects(o, Ids(o.objects)) ELSE o) EXCEPT !.objects = <<>>, !.additions = <<>>, !.initialized = FALSE]

\* std::partition, as it is built: what goes from the front is replaced from the back.
RECURSIVE Partition(_)
Partition(s) ==
    LET bad == {i \in DOMAIN s : s[i].marked}
        first == Min(bad)
        good == {i \in DOMAIN s : ~s[i].marked /\ i > first}
    IN  IF bad = {} \/ good = {} THEN SelectSeq(s, LAMBDA x : ~x.marked)
        ELSE Partition([SubSeq(s, 1, Max(good) - 1) EXCEPT ![first] = s[Max(good)]])

RemoveMarked(o) ==
    LET marked == {o.objects[i].id : i \in {i \in DOMAIN o.objects : o.objects[i].marked}}
    IN  [CleanObjects(o, marked) EXCEPT !.objects = Partition(@)]
ProcessPendingAdditions(o) == [o EXCEPT !.objects = @ \o o.additions, !.additions = <<>>]

\* PhysicsEngine::update reads every component, and finds the pairs anew.
PhysicsUpdate(o, touched) ==
    [o EXCEPT !.pairs = touched,
              !.fault = IF ToSet(o.components) \subseteq Ids(o.objects) THEN @ ELSE @ \union {"components"}]

\* The only component with an end: an effect's animation, which removes its object.
UpdateObject(x) ==
    IF x.kind # "effect" \/ x.marked THEN x
    ELSE [x EXCEPT !.timer = @ + 1, !.marked = x.timer + 1 >= EffectFrames]
UpdateObjects(o) == [o EXCEPT !.objects = [i \in DOMAIN @ |-> UpdateObject(@[i])]]

SafeAddGameObject(o, object) == [o EXCEPT !.additions = Append(@, object), !.next = @ + 1]
CreateEffect(o) == SafeAddGameObject(o, [id |-> o.next, kind |-> "effect", marked |-> FALSE, timer |-> 0])
Mark(o, id) == [o EXCEPT !.objects = [i \in DOMAIN @ |-> IF @[i].id = id THEN [@[i] EXCEPT !.marked = TRUE] ELSE @[i]]]

\* GameScene::handleObjectCollisions, for one pair of the player and another.  An enemy goes
\* when a stomp takes the last of its health; else it stays, and it or the player is hurt.
Touch(o, id, killed) ==
    IF id \notin Ids(o.objects) THEN [o EXCEPT !.fault = @ \union {"pairs"}]
    ELSE IF KindOf(o, id) = "exit" THEN [o EXCEPT !.request = "next"]
    ELSE IF KindOf(o, id) = "enemy" /\ id \notin killed THEN o
    ELSE CreateEffect(Mark([o EXCEPT !.taken = Append(@, id)], id))

SceneUpdateTo(o, touched) ==
    LET kept == ProcessPendingAdditions(RemoveMarked(o))
    IN  IF o.initialized THEN UpdateObjects(PhysicsUpdate(kept, touched)) ELSE o

ProcessRequest(o) ==
    LET done == [o EXCEPT !.request = "none"]
    IN  CASE o.request = "next" -> InitScene([CleanScene(done) EXCEPT !.level = @ + 1])
          [] o.request = "push" -> [done EXCEPT !.menu = TRUE]
          [] o.request = "pop" -> [done EXCEPT !.menu = FALSE]
          [] OTHER -> done

\* GameApp::handleEvents, with the pause key or without, and the window closed or not.  A
\* program that ends updates its scene once more.
Act(pause, closed) ==
    /\ obj.phase = "act" /\ obj.running /\ obj.level > 0
    /\ obj' = IF obj.quit \/ closed THEN [obj EXCEPT !.running = FALSE, !.phase = "update"]
              ELSE [obj EXCEPT !.phase = "update", !.request = IF ~pause THEN "none" ELSE IF obj.menu THEN "pop" ELSE "push"]

\* The first level is entered.
Begin == obj.level = 0 /\ obj' = ProcessRequest(obj)

Touchable(o) == {id \in ToSet(o.components) \intersect Ids(o.objects) : KindOf(o, id) \in {"enemy", "item", "exit"} /\
                   (KindOf(o, id) = "exit" => o.level < Len(Levels))}
\* GameScene::update goes on after Scene::update, whatever that did.  Under a menu it is not
\* called; but the menu that is being closed has set the game going, and updates the physics.
Update(touched, killed) ==
    LET closing == obj.menu /\ obj.request = "pop"
        updated == IF closing THEN PhysicsUpdate(obj, touched) ELSE IF obj.menu THEN obj ELSE SceneUpdateTo(obj, touched)
    IN  /\ obj.phase = "update"
        /\ IF obj.initialized /\ (closing \/ ~obj.menu)
           THEN IsInjective(touched) /\ ToSet(touched) \subseteq Touchable(updated)
           ELSE touched = <<>>
        /\ obj' = ProcessRequest([(IF obj.menu THEN updated ELSE FoldLeft(LAMBDA o, id : Touch(o, id, killed), updated, updated.pairs)) EXCEPT !.phase = "act"])

\* GameApp::close
Close ==
    /\ ~obj.running /\ obj.phase = "act"
    /\ obj' = [CleanScene(obj) EXCEPT !.phase = "closed", !.menu = FALSE]

StageNext ==
    \/ Begin
    \/ \E pause, closed \in BOOLEAN : Act(pause, closed)
    \/ \E touched \in BoundedSeq(Touchable(obj), MaxTouches) :
          \E killed \in SUBSET {id \in ToSet(touched) : KindOf(obj, id) = "enemy"} : Update(touched, killed)
    \/ Close

\* Each item and each killed enemy counts once, however many frames it is touched.
CountedOnce == IsInjective(obj.taken)

\* The engine knows each body of the scene once, and nothing else - but for broken objects,
\* and for a scene that was not initialized, or was and could never be cleaned.
RegisteredOnce ==
    obj.phase \in {"act", "update", "closed"} /\ obj.level > 0 =>
       /\ IsInjective(obj.components)
       /\ ~obj.broken /\ ~(obj.quit /\ ~obj.initialized) =>
            /\ ToSet(obj.components) = {obj.objects[i].id : i \in {i \in DOMAIN obj.objects : Solid(obj.objects[i].kind)}}
            /\ obj.layers \subseteq Ids(obj.objects)

\* The engine reads no body of an object that is gone, unless a broken object was loaded; and
\* the scene reads no pair of objects that are gone, unless its level could not be entered.
ReadsWhatIsThere ==
    /\ "components" \in obj.fault => obj.broken
    /\ "pairs" \in obj.fault => ~obj.initialized /\ obj.quit

\* What is drawn first stays first: the layers are behind the objects, though the objects
\* change places.
LayersStayBehind ==
    \A i, j \in DOMAIN obj.objects : obj.objects[i].kind \in {"layer", "main"} /\ obj.objects[j].kind \notin {"layer", "main"} => i < j

-----------------------------------------------------------------------------
(* LevelLoader: one step per tileset, per layer, and per object of a layer *)
(* of objects.  A tile is a record: its properties in their order, the     *)
(* sizes of the shapes it collides with, and what its animation is         *)
(* ("none", "whole" or "broken", as if of the sound).                      *)

NoTile == [texture |-> <<>>, type |-> "empty"]
NoJson == [id |-> 0, properties |-> <<>>, boxes |-> <<>>, animation |-> "none"]

LoaderInit ==
    \E map \in Maps :
      obj = [map |-> map, phase |-> "open", sets |-> map.tilesets, layers |-> map.layers, queue |-> <<>>,
             tilesets |-> {},          \* pairs of a first gid and the name of a file
             objects |-> <<>>, components |-> {}, next |-> 1]

\* resolvePath and loadTileset: a file that cannot be read is left out.
LoadTileset(tilesets, set) ==
    IF set.first < 0 \/ set.source = "" \/ set.source \notin DOMAIN Tilesets THEN tilesets
    ELSE {t \in tilesets : t[1] # set.first} \union {<<set.first, set.source>>}

\* The tileset with the largest first gid that is not above gid; a gid with the bits of a
\* flipped tile is negative.
SetOf(tilesets, gid) == {t \in tilesets : t[1] <= gid /\ \A other \in tilesets : other[1] > gid \/ other[1] <= t[1]}
TypeNames == {"solid", "unisolid", "slope", "hazard", "ladder"}
\* getTileType: the first property that speaks of it; a slope has its own values.
GetTileType(tile) ==
    LET said == SelectSeq(tile.properties, LAMBDA p : p[1] \in TypeNames)
    IN  IF said = <<>> \/ said[1][2] = "no" THEN "normal" ELSE said[1][1]
TilesWithId(set, id) == SelectSeq(Tilesets[set].tiles, LAMBDA tile : tile.id = id)
\* One picture for all its tiles: each id has a place, whether it is on the picture or not.
GetTileInfo(tilesets, gid) ==
    LET found == SetOf(tilesets, gid)
        set == CHOOSE t \in found : TRUE
        id == gid - set[1]
        tiles == TilesWithId(set[2], id)
    IN  IF gid = 0 \/ found = {} THEN NoTile
        ELSE IF tiles # <<>> THEN [texture |-> <<set[2], id>>, type |-> GetTileType(tiles[1])]
        ELSE IF Tilesets[set[2]].single THEN [texture |-> <<set[2], id>>, type |-> "normal"]
        ELSE NoTile
GetTileJson(tilesets, gid) ==
    LET set == CHOOSE t \in SetOf(tilesets, gid) : TRUE
        tiles == TilesWithId(set[2], gid - set[1])
    IN  IF tiles = <<>> THEN NoJson ELSE tiles[1]
\* getColliderRect: the first shape that has a size.
HasCollider(tile) == \E i \in DOMAIN tile.boxes : tile.boxes[i] > 0
GetTileProperty(tile, name) == SelectSeq(tile.properties, LAMBDA p : p[1] = name)

Open ==
    /\ obj.phase = "open"
    /\ obj' = [obj EXCEPT !.phase = IF obj.map.file = "whole" THEN "tilesets" ELSE "failed"]

NextTileset ==
    /\ obj.phase = "tilesets"
    /\ obj' = IF obj.sets = <<>> THEN [obj EXCEPT !.phase = "layers"]
              ELSE [obj EXCEPT !.tilesets = LoadTileset(@, Head(obj.sets)), !.sets = Tail(@)]

NewObject(name, tag, tiles, physics, gravity, type) ==
    [id |-> obj.next, name |-> name, tag |-> tag, tiles |-> tiles, physics |-> physics, gravity |-> gravity, type |-> type]
\* An object comes into the scene, and its body to the engine.
Add(o, new) ==
    [o EXCEPT !.objects = Append(@, new), !.next = @ + 1, !.components = IF new.physics THEN @ \union {new.id} ELSE @]

\* TileLayerComponent: tiles that do not fill the map are dropped, all of them.
Tiles(layer) ==
    IF obj.map.tile = 0 \/ Len(layer.data) # obj.map.width * obj.map.height THEN <<>>
    ELSE [i \in DOMAIN layer.data |-> [gid |-> layer.data[i], info |-> GetTileInfo(obj.tilesets, layer.data[i])]]

LoadImageLayer(o, layer) == Add(o, NewObject(layer.name, "", <<>>, FALSE, FALSE, "image"))
LoadTileLayer(o, layer) == Add(o, NewObject(layer.name, "", Tiles(layer), FALSE, FALSE, "tiles"))
NextLayer ==
    /\ obj.phase = "layers" /\ obj.queue = <<>>
    /\ LET layer == Head(obj.layers)
           rest == [obj EXCEPT !.layers = Tail(@)]
       IN  obj' = IF obj.layers = <<>> THEN [obj EXCEPT !.phase = "main"]
                  ELSE IF ~layer.visible THEN rest
                  ELSE CASE layer.type = "imagelayer" -> LoadImageLayer(rest, layer)
                         [] layer.type = "tilelayer" -> LoadTileLayer(rest, layer)
                         [] layer.type = "objectgroup" -> [rest EXCEPT !.queue = layer.objects]
                         [] OTHER -> rest

\* An object without a tile is a trigger, if it is a rectangle.  The corners of a polygon
\* are read as if they were a yes or no, and nobody catches what that throws.
ShapeObject(o, shape) ==
    IF shape.shape = "polygon" THEN [o EXCEPT !.phase = "dead"]
    ELSE IF shape.shape # "rectangle" THEN o
    ELSE Add(o, NewObject(shape.name, shape.tag, <<>>, TRUE, FALSE, "shape"))

\* The tag of a tile replaces what its type asks for.
TagOf(tile, type) ==
    LET tags == GetTileProperty(tile, "tag")
    IN  IF tags # <<>> THEN tags[1][2] ELSE IF type \in {"solid", "hazard"} THEN type ELSE ""
\* An object whose animation cannot be parsed is dropped after its body was registered.
TileObject(o, object) ==
    LET info == GetTileInfo(obj.tilesets, object.gid)
        tile == GetTileJson(obj.tilesets, object.gid)
        physics == info.type = "solid" \/ HasCollider(tile)
        gravity == info.type # "solid" /\ HasCollider(tile) /\ GetTileProperty(tile, "gravity") # <<>> /\ GetTileProperty(tile, "gravity")[1][2] = "yes"
        added == Add(o, NewObject(object.name, TagOf(tile, info.type), <<>>, physics, gravity, info.type))
    IN  IF info.texture = <<>> THEN o
        ELSE IF tile.animation = "broken" THEN [added EXCEPT !.objects = o.objects]
        ELSE added

NextObject ==
    /\ obj.phase = "layers" /\ obj.queue # <<>>
    /\ LET object == Head(obj.queue)
           rest == [obj EXCEPT !.queue = Tail(@)]
       IN  obj' = IF object.gid = 0 THEN ShapeObject(rest, object) ELSE TileObject(rest, object)

\* GameScene::initLevel: the first object of that name, which is expected to have tiles.
RegisterMain ==
    LET named == {i \in DOMAIN obj.objects : obj.objects[i].name = "main"}
    IN  /\ obj.phase = "main"
        /\ obj' = [obj EXCEPT !.phase = IF named = {} THEN "failed" ELSE IF obj.objects[Min(named)].type = "tiles" THEN "loaded" ELSE "dead"]

LoaderNext == Open \/ NextTileset \/ NextLayer \/ NextObject \/ RegisterMain

\* The tileset a gid was drawn with, by the first gids and the numbers of tiles of the map.
DrawnWith(gid) == {set \in ToSet(obj.map.tilesets) : set.source # "" /\ set.first >= 0 /\ gid \in set.first..set.first + set.count - 1}

\* A tile shows the picture it was drawn with.  Where that tileset could not be read, it shows
\* nothing, or a picture of the tileset before; so does a gid of no tileset.
TilesAreMeant ==
    \A i \in DOMAIN obj.objects : \A t \in ToSet(obj.objects[i].tiles) :
       /\ t.gid = 0 => t.info = NoTile
       /\ \A set \in DrawnWith(t.gid) :
             set.source \in DOMAIN Tilesets /\ (Tilesets[set.source].single \/ TilesWithId(set.source, t.gid - set.first) # <<>>) =>
               t.info.texture = <<set.source, t.gid - set.first>>
       /\ t.info # NoTile => \E set \in ToSet(obj.map.tilesets) : set.source = t.info.texture[1] /\ set.first + t.info.texture[2] = t.gid

\* The bodies the engine knows are those of the scene's objects, and of objects that were
\* dropped because of their animation.
BodiesAreInScene ==
    LET dropped == {id \in obj.components : id \notin {obj.objects[i].id : i \in DOMAIN obj.objects}}
    IN  /\ {obj.objects[i].id : i \in {i \in DOMAIN obj.objects : obj.objects[i].physics}} = obj.components \ dropped
        /\ dropped # {} => \E layer \in ToSet(obj.map.layers) : \E object \in ToSet(layer.objects) : \E set \in SetOf(obj.tilesets, object.gid) :
             \E tile \in ToSet(TilesWithId(set[2], object.gid - set[1])) : tile.animation = "broken"

\* A body that stops others carries the tag by which the engine finds it, unless its tile has a
\* tag of its own; and it never falls.
SolidsStop ==
    \A i \in DOMAIN obj.objects :
       LET object == obj.objects[i]
       IN  object.type = "solid" =>
             /\ object.physics /\ ~object.gravity
             /\ object.tag = "solid" \/ \E set \in DOMAIN Tilesets : \E tile \in ToSet(Tilesets[set].tiles) :
                                           <<"tag", object.tag>> \in ToSet(tile.properties)

\* A level that was read to its end has every layer and object it shows: those that were left
\* out have no picture, are points or ellipses, or their animation cannot be parsed.  Else the
\* program died of a polygon, or of a first object "main" that is no layer of tiles.
LoadsOrDies ==
    LET shown == {i \in DOMAIN obj.map.layers : obj.map.layers[i].visible /\ obj.map.layers[i].type \in {"imagelayer", "tilelayer"}}
        names == {obj.objects[i].name : i \in DOMAIN obj.objects}
    IN  /\ obj.phase \in {"main", "loaded"} => {obj.map.layers[i].name : i \in shown} \subseteq names
        /\ obj.phase = "dead" =>
              \/ \E i \in DOMAIN obj.objects : obj.objects[i].name = "main" /\ obj.objects[i].type # "tiles"
              \/ \E layer \in ToSet(obj.map.layers) : \E object \in ToSet(layer.objects) : object.shape = "polygon"
=============================================================================
