----------------------------- MODULE Controller -----------------------------
(***************************************************************************)
(* The controller's services once discovery is over: the network task that *)
(* answers HTTP and MQTT, the main loop that owns panels and player, the   *)
(* queue between them, and the records that survive a restart.             *)
(*                                                                         *)
(* Two tasks run: every handler of a request is a step (or a few, where it *)
(* reads shared state and acts on it later) of the network task, every     *)
(* stage of runServices() is a step of the main loop.  A scene is its id   *)
(* and what matters of its content: whether it brings its own palette.     *)
(***************************************************************************)
EXTENDS Naturals, Sequences, FiniteSets

CONSTANTS
    Scenes,         \* ids of the scenes a client may create
    OneShot,        \* the reserved id of the one-shot scene
    NoScene,        \* an empty lastPlayedSceneId
    Palettes,       \* names of palettes a client may create and delete
    UserColors,     \* the palette made of the base colours, always there
    Levels,         \* brightness values
    Speeds,         \* scene speeds, 1 among them
    Policies,       \* what a client may send as powerStateOnBoot
    QueueSlots,     \* tasks the main-loop queue holds
    Same, NoView,   \* a field a PATCH leaves out; no snapshot taken yet
    Workloads,      \* sets of endpoints: one of them is used in a behaviour
    MaxRequests,    \* requests
    MaxTroubles     \* power cuts, updates, failed accesses and campaigns

ASSUME ControllerAssumption ==
    /\ NoScene \notin Scenes \cup {OneShot} /\ OneShot \notin Scenes
    /\ UserColors \notin Palettes /\ 1 \in Speeds /\ Levels # {}
    /\ QueueSlots \in Nat \ {0} /\ Policies \subseteq Nat
    /\ {MaxRequests, MaxTroubles} \subseteq Nat

VARIABLES
    mem,        \* the records of the single-record stores, in memory
    dirty,      \* DeferredWriter: which record is waiting to be written
    disk,       \* the same records in the file system
    scenes,     \* SceneStore: the content stored under an id
    palettes,   \* PaletteRepository: the user palettes that exist
    player,     \* ScenePlayer, and ScenesService::sceneHasOwnPalette
    panels,     \* what the panels were last told
    queue,      \* MainLoopQueue
    heap,       \* parsed layers allocated by AnimationServer
    net,        \* the request the network task is in the middle of
    pc,         \* the stage of runServices()
    snap,       \* AppStateBroadcaster: the fields last compared
    told,       \* what the WebSocket clients know of the application state
    campaign,   \* PanelFlasher::isActive()
    asked,      \* the last power and brightness a client was promised
    lost,       \* the records and broadcasts given up, until the next one succeeds
    left,       \* budgets of the environment
    workload

vars == <<mem, dirty, disk, scenes, palettes, player, panels, queue, heap, net, pc,
          snap, told, campaign, asked, lost, left, workload>>

AlwaysOn == 0
AlwaysOff == 1
LastState == 2

Ids == Scenes \cup {OneShot}
Missing == "missing"
Contents == {"plain", "own"}
Nothing == "nothing"      \* lCount = 0
Layer == "layer"          \* a single layer of POST /api/animations/play
Mixed == "mixed"          \* layers[] partly overwritten by a failed read

Idle == [at |-> "idle"]
Down == "down"

Defaults == [isOn |-> TRUE, last |-> NoScene, stored |-> FALSE, boot |-> AlwaysOn,
             level |-> CHOOSE l \in Levels : TRUE, palette |-> UserColors, root |-> 1]

(* the records, each in a file of its own *)
StateFields == {"isOn", "last", "stored"}
BootFields == {"boot"}
LookFields == {"level", "palette"}
Save(fields) == [f \in DOMAIN disk |-> IF f \in fields THEN mem[f] ELSE disk[f]]

View == [isOn |-> mem.isOn, last |-> mem.last, stored |-> mem.stored,
         playing |-> player.playing, speed |-> player.speed]

Usable(p) == p = UserColors \/ p \in palettes

(***************************************************************************)
(* Start-up: initializeServices() reads the records, derives isOn from the *)
(* boot policy and leaves the panels as the self test does, dark.          *)
(***************************************************************************)
BootPower(d) == CASE d.boot = AlwaysOff -> FALSE
                  [] d.boot = LastState -> d.isOn
                  [] OTHER              -> TRUE

SelfTest(d) == [on |-> FALSE, level |-> d.level,
                palette |-> IF Usable(d.palette) THEN d.palette ELSE UserColors]

NoPlayer == [playing |-> FALSE, content |-> Nothing, palette |-> UserColors, speed |-> 1,
             own |-> FALSE]

Start(d) ==
    /\ mem' = [d EXCEPT !.isOn = BootPower(d)]
    /\ dirty' = [state |-> BootPower(d) # d.isOn, boot |-> FALSE, look |-> FALSE]
    /\ asked' = [isOn |-> BootPower(d), level |-> d.level]
    /\ panels' = SelfTest(d)
    /\ pc' = "top"
    /\ snap' = NoView

Init ==
    /\ mem = Defaults /\ disk = Defaults
    /\ dirty = [state |-> FALSE, boot |-> FALSE, look |-> FALSE]
    /\ asked = [isOn |-> TRUE, level |-> Defaults.level]
    /\ scenes = [i \in Ids |-> Missing]
    /\ palettes = {}
    /\ player = NoPlayer
    /\ panels = [on |-> FALSE, level |-> Defaults.level, palette |-> UserColors]
    /\ queue = <<>> /\ heap = 0 /\ net = Idle
    /\ pc = "top" /\ snap = NoView /\ told = NoView
    /\ campaign = FALSE /\ lost = {}
    /\ left = [requests |-> MaxRequests, troubles |-> MaxTroubles]
    /\ workload \in Workloads

Boot ==
    /\ pc = Down
    /\ Start(disk)
    /\ lost' = {}
    /\ UNCHANGED <<disk, scenes, palettes, player, queue, heap, net, told, campaign,
                   left, workload>>

Trouble == left.troubles > 0 /\ left' = [left EXCEPT !.troubles = @ - 1]

(* Power fails: everything but the file system is gone. *)
LoseMemory ==
    /\ pc' = Down
    /\ player' = NoPlayer /\ queue' = <<>> /\ heap' = 0 /\ net' = Idle
    /\ campaign' = FALSE /\ snap' = NoView /\ told' = NoView
    /\ UNCHANGED <<mem, dirty, scenes, palettes, panels, asked, lost, workload>>

(* Rewriting the topology file deletes it before the new one is renamed:   *)
(* a cut in between brings the default root back.                          *)
PowerCut ==
    /\ pc # Down /\ Trouble
    /\ \/ disk' = disk
       \/ /\ pc = "drain" /\ queue # <<>> /\ Head(queue).fn = "root"
          /\ disk' = [disk EXCEPT !.root = 1]
    /\ LoseMemory

(***************************************************************************)
(* The queue.  post() refuses when the ring is full.                       *)
(***************************************************************************)
Task(f, a) == [fn |-> f, arg |-> a]
Full == Len(queue) >= QueueSlots
Push(t) == queue' = IF Full THEN queue ELSE Append(queue, t)

Uses(endpoint) ==
    /\ pc # Down /\ net = Idle /\ endpoint \in workload
    /\ left.requests > 0
    /\ left' = [left EXCEPT !.requests = @ - 1]

worldV == <<disk, player, panels, pc, snap, told, campaign, lost, workload>>
storeV == <<scenes, palettes>>

(***************************************************************************)
(* Handlers that validate and post in one go.                              *)
(***************************************************************************)
(* what the client was promised, once the task is in the queue *)
Promise(f, a) ==
    asked' = IF Full THEN asked
             ELSE CASE f = "power" -> [asked EXCEPT !.isOn = a]
                    [] f = "look" /\ a.level # Same -> [asked EXCEPT !.level = a.level]
                    [] f = "mqttLevel" -> [asked EXCEPT !.level = a]
                    [] OTHER -> asked

Post(f, a) ==
    /\ Push(Task(f, a))
    /\ Promise(f, a)
    /\ UNCHANGED <<mem, dirty, storeV, heap, net, worldV>>

PostPower(on) == Uses("power") /\ Post("power", on)

PostStopScene == Uses("stop") /\ Post("stop", "")

PostSetSpeed(s) == Uses("speed") /\ Post("speed", s)

AnimTrigger == Uses("trigger") /\ mem.isOn /\ Post("trigger", "")

PutPanel(a) == Uses("panel") /\ Post("panel", a)

PatchAppearance(level, palette) ==
    /\ Uses("look")
    /\ palette = Same \/ Usable(palette)
    /\ Post("look", [level |-> level, palette |-> palette])

(* MQTT commands: power and stop at any time, the others while on; a full  *)
(* queue drops them.                                                       *)
MqttCommand ==
    /\ Uses("mqtt")
    /\ \/ \E on \in BOOLEAN : Post("power", on)
       \/ Post("stop", "")
       \/ /\ mem.isOn
          /\ \/ \E l \in Levels : Post("mqttLevel", l)
             \/ \E i \in Scenes : Post("mqttScene", i)

(***************************************************************************)
(* Handlers that look first and act later.                                 *)
(***************************************************************************)
Check(endpoint, next) ==
    /\ Uses(endpoint)
    /\ net' = next
    /\ UNCHANGED <<mem, dirty, storeV, heap, queue, asked, worldV>>

PlaySceneById(i) ==
    /\ mem.isOn /\ scenes[i] # Missing
    /\ Check("play", [at |-> "set", id |-> i])

PlayLastScene ==
    LET i == IF mem.stored THEN mem.last ELSE OneShot
    IN  /\ mem.isOn /\ mem.last # NoScene /\ scenes[i] # Missing
        /\ Check("play", [at |-> "post", id |-> i])

PlayOneShotScene(c) ==
    /\ mem.isOn
    /\ Check("oneShot", [at |-> "inline", content |-> c])

(* prepareInline() *)
StoreInline ==
    /\ pc # Down /\ net.at = "inline"
    /\ scenes' = [scenes EXCEPT ![OneShot] = net.content]
    /\ net' = [at |-> "set", id |-> OneShot]
    /\ UNCHANGED <<mem, dirty, palettes, heap, queue, asked, left, worldV>>

(* setLastPlayedSceneId() marks the record dirty only when it changes *)
WithLast(i) == [mem EXCEPT !.last = i, !.stored = i \in Scenes]
MarkIf(field, changed) == [dirty EXCEPT ![field] = @ \/ changed]

SetLastPlayed ==
    /\ pc # Down /\ net.at = "set"
    /\ mem' = WithLast(net.id)
    /\ dirty' = MarkIf("state", mem' # mem)
    /\ net' = [at |-> "post", id |-> net.id]
    /\ UNCHANGED <<storeV, heap, queue, asked, left, worldV>>

DeferPlayById ==
    /\ pc # Down /\ net.at = "post"
    /\ Push(Task("play", net.id))
    /\ net' = Idle
    /\ UNCHANGED <<mem, dirty, storeV, heap, asked, left, worldV>>

(* the layer is allocated, then parsed; a parse error frees it *)
OneShotPlay ==
    /\ Uses("layer") /\ mem.isOn
    /\ heap' = heap + 1
    /\ net' = [at |-> "layer"]
    /\ UNCHANGED <<mem, dirty, storeV, queue, asked, worldV>>

\* Mutated form: a refused layer is not freed.
HandOverForgets ==
    /\ pc # Down /\ net.at = "layer"
    /\ net' = Idle
    /\ Push(Task("layer", ""))
    /\ UNCHANGED <<mem, dirty, storeV, heap, asked, left, worldV>>

HandOverLayer ==
    /\ pc # Down /\ net.at = "layer"
    /\ net' = Idle
    /\ \/ queue' = queue /\ heap' = heap - 1             \* invalid body
       \/ Push(Task("layer", "")) /\ heap' = IF Full THEN heap - 1 ELSE heap
    /\ UNCHANGED <<mem, dirty, storeV, asked, left, worldV>>

(* The policy is narrowed to a byte and applied at once; only the root is  *)
(* deferred, and a full queue leaves the policy changed.                   *)
PatchConfiguration(v, withRoot) ==
    /\ Uses("config")
    /\ LET byte == v % 256
           ok   == byte <= LastState
       IN  /\ mem' = [mem EXCEPT !.boot = IF ok THEN byte ELSE @]
           /\ dirty' = MarkIf("boot", mem' # mem)
           /\ net' = IF ok /\ withRoot THEN [at |-> "root"] ELSE Idle
    /\ UNCHANGED <<storeV, heap, queue, asked, worldV>>

DeferRoot(r) ==
    /\ pc # Down /\ net.at = "root"
    /\ Push(Task("root", r))
    /\ net' = Idle
    /\ UNCHANGED <<mem, dirty, storeV, heap, asked, left, worldV>>

(* The task keeps the request itself; the client may leave meanwhile. *)
GetPanels == Uses("panels") /\ Post("panels", "open")

ClientLeaves ==
    /\ pc # Down
    /\ \E k \in DOMAIN queue :
          /\ queue[k].fn = "panels" /\ queue[k].arg = "open"
          /\ queue' = [queue EXCEPT ![k].arg = "gone"]
    /\ UNCHANGED <<mem, dirty, storeV, heap, net, asked, left, worldV>>

(***************************************************************************)
(* Edits of the stores.  Each is one session under the store's lock.       *)
(***************************************************************************)
PutScene(i, content) ==
    /\ Uses("edit")
    /\ scenes' = [scenes EXCEPT ![i] = content]
    /\ UNCHANGED <<mem, dirty, palettes, heap, queue, net, asked, worldV>>

PostCreateScene(i, c) == scenes[i] = Missing /\ PutScene(i, c)
PatchUpdateScene(i, c) == scenes[i] # Missing /\ PutScene(i, c)
DeleteScene(i) == scenes[i] # Missing /\ PutScene(i, Missing)

SetPalettes(ps) ==
    /\ Uses("palette")
    /\ palettes' = ps
    /\ UNCHANGED <<mem, dirty, scenes, heap, queue, net, asked, worldV>>

PostPalette(p) == p \notin palettes /\ SetPalettes(palettes \cup {p})
DeletePalette(p) == p \in palettes /\ SetPalettes(palettes \ {p})

(***************************************************************************)
(* The player and the panels, as the deferred tasks drive them.            *)
(***************************************************************************)
Stopped(p) == [p EXCEPT !.playing = FALSE]

(* armScene(): the panels of the layers are switched on and get the palette *)
Arm(content, palette, speed, own) ==
    /\ player' = [playing |-> TRUE, content |-> content, palette |-> palette,
                  speed |-> speed, own |-> own]
    /\ panels' = [panels EXCEPT !.on = TRUE,
                                !.palette = IF palette = "own" \/ Usable(palette)
                                            THEN palette ELSE UserColors]

PaletteFor(c) == IF c = "own" THEN "own" ELSE mem.palette

PlayStored(i) ==
    IF scenes[i] = Missing
    THEN player' = Stopped(player) /\ UNCHANGED panels
    ELSE Arm(scenes[i], PaletteFor(scenes[i]), 1, scenes[i] = "own")

Resume ==
    IF player.content = Nothing
    THEN UNCHANGED player /\ panels' = [panels EXCEPT !.on = TRUE, !.level = mem.level,
              !.palette = IF Usable(mem.palette) THEN mem.palette ELSE UserColors]
    ELSE Arm(player.content, player.palette, player.speed, player.own)

(* onAppearanceChanged(): only a playing scene without a palette follows *)
FollowLook(palette) ==
    player' = IF player.playing /\ ~player.own THEN [player EXCEPT !.palette = palette]
              ELSE player

Pop == queue' = Tail(queue)
taskV == <<disk, storeV, net, pc, snap, told, campaign, asked, left, workload>>

\* Mutated form: power-off is skipped when nothing plays.
RunPowerWhilePlaying(t) ==
    /\ t.fn = "power"
    /\ IF mem.isOn = t.arg \/ (~t.arg /\ ~player.playing)
       THEN UNCHANGED <<mem, dirty, player, panels>>
       ELSE /\ mem' = [mem EXCEPT !.isOn = t.arg]
            /\ dirty' = MarkIf("state", TRUE)
            /\ IF t.arg THEN Resume
               ELSE player' = Stopped(player) /\ panels' = [panels EXCEPT !.on = FALSE]
    /\ UNCHANGED <<heap, lost, taskV>>

RunPower(t) ==
    /\ t.fn = "power"
    /\ mem' = [mem EXCEPT !.isOn = t.arg]
    /\ dirty' = MarkIf("state", mem.isOn # t.arg)
    /\ IF mem.isOn = t.arg THEN UNCHANGED <<player, panels>>
       ELSE IF t.arg THEN Resume
       ELSE player' = Stopped(player) /\ panels' = [panels EXCEPT !.on = FALSE]
    /\ UNCHANGED <<heap, lost, taskV>>

RunPlay(t) ==
    /\ t.fn = "play"
    /\ PlayStored(t.arg)
    /\ UNCHANGED <<mem, dirty, heap, lost, taskV>>

(* The record is found but its layers cannot be read to the end. *)
ReadFails(t) ==
    /\ t.fn \in {"play", "mqttScene"} /\ scenes[t.arg] # Missing
    /\ t.fn = "mqttScene" => mem.isOn
    /\ Trouble
    /\ player' = [player EXCEPT !.playing = FALSE,
                                !.content = IF @ = Nothing THEN Nothing ELSE Mixed]
    /\ mem' = IF t.fn = "mqttScene" THEN WithLast(t.arg) ELSE mem
    /\ dirty' = MarkIf("state", mem' # mem)
    /\ UNCHANGED <<panels, heap, lost, disk, storeV, net, pc, snap, told, campaign,
                   asked, workload>>

RunLayer(t) ==
    /\ t.fn = "layer"
    /\ Arm(Layer, mem.palette, 1, player.own)
    /\ heap' = heap - 1
    /\ UNCHANGED <<mem, dirty, lost, taskV>>

RunStop(t) ==
    /\ t.fn = "stop"
    /\ player' = Stopped(player)
    /\ UNCHANGED <<mem, dirty, panels, heap, lost, taskV>>

RunSpeed(t) ==
    /\ t.fn = "speed"
    /\ player' = [player EXCEPT !.speed = t.arg]
    /\ UNCHANGED <<mem, dirty, panels, heap, lost, taskV>>

\* Mutated form: a new brightness alone does not mark the record.
RunLookUnmarked(t) ==
    /\ t.fn = "look"
    /\ LET level   == IF t.arg.level = Same THEN mem.level ELSE t.arg.level
           known   == t.arg.palette # Same /\ Usable(t.arg.palette)
           palette == IF known THEN t.arg.palette ELSE mem.palette
       IN  /\ mem' = [mem EXCEPT !.level = level, !.palette = palette]
           /\ dirty' = MarkIf("look", known)
           /\ panels' = [panels EXCEPT !.level = level, !.palette = IF known THEN palette ELSE @]
           /\ FollowLook(palette)
    /\ UNCHANGED <<heap, lost, taskV>>

(* setPalette() looks the name up again: it may be gone by now *)
RunLook(t) ==
    /\ t.fn = "look"
    /\ LET level   == IF t.arg.level = Same THEN mem.level ELSE t.arg.level
           known   == t.arg.palette # Same /\ Usable(t.arg.palette)
           palette == IF known THEN t.arg.palette ELSE mem.palette
       IN  /\ mem' = [mem EXCEPT !.level = level, !.palette = palette]
           /\ dirty' = MarkIf("look", t.arg.level # Same \/ known)
           /\ panels' = [panels EXCEPT !.level = level, !.palette = IF known THEN palette ELSE @]
           /\ FollowLook(palette)
    /\ UNCHANGED <<heap, lost, taskV>>

RunMqttLevel(t) ==
    /\ t.fn = "mqttLevel"
    /\ mem' = [mem EXCEPT !.level = t.arg]
    /\ dirty' = MarkIf("look", TRUE)
    /\ panels' = [panels EXCEPT !.level = t.arg]
    /\ FollowLook(mem.palette)
    /\ UNCHANGED <<heap, lost, taskV>>

RunMqttScene(t) ==
    /\ t.fn = "mqttScene"
    /\ IF mem.isOn /\ scenes[t.arg] # Missing
       THEN /\ mem' = WithLast(t.arg)
            /\ dirty' = MarkIf("state", mem' # mem)
            /\ PlayStored(t.arg)
       ELSE UNCHANGED <<mem, dirty, player, panels>>
    /\ UNCHANGED <<heap, lost, taskV>>

RunRoot(t) ==
    /\ t.fn = "root"
    /\ mem' = [mem EXCEPT !.root = t.arg]
    /\ disk' = [disk EXCEPT !.root = t.arg]
    /\ IF player.playing THEN Resume ELSE UNCHANGED <<player, panels>>
    /\ UNCHANGED <<dirty, heap, lost, storeV, net, pc, snap, told, campaign, asked, left,
                   workload>>

RunPanel(t) ==
    /\ t.fn = "panel"
    /\ panels' = [panels EXCEPT !.on = t.arg]
    /\ UNCHANGED <<mem, dirty, player, heap, lost, taskV>>

(* The rest: a trigger goes straight to the panels; the list of panels is  *)
(* written into the request it was asked with.                             *)
RunOther(t) ==
    /\ t.fn \in {"trigger", "panels"}
    /\ UNCHANGED <<mem, dirty, player, panels, heap, lost, taskV>>

Drain ==
    /\ pc = "drain" /\ queue # <<>>
    /\ Pop
    /\ LET t == Head(queue)
       IN  \/ RunPower(t) \/ RunPlay(t) \/ ReadFails(t) \/ RunLayer(t) \/ RunStop(t)
           \/ RunSpeed(t) \/ RunLook(t) \/ RunMqttLevel(t) \/ RunMqttScene(t)
           \/ RunRoot(t) \/ RunPanel(t) \/ RunOther(t)

(* Writing the answer into a request that is gone is undefined: here the   *)
(* case that ends in a reset.                                              *)
RunDangling ==
    /\ pc = "drain" /\ queue # <<>> /\ Head(queue).fn = "panels"
    /\ Head(queue).arg = "gone"
    /\ LoseMemory
    /\ UNCHANGED <<disk, left>>

(***************************************************************************)
(* The stages of runServices().                                            *)
(***************************************************************************)
loopV == <<scenes, palettes, queue, heap, net, asked, workload>>

\* Mutated form: the queue is not drained while off.
TopWhileOn ==
    /\ pc = "top" /\ ~campaign
    /\ pc' = IF mem.isOn THEN "drain" ELSE "scene"
    /\ UNCHANGED <<mem, dirty, disk, player, panels, snap, told, campaign, lost, left, loopV>>

Top ==
    /\ pc = "top" /\ ~campaign
    /\ pc' = "drain"
    /\ UNCHANGED <<mem, dirty, disk, player, panels, snap, told, campaign, lost, left, loopV>>

Drained ==
    /\ pc = "drain" /\ queue = <<>>
    /\ pc' = "scene"
    /\ UNCHANGED <<mem, dirty, disk, player, panels, snap, told, campaign, lost, left, loopV>>

(* A scene that plays once may come to its end. *)
SceneTick ==
    /\ pc = "scene"
    /\ pc' = "look"
    /\ \/ UNCHANGED player
       \/ mem.isOn /\ player.playing /\ player' = Stopped(player)
    /\ UNCHANGED <<mem, dirty, disk, panels, snap, told, campaign, lost, left, loopV>>

(* Only the main loop touches the appearance record.  When the write fails *)
(* the writer is cleared all the same.                                     *)
FlushLook ==
    /\ pc = "look"
    /\ pc' = "boot"
    /\ \/ UNCHANGED <<dirty, disk, lost, left>>            \* clean, or too early
       \/ /\ dirty.look /\ dirty' = [dirty EXCEPT !.look = FALSE]
          /\ \/ disk' = Save(LookFields) /\ lost' = lost \ {"look"} /\ UNCHANGED left
             \/ Trouble /\ lost' = lost \cup {"look"} /\ UNCHANGED disk
    /\ UNCHANGED <<mem, player, panels, snap, told, campaign, loopV>>

(* The stages behind the flush of a record: written and not yet cleared, done with. *)
Clear == [boot |-> "bootClear", state |-> "stateClear"]
Done == [boot |-> "bootDone", state |-> "stateDone"]

(* writeFile(), then clear(): a setter of the network task fits in between. *)
WriteRecord(field, fields) ==
    /\ pc = field
    /\ \/ pc' = Done[field] /\ UNCHANGED <<disk, lost>>     \* clean, or too early
       \/ /\ dirty[field] /\ disk' = Save(fields) /\ pc' = Clear[field]
          /\ lost' = lost \ {field}
    /\ UNCHANGED <<mem, dirty, player, panels, snap, told, campaign, left, loopV>>

ClearRecord(field) ==
    /\ pc = Clear[field]
    /\ dirty' = [dirty EXCEPT ![field] = FALSE]
    /\ pc' = Done[field]
    /\ UNCHANGED <<mem, disk, player, panels, snap, told, campaign, lost, left, loopV>>

(* The write fails, the writer is cleared all the same. *)
SaveFails(field) ==
    /\ pc = field /\ dirty[field]
    /\ Trouble
    /\ dirty' = [dirty EXCEPT ![field] = FALSE]
    /\ lost' = lost \cup {field}
    /\ pc' = Done[field]
    /\ UNCHANGED <<mem, disk, player, panels, snap, told, campaign, loopV>>

FlushRecords ==
    \/ WriteRecord("boot", BootFields) \/ WriteRecord("state", StateFields)
    \/ \E f \in {"boot", "state"} : ClearRecord(f) \/ SaveFails(f)

NextRecord ==
    /\ pc \in {Done.boot, Done.state}
    /\ pc' = IF pc = Done.boot THEN "state" ELSE "tell"
    /\ UNCHANGED <<mem, dirty, disk, player, panels, snap, told, campaign, lost, left, loopV>>

\* Mutated form: only a change of power is noticed.
TellPowerOnly ==
    /\ pc = "tell"
    /\ \/ snap = NoView /\ told' = View /\ pc' = "capture" /\ UNCHANGED <<lost, left>>
       \/ snap # NoView /\ snap.isOn = mem.isOn /\ pc' = "top" /\ UNCHANGED <<told, lost, left>>
       \/ /\ snap # NoView /\ snap.isOn # mem.isOn /\ pc' = "capture"
          /\ told' = View /\ UNCHANGED <<lost, left>>
    /\ UNCHANGED <<mem, dirty, disk, player, panels, snap, campaign, loopV>>

(* AppStateBroadcaster::tick(): the first call only takes the snapshot; a  *)
(* client that connects then has read GET /api/state.  Without memory for  *)
(* the frame the broadcast is dropped.                                     *)
Tell ==
    /\ pc = "tell"
    /\ \/ snap = NoView /\ told' = View /\ pc' = "capture" /\ UNCHANGED <<lost, left>>
       \/ snap = View /\ pc' = "top" /\ UNCHANGED <<told, lost, left>>
       \/ /\ snap # NoView /\ snap # View /\ pc' = "capture"
          /\ \/ told' = View /\ lost' = lost \ {"tell"} /\ UNCHANGED left
             \/ /\ Trouble
                /\ lost' = lost \cup {"tell"} /\ UNCHANGED told
    /\ UNCHANGED <<mem, dirty, disk, player, panels, snap, campaign, loopV>>

Capture ==
    /\ pc = "capture"
    /\ snap' = View
    /\ pc' = "top"
    /\ UNCHANGED <<mem, dirty, disk, player, panels, told, campaign, lost, left, loopV>>

(* A panel-flash campaign suspends everything below the first stage. *)
Campaign ==
    /\ pc = "top" /\ ~campaign /\ Trouble
    /\ campaign' = TRUE
    /\ UNCHANGED <<mem, dirty, disk, player, panels, snap, told, pc, lost, loopV>>

EndCampaign ==
    /\ pc = "top" /\ campaign
    /\ campaign' = FALSE
    /\ UNCHANGED <<mem, dirty, disk, player, panels, snap, told, pc, lost, left, loopV>>

(* The controller's own update flushes the records, as far as they can be  *)
(* written, and restarts.                                                  *)
ControllerUpdate ==
    /\ pc = "top" /\ Trouble
    /\ \E written \in SUBSET {r \in {"state", "boot", "look"} : dirty[r]} :
          disk' = Save((IF "state" \in written THEN StateFields ELSE {})
                       \cup (IF "boot" \in written THEN BootFields ELSE {})
                       \cup (IF "look" \in written THEN LookFields ELSE {}))
    /\ LoseMemory

Loop == Top \/ Drain \/ Drained \/ SceneTick \/ FlushLook \/ FlushRecords \/ NextRecord
        \/ Tell \/ Capture

Handle == StoreInline \/ SetLastPlayed \/ DeferPlayById \/ HandOverLayer
          \/ \E r \in {1, 2} : DeferRoot(r)

Request ==
    \/ \E on \in BOOLEAN : PostPower(on) \/ PutPanel(on)
    \/ PostStopScene \/ AnimTrigger \/ MqttCommand \/ PlayLastScene \/ OneShotPlay \/ GetPanels
    \/ \E s \in Speeds : PostSetSpeed(s)
    \/ \E l \in Levels \cup {Same}, p \in Palettes \cup {UserColors, Same} :
          PatchAppearance(l, p)
    \/ \E i \in Ids : PlaySceneById(i)
    \/ \E i \in Scenes : DeleteScene(i)
    \/ \E i \in Scenes, c \in Contents : PostCreateScene(i, c) \/ PatchUpdateScene(i, c)
    \/ \E c \in Contents : PlayOneShotScene(c)
    \/ \E p \in Palettes : PostPalette(p) \/ DeletePalette(p)
    \/ \E v \in Policies, b \in BOOLEAN : PatchConfiguration(v, b)

Environment == ClientLeaves \/ RunDangling \/ PowerCut \/ Campaign \/ ControllerUpdate

Next == Loop \/ Handle \/ Request \/ Environment \/ EndCampaign \/ Boot

(* loop() is called for ever, the network task is never starved by it, a   *)
(* campaign ends (module Ota) and the device is powered again.             *)
Fairness == WF_vars(Loop) /\ WF_vars(Handle) /\ WF_vars(EndCampaign) /\ WF_vars(Boot)

Spec == Init /\ [][Next]_vars /\ Fairness

-----------------------------------------------------------------------------
(* Once the queue is empty, power and brightness are the last ones a       *)
(* client was told 202 for, whatever was refused, whoever asked, and the   *)
(* panels shine at that brightness (StateServer, AppearanceServer, MQTT).  *)
AcceptedTakesEffect ==
    pc # Down /\ queue = <<>> =>
        /\ mem.isOn = asked.isOn
        /\ mem.level = asked.level /\ panels.level = mem.level

(* A record whose writer is clean is the one in the file, unless its last  *)
(* write failed: the writer is cleared then too, and nothing is tried      *)
(* again until the record changes.  So a cut takes back at most what the   *)
(* write-back window holds of the appearance, and of the power state       *)
(* although the network task writes into its record.                       *)
CleanMeansSaved ==
    pc # Down =>
        /\ ~dirty.look /\ "look" \notin lost => \A f \in LookFields : disk[f] = mem[f]
        /\ ~dirty.state /\ "state" \notin lost => disk.isOn = mem.isOn

(* At the end of an iteration clients know of every change of power,       *)
(* playback and speed, unless the last frame was dropped for want of       *)
(* memory (AppStateBroadcaster).                                           *)
ToldWhatChanged ==
    pc = "top" /\ snap # NoView /\ "tell" \notin lost =>
        \A f \in {"isOn", "playing", "speed"} : told[f] = View[f]

(* Every parsed layer on the heap belongs to a queued task or to the       *)
(* request being handled: none leaks when the queue refuses, none is freed *)
(* twice (AnimationServer::handleOneShotPlay).                             *)
NoLayerLeak ==
    heap = Cardinality({k \in DOMAIN queue : queue[k].fn = "layer"})
           + (IF net.at = "layer" THEN 1 ELSE 0)

(* Accepted work is run: the queue empties again and again, also after a   *)
(* campaign that kept the loop from draining it.                           *)
DrainsEventually == []<>(queue = <<>>)

(* docs/api.md: setting isOn to false stops all animations, and the play   *)
(* endpoints answer 409 while off.                                         *)
OffMeansStopped == pc \notin {"drain", Down} /\ ~mem.isOn => ~player.playing
=============================================================================
