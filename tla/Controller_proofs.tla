-------------------------- MODULE Controller_proofs --------------------------
(***************************************************************************)
(* Theorems about Controller, for every set of scenes, palettes, levels    *)
(* and speeds, every length of the queue and any number of requests and    *)
(* troubles: what was promised takes effect once the queue is empty        *)
(* (PromisesKept), a record that is clean is saved (CleanSaved), clients   *)
(* are told of every change (ClientsTold), and a parsed layer has exactly  *)
(* one owner (LayersOwned).                                                *)
(***************************************************************************)
EXTENDS Controller, Integers, FiniteSetTheorems, TLAPS

PaletteNames == Palettes \cup {UserColors}
Playable == PaletteNames \cup {"own"}

Records == [isOn : BOOLEAN, last : Ids \cup {NoScene}, stored : BOOLEAN, boot : Nat,
            level : Levels, palette : PaletteNames, root : {1, 2}]
Marks   == [state : BOOLEAN, boot : BOOLEAN, look : BOOLEAN]
Players == [playing : BOOLEAN, content : Contents \cup {Nothing, Layer, Mixed},
            palette : Playable, speed : Speeds, own : BOOLEAN]
Looks   == [on : BOOLEAN, level : Levels, palette : Playable]
Views   == [isOn : BOOLEAN, last : Ids \cup {NoScene}, stored : BOOLEAN,
            playing : BOOLEAN, speed : Speeds]

Tasks == [fn : {"power", "panel"}, arg : BOOLEAN]
         \cup [fn : {"stop", "trigger", "layer"}, arg : {""}]
         \cup [fn : {"speed"}, arg : Speeds]
         \cup [fn : {"look"}, arg : [level : Levels \cup {Same},
                                     palette : PaletteNames \cup {Same}]]
         \cup [fn : {"mqttLevel"}, arg : Levels]
         \cup [fn : {"mqttScene"}, arg : Scenes]
         \cup [fn : {"play"}, arg : Ids]
         \cup [fn : {"root"}, arg : {1, 2}]
         \cup [fn : {"panels"}, arg : {"open", "gone"}]
Nets  == [at : {"idle", "layer", "root"}] \cup [at : {"set", "post"}, id : Ids]
         \cup [at : {"inline"}, content : Contents]
Stages == {"top", "drain", "scene", "look", "boot", "bootClear", "bootDone", "state",
           "stateClear", "stateDone", "tell", "capture", Down}

StoreType == scenes \in [Ids -> Contents \cup {Missing}] /\ palettes \subseteq Palettes
LoopType  == player \in Players /\ panels \in Looks /\ pc \in Stages
             /\ snap \in Views \cup {NoView} /\ told \in Views \cup {NoView}
             /\ lost \subseteq {"boot", "state", "look", "tell"}
QueueType == queue \in Seq(Tasks) /\ Len(queue) <= QueueSlots /\ heap \in Int /\ net \in Nets
             /\ asked \in [isOn : BOOLEAN, level : Levels]

TypeInv == mem \in Records /\ disk \in Records /\ dirty \in Marks
           /\ StoreType /\ LoopType /\ QueueType

-----------------------------------------------------------------------------
(* The pending tasks that set the power, and those that set the brightness. *)

SetsLevel(t) == t.fn = "mqttLevel" \/ (t.fn = "look" /\ t.arg.level # Same)
ValueOf(t) == IF t.fn = "look" THEN t.arg.level ELSE t.arg

PowerTasks == {t \in Tasks : t.fn = "power"}
LevelTasks == {t \in Tasks : SetsLevel(t)}

\* The last task of the kind S in q decides what the setting will be, and is what was
\* asked for; without one it is what was asked for now.
Comes(S, q, now, wanted) ==
    /\ \A k \in DOMAIN q :
          q[k] \in S /\ (\A j \in k + 1 .. Len(q) : q[j] \notin S) => ValueOf(q[k]) = wanted
    /\ (\A k \in DOMAIN q : q[k] \notin S) => now = wanted

PromiseInv ==
    pc # Down => /\ Comes(PowerTasks, queue, mem.isOn, asked.isOn)
                 /\ Comes(LevelTasks, queue, mem.level, asked.level)
                 /\ panels.level = mem.level

\* Nothing is at work in a device without power.
DownInv == pc = Down => queue = <<>> /\ heap = 0 /\ net = Idle

Layers(q) == {k \in DOMAIN q : q[k].fn = "layer"}
InHand == IF net.at = "layer" THEN 1 ELSE 0

\* Power is what the file says also between the write and the clear of its record: the
\* network task writes into the record meanwhile, but not into that field.
SavedInv ==
    pc # Down =>
        /\ ~dirty.look /\ "look" \notin lost => disk.level = mem.level /\ disk.palette = mem.palette
        /\ ~dirty.state /\ "state" \notin lost => disk.isOn = mem.isOn
        /\ pc = "stateClear" => disk.isOn = mem.isOn

SameFields(v, w) == v.isOn = w.isOn /\ v.playing = w.playing /\ v.speed = w.speed

\* Clients know what the snapshot says, but for the moment between the broadcast and
\* the capture, when they know what is so; and nothing of it changes meanwhile.
ToldInv ==
    /\ pc = "top" /\ snap # NoView => SameFields(snap, View)
    /\ pc # "capture" /\ snap # NoView /\ "tell" \notin lost => SameFields(told, snap)
    /\ pc = "capture" /\ "tell" \notin lost => SameFields(told, View)

ControllerInv ==
    TypeInv /\ DownInv /\ PromiseInv /\ SavedInv /\ ToldInv /\ NoLayerLeak

-----------------------------------------------------------------------------
(* What a task carries.                                                     *)

\* The argument of a task, by its function (MainLoopQueue::Task).
LEMMA TaskArgs ==
    ASSUME NEW t \in Tasks
    PROVE  /\ t.fn \in {"power", "panel"} => t.arg \in BOOLEAN
           /\ t.fn = "speed" => t.arg \in Speeds
           /\ t.fn = "look" => /\ t.arg.level \in Levels \cup {Same}
                               /\ t.arg.palette \in PaletteNames \cup {Same}
           /\ t.fn = "mqttLevel" => t.arg \in Levels
           /\ t.fn = "mqttScene" => t.arg \in Scenes
           /\ t.fn = "play" => t.arg \in Ids
           /\ t.fn = "root" => t.arg \in {1, 2}
           /\ SetsLevel(t) => ValueOf(t) \in Levels
<1>1. ASSUME t.fn \in {"power", "panel"} PROVE t.arg \in BOOLEAN
  BY <1>1 DEF Tasks
<1>2. ASSUME t.fn = "speed" PROVE t.arg \in Speeds
  BY <1>2 DEF Tasks
<1>3. ASSUME t.fn = "look"
      PROVE  t.arg.level \in Levels \cup {Same} /\ t.arg.palette \in PaletteNames \cup {Same}
  <2>1. t.arg \in [level : Levels \cup {Same}, palette : PaletteNames \cup {Same}]
    BY <1>3 DEF Tasks
  <2> QED
    BY <2>1
<1>4. ASSUME t.fn = "mqttLevel" PROVE t.arg \in Levels
  BY <1>4 DEF Tasks
<1>5. ASSUME t.fn = "mqttScene" PROVE t.arg \in Scenes
  BY <1>5 DEF Tasks
<1>6. ASSUME t.fn = "play" PROVE t.arg \in Ids
  BY <1>6 DEF Tasks
<1>7. ASSUME t.fn = "root" PROVE t.arg \in {1, 2}
  BY <1>7 DEF Tasks
<1>8. SetsLevel(t) => ValueOf(t) \in Levels
  BY <1>3, <1>4 DEF SetsLevel, ValueOf
<1> QED
  BY <1>1, <1>2, <1>3, <1>4, <1>5, <1>6, <1>7, <1>8

\* The first task of a queue and the rest of it (MainLoopQueue::drain).
LEMMA Queued ==
    ASSUME NEW q \in Seq(Tasks), q # <<>>
    PROVE  /\ Head(q) \in Tasks /\ Tail(q) \in Seq(Tasks) /\ Len(Tail(q)) = Len(q) - 1
           /\ Len(q) \in Nat \ {0} /\ Head(q) = q[1]
           /\ \A k \in 1 .. Len(q) - 1 : Tail(q)[k] = q[k + 1]
<1>1. Len(q) \in Nat \ {0} /\ Head(q) = q[1] /\ Head(q) \in Tasks
  OBVIOUS
<1>2. Tail(q) \in Seq(Tasks) /\ Len(Tail(q)) = Len(q) - 1
  OBVIOUS
<1>3. ASSUME NEW k \in 1 .. Len(q) - 1 PROVE Tail(q)[k] = q[k + 1]
  BY <1>1
<1> QED
  BY <1>1, <1>2, <1>3

\* A palette that can be used has a name (PaletteRepository::find).
LEMMA UsableNames ==
    ASSUME palettes \subseteq Palettes
    PROVE  UserColors \in PaletteNames /\ \A p : Usable(p) => p \in PaletteNames
  BY DEF Usable, PaletteNames

-----------------------------------------------------------------------------
(* Steps of the network task.                                               *)

\* A task put into the queue, with its promise.
Pushed(t) ==
    /\ queue' = Append(queue, t) /\ Len(queue) < QueueSlots
    /\ asked' = [isOn  |-> IF t.fn = "power" THEN t.arg ELSE asked.isOn,
                 level |-> IF SetsLevel(t) THEN ValueOf(t) ELSE asked.level]
    /\ heap' - InHand' = heap - InHand + (IF t.fn = "layer" THEN 1 ELSE 0)

\* What a step of the network task may do to the queue and to what comes with it: it
\* pushes a task, or leaves them alone, or a client leaves.
QueueStep ==
    \/ \E t \in Tasks : Pushed(t)
    \/ UNCHANGED <<queue, asked>> /\ heap' - InHand' = heap - InHand
    \/ UNCHANGED <<asked, heap, net>>
       /\ \E k \in DOMAIN queue : queue[k].fn = "panels"
                                  /\ queue' = [queue EXCEPT ![k].arg = "gone"]

\* And to the records: fields the loop owns stay, and a mark stays.
RecordStep ==
    /\ pc # Down /\ UNCHANGED worldV
    /\ \A f \in {"isOn", "level", "palette", "root"} : mem'[f] = mem[f]
    /\ dirty'.look = dirty.look /\ (dirty.state => dirty'.state)
    /\ mem' \in Records /\ dirty' \in Marks /\ heap' \in Int /\ net' \in Nets

NetStep == QueueStep /\ RecordStep /\ StoreType'

\* The requests that post a task and are done.
LEMMA PostSteps ==
    ASSUME TypeInv, NEW f, NEW a, Task(f, a) \in Tasks, Post(f, a), pc # Down, net = Idle,
           f # "layer"
    PROVE  NetStep
<1> DEFINE t == Task(f, a)
<1>1. /\ t.fn = f /\ t.arg = a /\ t \in Tasks
      /\ queue' = (IF Full THEN queue ELSE Append(queue, t))
      /\ UNCHANGED <<mem, dirty, storeV, heap, net, worldV>>
  BY DEF Post, Push, Task
<1>2. InHand' = InHand /\ heap \in Int /\ InHand = 0
  BY <1>1 DEF InHand, TypeInv, QueueType, Idle
<1>3. CASE Full
  <2>1. UNCHANGED <<queue, asked>>
    BY <1>1, <1>3 DEF Post, Promise
  <2>2. QueueStep
    BY <1>1, <1>2, <2>1 DEF QueueStep
  <2> QED
    BY <1>1, <2>2 DEF NetStep, RecordStep, TypeInv, QueueType, StoreType, storeV
<1>4. CASE ~Full
  <2>1. asked' = [isOn  |-> IF f = "power" THEN a ELSE asked.isOn,
                  level |-> IF SetsLevel(t) THEN ValueOf(t) ELSE asked.level]
    BY <1>1, <1>4 DEF Post, Promise, TypeInv, QueueType, SetsLevel, ValueOf
  <2>2. Len(queue) < QueueSlots
    BY <1>4, ControllerAssumption DEF Full, TypeInv, QueueType
  <2>3. heap' - InHand' = heap - InHand + (IF t.fn = "layer" THEN 1 ELSE 0)
    BY <1>1, <1>2
  <2>4. Pushed(t)
    BY <1>1, <1>4, <2>1, <2>2, <2>3 DEF Pushed
  <2>5. QueueStep
    BY <1>1, <2>4 DEF QueueStep
  <2> QED
    BY <1>1, <2>5 DEF NetStep, RecordStep, TypeInv, QueueType, StoreType, storeV
<1> QED
  BY <1>3, <1>4

\* A client that may use an endpoint finds the network task at rest.
LEMMA UsesIdle == ASSUME NEW e, Uses(e) PROVE pc # Down /\ net = Idle
  BY DEF Uses

LEMMA PostRequests ==
    ASSUME TypeInv,
           \/ \E on \in BOOLEAN : PostPower(on) \/ PutPanel(on)
           \/ PostStopScene \/ AnimTrigger \/ MqttCommand \/ GetPanels
           \/ \E s \in Speeds : PostSetSpeed(s)
           \/ \E l \in Levels \cup {Same}, p \in Palettes \cup {UserColors, Same} :
                 PatchAppearance(l, p)
    PROVE  NetStep
<1>1. ASSUME NEW on \in BOOLEAN, PostPower(on) \/ PutPanel(on) PROVE NetStep
  <2>1. Task("power", on) \in Tasks /\ Task("panel", on) \in Tasks
    BY DEF Task, Tasks
  <2> QED
    BY <1>1, <2>1, UsesIdle, PostSteps DEF PostPower, PutPanel
<1>2. CASE PostStopScene \/ AnimTrigger \/ GetPanels
  <2>1. /\ Task("stop", "") \in Tasks /\ Task("trigger", "") \in Tasks
        /\ Task("panels", "open") \in Tasks
    BY DEF Task, Tasks
  <2> QED
    BY <1>2, <2>1, UsesIdle, PostSteps DEF PostStopScene, AnimTrigger, GetPanels
<1>3. CASE MqttCommand
  <2>1. /\ \A on \in BOOLEAN : Task("power", on) \in Tasks
        /\ Task("stop", "") \in Tasks
        /\ \A l \in Levels : Task("mqttLevel", l) \in Tasks
        /\ \A i \in Scenes : Task("mqttScene", i) \in Tasks
    BY DEF Task, Tasks
  <2> QED
    BY <1>3, <2>1, UsesIdle, PostSteps DEF MqttCommand
<1>4. ASSUME NEW s \in Speeds, PostSetSpeed(s) PROVE NetStep
  <2>1. Task("speed", s) \in Tasks
    BY DEF Task, Tasks
  <2> QED
    BY <1>4, <2>1, UsesIdle, PostSteps DEF PostSetSpeed
<1>5. ASSUME NEW l \in Levels \cup {Same}, NEW p \in Palettes \cup {UserColors, Same},
             PatchAppearance(l, p)
      PROVE  NetStep
  <2>1. Task("look", [level |-> l, palette |-> p]) \in Tasks
    BY DEF Task, Tasks, PaletteNames
  <2> QED
    BY <1>5, <2>1, UsesIdle, PostSteps DEF PatchAppearance
<1> QED
  BY <1>1, <1>2, <1>3, <1>4, <1>5

\* A step of the network task that leaves queue and promises alone.
LEMMA QuietSteps ==
    ASSUME UNCHANGED <<queue, asked>>, heap' - InHand' = heap - InHand, RecordStep, StoreType'
    PROVE  NetStep
  BY DEF NetStep, QueueStep

LEMMA CheckSteps ==
    ASSUME TypeInv, NEW e, NEW n \in Nets, n.at # "layer", Check(e, n)
    PROVE  NetStep
<1>1. InHand = 0 /\ InHand' = 0
  BY DEF Check, Uses, Idle, InHand
<1>2. RecordStep /\ StoreType'
  BY DEF RecordStep, Check, Uses, TypeInv, QueueType, StoreType, storeV
<1> QED
  BY <1>1, <1>2, QuietSteps DEF Check, TypeInv, QueueType

LEMMA OtherRequests ==
    ASSUME TypeInv,
           \/ PlayLastScene \/ OneShotPlay
           \/ \E i \in Ids : PlaySceneById(i)
           \/ \E i \in Scenes : DeleteScene(i)
           \/ \E i \in Scenes, c \in Contents : PostCreateScene(i, c) \/ PatchUpdateScene(i, c)
           \/ \E c \in Contents : PlayOneShotScene(c)
           \/ \E p \in Palettes : PostPalette(p) \/ DeletePalette(p)
           \/ \E v \in Policies, b \in BOOLEAN : PatchConfiguration(v, b)
    PROVE  NetStep
<1>1. CASE PlayLastScene
  <2> DEFINE i == IF mem.stored THEN mem.last ELSE OneShot
  <2>1. i \in Ids
    BY <1>1 DEF PlayLastScene, TypeInv, Records, Ids
  <2>2. [at |-> "post", id |-> i] \in Nets /\ [at |-> "post", id |-> i].at # "layer"
    BY <2>1 DEF Nets
  <2>3. Check("play", [at |-> "post", id |-> i])
    BY <1>1 DEF PlayLastScene
  <2> HIDE DEF i
  <2> QED
    BY <2>2, <2>3, CheckSteps
<1>2. CASE OneShotPlay
  <2>1. /\ heap' = heap + 1 /\ net' = [at |-> "layer"] /\ net = Idle /\ pc # Down
        /\ UNCHANGED <<mem, dirty, storeV, queue, asked, worldV>>
    BY <1>2 DEF OneShotPlay, Uses
  <2>2. heap' - InHand' = heap - InHand /\ heap' \in Int
    BY <2>1 DEF InHand, Idle, TypeInv, QueueType
  <2>3. RecordStep /\ StoreType'
    BY <2>1, <2>2 DEF RecordStep, TypeInv, StoreType, storeV, Nets
  <2> QED
    BY <2>1, <2>2, <2>3, QuietSteps
<1>3. ASSUME NEW i \in Ids, PlaySceneById(i) PROVE NetStep
  <2>1. [at |-> "set", id |-> i] \in Nets /\ [at |-> "set", id |-> i].at # "layer"
    BY DEF Nets
  <2> QED
    BY <1>3, <2>1, CheckSteps DEF PlaySceneById
<1>4. ASSUME NEW c \in Contents, PlayOneShotScene(c) PROVE NetStep
  <2>1. [at |-> "inline", content |-> c] \in Nets /\ [at |-> "inline", content |-> c].at # "layer"
    BY DEF Nets
  <2> QED
    BY <1>4, <2>1, CheckSteps DEF PlayOneShotScene
<1>5. ASSUME NEW i \in Scenes, NEW c \in Contents \cup {Missing}, PutScene(i, c) PROVE NetStep
  <2>1. /\ scenes' = [scenes EXCEPT ![i] = c] /\ pc # Down
        /\ UNCHANGED <<mem, dirty, palettes, heap, queue, net, asked, worldV>>
    BY <1>5 DEF PutScene, Uses
  <2>2. RecordStep /\ StoreType'
    BY <2>1 DEF RecordStep, TypeInv, QueueType, StoreType
  <2> QED
    BY <2>1, <2>2, QuietSteps DEF InHand, TypeInv, QueueType
<1>6. ASSUME NEW p \in Palettes, PostPalette(p) \/ DeletePalette(p) PROVE NetStep
  <2>1. /\ palettes' \subseteq Palettes /\ pc # Down
        /\ UNCHANGED <<mem, dirty, scenes, heap, queue, net, asked, worldV>>
    BY <1>6 DEF PostPalette, DeletePalette, SetPalettes, Uses, TypeInv, StoreType
  <2>2. RecordStep /\ StoreType'
    BY <2>1 DEF RecordStep, TypeInv, QueueType, StoreType
  <2> QED
    BY <2>1, <2>2, QuietSteps DEF InHand, TypeInv, QueueType
<1>7. ASSUME NEW v \in Policies, NEW b \in BOOLEAN, PatchConfiguration(v, b) PROVE NetStep
  <2> DEFINE byte == v % 256
             ok   == byte <= LastState
  <2>1. byte \in Nat
    BY ControllerAssumption
  <2>2. /\ mem' = [mem EXCEPT !.boot = IF ok THEN byte ELSE @]
        /\ dirty' = MarkIf("boot", mem' # mem)
        /\ net' = (IF ok /\ b THEN [at |-> "root"] ELSE Idle) /\ net = Idle /\ pc # Down
        /\ UNCHANGED <<storeV, heap, queue, asked, worldV>>
    BY <1>7 DEF PatchConfiguration, Uses
  <2> HIDE DEF byte, ok
  <2>3. mem' \in Records /\ \A f \in {"isOn", "level", "palette", "root"} : mem'[f] = mem[f]
    BY <2>1, <2>2 DEF TypeInv, Records
  <2>4. dirty' \in Marks /\ dirty'.look = dirty.look /\ dirty'.state = dirty.state
    BY <2>2 DEF MarkIf, TypeInv, Marks
  <2>5. RecordStep /\ StoreType'
    BY <2>2, <2>3, <2>4 DEF RecordStep, TypeInv, QueueType, StoreType, storeV, Nets, Idle
  <2>6. InHand = 0 /\ InHand' = 0
    BY <2>2 DEF InHand, Idle
  <2> QED
    BY <2>2, <2>5, <2>6, QuietSteps DEF TypeInv, QueueType
<1> QED
  BY <1>1, <1>2, <1>3, <1>4, <1>5, <1>6, <1>7 DEF DeleteScene, PostCreateScene, PatchUpdateScene

\* The handlers that go on with a request they have checked.
LEMMA HandleSteps == ASSUME TypeInv, Handle \/ ClientLeaves PROVE NetStep
<1>1. CASE StoreInline
  <2>1. /\ pc # Down /\ net.at = "inline" /\ net.content \in Contents
        /\ scenes' = [scenes EXCEPT ![OneShot] = net.content]
        /\ net' = [at |-> "set", id |-> OneShot] /\ OneShot \in Ids
        /\ UNCHANGED <<mem, dirty, palettes, heap, queue, asked, worldV>>
    BY <1>1 DEF StoreInline, TypeInv, QueueType, Nets, Ids
  <2>2. RecordStep /\ StoreType'
    BY <2>1 DEF RecordStep, TypeInv, QueueType, StoreType, Nets
  <2> QED
    BY <2>1, <2>2, QuietSteps DEF InHand, TypeInv, QueueType
<1>2. CASE SetLastPlayed
  <2>1. /\ pc # Down /\ net.at = "set" /\ net.id \in Ids
        /\ mem' = [mem EXCEPT !.last = net.id, !.stored = net.id \in Scenes]
        /\ dirty' = [dirty EXCEPT !["state"] = @ \/ mem' # mem]
        /\ net' = [at |-> "post", id |-> net.id]
        /\ UNCHANGED <<storeV, heap, queue, asked, worldV>>
    BY <1>2 DEF SetLastPlayed, WithLast, MarkIf, TypeInv, QueueType, Nets
  <2>2. mem' \in Records /\ \A f \in {"isOn", "level", "palette", "root"} : mem'[f] = mem[f]
    <3>1. (net.id \in Scenes) \in BOOLEAN
      OBVIOUS
    <3> QED
      BY <2>1, <3>1 DEF TypeInv, Records
  <2>3. dirty' \in Marks /\ dirty'.look = dirty.look /\ (dirty.state => dirty'.state)
    <3>1. (dirty.state \/ mem' # mem) \in BOOLEAN
      OBVIOUS
    <3> QED
      BY <2>1, <3>1 DEF TypeInv, Marks
  <2>4. RecordStep /\ StoreType'
    BY <2>1, <2>2, <2>3 DEF RecordStep, TypeInv, QueueType, StoreType, storeV, Nets
  <2> QED
    BY <2>1, <2>4, QuietSteps DEF InHand, TypeInv, QueueType
\* What is in hand goes into the queue, if there is room.
<1>3. ASSUME NEW t \in Tasks, t.fn \notin {"power", "look", "mqttLevel"},
             pc # Down, Push(t), net' = Idle, UNCHANGED <<mem, dirty, storeV, asked, worldV>>,
             heap' \in Int,
             t.fn = "layer" /\ ~Full => heap' = heap - InHand + 1,
             t.fn # "layer" \/ Full => heap' = heap - InHand
      PROVE  NetStep
  <2>1. RecordStep /\ StoreType' /\ InHand' = 0 /\ InHand \in {0, 1} /\ heap \in Int
    BY <1>3 DEF RecordStep, TypeInv, QueueType, StoreType, storeV, Nets, Idle, InHand
  <2>2. CASE Full
    BY <1>3, <2>1, <2>2, QuietSteps DEF Push
  <2>3. CASE ~Full
    <3>1. asked' = [isOn |-> asked.isOn, level |-> asked.level]
      BY <1>3 DEF TypeInv, QueueType
    <3>2. Len(queue) < QueueSlots
      BY <2>3, ControllerAssumption DEF Full, TypeInv, QueueType
    <3>3. heap' - InHand' = heap - InHand + (IF t.fn = "layer" THEN 1 ELSE 0)
      <4>1. heap' \in Int /\ InHand' = 0 /\ InHand \in {0, 1} /\ heap \in Int
        BY <1>3, <2>1
      <4>2. CASE t.fn = "layer"
        BY <1>3, <2>3, <4>1, <4>2
      <4>3. CASE t.fn # "layer"
        <5>1. heap' = heap - InHand
          BY <1>3, <4>3
        <5>2. heap - InHand \in Int
          BY <4>1
        <5> QED
          BY <4>1, <4>3, <5>1, <5>2
      <4> QED
        BY <4>2, <4>3
    <3>4. Pushed(t)
      BY <1>3, <2>3, <3>1, <3>2, <3>3 DEF Pushed, Push, SetsLevel
    <3> QED
      BY <2>1, <3>4 DEF NetStep, QueueStep
  <2> QED
    BY <2>2, <2>3
<1>4. CASE DeferPlayById
  <2>1. Task("play", net.id) \in Tasks /\ Task("play", net.id).fn = "play" /\ InHand = 0
    BY <1>4 DEF DeferPlayById, TypeInv, QueueType, Nets, Task, Tasks, InHand
  <2>2. /\ pc # Down /\ Push(Task("play", net.id)) /\ net' = Idle /\ heap' = heap /\ heap \in Int
        /\ UNCHANGED <<mem, dirty, storeV, asked, worldV>>
    BY <1>4 DEF DeferPlayById, TypeInv, QueueType
  <2> QED
    BY <1>3, <2>1, <2>2
<1>5. CASE HandOverLayer
  <2>1. /\ pc # Down /\ net' = Idle /\ InHand = 1 /\ heap \in Int
        /\ UNCHANGED <<mem, dirty, storeV, asked, worldV>>
    BY <1>5 DEF HandOverLayer, InHand, TypeInv, QueueType
  <2>2. CASE queue' = queue /\ heap' = heap - 1
    <3>1. RecordStep /\ StoreType' /\ InHand' = 0
      BY <2>1, <2>2 DEF RecordStep, TypeInv, StoreType, storeV, Nets, Idle, InHand
    <3> QED
      BY <2>1, <2>2, <3>1, QuietSteps
  <2>3. CASE Push(Task("layer", "")) /\ heap' = IF Full THEN heap - 1 ELSE heap
    <3>1. Task("layer", "") \in Tasks /\ Task("layer", "").fn = "layer"
      BY DEF Task, Tasks
    <3>2. /\ heap' \in Int
          /\ Full => heap' = heap - InHand
          /\ ~Full => heap' = heap - InHand + 1
      <4>1. /\ heap \in Int /\ InHand = 1
            /\ heap' = IF Full THEN heap - 1 ELSE heap
        BY <2>1, <2>3
      <4>2. heap - 1 \in Int /\ heap - 1 + 1 = heap
        BY <4>1
      <4> QED
        BY <4>1, <4>2
    <3> QED
      BY <1>3, <2>1, <2>3, <3>1, <3>2
  <2> QED
    BY <1>5, <2>2, <2>3 DEF HandOverLayer
<1>6. ASSUME NEW r \in {1, 2}, DeferRoot(r) PROVE NetStep
  <2>1. Task("root", r) \in Tasks /\ Task("root", r).fn = "root" /\ InHand = 0
    BY <1>6 DEF DeferRoot, Task, Tasks, InHand
  <2>2. /\ pc # Down /\ Push(Task("root", r)) /\ net' = Idle /\ heap' = heap /\ heap \in Int
        /\ UNCHANGED <<mem, dirty, storeV, asked, worldV>>
    BY <1>6 DEF DeferRoot, TypeInv, QueueType
  <2> QED
    BY <1>3, <2>1, <2>2
<1>7. CASE ClientLeaves
  <2>1. QueueStep
    BY <1>7 DEF ClientLeaves, QueueStep
  <2> QED
    BY <1>7, <2>1 DEF ClientLeaves, NetStep, RecordStep, TypeInv, QueueType, StoreType, storeV
<1> QED
  BY <1>1, <1>2, <1>4, <1>5, <1>6, <1>7 DEF Handle

\* Every step of the network task.
LEMMA NetSteps == ASSUME TypeInv, Handle \/ Request \/ ClientLeaves PROVE NetStep
  BY HandleSteps, PostRequests, OtherRequests DEF Request

-----------------------------------------------------------------------------
(* Steps of the main loop.                                                  *)

\* What running the task t does: the power and the brightness are what it says, and
\* what has changed is marked.
TaskStep(t) ==
    /\ mem'.isOn = (IF t.fn = "power" THEN t.arg ELSE mem.isOn)
    /\ mem'.level = (IF SetsLevel(t) THEN ValueOf(t) ELSE mem.level)
    /\ (panels.level = mem.level => panels'.level = mem'.level)
    /\ (~dirty'.look => ~dirty.look /\ mem'.level = mem.level /\ mem'.palette = mem.palette)
    /\ (~dirty'.state => ~dirty.state /\ mem'.isOn = mem.isOn)
    /\ \A f \in {"isOn", "level", "palette"} : disk'[f] = disk[f]
    /\ heap' = heap - (IF t.fn = "layer" THEN 1 ELSE 0)
    /\ UNCHANGED <<net, asked, pc, snap, told, lost, storeV>>
    /\ mem' \in Records /\ disk' \in Records /\ dirty' \in Marks
    /\ player' \in Players /\ panels' \in Looks

\* armScene() leaves the brightness alone.
LEMMA Armed ==
    ASSUME TypeInv, NEW c \in Contents \cup {Nothing, Layer, Mixed}, NEW p \in Playable,
           NEW s \in Speeds, NEW own \in BOOLEAN, Arm(c, p, s, own)
    PROVE  player' \in Players /\ panels' \in Looks /\ panels'.level = panels.level
<1>1. (IF p = "own" \/ Usable(p) THEN p ELSE UserColors) \in Playable
  BY DEF Playable, PaletteNames
<1> QED
  BY <1>1 DEF Arm, Players, Looks, TypeInv, LoopType

\* resume() leaves it alone or refreshes it (ControllerActions::applyPowerEffects).
LEMMA Resumed ==
    ASSUME TypeInv, Resume
    PROVE  /\ player' \in Players /\ panels' \in Looks
           /\ panels'.level \in {panels.level, mem.level}
<1>1. CASE player.content = Nothing
  <2>1. (IF Usable(mem.palette) THEN mem.palette ELSE UserColors) \in Playable
    BY DEF TypeInv, Records, Playable, PaletteNames
  <2> QED
    BY <1>1, <2>1 DEF Resume, Looks, TypeInv, LoopType, Records
<1>2. CASE player.content # Nothing
  <2>1. Arm(player.content, player.palette, player.speed, player.own)
    BY <1>2 DEF Resume
  <2>2. /\ player.content \in Contents \cup {Nothing, Layer, Mixed} /\ player.palette \in Playable
        /\ player.speed \in Speeds /\ player.own \in BOOLEAN
    BY DEF TypeInv, LoopType, Players
  <2> QED
    BY <2>1, <2>2, Armed
<1> QED
  BY <1>1, <1>2

\* playSceneById() plays the record it finds, or stops.
LEMMA PlayedStored ==
    ASSUME TypeInv, NEW i \in Ids, PlayStored(i)
    PROVE  player' \in Players /\ panels' \in Looks /\ panels'.level = panels.level
<1>1. CASE scenes[i] = Missing
  BY <1>1 DEF PlayStored, Stopped, Players, TypeInv, LoopType
<1>2. CASE scenes[i] # Missing
  <2>1. scenes[i] \in Contents /\ scenes[i] \in Contents \cup {Nothing, Layer, Mixed}
    BY <1>2 DEF TypeInv, StoreType
  <2>2. /\ PaletteFor(scenes[i]) \in Playable /\ 1 \in Speeds
        /\ (scenes[i] = "own") \in BOOLEAN
    BY ControllerAssumption DEF PaletteFor, TypeInv, Records, Playable, PaletteNames
  <2>3. Arm(scenes[i], PaletteFor(scenes[i]), 1, scenes[i] = "own")
    BY <1>2 DEF PlayStored
  <2> QED
    BY <2>1, <2>2, <2>3, Armed
<1> QED
  BY <1>1, <1>2

\* A mark that is set when the record changes.
LEMMA Marked ==
    ASSUME TypeInv, NEW f \in {"state", "boot", "look"}, NEW b \in BOOLEAN, dirty' = MarkIf(f, b)
    PROVE  /\ dirty' \in Marks /\ dirty'[f] = (dirty[f] \/ b)
           /\ \A g \in {"state", "boot", "look"} : g # f => dirty'[g] = dirty[g]
<1>1. (dirty[f] \/ b) \in BOOLEAN
  OBVIOUS
<1> QED
  BY <1>1 DEF MarkIf, Marks, TypeInv

\* setLastPlayedSceneId() leaves what is not the last scene alone.
LEMMA LastSet ==
    ASSUME NEW r \in Records, NEW i \in Ids
    PROVE  LET s == [r EXCEPT !.last = i, !.stored = i \in Scenes]
           IN  s \in Records /\ s.isOn = r.isOn /\ s.level = r.level /\ s.palette = r.palette
<1>1. (i \in Scenes) \in BOOLEAN
  OBVIOUS
<1> QED
  BY <1>1 DEF Records

\* The tasks that change neither the power nor the brightness, nor any mark but when
\* the record of the last scene changes.
LEMMA CalmTasks ==
    ASSUME TypeInv, NEW t \in Tasks, t = Head(queue),
           \/ RunPlay(t) \/ ReadFails(t) \/ RunLayer(t) \/ RunStop(t) \/ RunSpeed(t)
           \/ RunMqttScene(t) \/ RunPanel(t) \/ RunOther(t)
    PROVE  TaskStep(t)
<1>1. /\ UNCHANGED <<disk, net, asked, pc, snap, told, lost, storeV>>
      /\ t.fn # "power" /\ ~SetsLevel(t)
  BY DEF RunPlay, ReadFails, RunLayer, RunStop, RunSpeed, RunMqttScene, RunPanel, RunOther,
     taskV, SetsLevel, storeV
<1>2. mem \in Records /\ disk \in Records /\ dirty \in Marks /\ player \in Players /\ panels \in Looks
      /\ heap \in Int
  BY DEF TypeInv, LoopType, QueueType
<1>3. ASSUME UNCHANGED <<mem, dirty>>, player' \in Players, panels' \in Looks,
             panels'.level = panels.level,
             heap' = heap - (IF t.fn = "layer" THEN 1 ELSE 0)
      PROVE  TaskStep(t)
  BY <1>1, <1>2, <1>3 DEF TaskStep
<1>4. ASSUME mem' = WithLast(t.arg), t.arg \in Ids, dirty' = MarkIf("state", mem' # mem),
             player' \in Players, panels' \in Looks, panels'.level = panels.level,
             heap' = heap, t.fn # "layer"
      PROVE  TaskStep(t)
  <2>1. /\ mem' \in Records /\ mem'.isOn = mem.isOn /\ mem'.level = mem.level
        /\ mem'.palette = mem.palette
    <3> DEFINE r == [mem EXCEPT !.last = t.arg, !.stored = t.arg \in Scenes]
    <3>1. /\ r \in Records /\ r.isOn = mem.isOn /\ r.level = mem.level
          /\ r.palette = mem.palette
      BY <1>2, <1>4, LastSet
    <3>2. mem' = r
      BY <1>4 DEF WithLast
    <3> QED
      BY <3>1, <3>2
  <2>2. dirty' \in Marks /\ dirty'.look = dirty.look /\ (dirty.state => dirty'.state)
    <3>1. (mem' # mem) \in BOOLEAN
      OBVIOUS
    <3>2. /\ dirty' \in Marks /\ dirty'["state"] = (dirty["state"] \/ mem' # mem)
          /\ dirty'["look"] = dirty["look"]
      BY <1>4, <3>1, Marked
    <3> QED
      BY <3>2
  <2> QED
    BY <1>1, <1>2, <1>4, <2>1, <2>2 DEF TaskStep
<1>5. CASE RunPlay(t)
  <2>1. t.arg \in Ids /\ UNCHANGED <<mem, dirty, heap>> /\ PlayStored(t.arg) /\ t.fn = "play"
    BY <1>5, TaskArgs DEF RunPlay
  <2> QED
    BY <1>2, <1>3, <2>1, PlayedStored
<1>6. CASE ReadFails(t)
  <2>1. /\ t.arg \in Ids /\ t.fn \in {"play", "mqttScene"} /\ UNCHANGED <<panels, heap>>
        /\ player' = [player EXCEPT !.playing = FALSE,
                                    !.content = IF @ = Nothing THEN Nothing ELSE Mixed]
        /\ dirty' = MarkIf("state", mem' # mem)
        /\ mem' = IF t.fn = "mqttScene" THEN WithLast(t.arg) ELSE mem
    BY <1>6, TaskArgs DEF ReadFails, Ids
  <2>2. player' \in Players
    BY <1>2, <2>1 DEF Players
  <2>3. CASE t.fn = "mqttScene"
    BY <1>2, <1>4, <2>1, <2>2, <2>3
  <2>4. CASE t.fn # "mqttScene"
    <3>1. mem' = mem /\ dirty' = dirty
      BY <1>2, <2>1, <2>4 DEF MarkIf, Marks
    <3> QED
      BY <1>2, <1>3, <2>1, <2>2, <3>1
  <2> QED
    BY <2>3, <2>4
<1>7. CASE RunLayer(t)
  <2>1. /\ UNCHANGED <<mem, dirty>> /\ heap' = heap - 1 /\ t.fn = "layer"
        /\ Arm(Layer, mem.palette, 1, player.own)
    BY <1>7 DEF RunLayer
  <2>2. mem.palette \in Playable /\ 1 \in Speeds /\ player.own \in BOOLEAN
    BY <1>2, ControllerAssumption DEF Records, Playable, Players
  <2>3. player' \in Players /\ panels' \in Looks /\ panels'.level = panels.level
    BY <2>1, <2>2, Armed
  <2> QED
    BY <1>3, <2>1, <2>3
<1>8. CASE RunStop(t) \/ RunSpeed(t) \/ RunPanel(t) \/ RunOther(t)
  <2>1. /\ UNCHANGED <<mem, dirty>> /\ heap' = heap /\ t.fn # "layer"
        /\ player' \in Players /\ panels' \in Looks /\ panels'.level = panels.level
    BY <1>2, <1>8, TaskArgs DEF RunStop, RunSpeed, RunPanel, RunOther, Stopped, Players, Looks
  <2> QED
    BY <1>2, <1>3, <2>1
<1>9. CASE RunMqttScene(t)
  <2>1. t.arg \in Ids /\ t.fn = "mqttScene" /\ UNCHANGED heap
    BY <1>9, TaskArgs DEF RunMqttScene, Ids
  <2>2. CASE mem.isOn /\ scenes[t.arg] # Missing
    <3>1. /\ mem' = WithLast(t.arg) /\ dirty' = MarkIf("state", mem' # mem)
          /\ PlayStored(t.arg)
      BY <1>9, <2>2 DEF RunMqttScene
    <3>2. player' \in Players /\ panels' \in Looks /\ panels'.level = panels.level
      BY <2>1, <3>1, PlayedStored
    <3> QED
      BY <1>4, <2>1, <3>1, <3>2
  <2>3. CASE ~(mem.isOn /\ scenes[t.arg] # Missing)
    <3>1. UNCHANGED <<mem, dirty, player, panels>>
      BY <1>9, <2>3 DEF RunMqttScene
    <3> QED
      BY <1>2, <1>3, <2>1, <3>1
  <2> QED
    BY <2>2, <2>3
<1> QED
  BY <1>5, <1>6, <1>7, <1>8, <1>9

\* The tasks that do: power, appearance, the MQTT brightness and the root.
LEMMA SettingTasks ==
    ASSUME TypeInv, NEW t \in Tasks,
           RunPower(t) \/ RunLook(t) \/ RunMqttLevel(t) \/ RunRoot(t)
    PROVE  TaskStep(t)
<1>1. /\ UNCHANGED <<net, asked, pc, snap, told, lost, storeV, heap>> /\ t.fn # "layer"
  BY DEF RunPower, RunLook, RunMqttLevel, RunRoot, taskV, storeV
<1>2. mem \in Records /\ disk \in Records /\ dirty \in Marks /\ player \in Players /\ panels \in Looks
      /\ heap \in Int /\ palettes \subseteq Palettes
  BY DEF TypeInv, LoopType, QueueType, StoreType
<1>3. CASE RunPower(t)
  <2>1. /\ t.arg \in BOOLEAN /\ t.fn = "power" /\ ~SetsLevel(t) /\ disk' = disk
        /\ mem' = [mem EXCEPT !.isOn = t.arg]
        /\ dirty' = MarkIf("state", mem.isOn # t.arg)
    BY <1>3, TaskArgs DEF RunPower, SetsLevel, taskV
  <2>2. /\ mem' \in Records /\ mem'.isOn = t.arg /\ mem'.level = mem.level
        /\ mem'.palette = mem.palette
    BY <1>2, <2>1 DEF Records
  <2>3. /\ dirty' \in Marks /\ dirty'.look = dirty.look
        /\ (~dirty'.state => ~dirty.state /\ mem'.isOn = mem.isOn)
    <3>1. (mem.isOn # t.arg) \in BOOLEAN
      OBVIOUS
    <3>2. /\ dirty' \in Marks /\ dirty'["state"] = (dirty["state"] \/ mem.isOn # t.arg)
          /\ dirty'["look"] = dirty["look"]
      BY <2>1, <3>1, Marked
    <3> QED
      BY <2>2, <3>2
  <2>4. /\ player' \in Players /\ panels' \in Looks
        /\ (panels.level = mem.level => panels'.level = mem.level)
    <3>1. CASE mem.isOn = t.arg
      BY <1>2, <1>3, <3>1 DEF RunPower
    <3>2. CASE mem.isOn # t.arg /\ t.arg
      <4>1. Resume
        BY <1>3, <3>2 DEF RunPower
      <4> QED
        BY <4>1, Resumed
    <3>3. CASE mem.isOn # t.arg /\ ~t.arg
      BY <1>2, <1>3, <3>3 DEF RunPower, Stopped, Players, Looks
    <3> QED
      BY <3>1, <3>2, <3>3
  <2> QED
    BY <1>1, <1>2, <2>1, <2>2, <2>3, <2>4 DEF TaskStep
<1>4. CASE RunLook(t)
  <2> DEFINE level   == IF t.arg.level = Same THEN mem.level ELSE t.arg.level
             known   == t.arg.palette # Same /\ Usable(t.arg.palette)
             palette == IF known THEN t.arg.palette ELSE mem.palette
  <2>1. /\ t.fn = "look" /\ disk' = disk
        /\ mem' = [mem EXCEPT !.level = level, !.palette = palette]
        /\ dirty' = MarkIf("look", t.arg.level # Same \/ known)
        /\ panels' = [panels EXCEPT !.level = level,
                                    !.palette = IF known THEN palette ELSE @]
        /\ FollowLook(palette)
    BY <1>4 DEF RunLook, taskV
  <2>2. level \in Levels /\ palette \in PaletteNames
    BY <1>2, <2>1, TaskArgs, UsableNames DEF Records
  <2>3. /\ level = (IF SetsLevel(t) THEN ValueOf(t) ELSE mem.level)
        /\ (t.arg.level = Same => level = mem.level) /\ (~known => palette = mem.palette)
    BY <2>1 DEF SetsLevel, ValueOf
  <2>4. known \in BOOLEAN /\ (t.arg.level # Same \/ known) \in BOOLEAN
    OBVIOUS
  <2> HIDE DEF level, known, palette
  <2>5. /\ mem' \in Records /\ mem'.isOn = mem.isOn /\ mem'.level = level
        /\ mem'.palette = palette
    BY <1>2, <2>1, <2>2 DEF Records
  <2>6. /\ dirty' \in Marks /\ dirty'["look"] = (dirty["look"] \/ (t.arg.level # Same \/ known))
        /\ dirty'["state"] = dirty["state"]
    BY <2>1, <2>4, Marked
  <2>9. /\ dirty' \in Marks /\ (dirty.state <=> dirty'.state)
        /\ (~dirty'.look => ~dirty.look /\ t.arg.level = Same /\ ~known)
    BY <2>6
  <2>7. panels' \in Looks /\ panels'.level = level
    BY <1>2, <2>1, <2>2 DEF Looks, Playable
  <2>8. player' \in Players
    BY <1>2, <2>1, <2>2 DEF FollowLook, Players, Playable
  <2> QED
    BY <1>1, <1>2, <2>1, <2>3, <2>5, <2>7, <2>8, <2>9 DEF TaskStep
<1>5. CASE RunMqttLevel(t)
  <2>1. /\ t.fn = "mqttLevel" /\ t.arg \in Levels /\ disk' = disk
        /\ SetsLevel(t) /\ ValueOf(t) = t.arg
        /\ mem' = [mem EXCEPT !.level = t.arg] /\ dirty' = MarkIf("look", TRUE)
        /\ panels' = [panels EXCEPT !.level = t.arg] /\ FollowLook(mem.palette)
    BY <1>5, TaskArgs DEF RunMqttLevel, SetsLevel, ValueOf, taskV
  <2>2. mem' \in Records /\ mem'.isOn = mem.isOn /\ mem'.level = t.arg
    BY <1>2, <2>1 DEF Records
  <2>3. dirty' \in Marks /\ dirty'["look"] = (dirty["look"] \/ TRUE) /\ dirty'["state"] = dirty["state"]
    BY <2>1, Marked
  <2>6. dirty' \in Marks /\ dirty'.look /\ (dirty.state <=> dirty'.state)
    BY <2>3
  <2>4. panels' \in Looks /\ panels'.level = t.arg
    BY <1>2, <2>1 DEF Looks
  <2>5. player' \in Players
    BY <1>2, <2>1 DEF FollowLook, Players, Playable, Records
  <2> QED
    <3>1. mem'.level = (IF SetsLevel(t) THEN ValueOf(t) ELSE mem.level) /\ panels'.level = mem'.level
      BY <2>1, <2>2, <2>4
    <3>2. mem'.isOn = (IF t.fn = "power" THEN t.arg ELSE mem.isOn)
      BY <2>1, <2>2
    <3>3. /\ ~dirty'.look => ~dirty.look /\ mem'.level = mem.level /\ mem'.palette = mem.palette
          /\ ~dirty'.state => ~dirty.state /\ mem'.isOn = mem.isOn
      BY <2>2, <2>6
    <3>4. heap' = heap - (IF t.fn = "layer" THEN 1 ELSE 0)
      BY <1>1, <1>2
    <3> QED
      BY <1>1, <1>2, <2>1, <2>2, <2>4, <2>5, <2>6, <3>1, <3>2, <3>3, <3>4 DEF TaskStep
<1>6. CASE RunRoot(t)
  <2>1. /\ t.fn = "root" /\ t.arg \in {1, 2} /\ ~SetsLevel(t) /\ dirty' = dirty
        /\ mem' = [mem EXCEPT !.root = t.arg] /\ disk' = [disk EXCEPT !.root = t.arg]
        /\ IF player.playing THEN Resume ELSE UNCHANGED <<player, panels>>
    BY <1>6, TaskArgs DEF RunRoot, SetsLevel
  <2>2. /\ mem' \in Records /\ mem'.isOn = mem.isOn /\ mem'.level = mem.level
        /\ mem'.palette = mem.palette
    BY <1>2, <2>1 DEF Records
  <2>3. /\ disk' \in Records /\ disk'.isOn = disk.isOn /\ disk'.level = disk.level
        /\ disk'.palette = disk.palette
    BY <1>2, <2>1 DEF Records
  <2>4. /\ player' \in Players /\ panels' \in Looks
        /\ (panels.level = mem.level => panels'.level = mem.level)
    <3>1. CASE player.playing
      BY <2>1, <3>1, Resumed
    <3>2. CASE ~player.playing
      BY <1>2, <2>1, <3>2
    <3> QED
      BY <3>1, <3>2
  <2> QED
    BY <1>1, <1>2, <2>1, <2>2, <2>3, <2>4 DEF TaskStep
<1> QED
  BY <1>3, <1>4, <1>5, <1>6

\* Draining the queue runs its first task.
LEMMA DrainSteps ==
    ASSUME TypeInv, Drain
    PROVE  /\ queue # <<>> /\ queue' = Tail(queue) /\ Head(queue) \in Tasks
           /\ TaskStep(Head(queue)) /\ pc = "drain"
<1>1. queue # <<>> /\ queue' = Tail(queue) /\ Head(queue) \in Tasks /\ pc = "drain"
  BY Queued DEF Drain, Pop, TypeInv, QueueType
<1> QED
  BY <1>1, CalmTasks, SettingTasks DEF Drain

-----------------------------------------------------------------------------
(* What a queue promises, and the layers in it, when a task comes or goes.  *)

LEMMA Appended ==
    ASSUME NEW q \in Seq(Tasks), NEW t \in Tasks
    PROVE  /\ Append(q, t) \in Seq(Tasks) /\ Len(Append(q, t)) = Len(q) + 1 /\ Len(q) \in Nat
           /\ Append(q, t)[Len(q) + 1] = t
           /\ \A k \in 1 .. Len(q) : Append(q, t)[k] = q[k]
           /\ DOMAIN q = 1 .. Len(q) /\ DOMAIN Append(q, t) = 1 .. Len(q) + 1
  OBVIOUS

\* A task pushed is the last one: what it sets is what will come.
LEMMA TaskPushed ==
    ASSUME NEW S, NEW q \in Seq(Tasks), NEW t \in Tasks, NEW now, NEW wanted,
           Comes(S, q, now, wanted)
    PROVE  Comes(S, Append(q, t), now, IF t \in S THEN ValueOf(t) ELSE wanted)
<1> DEFINE r == Append(q, t)
           n == Len(q)
<1>1. /\ n \in Nat /\ DOMAIN q = 1 .. n /\ DOMAIN r = 1 .. n + 1 /\ Len(r) = n + 1
      /\ r[n + 1] = t /\ \A k \in 1 .. n : r[k] = q[k]
  BY Appended
<1> HIDE DEF r, n
<1>2. \A k \in 1 .. n + 1 : k = n + 1 \/ k \in 1 .. n
  BY <1>1
<1>3. CASE t \in S
  <2>1. ASSUME NEW k \in 1 .. n, \A j \in k + 1 .. n + 1 : r[j] \notin S PROVE FALSE
    <3>1. n + 1 \in k + 1 .. n + 1
      BY <1>1
    <3> QED
      BY <1>1, <1>3, <2>1, <3>1
  <2> QED
    BY <1>1, <1>2, <1>3, <2>1 DEF Comes, r
<1>4. CASE t \notin S
  <2>1. ASSUME NEW k \in 1 .. n, r[k] \in S, \A j \in k + 1 .. n + 1 : r[j] \notin S
        PROVE  ValueOf(r[k]) = wanted
    <3>1. \A j \in k + 1 .. n : j \in 1 .. n /\ j \in k + 1 .. n + 1
      BY <1>1
    <3>2. \A j \in k + 1 .. n : q[j] \notin S
      BY <1>1, <2>1, <3>1
    <3>3. q[k] \in S /\ k \in DOMAIN q /\ n = Len(q)
      BY <1>1, <2>1 DEF n
    <3> QED
      BY <1>1, <3>2, <3>3 DEF Comes
  <2>2. (\A k \in 1 .. n + 1 : r[k] \notin S) => now = wanted
    <3>1. \A k \in 1 .. n : k \in 1 .. n + 1
      BY <1>1
    <3> QED
      BY <1>1, <3>1 DEF Comes
  <2> QED
    BY <1>1, <1>2, <1>4, <2>1, <2>2 DEF Comes, r
<1> QED
  BY <1>3, <1>4

\* Running the first task makes what it sets what is so.
LEMMA TaskPopped ==
    ASSUME NEW S, NEW q \in Seq(Tasks), q # <<>>, NEW now, NEW wanted, Comes(S, q, now, wanted)
    PROVE  Comes(S, Tail(q), IF Head(q) \in S THEN ValueOf(Head(q)) ELSE now, wanted)
<1> DEFINE r == Tail(q)
           n == Len(q) - 1
<1>1. /\ n \in Nat /\ Len(q) = n + 1 /\ Len(r) = n /\ DOMAIN r = 1 .. n /\ DOMAIN q = 1 .. n + 1
      /\ Head(q) = q[1] /\ \A k \in 1 .. n : r[k] = q[k + 1]
  BY Queued
<1> HIDE DEF r, n
<1>2. ASSUME NEW k \in 1 .. n, r[k] \in S, \A j \in k + 1 .. n : r[j] \notin S
      PROVE  ValueOf(r[k]) = wanted
  <2>1. ASSUME NEW j \in k + 1 + 1 .. n + 1 PROVE q[j] \notin S
    <3>1. j - 1 \in k + 1 .. n /\ j - 1 \in 1 .. n /\ j - 1 + 1 = j
      BY <1>1
    <3> QED
      BY <1>1, <1>2, <3>1
  <2>2. k + 1 \in DOMAIN q /\ q[k + 1] \in S
    BY <1>1, <1>2
  <2> QED
    BY <1>1, <2>1, <2>2 DEF Comes
<1>3. ASSUME \A k \in 1 .. n : r[k] \notin S
      PROVE  (IF Head(q) \in S THEN ValueOf(Head(q)) ELSE now) = wanted
  <2>1. ASSUME NEW j \in 2 .. n + 1 PROVE q[j] \notin S
    <3>1. j - 1 \in 1 .. n /\ j - 1 + 1 = j
      BY <1>1
    <3> QED
      BY <1>1, <1>3, <3>1
  <2>2. CASE q[1] \in S
    <3>1. 1 \in DOMAIN q /\ \A j \in 1 + 1 .. Len(q) : q[j] \notin S
      BY <1>1, <2>1
    <3> QED
      BY <1>1, <2>2, <3>1 DEF Comes
  <2>3. CASE q[1] \notin S
    <3>1. \A j \in 1 .. n + 1 : j = 1 \/ j \in 2 .. n + 1
      BY <1>1
    <3>2. \A j \in DOMAIN q : q[j] \notin S
      BY <1>1, <2>1, <2>3, <3>1
    <3> QED
      BY <1>1, <2>3, <3>2 DEF Comes
  <2> QED
    BY <2>2, <2>3
<1> QED
  BY <1>1, <1>2, <1>3 DEF Comes, r

\* A client that leaves changes neither what a task is nor what it sets.
LEMMA TaskGone ==
    ASSUME NEW q \in Seq(Tasks), NEW i \in DOMAIN q, q[i].fn = "panels"
    PROVE  LET r == [q EXCEPT ![i].arg = "gone"]
           IN  /\ r \in Seq(Tasks) /\ Len(r) = Len(q) /\ DOMAIN r = DOMAIN q /\ r # <<>>
               /\ \A k \in DOMAIN q : r[k].fn = q[k].fn
               /\ \A k \in DOMAIN q : r[k] = q[k] \/ k = i
               /\ r[i].fn = "panels"
<1> DEFINE t == [q[i] EXCEPT !.arg = "gone"]
           r == [q EXCEPT ![i].arg = "gone"]
<1>1. q[i] \in [fn : {"panels"}, arg : {"open", "gone"}]
  <2>1. q[i] \in Tasks
    OBVIOUS
  <2> QED
    BY <2>1 DEF Tasks
<1>2. t \in Tasks /\ t.fn = "panels"
  BY <1>1 DEF Tasks
<1>3. r = [q EXCEPT ![i] = t]
  OBVIOUS
<1> HIDE DEF t, r
<1>4. r \in Seq(Tasks) /\ Len(r) = Len(q) /\ DOMAIN r = DOMAIN q /\ r[i] = t
      /\ \A k \in DOMAIN q : k # i => r[k] = q[k]
  BY <1>2, <1>3
<1>5. r # <<>>
  BY <1>4
<1> QED
  BY <1>2, <1>4, <1>5 DEF r

LEMMA GoneComes ==
    ASSUME NEW S \in {PowerTasks, LevelTasks}, NEW q \in Seq(Tasks), NEW i \in DOMAIN q,
           q[i].fn = "panels", NEW now, NEW wanted, Comes(S, q, now, wanted)
    PROVE  Comes(S, [q EXCEPT ![i].arg = "gone"], now, wanted)
<1> DEFINE r == [q EXCEPT ![i].arg = "gone"]
<1>1. /\ r \in Seq(Tasks) /\ Len(r) = Len(q) /\ DOMAIN r = DOMAIN q
      /\ \A k \in DOMAIN q : r[k] = q[k] \/ k = i
      /\ r[i].fn = "panels"
  BY TaskGone
<1> HIDE DEF r
<1>2. r[i] \notin S /\ q[i] \notin S
  BY <1>1 DEF PowerTasks, LevelTasks, SetsLevel
<1>3. \A k \in DOMAIN q : r[k] = q[k] \/ (r[k] \notin S /\ q[k] \notin S)
  BY <1>1, <1>2
<1>4. ASSUME NEW k \in DOMAIN q PROVE \A j \in k + 1 .. Len(q) : j \in DOMAIN q
  OBVIOUS
<1>5. Comes(S, r, now, wanted)
  BY <1>1, <1>3, <1>4 DEF Comes
<1> QED
  BY <1>5 DEF r

LEMMA LayersFinite ==
    ASSUME NEW q \in Seq(Tasks)
    PROVE  IsFiniteSet(Layers(q)) /\ Cardinality(Layers(q)) \in Nat /\ Layers(q) \subseteq 1 .. Len(q)
<1>1. Layers(q) \subseteq 1 .. Len(q) /\ Len(q) \in Nat
  BY DEF Layers
<1>2. IsFiniteSet(1 .. Len(q))
  BY <1>1, FS_Interval
<1>3. IsFiniteSet(Layers(q))
  BY <1>1, <1>2, FS_Subset
<1> QED
  BY <1>1, <1>3, FS_CardinalityType

\* A layer pushed is one more (AnimationServer::handleOneShotPlay).
LEMMA LayersPushed ==
    ASSUME NEW q \in Seq(Tasks), NEW t \in Tasks
    PROVE  Cardinality(Layers(Append(q, t)))
             = Cardinality(Layers(q)) + (IF t.fn = "layer" THEN 1 ELSE 0)
<1> DEFINE n == Len(q)
           r == Append(q, t)
<1>1. /\ n \in Nat /\ DOMAIN q = 1 .. n /\ DOMAIN r = 1 .. n + 1
      /\ r[n + 1] = t /\ \A k \in 1 .. n : r[k] = q[k]
      /\ \A k \in 1 .. n + 1 : k = n + 1 \/ k \in 1 .. n
      /\ \A k \in 1 .. n : k \in 1 .. n + 1 /\ k # n + 1
  BY Appended
<1> HIDE DEF n, r
<1>2. IsFiniteSet(Layers(q)) /\ Cardinality(Layers(q)) \in Nat /\ n + 1 \notin Layers(q)
  BY <1>1, LayersFinite DEF Layers
<1>3. CASE t.fn = "layer"
  <2>1. Layers(r) = Layers(q) \cup {n + 1}
    BY <1>1, <1>3 DEF Layers
  <2>2. Cardinality(Layers(q) \cup {n + 1}) = Cardinality(Layers(q)) + 1
    BY <1>2, FS_AddElement
  <2> QED
    BY <1>3, <2>1, <2>2 DEF r
<1>4. CASE t.fn # "layer"
  <2>1. Layers(r) = Layers(q)
    BY <1>1, <1>4 DEF Layers
  <2> QED
    BY <1>2, <1>4, <2>1 DEF r
<1> QED
  BY <1>3, <1>4

\* A layer run is one less: the rest of the queue moves up (MainLoopQueue::drain).
LEMMA LayersPopped ==
    ASSUME NEW q \in Seq(Tasks), q # <<>>
    PROVE  Cardinality(Layers(Tail(q)))
             = Cardinality(Layers(q)) - (IF Head(q).fn = "layer" THEN 1 ELSE 0)
<1> DEFINE n == Len(q) - 1
           r == Tail(q)
           f == [k \in Layers(r) |-> k + 1]
<1>1. /\ n \in Nat /\ DOMAIN q = 1 .. n + 1 /\ DOMAIN r = 1 .. n /\ r \in Seq(Tasks)
      /\ Head(q) = q[1] /\ \A k \in 1 .. n : r[k] = q[k + 1]
  BY Queued
<1>2. /\ IsFiniteSet(Layers(q)) /\ Cardinality(Layers(q)) \in Nat /\ IsFiniteSet(Layers(r))
  BY <1>1, LayersFinite
<1> HIDE DEF n, r
<1>3. f \in [Layers(r) -> Layers(q) \ {1}]
  <2>1. ASSUME NEW k \in Layers(r) PROVE k + 1 \in Layers(q) \ {1}
    <3>1. k \in 1 .. n /\ r[k].fn = "layer"
      BY <1>1 DEF Layers
    <3>2. k + 1 \in 1 .. n + 1 /\ k + 1 # 1 /\ q[k + 1].fn = "layer"
      BY <1>1, <3>1
    <3> QED
      BY <1>1, <3>2 DEF Layers
  <2> QED
    BY <2>1
<1>4. \A a, b \in Layers(r) : f[a] = f[b] => a = b
  <2>1. \A a \in Layers(r) : a \in Nat
    BY <1>1 DEF Layers
  <2> QED
    BY <2>1
<1>5. \A c \in Layers(q) \ {1} : \E a \in Layers(r) : f[a] = c
  <2>1. ASSUME NEW c \in Layers(q) \ {1} PROVE c - 1 \in Layers(r) /\ f[c - 1] = c
    <3>1. c \in 1 .. n + 1 /\ c # 1 /\ q[c].fn = "layer"
      BY <1>1 DEF Layers
    <3>2. c - 1 \in 1 .. n /\ c - 1 + 1 = c
      BY <1>1, <3>1
    <3>3. r[c - 1].fn = "layer"
      BY <1>1, <3>1, <3>2
    <3> QED
      BY <1>1, <3>2, <3>3 DEF Layers
  <2> QED
    BY <2>1
<1> HIDE DEF f
<1>6. f \in Bijection(Layers(r), Layers(q) \ {1})
  BY <1>3, <1>4, <1>5 DEF Bijection, Injection, Surjection, IsInjective
<1>7. Cardinality(Layers(q) \ {1}) = Cardinality(Layers(r))
  BY <1>2, <1>6, FS_Bijection DEF ExistsBijection
<1>8. Cardinality(Layers(q) \ {1}) = IF 1 \in Layers(q) THEN Cardinality(Layers(q)) - 1
                                                        ELSE Cardinality(Layers(q))
  BY <1>2, FS_RemoveElement
<1>9. 1 \in Layers(q) <=> Head(q).fn = "layer"
  BY <1>1 DEF Layers
<1> QED
  BY <1>2, <1>7, <1>8, <1>9 DEF r

-----------------------------------------------------------------------------
(* The other steps: the stages of the loop, loss of power, start-up.        *)

\* The stages of runServices() but for the drain, with the campaign that holds them up.
Stage == Top \/ Drained \/ SceneTick \/ FlushLook \/ FlushRecords \/ NextRecord \/ Tell
         \/ Capture \/ Campaign \/ EndCampaign

\* What a stage does to the types; it leaves requests, records in memory and panels alone.
LEMMA StageSteps ==
    ASSUME TypeInv, Stage
    PROVE  /\ UNCHANGED <<mem, panels, scenes, palettes, queue, heap, net, asked>>
           /\ pc # Down /\ pc' # Down /\ TypeInv'
<1>1. /\ UNCHANGED <<mem, panels, scenes, palettes, queue, heap, net, asked>>
      /\ pc \in Stages \ {Down} /\ pc' \in Stages \ {Down}
  BY DEF Stage, Top, Drained, SceneTick, FlushLook, FlushRecords, NextRecord, Tell, Capture,
     Campaign, EndCampaign, WriteRecord, ClearRecord, SaveFails, loopV, Stages, Clear, Done, Down
<1>2. mem \in Records /\ disk \in Records /\ dirty \in Marks /\ player \in Players
  BY DEF TypeInv, LoopType
<1>3. disk' \in Records /\ dirty' \in Marks
  <2>1. \A F \in {LookFields, BootFields, StateFields} : Save(F) \in Records
    BY <1>2 DEF Save, LookFields, BootFields, StateFields, Records
  <2>2. \A f \in {"boot", "state", "look"} : [dirty EXCEPT ![f] = FALSE] \in Marks
    BY <1>2 DEF Marks
  <2> QED
    BY <1>2, <2>1, <2>2 DEF Stage, Top, Drained, SceneTick, FlushLook, FlushRecords, NextRecord,
       Tell, Capture, Campaign, EndCampaign, WriteRecord, ClearRecord, SaveFails
<1>4. player' \in Players
  <2>1. Stopped(player) \in Players
    BY <1>2 DEF Stopped, Players
  <2> QED
    BY <1>2, <2>1 DEF Stage, Top, Drained, SceneTick, FlushLook, FlushRecords, NextRecord, Tell,
       Capture, Campaign, EndCampaign, WriteRecord, ClearRecord, SaveFails
<1>5. snap' \in Views \cup {NoView} /\ told' \in Views \cup {NoView}
      /\ lost' \subseteq {"boot", "state", "look", "tell"}
  <2>1. View \in Views
    BY <1>2 DEF View, Views, Records, Players
  <2> QED
    BY <2>1 DEF Stage, Top, Drained, SceneTick, FlushLook, FlushRecords, NextRecord, Tell,
       Capture, Campaign, EndCampaign, WriteRecord, ClearRecord, SaveFails, TypeInv, LoopType
<1> QED
  BY <1>1, <1>3, <1>4, <1>5 DEF TypeInv, StoreType, LoopType, QueueType

\* Power fails, the controller is updated, or a dangling request is written into.
LEMMA DownSteps ==
    ASSUME TypeInv, PowerCut \/ RunDangling \/ ControllerUpdate
    PROVE  LoseMemory /\ TypeInv'
<1>1. LoseMemory
  BY DEF PowerCut, RunDangling, ControllerUpdate
<1>2. mem \in Records /\ disk \in Records
  BY DEF TypeInv
<1>3. disk' \in Records
  <2>1. CASE PowerCut
    BY <1>2, <2>1 DEF PowerCut, Records
  <2>2. CASE RunDangling
    BY <1>2, <2>2 DEF RunDangling
  <2>3. CASE ControllerUpdate
    <3>1. PICK F : disk' = Save(F)
      BY <2>3 DEF ControllerUpdate
    <3> QED
      BY <1>2, <3>1 DEF Save, Records
  <2> QED
    BY <2>1, <2>2, <2>3
<1>4. NoPlayer \in Players /\ Idle \in Nets /\ <<>> \in Seq(Tasks) /\ Len(<<>>) <= QueueSlots
  BY ControllerAssumption DEF NoPlayer, Players, Idle, Nets, Playable, PaletteNames
<1> QED
  BY <1>1, <1>3, <1>4 DEF LoseMemory, TypeInv, StoreType, LoopType, QueueType, Stages

\* Start-up reads the records and derives the power from the policy.
LEMMA BootSteps ==
    ASSUME TypeInv, Boot
    PROVE  /\ TypeInv' /\ UNCHANGED <<queue, heap, net, disk>> /\ lost' = {} /\ pc = Down /\ pc' = "top"
           /\ snap' = NoView
           /\ asked'.isOn = mem'.isOn /\ asked'.level = mem'.level /\ panels'.level = mem'.level
           /\ disk'.level = mem'.level /\ disk'.palette = mem'.palette
           /\ (~dirty'.state => disk'.isOn = mem'.isOn)
<1>1. /\ pc = Down /\ UNCHANGED <<disk, scenes, palettes, player, queue, heap, net, told>> /\ lost' = {}
      /\ mem' = [disk EXCEPT !.isOn = BootPower(disk)]
      /\ dirty' = [state |-> BootPower(disk) # disk.isOn, boot |-> FALSE, look |-> FALSE]
      /\ asked' = [isOn |-> BootPower(disk), level |-> disk.level]
      /\ panels' = SelfTest(disk) /\ pc' = "top" /\ snap' = NoView
  BY DEF Boot, Start
<1>2. disk \in Records /\ palettes \subseteq Palettes
  BY DEF TypeInv, StoreType
<1>3. BootPower(disk) \in BOOLEAN /\ (BootPower(disk) # disk.isOn) \in BOOLEAN
  BY <1>2 DEF BootPower, Records
<1>4. mem' \in Records /\ mem'.isOn = BootPower(disk) /\ mem'.level = disk.level
      /\ mem'.palette = disk.palette
  BY <1>1, <1>2, <1>3 DEF Records
<1>5. panels' \in Looks /\ panels'.level = disk.level
  BY <1>1, <1>2, UsableNames DEF SelfTest, Looks, Playable, Records
<1>6. dirty' \in Marks /\ (~dirty'.state => disk.isOn = BootPower(disk))
  BY <1>1, <1>3 DEF Marks
<1>7. asked' \in [isOn : BOOLEAN, level : Levels] /\ asked'.isOn = BootPower(disk)
      /\ asked'.level = disk.level
  BY <1>1, <1>2, <1>3 DEF Records
<1>8. TypeInv'
  BY <1>1, <1>2, <1>4, <1>5, <1>6, <1>7 DEF TypeInv, StoreType, LoopType, QueueType, Stages
<1> QED
  BY <1>1, <1>4, <1>5, <1>6, <1>7, <1>8

\* Every step is one of the network task, a task of the queue, a stage of the loop, a
\* loss of power or a start.
LEMMA Kinds ==
    ASSUME [Next]_vars
    PROVE  \/ Handle \/ Request \/ ClientLeaves
           \/ Drain
           \/ Stage
           \/ PowerCut \/ RunDangling \/ ControllerUpdate
           \/ Boot
           \/ UNCHANGED vars
  BY DEF Next, Loop, Environment, Stage

-----------------------------------------------------------------------------
(* Type correctness.                                                        *)

LEMMA PushedTyped ==
    ASSUME TypeInv, NEW t \in Tasks, Pushed(t)
    PROVE  /\ queue' \in Seq(Tasks) /\ Len(queue') <= QueueSlots
           /\ asked' \in [isOn : BOOLEAN, level : Levels]
<1>1. queue \in Seq(Tasks) /\ asked \in [isOn : BOOLEAN, level : Levels]
  BY DEF TypeInv, QueueType
<1>2. (IF t.fn = "power" THEN t.arg ELSE asked.isOn) \in BOOLEAN
  BY <1>1, TaskArgs
<1>3. (IF SetsLevel(t) THEN ValueOf(t) ELSE asked.level) \in Levels
  BY <1>1, TaskArgs
<1>4. Len(Append(queue, t)) <= QueueSlots
  BY <1>1, Appended, ControllerAssumption DEF Pushed
<1> QED
  BY <1>1, <1>2, <1>3, <1>4, Appended DEF Pushed

LEMMA TypePreserved == TypeInv /\ [Next]_vars => TypeInv'
<1> SUFFICES ASSUME TypeInv, [Next]_vars PROVE TypeInv'
  OBVIOUS
<1>1. CASE Handle \/ Request \/ ClientLeaves
  <2>1. NetStep
    BY <1>1, NetSteps
  <2>2. /\ queue' \in Seq(Tasks) /\ Len(queue') <= QueueSlots
        /\ asked' \in [isOn : BOOLEAN, level : Levels]
    <3>1. CASE \E t \in Tasks : Pushed(t)
      BY <3>1, PushedTyped
    <3>2. CASE UNCHANGED <<queue, asked>>
      BY <3>2 DEF TypeInv, QueueType
    <3>3. CASE UNCHANGED asked /\ \E k \in DOMAIN queue :
                  queue[k].fn = "panels" /\ queue' = [queue EXCEPT ![k].arg = "gone"]
      BY <3>3, TaskGone DEF TypeInv, QueueType
    <3> QED
      BY <2>1, <3>1, <3>2, <3>3 DEF NetStep, QueueStep
  <2> QED
    BY <2>1, <2>2 DEF NetStep, RecordStep, worldV, TypeInv, LoopType, QueueType
<1>2. CASE Drain
  <2>1. /\ queue' = Tail(queue) /\ queue # <<>> /\ Head(queue) \in Tasks /\ TaskStep(Head(queue))
    BY <1>2, DrainSteps
  <2>2. queue' \in Seq(Tasks) /\ Len(queue') <= QueueSlots
    BY <2>1, Queued, ControllerAssumption DEF TypeInv, QueueType
  <2> QED
    BY <2>1, <2>2 DEF TaskStep, TypeInv, LoopType, QueueType, StoreType, storeV
<1>3. CASE UNCHANGED vars
  BY <1>3 DEF vars, TypeInv, LoopType, QueueType, StoreType
<1> QED
  BY <1>1, <1>2, <1>3, Kinds, StageSteps, DownSteps, BootSteps

LEMMA DownPreserved == TypeInv /\ DownInv /\ [Next]_vars => DownInv'
<1> SUFFICES ASSUME TypeInv, DownInv, [Next]_vars PROVE DownInv'
  OBVIOUS
<1>1. CASE Handle \/ Request \/ ClientLeaves
  BY <1>1, NetSteps DEF NetStep, RecordStep, worldV, DownInv
<1>2. CASE Drain
  BY <1>2, DrainSteps DEF TaskStep, DownInv, Down
<1>3. CASE Stage
  BY <1>3, StageSteps DEF DownInv
<1>4. CASE PowerCut \/ RunDangling \/ ControllerUpdate
  BY <1>4, DownSteps DEF LoseMemory, DownInv
<1>5. CASE Boot
  BY <1>5, BootSteps DEF DownInv, Down
<1>6. CASE UNCHANGED vars
  BY <1>6 DEF vars, DownInv
<1> QED
  BY <1>1, <1>2, <1>3, <1>4, <1>5, <1>6, Kinds

-----------------------------------------------------------------------------
(* A parsed layer has one owner.                                            *)

LEMMA LeakPreserved == TypeInv /\ DownInv /\ NoLayerLeak /\ [Next]_vars => NoLayerLeak'
<1> SUFFICES ASSUME TypeInv, DownInv, NoLayerLeak, [Next]_vars PROVE NoLayerLeak'
  OBVIOUS
<1>1. queue \in Seq(Tasks) /\ Cardinality(Layers(queue)) \in Nat /\ InHand \in {0, 1}
  BY LayersFinite DEF TypeInv, QueueType, InHand
<1>2. heap = Cardinality(Layers(queue)) + InHand
  BY DEF NoLayerLeak, Layers, InHand
<1>3. SUFFICES heap' = Cardinality(Layers(queue')) + InHand'
  BY DEF NoLayerLeak, Layers, InHand
<1>4. InHand' \in {0, 1}
  BY DEF InHand
<1>5. CASE Handle \/ Request \/ ClientLeaves
  <2>1. QueueStep /\ heap' \in Int
    BY <1>5, NetSteps DEF NetStep, RecordStep
  <2>2. ASSUME NEW t \in Tasks, Pushed(t)
        PROVE  heap' = Cardinality(Layers(queue')) + InHand'
    <3>1. queue' = Append(queue, t)
          /\ heap' - InHand' = heap - InHand + (IF t.fn = "layer" THEN 1 ELSE 0)
      BY <2>2 DEF Pushed
    <3>2. Cardinality(Layers(queue'))
            = Cardinality(Layers(queue)) + (IF t.fn = "layer" THEN 1 ELSE 0)
      BY <1>1, <3>1, LayersPushed
    <3> QED
      BY <1>1, <1>2, <1>4, <2>1, <3>1, <3>2
  <2>3. CASE UNCHANGED queue /\ heap' - InHand' = heap - InHand
    BY <1>1, <1>2, <1>4, <2>1, <2>3
  <2>4. ASSUME UNCHANGED <<heap, net>>, NEW k \in DOMAIN queue, queue[k].fn = "panels",
               queue' = [queue EXCEPT ![k].arg = "gone"]
        PROVE  heap' = Cardinality(Layers(queue')) + InHand'
    <3>1. DOMAIN queue' = DOMAIN queue /\ \A j \in DOMAIN queue : queue'[j].fn = queue[j].fn
      BY <1>1, <2>4, TaskGone
    <3>2. Layers(queue') = Layers(queue)
      BY <3>1 DEF Layers
    <3> QED
      BY <1>2, <2>4, <3>2 DEF InHand
  <2> QED
    BY <2>1, <2>2, <2>3, <2>4 DEF QueueStep
<1>6. CASE Drain
  <2>1. /\ queue' = Tail(queue) /\ queue # <<>> /\ Head(queue) \in Tasks /\ net' = net
        /\ heap' = heap - (IF Head(queue).fn = "layer" THEN 1 ELSE 0)
    BY <1>6, DrainSteps DEF TaskStep
  <2>2. Cardinality(Layers(Tail(queue)))
          = Cardinality(Layers(queue)) - (IF Head(queue).fn = "layer" THEN 1 ELSE 0)
    BY <1>1, <2>1, LayersPopped
  <2>3. InHand' = InHand
    BY <2>1 DEF InHand
  <2> QED
    BY <1>1, <1>2, <2>1, <2>2, <2>3
<1>7. CASE Stage
  BY <1>2, <1>7, StageSteps DEF InHand
<1>8. CASE PowerCut \/ RunDangling \/ ControllerUpdate
  <2>1. queue' = <<>> /\ heap' = 0 /\ net' = Idle
    BY <1>8, DownSteps DEF LoseMemory
  <2>2. Layers(<<>>) = {} /\ InHand' = 0
    BY <2>1 DEF Layers, InHand, Idle
  <2> QED
    BY <2>1, <2>2, FS_EmptySet
<1>9. CASE Boot \/ UNCHANGED vars
  <2>1. UNCHANGED <<queue, heap, net>>
    BY <1>9, BootSteps DEF vars
  <2> QED
    BY <1>2, <2>1 DEF InHand
<1> QED
  BY <1>5, <1>6, <1>7, <1>8, <1>9, Kinds

-----------------------------------------------------------------------------
(* What was accepted takes effect.                                          *)

LEMMA PromisePreserved == TypeInv /\ DownInv /\ PromiseInv /\ [Next]_vars => PromiseInv'
<1> SUFFICES ASSUME TypeInv, DownInv, PromiseInv, [Next]_vars, pc' # Down
             PROVE  /\ Comes(PowerTasks, queue', mem'.isOn, asked'.isOn)
                    /\ Comes(LevelTasks, queue', mem'.level, asked'.level)
                    /\ panels'.level = mem'.level
  BY DEF PromiseInv
<1>1. queue \in Seq(Tasks)
  BY DEF TypeInv, QueueType
<1>2. \A t \in Tasks : /\ t \in PowerTasks <=> t.fn = "power"
                       /\ t \in LevelTasks <=> SetsLevel(t)
                       /\ t.fn = "power" => ValueOf(t) = t.arg
  BY DEF PowerTasks, LevelTasks, ValueOf
<1>3. CASE Handle \/ Request \/ ClientLeaves
  <2>1. /\ QueueStep /\ pc # Down /\ panels' = panels
        /\ mem'.isOn = mem.isOn /\ mem'.level = mem.level
    BY <1>3, NetSteps DEF NetStep, RecordStep, worldV
  <2>2. /\ Comes(PowerTasks, queue, mem.isOn, asked.isOn)
        /\ Comes(LevelTasks, queue, mem.level, asked.level) /\ panels.level = mem.level
    BY <2>1 DEF PromiseInv
  <2>3. ASSUME NEW t \in Tasks, Pushed(t)
        PROVE  /\ Comes(PowerTasks, queue', mem.isOn, asked'.isOn)
               /\ Comes(LevelTasks, queue', mem.level, asked'.level)
    <3>1. /\ queue' = Append(queue, t)
          /\ asked'.isOn = (IF t \in PowerTasks THEN ValueOf(t) ELSE asked.isOn)
          /\ asked'.level = (IF t \in LevelTasks THEN ValueOf(t) ELSE asked.level)
      BY <1>2, <2>3 DEF Pushed
    <3> QED
      BY <1>1, <2>2, <3>1, TaskPushed
  <2>4. ASSUME UNCHANGED asked, NEW k \in DOMAIN queue, queue[k].fn = "panels",
               queue' = [queue EXCEPT ![k].arg = "gone"]
        PROVE  /\ Comes(PowerTasks, queue', mem.isOn, asked'.isOn)
               /\ Comes(LevelTasks, queue', mem.level, asked'.level)
    BY <1>1, <2>2, <2>4, GoneComes
  <2> QED
    BY <2>1, <2>2, <2>3, <2>4 DEF QueueStep
<1>4. CASE Drain
  <2>1. /\ queue' = Tail(queue) /\ queue # <<>> /\ Head(queue) \in Tasks /\ pc = "drain"
        /\ TaskStep(Head(queue))
    BY <1>4, DrainSteps
  <2>2. /\ Comes(PowerTasks, queue, mem.isOn, asked.isOn)
        /\ Comes(LevelTasks, queue, mem.level, asked.level) /\ panels.level = mem.level
    BY <2>1 DEF PromiseInv, Down
  <2>3. /\ mem'.isOn = (IF Head(queue) \in PowerTasks THEN ValueOf(Head(queue)) ELSE mem.isOn)
        /\ mem'.level = (IF Head(queue) \in LevelTasks THEN ValueOf(Head(queue)) ELSE mem.level)
        /\ panels'.level = mem'.level /\ asked' = asked
    BY <1>2, <2>1, <2>2 DEF TaskStep
  <2> QED
    BY <1>1, <2>1, <2>2, <2>3, TaskPopped
<1>5. CASE Stage
  BY <1>5, StageSteps DEF PromiseInv
<1>6. CASE PowerCut \/ RunDangling \/ ControllerUpdate
  BY <1>6, DownSteps DEF LoseMemory
<1>7. CASE Boot
  <2>1. /\ queue' = <<>> /\ mem'.isOn = asked'.isOn /\ mem'.level = asked'.level
        /\ panels'.level = mem'.level
    BY <1>7, BootSteps DEF DownInv
  <2> QED
    BY <2>1 DEF Comes
<1>8. CASE UNCHANGED vars
  BY <1>8 DEF vars, PromiseInv
<1> QED
  BY <1>3, <1>4, <1>5, <1>6, <1>7, <1>8, Kinds

-----------------------------------------------------------------------------
(* A clean record is saved.                                                 *)

LEMMA SavedPreserved == TypeInv /\ SavedInv /\ [Next]_vars => SavedInv'
<1> SUFFICES ASSUME TypeInv, SavedInv, [Next]_vars, pc' # Down
             PROVE  /\ ~dirty'.look /\ "look" \notin lost' => disk'.level = mem'.level /\ disk'.palette = mem'.palette
                    /\ ~dirty'.state /\ "state" \notin lost' => disk'.isOn = mem'.isOn
                    /\ pc' = "stateClear" => disk'.isOn = mem'.isOn
  BY DEF SavedInv
<1>1. disk \in Records /\ mem \in Records /\ dirty \in Marks
  BY DEF TypeInv
<1>2. CASE Handle \/ Request \/ ClientLeaves
  <2>1. /\ pc # Down /\ UNCHANGED <<disk, pc, lost>> /\ dirty'.look = dirty.look
        /\ mem'.isOn = mem.isOn /\ mem'.level = mem.level /\ mem'.palette = mem.palette
        /\ (dirty.state => dirty'.state)
    BY <1>2, NetSteps DEF NetStep, RecordStep, worldV
  <2> QED
    BY <2>1 DEF SavedInv
<1>3. CASE Drain
  <2>1. /\ pc = "drain" /\ UNCHANGED <<pc, lost>>
        /\ (~dirty'.look => ~dirty.look /\ mem'.level = mem.level /\ mem'.palette = mem.palette)
        /\ (~dirty'.state => ~dirty.state /\ mem'.isOn = mem.isOn)
        /\ disk'.isOn = disk.isOn /\ disk'.level = disk.level /\ disk'.palette = disk.palette
    BY <1>3, DrainSteps DEF TaskStep
  <2> QED
    BY <2>1 DEF SavedInv, Down
<1>4. CASE Stage
  <2>1. mem' = mem /\ pc # Down
    BY <1>4, StageSteps
  <2>2. /\ ~dirty.look /\ "look" \notin lost => disk.level = mem.level /\ disk.palette = mem.palette
        /\ ~dirty.state /\ "state" \notin lost => disk.isOn = mem.isOn
        /\ pc = "stateClear" => disk.isOn = mem.isOn
    BY <2>1 DEF SavedInv
  <2>3. CASE FlushLook
    <3>1. pc' = "boot" /\ ("state" \in lost' <=> "state" \in lost)
      BY <2>3 DEF FlushLook
    <3>2. CASE UNCHANGED <<dirty, disk, lost>>
      BY <2>1, <2>2, <3>1, <3>2
    <3>3. CASE disk' = Save(LookFields) /\ dirty' = [dirty EXCEPT !.look = FALSE]
      <4>1. disk'.level = mem.level /\ disk'.palette = mem.palette /\ disk'.isOn = disk.isOn
        BY <1>1, <3>3 DEF Save, LookFields, Records
      <4>2. dirty'.state = dirty.state
        BY <1>1, <3>3 DEF Marks
      <4> QED
        BY <2>1, <2>2, <3>1, <4>1, <4>2
    \* the write has failed, and its record is exempt from now on
    <3>4. CASE disk' = disk /\ dirty' = [dirty EXCEPT !.look = FALSE] /\ lost' = lost \cup {"look"}
      <4>1. dirty'.state = dirty.state
        BY <1>1, <3>4 DEF Marks
      <4> QED
        BY <2>1, <2>2, <3>1, <3>4, <4>1
    <3> QED
      BY <2>3, <3>2, <3>3, <3>4 DEF FlushLook
  <2>4. CASE WriteRecord("boot", BootFields)
    <3>1. /\ UNCHANGED dirty /\ pc' # "stateClear"
          /\ "state" \in lost' <=> "state" \in lost
          /\ "look" \in lost' <=> "look" \in lost
          /\ disk' = disk \/ disk' = Save(BootFields)
      BY <2>4 DEF WriteRecord, Done, Clear
    <3>2. disk'.level = disk.level /\ disk'.palette = disk.palette /\ disk'.isOn = disk.isOn
      BY <1>1, <3>1 DEF Save, BootFields, Records
    <3> QED
      BY <2>1, <2>2, <3>1, <3>2
\* The power is written before its mark is cleared, ...
  <2>5. CASE WriteRecord("state", StateFields)
    <3>1. UNCHANGED dirty /\ ("look" \in lost' <=> "look" \in lost)
      BY <2>5 DEF WriteRecord
    <3>2. CASE disk' = disk /\ lost' = lost /\ pc' = Done["state"]
      BY <2>1, <2>2, <3>1, <3>2 DEF Done
    <3>3. CASE disk' = Save(StateFields)
      <4>1. disk'.level = disk.level /\ disk'.palette = disk.palette /\ disk'.isOn = mem.isOn
        BY <1>1, <3>3 DEF Save, StateFields, Records
      <4> QED
        BY <2>1, <2>2, <3>1, <4>1
    <3> QED
      BY <2>5, <3>2, <3>3 DEF WriteRecord
\* ... and has not changed when it is.
  <2>6. ASSUME NEW f \in {"boot", "state"}, ClearRecord(f)
        PROVE  /\ ~dirty'.look /\ "look" \notin lost' => disk'.level = mem'.level /\ disk'.palette = mem'.palette
               /\ ~dirty'.state /\ "state" \notin lost' => disk'.isOn = mem'.isOn
               /\ pc' = "stateClear" => disk'.isOn = mem'.isOn
    <3>1. /\ UNCHANGED <<disk, lost>> /\ pc' # "stateClear" /\ dirty' = [dirty EXCEPT ![f] = FALSE]
          /\ (f = "state" => pc = "stateClear")
      BY <2>6 DEF ClearRecord, Clear, Done
    <3>2. dirty'.look = dirty.look /\ (f = "boot" => dirty'.state = dirty.state)
      BY <1>1, <3>1 DEF Marks
    <3> QED
      BY <2>1, <2>2, <3>1, <3>2
  <2>7. ASSUME NEW f \in {"boot", "state"}, SaveFails(f)
        PROVE  /\ ~dirty'.look /\ "look" \notin lost' => disk'.level = mem'.level /\ disk'.palette = mem'.palette
               /\ ~dirty'.state /\ "state" \notin lost' => disk'.isOn = mem'.isOn
               /\ pc' = "stateClear" => disk'.isOn = mem'.isOn
    <3>1. /\ UNCHANGED disk /\ pc' # "stateClear" /\ lost' = lost \cup {f}
          /\ dirty' = [dirty EXCEPT ![f] = FALSE]
      BY <2>7 DEF SaveFails, Done
    <3>2. dirty'.look = dirty.look /\ (f = "boot" => dirty'.state = dirty.state)
      BY <1>1, <3>1 DEF Marks
    <3> QED
      BY <2>1, <2>2, <3>1, <3>2
  <2>8. CASE Top \/ Drained \/ SceneTick \/ NextRecord \/ Tell \/ Capture \/ Campaign \/ EndCampaign
    <3>1. /\ UNCHANGED <<dirty, disk>> /\ pc' # "stateClear"
          /\ ("state" \notin lost' => "state" \notin lost)
          /\ ("look" \notin lost' => "look" \notin lost)
      BY <2>8 DEF Top, Drained, SceneTick, NextRecord, Tell, Capture, Campaign, EndCampaign
    <3> QED
      BY <2>1, <2>2, <3>1
  <2> QED
    BY <1>4, <2>3, <2>4, <2>5, <2>6, <2>7, <2>8 DEF Stage, FlushRecords
<1>5. CASE PowerCut \/ RunDangling \/ ControllerUpdate
  BY <1>5, DownSteps DEF LoseMemory
<1>6. CASE Boot
  <2>1. /\ disk'.level = mem'.level /\ disk'.palette = mem'.palette /\ pc' = "top"
        /\ (~dirty'.state => disk'.isOn = mem'.isOn)
    BY <1>6, BootSteps
  <2> QED
    BY <2>1
<1>7. CASE UNCHANGED vars
  BY <1>7 DEF vars, SavedInv
<1> QED
  BY <1>2, <1>3, <1>4, <1>5, <1>6, <1>7, Kinds

-----------------------------------------------------------------------------
(* Clients are told what has changed.                                       *)

LEMMA ToldPreserved == TypeInv /\ ToldInv /\ [Next]_vars => ToldInv'
<1> SUFFICES ASSUME TypeInv, ToldInv, [Next]_vars PROVE ToldInv'
  OBVIOUS
<1>1. SameFields(View, View) /\ View.isOn = mem.isOn /\ View.playing = player.playing
      /\ View.speed = player.speed
  BY DEF View, SameFields
<1>2. View'.isOn = mem'.isOn /\ View'.playing = player'.playing /\ View'.speed = player'.speed
  BY DEF View
<1>3. CASE Handle \/ Request \/ ClientLeaves
  <2>1. UNCHANGED <<pc, snap, told, lost, player>> /\ mem'.isOn = mem.isOn
    BY <1>3, NetSteps DEF NetStep, RecordStep, worldV
  <2> QED
    BY <1>1, <1>2, <2>1 DEF ToldInv, SameFields
<1>4. CASE Drain
  <2>1. pc = "drain" /\ UNCHANGED <<pc, snap, told, lost>>
    BY <1>4, DrainSteps DEF TaskStep
  <2> QED
    BY <2>1 DEF ToldInv, SameFields
<1>5. CASE Stage
  <2>1. mem' = mem
    BY <1>5, StageSteps
  <2>2. CASE Tell
    <3>1. UNCHANGED <<player, snap>> /\ pc = "tell" /\ View' = View
      BY <2>1, <2>2 DEF Tell, View
    <3>2. CASE told' = View /\ pc' = "capture"
      BY <1>1, <3>1, <3>2 DEF ToldInv
    <3>3. CASE snap = View /\ pc' = "top" /\ UNCHANGED <<told, lost>>
      BY <1>1, <3>1, <3>3 DEF ToldInv
    <3>4. CASE pc' = "capture" /\ lost' = lost \cup {"tell"}
      BY <3>1, <3>4 DEF ToldInv
    <3> QED
      BY <2>2, <3>2, <3>3, <3>4 DEF Tell
  <2>3. CASE Capture
    <3>1. /\ UNCHANGED <<player, told, lost>> /\ pc = "capture" /\ pc' = "top" /\ snap' = View
          /\ View' = View
      BY <2>1, <2>3 DEF Capture, View
    <3> QED
      BY <1>1, <3>1 DEF ToldInv
  <2>4. CASE Top \/ Campaign \/ EndCampaign
    <3>1. /\ UNCHANGED <<player, snap, told, lost>> /\ pc = "top" /\ pc' \in {"top", "drain"}
          /\ View' = View
      BY <2>1, <2>4 DEF Top, Campaign, EndCampaign, View
    <3> QED
      BY <3>1 DEF ToldInv
  <2>5. CASE Drained \/ SceneTick \/ FlushLook \/ FlushRecords \/ NextRecord
    <3>1. /\ UNCHANGED <<snap, told>> /\ pc # "capture" /\ pc' # "capture" /\ pc' # "top"
          /\ ("tell" \notin lost' => "tell" \notin lost)
      BY <2>5 DEF Drained, SceneTick, FlushLook, FlushRecords, NextRecord, WriteRecord,
         ClearRecord, SaveFails, Clear, Done
    <3> QED
      BY <3>1 DEF ToldInv, SameFields
  <2> QED
    BY <1>5, <2>2, <2>3, <2>4, <2>5 DEF Stage
<1>6. CASE PowerCut \/ RunDangling \/ ControllerUpdate
  BY <1>6, DownSteps DEF LoseMemory, ToldInv, Down
<1>7. CASE Boot
  BY <1>7, BootSteps DEF ToldInv
<1>8. CASE UNCHANGED vars
  BY <1>8 DEF vars, ToldInv, View
<1> QED
  BY <1>3, <1>4, <1>5, <1>6, <1>7, <1>8, Kinds

-----------------------------------------------------------------------------
(* The theorems.                                                            *)

LEMMA InvInit == Init => ControllerInv
<1> SUFFICES ASSUME Init PROVE ControllerInv
  OBVIOUS
<1>1. Defaults \in Records
  BY ControllerAssumption DEF Defaults, Records, PaletteNames, AlwaysOn
<1>2. Defaults.level \in Levels /\ Defaults.isOn = TRUE
  BY <1>1 DEF Defaults, Records
<1>3. NoPlayer \in Players /\ Idle \in Nets /\ <<>> \in Seq(Tasks) /\ Len(<<>>) <= QueueSlots
  BY ControllerAssumption DEF NoPlayer, Players, Idle, Nets, Playable, PaletteNames
<1>4. TypeInv
  BY <1>1, <1>2, <1>3 DEF Init, TypeInv, StoreType, LoopType, QueueType, Marks, Looks, Playable,
     PaletteNames, Stages
<1>5. DownInv
  BY DEF Init, DownInv
<1>6. PromiseInv
  <2>1. /\ queue = <<>> /\ mem.isOn = asked.isOn /\ mem.level = asked.level
        /\ panels.level = mem.level
    BY <1>2 DEF Init
  <2> QED
    BY <2>1 DEF PromiseInv, Comes
<1>7. SavedInv
  BY DEF Init, SavedInv
<1>8. ToldInv
  BY DEF Init, ToldInv
<1>9. NoLayerLeak
  <2>1. {k \in DOMAIN queue : queue[k].fn = "layer"} = {} /\ heap = 0 /\ net.at # "layer"
    BY DEF Init, Idle
  <2> QED
    BY <2>1, FS_EmptySet DEF NoLayerLeak
<1> QED
  BY <1>4, <1>5, <1>6, <1>7, <1>8, <1>9 DEF ControllerInv

LEMMA InvNext == ControllerInv /\ [Next]_vars => ControllerInv'
  BY TypePreserved, DownPreserved, LeakPreserved, PromisePreserved, SavedPreserved, ToldPreserved
     DEF ControllerInv

LEMMA Inv == Spec => []ControllerInv
  BY InvInit, InvNext, PTL DEF Spec

\* Every variable of the controller keeps its type: the records and the stores, the
\* player and the panels, the queue and the request under way.
THEOREM TypeCorrect == Spec => []TypeInv
<1>1. ControllerInv => TypeInv
  BY DEF ControllerInv
<1> QED
  BY <1>1, Inv, PTL

\* Once the queue is empty, power and brightness are the last ones a client was told
\* 202 for, and the panels shine at that brightness (MainLoopQueue, StateServer,
\* AppearanceServer, MqttService).
THEOREM PromisesKept == Spec => []AcceptedTakesEffect
<1>1. ControllerInv => AcceptedTakesEffect
  BY DEF ControllerInv, PromiseInv, Comes, AcceptedTakesEffect
<1> QED
  BY <1>1, Inv, PTL

\* A record whose mark is clear is the one in the file, the appearance and the power,
\* unless its last write failed (DeferredWriter, AppStateStore::writeFile,
\* AppearanceStore::tick).
THEOREM CleanSaved == Spec => []CleanMeansSaved
<1>1. ControllerInv => CleanMeansSaved
  <2> SUFFICES ASSUME ControllerInv, pc # Down
               PROVE  /\ ~dirty.look /\ "look" \notin lost => \A f \in LookFields : disk[f] = mem[f]
                      /\ ~dirty.state /\ "state" \notin lost => disk.isOn = mem.isOn
    BY DEF CleanMeansSaved
  <2> QED
    BY DEF ControllerInv, SavedInv, LookFields
<1> QED
  BY <1>1, Inv, PTL

\* At the end of an iteration clients know the power, the playback and the speed, unless
\* the last frame was dropped (AppStateBroadcaster::tick).
THEOREM ClientsTold == Spec => []ToldWhatChanged
<1>1. ControllerInv => ToldWhatChanged
  <2> SUFFICES ASSUME ControllerInv, pc = "top", snap # NoView, "tell" \notin lost
               PROVE  \A f \in {"isOn", "playing", "speed"} : told[f] = View[f]
    BY DEF ToldWhatChanged
  <2> QED
    BY DEF ControllerInv, ToldInv, SameFields
<1> QED
  BY <1>1, Inv, PTL

\* Every parsed layer is owned by one queued task or by the request being handled
\* (AnimationServer::handleOneShotPlay).
THEOREM LayersOwned == Spec => []NoLayerLeak
<1>1. ControllerInv => NoLayerLeak
  BY DEF ControllerInv
<1> QED
  BY <1>1, Inv, PTL
=============================================================================
