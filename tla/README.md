# Lightnet firmware: a TLA+ verification

Lightnet drives a tree of LED panels from one controller over a relay of point-to-point
half-duplex links. An ESP32 controller talks to the first panel over a trunk wire; every
panel (an ATmega328) has three edges, takes one of them as its way to the controller and
relays between it and the others. The controller plays scenes on the panels and is driven
over HTTP, WebSocket and MQTT. This directory models the parts whose correctness depends on
order, loss, retries, concurrency and limits, checks them with TLC on small instances, and
proves what TLAPS can prove for every instance.

Paths below are relative to `src/lib/Lightnet/` unless they start with `src/` or `docs/`.

## 1. Inventory

| component | state it keeps | operations | what makes it correct |
|---|---|---|---|
| **Relay discovery** `Core/Relay/Discovery*`, `PanelDiscovery*`, `PanelRouter`, `PanelFrameDispatcher`, `Controller/Relay/ControllerDiscoveryService`, `Controller/Panels/PanelsInitializer` | controller: next index, frontier, resume stack, recorded indices and links, retry timers. Panel: parent edge, state and child index of each edge, own index, the probe in flight | `begin`, `onFrameArrived`, `tick`; on a panel PULL, REGISTER_EDGE, ADVANCE, `tick`; relaying | finds every wired panel once, numbers them in pre-order, records real wires, never builds a loop, always ends |
| **Panel firmware update** `Controller/OTA/PanelFlasher`, `RelayBootloaderClient`, `Panel/bootloader/RelayBootloader` | campaign state, panel and page counters; bootloader page buffer and idle count; flash | `startFlashing`, `run`, `connect`, `writeChunk`, `startApp`; the bootloader's packets and idle time-out | a panel counted as done holds the image; a panel not touched survives anything; the campaign ends |
| **Firmware upload** `Controller/OTA/FirmwareUpdateServer`, `SerialFirmwareReceiver` | the upload in progress, its file handle; the serial parser's state | HTTP callbacks, serial bytes, 30 s blocking receive | the file a campaign reads is one whole upload |
| **Link-level ARQ** `Core/Relay/LinkArq`, `Panel/ArqEdgeLink`, `Controller/Relay/ControllerRelayPacketSink` | per-edge duplicate window, the frame waiting for its hop acknowledgement | send, then wait 4 ms, two retransmissions, duplicate check within 12 ms | a frame acknowledged was delivered, and is acted on once while its copies fit the window |
| **Edge reception** `Panel/EdgeUartTransport`, `Core/Relay/EdgeFrameReceiver`, `PacketFramer`, `TrunkFrameReceiver` | edge the one UART is switched to, wake masks, partly received frame | wake interrupt, claim, byte arrival, release | a frame is delivered whole, from its edge |
| **Main-loop hand-over** `Utils/MainLoopQueue`, `Core/Common/SpscByteQueue`, `src/src/controller/main.cpp` | queue of tasks; byte ring shared by two tasks | `post` from the network task, `drain` on the loop; `push`, `pop` | whole records, once, in order; a full queue refuses |
| **HTTP API and main loop** `Controller/API/http`, `Controller/Actions`, `AppState`, `Appearance`, `Configuration`, `Scenes`, `Utils/DeferredWriter` | records in memory and on flash, dirty flags, player and panels, what clients were told | every request that changes state; the stages of `runServices` | what was answered 202 takes effect, in order; what is clean is saved; clients are told |
| **Scene and palette stores** `Common/Database`, `Controller/Scenes/Store`, `Controller/Palettes` | slot files with tombstones | open, insert, replace, remove, compact, upgrade | a file is the map its callers were told of, across power cuts |
| **MQTT** `Controller/Mqtt` | configuration, search, connection phase, announcement, memory of what was published | PATCH, `tick`, client callbacks | the commands understood are the ones subscribed, the memory is what the broker retains, the service settles |
| **Scene engine** `Core/Controller/SceneParser`, `ScenePlayer`, `RunnerCompile`, `RunnerSpawn`, `AnimationScheduler` | layers, clocks, barrier, spawn pools, START sequence | parse, play, stop, resume, tick, spawn | panels show the step each layer is at; dependencies and cycles complete |
| **Topology queries** `PanelGraph`, `TopologyIndex`, `PanelSelector*`, `PanelField`, `PanelGeometry` | adjacency, rooted index | build, select, distance fields | a selector picks the panels it describes |
| **Panel animation player** `Core/Panel/AnimationPlayer` | slots, last START number, background | PREPARE, START, CONTROL, UPDATE_PARAMS, `tick` | a START acts once, a slot is freed exactly when its animation is |
| **WebSocket API and packet mirror** `Controller/API/websocket`, `Utils/CircularQueue` | client entries, two command queues, batch, snapshot, pending snapshot | connect, disconnect, commands, capture, flush | a client shows nothing the panels have stopped |
| **Simulator and C API** `Sim`, `Core/CApi` | wrappers of the above | - | no state of their own |
| **Vendored WebSockets** `src/lib/WebSockets` | third party | - | - |

**How they interact.** At boot `PanelsInitializer::boot` runs discovery alone until the
coordinator completes, then turns the recorded tree into the panel list that routing, OTA
and scenes work from. Afterwards `runServices` in `main.cpp` is one loop: serial receiver,
flasher, WebSocket commands, deferred tasks, scene, deferred writes, broadcasts, MQTT,
mirror. Network callbacks run on another task and reach the loop through `MainLoopQueue`
and the WebSocket command queue, but also read and write some records directly. While a
campaign is active the loop suspends everything from the WebSocket commands on. Frames
leave through `ControllerRelayPacketSink`, which the mirror taps and which blocks the loop
while it waits for an answer. On a panel one loop owns router, discovery driver and
animation player; the bootloader is a separate program.

**What is hard.** Any frame can be lost, late or repeated and each layer retries on its own
clock; frames carry no sequence number and no hop count. Two tasks share records, queues and
the mirror's entries. Power can go between any two writes. A scene's layers wait for one
another while panels run on their own and may miss a START. `PROJECT.json` lists the main
hazards at their lines; section 7 lists the lesser ones, most of which no property covers.

## 2. Modules

| module | models |
|---|---|
| `Discovery` | the boot-time walk: coordinator, tree builder, router, panel driver, wires |
| `DepthFirstWalk` | what discovery promises: a depth-first walk in edge order |
| `Discovery_proofs` | type correctness, soundness of the recorded tree and of the resume stack, no flood in a ring; every panel found and routed to, and the depth-first walk implemented, while the retries last |
| `Ota` | an update campaign, the relay between, bootloader and application |
| `Ota_proofs` | finished panels hold the image, only a cut update leaves a torn one, untouched panels survive a restart |
| `FirmwareUpload` | the two writers of `/panel_fw.bin` and the campaign that reads it |
| `FirmwareUpload_proofs` | what a campaign wrote is whole, and is the upload it was started for |
| `LinkArq` | hop acknowledgements on the trunk, both ends, in milliseconds |
| `LinkArq_proofs` | a call dispatched once, an acknowledged call dispatched, an answer to its own call, no failure but for losses |
| `SpscByteQueue` | the lock-free byte ring between two tasks, cut at every shared access |
| `RecordFifo` | what the ring promises: a queue of whole records |
| `SpscByteQueue_proofs` | the ring implements the queue and writes only free bytes |
| `SlotFile`, `Stores` | the slot file as operators on its contents; the two stores on it |
| `Stores_proofs` | the scene file is a map, acknowledged scenes survive, built-in palettes stay |
| `Controller` | requests, deferred tasks, main loop, records, broadcasts |
| `Controller_proofs` | accepted requests take effect, clean records are saved, clients are told, layers have one owner |
| `Mqtt` | the MQTT service and its broker search |
| `Mqtt_proofs` | commands are heard, the memory is what the broker retains |
| `Topology` | graph, rooted index, selectors and their stack machine, distance field |
| `SceneParser` | steps, layers and the validation of a scene document |
| `RunnerCompile` | the runners' fields, pulses and spawn schedules |
| `AnimationPlayer` | a panel's player, as operators on it |
| `Scene` | composes the five above: player, scheduler and the panels |
| `Mirror` | composes the panels' players with WebSocket server and packet mirror |

An `MC` module beside a specification gives its instance.

### Discovery

State: `peer` is the wiring (a port's partner), `chan[q]` the frames under way to port `q`
in order; the controller's variables and the panels' keep the names of the C++ members.
Actions: `ControllerReceive` handles the head frame on the trunk (`onFrameArrived`),
`CoordinatorTick` is one retry interval (`tick`: resend the root PULL or the ADVANCE, or
give up), `Convert` is the boot loop leaving; `PanelReceive(p, e)` is the whole dispatcher on
a panel, relaying first and then the driver's reaction; `PanelProbeTimeout(p)` is the
driver's `tick`. `LoseFrame(q)` drops the next frame under way to a port. A *fault* is either
a lost frame, by its type, or a timer that fires although what it waits for is still on its
way (`CROSSED_PROBE`, `LATE_ANSWER`, `LATE_WALK`): without such a fault a timer fires only
when the wires are silent. Time itself is not modelled; the coordinator's time-outs are
counted in its own retry intervals.

### Ota

State: the flasher's members; `down` and `up`, the frames and answers on the path between
the controller and its one target; for each panel whether it runs its application or its
bootloader (`mode`), whether the application knows its place (`joined`), its flash chunk by
chunk and the bootloader's page buffer. Actions: `StartFlashing`, the flasher and its client
(`Flasher`), `PanelReceive`, `IdleTick`, `Traffic` (frames not for this panel), and the
faults: a lost request or answer, damage, the loop held up by a serial header, a restart of
the controller with the panels' power. A panel with a mixed image is taken to relay nothing.
The firmware file is taken to open and to stay as it is; the few milliseconds between the
EEPROM magic and the bootloader's start are not interrupted.

### SpscByteQueue

State: the buffer, the two published offsets `w` and `r`, and the locals of a `push` and a
`pop` under way (`pushing`, `put`, `wp`; `popping`, `got`, `rp`). Actions: `PushStart` (the
space check), `PutByte`, `PushPublish`, `PopStart`, `GetByte`, `PopPublish`. The release and
acquire orderings of the source's atomics make the two publications the only points where
one side learns of the other's bytes, so interleaving single accesses is faithful. `queue`
and `starts` are history: what the ring should hold, and where. `ImplementsFifo` compares
the bytes `pop` assembled from the buffer with that history. A `push` that does not fit and
a `pop` of an empty ring return at once and change nothing.

### FirmwareUpload

State: `disk`, what a reader of `/panel_fw.bin` would find; how far each HTTP request and
serial transfer has got; the handles of both writers (`uploadFile`, `outFile`); of the
flasher what concerns the file. An image is a sequence of pieces, a piece standing for a
body chunk, a serial chunk and a page at once. Actions: `HttpFirstChunk`, `HttpChunk`,
`HttpAbort`, `HttpComplete`, `HttpStart` on the network task (the check of `isActive` and
`startFlashing` are apart: the loop runs on another core); `SerialMagic`, `SerialHeader`,
`SerialData`, `SerialCrc`, `SerialTimeout` on the loop, which runs no flasher step
meanwhile; `FlasherOpen`, `FlasherPage`, `FlasherFails`. The file system is external: data
written through an open handle may or may not be visible before it is closed, a reader
keeps the file it opened. One call of `run` is one step. A request always has a body. `inTurn` is history: whether
senders have kept out of each other's way so far.

### LinkArq

State: the call the sink is in (`frame`, `waiting`, `sending`) and its `LinkArqTx`; the two
directions of the wire; the panel's mode (listening, acting on a frame, sending, or in the
acknowledgement window after it) and its `LinkDedup` entry. Sending blocks until the last byte
is out (`serial.flush()`), and only then the clock is read: `airtime` is how long the frame of a
call takes, so its copies end `LINK_ACK_TIMEOUT_MS + airtime` apart (`Span`). While an end sends
it looks at nothing else, and it reads what arrived meanwhile before it looks at its limit. `lag` is how long ago `tick` read the clock it
passes down; `pollBytes` may act, send and wait and then handle the next frame by the old
time. Actions: `Call` (flush, begin to send), `ControllerSent`, `ControllerRetransmit`, `ControllerReceiveAck`,
`ControllerReceiveReply`, `ControllerTimeout` (the loop of `awaitFrame`); `PanelReceive`,
`PanelActed`, `PanelSent`, `PanelTick`, `PanelMisses`, `WindowReceive`, `WindowTimeout`; `Lose`; `Tick`, one
millisecond, which waits for whatever is due. A collision is two losses. What a panel does
with a frame, relaying included, is a delay of up to `MaxActing`. `send(wantAck)` is
`requestReply` with another type. `disturbed` is history: the call began while its
predecessor's window, frames or equal bytes were still about; the properties say what holds
otherwise.

### SlotFile and Stores

A file is its version and a sequence of cells, flag and payload alternately. An operation of
`Database` is the sequence of the writes it makes (`StoreWrites`), so a failure in the middle
is a prefix of it; `Compacted` is the loop of `compact`, slot by slot. `Stores` runs sessions (lock, open, work, close,
unlock) of both stores: boot (`EnsureSeeded`, `CompactIfFragmented`, `ShrinkRewrite`),
requests of the network task in as many sessions as the code takes, the loop's palette
lookup in two steps because of the buffer it shares, `PowerCut` and `Upgrade`. The file
system is external: what was written is on the flash when the handle is closed, all or
nothing; a write without room fails and leaves what came before.

### Controller

Every handler that changes state is a step of the network task, or a few where it reads
shared state and acts on it later (`net`); every stage of `runServices` is a step of the
loop (`pc`). Posted tasks sit in `queue` with what they captured; `asked` is what clients
were promised. `disk` and `dirty` are the deferred writers, `snap` and `told` the state
broadcaster. The environment cuts the power, starts campaigns and the controller's own
update, makes a file or an allocation fail, and lets clients go away. A deferred write that
fails clears its mark as one that succeeds (`lost` remembers which record until its next
write); before an update each dirty record is written or not. A write fails as a whole.

### Mqtt

The stages of `tick` run against the client library's callbacks and the PATCH handler, which
are steps of the network task on the same, unlocked fields. The client library, the brokers,
mDNS and WiFi are external. The commands a broker delivers are requests of `Controller`
(`MqttCommand`), not of this module.

### Topology, SceneParser, RunnerCompile, AnimationPlayer and Scene

`Topology` is pure: `SelectorsPickTheirPanels` compares the compiled program, run by the
stack machine on the rooted index, with a meaning told by paths of connectors alone; only the
bounds of `fraction` are rounded as the byte of the program is (0.5 is 128/255, so the middle of
an odd number of panels is in `0-0.5` and not in `0.5-1`).
`SceneParser` turns a document (fields in order, a layer a record) into layers, and refuses
what `parseScene` refuses; `MCScene` assumes which documents those are and TLC evaluates it.
`RunnerCompile` gives every panel its onset and duration. Geometry is reduced to a row of
panels, one coordinate each, or none. `AnimationPlayer` takes and returns a player.

`Scene` keeps the player (`sp`), the panels' players (`pan`) and `lag`, the units of time
since the loop's last tick. `Advance` moves every clock on; a tick (`ControllerTick`, or
`IdleTick` when nothing plays) does all of `ScenePlayer::tick` at once: steps, barrier,
dependencies, wheel stops, bounce flips, spawners, and the packets to the panels. Only a
START can be missed, by a *deaf* panel: it goes out three times without an acknowledgement,
while every other packet is link-acknowledged (`Common/ProtocolMeta.cpp:51-78`). The tree is
fixed per behaviour, as discovery runs at boot only. All random draws of one tick share one
pick. Palettes, base colours, brightness, turning panels on, composition, the frame gate and
the 16-bit clock are left out.

### Mirror

The panels' players and each client's copy of them are the same operators. A burst of
packets is one step (`Work`, or a WebSocket command): during one the network task can only
change which entry is whose, and a client that has gone has no view. `Send` captures as the
sink's callback does, and overflows flush early. `partial` are the clients that lost a frame
or switched off; a lost snapshot is not held against a client.

## 3. Runs

| run | question | instance |
|---|---|---|
| `recoverable` | do the retries restore the whole walk, over every wiring? | all wirings of 3 panels and five of 4, 1 fault of the kinds the code recovers from |
| `any_fault` | what holds whatever goes wrong? | five wirings of 4 panels, room for 3, 3 faults of every kind |
| `ota` | is a finished panel sound, does an untouched one survive, does the campaign end and succeed? | a fork of 4 panels, 2 pages of 2 chunks, 2 images, 2 campaigns, 2 faults of every kind |
| `byte_ring` | do whole records come out in order, and does no byte leak? | 8 bytes, byte values 0-2, records of 1 to 3 bytes |
| `firmware_upload` | is what is flashed what was sent, and what holds when uploads overlap anything? | 2 requests and 2 serial transfers, one of them too long, 2 faults |
| `link_arq` | do the retransmissions deliver once, and is nothing stale taken for an answer? | 2 calls (2 requests, 1 command), frames of 1 and 3 ms, 3 losses, the source's times but for the wait for a reply |
| `stores` | is the file the map its callers were told of, across power cuts? | 3 scenes and the one-shot, a built-in and a user palette, 6 cells, 2 faults, 1 upgrade |
| `controller` | does accepted work take effect, is what is clean saved, are clients told, does the queue drain? | 3 requests of one of six groups of endpoints, a queue of 2, 1 trouble |
| `off_means_stopped` | a statement of the docs that the code does not keep | the same |
| `mqtt` | are commands heard, is the memory right, does the service settle? | 2 brokers, one of them announced, 2 prefixes, 2 PATCHes of six bodies, 1 fault, 1 change |
| `scene` | do panels show the step each layer is at, do sweeps last, do cycles end, do selectors mean what they say? | 9 documents on a row of 4 panels and a tree of 5, 2 client calls or missed STARTs, a tick every 1 or 2 units |
| `mirror` | does a client ever keep showing what the panels have stopped? | 2 panels, 2 groups, 3 connections for 2 entries, 2 commands, 2 bursts, 1 loss, a batch of 5 records, a snapshot of 4 |

**Bounds.** Four panels hold every shape that matters to the walk: a chain deep enough for
a two-hop relay behind the frontier, a fork whose first branch is deeper than one, a ring, a
pair wired twice and an empty trunk. Three faults are one more than the number of retries a
probe has left after its first. `PROBE_ATTEMPTS` (3) has its real value; the ratio of stall
time-out to retry interval is cut to 2-4, which only makes giving up come sooner. In `Ota`
two pages of two chunks reach the first, the inner and the last chunk and a page change.
`Stores`: three slots hold a tombstone before, between and behind live records, so a
compaction moves some and not others. `Controller`: two queued tasks and a third request
reach a refused post and any order of two accepted ones; the groups put together the
endpoints that share state. `Mqtt`: two PATCHes are the least that change a configuration
under a connection another one set up. `LinkArq`: with frames of 1 ms the window outlasts all copies, with those of 3 ms (72 bytes at
250 kbaud) it does not; `ACK_TIMEOUT_MS` is 38 and not 500, just more than the copies of a
request and a reply take. `Scene`: between them the documents use all kinds of
step, waiting, async, disabled and endless layers, overlapping sweeps, once with a group less than they need, and all runners with and without
a geometry; the odd tree has a panel in the middle of its order; a late tick (lag 2) makes one tick do two units' work; stops and
resumes are not counted. `SeqMax` is 3, so START numbers repeat within a behaviour.
`Mirror`: one play fills part of the snapshot and batch, a second overflows both; two
commands by any two of three clients reach on-off, on-on and two clients at once, and the
third connection finds no entry. The property was also checked with three bursts and two
clients.

**Fairness.** `Discovery`: weak fairness of the controller's receive, tick and conversion
and of every panel's receive and time-out, which `loop()` polls on either side. `Ota`: of the
flasher's step (`run` is called on every loop), of the panel's reception and of the
bootloader's timer tick; `StartFlashing` and `Traffic` are the environment's and not fair.
`FirmwareUpload`: of the flasher's step and of the serial receiver's clock; senders may stop
anywhere. `Controller`: of the loop, of the handler the network task is in, of the end of a
campaign (which `CampaignEnds` of `Ota` establishes) and of power coming back. `Mqtt`: of every
stage of `tick`, of the connection attempt ending one way or the other, of time passing and
of WiFi coming back; strong fairness says only that a query or a publication that is tried
for ever sometimes works. `Scene`: time goes on and the loop comes round. Nothing is ever
assumed of a fault, and what fails is bounded. `LinkArq`, `SpscByteQueue`, `Stores` and
`Mirror` promise safety and assume none. `CHECK_DEADLOCK FALSE` is said where the system may
stop: boot, campaigns, uploads, and store requests whose budget is used up.

## 4. Findings

* `off_means_stopped`: a play request is checked against the power state in the network task
  and deferred; a power-off queued before it runs first, and `playSceneById` does not look
  again, so a scene plays on a system that is off. `docs/api.md:500` says power-off stops all
  animations.

Divergences met while modelling, without a run of their own:

* The loss of a relayed REGISTER_EDGE lets an ADVANCE resend hand the same index to a second
  panel; `Core/Relay/DiscoveryCoordinator.hpp:69-70` calls a resend safe. `recoverable` leaves
  that fault out, `any_fault` has it.
* Any traffic resets the bootloader's idle count, so a bootloader whose neighbours talk stays
  resident (`Panel/bootloader/RelayBootloader.cpp:68`).
* An upload answered 409 has already replaced the file (`docs/api.md:407`);
  `FinishedAreComplete` holds all the same.
* `Core/Relay/LinkArq.hpp:50-53` puts the last retransmission 8 ms after the original. Each wait
  begins after the last byte of the frame before is out (`ControllerRelayPacketSink.cpp:121`,
  the `flush()` in `ControllerEdgeTransport.cpp:50`), so it is out 8 ms and twice its own sending
  time later: 14 ms for a frame of 72 bytes, past the window of 12 ms. If the copy between is
  lost, the panel acts twice on such a frame, with a current clock. `DispatchedOnceInTime` and
  the "once" of `AckedWasDispatched` hold where `Span` fits the window, as it does for a frame
  sent in 1 ms (about 25 bytes with the preamble).
* `fraction:0.5-1` leaves out the middle one of an odd number of panels, which `fraction:0-0.5`
  has: 0.5 is stored as 128/255 (`docs/animations/scene-authoring.md:324` gives bounds in 0-1).
* A sweep layer gets a group more than it has sweeps only if the group numbers suffice:
  eight layers of 30 sweeps, or a user group of 250, share less, and a sweep overwrites one still
  running (`ScenePlayer.cpp:1104-1115`). `SweepsRunToTheirEnd` gives the time each still has.
* A panel held up for some milliseconds notes the next frame by the time read before, and one
  lost acknowledgement then makes it act twice (`Core/Relay/LinkArq.hpp:19`).
  `DispatchedOnceInTime` gives the margin.
* MQTT's `onConnect` clears the mark of a configuration change that came while it connected
  (`docs/api.md:551`); the properties say "no change is waiting".
* A stored scene that cannot be read stops the player (`ScenesService.cpp:157-160`); a later
  resume replays the half-read layers.
* Mirror: the snapshot is meant to bring a client to the current state (`docs/api.md:134`).
  An entry is rewritten where it stands, so after a layer was stopped panel by panel the
  broadcast START precedes the panel's next PREPARE and the client leaves it dark; a START
  still in the batch behind a STOP is taken for a copy of the snapshot's; of two clients that
  ask in one pass only one gets a snapshot; a dropped frame is not sent again though
  `WebsocketServer.cpp:155` expects so. Each shows too little, never too much, which is why
  `StoppedStaysStopped` bounds a view from above only.

Smaller divergences met while modelling, without a run of their own: the loss of a relayed
REGISTER_EDGE also prunes a healthy panel although no retry was exhausted
(`docs/architecture.md:539`); an ADVANCE is not flooded by every panel
(`docs/architecture.md:473`), its addressee consumes it and a router whose children are known
picks a branch; a lost START_APP leaves two panels resident at once (`docs/ota.md:59` says one),
harmlessly; a second campaign after DONE reaches no panel before a restart
(`PanelFlasher.hpp:68`); serial `OK` is said of the bytes received, not of the file
(`docs/ota.md:189`), hence the condition in `OkMeansSaved`; a write that finds no room is not
noticed, though `docs/api.md:409` promises 507, hence the condition `Orderly`. A
restart in the middle of a panel loses that panel, not just finished ones
(`PanelFlasher.hpp:30`). A reply repeated after a lost hop acknowledgement can be taken by the
next request, though `ControllerRelayPacketSink.cpp:148` calls it harmless; hence `disturbed` in
`AnswersThisCall` and `LossesAbsorbed`.

## 5. Proofs

Each `_proofs` module assumes only the named `ASSUME`s of the module it is about; TLC
evaluates them on every run. Unless said otherwise nothing bounds panels, faults, requests
or the length of a channel or queue: the limits that a run needs (`MaxFaults`, `MaxCalls`
and the like) are arbitrary naturals here. A theorem about an invariant follows from an
inductive one, which TLC checked on the run's instance before it was proved, by one lemma
per action and under it one step per conjunct the action can disturb.

**`Discovery_proofs`** (at least one edge and fewer than 255, positive limits, wires that
join two ports in both directions; any wiring, rings included).

* `TypeCorrect`: the recorded arrays never exceed `MaxPanels` (the guard of
  `handleRegisterEdgeReply`) and a probe in flight has attempts left.
* `TreeSound`, `StackSound`: neither property is inductive alone. A registration pushes the
  frontier and makes the new panel the frontier: that the pair is an edge of the tree needs
  the link just recorded, and that links stay numbered needs the frontier to be an index
  already recorded. `TreeInv` joins them with `TypeOK` and the range of the frontier and of
  the stack's entries. `PathForm` indexes the stack by position, so that a push and a pop
  touch one position. Only registration and DONE change these variables and nothing is
  assumed of the frames that arrive, so the results hold under every loss, delay and copy.
* `FloodsEnd`: `FloodEdgesFormTree` needs what the wires may carry. `Proper`: an offer comes
  from a node that has its place, an accepting answer only from a child or from the parent,
  and no index is 0. `PanelInTree`: a panel probes and has connected edges only after it has
  a parent, never probes the parent, and the parent had a place before it. Without the last
  two a late answer could close a ring.

The other six results are about faults the retries recover from (`Recoverable`, the kinds of
the run `recoverable`): an offer, an answer on its first hop, an ADVANCE or a DONE is lost,
or a probe is resent across its answer; no timer gives up what is still under way; the whole
boot has fewer faults than any one retry allows; `MaxPanels` holds every panel. Any wiring
and any number of panels remain. Without the limits they are false: section 4 names the
relayed registration whose loss gives one index to two panels. `Recoverable` counts the faults of
a whole boot where the code counts attempts per hop, so the theorems say nothing of boots
with several bad hops.

* `WalkInvariant`, the invariant they rest on, describes the exchange of one hop in every
  phase, and where the rest of the tree is meanwhile. `Numbered`: the panels recorded have
  the indices below `nextPanelIndex`, and at most one panel waits to be recorded. `PanelOK`:
  connected edges lead to children and to the parent (`Kids`, `Above`), a refused edge leads
  nowhere or to a recorded panel (`Refused`), only the frontier probes, on its lowest open
  edge (`Prober`, `Waiting`), and only that edge can be settled at the far end alone
  (`Half`). `PathOK`: what is off the path is finished. `AllFit` says of each frame on a wire
  where it may be: a second copy of an offer, answer or registration is allowed if what it
  would do has been done. `Sole` and `AllMove`: ADVANCE and DONE are one token that exists
  only while nothing is offered, so a resend across a late DONE does not pop twice.
  `Paid`, `ProbePaid`, `Reported`: a wait that has expired was paid for by a fault, or
  what is waited for is still under way. These make the retries count: with fewer faults
  than attempts, no edge that leads to a panel is given up.
* `IndicesStayDistinct`, `LinksStayWires`, `EveryPanelFound`, `RoutesReachTargets` follow. The
  last two need more: that a finished tree is closed under wires (`Over`, `Refused`), and that
  a subtree of the router's table holds an interval of indices (`LinksOK`, no two links
  cross).
* `WalksDepthFirst` is the safety part of the refinement `ImplementsDepthFirstWalk`:
  `Spec => Walk!WalkSafe`. Under the refinement mapping (`order` is the panels by index,
  `path` the panels of stack and frontier) the registration of a new panel is a step along
  the lowest edge that leads to an unvisited panel (`NewIsLowest`), a DONE that resumes is a
  step back and one that ends is the end, both only when no edge leads on (`NoLeads`), and
  every other step maps to a stutter (`WalkStutters`).

**`Ota_proofs`** (parents have smaller indices, at least one page, positive retry limits).

* `FinishedHold`, `SoundUnless`: the hard part is that late chunks and answers of one
  attempt meet the next. `SessionInv` describes the session with one panel from its first
  ping on quiet wires: chunks are under way in order and none is beyond the flasher's
  (`SessionDown`), and the panel has begun nothing (`Fresh`), is at the flasher's chunk or
  the one before with all earlier ones in flash (`Going`), or has left the bootloader
  (`Stalled`). `LeftOver` says what a session may leave on the wire: repeats of a last chunk
  that change nothing, or chunks for a panel that was cut. `Settled` and `SoundInv` carry the
  images of the other panels, `CutInv` counts the updates cut short. `Fewer` covers every
  loss and corruption at once.
* `UntouchedSurvive`, an action property: `ListedInv` (a list contains every ancestor of its
  members) gives that a panel a campaign has not come to is still reached by the discovery
  after a restart.

**`FirmwareUpload_proofs`** (the two kinds of upload are disjoint, lengths positive).

* `FinishedComplete`: from `UnderWay`, that the panel being written holds exactly
  `currentPage` pages.
* `OrderlyFlashes`: under `Orderly` (senders took turns so far, no open or write has
  failed), a claim about the past, so `OrderInv` may use it in every earlier state. It ties
  file, handle and sender: one sender at a time and never beside a campaign (`OneAtATime`),
  what is written is a prefix of that sender's image (`HttpWritten`, `SerialWritten`), and
  the campaign reads the file it was started with (`CampaignReads`). `StageInv` relates the
  serial parser's state to the stage of its upload. A damaged serial upload counts only
  while `intact`.

**`LinkArq_proofs`** (acknowledgements that arrive do so before the time-out, sending a frame
takes no longer than `FrameTime`; times, number of retransmissions, of calls and of losses
arbitrary).

* `DispatchedOnce`: `NotedBy` follows the panel's duplicate entry. While a copy of a
  dispatched call can still arrive, the entry is that call's and no older than the time
  since the first transmission (`Elapsed`, the time each copy is sent in included) plus what the
  panel was held up. `WireInv` (copies come in order and are equal per call) keeps the entry from
  being overwritten by an older call, `FirstInv` says that nobody knows a call whose first frame
  is not out. The statement covers the frames short enough for the window; the source's long
  ones are not (section 4).
* `AnswersOwn`: into a link at rest all that is on the wires belongs to the call (`Alone`).
* `AckedDispatched` needs no hypothesis: an acknowledged call into a link at rest was dispatched
  (`QuietInv`: until then nothing is acknowledged and the entry is stale or another's), and once
  if `Span(calls) + MaxDelay < LINK_DEDUP_WINDOW_MS`, whatever the panel was held up by: what
  holds it up began after the call did (`LagBounded`).
* `CallsSurviveLosses` has the hypothesis `Patient`: a reply is waited for longer than all
  transmissions of the request, what the panel does with it and all transmissions of the
  reply take, the sending of each included; and the last copy of a command is on its way before
  its wait is over. With the source's times (500 against 2 * 14 + 3 + 2) it leaves a panel 466 ms.
  `AbsorbInv` follows a call into a link at rest through its phases. `Calling`: transmissions
  still to come, on the wire and lost add up to all there are, and none is later than the
  sender's timers put it. `Acting`: heard in time. `Sending`, `Answering`: of the transmissions
  of the reply, at most one is under way and the others are lost; the window closes only after it
  can no longer be. `Arrived`: a reply is there, and the controller reads it when it has sent.
  `Ended` says the same of a call that is over: its answer, the losses, or a copy that still
  `Travels`. When a wait runs out, the clocks leave nothing under way in either
  phase, so the losses exceed the retransmissions. It stands on `ArqInv`: a call heard of is
  one whose dispatch, acknowledgement and reply are its own.

**`SpscByteQueue_proofs`** (a capacity of more than the two bytes of a header; records not
empty, of a 16-bit length that fits the consumer's buffer; callers keep to these).

* `RingCorrect` proves `RingInv`, from which `RingImplementsFifo` (the refinement of
  `RecordFifo`) and `RingWritesFree` follow. It joins `Layout` (the records lie one behind
  the other from `r` to `w`, none longer than what is between), `Stored` (each byte of each
  record in `queue` is in the buffer at its place), `Pushing` (the space reserved is free and
  the bytes put so far are there) and `Popping` (the bytes got so far are the first
  record's). `Stored` is needed for `pop` to return what was pushed, and is preserved by
  `PutByte` only because `Pushing` places the write outside every record of `Layout`. `Plus`
  and `Dist`, offset arithmetic with one wrap, keep every leaf linear (`DistPlus`,
  `DistShift`, `StepPlus`).

**`Controller_proofs`** (a queue of at least one task; any scenes, palettes, speeds).
`ControllerInv` is one invariant for four theorems; `QueueStep`, `RecordStep` and `TaskStep`
summarise what a request and a task may change, and each part is proved over these.

* `PromisesKept`: `PromiseInv` says that the last pending task of each kind decides and that
  without one the record already has the value (`Comes`), from which the property follows
  when the queue is empty.
* `CleanSaved`: `SavedInv` adds the stage between the write of the state record and the
  clearing of its mark, when nothing may change it. A write that fails puts its record into
  `lost` and clears the mark, one that succeeds takes it out; only such a record is exempt, and
  of the others each conjunct is kept by every task, which marks the record it changes.
* `ClientsTold`: `ToldInv` follows the comparison from the snapshot at the top of the loop
  to the capture at its end.
* `LayersOwned`: the layers on the heap are those queued and the one in hand. `DownInv`
  (after a power cut nothing is queued) is needed for the count to survive it.

**`Mqtt_proofs`** (the default prefix is one of the prefixes, bodies are well formed).

* `CommandsHeard`, `MemoryTrue`: inductive with `TypeInv` and `SessionInv` (the service's
  `connected` is the client's, a client not off has a host, a cached host is a known one).
  Which PATCHes reconnect decides both: the lemmas say of each that either neither prefix
  nor host changed or the session is over. The search's step is left untyped: it is computed
  with `SelectSeq`, of which the provers know nothing, and neither property depends on it.

**`Stores_proofs`** (the names that stand for a slot's marks are no keys, the hidden id is no
scene's, no value is `Absent`; any ids, contents, table of built-ins and length of file,
`MaxFaults`, `MaxCells` and `MaxUpgrades` any numbers).

* What the loops of the slot file compute is induction over its slots. The library's
  induction takes a predicate, so `Least`, `Induction` and `Recursion` state it for sets, from
  the well-foundedness of the naturals. Each loop (`Apply`, `Seeded`, `Compacted`, `Listing`)
  is a recursive function; `Recursion` gives that there is one, `Induction` what it computes.
* `Filled` and `Marked` summarise a mutation: a file of whole slots whose other slots are what
  they were. `Stored` turns that into lookups: other keys are read as before, the key itself
  reads what was written, and no key is there twice that was not before.
* `Gathered` is the invariant of the loop of `compact`: behind what is kept the file is
  untouched, and of each key met so far the last record is the last that is kept. So lookups
  agree before the compaction, with the copies in the file and after the rewrite
  (`GatheredReads`), and if nothing live lies behind what is kept a power cut does no harm
  (`NothingBehind`).
* `ScenesAreMap`, `AckedKept`: neither property is inductive. `SceneInv` adds that the file
  consists of whole slots with scene ids and holds each id once, and between the copies and
  the rewrite the same of the file the rewrite will leave (`CopiesInv`).
* `BuiltinsKept`: `PaletteInv` says the boot found or made every built-in palette,
  `RequestInv` that an update or removal under way was asked of `isBuiltin` first. A creation
  under a built-in name finds the record there and is refused.

Only model-checked:

* everything under fairness (`WalkEnds`, the fairness of `ImplementsDepthFirstWalk`,
  `CampaignEnds`, `CampaignSucceeds`, `CampaignStops`, `DrainsEventually`,
  `SettlesAfterTrouble`, `CyclesComplete`): liveness and ENABLED are out of the prover's
  reach;
* `LayersShowTheirStep`, `SelectorsPickTheirPanels`, `SweepsRunToTheirEnd` and `StoppedStaysStopped`: selectors,
  scene documents and batches are computed by RECURSIVE operators and the folds of the
  community modules, for which the provers have no induction.

## 6. Not modelled, and what is left

Left out for good: debug prints, formatting and wording, colour arithmetic, the text layers of
HTTP, JSON and MQTT (`Utils/SimpleJson`, `SceneWriter`), the simulator's and the C API's
wrappers (they drive the same core), and the vendored WebSockets library.

Not modelled: edge reception below the frame (wake interrupts, the claim of the one UART,
byte framing). `LinkArq` is checked over every loss, delay and duplicate it can cause; bit
timing is out of TLC's reach.

Reduced: planar geometry (one coordinate per panel); the 16- and 32-bit clocks of panels and
player (times are relative, no run comes near a wrap); PAUSE and RESUME, which the controller
never sends; animations end in `Scene` and hold in `Mirror`; WebSocket frames arrive at once
and in order.

Where the next work would go: a count of faults per hop instead of per boot in `Recoverable`;
lemmas on the folds of the community modules, for which `Scene` and `Mirror` wait; and the
receiver's claim of an edge as a module of its own.

## 7. Further hazards

Beside those of `PROJECT.json`; after the dash, the property that would notice, or why none does.

- `ControllerDiscoveryService.cpp:23` (ordering): Frames behind the last DONE are still
  handled by the same drain, after the walk is complete — `RecordedTreeIsPreorder`,
  `ResumeStackIsPath`.
- `PanelFlasher.cpp:204` (ordering): A panel that is updated stops relaying: the order of the
  campaign decides whether the panels still to come can be reached —
  `UntouchedSurviveRestart`.
- `PanelFlasher.cpp:22` (protocol sequence): A second campaign in the same session works from
  a panel list and topology that the first one made stale — `FinishedHoldImage`.
- `LinkArq.hpp:105` (protocol sequence): Two deliberate frames with the same bytes inside 12
  ms look like a retransmission: the second is acknowledged and dropped —
  `AckedWasDispatched`.
- `Database.hpp:561` (partial failure): A disk that fills while a slot is grown leaves a file
  whose length is no multiple of the slot size — After a full disk nothing is promised: the
  model takes the step, the properties except it.
- `PanelServer.cpp:88` (stale state): The deferred list of panels keeps the raw request; the
  client may have gone when it runs — The step is modelled (ClientLeaves, RunDangling): what a
  write into a freed request does is undefined, here a reset.
- `AppearanceService.cpp:80` (stale state): The palette validated by the handler may be
  deleted before the deferred task sets it — `CleanMeansSaved`.
- `ConfigurationServer.cpp:66` (numeric edge): powerStateOnBoot is narrowed to a byte before
  it is compared with the largest policy: 259 is taken for 3 and refused, 256 for 0 and
  accepted — Which values are accepted is modelled (PatchConfiguration); that 256 means
  AlwaysOn contradicts nothing the docs promise.
- `TopologyConfigStore.cpp:115` (crash recovery): The topology file is removed before the new
  one is renamed: a cut in between restores the default root — Modelled by PowerCut; the docs
  promise nothing for this file.
- `MqttServer.cpp:180` (partial failure): Fields are stored as they are read: a body refused
  with 422 for its mode or port has stored the fields before, and nobody is notified —
  `SettlesAfterTrouble`.
- `MqttService.cpp:243` (stale state): setCredentials is called only for a non-empty user
  name: a client that had credentials keeps them when they are cleared — Credentials are not
  told apart from the host in the model.
- `MqttBrokerDiscovery.cpp:118` (timeout retry): A query that cannot be created advances the
  chain inside beginStep, which may end the search before start returns; the service must
  notice a search that is already over — `SettlesAfterTrouble`.
- `ScenePlayer.cpp:801` (timeout retry): At speed 1 the stop of a WHEEL is due exactly when
  its step ends and the step change is looked at first: the wheel is never stopped there, and
  the next step or GAP must clear it; at other speeds the time divides by the speed twice —
  The property admits a WHEEL that is stopped early or not at all, as the code behaves.
- `ScenePlayer.cpp:288` (numeric edge): Due times are compared with >= on the 32-bit
  millisecond clock: after 49 days wheel stops, bounce flips and sweeps misfire at the wrap —
  Times are kept relative to now; no run comes near the wrap.
- `ScenePlayer.cpp:285` (stale state): bouncePhase is not reset when a BOUNCE step fires
  again: after an odd number of flips the seam of a loop shows two legs the same way — The
  model keeps the phase; the direction of a leg is not part of a property.
- `ScenePlayer.cpp:670` (stale state): An infinite sweep step returns before it caches its
  field: the cache of an earlier step drives the spawner, unless there was none — The parser
  admits it and the model follows; no document of the run has two such steps.
- `ScenesService.cpp:160` (partial failure): A stored scene is read straight into the player's
  layers; a failed read stops the player, but a later resume plays the half-read layers —
  Scenes are handed over whole in the model.
- `AnimationPlayer.cpp:153` (resource bound): All slots of a panel taken: a PREPARE is dropped
  and the layer stays dark there until slots are reaped — The slots suffice for the documents
  of the run.
- `AnimationPlayer.cpp:388` (ordering): A pooled slot is reaped with the PREPARE that just
  landed on it: the next START finds nothing to start — It needs a pool shorter than the
  sweeps in flight, which the run has, and a tick between PREPARE and START, which are one step
  in the model; a missed START leaves a PREPARE there.
- `RunnerSpawn.hpp:94` (numeric edge): The cursor of a pool is 16 bits wide and starts over at
  0: unless the size of the pool is a power of two, one group then comes round too early — The
  model counts modulo the size.
- A duration cut to 16 bits (numeric edge): one that becomes 0 means without end and holds the
  cycle for ever — The model cuts it as the code does; `CyclesComplete` leaves such layers out.
- `AnimationPlayer.cpp:279` (stale state): Pause and resume in 16-bit milliseconds: a pause
  longer than 65 s is indistinguishable from a short one — The controller never sends PAUSE or
  RESUME.
- `SceneParser.cpp:1184` (liveness): A layer may wait for an async layer, which never is done:
  it is accepted and waits for ever — CyclesComplete leaves such scenes out: they never end,
  by the code.
- `PanelSelectorParser.hpp:214` (numeric edge): The nesting limit of a selector lets one level
  more through than the stack machine has room for — SelectorsPickTheirPanels leaves out
  selectors nested deeper than the stack.
- `PacketMirror.cpp:114` (ordering): An entry is overwritten where it stands, so after a STOP
  for one panel the broadcast START comes before the panel's new PREPARE; a client that
  mirrors then never starts that animation — The code does so: a client may show less than the
  panels do, which the property allows.
- `PacketMirror.cpp:187` (ordering): A STOP, PREPARE and START still in the batch follow a
  snapshot that already holds that START: the client takes it for a copy and shows nothing —
  The code does so; the property only bounds what a client shows from above.
- `PacketMirror.cpp:192` (ordering): A SET_COLOR takes the place of an earlier one in the
  batch, ahead of a background set in between — Colours are not told apart in the model.
- `WebsocketServer.cpp:148` (resource bound): A frame dropped for want of memory is not sent
  again, although the comment expects the next flush to put the client right — The code does
  so: such a client is not followed further ("partial").
- `WebsocketServer.cpp:203` (stale state): Two clients that ask in one pass share one place
  for the pending snapshot; the first gets none — The code does so, as the header says; the
  first client then shows less than the panels do, which the property allows.
- `PacketMirror.cpp:62` (stale state): The snapshot keeps a pulse the panel has already ended:
  a client that mirrors later plays it once more — Animations hold in the model: an end is
  known to the panel only.
