------------------------------- MODULE Mirror -------------------------------
(***************************************************************************)
(* The WebSocket server and the packet mirror (Controller/API/websocket):  *)
(* clients connect, send commands and switch mirroring on; every packet    *)
(* sent to the panels is captured in a batch that goes to those clients    *)
(* and in a snapshot that brings a newly mirroring client up to date.      *)
(*                                                                         *)
(* A client draws with the panels' own animation player, so its view is    *)
(* one player per panel.  Two tasks meet: the network task connects,       *)
(* disconnects and queues commands between any two stages of the main      *)
(* loop.  It cannot tell a stage from its parts: a stage reads what that   *)
(* task writes only to choose where a frame goes, and the view of a client *)
(* that has gone is nobody's.  Frames arrive in order.                     *)
(*                                                                         *)
(* Slots are what is mirrored here: colours, palettes, brightness and      *)
(* on/off are carried but not told apart by value, animations hold until   *)
(* they are stopped, and every panel hears every packet (Scene has the     *)
(* STARTs that are missed).  Requests that only read are left out.         *)
(***************************************************************************)
EXTENDS AnimationPlayer, Sequences, SequencesExt

CONSTANTS Panels, Groups,
          MaxClients, \* MAX_CLIENTS: settings slots, and connections before the oldest is closed
          QueueCap,   \* messages that fit into a CircularQueue
          BatchCap,   \* records that fit into a batch (RECORDS_CAP)
          SnapCap,    \* entries of the snapshot (SNAPSHOT_MAX_ENTRIES)
          Commands,   \* what a client may send: [type, address]
          Works,      \* what the main loop may do to the panels
          MaxConns, MaxAsks, MaxWorks, MaxFaults

ASSUME MirrorAssumption ==
    /\ Panels \subseteq Nat \ {0} /\ Groups \subseteq Nat \ {0}
    /\ {MaxClients, QueueCap, BatchCap, SnapCap} \subseteq Nat \ {0}
    /\ MaxWorks + MaxAsks < SeqMax

VARIABLES open,      \* the connected clients, oldest first
          settings,  \* clientSettings: client 0 is a free entry
          pending,   \* pendingSnapshotClientId
          incoming,  \* cmdQueue
          executing, \* executionQueue
          stage,     \* where the main loop is
          panels,    \* the players of the panels
          snapshot,  \* snapshotIndex with its records, in the order of the buffer
          batch,     \* the records of the live batch
          view,      \* what every client shows
          partial,   \* clients that lost a frame or switched mirroring off: their view is not
                     \* followed further
          nextSeqId, \* AnimationScheduler.nextSeqId
          spent      \* connections, messages, work and faults so far

vars == <<open, settings, pending, incoming, executing, stage, panels, snapshot, batch, view,
          partial, nextSeqId, spent>>
loop == <<panels, snapshot, batch, view, partial, nextSeqId>>

Clients == 1..MaxConns
Slots == 1..MaxClients
Free == [client |-> 0, mirroring |-> FALSE]
Blank == [p \in Panels |-> NewPlayer]

Record(address, type, group, seq) == [address |-> address, type |-> type, group |-> group, seq |-> seq]
Held == [NoAnim EXCEPT !.type = "SOLID"]

Init == /\ open = <<>> /\ settings = [i \in Slots |-> Free] /\ pending = 0
        /\ incoming = <<>> /\ executing = <<>> /\ stage = "swap"
        /\ panels = Blank /\ snapshot = <<>> /\ batch = <<>>
        /\ view = [c \in Clients |-> Blank] /\ partial = {} /\ nextSeqId = 1
        /\ spent = [conns |-> 0, asks |-> 0, works |-> 0, faults |-> 0]

-----------------------------------------------------------------------------
(* A packet at the panels it is addressed to, or at a client's copies of   *)
(* them; address 0 is every panel.                                         *)

\* control(ANIM_CTRL_CLEAR_QUEUE)
ClearQueue(player, group) ==
    [player EXCEPT !.slots = [h \in DOMAIN @ |-> IF group \in {0, h} THEN [@[h] EXCEPT !.pending = NoAnim]
                                                 ELSE @[h]]]

Dispatch(player, r) ==
    CASE r.type = "PREPARE" -> Prepare(player, r.group, Held)
      [] r.type = "START"   -> Start(player, r.seq, r.group)
      [] r.type = "STOP"    -> ControlStop(player, r.group)
      [] r.type = "TRIGGER" -> UpdateParams(player, r.seq, r.group, 1)
      [] r.type = "CLEAR_QUEUE" -> ClearQueue(player, r.group)
      [] OTHER              -> player

Deliver(players, r) ==
    [p \in Panels |-> IF r.address \in {0, p} THEN Dispatch(players[p], r) ELSE players[p]]

DeliverAll(players, records) == FoldLeft(Deliver, players, records)

-----------------------------------------------------------------------------
(* PacketMirror.  "out" is what a stage writes, with the mirroring clients *)
(* and those of them that frames sent in this stage do not reach.          *)

IsSnapshotted(type) == type \in {"SET_PALETTE", "TURN_ON_OFF", "PREPARE", "START"}

Key(r) == IF r.type \in {"PREPARE", "START"} THEN r.group ELSE 0

\* The entry of an earlier packet is overwritten where it stands.
UpdateSnapshot(entries, r) ==
    LET same == {i \in 1..Len(entries) : /\ entries[i].address = r.address
                                         /\ entries[i].type = r.type /\ Key(entries[i]) = Key(r)}
    IN  IF same # {} THEN [i \in 1..Len(entries) |-> IF i \in same THEN r ELSE entries[i]]
        ELSE IF Len(entries) >= SnapCap THEN entries ELSE Append(entries, r)

\* Mutated form: a stop of every group is taken for one of a group of its own.
InvalidatedOwnGroup(e, address, group) ==
    address \in {0, e.address} /\ group = Key(e) /\ e.type \in {"PREPARE", "START"}

Invalidated(e, address, group) ==
    address \in {0, e.address} /\ group \in {0, Key(e)} /\ e.type \in {"PREPARE", "START"}

InvalidateSnapshot(entries, address, group) ==
    SelectSeq(entries, LAMBDA e : ~Invalidated(e, address, group))

FlushTo(out) ==
    IF out.batch = <<>> THEN out
    ELSE LET missed == out.partial \cup (out.mirroring \cap out.deaf)
         IN  [out EXCEPT !.batch = <<>>, !.partial = missed,
                         !.view = [c \in Clients |-> CASE c \in missed -> Blank
                                                      [] c \in out.mirroring \ missed -> DeliverAll(@[c], out.batch)
                                                      [] OTHER -> @[c]]]

\* A SET_COLOR takes the place of one for the same panel that is still in the batch; a
\* batch without room is flushed early.
AddToBatch(out, r) ==
    IF r.type = "SET_COLOR" /\ r \in ToSet(out.batch) THEN out
    ELSE LET room == IF Len(out.batch) >= BatchCap THEN FlushTo(out) ELSE out
         IN  [room EXCEPT !.batch = Append(@, r)]

Capture(out, r) ==
    LET kept == IF r.type = "STOP" THEN InvalidateSnapshot(out.snapshot, r.address, r.group)
                ELSE IF IsSnapshotted(r.type) THEN UpdateSnapshot(out.snapshot, r)
                ELSE out.snapshot
    IN  AddToBatch([out EXCEPT !.snapshot = kept], r)

\* ControllerRelayPacketSink::send: captured, then put on the trunk.
Send(out, r) == LET c == Capture(out, r) IN [c EXCEPT !.panels = Deliver(@, r)]

Mirroring == {settings[i].client : i \in {i \in Slots : settings[i].mirroring}}

Out == [panels |-> panels, snapshot |-> snapshot, batch |-> batch, view |-> view,
        partial |-> partial, mirroring |-> Mirroring, deaf |-> {}]

\* A frame does not reach a client whose queue is full, and nobody when the heap is low.
Losses(clients) == {{}} \cup IF spent.faults < MaxFaults /\ clients # {}
                             THEN {clients} \cup {{c} : c \in clients} ELSE {}

\* Sends the records, given what the snapshot holds before them, with every loss of the
\* frames that overflow forces.
Emit(kept, records, works) ==
    \E deaf \in Losses(Mirroring) :
        \E out \in {FoldLeft(Send, [Out EXCEPT !.deaf = deaf, !.snapshot = kept], records)} :
            /\ deaf # {} => out.partial # partial
            /\ panels' = out.panels /\ snapshot' = out.snapshot /\ batch' = out.batch
            /\ view' = out.view /\ partial' = out.partial
            /\ spent' = [spent EXCEPT !.works = @ + works, !.faults = IF deaf = {} THEN @ ELSE @ + 1]

-----------------------------------------------------------------------------
(* The network task: AsyncWebSocket calls onEvent.                         *)

\* A client that finds no free entry stays connected without one.
Connect ==
    /\ spent.conns < MaxConns
    /\ LET c == spent.conns + 1
           free == {i \in Slots : settings[i].client = 0}
       IN  /\ open' = Append(open, c)
           /\ settings' = [i \in Slots |->
                             IF i \in free /\ \A j \in free : i <= j
                             THEN [client |-> c, mirroring |-> FALSE] ELSE settings[i]]
    /\ spent' = [spent EXCEPT !.conns = @ + 1]
    /\ UNCHANGED <<pending, incoming, executing, stage, loop>>

Forget(gone) ==
    /\ open' = SelectSeq(open, LAMBDA c : c \notin gone)
    /\ settings' = [i \in Slots |-> IF settings[i].client \in gone THEN Free ELSE settings[i]]
    /\ pending' = IF pending \in gone THEN 0 ELSE pending

\* A view is no longer anyone's when its client has gone.
Disconnect(c) ==
    /\ c \in ToSet(open)
    /\ Forget({c})
    /\ view' = [view EXCEPT ![c] = Blank]
    /\ UNCHANGED <<incoming, executing, stage, panels, snapshot, batch, partial, nextSeqId, spent>>

\* A message that does not fit is dropped.  The queue is filled from its start and
\* drained before it is filled again, so its bytes never wrap.
OnMessage(c, m) ==
    /\ c \in ToSet(open) /\ spent.asks < MaxAsks
    /\ incoming' = IF Len(incoming) < QueueCap THEN Append(incoming, [m EXCEPT !.client = c]) ELSE incoming
    /\ spent' = [spent EXCEPT !.asks = @ + 1]
    /\ UNCHANGED <<open, settings, pending, executing, stage, loop>>

-----------------------------------------------------------------------------
(* The main loop: runServices.                                             *)

TooMany == IF Len(open) > MaxClients THEN {Head(open)} ELSE {}

\* cleanup, then getIncommingMessages swaps the two queues.
SwapQueues ==
    /\ stage = "swap"
    /\ Forget(TooMany)
    /\ view' = [c \in Clients |-> IF c \in TooMany THEN Blank ELSE view[c]]
    /\ executing' = incoming /\ incoming' = <<>> /\ stage' = "handle"
    /\ UNCHANGED <<panels, snapshot, batch, partial, nextSeqId, spent>>

\* cmdSetMirror; the one place for a pending snapshot is overwritten, and a client
\* without an entry is ignored.
SetMirror(m) ==
    LET own == {i \in Slots : settings[i].client = m.client}
    IN  /\ settings' = [i \in Slots |-> IF i \in own THEN [settings[i] EXCEPT !.mirroring = m.enabled]
                                        ELSE settings[i]]
        /\ pending' = IF own # {} /\ m.enabled THEN m.client ELSE pending
        /\ IF m.enabled THEN UNCHANGED <<partial, view>>
           ELSE /\ partial' = partial \cup {m.client}
                /\ view' = [view EXCEPT ![m.client] = Blank]
        /\ UNCHANGED <<panels, snapshot, batch, nextSeqId, spent>>

NextSeqId == IF nextSeqId = SeqMax THEN 1 ELSE nextSeqId + 1

SendCommand(m) ==
    /\ Emit(snapshot, <<Record(IF m.type = "TRIGGER" THEN 0 ELSE m.address, m.type, 0,
                               IF m.type = "TRIGGER" THEN nextSeqId ELSE 0)>>, 0)
    /\ nextSeqId' = IF m.type = "TRIGGER" THEN NextSeqId ELSE nextSeqId
    /\ UNCHANGED <<settings, pending>>

HandleMessage ==
    /\ stage = "handle" /\ executing # <<>>
    /\ LET m == Head(executing) IN IF m.type = "SET_MIRROR" THEN SetMirror(m) ELSE SendCommand(m)
    /\ executing' = Tail(executing)
    /\ UNCHANGED <<open, incoming, stage>>

MessagesDone ==
    /\ stage = "handle" /\ executing = <<>> /\ stage' = "work"
    /\ UNCHANGED <<open, settings, pending, incoming, executing, loop, spent>>

ToEach(ps, type, group) == [i \in 1..Cardinality(ps) |-> Record(SetToSortSeq(ps, <)[i], type, group, 0)]

BroadcastStop == <<Record(0, "STOP", 0, 0), Record(0, "SET_COLOR", 0, 0)>>

\* What the deferred work and the scene player may send: a group prepared and started (the
\* copies of a START are one here), a layer stopped panel by panel, a scene stopped, and the
\* power with the appearance it applies again.
Records(w) ==
    CASE w.kind = "play"  -> Append(ToEach(w.on, "PREPARE", w.group), Record(0, "START", w.group, nextSeqId))
      [] w.kind = "stop layer" -> ToEach(w.on, "STOP", w.group)
      [] w.kind = "stop"  -> BroadcastStop
      [] w.kind = "off"   -> BroadcastStop \o <<Record(0, "CLEAR_QUEUE", 0, 0)>>
                               \o ToEach(Panels, "TURN_ON_OFF", 0)
      [] w.kind = "on"    -> Append(ToEach(Panels, "TURN_ON_OFF", 0), Record(0, "SET_PALETTE", 0, 0))

Work(w) ==
    /\ stage = "work" /\ spent.works < MaxWorks
    /\ Emit(IF w.kind = "off" THEN <<>> ELSE snapshot, Records(w), 1)
    /\ nextSeqId' = IF w.kind = "play" THEN NextSeqId ELSE nextSeqId
    /\ UNCHANGED <<open, settings, pending, incoming, executing, stage>>

\* serviceMirror: the snapshot for the pending client, then, at most every 33 ms, the
\* batch.  Whether they are over is any choice.
ServiceMirror ==
    /\ stage = "work" /\ stage' = "swap" /\ pending' = 0
    /\ LET asked == {pending} \cap ToSet(open) IN
       \E deaf \in Losses(Mirroring \cup asked), due \in BOOLEAN :
           LET told == [c \in Clients |-> IF c \in asked \ (deaf \cup partial) THEN DeliverAll(view[c], snapshot) ELSE view[c]]
               mine == [Out EXCEPT !.deaf = deaf, !.view = told]
           IN  \E out \in {IF due THEN FlushTo(mine) ELSE mine} :
                   /\ batch' = out.batch /\ view' = out.view /\ partial' = out.partial
                   /\ spent' = [spent EXCEPT !.faults = IF deaf = {} THEN @ ELSE @ + 1]
    /\ UNCHANGED <<open, settings, incoming, executing, panels, snapshot, nextSeqId>>

NetworkTask == \/ Connect
               \/ \E c \in Clients : Disconnect(c)
               \/ \E c \in Clients, m \in Commands : OnMessage(c, m)

MainLoop == \/ SwapQueues \/ HandleMessage \/ MessagesDone
            \/ \E w \in Works : Work(w)
            \/ ServiceMirror

Next == NetworkTask \/ MainLoop

Spec == Init /\ [][Next]_vars

-----------------------------------------------------------------------------
Shows(player, g) == g \in DOMAIN player.slots /\ player.slots[g].cur # NoAnim

(* A client that has mirrored without losing a frame never shows an         *)
(* animation where the panels have none once the batch is empty: what is   *)
(* stopped leaves the snapshot with the panels, whichever of snapshot and  *)
(* batch the client has its view from, and whenever between two stages it  *)
(* connects, asks, or asks once more (PacketMirror.cpp:132-164,            *)
(* main.cpp:35-56).                                                        *)
StoppedStaysStopped ==
    batch = <<>> =>
        \A c \in Mirroring \ partial, p \in Panels, g \in Groups :
            Shows(view[c][p], g) => Shows(panels[p], g)
=============================================================================
