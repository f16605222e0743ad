------------------------------- MODULE Stores -------------------------------
(***************************************************************************)
(* SceneStore and PaletteStore (with PaletteRepository and the scene       *)
(* operations of ScenesService) on two slot files.  Every operation is a   *)
(* Session: lock, open, work, close, unlock.  The network task serves one  *)
(* HTTP request at a time and may need several sessions for it; the main   *)
(* loop looks palettes up and, at boot, seeds and compacts.                *)
(*                                                                         *)
(* The file system (LittleFS) is external: what is written through a       *)
(* handle is on the flash once the handle is closed, all of it or, when    *)
(* the power goes first, none of it.  A write that finds no room fails and *)
(* what was written before it stays.                                       *)
(***************************************************************************)
EXTENDS SlotFile, FiniteSets

CONSTANTS
    SceneIds,      \* what generateRandomId may return
    OneShot,       \* the hidden id of the one-shot scene
    BUILTINS,      \* the names of the built-in palettes, a table
    UserPalettes,
    PaletteVals, SeedVal,   \* contents of a a user's palette and of a built-in one
    FaultKinds,    \* which faults may happen: "cut", "full", "memory"
    MaxFaults,     \* bound: number of faults
    MaxCells,      \* bound: cells a file may have before another record is added
    MaxUpgrades    \* bound: changes of the records' model version

Builtins == Range(BUILTINS)
Absent == "absent"

ASSUME StoreKeys ==
    /\ BUILTINS \in Seq(Keys) /\ OneShot \notin SceneIds /\ Absent \notin Vals
    /\ Keys = SceneIds \cup {OneShot} \cup Builtins \cup UserPalettes
    /\ SeedVal \in Vals /\ PaletteVals \subseteq Vals

VARIABLES
    scenes, palettes,   \* the two files on the flash
    client,             \* the store this execution's requests go to (they share no state)
    firmware,           \* MODEL_VERSION of the firmware that is installed
    phase,              \* "off", "seeded", "copied" (compaction, before the rewrite), "up"
    keep,               \* writeOffset of the compaction, in slots
    request,            \* the HTTP request the network task is in
    resolving,          \* the palette the loop is reading, inside its session
    scratch,            \* FsStoreCore::scratchBuffer of the palette store
    acked,              \* history: what the scene store told its callers
    damage,             \* history: "copies" left by a compaction, "full" disks
    faults              \* number of faults so far

vars == <<scenes, palettes, client, firmware, phase, keep, request, resolving, scratch,
          acked, damage, faults>>
history == <<acked, damage, faults>>
memory == <<request, resolving, scratch>>

Idle == [op |-> "none", key |-> "none", val |-> "none", step |-> "none"]
Nobody == "none"

Init ==
    /\ scenes = NoFile /\ palettes = NoFile
    /\ client \in {"scenes", "palettes"}
    /\ firmware = 1
    /\ phase = "off"
    /\ keep = 0
    /\ request = Idle
    /\ resolving = Nobody
    /\ scratch = ZERO
    /\ acked = [id \in SceneIds \cup {OneShot} |-> Absent]
    /\ damage = {}
    /\ faults = 0

OpenCells(file) == EnsureOpen(file, firmware).cells
Commit(cells) == [version |-> firmware, cells |-> cells]

\* What a session leaves behind when one of its writes finds no room.
Interrupted(cells, writes) ==
    {Apply(cells, SubSeq(writes, 1, n)) : n \in 0..Len(writes) - 1}

Fault(kind, harm) ==
    /\ kind \in FaultKinds
    /\ faults < MaxFaults
    /\ faults' = faults + 1
    /\ damage' = damage \cup harm

-----------------------------------------------------------------------------
(***************************************************************************)
(* Boot: initializeServices                                                *)
(***************************************************************************)

\* seedMissing, one after the other in one session.
Seeded(cells) ==
    LET after[n \in 0..Len(BUILTINS)] ==
            IF n = 0 THEN cells
            ELSE LET c == after[n - 1]
                 IN IF Exists(c, BUILTINS[n]) THEN c
                    ELSE Apply(c, InsertWrites(c, [key |-> BUILTINS[n], val |-> SeedVal]))
    IN after[Len(BUILTINS)]

EnsureSeeded ==
    /\ phase = "off"
    /\ palettes' = Commit(Seeded(OpenCells(palettes)))
    /\ phase' = "seeded"
    /\ UNCHANGED <<scenes, client, firmware, keep, memory, history>>

\* compactIfFragmented: one tombstone is tolerated.
Fragmented(cells) == SlotCount(cells) > Cardinality(LiveSlots(cells)) + 1

\* compact copies, and truncate closes the handle before it rewrites the file: the
\* copies are on the flash while the originals still are.
CompactIfFragmented ==
    /\ phase = "seeded"
    /\ LET cells == OpenCells(scenes)
       IN IF Fragmented(cells)
          THEN /\ scenes' = Commit(Compacted(cells).cells)
               /\ keep' = Compacted(cells).kept
               /\ phase' = "copied"
          ELSE /\ scenes' = Commit(cells)
               /\ phase' = "up"
               /\ UNCHANGED keep
    /\ UNCHANGED <<palettes, client, firmware, memory, history>>

\* Something live is left behind the part that is kept.
CopiesRemain ==
    phase = "copied" /\ \E s \in LiveSlots(scenes.cells) : s > keep

ShrinkRewrite ==
    /\ phase = "copied"
    /\ scenes' = Commit(Shrink(scenes.cells, keep))
    /\ phase' = "up"
    /\ keep' = 0
    /\ UNCHANGED <<palettes, client, firmware, memory, history>>

\* No memory for the buffer of the rewrite: compact gives up, its copies stay.
ShrinkFails ==
    /\ phase = "copied"
    /\ Fault("memory", IF CopiesRemain THEN {"copies"} ELSE {})
    /\ phase' = "up"
    /\ keep' = 0
    /\ UNCHANGED <<scenes, palettes, client, firmware, memory, acked>>

-----------------------------------------------------------------------------
(***************************************************************************)
(* Scenes: the network task                                                *)
(***************************************************************************)
Serving(store) == phase = "up" /\ client = store /\ request = Idle
Begin(op, key, val, step) ==
    request' = [op |-> op, key |-> key, val |-> val, step |-> step]

RoomFor(cells) == Tombstones(cells) # {} \/ Len(cells) < MaxCells

\* POST /api/scenes: createScene allocates an id in a session of its own.
CreateScene(id, val) ==
    /\ Serving("scenes")
    /\ ~Exists(OpenCells(scenes), id) /\ RoomFor(OpenCells(scenes))
    /\ Begin("create", id, val, "session")
    /\ UNCHANGED <<scenes, palettes, client, firmware, phase, keep, resolving, scratch, history>>

\* PATCH /api/scenes/:id: updateScene checks that the scene exists first.
UpdateScene(id, val) ==
    /\ Serving("scenes")
    /\ Exists(OpenCells(scenes), id)
    /\ Begin("update", id, val, "session")
    /\ UNCHANGED <<scenes, palettes, client, firmware, phase, keep, resolving, scratch, history>>

\* DELETE /api/scenes/:id goes to the store at once; the hidden id is refused.
DeleteScene(id) ==
    /\ Serving("scenes")
    /\ Begin("remove", id, "none", "session")
    /\ UNCHANGED <<scenes, palettes, client, firmware, phase, keep, resolving, scratch, history>>

\* POST /api/scenes/play/one-shot: prepareInline replaces the hidden record or makes it.
PrepareInline(val) ==
    /\ Serving("scenes") /\ RoomFor(OpenCells(scenes))
    /\ Begin(IF Exists(OpenCells(scenes), OneShot) THEN "update" ELSE "create", OneShot, val, "session")
    /\ UNCHANGED <<scenes, palettes, client, firmware, phase, keep, resolving, scratch, history>>

SceneOps == {"create", "update", "remove"}

\* createImpl, updateImpl and removeImpl look the id up before they write; a request that
\* makes no sense any more is answered with an error and writes nothing.
Accepts(cells, op, key) ==
    IF op = "create" THEN ~Exists(cells, key) ELSE Exists(cells, key)

\* Mutant: an update writes the first record it meets.
StoreWritesFirst(cells, op, rec) ==
    CASE op = "create" -> InsertWrites(cells, rec)
      [] op = "update" -> ReplaceWrites(Min(Matches(cells, rec.key)), rec)
      [] op = "remove" -> RemoveWrites(FindSlot(cells, rec.key))

StoreWrites(cells, op, rec) ==
    CASE op = "create" -> InsertWrites(cells, rec)
      [] op = "update" -> ReplaceWrites(FindSlot(cells, rec.key), rec)
      [] op = "remove" -> RemoveWrites(FindSlot(cells, rec.key))

Rec == [key |-> request.key, val |-> request.val]

SceneSession ==
    /\ phase = "up" /\ request.op \in SceneOps
    /\ LET cells == OpenCells(scenes)
       IN IF Accepts(cells, request.op, request.key)
          THEN /\ scenes' = Commit(Apply(cells, StoreWrites(cells, request.op, Rec)))
               /\ acked' = [acked EXCEPT ![request.key] =
                                IF request.op = "remove" THEN Absent ELSE request.val]
          ELSE /\ scenes' = Commit(cells)
               /\ UNCHANGED acked
    /\ request' = Idle
    /\ UNCHANGED <<palettes, client, firmware, phase, keep, resolving, scratch, damage, faults>>

\* The same, but the disk is full: an error is returned and the session closes the file.
SceneSessionFull ==
    /\ phase = "up" /\ request.op \in SceneOps
    /\ LET cells == OpenCells(scenes)
       IN /\ Accepts(cells, request.op, request.key)
          /\ \E left \in Interrupted(cells, StoreWrites(cells, request.op, Rec)) :
                scenes' = Commit(left)
    /\ Fault("full", {"full"})
    /\ request' = Idle
    /\ UNCHANGED <<palettes, client, firmware, phase, keep, resolving, scratch, acked>>

-----------------------------------------------------------------------------
(***************************************************************************)
(* Palettes: the network task writes, the loop resolves                    *)
(***************************************************************************)
PaletteOps == {"createPalette", "updatePalette", "removePalette"}
Locked == resolving # Nobody

\* Mutant: PUT and DELETE do not ask whether the palette is built in.
CheckNothing(op, name, val) ==
    /\ Serving("palettes")
    /\ ~Locked
    /\ scratch' = IF Exists(OpenCells(palettes), name) THEN Read(OpenCells(palettes), name) ELSE scratch
    /\ Begin(op, name, val, IF op = "removePalette" THEN "session" ELSE "checked")
    /\ UNCHANGED <<scenes, palettes, client, firmware, phase, keep, resolving, history>>

\* PUT and DELETE ask isBuiltin first, which is a get: a session that reads into scratch.
CheckBuiltin(op, name, val) ==
    /\ Serving("palettes")
    /\ ~Locked
    /\ name \notin Builtins
    /\ scratch' = IF Exists(OpenCells(palettes), name) THEN Read(OpenCells(palettes), name) ELSE scratch
    /\ Begin(op, name, val, IF op = "removePalette" THEN "session" ELSE "checked")
    /\ UNCHANGED <<scenes, palettes, client, firmware, phase, keep, resolving, history>>

\* POST has nothing to check.
PostPalette(name, val) ==
    /\ Serving("palettes")
    /\ Begin("createPalette", name, val, "checked")
    /\ UNCHANGED <<scenes, palettes, client, firmware, phase, keep, resolving, scratch, history>>

\* PaletteStore::create and update serialize into the store's scratch buffer before they
\* take the lock.
SerializePalette ==
    /\ phase = "up" /\ request.op \in PaletteOps /\ request.step = "checked"
    /\ scratch' = Rec
    /\ request' = [request EXCEPT !.step = "session"]
    /\ UNCHANGED <<scenes, palettes, client, firmware, phase, keep, resolving, history>>

PaletteOp(op) ==
    CASE op = "createPalette" -> "create"
      [] op = "updatePalette" -> "update"
      [] op = "removePalette" -> "remove"

PaletteSession ==
    /\ phase = "up" /\ request.op \in PaletteOps /\ request.step = "session"
    /\ ~Locked
    /\ LET cells == OpenCells(palettes)
           op == PaletteOp(request.op)
       IN IF Accepts(cells, op, request.key)
          THEN /\ palettes' = Commit(Apply(cells, StoreWrites(cells, op, Rec)))
               /\ scratch' = IF op = "remove" THEN scratch ELSE Rec
          ELSE /\ palettes' = Commit(cells)
               /\ UNCHANGED scratch
    /\ request' = Idle
    /\ UNCHANGED <<scenes, client, firmware, phase, keep, resolving, history>>

\* PaletteRepository::resolve on the loop: get finds the record, reads it into scratch ...
ResolveRead(name) ==
    /\ phase = "up" /\ client = "palettes" /\ ~Locked
    /\ Exists(OpenCells(palettes), name)
    /\ scratch' = Read(OpenCells(palettes), name)
    /\ resolving' = name
    /\ UNCHANGED <<scenes, palettes, client, firmware, phase, keep, request, history>>

\* ... and deserializes it from there.
ResolveDeserialize ==
    /\ Locked
    /\ resolving' = Nobody
    /\ UNCHANGED <<scenes, palettes, client, firmware, phase, keep, request, scratch, history>>

-----------------------------------------------------------------------------
(***************************************************************************)
(* Power                                                                   *)
(***************************************************************************)
Down ==
    /\ phase # "off"
    /\ phase' = "off"
    /\ keep' = 0
    /\ request' = Idle
    /\ resolving' = Nobody
    /\ scratch' = ZERO

\* Power may go at any time; only between the copies and the rewrite does it do harm.
PowerCut ==
    /\ Down
    /\ IF CopiesRemain THEN Fault("cut", {"copies"}) ELSE UNCHANGED <<damage, faults>>
    /\ UNCHANGED <<scenes, palettes, client, firmware, acked>>

\* New firmware with another model version: the next open makes both files anew.
Upgrade ==
    /\ Down
    /\ firmware <= MaxUpgrades
    /\ firmware' = firmware + 1
    /\ acked' = [id \in DOMAIN acked |-> Absent]
    /\ damage' = {}
    /\ UNCHANGED <<scenes, palettes, client, faults>>

Next ==
    \/ EnsureSeeded \/ CompactIfFragmented \/ ShrinkRewrite \/ ShrinkFails
    \/ \E id \in SceneIds, val \in Vals : CreateScene(id, val) \/ UpdateScene(id, val)
    \/ \E id \in SceneIds : DeleteScene(id)
    \/ \E val \in Vals : PrepareInline(val)
    \/ SceneSession \/ SceneSessionFull
    \/ \E name \in Builtins \cup UserPalettes, val \in PaletteVals :
          \/ CheckBuiltin("updatePalette", name, val)
          \/ PostPalette(name, val)
    \/ \E name \in Builtins \cup UserPalettes : CheckBuiltin("removePalette", name, "none")
    \/ SerializePalette \/ PaletteSession
    \/ \E name \in Builtins \cup UserPalettes : ResolveRead(name)
    \/ ResolveDeserialize
    \/ PowerCut \/ Upgrade

Spec == Init /\ [][Next]_vars

-----------------------------------------------------------------------------
(***************************************************************************)
(* Properties                                                              *)
(***************************************************************************)
SceneKeys == SceneIds \cup {OneShot}
Promised(id) == IF acked[id] = Absent THEN NotFound ELSE [key |-> id, val |-> acked[id]]

\* GET /api/scenes: the hidden record is left out.
SceneListing == Listing(OpenCells(scenes), OneShot)

\* findById finds exactly what create, update and remove acknowledged, in every phase of
\* a boot and whenever the power went, and once the boot is done the list of scenes names
\* each of them once and nothing else: the slot file is a map.  A full disk, or power or
\* memory missing between the copies of a compaction and its rewrite, is excepted.
StoreIsMap ==
    damage = {} =>
        /\ \A id \in SceneKeys : Read(OpenCells(scenes), id) = Promised(id)
        /\ phase # "copied" =>
              /\ Len(SceneListing) = Cardinality({id \in SceneIds : acked[id] # Absent})
              /\ Range(SceneListing) = {id \in SceneIds : acked[id] # Absent}

\* Even with the copies of an interrupted compaction in the file, a record that was
\* acknowledged and not removed since is found with its last contents (findById takes the
\* last of several, replaceSerialized writes that one).
AckedSurvive ==
    "full" \notin damage =>
        \A id \in SceneKeys :
            acked[id] # Absent => Read(OpenCells(scenes), id) = Promised(id)

\* A built-in palette can be resolved, unchanged, from the moment the boot has seeded it,
\* whatever requests and power cuts come after (PaletteRepository, isBuiltin).
BuiltinsStay ==
    phase # "off" =>
        \A b \in Builtins : Read(palettes.cells, b) = [key |-> b, val |-> SeedVal]
=============================================================================
