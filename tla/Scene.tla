------------------------------- MODULE Scene -------------------------------
(***************************************************************************)
(* The scene player on the controller and the animation players of its     *)
(* panels.  The controller's loop ticks the scene at its own pace; the     *)
(* panels run what was prepared and started on them on their own.          *)
(*                                                                         *)
(* Time passes in units: Advance is one unit of every clock, and at most   *)
(* MaxLag of them go by between two ticks.  Absolute times of the code are *)
(* kept relative to now.  A START is sent three times and not acknowledged *)
(* (a "deaf" panel misses all three); every other packet is protected hop  *)
(* by hop, which LinkArq models.                                           *)
(***************************************************************************)
EXTENDS RunnerCompile, AnimationPlayer

CONSTANTS Trees,        \* what discovery may have found: [idx, links, x]
          Documents,    \* scenes and one-shots a client may play
          Roots,        \* logical roots a client may set; 0 resets to 1
          Speeds,       \* in tenths
          SpawnPoolMax, \* SPAWN_POOL_MAX
          GroupMax,     \* 254, the largest group
          FadePerWidth, \* SPARKLE_FADE_MS_PER_WIDTH
          FallMs,       \* RAIN_DEFAULT_FALL_MS
          Selectors,    \* selectors compared with their meaning
          Picks,        \* outcomes of the random draws of one tick: [place, off]
          MaxLag,
          MaxEvents     \* calls of clients and faults

VARIABLES layout, \* number of the discovered tree
          sp,     \* ScenePlayer
          seqId,  \* AnimationScheduler::nextSeqId
          pan,    \* the players of the panels
          lag,    \* units since the last tick
          seam,   \* the last step was a tick that found every sync layer done
          moves, faults

vars == <<layout, sp, seqId, pan, lag, seam, moves, faults>>

-----------------------------------------------------------------------------
(* Documents and layouts.                                                  *)

Parse(doc) == IF "fields" \in DOMAIN doc THEN ParseOneShot(doc) ELSE ParseScene(doc)
Parsed == [d \in DOMAIN Documents |-> Parse(Documents[d])]

AllPanels == UNION {ToSet(Trees[t].idx) : t \in DOMAIN Trees}

\* SceneTopology::setLogicalRoot
RootOf(r) == IF r = 0 THEN 1 ELSE r

ViewTable == [t \in DOMAIN Trees |-> [r \in {RootOf(r) : r \in Roots} |-> Rebuild(Trees[t], r)]]

ResolveTargets(scene, view) ==
    [i \in DOMAIN scene.layers |-> ResolvePanels(scene.layers[i].target, view)]

NoScene == [ok |-> TRUE, loop |-> FALSE, speed |-> 10, background |-> 0, layers |-> <<>>]

Layers(s) == s.scene.layers
StepOf(s, i) == s.scene.layers[i].steps[s.cur[i]]
X == Trees[layout].x

IsAsyncLayer(l) == l.async # "" /\ l.startAfter = 0

\* Does the step prepare or clear the layer's own group?
StepUsesLayerGroup(step) == step.animType \notin Sweeps \cup Particles

EffectiveDuration(step, speed) == (step.durationMs * 10) \div speed

-----------------------------------------------------------------------------
(* AnimationScheduler.  w is what a call works on: the player, the next    *)
(* sequence number and the panels, the panels that miss the STARTs of this *)
(* call, its random draws, the layers whose slot is to be released and     *)
(* whether a tick came to the end of a cycle.                              *)

NextSeq(n) == IF n = SeqMax THEN 1 ELSE n + 1

START_FLOOD_SEND_COUNT == 3

SendGroupStart(w, g) ==
    LET heard(pl) == FoldLeft(LAMBDA x, copy : Start(x, w.seqId, g), pl, [k \in 1..START_FLOOD_SEND_COUNT |-> k])
    IN  [w EXCEPT !.seqId = NextSeq(@),
                  !.pan = [p \in DOMAIN @ \ w.deaf |-> heard(@[p])] @@ @]

\* PREPARE on each panel of the domain of anims, then one START.
SendPreparedGroup(w, g, anims) ==
    SendGroupStart([w EXCEPT !.pan = [p \in DOMAIN anims |-> Prepare(@[p], g, anims[p])] @@ @], g)

SendControlToPanels(w, g, panels) ==
    [w EXCEPT !.pan = [p \in ToSet(panels) |-> ControlStop(@[p], g)] @@ @]

BroadcastStopAndBlack(w) ==
    [w EXCEPT !.pan = [p \in DOMAIN @ |-> SetBackground(ControlStop(@[p], 0), 0)]]

BroadcastBackground(w, c) == [w EXCEPT !.pan = [p \in DOMAIN @ |-> SetBackground(@[p], c)]]

TriggerGroup(w, g, value) ==
    [w EXCEPT !.seqId = NextSeq(@), !.pan = [p \in DOMAIN @ |-> UpdateParams(@[p], w.seqId, g, value)]]

-----------------------------------------------------------------------------
(* Firing a step. *)

Shows(step) ==
    [animates |-> step.animates,
     of |-> IF step.animates = "color" THEN step.colorTo
            ELSE [kind |-> "scalar", v |-> IF step.animType \in Runners THEN step.params[P_AMOUNT] ELSE step.valueTo]]

Pulse(step, c, loop, reap) ==
    [type |-> "PULSE", loop |-> loop, reap |-> reap, dur |-> c.dur, delay |-> c.delay, shows |-> Shows(step)]

LitPulses(step, compiled, loop, reap) ==
    [p \in {q \in DOMAIN compiled : compiled[q].lit} |-> Pulse(step, compiled[p], loop, reap)]

StopLayerGroup(w, i) == SendControlToPanels(w, Layers(w.sp)[i].groupId, w.sp.targets[i])

\* The coordinates a runner travels along.  RIPPLE has bands, the others points.
FieldOf(s, i, step, reverse) ==
    LET panels == s.targets[i]
        kind   == step.params[P_SRC_KIND]
        arg    == step.params[P_SRC_ARG]
        points(f) == [coord |-> f.coord, far |-> f.coord, max |-> f.max]
    IN  IF ~HasFlag(step.params[P_FLAGS], GEOMETRIC) \/ ~ValidGeometry(X)
        THEN points(ComputeDistanceField(s.view, panels, kind, arg, reverse))
        ELSE IF step.animType = "RIPPLE"
        THEN ComputeGeometricCenterField(X, s.view, panels, kind, arg, reverse, Resolution(s.view, panels))
        ELSE ComputeGeometricField(X, panels, reverse, Resolution(s.view, panels))

WidthOf(step) == IF step.params[P_WIDTH] < 2 THEN 2 ELSE step.params[P_WIDTH]

BouncePulses(step, f, pass) ==
    LitPulses(step, [p \in DOMAIN f.coord |-> CompileBounce(f.coord[p], f.max, WidthOf(step), pass)], FALSE, FALSE)

\* Each leg of a bounce runs the other way.
FireBouncePass(w, i, pass) ==
    LET step == StepOf(w.sp, i)
    IN  IF w.sp.targets[i] = <<>> \/ pass = 0 THEN w
        ELSE SendPreparedGroup(w, Layers(w.sp)[i].groupId,
                 BouncePulses(step, FieldOf(w.sp, i, step, HasFlag(step.params[P_FLAGS], REVERSE) # w.sp.phase[i]), pass))

StartBounce(w, i, pass) ==
    FireBouncePass([w EXCEPT !.sp.spawn[i].pass = pass, !.sp.spawn[i].flip = pass], i, pass)

FireBounce(w, i) == StartBounce(w, i, AtLeast1(EffectiveDuration(StepOf(w.sp, i), w.sp.speed) \div 2))

\* Blades around a hub.  A wheel that is not to spin on is stopped after one revolution, at
\* a time that divides by the speed once more.  wheelStop: 0 never, 1 now, n + 1 in n units.
SpinWheel(w, i, step, turns, dur) ==
    LET lines == Min({6, AtLeast1(step.params[P_COUNT])})
        spins == IsAsyncLayer(Layers(w.sp)[i]) \/ step.loop
    IN  [SendPreparedGroup(w, Layers(w.sp)[i].groupId,
                           LitPulses(step, [p \in DOMAIN turns |-> CompileWheel(turns[p], lines, dur)], TRUE, FALSE))
            EXCEPT !.sp.spawn[i].wheelStop = IF spins THEN 0 ELSE (dur * 10) \div w.sp.speed + 1]

WheelField(s, i, step) == ComputeWheelField(X, s.view, s.targets[i], step.params[P_SRC_KIND], step.params[P_SRC_ARG])

FireWheel(w, i) ==
    LET step == StepOf(w.sp, i)
        spin(field) == IF field.ok THEN SpinWheel(w, i, step, field.turns, EffectiveDuration(step, w.sp.speed)) ELSE w
    IN  IF ~ValidGeometry(X) THEN w ELSE spin(WheelField(w.sp, i, step))

SpawnPoolNext(s, i) == LET st == s.spawn[i]
                       IN  IF st.size = 0 THEN st.base ELSE st.base + st.cursor

WithNextCursor(w, i) ==
    [w EXCEPT !.sp.spawn[i].cursor = IF w.sp.spawn[i].size = 0 THEN @ ELSE (@ + 1) % w.sp.spawn[i].size]

CompileSweep(step, st, p) ==
    CASE step.animType = "WAVE"   -> CompileWave(st.field.coord[p], st.field.max, st.width, st.dur)
      [] step.animType = "CHASE"  -> CompileChase(st.field.coord[p], st.field.max, st.dur)
      [] OTHER -> CompileRipple(st.field.coord[p], st.field.far[p], st.field.max, st.width, st.dur)

\* Sweeps still to come in this window, one after another as long as they are due.
LaunchSweep(w, i, step, st, count) ==
    LET at   == SpawnSweepStartMs(st.dur, count, st.idx + 1)
        next == IF st.idx + 1 >= count THEN st.next
                ELSE IF at <= w.sp.age[i] THEN 0 ELSE at - w.sp.age[i]
        anim == [p \in DOMAIN st.field.coord |-> CompileSweep(step, st, p)]
    IN  IF st.idx >= count \/ st.next > 0 THEN w
        ELSE [WithNextCursor(SendPreparedGroup(w, SpawnPoolNext(w.sp, i), LitPulses(step, anim, FALSE, TRUE)), i)
                EXCEPT !.sp.spawn[i].idx = @ + 1, !.sp.spawn[i].next = next]

ServiceSweepSpawner(w, i) ==
    LET step  == StepOf(w.sp, i)
        count == SweepSpawnCount(step.params[P_COUNT])
        launch(u, k) == LaunchSweep(u, i, step, u.sp.spawn[i], count)
    IN  IF w.sp.spawn[i].dur = 0 THEN w
        ELSE FoldLeft(launch, w, [k \in 1..count |-> k])

FireSweep(w, i) ==
    LET step == StepOf(w.sp, i)
        begun(st) == [st EXCEPT !.field = FieldOf(w.sp, i, step, HasFlag(step.params[P_FLAGS], REVERSE)),
                                !.width = WidthOf(step), !.dur = EffectiveDuration(step, w.sp.speed),
                                !.idx = 0, !.next = 0]
    IN  ServiceSweepSpawner([w EXCEPT !.sp.spawn[i] = begun(@)], i)

PlayOnPanels(w, i) ==
    LET step == StepOf(w.sp, i)
        anim == [type |-> step.animType, loop |-> step.loop, reap |-> FALSE, delay |-> 0,
                 dur |-> EffectiveDuration(step, w.sp.speed), shows |-> Shows(step)]
    IN  SendPreparedGroup(w, Layers(w.sp)[i].groupId, [p \in ToSet(w.sp.targets[i]) |-> anim])

FireStep(w, i) ==
    LET step == StepOf(w.sp, i)
        kind == step.animType
    IN  IF kind = "GAP" THEN StopLayerGroup(w, i)
        ELSE IF w.sp.targets[i] = <<>> THEN w
        ELSE IF kind \in Particles
        THEN [w EXCEPT !.sp.spawn[i].accum = 0, !.sp.spawn[i].svc = 0]
        ELSE IF kind \in Runners /\ EffectiveDuration(step, w.sp.speed) = 0 THEN w
        ELSE CASE kind = "BOUNCE"   -> FireBounce(w, i)
               [] kind = "WHEEL"    -> FireWheel(w, i)
               [] kind \in Sweeps   -> FireSweep(w, i)
               [] kind \in Local    -> PlayOnPanels(w, i)

-----------------------------------------------------------------------------
(* The particle spawners: RAIN, SPARKLE and MATRIX. *)

Scaled(n, speed) == AtLeast1((n * 10) \div speed)

\* A chain of panels with the pulse of each, by its place in the chain or counted from its end.
Chain(path, fall, rings, len, reverse) ==
    [p \in ToSet(path) |-> LET pos == SelectInSeq(path, LAMBDA q : q = p) - 1
                           IN  RainDropAt(fall, rings, IF reverse THEN Len(path) - 1 - pos ELSE pos, len)]

\* A straight line down a row of panels meets all of them.
Line(s, fall, rings, reverse) ==
    LET y(p)  == Down(X, reverse, p)
        all   == Panels(s.view)
        top   == Min({y(p) : p \in all})
        span  == AtLeast1(Max({y(p) : p \in all}) - top)
    IN  [p \in all |-> [lit |-> TRUE, delay |-> ((y(p) - top) * fall) \div span,
                        dur |-> AtLeast1((AtLeast1(rings) * fall) \div span)]]

\* The pulses of one drop; pick decides where it falls.
DropPulses(s, i, pick) ==
    LET step    == StepOf(s, i)
        v       == s.view
        width   == step.params[P_WIDTH]
        reverse == HasFlag(step.params[P_FLAGS], REVERSE)
        fall    == Scaled(IF step.speedMs # 0 THEN step.speedMs ELSE FallMs, s.speed)
        at(places) == places[(pick.place % Len(places)) + 1]
        geometric  == HasFlag(step.params[P_FLAGS], GEOMETRIC) /\ ValidGeometry(X)
        path    == SpawnBuildPath(v, at(SelectSeq(v.idx, LAMBDA p : IsLeaf(v, p))))
        streak  == Streak(X, v, reverse, at(Tops(X, v, reverse)))
    IN  CASE step.animType = "SPARKLE" ->
                [p \in {at(s.targets[i])} |-> SparkleFlash(Scaled(width * FadePerWidth, s.speed))]
          [] step.animType = "MATRIX" /\ geometric -> Line(s, fall, width, reverse)
          [] step.animType = "MATRIX" /\ ~geometric ->
                Chain(path, fall, width, AtLeast1(MaxDepth(v)) + 1, reverse)
          [] step.animType = "RAIN" /\ geometric -> Chain(streak, fall, width, Len(streak), FALSE)
          [] step.animType = "RAIN" /\ ~geometric -> Chain(path, fall, width, Len(path), reverse)

\* sendDropPrepare on each panel of a drop; its onset is scattered within the interval.
SpawnDrop(w, i) ==
    LET step == StepOf(w.sp, i)
        off  == w.pick.off % SpawnInterval(AtLeast1(step.params[P_COUNT]))
        late(c) == [c EXCEPT !.delay = @ + off]
        c    == DropPulses(w.sp, i, w.pick)
    IN  WithNextCursor(SendPreparedGroup(w, SpawnPoolNext(w.sp, i),
                                         LitPulses(step, [p \in DOMAIN c |-> late(c[p])], FALSE, TRUE)), i)

ServiceSpawner(w, i) ==
    LET step == StepOf(w.sp, i)
        st   == w.sp.spawn[i]
        due  == SpawnDueCount(st.accum, st.svc, AtLeast1(step.params[P_COUNT]))
        u    == [w EXCEPT !.sp.spawn[i].accum = due.accum, !.sp.spawn[i].svc = 0]
    IN  IF st.size = 0 THEN w
        ELSE IF step.animType \in Sweeps THEN ServiceSweepSpawner(w, i)
        ELSE IF step.animType = "SPARKLE" /\ w.sp.targets[i] = <<>> THEN u
        ELSE FoldLeft(LAMBDA x, d : SpawnDrop(x, i), u, [d \in 1..due.count |-> d])

-----------------------------------------------------------------------------
(* Arming and stopping. *)

LayerIsSpawner(l) == \E s \in DOMAIN l.steps : l.steps[s].animType \in Sweeps \cup Particles
LayerIsSweepSpawner(l) == \E s \in DOMAIN l.steps : l.steps[s].animType \in Sweeps

MaxSweepCountForLayer(l) ==
    Max({1} \cup {SweepSpawnCount(l.steps[s].params[P_COUNT]) :
                    s \in {t \in DOMAIN l.steps : l.steps[t].animType \in Sweeps}})

NoSpawn == [base |-> 0, size |-> 0, cursor |-> 0, accum |-> 0, svc |-> 0,
            field |-> [coord |-> <<>>, far |-> <<>>, max |-> 0], width |-> 0, dur |-> 0, idx |-> 0, next |-> 0,
            wheelStop |-> 0, flip |-> 0, pass |-> 0]

OneGroupPerSweep(l) == MaxSweepCountForLayer(l)

\* One group for a sweep that is still draining when the next begins.
SweepPoolSize(l) == MaxSweepCountForLayer(l) + 1

\* Drops and sweeps run on groups above those of the layers, shared alike among the layers
\* that have any.
RegionStart(layers) == Max({layers[i].groupId : i \in DOMAIN layers}) + 1

GroupsPerSpawner(layers) ==
    LET start == RegionStart(layers)
        avail == IF GroupMax >= start THEN GroupMax - start + 1 ELSE 0
    IN  Min({SpawnPoolMax, avail \div Cardinality({i \in DOMAIN layers : LayerIsSpawner(layers[i])})})

AllocSpawnPools(layers) ==
    LET spawners == SelectSeq([i \in DOMAIN layers |-> i], LAMBDA i : LayerIsSpawner(layers[i]))
        start    == RegionStart(layers)
        per      == GroupsPerSpawner(layers)
        size(l)  == IF LayerIsSweepSpawner(l) THEN Min({SweepPoolSize(l), per}) ELSE per
        rank(i)  == SelectInSeq(spawners, LAMBDA j : j = i)
    IN  [i \in DOMAIN layers |->
           IF ~LayerIsSpawner(layers[i]) THEN NoSpawn
           ELSE [NoSpawn EXCEPT !.base = start + (rank(i) - 1) * per, !.size = size(layers[i])]]

ArmLayer(l) == IF l.disabled THEN "DONE" ELSE IF l.startAfter = 0 THEN "RUNNING" ELSE "WAITING"

ArmLayers(w, includeAsync) ==
    LET layers == Layers(w.sp)
        armed(i) == includeAsync \/ ~IsAsyncLayer(layers[i])
        s == [w.sp EXCEPT !.cur = [i \in DOMAIN @ |-> IF armed(i) THEN 1 ELSE @[i]],
                          !.age = [i \in DOMAIN @ |-> IF armed(i) THEN 0 ELSE @[i]],
                          !.st  = [i \in DOMAIN @ |-> IF armed(i) THEN ArmLayer(layers[i]) ELSE @[i]]]
        fire(u, i) == IF armed(i) /\ s.st[i] = "RUNNING" THEN FireStep(u, i) ELSE u
    IN  FoldLeftDomain(fire, [w EXCEPT !.sp = s], layers)

StopScene(w) ==
    BroadcastStopAndBlack([w EXCEPT !.sp.playing = FALSE,
                                    !.sp.st = [i \in DOMAIN @ |-> "WAITING"],
                                    !.sp.phase = [i \in DOMAIN @ |-> FALSE]])

\* loadAndPlay, playPreloaded and resume all end here.
Armed(s, scene, speed) ==
    LET n == DOMAIN scene.layers
    IN  [s EXCEPT !.playing = TRUE, !.scene = scene, !.speed = speed,
                  !.targets = ResolveTargets(scene, s.view),
                  !.st = [i \in n |-> "WAITING"], !.cur = [i \in n |-> 1], !.age = [i \in n |-> 0],
                  !.phase = [i \in n |-> FALSE], !.spawn = AllocSpawnPools(scene.layers)]

ArmScene(w, scene, speed) ==
    ArmLayers([BroadcastBackground(StopScene(w), scene.background) EXCEPT !.sp = Armed(@, scene, speed)], TRUE)

-----------------------------------------------------------------------------
(* tick. *)

\* A step still inside its window.
FlipBounce(w, i) ==
    IF w.sp.spawn[i].flip > 0 THEN w
    ELSE FireBouncePass([w EXCEPT !.sp.phase[i] = ~@, !.sp.spawn[i].flip = @ + w.sp.spawn[i].pass],
                        i, w.sp.spawn[i].pass)

ServiceStep(w, i) ==
    LET kind == StepOf(w.sp, i).animType
        flip(u, k) == FlipBounce(u, i)
    IN  CASE kind = "WHEEL"  -> IF w.sp.spawn[i].wheelStop # 1 THEN w
                                ELSE StopLayerGroup([w EXCEPT !.sp.spawn[i].wheelStop = 0], i)
          [] kind = "BOUNCE" -> FoldLeft(flip, w, [k \in 1..(MaxLag + 1) |-> k])
          [] kind \in Sweeps \cup Particles -> ServiceSpawner(w, i)
          [] OTHER -> w

\* The window is over: the next step, the first again for an async layer, or the end.
NextStep(w, i) ==
    LET l == Layers(w.sp)[i]
        k == IF w.sp.cur[i] < Len(l.steps) THEN w.sp.cur[i] + 1 ELSE IF IsAsyncLayer(l) THEN 1 ELSE 0
    IN  IF k = 0 THEN [w EXCEPT !.sp.st[i] = "DONE", !.sp.age[i] = 0, !.stops = @ \cup {i}]
        ELSE FireStep([w EXCEPT !.sp.cur[i] = k, !.sp.age[i] = 0], i)

TickLayer(w, i) ==
    LET step == StepOf(w.sp, i) IN
    IF w.sp.st[i] # "RUNNING" THEN w
    ELSE IF step.durationMs = 0
    THEN IF step.animType \in Sweeps \cup Particles THEN ServiceSpawner(w, i) ELSE w
    ELSE IF w.sp.age[i] < EffectiveDuration(step, w.sp.speed) THEN ServiceStep(w, i)
    ELSE NextStep(w, i)

DependencyStepOnly(s, dep, step) == step # NoStep /\ s.cur[dep] > step

DependencySatisfied(s, dep, step) ==
    \/ s.st[dep] = "DONE"
    \/ step # NoStep /\ s.cur[dep] > step

PromoteReadyLayers(w) ==
    LET layers == Layers(w.sp)
        promote(u, i) ==
            IF u.sp.st[i] # "WAITING" THEN u
            ELSE IF ~DependencySatisfied(u.sp, LayerOfGroup(layers, layers[i].startAfter), layers[i].startAfterStep) THEN u
            ELSE FireStep([u EXCEPT !.sp.st[i] = "RUNNING", !.sp.cur[i] = 1, !.sp.age[i] = 0], i)
    IN  FoldLeftDomain(promote, w, layers)

RestartAlwaysReclaims(l) == TRUE

\* Will the restart of the cycle take the layer's slot over, or was it never used?
RestartReclaimsLayerSlot(l) ==
    /\ ~IsAsyncLayer(l) /\ ~l.disabled /\ l.startAfter = 0
    /\ \/ StepUsesLayerGroup(l.steps[1])
       \/ \A s \in 2..Len(l.steps) : ~StepUsesLayerGroup(l.steps[s])

FlushPendingStops(w, restarting) ==
    LET layers == Layers(w.sp)
        flush(u, i) == IF i \notin w.stops \/ (restarting /\ RestartReclaimsLayerSlot(layers[i])) THEN u
                       ELSE StopLayerGroup(u, i)
    IN  FoldLeftDomain(flush, w, layers)

SyncLayers(s) == {i \in DOMAIN Layers(s) : ~Layers(s)[i].disabled /\ ~IsAsyncLayer(Layers(s)[i])}
AllSyncDone(s) == \A i \in SyncLayers(s) : s.st[i] = "DONE"
AnyBlockingAsync(s) ==
    \E i \in DOMAIN Layers(s) : IsAsyncLayer(Layers(s)[i]) /\ ~Layers(s)[i].disabled /\ Layers(s)[i].async = "loop"

EndCycle(w) ==
    IF ~w.seam THEN w
    ELSE IF w.sp.scene.loop THEN ArmLayers(w, FALSE)
    ELSE [w EXCEPT !.sp.playing = AnyBlockingAsync(w.sp)]

CycleDone(s) == SyncLayers(s) # {} /\ AllSyncDone(s)

Barrier(w) == EndCycle([FlushPendingStops(w, CycleDone(w.sp) /\ w.sp.scene.loop) EXCEPT !.seam = CycleDone(w.sp)])

Tick(w) == Barrier(PromoteReadyLayers(FoldLeftDomain(TickLayer, w, Layers(w.sp))))

-----------------------------------------------------------------------------
(* The system. *)

NoPick == [place |-> 0, off |-> 0]
World(deaf, pick) == [sp |-> sp, seqId |-> seqId, pan |-> pan, deaf |-> deaf, pick |-> pick, stops |-> {}, seam |-> FALSE]

Commit(result) ==
    \E w \in {result} : /\ sp' = w.sp /\ seqId' = w.seqId /\ pan' = w.pan /\ seam' = w.seam
                        /\ faults' = faults + IF w.deaf = {} THEN 0 ELSE 1

\* One panel may miss the STARTs of a call that costs n events.
Deaf(n) == {{}} \cup {{p} : p \in IF moves + n + faults < MaxEvents THEN AllPanels ELSE {}}

Init == /\ layout \in DOMAIN Trees
        /\ sp = [playing |-> FALSE, scene |-> NoScene, speed |-> 10, root |-> 1, view |-> ViewTable[layout][1],
                 targets |-> <<>>, st |-> <<>>, cur |-> <<>>, age |-> <<>>, phase |-> <<>>, spawn |-> <<>>]
        /\ seqId = 1
        /\ pan = [p \in AllPanels |-> NewPlayer]
        /\ lag = 0 /\ seam = FALSE /\ moves = 0 /\ faults = 0

\* The random draws matter only while a particle step is on.
DrawsFor(s) == IF s.playing /\ \E i \in DOMAIN Layers(s) : s.st[i] = "RUNNING" /\ StepOf(s, i).animType \in Particles
               THEN Picks ELSE {NoPick}

ControllerTick ==
    /\ sp.playing
    /\ \E deaf \in Deaf(0), pick \in DrawsFor(sp) : Commit(Tick(World(deaf, pick)))
    /\ lag' = 0
    /\ UNCHANGED <<layout, moves>>

\* A loop that has no scene to tick still goes round.
IdleTick == /\ ~sp.playing /\ lag > 0
            /\ lag' = 0 /\ seam' = FALSE
            /\ UNCHANGED <<layout, sp, seqId, pan, moves, faults>>

\* The times of a layer, one unit later.  Only what the current step reads is kept moving.
AgeLayer(s, i) ==
    LET step == StepOf(s, i)
        st   == s.spawn[i]
        sub(n, floor) == IF n > floor THEN n - 1 ELSE n
    IN  CASE step.animType \in Sweeps    -> [st EXCEPT !.next = sub(@, 0)]
          [] step.animType \in Particles -> [st EXCEPT !.svc = @ + 1]
          [] step.animType = "WHEEL"     -> [st EXCEPT !.wheelStop = sub(@, 1)]
          [] step.animType = "BOUNCE"    -> [st EXCEPT !.flip = @ - 1]
          [] OTHER -> st

AgeScene(s) ==
    IF ~s.playing THEN s
    ELSE LET on(i)  == s.st[i] = "RUNNING"
             top(i) == IF StepOf(s, i).durationMs > 0 THEN s.age[i] + 1
                       ELSE Min({s.age[i] + 1, s.spawn[i].dur})
         IN  [s EXCEPT !.age = [i \in DOMAIN @ |-> IF on(i) THEN top(i) ELSE 0],
                       !.spawn = [i \in DOMAIN @ |-> IF on(i) THEN AgeLayer(s, i) ELSE @[i]]]

Advance == /\ lag < MaxLag
           /\ lag' = lag + 1
           /\ sp' = AgeScene(sp)
           /\ pan' = [p \in AllPanels |-> Composite(pan[p])]
           /\ seam' = FALSE
           /\ UNCHANGED <<layout, seqId, moves, faults>>

Quiet == World({}, NoPick)

\* A call of a client.
Call(result) == /\ moves + faults < MaxEvents
                /\ Commit(result)
                /\ moves' = moves + 1
                /\ UNCHANGED <<layout, lag>>

\* A document that is refused changes nothing.
Play == \E deaf \in Deaf(1), d \in {d \in DOMAIN Documents : Parsed[d].ok} :
            Call(ArmScene(World(deaf, NoPick), Parsed[d], Parsed[d].speed))

Loaded(s) == s.scene.layers # <<>>

\* Stopping and resuming are always possible and not counted.
Stop == Loaded(sp) /\ Commit(StopScene(Quiet)) /\ UNCHANGED <<layout, lag, moves>>

ResumeScene(w) == IF Loaded(w.sp) THEN ArmScene(w, w.sp.scene, w.sp.speed) ELSE w

Resume == Loaded(sp) /\ ~sp.playing /\ Commit(ResumeScene(Quiet)) /\ UNCHANGED <<layout, lag, moves>>

SetSpeed(s) == s # sp.speed /\ Call([Quiet EXCEPT !.sp.speed = ClampSpeed(s)])

\* SceneTopology::setLogicalRoot rebuilds the view; a scene that plays starts over on it.
Rooted(s, r) ==
    [s EXCEPT !.root = r, !.view = ViewTable[layout][r], !.targets = ResolveTargets(s.scene, ViewTable[layout][r])]

Reroot(w) == IF w.sp.playing THEN ResumeScene(w) ELSE w

SetLogicalRoot(r) == Call(Reroot([Quiet EXCEPT !.sp = Rooted(@, RootOf(r))]))

Trigger == \E i \in DOMAIN sp.st : Call(TriggerGroup(Quiet, Layers(sp)[i].groupId, 2))

Next == \/ Advance \/ ControllerTick \/ IdleTick
        \/ Play \/ Stop \/ Resume \/ Trigger
        \/ \E s \in Speeds : SetSpeed(s)
        \/ \E r \in Roots : SetLogicalRoot(r)

\* Time goes on (Advance) and the controller's loop comes round (ControllerTick or IdleTick);
\* clients owe nothing.
Fairness == /\ WF_lag(lag < MaxLag /\ lag' = lag + 1)
            /\ WF_lag(lag > 0 /\ lag' = 0)

Spec == Init /\ [][Next]_vars /\ Fairness

-----------------------------------------------------------------------------
(* Properties. *)

\* The step whose frame the layer's own slot holds: the last one up to the current step
\* that claims it.  An infinite BOUNCE or WHEEL, or a WHEEL without bearings, claims nothing.
Claims(i, step) ==
    /\ StepUsesLayerGroup(step)
    /\ step.animType \in {"BOUNCE", "WHEEL"} => step.durationMs # 0
    /\ step.animType = "WHEEL" => /\ ValidGeometry(X)
                                  /\ WheelField(sp, i, step).ok

ShownStep(i) == Max({0} \cup {k \in 1..sp.cur[i] : Claims(i, Layers(sp)[i].steps[k])})

SlotShows(slot, step) ==
    /\ slot.cur.type = IF step.animType \in Runners THEN "PULSE" ELSE step.animType
    /\ slot.cur.shows = Shows(step)

\* LayersShowTheirStep: while a scene plays, the slot of a layer on a panel holds the frame of
\* the step the layer is at, on every panel the layer's selector picks and on no other; a layer
\* that waits, is done, is disabled or is in a gap holds nothing, so the layers below show
\* through.  A panel that missed the START keeps the PREPARE; a WHEEL is stopped after its
\* revolution; an async layer that starts over with a sweep still holds its last frame
\* (fireStep, flushPendingStops, stopLayerGroup, armScene).
LayersShowTheirStep ==
    sp.playing =>
      \A i \in DOMAIN sp.st, p \in AllPanels :
        LET layer == Layers(sp)[i]
            g     == layer.groupId
            held  == g \in DOMAIN pan[p].slots
            k     == IF sp.st[i] = "RUNNING" /\ p \in ToSet(sp.targets[i]) THEN ShownStep(i) ELSE 0
            wraps == IsAsyncLayer(layer) /\ k = 0 /\ sp.st[i] = "RUNNING"
        IN  \/ held /\ pan[p].slots[g].pending # NoAnim
            \/ k # 0 /\ layer.steps[k].animType # "GAP" /\ held /\ SlotShows(pan[p].slots[g], layer.steps[k])
            \/ ~held /\ (k = 0 \/ layer.steps[k].animType \in {"GAP", "WHEEL"})
            \/ held /\ wraps /\ SlotShows(pan[p].slots[g], Last(layer.steps))

\* How long the groups a sweep layer is due take to come round again, at the pace of its sweeps:
\* one group more than there are sweeps in a window, or its share of the free ones if that is less.
PoolRound(layers, i) ==
    LET step  == layers[i].steps[1]
        count == SweepSpawnCount(step.params[P_COUNT])
    IN  (Min({count + 1, GroupsPerSpawner(layers)}) * step.durationMs) \div count

\* SweepsRunToTheirEnd: in a layer of one sweep step played at the scene's own speed, a sweep
\* that has begun on a panel is not overwritten before it has run to its end, or, where the free
\* group numbers are too few for that, before as many later sweeps were due as the layer has
\* groups.  The sweep itself may have begun late, by less than the longest time between two
\* ticks (allocSpawnPools, spawnPoolNext, serviceSweepSpawner).
SweepsRunToTheirEnd ==
    [][\A i \in DOMAIN sp.st, p \in AllPanels :
         /\ moves' = moves /\ sp'.playing
         /\ sp.playing /\ sp.speed = sp.scene.speed
         /\ Len(Layers(sp)[i].steps) = 1 /\ Layers(sp)[i].steps[1].animType \in Sweeps
         => \A g \in DOMAIN pan[p].slots \cap (sp.spawn[i].base)..(sp.spawn[i].base + sp.spawn[i].size - 1) :
              LET s == pan[p].slots[g] IN
              InProgress(s) => \/ lag' > lag /\ s.age + 1 >= EndOf(s.cur)
                               \/ s.age + MaxLag > PoolRound(Layers(sp), i)
                               \/ /\ g \in DOMAIN pan'[p].slots
                                  /\ pan'[p].slots[g].cur = s.cur
                                  /\ pan'[p].slots[g].age >= s.age]_vars

\* A scene whose sync layers can all end: none is endless, none waits for an async layer.
CanFinish(layers) ==
    LET sync == {i \in DOMAIN layers : ~layers[i].disabled /\ ~IsAsyncLayer(layers[i])}
    IN  /\ sync # {}
        /\ \A i \in sync :
             /\ \A s \in DOMAIN layers[i].steps : layers[i].steps[s].durationMs # 0
             /\ layers[i].startAfter # 0 =>
                  LET l == layers[LayerOfGroup(layers, layers[i].startAfter)] IN l.disabled \/ ~IsAsyncLayer(l)

\* CyclesComplete: a scene whose sync layers can all end comes to the end of its cycle, however
\* its layers wait for one another's sequences or steps, unless it is stopped or replaced
\* (dependencySatisfied, promoteReadyLayers, the barrier of tick).
CyclesComplete ==
    LET running == sp.playing /\ CanFinish(sp.scene.layers)
    IN  running ~> (seam \/ ~running)

-----------------------------------------------------------------------------
(* What a selector means, told by the connector paths of a tree.           *)

\* The connectors to follow from the root to p, and the panels on the way.
Steps(t) == UNION {{[from |-> l.a, by |-> l.ea, to |-> l.b], [from |-> l.b, by |-> l.eb, to |-> l.a]} : l \in ToSet(t.links)}
WaysTo(t, r, p) == {w \in UNION {[1..n -> Steps(t)] : n \in 0..(Len(t.idx) - 1)} :
                      /\ IF w = <<>> THEN p = r ELSE w[1].from = r /\ w[Len(w)].to = p
                      /\ \A k \in 1..(Len(w) - 1) : w[k].to = w[k + 1].from
                      /\ \A k \in DOMAIN w : w[k].to # r /\ \A j \in DOMAIN w : j # k => w[j].to # w[k].to}
WayTo(t, r, p) == CHOOSE w \in WaysTo(t, r, p) : TRUE

\* Everything about a tree seen from r that a selector speaks of.
Told(t, r) ==
    LET all     == ToSet(t.idx)
        way     == [p \in all |-> WayTo(t, r, p)]
        prefix(u, w) == Len(u) <= Len(w) /\ \A k \in DOMAIN u : u[k] = w[k]
        before(p, q) == \/ p # q /\ prefix(way[p], way[q])
                        \/ \E k \in DOMAIN way[p] \cap DOMAIN way[q] :
                              way[p][k].by < way[q][k].by /\ \A j \in 1..(k - 1) : way[p][j] = way[q][j]
    IN  [all   |-> all, root |-> r,
         depth |-> [p \in all |-> Len(way[p])],
         below |-> [p \in all |-> {q \in all : prefix(way[p], way[q])}],
         next  |-> [p \in all |-> {s.to : s \in {x \in Steps(t) : x.from = p}}],
         place |-> [p \in all |-> Cardinality({q \in all : before(q, p)})]]

RECURSIVE Meaning(_, _)
Meaning(d, m) ==
    LET n      == Cardinality(m.all)
        kids(p) == {q \in m.below[p] : m.depth[q] = m.depth[p] + 1}
        of(k)  == Meaning(d.of[k], m)
        in255(hundredths) == (hundredths * 255 + 50) \div 100
    IN  CASE d.sel = "all"       -> m.all
          [] d.sel = "root"      -> {m.root}
          [] d.sel = "leaves"    -> {p \in m.all : m.below[p] = {p}}
          [] d.sel = "branches"  -> {p \in m.all : Cardinality(kids(p)) >= 2}
          [] d.sel = "even"      -> {p \in m.all : m.place[p] % 2 = 0}
          [] d.sel = "odd"       -> {p \in m.all : m.place[p] % 2 = 1}
          [] d.sel = "depth"     -> {p \in m.all : m.depth[p] \in d.lo..d.hi}
          [] d.sel = "subtree"   -> IF d.n \in m.all THEN m.below[d.n] ELSE {}
          [] d.sel = "neighbors" -> IF d.n \in m.all THEN m.next[d.n] ELSE {}
          [] d.sel = "first"     -> {p \in m.all : m.place[p] < d.n}
          [] d.sel = "last"      -> {p \in m.all : m.place[p] + d.n >= n}
          [] d.sel = "fraction"  -> {p \in m.all : 255 * m.place[p] \in (in255(d.lo) * (n - 1))..(in255(d.hi) * (n - 1))}
          [] d.sel = "indices"   -> ToSet(d.list) \cap m.all
          [] d.sel = "exclude"   -> m.all \ ToSet(d.list)
          [] d.sel = "not"       -> m.all \ of(1)
          [] d.sel = "any"       -> UNION {of(k) : k \in DOMAIN d.of}
          [] d.sel = "every"     -> {p \in m.all : \A k \in DOMAIN d.of : p \in of(k)}

RECURSIVE Nesting(_)
Nesting(d) == IF "of" \notin DOMAIN d THEN 0 ELSE 1 + Max({Nesting(d.of[k]) : k \in DOMAIN d.of})

\* A root that was not discovered is replaced by the lowest panel.
SeenFrom(t, r) == Told(t, IF r \in ToSet(t.idx) THEN r ELSE Min(ToSet(t.idx)))

MeaningTable ==
    [t \in DOMAIN Trees |-> [r \in DOMAIN ViewTable[t] |->
        LET told == SeenFrom(Trees[t], r)
            right(sel) == LET c == ParsePanelSelector(sel)
                          IN  c.ok => ToSet(ResolvePanels(c.ops, ViewTable[t][r])) = Meaning(sel, told)
        IN  \A sel \in Selectors : Nesting(sel) < SelStackMax => right(sel)]]

\* SelectorsPickTheirPanels: on the discovered tree, seen from any logical root, the program a
\* selector compiles to picks the panels the selector describes: depth is the length of the way
\* from the root, the order is that of the connectors followed, composition is that of sets
\* (selAppend, resolveSelector, TopologyIndex).  The bounds of a fraction are taken to the nearest
\* 255th, a half upwards: the middle one of an odd number of panels is in 0-0.5 and not in 0.5-1.
\* A selector nested deeper than the machine's stack is left out.
SelectorsPickTheirPanels == MeaningTable[layout][sp.root]
=============================================================================
