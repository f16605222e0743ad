---------------------------- MODULE SceneParser ----------------------------
(***************************************************************************)
(* From a scene document to the layers the scene player runs: the fields   *)
(* of a step, the fields of a layer, group names, and the validation that  *)
(* ties the layers together.  The text of a document is external; here a   *)
(* step is the sequence of its <<key, value>> pairs, in order, and a layer *)
(* a record of its keys ("" or <<>> where a key is absent).  A value of    *)
(* the wrong JSON type is rejected before these definitions see it.        *)
(***************************************************************************)
EXTENDS Topology

CONSTANTS MaxLayers, MaxSteps \* SCENE_MAX_LAYERS, SCENE_MAX_STEPS

Local == {"SOLID", "FADE", "TRANSITION", "BREATHE", "PULSE", "BLINK", "HUE_CYCLE", "STROBE", "REACTIVE"}
Sweeps == {"WAVE", "RIPPLE", "CHASE"}
Particles == {"RAIN", "SPARKLE", "MATRIX"}
Runners == Sweeps \cup Particles \cup {"WHEEL", "BOUNCE"}
Targets == {"color", "dim", "desaturate", "hue", "invert", "brighten", "saturate"}
Blends == {"default", "opaque", "add", "max", "multiply", "screen", "darken", "overlay", "difference", "subtract"}

\* Positions of SceneStep::params.
P_WIDTH == 0
P_SRC_KIND == 1
P_SRC_ARG == 2
P_FLAGS == 3
P_AMOUNT == 4
P_COUNT == 5

REVERSE == 1
GEOMETRIC == 2
HasFlag(flags, bit) == (flags \div bit) % 2 = 1
SetFlag(flags, bit) == IF HasFlag(flags, bit) THEN flags ELSE flags + bit
ClearFlag(flags, bit) == IF HasFlag(flags, bit) THEN flags - bit ELSE flags

Black == [kind |-> "rgb", v |-> 0]

NewStep == [animType |-> "SOLID", loop |-> FALSE, pingpong |-> FALSE, durationMs |-> 0,
            colorFrom |-> Black, colorTo |-> Black, params |-> [i \in 0..5 |-> 0],
            speedMs |-> 0, animates |-> "color", valueFrom |-> 0, valueTo |-> 0]

ValidColorRef(c) == CASE c.kind = "palette"  -> c.v <= 255
                      [] c.kind = "useColor" -> c.v <= 2
                      [] OTHER               -> TRUE

-----------------------------------------------------------------------------
(* handleStepField, one definition per family of keys.  st is [ok, hasType, *)
(* id, step].                                                               *)

Reject(st) == [st EXCEPT !.ok = FALSE]
Param(st, pos, v) == [st EXCEPT !.step.params[pos] = v]

StepKind(st, key, v) ==
    LET known == v \in IF key = "type" THEN Local ELSE Runners
    IN  IF ~known \/ st.hasType THEN Reject(st)
        ELSE [st EXCEPT !.hasType = TRUE, !.step.animType = v]

\* Colours, duration (a 16-bit field, stored unchecked), flags, raw parameters.
StepAppearance(st, key, v) ==
    CASE key = "colorFrom" -> IF ValidColorRef(v) THEN [st EXCEPT !.step.colorFrom = v] ELSE Reject(st)
      [] key \in {"colorTo", "color"} ->
            IF ValidColorRef(v) THEN [st EXCEPT !.step.colorTo = v] ELSE Reject(st)
      [] key = "duration" -> [st EXCEPT !.step.durationMs = v % 65536]
      [] key = "loop" -> [st EXCEPT !.step.loop = @ \/ v]
      [] key = "pingpong" -> [st EXCEPT !.step.pingpong = @ \/ v]
      [] key = "params" ->
            IF Len(v) > 5 \/ \E i \in DOMAIN v : v[i] > 255 THEN Reject(st)
            ELSE [st EXCEPT !.step.params = [i \in 0..5 |-> IF i + 1 \in DOMAIN v THEN v[i + 1] ELSE @[i]]]
      [] key = "from" -> IF v <= 255 THEN [st EXCEPT !.step.valueFrom = v] ELSE Reject(st)
      [] key = "to" -> IF v <= 255 THEN [st EXCEPT !.step.valueTo = v] ELSE Reject(st)

\* Where the runner's field emanates from and how it is measured.
StepDirection(st, key, v) ==
    LET flags == st.step.params[P_FLAGS] IN
    CASE key = "source" /\ v.kind = "geometric" -> Param(st, P_FLAGS, SetFlag(flags, GEOMETRIC))
      [] key = "source" /\ v.kind = "panel" ->
            IF v.n \in 1..255 THEN Param(Param(st, P_SRC_KIND, SRC_PANEL), P_SRC_ARG, v.n) ELSE Reject(st)
      [] key = "source" /\ v.kind \in {"root", "leaves", "all"} ->
            Param(st, P_SRC_KIND, CASE v.kind = "root" -> SRC_ROOT
                                    [] v.kind = "leaves" -> SRC_LEAVES
                                    [] v.kind = "all" -> SRC_ALL)
      [] key = "originPanel" ->
            IF v \in 1..255 THEN Param(Param(st, P_SRC_KIND, SRC_PANEL), P_SRC_ARG, v) ELSE Reject(st)
      [] key = "directionality" ->
            CASE v = "geometric" -> Param(st, P_FLAGS, SetFlag(flags, GEOMETRIC))
              [] v = "topology" -> Param(st, P_FLAGS, ClearFlag(flags, GEOMETRIC))
              [] OTHER -> Reject(st)
      [] key = "reverse" -> IF v THEN Param(st, P_FLAGS, SetFlag(flags, REVERSE)) ELSE st
      [] key = "angle" -> Param(st, P_SRC_ARG, (v % 360) \div 2)
      [] OTHER -> Reject(st)

\* Numbers with a range of their own; WHEEL's lines, the sweep count and the drop rate
\* share one position.
Numbers == [width |-> [pos |-> P_WIDTH, in |-> 0..255], waveWidth |-> [pos |-> P_WIDTH, in |-> 0..255],
            rippleWidth |-> [pos |-> P_WIDTH, in |-> 0..255], thickness |-> [pos |-> P_WIDTH, in |-> 0..255],
            lines |-> [pos |-> P_COUNT, in |-> 1..6], count |-> [pos |-> P_COUNT, in |-> 1..30],
            waves |-> [pos |-> P_COUNT, in |-> 0..255], repeatCount |-> [pos |-> P_COUNT, in |-> 0..255],
            amount |-> [pos |-> P_AMOUNT, in |-> 0..255]]

StepNumber(st, key, v) == IF v \in Numbers[key].in THEN Param(st, Numbers[key].pos, v) ELSE Reject(st)

HandleStepField(st, f) ==
    LET key == f[1]  v == f[2] IN
    CASE ~st.ok -> st
      [] st.ok /\ key = "id" -> [st EXCEPT !.id = v]
      [] st.ok /\ key \in {"type", "runner"} -> StepKind(st, key, v)
      [] st.ok /\ key \in {"colorFrom", "colorTo", "color", "duration", "loop", "pingpong", "params", "from", "to"} ->
            StepAppearance(st, key, v)
      [] st.ok /\ key \in {"source", "originPanel", "directionality", "reverse", "angle"} -> StepDirection(st, key, v)
      [] st.ok /\ key \in DOMAIN Numbers -> StepNumber(st, key, v)
      [] st.ok /\ key = "speed" -> IF v <= 65535 THEN [st EXCEPT !.step.speedMs = v] ELSE Reject(st)
      [] st.ok /\ key = "animates" ->
            IF v \in Targets THEN [st EXCEPT !.step.animates = v] ELSE Reject(st)
      [] OTHER -> st

ReadFields(fields) ==
    FoldLeft(HandleStepField, [ok |-> TRUE, hasType |-> FALSE, id |-> "", step |-> NewStep], fields)

\* A step without type and runner is a gap.
FinishStep(st) ==
    LET kind  == IF st.hasType THEN st.step.animType ELSE "GAP"
        other == st.step.animates # "color"
    IN  IF kind = "HUE_CYCLE" /\ other THEN Reject(st)
        ELSE [st EXCEPT !.step.animType = kind,
                        !.step.valueFrom = IF st.step.animates = "invert" THEN 0 ELSE @,
                        !.step.valueTo = IF st.step.animates = "invert" \/ (kind = "SOLID" /\ other)
                                         THEN 0 ELSE @]

ParseStep(fields) ==
    FinishStep(ReadFields(fields))

-----------------------------------------------------------------------------
(* Layers. *)

SEL_EVERYTHING == Emit(NoOps, [op |-> "all"])
NoStep == 0 \* startAfterStepIndex: wait for the whole sequence; steps count from 1

\* NameTable::intern: a name's number is its place among the names met so far.
Intern(names, name) == IF name \in ToSet(names) THEN names ELSE Append(names, name)
Find(names, name) == SelectInSeq(names, LAMBDA x : x = name)

\* doc: [group, async, blend, disabled, startAfter, panels, sequence]; a group is a name or a
\* number: [name |-> ...] or [number |-> ...].
LayerOk(doc, steps, target) ==
    /\ "name" \in DOMAIN doc.group \/ doc.group.number \in 1..254
    /\ doc.async \in {"", "loop", "free"}
    /\ doc.blend \in Blends
    /\ target.ok
    /\ Len(steps) \in 1..MaxSteps
    /\ \A s \in DOMAIN steps : steps[s].ok
    /\ \A s, t \in DOMAIN steps : s # t /\ steps[s].id # "" => steps[s].id # steps[t].id

NewLayer(groupId, doc, steps, target) ==
    [groupId |-> groupId, startAfter |-> 0, startAfterStep |-> NoStep,
     async |-> doc.async, blend |-> doc.blend, disabled |-> doc.disabled, target |-> target.ops,
     steps |-> [s \in DOMAIN steps |-> steps[s].step],
     ids |-> [s \in DOMAIN steps |-> steps[s].id],
     after |-> doc.startAfter]

ParseTarget(panels) == IF panels.sel = "" THEN SEL_EVERYTHING ELSE ParsePanelSelector(panels)

\* acc is [ok, names, layers]: what was read so far.
AddLayer(acc, doc, steps, target) ==
    LET named == "name" \in DOMAIN doc.group
        known == IF named THEN Intern(acc.names, doc.group.name) ELSE acc.names
        group == IF named THEN Find(known, doc.group.name) ELSE doc.group.number
    IN  [ok     |-> acc.ok /\ LayerOk(doc, steps, target),
         names  |-> known,
         layers |-> Append(acc.layers, NewLayer(group, doc, steps, target))]

ParseLayer(acc, doc) ==
    AddLayer(acc, doc, [s \in DOMAIN doc.sequence |-> ParseStep(doc.sequence[s])], ParseTarget(doc.panels))

ParseLayers(docs) == FoldLeft(ParseLayer, [ok |-> TRUE, names |-> <<>>, layers |-> <<>>], docs)

-----------------------------------------------------------------------------
(* parseScene: what must hold between the layers. *)

LayerOfGroup(layers, g) == SelectInSeq(layers, LAMBDA l : l.groupId = g)

GroupsDistinct(layers) == \A i, j \in DOMAIN layers : i # j => layers[i].groupId # layers[j].groupId

InfiniteOnlyLast(layers) ==
    \A i \in DOMAIN layers : \A s \in 1..(Len(layers[i].steps) - 1) : layers[i].steps[s].durationMs # 0

\* "group" or "group:stepId"; only named groups can be waited for.
StartAfterStep(layers, l, target) ==
    IF Len(l.after) < 2 THEN NoStep ELSE SelectInSeq(layers[target].ids, LAMBDA x : x = l.after[2])

\* One layer's startAfter, which waives "async".
ResolveLayer(layers, l, g) ==
    LET step == IF g = 0 THEN NoStep ELSE StartAfterStep(layers, l, LayerOfGroup(layers, g))
    IN  IF l.after = <<>> THEN [ok |-> TRUE, l |-> l]
        ELSE [ok |-> g # 0 /\ g # l.groupId /\ (Len(l.after) < 2 \/ step # NoStep),
              l |-> [l EXCEPT !.startAfter = g, !.async = "", !.startAfterStep = step]]

ResolveStartAfter(read) ==
    [i \in DOMAIN read.layers |->
        LET l == read.layers[i]
        IN  ResolveLayer(read.layers, l, IF l.after = <<>> THEN 0 ELSE Find(read.names, l.after[1]))]

\* A layer (or step) somebody waits for must end.
TargetsEnd(layers) ==
    \A i \in DOMAIN layers :
        LET k    == LayerOfGroup(layers, layers[i].startAfter)
            last == IF layers[i].startAfterStep = NoStep THEN Len(layers[k].steps) ELSE layers[i].startAfterStep
        IN  layers[i].startAfter # 0 =>
                ~(last = Len(layers[k].steps) /\ layers[k].steps[last].durationMs = 0)

\* Following startAfter for as many hops as there are layers comes to an end.
NoCycle(layers) ==
    LET next(i) == IF layers[i].startAfter = 0 THEN 0 ELSE LayerOfGroup(layers, layers[i].startAfter)
        chase(i, hop) == IF i = 0 THEN 0 ELSE next(i)
    IN  \A i \in DOMAIN layers : FoldLeft(chase, i, [h \in 1..(Len(layers) + 1) |-> h]) = 0

ClampSpeed(s) == IF s < 1 THEN 1 ELSE IF s > 100 THEN 100 ELSE s \* in tenths: 0.1 to 10

Refused == [ok |-> FALSE]

NewScene(doc, layers) ==
    IF ~TargetsEnd(layers) \/ ~NoCycle(layers) THEN Refused
    ELSE [ok |-> TRUE, loop |-> doc.loop, speed |-> ClampSpeed(doc.speed),
          background |-> doc.background, layers |-> layers]

RelateLayers(doc, resolved) ==
    IF \E i \in DOMAIN resolved : ~resolved[i].ok THEN Refused
    ELSE NewScene(doc, [i \in DOMAIN resolved |-> resolved[i].l])

CheckLayers(doc, read) ==
    IF \/ ~read.ok \/ Len(doc.layers) \notin 1..MaxLayers
       \/ ~GroupsDistinct(read.layers) \/ ~InfiniteOnlyLast(read.layers)
    THEN Refused
    ELSE RelateLayers(doc, ResolveStartAfter(read))

ParseScene(doc) == CheckLayers(doc, ParseLayers(doc.layers))

\* parseOneShotBody: one layer of one step, with the step's fields beside "group" and "panels".
\* Without a type it is SOLID, and the checks of parseStep are not made.
NewOneShot(doc, st, target) ==
    IF ~st.ok \/ ~target.ok \/ doc.group \notin 1..254 THEN Refused
    ELSE [ok |-> TRUE, loop |-> FALSE, speed |-> 10, background |-> 0,
          layers |-> <<[groupId |-> doc.group, startAfter |-> 0, startAfterStep |-> NoStep,
                        async |-> "", blend |-> "default", disabled |-> FALSE, target |-> target.ops,
                        steps |-> <<st.step>>, ids |-> <<"">>, after |-> <<>>]>>]

ParseOneShot(doc) == NewOneShot(doc, ReadFields(doc.fields), ParseTarget(doc.panels))
=============================================================================
