--------------------------- MODULE RunnerCompile ---------------------------
(***************************************************************************)
(* From a runner step to pulses: the geometric fields (PanelGeometry), the *)
(* compilers that give every panel its onset and duration (RunnerCompile)  *)
(* and the schedules and paths of the spawners (RunnerSpawn).              *)
(*                                                                         *)
(* A layout with a geometry is a row of panels: x[p] is twice the place of *)
(* p's centroid, and a panel's circumradius is 1 on that scale.  A layout  *)
(* that cannot be embedded has x = <<>>.  Bearings are in half turns.      *)
(***************************************************************************)
EXTENDS SceneParser, Integers

CONSTANTS MaxBurst,   \* SPAWN_MAX_BURST
          MaxSweeps,  \* the largest sweep count, 30
          SecondMs    \* 1000 ms in units of the model

AtLeast1(n) == IF n = 0 THEN 1 ELSE n
Abs(n) == IF n < 0 THEN -n ELSE n

\* rc_ms of num/den: rounded to the nearest.
RcMs(num, den) == (2 * num + den) \div (2 * den)

Unlit == [lit |-> FALSE, delay |-> 0, dur |-> 0]
LitFor(on, off, den, dur) ==
    [lit |-> TRUE, delay |-> RcMs(dur * on, den), dur |-> AtLeast1(RcMs(dur * (off - on), den))]

CompileWave(coord, maxC, width, dur) == LitFor(coord, coord + width, maxC + width, dur)

CompileChase(coord, maxC, dur) == LitFor(coord, coord + 1, maxC + 1, dur)

\* The clamped window of a band of the given width around [near, far] on 0..den, in halves.
Window(near, far, width, den, dur) ==
    LET on  == IF 2 * near < width THEN 0 ELSE 2 * near - width
        off == IF 2 * far + width > den THEN den ELSE 2 * far + width
    IN  IF off <= on THEN Unlit ELSE LitFor(on, off, den, dur)

CompileBounce(coord, maxC, width, dur) ==
    Window(coord, coord, width, 2 * (IF maxC = 0 THEN 1 ELSE maxC), dur)

CompileRipple(near, far, maxC, width, dur) == Window(near, far, width, 2 * maxC + width, dur)

CompileWheel(halfTurns, lines, dur) ==
    LET period == AtLeast1(dur \div lines)
    IN  [lit |-> TRUE, delay |-> RcMs(((halfTurns * lines) % 2) * period, 2), dur |-> period]

-----------------------------------------------------------------------------
(* The fields of a row of panels. *)

ValidGeometry(x) == x # <<>>

MaxDepth(v) == Max({0} \cup {v.depth[p] : p \in Panels(v)})

Resolution(v, panels) ==
    IF MaxDepth(v) > 0 THEN MaxDepth(v) ELSE IF Len(panels) > 1 THEN Len(panels) - 1 ELSE 1

Uniform(panels) == [coord |-> [p \in ToSet(panels) |-> 0], far |-> [p \in ToSet(panels) |-> 0], max |-> 0]

ComputeGeometricField(x, panels, reverse, resolution) ==
    LET all   == ToSet(panels)
        least == Min({x[p] : p \in all})
        span  == Max({x[p] : p \in all}) - least
        c(p)  == RcMs((x[p] - least) * resolution, span)
        f     == [p \in all |-> IF reverse THEN resolution - c(p) ELSE c(p)]
    IN  IF span = 0 THEN Uniform(panels) ELSE [coord |-> f, far |-> f, max |-> resolution]

\* The centre of a set of panels and a distance from it, both times the size of the set.
CentreOf(x, src) == MapThenSumSet(LAMBDA s : x[s], src)
FromCentre(x, src, p) == Cardinality(src) * x[p] - CentreOf(x, src)

\* Rings around the nearest source; source "all" has one ring, around the centre.
ComputeGeometricCenterField(x, v, panels, kind, arg, reverse, resolution) ==
    LET all    == ToSet(panels)
        src    == BuildSourceSet(v, kind, arg)
        scale  == IF kind = SRC_ALL THEN Cardinality(src) ELSE 1
        d(p)   == IF kind = SRC_ALL THEN Abs(FromCentre(x, src, p))
                  ELSE Min({Abs(x[p] - x[s]) : s \in src})
        maxFar == Max({d(p) + scale : p \in all})
        q(n)   == LET c == RcMs(n * resolution, maxFar) IN IF c > resolution THEN resolution ELSE c
        near   == [p \in all |-> q(IF d(p) < scale THEN 0 ELSE d(p) - scale)]
        far    == [p \in all |-> q(d(p) + scale)]
        flip(f) == [p \in all |-> resolution - f[p]]
    IN  [coord |-> IF reverse THEN flip(far) ELSE near, far |-> IF reverse THEN flip(near) ELSE far,
         max |-> resolution]

\* ok is false when every panel sits at the hub.  In a row, reversing changes no bearing.
ComputeWheelField(x, v, panels, kind, arg) ==
    LET src     == BuildSourceSet(v, kind, arg)
        side(p) == FromCentre(x, src, p)
    IN  [ok    |-> \E p \in ToSet(panels) : side(p) # 0,
         turns |-> [p \in ToSet(panels) |-> IF side(p) < 0 THEN 1 ELSE 0]]

-----------------------------------------------------------------------------
(* Spawners. *)

SweepSpawnCount(n) == IF n = 0 THEN 1 ELSE IF n > MaxSweeps THEN MaxSweeps ELSE n

SpawnSweepStartMs(dur, count, index) == IF index >= count THEN dur ELSE (dur * index) \div count

SpawnInterval(waves) == AtLeast1(SecondMs \div waves)

\* What is due after dt more units, and what the accumulator keeps of it.
SpawnDueCount(accum, dt, waves) ==
    LET every == SpawnInterval(waves)
        due   == (accum + dt) \div every
        n     == IF due > MaxBurst THEN MaxBurst ELSE due
        rest  == accum + dt - n * every
    IN  [count |-> n, accum |-> IF rest > every THEN every ELSE rest]

\* The panels from the root to a leaf.
SpawnBuildPath(v, leaf) ==
    LET climb(path, k) == IF Head(path) = v.root THEN path ELSE <<v.parent[Head(path)]>> \o path
    IN  FoldLeft(climb, <<leaf>>, v.idx)

SparkleFlash(fade) == [lit |-> TRUE, delay |-> 0, dur |-> AtLeast1(fade)]

RainDropAt(fall, rings, pos, pathLen) ==
    LET ring == AtLeast1(fall \div (IF pathLen > 1 THEN pathLen - 1 ELSE 1))
    IN  [lit |-> TRUE, delay |-> pos * ring, dur |-> AtLeast1(rings) * ring]

\* Geometric rain: from a top, on to the lowest neighbour below as long as there is one.
\* "down" is x or its opposite.
Down(x, reverse, p) == IF reverse THEN 0 - x[p] ELSE x[p]

Tops(x, v, reverse) ==
    SelectSeq(v.idx, LAMBDA p : \A a \in ToSet(v.adj[p]) : Down(x, reverse, a.to) >= Down(x, reverse, p))

Streak(x, v, reverse, top) ==
    LET below(p) == {q \in {a.to : a \in ToSet(v.adj[p])} : Down(x, reverse, q) > Down(x, reverse, p)}
        fall(chain, k) == IF Len(chain) < k \/ below(Last(chain)) = {} THEN chain
                          ELSE Append(chain, CHOOSE q \in below(Last(chain)) :
                                        \A r \in below(Last(chain)) : Down(x, reverse, r) <= Down(x, reverse, q))
    IN  FoldLeft(fall, <<top>>, [k \in 1..(Len(v.idx) - 1) |-> k])
=============================================================================
