------------------------------ MODULE Topology ------------------------------
(***************************************************************************)
(* The discovered panel tree as the scene engine sees it: the adjacency    *)
(* (PanelGraph), the view rooted at the logical root (TopologyIndex), the  *)
(* panel selectors with their compiler to stack programs and the machine   *)
(* that evaluates them (PanelSelectorParser, PanelSelector), and the       *)
(* distance field the runners travel along (PanelField).                   *)
(*                                                                         *)
(* A tree is [idx, links]: the panel numbers in discovery order and the    *)
(* connector-to-connector links [a, ea, b, eb].  Slots are not told apart  *)
(* from the panel numbers they stand for.                                  *)
(***************************************************************************)
EXTENDS Naturals, Sequences, FiniteSets, SequencesExt, FiniteSetsExt

CONSTANTS MaxPanels,      \* LIGHTNET_MAX_PANELS
          SelCap,         \* PanelSelector::CAP, bytes of a compiled selector
          SelStackMax,    \* SEL_STACK_MAX
          SelMaxIndexList \* SEL_MAX_INDEX_LIST

NoParent == 0

-----------------------------------------------------------------------------
(* PanelGraph. *)

\* The neighbours of p with p's own connector toward each, in link order.
BuildAdjacency(idx, links, p) ==
    LET known(l) == {l.a, l.b} \subseteq ToSet(idx)
        side(l)  == CASE ~known(l) -> <<>>
                      [] known(l) /\ l.a = p -> <<[to |-> l.b, my |-> l.ea]>>
                      [] known(l) /\ l.a # p /\ l.b = p -> <<[to |-> l.a, my |-> l.eb]>>
                      [] OTHER -> <<>>
    IN  FlattenSeq([i \in DOMAIN links |-> side(links[i])])

EmptyGraph == [idx |-> <<>>, adj |-> <<>>]

BuildGraph(idx, links) ==
    IF Len(idx) = 0 \/ Len(idx) > MaxPanels THEN EmptyGraph
    ELSE [idx |-> idx, adj |-> [p \in ToSet(idx) |-> BuildAdjacency(idx, links, p)]]

Has(g, p) == p \in ToSet(g.idx)

LowestPanel(g) == Min(ToSet(g.idx))

-----------------------------------------------------------------------------
(* TopologyIndex: the view rooted at one panel. *)

PickRoot(g, panel) == IF Has(g, panel) THEN panel ELSE LowestPanel(g)

\* Breadth first: the queue keeps everything visited, position k is served at step k.
BfsFromRoot(g, root) ==
    LET visit(b, k) ==
            IF k > Len(b.queue) THEN b
            ELSE LET u     == b.queue[k]
                     fresh == {v \in {a.to : a \in ToSet(g.adj[u])} : v \notin ToSet(b.queue)}
                     order == SelectSeq(g.adj[u], LAMBDA a : a.to \in fresh)
                 IN  [queue  |-> b.queue \o [i \in DOMAIN order |-> order[i].to],
                      parent |-> [v \in DOMAIN b.parent |-> IF v \in fresh THEN u ELSE b.parent[v]],
                      depth  |-> [v \in DOMAIN b.depth |-> IF v \in fresh THEN b.depth[u] + 1
                                                                         ELSE b.depth[v]]]
        all == ToSet(g.idx)
    IN  FoldLeft(visit,
                 [queue |-> <<root>>, parent |-> [v \in all |-> NoParent], depth |-> [v \in all |-> 0]],
                 [k \in 1..Len(g.idx) |-> k])

CanonicalInLinkOrder(g, root, parent) ==
    LET pop(d, k) ==
            IF d.stack = <<>> THEN d
            ELSE LET c == SelectSeq(g.adj[Head(d.stack)], LAMBDA a : parent[a.to] = Head(d.stack))
                 IN  [order |-> Append(d.order, Head(d.stack)),
                      stack |-> [i \in DOMAIN c |-> c[i].to] \o Tail(d.stack)]
    IN  FoldLeft(pop, [order |-> <<>>, stack |-> <<root>>], [k \in 1..Len(g.idx) |-> k]).order

\* Depth first, the children of a panel in the order of its own connectors.
ComputeCanonicalOrder(g, root, parent) ==
    LET children(u) == SortSeq(SelectSeq(g.adj[u], LAMBDA a : parent[a.to] = u),
                               LAMBDA x, y : x.my < y.my)
        pop(d, k) ==
            IF d.stack = <<>> THEN d
            ELSE LET u == Head(d.stack)
                     c == children(u)
                 IN  [order |-> Append(d.order, u),
                      stack |-> [i \in DOMAIN c |-> c[i].to] \o Tail(d.stack)]
    IN  FoldLeft(pop, [order |-> <<>>, stack |-> <<root>>], [k \in 1..Len(g.idx) |-> k]).order

\* build.  "pos" counts from 0, as canonPos does.
BuildIndex(g, logicalRoot) ==
    IF g.idx = <<>> THEN [idx |-> <<>>, adj |-> <<>>, root |-> NoParent,
                          parent |-> <<>>, depth |-> <<>>, pos |-> <<>>]
    ELSE LET root  == PickRoot(g, logicalRoot)
             bfs   == BfsFromRoot(g, root)
             order == ComputeCanonicalOrder(g, root, bfs.parent)
         IN  [idx |-> g.idx, adj |-> g.adj, root |-> root, parent |-> bfs.parent, depth |-> bfs.depth,
              pos |-> [p \in ToSet(g.idx) |-> SelectInSeq(order, LAMBDA x : x = p) - 1]]

Panels(v) == ToSet(v.idx)
ChildCount(v, p) == Cardinality({q \in Panels(v) : v.parent[q] = p})
IsLeaf(v, p) == ChildCount(v, p) = 0
IsBranch(v, p) == ChildCount(v, p) >= 2

FillSubtree(v, p) ==
    LET grow(s, k) == s \cup {q \in Panels(v) : v.parent[q] \in s}
    IN  FoldLeft(grow, {p}, v.idx)

\* Hops from the nearest source; Unreached stands for 0xFF.
Unreached == 255
DistancesFrom(v, sources) ==
    LET relax(d, k) == [p \in Panels(v) |->
                          IF d[p] # Unreached THEN d[p]
                          ELSE LET near == {d[a.to] : a \in ToSet(v.adj[p])} \ {Unreached}
                               IN  IF k - 1 \in near THEN k ELSE Unreached]
    IN  FoldLeft(relax, [p \in Panels(v) |-> IF p \in sources THEN 0 ELSE Unreached],
                 [k \in 1..Len(v.idx) |-> k])

\* SceneTopology::rebuild: both views of the tree the provider yields.
Rebuild(tree, logicalRoot) == BuildIndex(BuildGraph(tree.idx, tree.links), logicalRoot)

-----------------------------------------------------------------------------
(* PanelSelectorParser: a selector document becomes a stack program.  A    *)
(* document is [sel |-> name, ...arguments]; an instruction carries its    *)
(* operands, and SizeOf counts the bytes it takes.                         *)

Words == {"all", "root", "leaves", "branches", "even", "odd"}

SizeOf(op) == CASE op.op \in {"depth", "fraction"} -> 3
                [] op.op \in {"subtree", "neighbors", "first", "last"} -> 2
                [] op.op = "indices" -> 2 + Len(op.list)
                [] OTHER -> 1

Bad == [ok |-> FALSE, ops |-> <<>>, len |-> 0]
NoOps == [ok |-> TRUE, ops |-> <<>>, len |-> 0]

Emit(c, op) == IF ~c.ok \/ c.len + SizeOf(op) > SelCap THEN Bad
               ELSE [ok |-> TRUE, ops |-> Append(c.ops, op), len |-> c.len + SizeOf(op)]

\* A fraction is written in hundredths and stored in 255ths, rounded; the upper one is clamped.
Byte255(hundredths) == (hundredths * 255 * 2 + 100) \div 200

SelTokenOp(d) ==
    CASE d.sel \in Words -> [op |-> d.sel]
      [] d.sel = "depth" -> [op |-> "depth", lo |-> d.lo, hi |-> d.hi]
      [] d.sel = "fraction" -> [op |-> "fraction", lo |-> Byte255(d.lo),
                                hi |-> Byte255(IF d.hi > 100 THEN 100 ELSE d.hi)]
      [] OTHER -> [op |-> d.sel, n |-> d.n]

SelEmitToken(c, d) ==
    LET valid == CASE d.sel \in Words \cup {"fraction"} -> TRUE
                   [] d.sel = "depth" -> d.lo <= 255 /\ d.hi <= 255
                   [] d.sel \in {"subtree", "neighbors", "first", "last"} -> d.n \in 1..255
                   [] OTHER -> FALSE
    IN  IF valid THEN Emit(c, SelTokenOp(d)) ELSE Bad

SelEmitIndexArray(c, list, complement) ==
    IF list = <<>> \/ Len(list) > SelMaxIndexList \/ \E i \in DOMAIN list : list[i] \notin 1..255
    THEN Bad
    ELSE LET e == Emit(c, [op |-> "indices", list |-> list])
         IN  IF complement THEN Emit(e, [op |-> "NOT"]) ELSE e

RECURSIVE SelAppend(_, _, _)
SelAppend(c, d, depth) ==
    IF ~c.ok \/ depth > SelStackMax THEN Bad
    ELSE CASE d.sel = "indices" -> SelEmitIndexArray(c, d.list, FALSE)
           [] d.sel = "exclude" -> SelEmitIndexArray(c, d.list, TRUE)
           [] d.sel = "not"     -> Emit(SelAppend(c, d.of[1], depth + 1), [op |-> "NOT"])
           [] d.sel \in {"any", "every"} ->
                LET fold == [op |-> IF d.sel = "any" THEN "OR" ELSE "AND"]
                    part(acc, i) == LET e == SelAppend(acc, d.of[i], depth + 1)
                                    IN  IF i >= 2 THEN Emit(e, fold) ELSE e
                IN  IF d.of = <<>> THEN Bad ELSE FoldLeftDomain(part, c, d.of)
           [] OTHER -> SelEmitToken(c, d)

ParsePanelSelector(d) == SelAppend(NoOps, d, 0)

-----------------------------------------------------------------------------
(* PanelSelector: evaluating a program on a rooted view. *)

SelEvalLeaf(op, v) ==
    LET all  == Panels(v)
        n    == Len(v.idx)
    IN  CASE op.op = "all"       -> all
          [] op.op = "root"      -> {v.root}
          [] op.op = "leaves"    -> {p \in all : IsLeaf(v, p)}
          [] op.op = "branches"  -> {p \in all : IsBranch(v, p)}
          [] op.op = "even"      -> {p \in all : v.pos[p] % 2 = 0}
          [] op.op = "odd"       -> {p \in all : v.pos[p] % 2 = 1}
          [] op.op = "depth"     -> {p \in all : v.depth[p] >= op.lo /\ v.depth[p] <= op.hi}
          [] op.op = "subtree"   -> IF op.n \in all THEN FillSubtree(v, op.n) ELSE {}
          [] op.op = "neighbors" -> IF op.n \in all THEN {a.to : a \in ToSet(v.adj[op.n])} ELSE {}
          [] op.op = "fraction"  ->
                IF n <= 1 THEN (IF op.lo = 0 THEN {v.idx[1]} ELSE {})
                ELSE {p \in all : v.pos[p] * 255 >= op.lo * (n - 1) /\ v.pos[p] * 255 <= op.hi * (n - 1)}
          [] op.op = "first"     -> {p \in all : v.pos[p] < op.n}
          [] op.op = "last"      -> {p \in all : v.pos[p] >= IF op.n >= n THEN 0 ELSE n - op.n}
          [] op.op = "indices"   -> ToSet(op.list) \cap all

\* A program that under- or overflows the stack fails, and so does one that leaves
\* more than one set.
ResolveSelector(ops, v) ==
    LET step(m, op) ==
            LET top == Len(m.stack) IN
            CASE ~m.ok -> m
              [] m.ok /\ op.op \in {"AND", "OR"} ->
                    IF top < 2 THEN [m EXCEPT !.ok = FALSE]
                    ELSE LET a == m.stack[top - 1]  b == m.stack[top]
                             r == IF op.op = "AND" THEN a \cap b ELSE a \cup b
                         IN  [m EXCEPT !.stack = Append(SubSeq(m.stack, 1, top - 2), r)]
              [] m.ok /\ op.op = "NOT" ->
                    IF top < 1 THEN [m EXCEPT !.ok = FALSE]
                    ELSE [m EXCEPT !.stack = Append(Front(m.stack), Panels(v) \ Last(m.stack))]
              [] OTHER ->
                    IF top >= SelStackMax THEN [m EXCEPT !.ok = FALSE]
                    ELSE [m EXCEPT !.stack = Append(m.stack, SelEvalLeaf(op, v))]
        end == FoldLeft(step, [ok |-> TRUE, stack |-> <<>>], ops)
    IN  IF end.ok /\ Len(end.stack) = 1 THEN [ok |-> TRUE, set |-> end.stack[1]]
        ELSE [ok |-> FALSE, set |-> {}]

\* SceneTopology::resolvePanels: discovery order; a program that fails selects nothing.
ResolvePanels(ops, v) ==
    LET r == ResolveSelector(ops, v) IN SelectSeq(v.idx, LAMBDA p : r.ok /\ p \in r.set)

-----------------------------------------------------------------------------
(* PanelField: how far each target panel is from the source of a runner. *)

SRC_ROOT == 0
SRC_LEAVES == 1
SRC_ALL == 2
SRC_PANEL == 3

BuildSourceSet(v, kind, arg) ==
    LET picked == CASE kind = SRC_LEAVES -> {p \in Panels(v) : IsLeaf(v, p)}
                    [] kind = SRC_ALL    -> Panels(v)
                    [] kind = SRC_PANEL  -> {arg} \cap Panels(v)
                    [] OTHER             -> {v.root} \cap Panels(v)
    IN  IF picked = {} THEN {v.root} \cap Panels(v) ELSE picked

\* The coordinate of each panel of the target list, and the largest one.
ComputeDistanceField(v, panels, kind, arg, reverse) ==
    LET dist == DistancesFrom(v, BuildSourceSet(v, kind, arg))
        d(p) == IF p \in Panels(v) /\ dist[p] # Unreached THEN dist[p] ELSE 0
        span == Max({0} \cup {d(p) : p \in ToSet(panels)})
    IN  [coord |-> [p \in ToSet(panels) |-> IF reverse THEN span - d(p) ELSE d(p)], max |-> span]
=============================================================================
