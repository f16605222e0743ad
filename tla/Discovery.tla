------------------------------- MODULE Discovery -------------------------------
(***************************************************************************)
(* Boot-time discovery of the panel tree.                                  *)
(*                                                                         *)
(* The controller (DiscoveryCoordinator, fed by ControllerDiscoveryService *)
(* and PanelsInitializer) walks the wired panels depth first.  A panel     *)
(* runs PanelFrameDispatcher over PanelRouter, PanelDiscoveryDriver and    *)
(* PanelDiscovery.  They exchange four frames over point-to-point wires:   *)
(*   PULL   PacketInitializationPull   an offer, one hop, carrying an index*)
(*   REG    PacketRegisterEdge         the answer, relayed to the controller*)
(*   ADV    PacketDiscoveryAdvance     "probe your next edge, hand out i"  *)
(*   DONE   PacketDiscoveryDone        "my subtree is resolved"            *)
(*                                                                         *)
(* Time is counted in the coordinator's retry intervals and the panels'    *)
(* probe timeouts; no clock is modelled (see CoordinatorTick).             *)
(***************************************************************************)
EXTENDS Integers, Sequences, FiniteSets

CONSTANTS
    Panels,          \* the physical panels, powered up and unassigned
    Controller,      \* the node at the root of the tree
    NoPort,          \* "nothing is plugged in here"
    EdgeCount,       \* edges of a panel (EdgeUartTransport::EDGE_COUNT, 3)
    Wirings,         \* the ways the ports may be plugged together
    MaxPanels,       \* LIGHTNET_MAX_PANELS
    RootIntervals,   \* ROOT_TIMEOUT_MS / ROOT_RETRY_INTERVAL_MS
    StallIntervals,  \* WALK_STALL_TIMEOUT_MS / ADVANCE_RETRY_INTERVAL_MS
    ProbeAttempts,   \* PROBE_ATTEMPTS
    Faults,          \* the kinds of fault (FaultKind) this boot may suffer
    MaxFaults        \* bound: how many of them

Edge   == 0 .. EdgeCount - 1
NoEdge == 255
Trunk  == <<Controller, 0>>
Port   == {Trunk} \cup (Panels \X Edge)

\* A lost frame, by its type (a REG is RELAYED_REG after its first hop), or a
\* timer that fires while what it waits for is still on its way: a probe resent,
\* an edge given up, an interval of the coordinator's retry timer.
FaultKind == {"PULL", "REG", "RELAYED_REG", "ADV", "DONE",
              "CROSSED_PROBE", "LATE_ANSWER", "LATE_WALK"}

ASSUME PanelsAssumption == Controller \notin Panels /\ NoPort \notin Port
ASSUME EdgesAssumption  == EdgeCount \in 1 .. NoEdge
ASSUME LimitsAssumption ==
    /\ MaxPanels \in Nat \ {0}
    /\ RootIntervals \in Nat \ {0}
    /\ StallIntervals \in Nat \ {0}
    /\ ProbeAttempts \in Nat \ {0}
    /\ MaxFaults \in Nat
ASSUME FaultsAssumption == Faults \subseteq FaultKind
\* A wire joins two ports, in both directions.
ASSUME WiringsAssumption ==
    \A w \in Wirings :
        /\ w \in [Port -> Port \cup {NoPort}]
        /\ \A q \in Port : w[q] # NoPort => w[q] # q /\ w[w[q]] = q

VARIABLES
    peer,           \* the wiring of this boot
    chan,           \* chan[q]: frames on their way to port q, oldest first
    faults,         \* faults suffered so far
    \* DiscoveryCoordinator
    nextPanelIndex, \* the index the next PULL hands out
    frontier,       \* frontierPanelIndex: the active panel, 0 = the controller
    stack,          \* resume stack: the frontier's ancestors
    complete,       \* complete
    walkStalled,    \* walkStalledFlag
    waited,         \* retry intervals since begin() or since lastProgressMs
    \* DiscoveryTreeBuilder and PanelsInitializer
    indices,        \* indices_
    links,          \* links_
    converted,      \* treeConverted: the boot loop has left discovery
    \* PanelDiscovery
    parent,         \* parent[p], NoEdge while ~hasParentFlag
    edges,          \* edges[p][e]
    childIndexes,   \* childIndexes[p][e]
    \* PanelDiscoveryDriver
    assigned,       \* assignedIndex
    pendingAssign,  \* pendingAssignIndex
    probing,        \* probingEdgeIndex
    attempts        \* probeAttempts

coordVars == <<nextPanelIndex, frontier, stack, complete, walkStalled, waited,
               indices, links, converted>>
panelVars == <<parent, edges, childIndexes, assigned, pendingAssign, probing, attempts>>
vars      == <<peer, chan, faults, coordVars, panelVars>>

-----------------------------------------------------------------------------
(* Frames.  Fields a packet does not have hold 0 or NoEdge.                 *)

PullFrame(i, e)   == [type |-> "PULL", target |-> 0, index |-> i,
                      edge |-> NoEdge, parentEdge |-> e]
RegFrame(i, e, pe) == [type |-> "REG", target |-> 0, index |-> i,
                      edge |-> e, parentEdge |-> pe]
AdvFrame(t, i)    == [type |-> "ADV", target |-> t, index |-> i,
                      edge |-> NoEdge, parentEdge |-> NoEdge]
DoneFrame(i)      == [type |-> "DONE", target |-> 0, index |-> i,
                      edge |-> NoEdge, parentEdge |-> NoEdge]

Frame == [type : {"PULL", "REG", "ADV", "DONE"}, target : Nat, index : Nat,
          edge : 0 .. NoEdge, parentEdge : 0 .. NoEdge]

RejectedIndex == 0

\* sendOnEdge: f goes out on every edge of es of node n; an empty port swallows it.
Put(ch, n, es, f) ==
    [q \in Port |-> IF \E e \in es : peer[<<n, e>>] = q THEN Append(ch[q], f) ELSE ch[q]]

\* What happens in time, unless the budget of faults pays for it to be late.
Suffer(kind) == kind \in Faults /\ faults < MaxFaults /\ faults' = faults + 1
UnlessFault(inTime, kind) == \/ inTime /\ UNCHANGED faults
                             \/ ~inTime /\ Suffer(kind)

\* ch once the frame at the head of port q has been taken off the wire.
Taken(ch, q) == [ch EXCEPT ![q] = Tail(@)]

-----------------------------------------------------------------------------
(* The controller: DiscoveryCoordinator, DiscoveryTreeBuilder, boot loop.   *)

ControllerInit ==
    /\ nextPanelIndex = 1
    /\ frontier = 0
    /\ stack = <<>>
    /\ complete = FALSE /\ walkStalled = FALSE /\ converted = FALSE
    /\ waited = 0
    /\ indices = <<>> /\ links = <<>>

SendRootPull(ch)      == Put(ch, Controller, {0}, PullFrame(nextPanelIndex, 0))
SendAdvance(ch, t, i) == Put(ch, Controller, {0}, AdvFrame(t, i))

\* recordPanel: the builder's arrays hold MaxPanels entries, the rest is dropped.
RecordPanel(i) == indices' = IF Len(indices) < MaxPanels THEN Append(indices, i) ELSE indices

AddLink(p, pe, c, ce) ==
    links' = IF Len(links) < MaxPanels
             THEN Append(links, [parent |-> p, parentEdge |-> pe, child |-> c, childEdge |-> ce])
             ELSE links

\* Mutated forms: duplicates are not filtered; the cap is off by one.
RegistersAnyIndex(f) ==
    /\ f.type = "REG" /\ f.index # RejectedIndex
    /\ nextPanelIndex <= MaxPanels /\ Len(stack) < MaxPanels
RegistersOneTooMany(f) ==
    /\ f.type = "REG" /\ f.index # RejectedIndex /\ f.index = nextPanelIndex
    /\ nextPanelIndex <= MaxPanels + 1 /\ Len(stack) < MaxPanels + 1

\* The registrations handleRegisterEdgeReply() lets through its three early returns.
Registers(f) ==
    /\ f.type = "REG"
    /\ f.index # RejectedIndex
    /\ f.index = nextPanelIndex
    /\ nextPanelIndex <= MaxPanels /\ Len(stack) < MaxPanels

\* Mutated form: the ADV goes out before the index is consumed.
ControllerRegisterEarlyAdvance(f) ==
    /\ Registers(f)
    /\ RecordPanel(f.index)
    /\ IF frontier = 0 THEN UNCHANGED links
                       ELSE AddLink(frontier, f.parentEdge, f.index, f.edge)
    /\ stack' = Append(stack, frontier)
    /\ frontier' = f.index
    /\ nextPanelIndex' = nextPanelIndex + 1
    /\ waited' = 0
    /\ chan' = SendAdvance(Taken(chan, Trunk), f.index, nextPanelIndex)
    /\ UNCHANGED <<complete, walkStalled>>

ControllerRegister(f) ==
    /\ Registers(f)
    /\ RecordPanel(f.index)
    /\ IF frontier = 0 THEN UNCHANGED links
                       ELSE AddLink(frontier, f.parentEdge, f.index, f.edge)
    /\ stack' = Append(stack, frontier)
    /\ frontier' = f.index
    /\ nextPanelIndex' = nextPanelIndex + 1
    /\ waited' = 0
    /\ chan' = SendAdvance(Taken(chan, Trunk), f.index, nextPanelIndex + 1)
    /\ UNCHANGED <<complete, walkStalled>>

\* A DONE counts only when it names the frontier.
Resolves(f) == f.type = "DONE" /\ f.index = frontier

\* Is the entry to pop a panel, and not the controller's own sentinel?
Resumable == stack # <<>> /\ stack[Len(stack)] # 0

\* The walk ends when the sentinel is popped.
ControllerDoneLast(f) ==
    /\ Resolves(f)
    /\ ~Resumable
    /\ complete' = TRUE
    /\ stack' = IF stack = <<>> THEN stack ELSE SubSeq(stack, 1, Len(stack) - 1)
    /\ waited' = 0
    /\ chan' = Taken(chan, Trunk)
    /\ UNCHANGED <<nextPanelIndex, frontier, walkStalled, indices, links>>

\* Mutated form: the stack is read but not popped.
ControllerDoneResumeNoPop(f) ==
    /\ Resolves(f) /\ Resumable
    /\ frontier' = stack[Len(stack)]
    /\ waited' = 0
    /\ chan' = SendAdvance(Taken(chan, Trunk), stack[Len(stack)], nextPanelIndex)
    /\ UNCHANGED <<nextPanelIndex, complete, stack, walkStalled, indices, links>>

ControllerDoneResume(f) ==
    /\ Resolves(f)
    /\ Resumable
    /\ frontier' = stack[Len(stack)]
    /\ stack' = SubSeq(stack, 1, Len(stack) - 1)
    /\ waited' = 0
    /\ chan' = SendAdvance(Taken(chan, Trunk), stack[Len(stack)], nextPanelIndex)
    /\ UNCHANGED <<nextPanelIndex, complete, walkStalled, indices, links>>

\* Duplicates, rejections, and whatever is not discovery traffic.
ControllerIgnore(f) ==
    /\ ~Registers(f) /\ ~Resolves(f)
    /\ chan' = Taken(chan, Trunk)
    /\ UNCHANGED <<nextPanelIndex, frontier, stack, complete, walkStalled, waited, indices, links>>

\* ControllerDiscoveryService::tick drains the trunk; a frame behind the last
\* DONE may still be handled in the same drain, so `complete' is no guard here.
ControllerReceive ==
    /\ ~converted
    /\ chan[Trunk] # <<>>
    /\ LET f == Head(chan[Trunk]) IN
        \/ ControllerRegister(f)
        \/ ControllerDoneLast(f)
        \/ ControllerDoneResume(f)
        \/ ControllerIgnore(f)
    /\ UNCHANGED <<peer, faults, converted, panelVars>>

\* Nothing on a wire and no probe outstanding: the walk has come to rest.
AtRest == /\ \A q \in Port : chan[q] = <<>>
          /\ \A p \in Panels : probing[p] = NoEdge

\* ADVANCE_RETRY_INTERVAL_MS is chosen to exceed the frontier's longest quiet
\* stretch: while the walk has not come to rest an interval is not over, unless
\* the walk is late.
IntervalPasses == ~converted /\ ~complete /\ UnlessFault(AtRest, "LATE_WALK")

RetryRoot ==
    /\ frontier = 0 /\ waited + 1 < RootIntervals
    /\ waited' = waited + 1
    /\ chan' = SendRootPull(chan)
    /\ UNCHANGED <<complete, walkStalled, converted>>

\* Giving up leaves discovery at once: boot() converts the tree after the tick.
GiveUpRoot ==
    /\ frontier = 0 /\ waited + 1 >= RootIntervals
    /\ complete' = TRUE /\ converted' = TRUE
    /\ UNCHANGED <<chan, waited, walkStalled>>

\* Mutated forms: the interval passes without a resend; the resend counts as progress.
RetryAdvanceSilently ==
    /\ frontier # 0 /\ waited + 1 < StallIntervals
    /\ waited' = waited + 1
    /\ UNCHANGED <<chan, complete, walkStalled, converted>>
RetryAdvanceAsProgress ==
    /\ frontier # 0 /\ waited + 1 < StallIntervals
    /\ chan' = SendAdvance(chan, frontier, nextPanelIndex)
    /\ UNCHANGED <<waited, complete, walkStalled, converted>>

RetryAdvance ==
    /\ frontier # 0 /\ waited + 1 < StallIntervals
    /\ waited' = waited + 1
    /\ chan' = SendAdvance(chan, frontier, nextPanelIndex)
    /\ UNCHANGED <<complete, walkStalled, converted>>

GiveUpWalk ==
    /\ frontier # 0 /\ waited + 1 >= StallIntervals
    /\ complete' = TRUE /\ walkStalled' = TRUE /\ converted' = TRUE
    /\ UNCHANGED <<chan, waited>>

CoordinatorTick ==
    /\ IntervalPasses
    /\ RetryRoot \/ GiveUpRoot \/ RetryAdvance \/ GiveUpWalk
    /\ UNCHANGED <<peer, nextPanelIndex, frontier, stack, indices, links, panelVars>>

\* PanelsInitializer::boot: the finished tree becomes the panel list, and the
\* trunk is not read by discovery again.
Convert ==
    /\ complete /\ ~converted
    /\ converted' = TRUE
    /\ UNCHANGED <<peer, chan, faults, nextPanelIndex, frontier, stack, complete,
                   walkStalled, waited, indices, links, panelVars>>

-----------------------------------------------------------------------------
(* A panel: PanelFrameDispatcher, PanelRouter, PanelDiscoveryDriver over    *)
(* PanelDiscovery.                                                          *)

PanelsInit ==
    /\ parent = [p \in Panels |-> NoEdge]
    /\ edges = [p \in Panels |-> [e \in Edge |-> "Unexplored"]]
    /\ childIndexes = [p \in Panels |-> [e \in Edge |-> 0]]
    /\ assigned = [p \in Panels |-> 0]
    /\ pendingAssign = [p \in Panels |-> 0]
    /\ probing = [p \in Panels |-> NoEdge]
    /\ attempts = [p \in Panels |-> 0]

ConnectedEdges(p) == {e \in Edge : edges[p][e] = "Connected"}

\* The one branch that can hold `target': the child edge with the largest
\* index not above it, the lowest such edge when two children share an index.
BranchEdge(p, target, kids) ==
    LET reach == {e \in kids : childIndexes[p][e] <= target}
    IN  {e \in reach : \A d \in reach \ {e} :
            \/ childIndexes[p][d] < childIndexes[p][e]
            \/ childIndexes[p][d] = childIndexes[p][e] /\ e < d}

\* PanelRouter::routeDownstream: one branch for an addressed frame, a flood for
\* a broadcast or while some child's index is unknown.
RouteDownstream(p, from, f) ==
    LET kids == ConnectedEdges(p) \ {from}
    IN  IF f.target # 0 /\ \A e \in kids : childIndexes[p][e] # 0
        THEN BranchEdge(p, f.target, kids)
        ELSE kids

\* PanelRouter::onFrameArrived: the edges frame f goes out on.
RouteEdges(p, from, f) ==
    CASE parent[p] = NoEdge -> {}
      [] parent[p] = from   -> RouteDownstream(p, from, f)
      [] OTHER              -> {parent[p]} \cap ConnectedEdges(p)

\* PanelFrameDispatcher: a PULL and a frame for this panel are not relayed.
Relays(p, f) ==
    /\ f.type # "PULL"
    /\ ~(assigned[p] # 0 /\ f.target = assigned[p])

\* The channels once frame f has left port <<p, e>> and its relays, which come
\* before anything the driver sends, are on the wire.
Dispatched(p, e, f) ==
    LET rest == Taken(chan, <<p, e>>)
    IN  IF Relays(p, f) THEN Put(rest, p, RouteEdges(p, e, f), f) ELSE rest

\* tryNextEdge: probe the lowest unexplored edge of `state', or report DONE.
OpenEdges(p, state) == {e \in Edge : e # parent[p] /\ state[e] = "Unexplored"}

\* Mutated form: the highest unexplored edge first.
ProbeLast(p, state, assign, tries, ch) ==
    \/ \E e \in OpenEdges(p, state) :
        /\ \A d \in OpenEdges(p, state) : d <= e
        /\ probing' = [probing EXCEPT ![p] = e]
        /\ attempts' = [attempts EXCEPT ![p] = 0]
        /\ chan' = Put(ch, p, {e}, PullFrame(assign, e))
    \/ /\ OpenEdges(p, state) = {}
       /\ probing' = [probing EXCEPT ![p] = NoEdge]
       /\ attempts' = [attempts EXCEPT ![p] = tries]
       /\ chan' = Put(ch, p, {parent[p]}, DoneFrame(assigned[p]))

\* `tries' is what probeAttempts holds when no edge is left to restart it.
ProbeNext(p, state, assign, tries, ch) ==
    \/ \E e \in OpenEdges(p, state) :
        /\ \A d \in OpenEdges(p, state) : e <= d
        /\ probing' = [probing EXCEPT ![p] = e]
        /\ attempts' = [attempts EXCEPT ![p] = 0]
        /\ chan' = Put(ch, p, {e}, PullFrame(assign, e))
    \/ /\ OpenEdges(p, state) = {}
       /\ probing' = [probing EXCEPT ![p] = NoEdge]
       /\ attempts' = [attempts EXCEPT ![p] = tries]
       /\ chan' = Put(ch, p, {parent[p]}, DoneFrame(assigned[p]))

\* Mutated form: every offer is accepted.
AcceptsAll(p, e) == TRUE

\* onParentOffer: the first offer makes the parent, and only the parent's are
\* accepted from then on.
Accepts(p, e) == parent[p] = NoEdge \/ parent[p] = e

\* handleInitializationPull, the offer accepted: the first one brings the index,
\* a repeated one from the parent is answered again.
PanelAcceptOffer(p, e, f) ==
    /\ f.type = "PULL" /\ Accepts(p, e)
    /\ parent' = [parent EXCEPT ![p] = e]
    /\ edges' = IF parent[p] = NoEdge THEN [edges EXCEPT ![p][e] = "Connected"] ELSE edges
    /\ assigned' = IF assigned[p] = 0 THEN [assigned EXCEPT ![p] = f.index] ELSE assigned
    /\ chan' = Put(Dispatched(p, e, f), p, {e}, RegFrame(assigned'[p], e, f.parentEdge))
    /\ UNCHANGED <<childIndexes, pendingAssign, probing, attempts>>

\* A second parent is refused: this is what keeps the tree free of loops.
PanelRejectOffer(p, e, f) ==
    /\ f.type = "PULL" /\ ~Accepts(p, e)
    /\ edges' = [edges EXCEPT ![p][e] = "NotConnected"]
    /\ chan' = Put(Dispatched(p, e, f), p, {e}, RegFrame(RejectedIndex, e, f.parentEdge))
    /\ UNCHANGED <<parent, childIndexes, assigned, pendingAssign, probing, attempts>>

\* Mutated form: the child's index is not kept for the router.
PanelChildUnindexed(p, e, f) ==
    /\ f.type = "REG" /\ probing[p] = e /\ f.index # RejectedIndex
    /\ probing' = [probing EXCEPT ![p] = NoEdge]
    /\ edges' = [edges EXCEPT ![p][e] = "Connected"]
    /\ chan' = Dispatched(p, e, f)
    /\ UNCHANGED <<parent, childIndexes, assigned, pendingAssign, attempts>>

\* handleRegisterEdgeReply: an accepting child; stop until the next ADV.
PanelChildAccepted(p, e, f) ==
    /\ f.type = "REG" /\ probing[p] = e /\ f.index # RejectedIndex
    /\ probing' = [probing EXCEPT ![p] = NoEdge]
    /\ edges' = [edges EXCEPT ![p][e] = "Connected"]
    /\ childIndexes' = [childIndexes EXCEPT ![p][e] = f.index]
    /\ chan' = Dispatched(p, e, f)
    /\ UNCHANGED <<parent, assigned, pendingAssign, attempts>>

\* onChildProbeFailed, then straight on to the next edge.
EdgeFailed(p, e, tries, ch) ==
    /\ edges' = [edges EXCEPT ![p][e] = "NotConnected"]
    /\ childIndexes' = [childIndexes EXCEPT ![p][e] = 0]
    /\ ProbeNext(p, edges'[p], pendingAssign[p], tries, ch)
    /\ UNCHANGED <<parent, assigned, pendingAssign>>

PanelChildRejected(p, e, f) ==
    /\ f.type = "REG" /\ probing[p] = e /\ f.index = RejectedIndex
    /\ EdgeFailed(p, e, attempts[p], Dispatched(p, e, f))

\* handleAdvance: ignored unless it names this panel and no probe is out.
ActsOnAdvance(p, f) == f.type = "ADV" /\ f.target = assigned[p] /\ probing[p] = NoEdge

PanelAdvance(p, e, f) ==
    /\ ActsOnAdvance(p, f)
    /\ pendingAssign' = [pendingAssign EXCEPT ![p] = f.index]
    /\ ProbeNext(p, edges[p], f.index, attempts[p], Dispatched(p, e, f))
    /\ UNCHANGED <<parent, edges, childIndexes, assigned>>

\* Everything else is at most relayed.
PanelRelayOnly(p, e, f) ==
    /\ f.type # "PULL"
    /\ ~(f.type = "REG" /\ probing[p] = e)
    /\ ~ActsOnAdvance(p, f)
    /\ chan' = Dispatched(p, e, f)
    /\ UNCHANGED panelVars

PanelReceive(p, e) ==
    /\ chan[<<p, e>>] # <<>>
    /\ LET f == Head(chan[<<p, e>>]) IN
        \/ PanelAcceptOffer(p, e, f)
        \/ PanelRejectOffer(p, e, f)
        \/ PanelChildAccepted(p, e, f)
        \/ PanelChildRejected(p, e, f)
        \/ PanelAdvance(p, e, f)
        \/ PanelRelayOnly(p, e, f)
    /\ UNCHANGED <<peer, faults, coordVars>>

\* Is the probe of edge e, or its answer, still on the wire?
AnswerOnTheWay(p, e) ==
    \/ chan[<<p, e>>] # <<>>
    \/ peer[<<p, e>>] # NoPort /\ chan[peer[<<p, e>>]] # <<>>

\* PROBE_TIMEOUT_MS is about ten times a healthy answer: a timer that fires while
\* one is on its way is a fault, harmless or not by the attempts it has left.
PanelResendProbe(p) ==
    /\ attempts[p] + 1 < ProbeAttempts
    /\ UnlessFault(~AnswerOnTheWay(p, probing[p]), "CROSSED_PROBE")
    /\ attempts' = [attempts EXCEPT ![p] = @ + 1]
    /\ chan' = Put(chan, p, {probing[p]}, PullFrame(pendingAssign[p], probing[p]))
    /\ UNCHANGED <<parent, edges, childIndexes, assigned, pendingAssign, probing>>

\* The last attempt went unanswered.
PanelGiveUpEdge(p) ==
    /\ attempts[p] + 1 >= ProbeAttempts
    /\ UnlessFault(~AnswerOnTheWay(p, probing[p]), "LATE_ANSWER")
    /\ EdgeFailed(p, probing[p], attempts[p] + 1, chan)

PanelProbeTimeout(p) ==
    /\ probing[p] # NoEdge
    /\ PanelResendProbe(p) \/ PanelGiveUpEdge(p)
    /\ UNCHANGED <<peer, coordVars>>

-----------------------------------------------------------------------------
(* The wires.                                                               *)

\* A REG is on its first hop while its receiver is the node that asked for it;
\* after that it is being relayed up the tree and nobody will ask again.
LossKind(q, f) ==
    IF f.type = "REG" /\ (IF q = Trunk THEN frontier # 0 ELSE probing[q[1]] # q[2])
    THEN "RELAYED_REG" ELSE f.type

\* Noise, an overrun, or a receiver parked on another edge (a probing panel
\* hears only the probed one, see pollProbeClaim): the frame at q is gone.
LoseFrame(q) ==
    /\ chan[q] # <<>>
    /\ Suffer(LossKind(q, Head(chan[q])))
    /\ chan' = Taken(chan, q)
    /\ UNCHANGED <<peer, coordVars, panelVars>>

-----------------------------------------------------------------------------

Init ==
    /\ peer \in Wirings
    /\ faults = 0
    /\ ControllerInit
    /\ PanelsInit
    /\ chan = SendRootPull([q \in Port |-> <<>>])   \* begin()

Next ==
    \/ ControllerReceive
    \/ CoordinatorTick
    \/ Convert
    \/ \E p \in Panels, e \in Edge : PanelReceive(p, e)
    \/ \E p \in Panels : PanelProbeTimeout(p)
    \/ \E q \in Port : LoseFrame(q)

\* The boot loop keeps calling tick() and every panel keeps running its main
\* loop, so frames are read and timers fire; nothing makes a wire lose a frame.
Fairness ==
    /\ WF_vars(ControllerReceive)
    /\ WF_vars(CoordinatorTick)
    /\ WF_vars(Convert)
    /\ \A p \in Panels : WF_vars(PanelProbeTimeout(p))
    /\ \A p \in Panels, e \in Edge : WF_vars(PanelReceive(p, e))

Spec == Init /\ [][Next]_vars /\ Fairness

-----------------------------------------------------------------------------
(* What discovery promises.                                                 *)

Link == [parent : 0 .. MaxPanels, parentEdge : 0 .. NoEdge,
         child : 1 .. MaxPanels, childEdge : 0 .. NoEdge]
EdgeState == {"Unexplored", "Connected", "NotConnected"}

WiresTypeOK ==
    /\ peer \in Wirings
    /\ chan \in [Port -> Seq(Frame)]
    /\ faults \in 0 .. MaxFaults

ControllerTypeOK ==
    /\ nextPanelIndex \in 1 .. MaxPanels + 1
    /\ frontier \in 0 .. MaxPanels
    /\ stack \in Seq(0 .. MaxPanels)
    /\ complete \in BOOLEAN /\ walkStalled \in BOOLEAN /\ converted \in BOOLEAN
    /\ waited \in 0 .. RootIntervals + StallIntervals
    /\ indices \in Seq(1 .. MaxPanels)
    /\ links \in Seq(Link)

PanelsTypeOK ==
    /\ parent \in [Panels -> Edge \cup {NoEdge}]
    /\ edges \in [Panels -> [Edge -> EdgeState]]
    /\ childIndexes \in [Panels -> [Edge -> Nat]]
    /\ assigned \in [Panels -> Nat]
    /\ pendingAssign \in [Panels -> Nat]
    /\ probing \in [Panels -> Edge \cup {NoEdge}]
    /\ attempts \in [Panels -> 0 .. ProbeAttempts]
    /\ \A p \in Panels : probing[p] # NoEdge => attempts[p] < ProbeAttempts

\* The values every variable keeps to; the frames on a wire are well formed.
TypeOK == WiresTypeOK /\ ControllerTypeOK /\ PanelsTypeOK

\* Whatever the wires do, the resume stack followed by the frontier is a path of
\* the recorded tree, down from the controller's sentinel while the walk runs:
\* no duplicate, late or lost frame makes DONE resume a panel that is not the
\* frontier's recorded parent (handleRegisterEdgeReply, handleDiscoveryDone).
ResumeStackIsPath ==
    LET path == Append(stack, frontier) IN
    /\ ~complete => path[1] = 0
    /\ \A k \in 1 .. Len(stack) :
        \/ stack[k] = 0 /\ path[k + 1] = 1
        \/ \E l \in 1 .. Len(links) : links[l].parent = stack[k] /\ links[l].child = path[k + 1]

\* Whatever the wires do, the recorded topology is a tree numbered in discovery
\* order: index k is recorded k-th, every panel but the first hangs below one
\* recorded earlier, and the stack never outgrows the panels recorded, hence its array.
RecordedTreeIsPreorder ==
    /\ Len(indices) = nextPanelIndex - 1
    /\ \A k \in 1 .. Len(indices) : indices[k] = k
    /\ Len(indices) > 0 => Len(links) = Len(indices) - 1
    /\ \A k \in 1 .. Len(links) : links[k].child = k + 1 /\ links[k].parent \in 1 .. k
    /\ Len(stack) <= Len(indices)

\* No two panels answer to one index (PanelDiscoveryDriver adopts what it is offered).
IndicesDistinct ==
    \A p, q \in Panels : p # q /\ assigned[p] # 0 => assigned[p] # assigned[q]

\* Every recorded link is a wire between the two panels that hold its indices,
\* at the edges it names (parentEdge is echoed through the probed panel).
LinksAreWires ==
    \A k \in 1 .. Len(links) :
        \E p, q \in Panels :
            /\ assigned[p] = links[k].parent /\ assigned[q] = links[k].child
            /\ peer[<<p, links[k].parentEdge>>] = <<q, links[k].childEdge>>

\* The panels wired, directly or through others, to the controller.
Wired(m, n) == \E x, y \in Port : x[1] = m /\ y[1] = n /\ peer[x] = y
Reachable ==
    {p \in Panels : \A S \in SUBSET (Panels \cup {Controller}) :
        (Controller \in S /\ \A m \in S, n \in Panels : Wired(m, n) => n \in S) => p \in S}

\* A finished walk has found every panel there is to find, loops or not, and
\* recorded each under the index the panel itself answers to.
FindsEveryPanel ==
    converted => \A p \in Reachable : \E k \in 1 .. Len(indices) : indices[k] = assigned[p]

\* The recorded subtree of index i.
Subtree(i) ==
    {j \in 1 .. Len(indices) : \A S \in SUBSET (1 .. Len(indices)) :
        (i \in S /\ \A k \in 1 .. Len(links) : links[k].parent \in S => links[k].child \in S)
            => j \in S}

\* Once the walk is over, a frame addressed to any panel of p's subtree leaves p
\* on one edge, the one whose child's subtree holds the target (childIndex()
\* plus pre-order numbering is all PanelRouter has to go by).
RoutesFollowTree ==
    converted =>
        \A p \in Panels : assigned[p] # 0 =>
            \A t \in Subtree(assigned[p]) \ {assigned[p]} :
                \E k \in 1 .. Len(links) :
                    /\ links[k].parent = assigned[p]
                    /\ t \in Subtree(links[k].child)
                    /\ RouteDownstream(p, parent[p], AdvFrame(t, 0)) = {links[k].parentEdge}

\* The edges a flood travels are a tree hanging from the controller, whatever
\* was lost or late: a connected edge is the panel's parent edge or leads to a
\* panel that took it as its parent, and parents never form a ring.  Frames have
\* no hop count, so nothing else stops a flood from circulating.
FloodEdgesFormTree ==
    /\ \A p \in Panels : \A e \in ConnectedEdges(p) :
        \/ e = parent[p]
        \/ \E q \in Panels : parent[q] # NoEdge /\ peer[<<p, e>>] = <<q, parent[q]>>
    /\ \A S \in (SUBSET {p \in Panels : parent[p] # NoEdge}) \ {{}} :
        \E p \in S : peer[<<p, parent[p]>>][1] \notin S

\* The panel that answers to index i.
PanelOf(i) == CHOOSE p \in Panels : assigned[p] = i

Walk == INSTANCE DepthFirstWalk WITH
    order    <- [k \in 1 .. Len(indices) |-> PanelOf(indices[k])],
    path     <- IF complete \/ frontier = 0 THEN <<>>
                ELSE [k \in 1 .. Len(stack) |-> PanelOf(Append(stack, frontier)[k + 1])],
    finished <- complete

\* Frames, timers, tables and retries add up to a depth-first walk of the wiring
\* in edge order: indices are handed out in that order, the frontier and its
\* stack are its current panel and way back, and it always takes its next step.
ImplementsDepthFirstWalk == Walk!WalkSpec

\* Every boot leaves discovery, with a whole or a partial tree.
WalkEnds == <>converted

=============================================================================
