---------------------------- MODULE Discovery_proofs ----------------------------
(***************************************************************************)
(* Theorems about Discovery, for every wiring and every number of panels.  *)
(* Under any faults: the variables keep their types (TypeCorrect), and     *)
(* whatever is lost, duplicated or late the recorded tree is numbered in   *)
(* discovery order (TreeSound), the controller's resume stack is a path of *)
(* it (StackSound), and no relayed frame can circulate (FloodsEnd).        *)
(* Under faults the retries recover from (Recoverable), from one invariant *)
(* of the whole exchange (WalkInvariant): no two panels answer to one      *)
(* index (IndicesStayDistinct), recorded links are wires (LinksStayWires), *)
(* a finished boot has found every panel there is (EveryPanelFound), a     *)
(* routed frame gets to its target (RoutesReachTargets), and every step is *)
(* one of the depth-first walk or none of it (WalksDepthFirst).            *)
(***************************************************************************)
EXTENDS Discovery, SequenceTheorems, FiniteSetTheorems, TLAPS

Channels == [Port -> Seq(Frame)]

-----------------------------------------------------------------------------
(* The wires carry well-formed frames.                                      *)

\* A PULL offer (sendProbe, sendRootPull) is well formed.
LEMMA PullTyped == \A i \in Nat, e \in 0 .. NoEdge : PullFrame(i, e) \in Frame
  BY DEF PullFrame, Frame, NoEdge
\* A REG answer (sendRegisterEdge) is well formed.
LEMMA RegTyped == \A i \in Nat, e, pe \in 0 .. NoEdge : RegFrame(i, e, pe) \in Frame
  BY DEF RegFrame, Frame, NoEdge
\* An ADV (sendAdvance) is well formed.
LEMMA AdvTyped == \A t, i \in Nat : AdvFrame(t, i) \in Frame
  BY DEF AdvFrame, Frame, NoEdge
\* A DONE (tryNextEdge with no edge left) is well formed.
LEMMA DoneTyped == \A i \in Nat : DoneFrame(i) \in Frame
  BY DEF DoneFrame, Frame, NoEdge

\* Sending a frame keeps the channels typed.
LEMMA PutTyped ==
    ASSUME NEW ch \in Channels, NEW n, NEW es, NEW f \in Frame
    PROVE  Put(ch, n, es, f) \in Channels
  BY DEF Put, Channels

\* Taking the head of a channel keeps them typed and yields a frame.
LEMMA TakenTyped ==
    ASSUME NEW ch \in Channels, NEW q \in Port, ch[q] # <<>>
    PROVE  Taken(ch, q) \in Channels /\ Head(ch[q]) \in Frame
<1>1. ch[q] \in Seq(Frame)
  BY DEF Channels
<1>2. Tail(ch[q]) \in Seq(Frame) /\ Head(ch[q]) \in Frame
  BY <1>1
<1> QED
  BY <1>2 DEF Taken, Channels

\* Relaying a frame keeps the channels typed.
LEMMA DispatchedTyped ==
    ASSUME chan \in Channels, NEW p \in Panels, NEW e \in Edge, chan[<<p, e>>] # <<>>,
           NEW f \in Frame
    PROVE  Dispatched(p, e, f) \in Channels
<1>1. Taken(chan, <<p, e>>) \in Channels
  BY TakenTyped DEF Port
<1> QED
  BY <1>1, PutTyped DEF Dispatched

-----------------------------------------------------------------------------
(* Pushing onto and popping from a stack.                                   *)

\* Appending to an array of the coordinator or the builder keeps what it held.
LEMMA Pushed ==
    ASSUME NEW S, NEW s \in Seq(S), NEW x \in S
    PROVE  /\ Append(s, x) \in Seq(S)
           /\ Len(Append(s, x)) = Len(s) + 1
           /\ Append(s, x)[Len(s) + 1] = x
           /\ \A i \in 1 .. Len(s) : Append(s, x)[i] = s[i]
  OBVIOUS

\* Popping the resume stack yields its last entry and keeps the ones below.
LEMMA Popped ==
    ASSUME NEW S, NEW s \in Seq(S), s # <<>>
    PROVE  /\ SubSeq(s, 1, Len(s) - 1) \in Seq(S)
           /\ Len(SubSeq(s, 1, Len(s) - 1)) = Len(s) - 1
           /\ \A i \in 1 .. Len(s) - 1 : SubSeq(s, 1, Len(s) - 1)[i] = s[i]
           /\ s[Len(s)] \in S
           /\ Len(s) \in Nat /\ Len(s) >= 1
<1>1. Len(s) \in Nat /\ Len(s) >= 1 /\ s[Len(s)] \in S
  OBVIOUS
<1> DEFINE n == Len(s) - 1
<1>2. n \in Nat /\ \A i \in 1 .. n : s[i] \in S
  BY <1>1
<1> HIDE DEF n
<1>3. /\ SubSeq(s, 1, n) \in Seq(S)
      /\ Len(SubSeq(s, 1, n)) = IF 1 <= n THEN n - 1 + 1 ELSE 0
      /\ \A i \in 1 .. n - 1 + 1 : SubSeq(s, 1, n)[i] = s[1 + i - 1]
  BY <1>2, SubSeqProperties
<1>4. Len(SubSeq(s, 1, n)) = n /\ \A i \in 1 .. n : SubSeq(s, 1, n)[i] = s[i]
  BY <1>2, <1>3
<1> QED
  BY <1>1, <1>3, <1>4 DEF n

-----------------------------------------------------------------------------
(* Type correctness.                                                        *)

\* What the controller does with a frame leaves its variables and the wires typed.
LEMMA RegisterTyped ==
    ASSUME ControllerTypeOK, chan \in Channels, chan[Trunk] # <<>>,
           NEW f \in Frame, ControllerRegister(f)
    PROVE  /\ chan' \in Channels
           /\ UNCHANGED converted => ControllerTypeOK'
<1>1. f.index \in Nat /\ f.edge \in 0 .. NoEdge /\ f.parentEdge \in 0 .. NoEdge
  BY DEF Frame
<1>2. nextPanelIndex \in 1 .. MaxPanels + 1 /\ frontier \in 0 .. MaxPanels
  BY DEF ControllerTypeOK
<1>3. /\ f.index = nextPanelIndex /\ nextPanelIndex <= MaxPanels
      /\ nextPanelIndex' = nextPanelIndex + 1 /\ frontier' = f.index /\ waited' = 0
      /\ stack' = Append(stack, frontier)
      /\ UNCHANGED <<complete, walkStalled>>
  BY DEF ControllerRegister, Registers
<1>4. f.index \in 1 .. MaxPanels /\ nextPanelIndex' \in 1 .. MaxPanels + 1
  BY <1>1, <1>2, <1>3, LimitsAssumption
<1>5. chan' \in Channels
  <2>1. AdvFrame(f.index, nextPanelIndex + 1) \in Frame
    BY <1>1, <1>2, AdvTyped, LimitsAssumption
  <2>2. Taken(chan, Trunk) \in Channels
    BY TakenTyped DEF Port
  <2> QED
    BY <2>1, <2>2, PutTyped DEF ControllerRegister, SendAdvance
<1>6. stack' \in Seq(0 .. MaxPanels)
  BY <1>2, <1>3 DEF ControllerTypeOK
<1>7. indices' \in Seq(1 .. MaxPanels)
  <2>1. indices' = indices \/ indices' = Append(indices, f.index)
    BY DEF ControllerRegister, RecordPanel
  <2>2. indices \in Seq(1 .. MaxPanels)
    BY DEF ControllerTypeOK
  <2>3. Append(indices, f.index) \in Seq(1 .. MaxPanels)
    BY <1>4, <2>2
  <2> QED
    BY <2>1, <2>2, <2>3
<1>8. links' \in Seq(Link)
  <2> DEFINE l == [parent |-> frontier, parentEdge |-> f.parentEdge,
                   child |-> f.index, childEdge |-> f.edge]
  <2>1. l \in Link
    BY <1>1, <1>2, <1>4 DEF Link
  <2>2. links' = links \/ links' = Append(links, l)
    BY DEF ControllerRegister, AddLink
  <2>3. links \in Seq(Link)
    BY DEF ControllerTypeOK
  <2> QED
    BY <2>1, <2>2, <2>3
<1> QED
  BY <1>3, <1>4, <1>5, <1>6, <1>7, <1>8, LimitsAssumption DEF ControllerTypeOK

\* So does the DONE that ends the walk (handleDiscoveryDone popping the
\* sentinel).
LEMMA DoneLastTyped ==
    ASSUME ControllerTypeOK, chan \in Channels, chan[Trunk] # <<>>,
           NEW f \in Frame, ControllerDoneLast(f)
    PROVE  /\ chan' \in Channels
           /\ UNCHANGED converted => ControllerTypeOK'
<1>1. chan' \in Channels
  BY TakenTyped DEF ControllerDoneLast, Port
<1>2. stack' \in Seq(0 .. MaxPanels)
  BY Popped DEF ControllerTypeOK, ControllerDoneLast
<1> QED
  BY <1>1, <1>2, LimitsAssumption DEF ControllerTypeOK, ControllerDoneLast

\* So does the DONE that resumes a parent (handleDiscoveryDone).
LEMMA DoneResumeTyped ==
    ASSUME ControllerTypeOK, chan \in Channels, chan[Trunk] # <<>>,
           NEW f \in Frame, ControllerDoneResume(f)
    PROVE  /\ chan' \in Channels
           /\ UNCHANGED converted => ControllerTypeOK'
<1>1. stack' \in Seq(0 .. MaxPanels) /\ stack[Len(stack)] \in 0 .. MaxPanels
  BY Popped DEF ControllerTypeOK, ControllerDoneResume, Resumable
<1>2. nextPanelIndex \in Nat
  BY LimitsAssumption DEF ControllerTypeOK
<1>3. chan' \in Channels
  <2>1. AdvFrame(stack[Len(stack)], nextPanelIndex) \in Frame
    BY <1>1, <1>2, AdvTyped, LimitsAssumption
  <2>2. Taken(chan, Trunk) \in Channels
    BY TakenTyped DEF Port
  <2> QED
    BY <2>1, <2>2, PutTyped DEF ControllerDoneResume, SendAdvance
<1> QED
  BY <1>1, <1>3, LimitsAssumption DEF ControllerTypeOK, ControllerDoneResume

\* So does a frame onFrameArrived makes nothing of.
LEMMA IgnoreTyped ==
    ASSUME ControllerTypeOK, chan \in Channels, chan[Trunk] # <<>>,
           NEW f \in Frame, ControllerIgnore(f)
    PROVE  /\ chan' \in Channels
           /\ UNCHANGED converted => ControllerTypeOK'
<1>1. chan' \in Channels
  BY TakenTyped DEF ControllerIgnore, Port
<1> QED
  BY <1>1 DEF ControllerTypeOK, ControllerIgnore

\* Handling one trunk frame (ControllerDiscoveryService::tick) keeps the types.
LEMMA ControllerReceiveTyped == TypeOK /\ ControllerReceive => TypeOK'
<1> SUFFICES ASSUME TypeOK, ControllerReceive PROVE TypeOK'
  OBVIOUS
<1> DEFINE f == Head(chan[Trunk])
<1>1. chan \in Channels /\ chan[Trunk] # <<>> /\ Trunk \in Port
  BY DEF TypeOK, WiresTypeOK, ControllerReceive, Channels, Port
<1>2. f \in Frame
  BY <1>1, TakenTyped
<1>3. UNCHANGED <<peer, faults, converted, panelVars>>
  BY DEF ControllerReceive
<1>4. ControllerTypeOK
  BY DEF TypeOK
<1>5. ControllerRegister(f) \/ ControllerDoneLast(f) \/ ControllerDoneResume(f)
        \/ ControllerIgnore(f)
  BY DEF ControllerReceive
<1> HIDE DEF f
<1>6. chan' \in Channels /\ ControllerTypeOK'
  BY <1>1, <1>2, <1>3, <1>4, <1>5, RegisterTyped, DoneLastTyped, DoneResumeTyped, IgnoreTyped
<1>7. WiresTypeOK'
  BY <1>3, <1>6 DEF TypeOK, WiresTypeOK, Channels
<1>8. PanelsTypeOK'
  BY <1>3 DEF TypeOK, PanelsTypeOK, panelVars
<1> QED
  BY <1>6, <1>7, <1>8 DEF TypeOK

\* A retry or a give-up of DiscoveryCoordinator::tick keeps the types.
LEMMA CoordinatorTickTyped == TypeOK /\ CoordinatorTick => TypeOK'
<1> SUFFICES ASSUME TypeOK, CoordinatorTick PROVE TypeOK'
  OBVIOUS
<1>1. /\ chan \in Channels /\ ControllerTypeOK /\ faults \in 0 .. MaxFaults
      /\ nextPanelIndex \in Nat /\ frontier \in Nat
  BY LimitsAssumption DEF TypeOK, WiresTypeOK, ControllerTypeOK, Channels
<1>2. faults' \in 0 .. MaxFaults
  <2>1. faults' = faults \/ (faults < MaxFaults /\ faults' = faults + 1)
    BY DEF CoordinatorTick, IntervalPasses, UnlessFault, Suffer
  <2> QED
    BY <1>1, <2>1, LimitsAssumption
<1>3. SendRootPull(chan) \in Channels /\ SendAdvance(chan, frontier, nextPanelIndex) \in Channels
  <2>1. PullFrame(nextPanelIndex, 0) \in Frame /\ AdvFrame(frontier, nextPanelIndex) \in Frame
    BY <1>1, PullTyped, AdvTyped DEF NoEdge
  <2> QED
    BY <1>1, <2>1, PutTyped DEF SendRootPull, SendAdvance
<1>4. UNCHANGED <<peer, nextPanelIndex, frontier, stack, indices, links, panelVars>>
  BY DEF CoordinatorTick
<1>5. /\ chan' \in Channels
      /\ waited' \in 0 .. RootIntervals + StallIntervals
      /\ complete' \in BOOLEAN /\ walkStalled' \in BOOLEAN /\ converted' \in BOOLEAN
  <2>1. CASE RetryRoot
    BY <1>1, <1>3, <2>1, LimitsAssumption DEF ControllerTypeOK, RetryRoot
  <2>2. CASE GiveUpRoot
    BY <1>1, <2>2 DEF ControllerTypeOK, GiveUpRoot
  <2>3. CASE RetryAdvance
    BY <1>1, <1>3, <2>3, LimitsAssumption DEF ControllerTypeOK, RetryAdvance
  <2>4. CASE GiveUpWalk
    BY <1>1, <2>4 DEF ControllerTypeOK, GiveUpWalk
  <2> QED
    BY <2>1, <2>2, <2>3, <2>4 DEF CoordinatorTick
<1>6. WiresTypeOK' /\ ControllerTypeOK'
  BY <1>1, <1>2, <1>4, <1>5 DEF TypeOK, WiresTypeOK, ControllerTypeOK, Channels
<1>7. PanelsTypeOK'
  BY <1>4 DEF TypeOK, PanelsTypeOK, panelVars
<1> QED
  BY <1>6, <1>7 DEF TypeOK

\* Probing the next edge, or reporting that none is left, keeps the types.
LEMMA ProbeNextTyped ==
    ASSUME PanelsTypeOK, NEW p \in Panels, NEW state, NEW assign \in Nat,
           NEW tries \in 0 .. ProbeAttempts, NEW ch \in Channels,
           ProbeNext(p, state, assign, tries, ch)
    PROVE  /\ probing' \in [Panels -> Edge \cup {NoEdge}]
           /\ attempts' \in [Panels -> 0 .. ProbeAttempts]
           /\ \A x \in Panels : probing'[x] # NoEdge => attempts'[x] < ProbeAttempts
           /\ chan' \in Channels
<1>1. assigned[p] \in Nat /\ probing \in [Panels -> Edge \cup {NoEdge}]
        /\ attempts \in [Panels -> 0 .. ProbeAttempts]
        /\ \A x \in Panels : probing[x] # NoEdge => attempts[x] < ProbeAttempts
  BY DEF PanelsTypeOK
<1>2. CASE \E e \in OpenEdges(p, state) :
            /\ probing' = [probing EXCEPT ![p] = e]
            /\ attempts' = [attempts EXCEPT ![p] = 0]
            /\ chan' = Put(ch, p, {e}, PullFrame(assign, e))
  <2>1. PICK e \in OpenEdges(p, state) :
            /\ probing' = [probing EXCEPT ![p] = e]
            /\ attempts' = [attempts EXCEPT ![p] = 0]
            /\ chan' = Put(ch, p, {e}, PullFrame(assign, e))
    BY <1>2
  <2>2. e \in Edge /\ e \in 0 .. NoEdge
    BY EdgesAssumption DEF OpenEdges, Edge, NoEdge
  <2>3. PullFrame(assign, e) \in Frame
    BY <2>2, PullTyped
  <2>4. chan' \in Channels
    BY <2>1, <2>3, PutTyped
  <2> QED
    BY <1>1, <2>1, <2>2, <2>4, LimitsAssumption
<1>3. CASE /\ probing' = [probing EXCEPT ![p] = NoEdge]
           /\ attempts' = [attempts EXCEPT ![p] = tries]
           /\ chan' = Put(ch, p, {parent[p]}, DoneFrame(assigned[p]))
  BY <1>1, <1>3, DoneTyped, PutTyped
<1> QED
  BY <1>2, <1>3 DEF ProbeNext

\* A failed edge is closed and the next one probed.
LEMMA EdgeFailedTyped ==
    ASSUME PanelsTypeOK, NEW p \in Panels, NEW e \in Edge, NEW tries \in 0 .. ProbeAttempts,
           NEW ch \in Channels, EdgeFailed(p, e, tries, ch)
    PROVE  PanelsTypeOK' /\ chan' \in Channels
<1>1. pendingAssign[p] \in Nat
  BY DEF PanelsTypeOK
<1>2. /\ probing' \in [Panels -> Edge \cup {NoEdge}]
      /\ attempts' \in [Panels -> 0 .. ProbeAttempts]
      /\ \A x \in Panels : probing'[x] # NoEdge => attempts'[x] < ProbeAttempts
      /\ chan' \in Channels
  BY <1>1, ProbeNextTyped DEF EdgeFailed
<1>3. edges' \in [Panels -> [Edge -> EdgeState]]
  BY DEF PanelsTypeOK, EdgeFailed, EdgeState
<1>4. childIndexes' \in [Panels -> [Edge -> Nat]]
  BY DEF PanelsTypeOK, EdgeFailed
<1> QED
  BY <1>2, <1>3, <1>4 DEF PanelsTypeOK, EdgeFailed

\* A panel handling one frame (PanelFrameDispatcher::onFrameArrived) keeps the
\* types.
LEMMA PanelReceiveTyped ==
    ASSUME TypeOK, NEW p \in Panels, NEW e \in Edge, PanelReceive(p, e)
    PROVE  TypeOK'
<1> DEFINE f == Head(chan[<<p, e>>])
<1>1. chan \in Channels /\ chan[<<p, e>>] # <<>> /\ <<p, e>> \in Port
  BY DEF TypeOK, WiresTypeOK, PanelReceive, Channels, Port
<1>2. f \in Frame
  BY <1>1, TakenTyped
<1>3. f.index \in Nat /\ f.parentEdge \in 0 .. NoEdge /\ e \in 0 .. NoEdge
  BY <1>2, EdgesAssumption DEF Frame, Edge, NoEdge
<1>4. UNCHANGED <<peer, faults, coordVars>>
  BY DEF PanelReceive
<1>5. PanelsTypeOK
  BY DEF TypeOK
<1>6. \/ PanelAcceptOffer(p, e, f) \/ PanelRejectOffer(p, e, f)
      \/ PanelChildAccepted(p, e, f) \/ PanelChildRejected(p, e, f)
      \/ PanelAdvance(p, e, f) \/ PanelRelayOnly(p, e, f)
  BY DEF PanelReceive
<1> HIDE DEF f
<1>7. Dispatched(p, e, f) \in Channels
  BY <1>1, <1>2, DispatchedTyped
<1>8. chan' \in Channels /\ PanelsTypeOK'
  <2>1. CASE PanelAcceptOffer(p, e, f)
    <3>1. assigned' \in [Panels -> Nat] /\ assigned'[p] \in Nat
      BY <1>3, <1>5, <2>1 DEF PanelsTypeOK, PanelAcceptOffer
    <3>2. RegFrame(assigned'[p], e, f.parentEdge) \in Frame
      BY <1>3, <3>1, RegTyped
    <3>3. chan' \in Channels
      BY <1>7, <2>1, <3>2, PutTyped DEF PanelAcceptOffer
    <3>4. parent' \in [Panels -> Edge \cup {NoEdge}] /\ edges' \in [Panels -> [Edge -> EdgeState]]
      BY <1>5, <2>1 DEF PanelsTypeOK, PanelAcceptOffer, EdgeState
    <3> QED
      BY <1>5, <2>1, <3>1, <3>3, <3>4 DEF PanelsTypeOK, PanelAcceptOffer
  <2>2. CASE PanelRejectOffer(p, e, f)
    <3>1. RegFrame(RejectedIndex, e, f.parentEdge) \in Frame
      BY <1>3, RegTyped DEF RejectedIndex
    <3>2. chan' \in Channels
      BY <1>7, <2>2, <3>1, PutTyped DEF PanelRejectOffer
    <3>3. edges' \in [Panels -> [Edge -> EdgeState]]
      BY <1>5, <2>2 DEF PanelsTypeOK, PanelRejectOffer, EdgeState
    <3> QED
      BY <1>5, <2>2, <3>2, <3>3 DEF PanelsTypeOK, PanelRejectOffer
  <2>3. CASE PanelChildAccepted(p, e, f)
    <3>1. edges' \in [Panels -> [Edge -> EdgeState]]
      BY <1>5, <2>3 DEF PanelsTypeOK, PanelChildAccepted, EdgeState
    <3>2. childIndexes' \in [Panels -> [Edge -> Nat]]
      BY <1>3, <1>5, <2>3 DEF PanelsTypeOK, PanelChildAccepted
    <3>3. probing' \in [Panels -> Edge \cup {NoEdge}]
      BY <1>5, <2>3 DEF PanelsTypeOK, PanelChildAccepted
    <3> QED
      BY <1>5, <1>7, <2>3, <3>1, <3>2, <3>3 DEF PanelsTypeOK, PanelChildAccepted
  <2>4. CASE PanelChildRejected(p, e, f)
    <3>1. attempts[p] \in 0 .. ProbeAttempts
      BY <1>5 DEF PanelsTypeOK
    <3> QED
      BY <1>5, <1>7, <2>4, <3>1, EdgeFailedTyped DEF PanelChildRejected
  <2>5. CASE PanelAdvance(p, e, f)
    <3>1. attempts[p] \in 0 .. ProbeAttempts
      BY <1>5 DEF PanelsTypeOK
    <3>2. /\ probing' \in [Panels -> Edge \cup {NoEdge}]
          /\ attempts' \in [Panels -> 0 .. ProbeAttempts]
          /\ \A x \in Panels : probing'[x] # NoEdge => attempts'[x] < ProbeAttempts
          /\ chan' \in Channels
      BY <1>3, <1>5, <1>7, <2>5, <3>1, ProbeNextTyped DEF PanelAdvance
    <3> QED
      BY <1>3, <1>5, <2>5, <3>2 DEF PanelsTypeOK, PanelAdvance
  <2>6. CASE PanelRelayOnly(p, e, f)
    BY <1>5, <1>7, <2>6 DEF PanelsTypeOK, PanelRelayOnly, panelVars
  <2> QED
    BY <1>6, <2>1, <2>2, <2>3, <2>4, <2>5, <2>6
<1>9. WiresTypeOK' /\ ControllerTypeOK'
  BY <1>4, <1>8 DEF TypeOK, WiresTypeOK, ControllerTypeOK, coordVars, Channels
<1> QED
  BY <1>8, <1>9 DEF TypeOK

\* A probe resent or given up (PanelDiscoveryDriver::tick) keeps the types.
LEMMA PanelProbeTimeoutTyped ==
    ASSUME TypeOK, NEW p \in Panels, PanelProbeTimeout(p)
    PROVE  TypeOK'
<1>1. /\ chan \in Channels /\ PanelsTypeOK /\ faults \in 0 .. MaxFaults
      /\ probing[p] \in Edge /\ attempts[p] \in 0 .. ProbeAttempts /\ pendingAssign[p] \in Nat
      /\ attempts[p] < ProbeAttempts
  BY DEF TypeOK, WiresTypeOK, PanelsTypeOK, PanelProbeTimeout, Channels
<1>2. UNCHANGED <<peer, coordVars>>
  BY DEF PanelProbeTimeout
<1>3. faults' \in 0 .. MaxFaults
  <2>1. faults' = faults \/ (faults < MaxFaults /\ faults' = faults + 1)
    BY DEF PanelProbeTimeout, PanelResendProbe, PanelGiveUpEdge, UnlessFault, Suffer
  <2> QED
    BY <1>1, <2>1, LimitsAssumption
<1>4. chan' \in Channels /\ PanelsTypeOK'
  <2>1. CASE PanelResendProbe(p)
    <3>1. probing[p] \in 0 .. NoEdge
      BY <1>1, EdgesAssumption DEF Edge, NoEdge
    <3>2. PullFrame(pendingAssign[p], probing[p]) \in Frame
      BY <1>1, <3>1, PullTyped
    <3>3. chan' \in Channels
      BY <1>1, <2>1, <3>2, PutTyped DEF PanelResendProbe
    <3>4. attempts' \in [Panels -> 0 .. ProbeAttempts]
      BY <1>1, <2>1, LimitsAssumption DEF PanelsTypeOK, PanelResendProbe
    <3> QED
      BY <1>1, <2>1, <3>3, <3>4 DEF PanelsTypeOK, PanelResendProbe
  <2>2. CASE PanelGiveUpEdge(p)
    <3>1. attempts[p] + 1 \in 0 .. ProbeAttempts
      BY <1>1, LimitsAssumption
    <3> QED
      BY <1>1, <2>2, <3>1, EdgeFailedTyped DEF PanelGiveUpEdge
  <2> QED
    BY <2>1, <2>2 DEF PanelProbeTimeout
<1>5. WiresTypeOK' /\ ControllerTypeOK'
  BY <1>2, <1>3, <1>4 DEF TypeOK, WiresTypeOK, ControllerTypeOK, coordVars, Channels
<1> QED
  BY <1>4, <1>5 DEF TypeOK

\* Losing a frame keeps the types.
LEMMA LoseFrameTyped ==
    ASSUME TypeOK, NEW q \in Port, LoseFrame(q)
    PROVE  TypeOK'
<1>1. chan \in Channels /\ faults \in 0 .. MaxFaults
  BY DEF TypeOK, WiresTypeOK, Channels
<1>2. chan' \in Channels
  BY <1>1, TakenTyped DEF LoseFrame
<1>3. faults' \in 0 .. MaxFaults
  BY <1>1, LimitsAssumption DEF LoseFrame, Suffer
<1>4. WiresTypeOK' /\ ControllerTypeOK'
  BY <1>2, <1>3 DEF TypeOK, WiresTypeOK, ControllerTypeOK, LoseFrame, coordVars, Channels
<1>5. PanelsTypeOK'
  BY DEF TypeOK, PanelsTypeOK, LoseFrame, panelVars
<1> QED
  BY <1>4, <1>5 DEF TypeOK

\* Leaving the discovery loop of PanelsInitializer::boot keeps the types.
LEMMA ConvertTyped == TypeOK /\ Convert => TypeOK'
<1> SUFFICES ASSUME TypeOK, Convert PROVE TypeOK'
  OBVIOUS
<1>1. WiresTypeOK' /\ ControllerTypeOK'
  BY DEF TypeOK, WiresTypeOK, ControllerTypeOK, Convert
<1>2. PanelsTypeOK'
  BY DEF TypeOK, PanelsTypeOK, Convert, panelVars
<1> QED
  BY <1>1, <1>2 DEF TypeOK

\* Power-up and DiscoveryCoordinator::begin establish the types.
LEMMA InitTyped == Init => TypeOK
<1> SUFFICES ASSUME Init PROVE TypeOK
  OBVIOUS
<1>1. ControllerTypeOK
  <2>1. ControllerInit
    BY DEF Init
  <2>2. stack \in Seq(0 .. MaxPanels) /\ indices \in Seq(1 .. MaxPanels) /\ links \in Seq(Link)
    BY <2>1 DEF ControllerInit
  <2>3. complete \in BOOLEAN /\ walkStalled \in BOOLEAN /\ converted \in BOOLEAN
    BY <2>1 DEF ControllerInit
  <2>4. /\ nextPanelIndex \in 1 .. MaxPanels + 1 /\ frontier \in 0 .. MaxPanels
        /\ waited \in 0 .. RootIntervals + StallIntervals
    BY <2>1, LimitsAssumption DEF ControllerInit
  <2> QED
    BY <2>2, <2>3, <2>4 DEF ControllerTypeOK
<1>2. PanelsTypeOK
  BY LimitsAssumption DEF Init, PanelsInit, PanelsTypeOK, EdgeState
<1>3. [q \in Port |-> <<>>] \in Channels /\ PullFrame(1, 0) \in Frame
  BY PullTyped DEF Channels, NoEdge
<1>4. chan \in Channels
  BY <1>3, PutTyped DEF Init, ControllerInit, SendRootPull
<1>5. WiresTypeOK
  BY <1>4, LimitsAssumption DEF Init, WiresTypeOK, Channels
<1> QED
  BY <1>1, <1>2, <1>5 DEF TypeOK

\* Doing nothing keeps the types.
LEMMA StutterTyped == TypeOK /\ UNCHANGED vars => TypeOK'
<1> SUFFICES ASSUME TypeOK, UNCHANGED vars PROVE TypeOK'
  OBVIOUS
<1>1. WiresTypeOK' /\ ControllerTypeOK'
  BY DEF TypeOK, WiresTypeOK, ControllerTypeOK, vars, coordVars
<1>2. PanelsTypeOK'
  BY DEF TypeOK, PanelsTypeOK, vars, panelVars
<1> QED
  BY <1>1, <1>2 DEF TypeOK

\* Every variable keeps its type: in particular every frame on a wire is well
\* formed, indices stay within MaxPanels on the controller, and a panel that is
\* probing has attempts left.
THEOREM TypeCorrect == Spec => []TypeOK
<1>1. TypeOK /\ [Next]_vars => TypeOK'
  BY ControllerReceiveTyped, CoordinatorTickTyped, ConvertTyped, PanelReceiveTyped,
     PanelProbeTimeoutTyped, LoseFrameTyped, StutterTyped DEF Next
<1> QED
  BY InitTyped, <1>1, PTL DEF Spec

-----------------------------------------------------------------------------
(* The recorded tree and the resume stack.                                  *)

\* The strengthening: the frontier and every entry of the stack are recorded
\* panels or the sentinel, and until the root registers there is nothing.
TreeInv ==
    /\ ResumeStackIsPath
    /\ RecordedTreeIsPreorder
    /\ frontier \in 0 .. Len(indices)
    /\ \A k \in 1 .. Len(stack) : stack[k] \in 0 .. Len(indices)
    /\ frontier = 0 => stack = <<>> /\ indices = <<>> /\ links = <<>>

\* ResumeStackIsPath without the appended sequence.
PathTo(k, b) ==
    \/ stack[k] = 0 /\ b = 1
    \/ \E l \in 1 .. Len(links) : links[l].parent = stack[k] /\ links[l].child = b

Path ==
    /\ ~complete => (IF stack = <<>> THEN frontier = 0 ELSE stack[1] = 0)
    /\ \A k \in 1 .. Len(stack) - 1 : PathTo(k, stack[k + 1])
    /\ stack # <<>> => PathTo(Len(stack), frontier)

\* Path says of the coordinator's stack what ResumeStackIsPath says, entry by
\* entry.
LEMMA PathForm == ControllerTypeOK => (ResumeStackIsPath <=> Path)
<1> SUFFICES ASSUME ControllerTypeOK PROVE ResumeStackIsPath <=> Path
  OBVIOUS
<1> DEFINE path == Append(stack, frontier)
           n == Len(stack)
<1>1. stack \in Seq(0 .. MaxPanels) /\ frontier \in 0 .. MaxPanels /\ n \in Nat
  BY DEF ControllerTypeOK
<1>2. path[n + 1] = frontier /\ \A k \in 1 .. n : path[k] = stack[k]
  BY <1>1, Pushed
<1>3. path[1] = IF stack = <<>> THEN frontier ELSE stack[1]
  BY <1>1, <1>2
<1>4. ResumeStackIsPath <=> /\ ~complete => path[1] = 0
                            /\ \A k \in 1 .. n : PathTo(k, path[k + 1])
  BY DEF ResumeStackIsPath, PathTo
<1>5. (\A k \in 1 .. n : PathTo(k, path[k + 1])) <=>
        /\ \A k \in 1 .. n - 1 : PathTo(k, stack[k + 1])
        /\ n > 0 => PathTo(n, frontier)
  <2>1. \A k \in 1 .. n - 1 : path[k + 1] = stack[k + 1]
    BY <1>1, <1>2
  <2>2. \A k \in 1 .. n : k = n \/ k \in 1 .. n - 1
    BY <1>1
  <2>3. (n > 0 => n \in 1 .. n) /\ \A k \in 1 .. n - 1 : k \in 1 .. n
    BY <1>1
  <2> HIDE DEF path, n
  <2> QED
    BY <1>2, <2>1, <2>2, <2>3
<1>6. stack # <<>> <=> n > 0
  BY <1>1
<1> HIDE DEF path
<1> QED
  BY <1>3, <1>4, <1>5, <1>6 DEF Path

\* Registering a panel: it is recorded under the next index, below the frontier,
\* which joins the stack.
LEMMA RegisterTree ==
    ASSUME ControllerTypeOK, ControllerTypeOK', TreeInv, NEW f \in Frame, ControllerRegister(f)
    PROVE  TreeInv'
<1> DEFINE n == Len(indices)
           m == Len(links)
           h == Len(stack)
           i == nextPanelIndex
           l == [parent |-> frontier, parentEdge |-> f.parentEdge,
                 child |-> f.index, childEdge |-> f.edge]
<1>1. /\ i \in 1 .. MaxPanels /\ frontier \in 0 .. MaxPanels
      /\ stack \in Seq(0 .. MaxPanels) /\ indices \in Seq(1 .. MaxPanels)
      /\ links \in Seq(Link)
      /\ f.index = i /\ nextPanelIndex' = i + 1 /\ frontier' = i
      /\ stack' = Append(stack, frontier) /\ complete' = complete
  BY DEF ControllerTypeOK, ControllerRegister, Registers
<1>2. /\ n = i - 1 /\ \A k \in 1 .. n : indices[k] = k
      /\ n > 0 => m = n - 1
      /\ \A k \in 1 .. m : links[k].child = k + 1 /\ links[k].parent \in 1 .. k
      /\ h <= n /\ n \in Nat /\ m \in Nat /\ h \in Nat
  BY <1>1 DEF TreeInv, RecordedTreeIsPreorder
<1>3. /\ frontier \in 0 .. n /\ \A k \in 1 .. h : stack[k] \in 0 .. n
      /\ frontier = 0 => stack = <<>> /\ indices = <<>> /\ links = <<>>
  BY DEF TreeInv
<1>4. /\ indices' = Append(indices, i)
      /\ Len(indices') = n + 1 /\ indices'[n + 1] = i
      /\ \A k \in 1 .. n : indices'[k] = indices[k]
  <2>1. indices' = Append(indices, i)
    BY <1>1, <1>2, LimitsAssumption DEF ControllerRegister, RecordPanel
  <2> QED
    BY <1>1, <2>1, Pushed
<1>5. /\ Len(stack') = h + 1 /\ stack'[h + 1] = frontier
      /\ \A k \in 1 .. h : stack'[k] = stack[k]
  BY <1>1, Pushed
<1>6. CASE frontier = 0
  <2>1. n = 0 /\ m = 0 /\ h = 0 /\ links' = links /\ i = 1
    BY <1>1, <1>2, <1>3, <1>6 DEF ControllerRegister
  <2>2. RecordedTreeIsPreorder'
    BY <1>1, <1>2, <1>4, <1>5, <2>1 DEF RecordedTreeIsPreorder
  <2>3. Path'
    BY <1>1, <1>5, <1>6, <2>1 DEF Path, PathTo
  <2>4. ResumeStackIsPath'
    BY <2>3, PathForm, PTL
  <2>5. /\ frontier' \in 0 .. Len(indices')
        /\ \A k \in 1 .. Len(stack') : stack'[k] \in 0 .. Len(indices')
        /\ frontier' # 0
    BY <1>1, <1>4, <1>5, <1>6, <2>1
  <2> QED
    BY <2>2, <2>4, <2>5 DEF TreeInv
<1>7. CASE frontier # 0
  <2>1. n > 0 /\ m = n - 1
    BY <1>2, <1>3, <1>7
  <2>2. links' = Append(links, l)
    BY <1>1, <1>2, <1>7, <2>1, LimitsAssumption DEF ControllerRegister, AddLink
  <2>3. l \in Link
    BY <1>1, <1>7, LimitsAssumption DEF Link, Frame
  <2>4. /\ Len(links') = m + 1 /\ links'[m + 1] = l
        /\ \A k \in 1 .. m : links'[k] = links[k]
    BY <1>1, <2>2, <2>3, Pushed
  <2>5. l.parent = frontier /\ l.child = i
    BY <1>1
  <2> HIDE DEF l
  <2>6. RecordedTreeIsPreorder'
    <3>1. Len(indices') = nextPanelIndex' - 1 /\ Len(links') = Len(indices') - 1
            /\ Len(stack') <= Len(indices')
      BY <1>1, <1>2, <1>4, <1>5, <2>1, <2>4
    <3>2. \A k \in 1 .. Len(indices') : indices'[k] = k
      BY <1>1, <1>2, <1>4
    <3>3. \A k \in 1 .. Len(links') : links'[k].child = k + 1 /\ links'[k].parent \in 1 .. k
      <4>1. l.child = m + 2 /\ l.parent \in 1 .. m + 1
        BY <1>1, <1>2, <1>3, <1>7, <2>1, <2>5
      <4>2. \A k \in 1 .. m + 1 : k = m + 1 \/ k \in 1 .. m
        BY <1>2
      <4> QED
        BY <1>2, <2>4, <4>1, <4>2
    <3> QED
      BY <3>1, <3>2, <3>3 DEF RecordedTreeIsPreorder
  <2>7. Path'
    <3>1. Path
      BY PathForm DEF TreeInv
    <3>2. ~complete' => stack'[1] = 0
      BY <1>1, <1>2, <1>5, <1>7, <3>1 DEF Path
    <3>3. \A k \in 1 .. h : \A b : PathTo(k, b) => PathTo(k, b)'
      BY <1>2, <1>5, <2>4, SMTT(30) DEF PathTo
    <3>4. \A k \in 1 .. h : PathTo(k, stack'[k + 1])
      <4>1. /\ \A k \in 1 .. h - 1 : PathTo(k, stack[k + 1])
            /\ h > 0 => PathTo(h, frontier)
        BY <1>1, <3>1 DEF Path
      <4>2. \A k \in 1 .. h : k = h \/ k \in 1 .. h - 1
        BY <1>2
      <4>3. \A k \in 1 .. h - 1 : stack'[k + 1] = stack[k + 1]
        BY <1>2, <1>5
      <4> QED
        BY <1>2, <1>5, <4>1, <4>2, <4>3
    <3>5. \E k \in 1 .. Len(links') :
              links'[k].parent = stack'[h + 1] /\ links'[k].child = frontier'
      <4>1. m + 1 \in 1 .. Len(links')
        BY <1>2, <2>4
      <4> QED
        BY <1>1, <1>5, <2>4, <2>5, <4>1
    <3> QED
      <4>1. \A k \in 1 .. h : PathTo(k, stack[k + 1])'
        <5>1. ASSUME NEW k \in 1 .. h PROVE PathTo(k, stack[k + 1])'
          <6>1. PathTo(k, stack'[k + 1])
            BY <3>4
          <6>2. \A b : PathTo(k, b) => PathTo(k, b)'
            BY <3>3
          <6> QED
            BY <6>1, <6>2 DEF PathTo
        <5> QED
          BY <5>1
      <4>2. stack' # <<>> /\ Len(stack') - 1 = h
        BY <1>2, <1>5
      <4> QED
        BY <1>5, <3>2, <3>5, <4>1, <4>2 DEF Path, PathTo
  <2>8. ResumeStackIsPath'
    BY <2>7, PathForm, PTL
  <2>9. /\ frontier' \in 0 .. Len(indices')
        /\ \A k \in 1 .. Len(stack') : stack'[k] \in 0 .. Len(indices')
        /\ frontier' # 0
    BY <1>1, <1>2, <1>3, <1>4, <1>5
  <2> QED
    BY <2>6, <2>8, <2>9 DEF TreeInv
<1> QED
  BY <1>6, <1>7

\* The sentinel is only ever the bottom of the stack: no link leads to index 0.
LEMMA SentinelAtBottom ==
    ASSUME ControllerTypeOK, TreeInv, stack # <<>>, stack[Len(stack)] = 0
    PROVE  Len(stack) = 1
<1>1. stack \in Seq(0 .. MaxPanels) /\ Len(stack) \in Nat /\ Len(stack) >= 1
  BY DEF ControllerTypeOK
<1>2. Path
  BY PathForm DEF TreeInv
<1> SUFFICES ASSUME Len(stack) # 1 PROVE FALSE
  OBVIOUS
<1>3. \A h \in Nat : h >= 1 /\ h # 1 => h - 1 \in 1 .. h - 1 /\ h - 1 + 1 = h
  OBVIOUS
<1>4. PathTo(Len(stack) - 1, 0)
  BY <1>1, <1>2, <1>3 DEF Path
<1>5. \A k \in 1 .. Len(links) : links[k].child = k + 1
  BY DEF TreeInv, RecordedTreeIsPreorder
<1> QED
  BY <1>4, <1>5 DEF PathTo

\* The DONE that ends the walk (handleDiscoveryDone popping the sentinel) empties
\* the stack and leaves the recorded tree alone.
LEMMA DoneLastTree ==
    ASSUME ControllerTypeOK, ControllerTypeOK', TreeInv, NEW f \in Frame, ControllerDoneLast(f)
    PROVE  TreeInv'
<1>1. /\ complete' /\ frontier' = frontier /\ indices' = indices /\ links' = links
      /\ nextPanelIndex' = nextPanelIndex
      /\ stack' = IF stack = <<>> THEN stack ELSE SubSeq(stack, 1, Len(stack) - 1)
  BY DEF ControllerDoneLast
<1>2. stack # <<>> => stack[Len(stack)] = 0
  BY DEF ControllerDoneLast, Resumable
<1>3. stack' = <<>>
  <2>1. CASE stack = <<>>
    BY <1>1, <2>1
  <2>2. CASE stack # <<>>
    <3>1. Len(stack) = 1
      BY <1>2, <2>2, SentinelAtBottom
    <3>2. Len(stack') = 0
      BY <1>1, <2>2, <3>1, Popped DEF ControllerTypeOK
    <3> QED
      BY <3>2 DEF ControllerTypeOK
  <2> QED
    BY <2>1, <2>2
<1>4. Len(stack') = 0 /\ Len(indices) \in Nat
  BY <1>3 DEF ControllerTypeOK
<1>5. RecordedTreeIsPreorder'
  BY <1>1, <1>4 DEF TreeInv, RecordedTreeIsPreorder
<1>6. Path'
  BY <1>1, <1>3, <1>4 DEF Path
<1>7. ResumeStackIsPath'
  BY <1>6, PathForm, PTL
<1> QED
  BY <1>1, <1>3, <1>4, <1>5, <1>7 DEF TreeInv

\* A DONE that resumes the parent (handleDiscoveryDone) pops one entry off the
\* path, which becomes the frontier.
LEMMA DoneResumeTree ==
    ASSUME ControllerTypeOK, ControllerTypeOK', TreeInv, NEW f \in Frame, ControllerDoneResume(f)
    PROVE  TreeInv'
<1> DEFINE h == Len(stack)
<1>1. /\ stack # <<>> /\ stack[h] # 0 /\ frontier' = stack[h]
      /\ stack' = SubSeq(stack, 1, h - 1)
      /\ UNCHANGED <<nextPanelIndex, complete, indices, links>>
  BY DEF ControllerDoneResume, Resumable
<1>2. /\ Len(stack') = h - 1 /\ \A k \in 1 .. h - 1 : stack'[k] = stack[k]
      /\ h \in Nat /\ h >= 1
  BY <1>1, Popped DEF ControllerTypeOK
<1>3. /\ \A k \in 1 .. h : stack[k] \in 0 .. Len(indices)
      /\ h <= Len(indices) /\ Len(indices) \in Nat
  BY DEF TreeInv, RecordedTreeIsPreorder, ControllerTypeOK
<1>4. RecordedTreeIsPreorder'
  BY <1>1, <1>2, <1>3 DEF TreeInv, RecordedTreeIsPreorder
<1>5. Path'
  <2>1. Path
    BY PathForm DEF TreeInv
  <2>2. ~complete => h > 1 /\ stack[1] = 0
    BY <1>1, <1>2, <2>1 DEF Path
  <2>3. \A k \in 1 .. Len(stack') :
          \/ stack'[k] = 0 /\ stack[k + 1] = 1
          \/ \E l \in 1 .. Len(links') :
                links'[l].parent = stack'[k] /\ links'[l].child = stack[k + 1]
    <3>1. \A k \in 1 .. h - 1 : PathTo(k, stack[k + 1])
      BY <2>1 DEF Path
    <3> QED
      BY <1>1, <1>2, <3>1 DEF PathTo
  <2>4. \A k \in 1 .. Len(stack') - 1 : stack'[k + 1] = stack[k + 1] /\ k \in 1 .. Len(stack')
    BY <1>2
  <2>5. stack' # <<>> => Len(stack') \in 1 .. Len(stack') /\ stack[Len(stack') + 1] = frontier'
    BY <1>1, <1>2 DEF ControllerTypeOK
  <2>6. ~complete' => stack' # <<>> /\ stack'[1] = 0
    <3> SUFFICES ASSUME ~complete' PROVE stack' # <<>> /\ stack'[1] = 0
      OBVIOUS
    <3>1. h > 1 /\ stack[1] = 0
      BY <1>1, <2>2
    <3>2. Len(stack') > 0 /\ stack'[1] = stack[1]
      BY <1>2, <3>1
    <3>3. stack' # <<>>
      BY <3>2
    <3> QED
      BY <3>1, <3>2, <3>3
  <2> QED
    BY <2>3, <2>4, <2>5, <2>6 DEF Path, PathTo
<1>6. ResumeStackIsPath'
  BY <1>5, PathForm, PTL
<1>7. /\ frontier' \in 0 .. Len(indices') /\ frontier' # 0
      /\ \A k \in 1 .. Len(stack') : stack'[k] \in 0 .. Len(indices')
  BY <1>1, <1>2, <1>3
<1> QED
  BY <1>4, <1>6, <1>7 DEF TreeInv

\* Whatever leaves the tree, the stack and the frontier alone, and at most
\* completes the walk, keeps the invariant.
LEMMA SameTree ==
    ASSUME TreeInv, UNCHANGED <<nextPanelIndex, frontier, stack, indices, links>>,
           complete => complete'
    PROVE  TreeInv'
<1>1. RecordedTreeIsPreorder'
  BY DEF TreeInv, RecordedTreeIsPreorder
<1>2. ResumeStackIsPath'
  BY DEF TreeInv, ResumeStackIsPath
<1> QED
  BY <1>1, <1>2 DEF TreeInv

\* One step of the system: only the two frames the coordinator acts on matter.
LEMMA NextTree == TypeOK /\ TypeOK' /\ TreeInv /\ [Next]_vars => TreeInv'
<1> SUFFICES ASSUME TypeOK, TypeOK', TreeInv, [Next]_vars PROVE TreeInv'
  OBVIOUS
<1>1. CASE ControllerReceive
  <2> DEFINE f == Head(chan[Trunk])
  <2>1. f \in Frame
    <3>1. chan \in Channels /\ chan[Trunk] # <<>> /\ Trunk \in Port
      BY <1>1 DEF TypeOK, WiresTypeOK, ControllerReceive, Channels, Port
    <3> QED
      BY <3>1, TakenTyped
  <2>2. ControllerRegister(f) \/ ControllerDoneLast(f) \/ ControllerDoneResume(f)
          \/ ControllerIgnore(f)
    BY <1>1 DEF ControllerReceive
  <2> HIDE DEF f
  <2>3. ControllerTypeOK /\ ControllerTypeOK'
    BY DEF TypeOK
  <2>4. CASE ControllerRegister(f)
    BY <2>1, <2>3, <2>4, RegisterTree
  <2>5. CASE ControllerDoneLast(f)
    BY <2>1, <2>3, <2>5, DoneLastTree
  <2>6. CASE ControllerDoneResume(f)
    BY <2>1, <2>3, <2>6, DoneResumeTree
  <2>7. CASE ControllerIgnore(f)
    BY <2>7, SameTree DEF ControllerIgnore
  <2> QED
    BY <2>2, <2>4, <2>5, <2>6, <2>7
<1>2. CASE CoordinatorTick
  <2>1. complete => complete'
    BY <1>2 DEF CoordinatorTick, IntervalPasses
  <2> QED
    BY <1>2, <2>1, SameTree DEF CoordinatorTick
<1>3. CASE Convert
  BY <1>3, SameTree DEF Convert
<1>4. CASE UNCHANGED coordVars
  BY <1>4, SameTree DEF coordVars
<1>5. ASSUME NEW p \in Panels, NEW e \in Edge, PanelReceive(p, e) PROVE UNCHANGED coordVars
  BY <1>5 DEF PanelReceive
<1>6. ASSUME NEW p \in Panels, PanelProbeTimeout(p) PROVE UNCHANGED coordVars
  BY <1>6 DEF PanelProbeTimeout
<1>7. ASSUME NEW q \in Port, LoseFrame(q) PROVE UNCHANGED coordVars
  BY <1>7 DEF LoseFrame
<1>8. UNCHANGED vars => UNCHANGED coordVars
  BY DEF vars
<1> QED
  BY <1>1, <1>2, <1>3, <1>4, <1>5, <1>6, <1>7, <1>8 DEF Next

\* Before the first frame nothing is recorded.
LEMMA InitTree == Init => TreeInv
<1> SUFFICES ASSUME Init PROVE TreeInv
  OBVIOUS
<1>1. /\ nextPanelIndex = 1 /\ frontier = 0 /\ stack = <<>>
      /\ indices = <<>> /\ links = <<>>
  BY DEF Init, ControllerInit
<1>2. RecordedTreeIsPreorder
  BY <1>1 DEF RecordedTreeIsPreorder
<1>3. ResumeStackIsPath
  BY <1>1 DEF ResumeStackIsPath
<1> QED
  BY <1>1, <1>2, <1>3 DEF TreeInv

\* Whatever frames are lost, duplicated or late, the controller's record is a tree numbered
\* in discovery order that never overruns its arrays (DiscoveryTreeBuilder::recordPanel, addLink).
THEOREM TreeSound == Spec => []RecordedTreeIsPreorder
<1>1. TreeInv => RecordedTreeIsPreorder
  BY DEF TreeInv
<1> QED
  BY TypeCorrect, InitTree, NextTree, <1>1, PTL DEF Spec

\* Under the same faults the resume stack with the frontier is a path of that tree:
\* handleRegisterEdgeReply and handleDiscoveryDone never resume a panel that is not the
\* frontier's recorded parent, nor outgrow the stack.
THEOREM StackSound == Spec => []ResumeStackIsPath
<1>1. TreeInv => ResumeStackIsPath
  BY DEF TreeInv
<1> QED
  BY TypeCorrect, InitTree, NextTree, <1>1, PTL DEF Spec

-----------------------------------------------------------------------------
(* The edges a flood travels.                                               *)

\* A node that has its place in the tree.
Joined(n) == n = Controller \/ parent[n] # NoEdge

\* Frame f may be on its way to port q: offers come from a node of the tree, an accepting
\* answer comes from a child or from the parent, and indices are never 0.
Proper(q, f) ==
    /\ f.type \in {"PULL", "ADV"} => f.index # 0
    /\ f.type = "ADV" => f.target # 0
    /\ f.type = "PULL" => peer[q] # NoPort /\ Joined(peer[q][1])
    /\ f.type = "REG" /\ f.index # RejectedIndex /\ q # Trunk =>
          \/ parent[q[1]] = q[2]
          \/ \E p \in Panels : parent[p] # NoEdge /\ peer[q] = <<p, parent[p]>>

Carried(ch, q) == {ch[q][k] : k \in 1 .. Len(ch[q])}

AllProper(ch) == \A q \in Port : \A f \in Carried(ch, q) : Proper(q, f)

\* A panel probes and has connected edges only once it has a parent, never probes its
\* parent, and its parent had a place before it.
PanelInTree(p) ==
    /\ assigned[p] = 0 <=> parent[p] = NoEdge
    /\ parent[p] = NoEdge => ConnectedEdges(p) = {} /\ probing[p] = NoEdge
    /\ probing[p] # NoEdge => probing[p] # parent[p] /\ pendingAssign[p] # 0
    /\ parent[p] # NoEdge => peer[<<p, parent[p]>>] # NoPort /\ Joined(peer[<<p, parent[p]>>][1])

FloodInv == AllProper(chan) /\ (\A p \in Panels : PanelInTree(p)) /\ FloodEdgesFormTree

\* No edge has the number that stands for none.
LEMMA NotAnEdge == NoEdge \notin Edge /\ Edge \subseteq 0 .. NoEdge
  BY EdgesAssumption DEF Edge, NoEdge

\* A wire is the same from both ends.
LEMMA WiredBack ==
    ASSUME WiresTypeOK, NEW x \in Port, NEW q \in Port, peer[x] = q
    PROVE  peer[q] = x
<1>1. q # NoPort
  BY PanelsAssumption
<1> QED
  BY <1>1, WiringsAssumption DEF WiresTypeOK

\* What is on the wires once a frame has been sent, and once one has been taken.
LEMMA PutCarried ==
    ASSUME NEW ch \in Channels, NEW n, NEW es, NEW f \in Frame, NEW q \in Port,
           NEW g \in Carried(Put(ch, n, es, f), q)
    PROVE  g \in Carried(ch, q) \/ (g = f /\ \E e \in es : peer[<<n, e>>] = q)
<1>1. ch[q] \in Seq(Frame)
  BY DEF Channels
<1>2. CASE \E e \in es : peer[<<n, e>>] = q
  <2>1. Put(ch, n, es, f)[q] = Append(ch[q], f)
    BY <1>2 DEF Put
  <2>2. PICK k \in 1 .. Len(Append(ch[q], f)) : g = Append(ch[q], f)[k]
    BY <2>1 DEF Carried
  <2>3. \/ k \in 1 .. Len(ch[q]) /\ g = ch[q][k]
        \/ g = f
    BY <1>1, <2>2
  <2> QED
    BY <1>2, <2>3 DEF Carried
<1>3. CASE ~(\E e \in es : peer[<<n, e>>] = q)
  BY <1>3 DEF Put, Carried
<1> QED
  BY <1>2, <1>3

\* Taking a frame from a channel adds none to any.
LEMMA TakenCarried ==
    ASSUME NEW ch \in Channels, NEW x \in Port, ch[x] # <<>>, NEW q \in Port,
           NEW g \in Carried(Taken(ch, x), q)
    PROVE  g \in Carried(ch, q)
<1>1. ch[q] \in Seq(Frame) /\ ch[x] \in Seq(Frame)
  BY DEF Channels
<1>2. CASE q = x
  <2>1. Taken(ch, x)[q] = Tail(ch[q])
    BY <1>2 DEF Taken, Channels
  <2>2. PICK k \in 1 .. Len(Tail(ch[q])) : g = Tail(ch[q])[k]
    BY <2>1 DEF Carried
  <2>3. k + 1 \in 1 .. Len(ch[q]) /\ g = ch[q][k + 1]
    BY <1>1, <1>2, <2>2
  <2> QED
    BY <2>3 DEF Carried
<1>3. CASE q # x
  BY <1>3 DEF Taken, Channels, Carried
<1> QED
  BY <1>2, <1>3

\* Sending a frame that is proper where it arrives keeps all of them proper.
LEMMA PutProper ==
    ASSUME WiresTypeOK, NEW ch \in Channels, AllProper(ch), NEW n, NEW es, NEW f \in Frame,
           \A e \in es, q \in Port : peer[<<n, e>>] = q => Proper(q, f)
    PROVE  AllProper(Put(ch, n, es, f))
<1>1. ASSUME NEW q \in Port, NEW g \in Carried(Put(ch, n, es, f), q)
      PROVE  Proper(q, g)
  <2>1. CASE g \in Carried(ch, q)
    BY <2>1 DEF AllProper
  <2>2. CASE g = f /\ \E e \in es : peer[<<n, e>>] = q
    BY <2>2
  <2> QED
    BY <2>1, <2>2, PutCarried
<1> QED
  BY <1>1 DEF AllProper

\* The frame taken was proper, and the rest still is.
LEMMA TakenProper ==
    ASSUME NEW ch \in Channels, AllProper(ch), NEW x \in Port, ch[x] # <<>>
    PROVE  AllProper(Taken(ch, x)) /\ Proper(x, Head(ch[x]))
<1>1. AllProper(Taken(ch, x))
  BY TakenCarried DEF AllProper
<1>2. Head(ch[x]) \in Carried(ch, x)
  <2>1. ch[x] \in Seq(Frame)
    BY DEF Channels
  <2>2. 1 \in 1 .. Len(ch[x]) /\ Head(ch[x]) = ch[x][1]
    BY <2>1
  <2> QED
    BY <2>2 DEF Carried
<1> QED
  BY <1>1, <1>2 DEF AllProper

\* An offer or an answer that a panel sends.
LEMMA OfferProper ==
    ASSUME WiresTypeOK, NEW p \in Panels, parent[p] # NoEdge, NEW e \in Edge, NEW i \in Nat \ {0},
           NEW q \in Port, peer[<<p, e>>] = q
    PROVE  Proper(q, PullFrame(i, e))
<1>1. <<p, e>> \in Port /\ peer[q] = <<p, e>>
  BY WiredBack DEF Port
<1>2. peer[q] # NoPort /\ Joined(peer[q][1])
  BY <1>1, PanelsAssumption DEF Joined
<1> QED
  BY <1>2 DEF Proper, PullFrame

\* What a panel relays goes along the tree.
LEMMA RelayProper ==
    ASSUME WiresTypeOK, PanelsTypeOK, FloodInv, NEW p \in Panels, NEW e \in Edge,
           chan[<<p, e>>] # <<>>, NEW f, f = Head(chan[<<p, e>>])
    PROVE  /\ AllProper(Dispatched(p, e, f)) /\ Dispatched(p, e, f) \in Channels
           /\ Proper(<<p, e>>, f) /\ f \in Frame
<1>1. <<p, e>> \in Port /\ chan \in Channels
  BY DEF Port, WiresTypeOK, Channels
<1>2. AllProper(Taken(chan, <<p, e>>)) /\ Proper(<<p, e>>, f) /\ f \in Frame
      /\ Taken(chan, <<p, e>>) \in Channels
  BY <1>1, TakenProper, TakenTyped DEF FloodInv
<1>3. Dispatched(p, e, f) \in Channels
  BY <1>1, <1>2, DispatchedTyped
<1>4. ASSUME NEW d \in RouteEdges(p, e, f), NEW q \in Port, peer[<<p, d>>] = q, f.type # "PULL"
      PROVE  Proper(q, f)
  <2>1. CASE f.type = "REG"
    <3>1. \/ parent[p] # NoEdge /\ d = parent[p]
          \/ d \in ConnectedEdges(p) /\ d # parent[p]
      BY <1>4 DEF RouteEdges, RouteDownstream, BranchEdge
    <3>2. CASE parent[p] # NoEdge /\ d = parent[p]
      <4>1. d \in Edge
        BY <3>2 DEF PanelsTypeOK
      <4>2. peer[q] = <<p, parent[p]>>
        BY <1>4, <3>2, <4>1, WiredBack DEF Port
      <4> QED
        BY <2>1, <3>2, <4>2 DEF Proper
    <3>3. CASE d \in ConnectedEdges(p) /\ d # parent[p]
      <4>1. PICK r \in Panels : parent[r] # NoEdge /\ peer[<<p, d>>] = <<r, parent[r]>>
        BY <3>3 DEF FloodInv, FloodEdgesFormTree
      <4>2. parent[q[1]] = q[2]
        BY <1>4, <4>1
      <4> QED
        BY <2>1, <4>2 DEF Proper
    <3> QED
      BY <3>1, <3>2, <3>3
  <2>2. CASE f.type # "REG"
    BY <1>2, <1>4, <2>2 DEF Proper
  <2> QED
    BY <2>1, <2>2
<1>5. AllProper(Dispatched(p, e, f))
  <2>1. CASE Relays(p, f)
    <3>1. f.type # "PULL"
      BY <2>1 DEF Relays
    <3> QED
      BY <1>2, <1>4, <2>1, <3>1, PutProper DEF Dispatched
  <2>2. CASE ~Relays(p, f)
    BY <1>2, <2>2 DEF Dispatched
  <2> QED
    BY <2>1, <2>2
<1> QED
  BY <1>2, <1>3, <1>5

\* A place in the tree is for ever, and so is what it makes proper.
LEMMA ProperKept ==
    ASSUME WiresTypeOK, peer' = peer, \A p \in Panels : parent[p] # NoEdge => parent'[p] = parent[p],
           NEW q \in Port, NEW f, Proper(q, f)
    PROVE  Proper(q, f)'
<1>1. q # Trunk => q[1] \in Panels /\ q[2] \in Edge
  BY DEF Port
<1>2. peer[q] # NoPort => peer[q][1] \in Panels \cup {Controller}
  <2>1. peer[q] # NoPort => peer[q] \in Port
    BY WiringsAssumption DEF WiresTypeOK
  <2> QED
    BY <2>1 DEF Port, Trunk
<1>3. f.type = "PULL" => peer'[q] # NoPort /\ Joined(peer[q][1])'
  BY <1>2 DEF Proper, Joined
<1>4. f.type = "REG" /\ f.index # RejectedIndex /\ q # Trunk =>
          \/ parent'[q[1]] = q[2]
          \/ \E p \in Panels : parent'[p] # NoEdge /\ peer'[q] = <<p, parent'[p]>>
  BY <1>1, NotAnEdge DEF Proper
<1> QED
  BY <1>3, <1>4 DEF Proper, Joined

\* A step that gives no panel its place: new connected edges lead to children, new probes
\* go away from the parent.
LEMMA PlacesKept ==
    ASSUME WiresTypeOK, PanelsTypeOK, FloodInv, peer' = peer, parent' = parent, assigned' = assigned,
           AllProper(chan'),
           \A x \in Panels : \A d \in Edge : edges'[x][d] = "Connected" =>
               \/ edges[x][d] = "Connected"
               \/ \E q \in Panels : parent[q] # NoEdge /\ peer[<<x, d>>] = <<q, parent[q]>>,
           \A x \in Panels : probing'[x] # NoEdge =>
               \/ probing'[x] = probing[x] /\ pendingAssign'[x] = pendingAssign[x]
               \/ parent[x] # NoEdge /\ probing'[x] # parent[x] /\ pendingAssign'[x] # 0
    PROVE  FloodInv'
<1>1. AllProper(chan)'
  <2>1. ASSUME NEW q \in Port, NEW f \in Carried(chan', q) PROVE Proper(q, f)'
    <3>1. Proper(q, f)
      BY DEF AllProper
    <3> QED
      BY <3>1, ProperKept
  <2> QED
    BY <2>1 DEF AllProper, Carried
<1>2. \A n : Joined(n)' <=> Joined(n)
  BY DEF Joined
<1>3. ASSUME NEW x \in Panels PROVE PanelInTree(x)'
  <2>1. PanelInTree(x)
    BY DEF FloodInv
  <2>2. parent[x] = NoEdge => \A d \in Edge : edges'[x][d] # "Connected"
    <3> SUFFICES ASSUME parent[x] = NoEdge, NEW d \in Edge, edges'[x][d] = "Connected" PROVE FALSE
      OBVIOUS
    <3>1. edges[x][d] # "Connected"
      BY <2>1 DEF PanelInTree, ConnectedEdges
    <3>2. PICK q \in Panels : parent[q] # NoEdge /\ peer[<<x, d>>] = <<q, parent[q]>>
      BY <3>1
    <3>3. PanelInTree(q)
      BY DEF FloodInv
    <3>4. <<x, d>> \in Port /\ <<q, parent[q]>> \in Port
      BY <3>2 DEF Port, PanelsTypeOK
    <3>5. peer[<<q, parent[q]>>] = <<x, d>>
      BY <3>2, <3>4, WiredBack
    <3>6. Joined(x)
      BY <3>2, <3>3, <3>5 DEF PanelInTree
    <3> QED
      BY <3>6, PanelsAssumption DEF Joined
  <2>3. probing'[x] # NoEdge => parent[x] # NoEdge /\ probing'[x] # parent[x] /\ pendingAssign'[x] # 0
    BY <2>1 DEF PanelInTree
  <2>4. parent[x] = NoEdge => ConnectedEdges(x)' = {}
    BY <2>2 DEF ConnectedEdges
  <2> HIDE DEF ConnectedEdges
  <2> QED
    BY <1>2, <2>1, <2>3, <2>4 DEF PanelInTree
<1>4. FloodEdgesFormTree'
  <2>1. \A p \in Panels : \A e \in ConnectedEdges(p)' :
           e = parent[p] \/ \E q \in Panels : parent[q] # NoEdge /\ peer[<<p, e>>] = <<q, parent[q]>>
    BY DEF FloodInv, FloodEdgesFormTree, ConnectedEdges
  <2> QED
    BY <2>1 DEF FloodInv, FloodEdgesFormTree, ConnectedEdges
<1> QED
  BY <1>1, <1>3, <1>4 DEF FloodInv

\* What the controller sends is proper: it assigns no index 0 and addresses no panel 0.
LEMMA ControllerReceiveFlood == TypeOK /\ FloodInv /\ ControllerReceive => FloodInv'
<1> SUFFICES ASSUME TypeOK, FloodInv, ControllerReceive PROVE FloodInv'
  OBVIOUS
<1>1. PICK f : f = Head(chan[Trunk])
  OBVIOUS
<1>2. chan \in Channels /\ chan[Trunk] # <<>> /\ Trunk \in Port /\ AllProper(chan) /\ WiresTypeOK
  BY DEF TypeOK, WiresTypeOK, ControllerReceive, Channels, Port, FloodInv
<1>3. AllProper(Taken(chan, Trunk)) /\ Taken(chan, Trunk) \in Channels /\ f \in Frame
  BY <1>1, <1>2, TakenProper, TakenTyped
<1>4. ASSUME NEW t \in Nat \ {0}, NEW i \in Nat \ {0}
      PROVE  AllProper(SendAdvance(Taken(chan, Trunk), t, i))
  <2>1. AdvFrame(t, i) \in Frame /\ \A q \in Port : Proper(q, AdvFrame(t, i))
    BY AdvTyped DEF AdvFrame, Proper
  <2> QED
    BY <1>2, <1>3, <2>1, PutProper DEF SendAdvance
<1>5. nextPanelIndex \in Nat /\ nextPanelIndex >= 1
  BY LimitsAssumption DEF TypeOK, ControllerTypeOK
<1>6. AllProper(chan')
  <2>1. CASE ControllerRegister(f)
    <3>1. f.index = nextPanelIndex /\ nextPanelIndex + 1 \in Nat \ {0} /\ nextPanelIndex \in Nat \ {0}
      BY <1>5, <2>1 DEF ControllerRegister, Registers
    <3> QED
      BY <1>4, <2>1, <3>1 DEF ControllerRegister
  <2>2. CASE ControllerDoneLast(f)
    BY <1>3, <2>2 DEF ControllerDoneLast
  <2>3. CASE ControllerDoneResume(f)
    <3>1. stack[Len(stack)] \in Nat \ {0}
      <4>1. stack[Len(stack)] \in 0 .. MaxPanels /\ stack[Len(stack)] # 0
        BY <2>3, Popped DEF TypeOK, ControllerTypeOK, ControllerDoneResume, Resumable
      <4> QED
        BY <4>1, LimitsAssumption
    <3>2. nextPanelIndex \in Nat \ {0}
      BY <1>5
    <3> QED
      BY <1>4, <2>3, <3>1, <3>2 DEF ControllerDoneResume
  <2>4. CASE ControllerIgnore(f)
    BY <1>3, <2>4 DEF ControllerIgnore
  <2> QED
    BY <1>1, <2>1, <2>2, <2>3, <2>4 DEF ControllerReceive
<1> QED
  BY <1>2, <1>6, PlacesKept DEF ControllerReceive, panelVars, TypeOK

\* The coordinator only sends an offer or an ADVANCE.
LEMMA CoordinatorTickFlood == TypeOK /\ FloodInv /\ CoordinatorTick => FloodInv'
<1> SUFFICES ASSUME TypeOK, FloodInv, CoordinatorTick PROVE FloodInv'
  OBVIOUS
<1>1. chan \in Channels /\ AllProper(chan) /\ WiresTypeOK
  BY DEF TypeOK, WiresTypeOK, Channels, FloodInv
<1>2. nextPanelIndex \in Nat \ {0} /\ frontier \in Nat
  BY LimitsAssumption DEF TypeOK, ControllerTypeOK
<1>3. AllProper(SendRootPull(chan))
  <2>1. PullFrame(nextPanelIndex, 0) \in Frame
    BY <1>2, PullTyped DEF NoEdge
  <2>2. ASSUME NEW e \in {0}, NEW q \in Port, peer[<<Controller, e>>] = q
        PROVE  Proper(q, PullFrame(nextPanelIndex, 0))
    <3>1. Trunk \in Port /\ peer[q] = Trunk
      BY <1>1, <2>2, WiredBack DEF Port, Trunk
    <3>2. peer[q] # NoPort /\ Joined(peer[q][1])
      BY <3>1, PanelsAssumption DEF Joined, Trunk
    <3> QED
      BY <1>2, <3>2 DEF Proper, PullFrame
  <2> QED
    BY <1>1, <2>1, <2>2, PutProper DEF SendRootPull
<1>4. frontier # 0 => AllProper(SendAdvance(chan, frontier, nextPanelIndex))
  <2>1. AdvFrame(frontier, nextPanelIndex) \in Frame
    BY <1>2, AdvTyped
  <2>2. frontier # 0 => \A q \in Port : Proper(q, AdvFrame(frontier, nextPanelIndex))
    BY <1>2 DEF Proper, AdvFrame
  <2> QED
    BY <1>1, <2>1, <2>2, PutProper DEF SendAdvance
<1>5. AllProper(chan')
  BY <1>1, <1>3, <1>4 DEF CoordinatorTick, RetryRoot, GiveUpRoot, RetryAdvance, GiveUpWalk
<1> QED
  BY <1>1, <1>5, PlacesKept DEF CoordinatorTick, panelVars, TypeOK

\* tryNextEdge probes an edge that does not lead back to the parent, or probes nothing.
LEMMA ProbeNextFlood ==
    ASSUME WiresTypeOK, PanelsTypeOK, NEW p \in Panels, parent[p] # NoEdge, NEW state,
           NEW assign \in Nat \ {0}, NEW tries, NEW ch \in Channels, AllProper(ch),
           ProbeNext(p, state, assign, tries, ch)
    PROVE  /\ AllProper(chan')
           /\ \A x \in Panels : x # p => probing'[x] = probing[x]
           /\ probing'[p] # NoEdge => probing'[p] # parent[p]
<1>1. probing \in [Panels -> Edge \cup {NoEdge}] /\ assigned[p] \in Nat
  BY DEF PanelsTypeOK
<1>2. CASE \E e \in OpenEdges(p, state) :
            /\ probing' = [probing EXCEPT ![p] = e]
            /\ attempts' = [attempts EXCEPT ![p] = 0]
            /\ chan' = Put(ch, p, {e}, PullFrame(assign, e))
  <2>1. PICK e \in OpenEdges(p, state) :
            /\ probing' = [probing EXCEPT ![p] = e]
            /\ chan' = Put(ch, p, {e}, PullFrame(assign, e))
    BY <1>2
  <2>2. e \in Edge /\ e # parent[p] /\ e \in 0 .. NoEdge
    BY EdgesAssumption DEF OpenEdges, Edge, NoEdge
  <2>3. PullFrame(assign, e) \in Frame
    BY <2>2, PullTyped
  <2>4. \A q \in Port : peer[<<p, e>>] = q => Proper(q, PullFrame(assign, e))
    BY <2>2, OfferProper
  <2>5. AllProper(chan')
    BY <2>1, <2>3, <2>4, PutProper
  <2> QED
    BY <1>1, <2>1, <2>2, <2>5
<1>3. CASE /\ probing' = [probing EXCEPT ![p] = NoEdge]
           /\ attempts' = [attempts EXCEPT ![p] = tries]
           /\ chan' = Put(ch, p, {parent[p]}, DoneFrame(assigned[p]))
  <2>1. DoneFrame(assigned[p]) \in Frame /\ \A q : Proper(q, DoneFrame(assigned[p]))
    BY <1>1, DoneTyped DEF Proper, DoneFrame
  <2>2. AllProper(chan')
    BY <1>3, <2>1, PutProper
  <2> QED
    BY <1>1, <1>3, <2>2
<1> QED
  BY <1>2, <1>3 DEF ProbeNext

\* onChildProbeFailed, then the next edge.
LEMMA EdgeFailedFlood ==
    ASSUME WiresTypeOK, PanelsTypeOK, FloodInv, NEW p \in Panels, NEW e \in Edge, probing[p] = e, NEW tries,
           NEW ch \in Channels, AllProper(ch), peer' = peer, EdgeFailed(p, e, tries, ch)
    PROVE  FloodInv'
<1>1. PanelInTree(p) /\ probing[p] # NoEdge
  BY NotAnEdge DEF FloodInv
<1>2. parent[p] # NoEdge /\ pendingAssign[p] \in Nat \ {0}
  BY <1>1 DEF PanelInTree, PanelsTypeOK
<1>3. /\ AllProper(chan')
      /\ \A x \in Panels : x # p => probing'[x] = probing[x]
      /\ probing'[p] # NoEdge => probing'[p] # parent[p]
  BY <1>2, ProbeNextFlood DEF EdgeFailed
<1>4. \A x \in Panels : \A d \in Edge : edges'[x][d] = "Connected" => edges[x][d] = "Connected"
  BY DEF EdgeFailed, PanelsTypeOK
<1>5. UNCHANGED <<parent, assigned, pendingAssign>>
  BY DEF EdgeFailed
<1> QED
  BY <1>2, <1>3, <1>4, <1>5, PlacesKept

\* What is on the wires once a panel has answered on one edge.
LEMMA AnswerCarried ==
    ASSUME NEW ch \in Channels, NEW p \in Panels, NEW e, NEW es, \A d \in es : d = e, NEW f \in Frame,
           NEW q \in Port, NEW g \in Carried(Put(ch, p, es, f), q)
    PROVE  g \in Carried(ch, q) \/ (g = f /\ peer[<<p, e>>] = q)
<1>1. g \in Carried(ch, q) \/ (g = f /\ \E d \in es : peer[<<p, d>>] = q)
  BY PutCarried
<1> QED
  BY <1>1

\* The first offer gives a panel its place below the node that made it; a repeated one is
\* answered again.
LEMMA PanelAcceptOfferFlood ==
    ASSUME TypeOK, FloodInv, NEW p \in Panels, NEW e \in Edge, chan[<<p, e>>] # <<>>,
           NEW f, f = Head(chan[<<p, e>>]), peer' = peer, PanelAcceptOffer(p, e, f)
    PROVE  FloodInv'
<1>1. WiresTypeOK /\ PanelsTypeOK /\ <<p, e>> \in Port /\ <<p, e>> # Trunk /\ e # NoEdge
  BY PanelsAssumption, NotAnEdge DEF TypeOK, Port, Trunk
<1>2. /\ AllProper(Dispatched(p, e, f)) /\ Dispatched(p, e, f) \in Channels
      /\ Proper(<<p, e>>, f) /\ f \in Frame
  BY <1>1, RelayProper
<1>3. f.index # 0 /\ f.index \in Nat /\ peer[<<p, e>>] # NoPort /\ Joined(peer[<<p, e>>][1])
  BY <1>2 DEF Proper, PanelAcceptOffer, Frame
<1>4. PanelInTree(p) /\ \A x \in Panels : PanelInTree(x)
  BY DEF FloodInv
<1>5. /\ parent[p] = NoEdge \/ parent[p] = e
      /\ parent' = [parent EXCEPT ![p] = e]
      /\ UNCHANGED <<childIndexes, pendingAssign, probing, attempts>>
  BY DEF PanelAcceptOffer, Accepts
<1>6. /\ parent'[p] = e /\ \A x \in Panels : x # p => parent'[x] = parent[x]
      /\ \A x \in Panels : parent[x] # NoEdge => parent'[x] = parent[x]
  BY <1>1, <1>5 DEF PanelsTypeOK
<1>7. /\ \A x \in Panels : x # p => assigned'[x] = assigned[x] /\ edges'[x] = edges[x]
      /\ assigned'[p] # 0 /\ assigned'[p] \in Nat
  BY <1>1, <1>3 DEF PanelAcceptOffer, PanelsTypeOK
<1>8. \A n \in Panels \cup {Controller} : Joined(n) => Joined(n)'
  BY <1>6 DEF Joined
<1>9. AllProper(chan)'
  <2> DEFINE r == RegFrame(assigned'[p], e, f.parentEdge)
  <2>1. chan' = Put(Dispatched(p, e, f), p, {e}, r)
    BY DEF PanelAcceptOffer
  <2>2. r \in Frame
    <3>1. e \in 0 .. NoEdge
      BY NotAnEdge
    <3>2. f.parentEdge \in 0 .. NoEdge
      BY <1>2 DEF Frame
    <3> QED
      BY <1>7, <3>1, <3>2, RegTyped
  <2>3. r.type = "REG"
    BY DEF RegFrame
  <2> HIDE DEF r
  <2>4. PICK s \in Frame : s = r
    BY <2>2
  <2>5. PICK es : chan' = Put(Dispatched(p, e, f), p, es, s) /\ \A d \in es : d = e
    <3>1. \A d \in {e} : d = e
      OBVIOUS
    <3> QED
      BY <2>1, <2>4, <3>1
  <2>6. ASSUME NEW q \in Port, NEW g \in Carried(chan', q) PROVE Proper(q, g)'
    <3>1. g \in Carried(Dispatched(p, e, f), q) \/ (g = s /\ peer[<<p, e>>] = q)
      <4>1. g \in Carried(Put(Dispatched(p, e, f), p, es, s), q)
        BY <2>5, <2>6
      <4> QED
        BY <1>2, <2>5, <4>1, AnswerCarried
    <3>3. CASE g \in Carried(Dispatched(p, e, f), q)
      <4>1. Proper(q, g)
        BY <1>2, <3>3 DEF AllProper
      <4> QED
        BY <1>1, <1>6, <4>1, ProperKept
    <3>4. CASE g = s /\ peer[<<p, e>>] = q
      <4>1. peer'[q] = <<p, parent'[p]>> /\ parent'[p] # NoEdge
        BY <1>1, <1>6, <3>4, WiredBack
      <4> QED
        BY <2>3, <2>4, <3>4, <4>1 DEF Proper
    <3> QED
      BY <3>1, <3>3, <3>4
  <2> QED
    BY <2>6 DEF AllProper, Carried
<1>10. \A x \in Port : peer[x] # NoPort => peer[x][1] \in Panels \cup {Controller}
  <2>1. \A x \in Port : peer[x] # NoPort => peer[x] \in Port
    BY <1>1, WiringsAssumption DEF WiresTypeOK
  <2> QED
    BY <2>1 DEF Port, Trunk
<1>11. ASSUME NEW d \in Edge, edges'[p][d] = "Connected"
       PROVE  (edges[p][d] = "Connected" /\ parent[p] # NoEdge) \/ d = e
  <2>1. parent[p] = NoEdge => edges[p][d] # "Connected"
    BY <1>4 DEF PanelInTree, ConnectedEdges
  <2> QED
    BY <1>1, <1>11, <2>1 DEF PanelAcceptOffer, PanelsTypeOK
<1>12. ASSUME NEW x \in Panels PROVE PanelInTree(x)'
  <2>1. CASE x = p
    <3>1. probing[p] # NoEdge => probing[p] # e /\ pendingAssign[p] # 0
      BY <1>4, <1>5 DEF PanelInTree
    <3>2. Joined(peer[<<p, e>>][1])'
      BY <1>1, <1>3, <1>8, <1>10
    <3> QED
      BY <1>1, <1>3, <1>5, <1>6, <1>7, <2>1, <3>1, <3>2 DEF PanelInTree
  <2>2. CASE x # p
    <3>1. PanelInTree(x) /\ UNCHANGED <<parent[x], assigned[x], edges[x], probing[x], pendingAssign[x]>>
      BY <1>4, <1>5, <1>6, <1>7, <2>2
    <3>2. parent[x] # NoEdge => Joined(peer[<<x, parent[x]>>][1])'
      <4>1. parent[x] # NoEdge => <<x, parent[x]>> \in Port
        BY <1>1 DEF PanelsTypeOK, Port
      <4> QED
        BY <1>8, <1>10, <3>1, <4>1 DEF PanelInTree
    <3> QED
      BY <3>1, <3>2 DEF PanelInTree, ConnectedEdges
  <2> QED
    BY <2>1, <2>2
<1>13. \A x \in Panels : \A d \in ConnectedEdges(x)' :
         d = parent'[x] \/ \E q \in Panels : parent'[q] # NoEdge /\ peer[<<x, d>>] = <<q, parent'[q]>>
  <2>1. ASSUME NEW x \in Panels, NEW d \in Edge, edges'[x][d] = "Connected", d # parent'[x]
        PROVE  \E q \in Panels : parent'[q] # NoEdge /\ peer[<<x, d>>] = <<q, parent'[q]>>
    <3>1. edges[x][d] = "Connected" /\ (x = p => parent[p] # NoEdge)
      BY <1>6, <1>7, <1>11, <2>1
    <3>2. d # parent[x]
      BY <1>6, <2>1, <3>1
    <3>3. \E q \in Panels : parent[q] # NoEdge /\ peer[<<x, d>>] = <<q, parent[q]>>
      BY <3>1, <3>2 DEF FloodInv, FloodEdgesFormTree, ConnectedEdges
    <3> QED
      BY <1>6, <3>3
  <2> QED
    BY <2>1 DEF ConnectedEdges
<1>14. ASSUME NEW S \in SUBSET {x \in Panels : parent'[x] # NoEdge}, S # {}
       PROVE  \E x \in S : peer[<<x, parent'[x]>>][1] \notin S
  <2>1. CASE \A x \in S : parent[x] # NoEdge
    <3>1. S \in (SUBSET {x \in Panels : parent[x] # NoEdge}) \ {{}}
      BY <1>14, <2>1
    <3>2. PICK x \in S : peer[<<x, parent[x]>>][1] \notin S
      BY <3>1 DEF FloodInv, FloodEdgesFormTree
    <3> QED
      BY <1>6, <2>1, <3>2
  <2>2. CASE parent[p] = NoEdge /\ p \in S
    <3>1. peer[<<p, e>>][1] # p
      BY <1>3, <2>2, PanelsAssumption DEF Joined
    <3>2. CASE S = {p}
      BY <1>6, <3>1, <3>2
    <3>3. CASE S # {p}
      <4> DEFINE T == S \ {p}
      <4>1. T \in (SUBSET {x \in Panels : parent[x] # NoEdge}) \ {{}}
        BY <1>6, <2>2, <3>3
      <4>2. PICK x \in T : peer[<<x, parent[x]>>][1] \notin T
        BY <4>1 DEF FloodInv, FloodEdgesFormTree
      <4>3. x \in Panels /\ x # p /\ parent[x] # NoEdge
        BY <4>1, <4>2
      <4>4. Joined(peer[<<x, parent[x]>>][1])
        BY <1>4, <4>3 DEF PanelInTree
      <4>5. peer[<<x, parent[x]>>][1] # p
        BY <2>2, <4>4, PanelsAssumption DEF Joined
      <4> QED
        BY <1>6, <4>2, <4>3, <4>5
    <3> QED
      BY <3>2, <3>3
  <2> QED
    BY <1>6, <2>1, <2>2
<1> QED
  BY <1>9, <1>12, <1>13, <1>14 DEF FloodInv, FloodEdgesFormTree

\* A panel handling one frame.
LEMMA PanelReceiveFlood ==
    ASSUME TypeOK, FloodInv, NEW p \in Panels, NEW e \in Edge, PanelReceive(p, e)
    PROVE  FloodInv'
<1>1. PICK f : f = Head(chan[<<p, e>>])
  OBVIOUS
<1>2. chan[<<p, e>>] # <<>> /\ peer' = peer /\ WiresTypeOK /\ PanelsTypeOK
  BY DEF PanelReceive, TypeOK
<1>3. /\ AllProper(Dispatched(p, e, f)) /\ Dispatched(p, e, f) \in Channels
      /\ Proper(<<p, e>>, f) /\ f \in Frame
  BY <1>1, <1>2, RelayProper
<1>4. <<p, e>> \in Port /\ <<p, e>> # Trunk /\ e # NoEdge /\ PanelInTree(p)
  BY PanelsAssumption, NotAnEdge DEF Port, Trunk, FloodInv
<1>5. CASE PanelAcceptOffer(p, e, f)
  BY <1>1, <1>2, <1>5, PanelAcceptOfferFlood
<1>6. CASE PanelRejectOffer(p, e, f)
  <2>1. AllProper(chan')
    <3> DEFINE r == RegFrame(RejectedIndex, e, f.parentEdge)
    <3>1. e \in 0 .. NoEdge
      BY EdgesAssumption DEF Edge, NoEdge
    <3>2. f.parentEdge \in 0 .. NoEdge
      BY <1>3 DEF Frame
    <3>3. r \in Frame
      BY <3>1, <3>2, RegTyped DEF RejectedIndex
    <3>4. \A q : Proper(q, r)
      BY DEF RegFrame, Proper
    <3> HIDE DEF r
    <3>5. AllProper(Put(Dispatched(p, e, f), p, {e}, r))
      BY <1>2, <1>3, <3>3, <3>4, PutProper
    <3> QED
      BY <1>6, <3>5 DEF PanelRejectOffer, r
  <2>2. \A x \in Panels : \A d \in Edge : edges'[x][d] = "Connected" => edges[x][d] = "Connected"
    BY <1>2, <1>6 DEF PanelRejectOffer, PanelsTypeOK
  <2> QED
    BY <1>2, <1>6, <2>1, <2>2, PlacesKept DEF PanelRejectOffer
<1>7. CASE PanelChildAccepted(p, e, f)
  <2>1. parent[p] # e
    BY <1>4, <1>7 DEF PanelChildAccepted, PanelInTree
  <2>2. \E q \in Panels : parent[q] # NoEdge /\ peer[<<p, e>>] = <<q, parent[q]>>
    BY <1>3, <1>4, <1>7, <2>1 DEF PanelChildAccepted, Proper
  <2>3. \A x \in Panels : \A d \in Edge :
           edges'[x][d] = "Connected" => edges[x][d] = "Connected" \/ (x = p /\ d = e)
    BY <1>2, <1>7 DEF PanelChildAccepted, PanelsTypeOK
  <2>4. \A x \in Panels : probing'[x] # NoEdge => probing'[x] = probing[x]
    BY <1>2, <1>7 DEF PanelChildAccepted, PanelsTypeOK
  <2>5. AllProper(chan') /\ UNCHANGED <<parent, assigned, pendingAssign>>
    BY <1>3, <1>7 DEF PanelChildAccepted
  <2> QED
    BY <1>2, <2>2, <2>3, <2>4, <2>5, PlacesKept
<1>8. CASE PanelChildRejected(p, e, f)
  BY <1>2, <1>3, <1>8, EdgeFailedFlood DEF PanelChildRejected
<1>9. CASE PanelAdvance(p, e, f)
  <2>1. f.target # 0 /\ f.index \in Nat \ {0} /\ f.target = assigned[p]
    BY <1>3, <1>9 DEF PanelAdvance, ActsOnAdvance, Proper, Frame
  <2>2. parent[p] # NoEdge
    BY <1>4, <2>1 DEF PanelInTree
  <2>3. /\ AllProper(chan')
        /\ \A x \in Panels : x # p => probing'[x] = probing[x]
        /\ probing'[p] # NoEdge => probing'[p] # parent[p]
    BY <1>2, <1>3, <1>9, <2>1, <2>2, ProbeNextFlood DEF PanelAdvance
  <2>4. pendingAssign'[p] # 0 /\ \A x \in Panels : x # p => pendingAssign'[x] = pendingAssign[x]
    BY <1>2, <1>9, <2>1 DEF PanelAdvance, PanelsTypeOK
  <2> QED
    BY <1>2, <1>9, <2>2, <2>3, <2>4, PlacesKept DEF PanelAdvance
<1>10. CASE PanelRelayOnly(p, e, f)
  BY <1>2, <1>3, <1>10, PlacesKept DEF PanelRelayOnly, panelVars
<1> QED
  BY <1>1, <1>5, <1>6, <1>7, <1>8, <1>9, <1>10 DEF PanelReceive

\* A probe resent or given up.
LEMMA PanelProbeTimeoutFlood ==
    ASSUME TypeOK, FloodInv, NEW p \in Panels, PanelProbeTimeout(p)
    PROVE  FloodInv'
<1>1. /\ chan \in Channels /\ AllProper(chan) /\ WiresTypeOK /\ PanelsTypeOK /\ peer' = peer
      /\ probing[p] \in Edge /\ PanelInTree(p) /\ probing[p] # NoEdge
  BY DEF TypeOK, WiresTypeOK, PanelsTypeOK, PanelProbeTimeout, Channels, FloodInv
<1>2. parent[p] # NoEdge /\ pendingAssign[p] \in Nat \ {0}
  BY <1>1 DEF PanelInTree, PanelsTypeOK
<1>3. CASE PanelResendProbe(p)
  <2>1. probing[p] \in 0 .. NoEdge
    BY <1>1, EdgesAssumption DEF Edge, NoEdge
  <2>2. PullFrame(pendingAssign[p], probing[p]) \in Frame
    BY <1>2, <2>1, PullTyped
  <2>3. \A q \in Port : peer[<<p, probing[p]>>] = q => Proper(q, PullFrame(pendingAssign[p], probing[p]))
    BY <1>1, <1>2, OfferProper
  <2>4. AllProper(chan')
    BY <1>1, <1>3, <2>2, <2>3, PutProper DEF PanelResendProbe
  <2> QED
    BY <1>1, <1>3, <2>4, PlacesKept DEF PanelResendProbe
<1>4. CASE PanelGiveUpEdge(p)
  BY <1>1, <1>4, EdgeFailedFlood DEF PanelGiveUpEdge
<1> QED
  BY <1>3, <1>4 DEF PanelProbeTimeout

\* A frame less on a wire closes no ring.
LEMMA LoseFrameFlood ==
    ASSUME TypeOK, FloodInv, NEW q \in Port, LoseFrame(q)
    PROVE  FloodInv'
<1>1. chan \in Channels /\ AllProper(chan) /\ WiresTypeOK /\ PanelsTypeOK
  BY DEF TypeOK, WiresTypeOK, Channels, FloodInv
<1>2. AllProper(chan')
  BY <1>1, TakenProper DEF LoseFrame
<1> QED
  BY <1>1, <1>2, PlacesKept DEF LoseFrame, panelVars

\* Every step keeps the flood edges a tree.
LEMMA NextFlood == TypeOK /\ FloodInv /\ [Next]_vars => FloodInv'
<1> SUFFICES ASSUME TypeOK, FloodInv, [Next]_vars PROVE FloodInv'
  OBVIOUS
<1>1. CASE UNCHANGED <<peer, chan, panelVars>>
  BY <1>1, PlacesKept DEF panelVars, FloodInv, TypeOK
<1>2. Convert \/ UNCHANGED vars => UNCHANGED <<peer, chan, panelVars>>
  BY DEF Convert, vars
<1> QED
  BY <1>1, <1>2, ControllerReceiveFlood, CoordinatorTickFlood, PanelReceiveFlood,
     PanelProbeTimeoutFlood, LoseFrameFlood DEF Next

\* At power-up no panel has a place, and the one frame is the controller's offer.
LEMMA InitFlood == Init => FloodInv
<1> SUFFICES ASSUME Init PROVE FloodInv
  OBVIOUS
<1>1. TypeOK
  BY InitTyped
<1> DEFINE none == [q \in Port |-> <<>>]
<1>2. none \in Channels /\ AllProper(none)
  <2>1. \A q \in Port : none[q] = <<>> /\ Carried(none, q) = {}
    BY DEF Carried
  <2> QED
    BY <2>1 DEF AllProper, Channels
<1>3. chan = SendRootPull(none) /\ nextPanelIndex = 1
  BY DEF Init, ControllerInit
<1> HIDE DEF none
<1>4. PullFrame(1, 0) \in Frame
  BY PullTyped DEF NoEdge
<1>5. ASSUME NEW e \in {0}, NEW q \in Port, peer[<<Controller, e>>] = q PROVE Proper(q, PullFrame(1, 0))
  <2>1. Trunk \in Port /\ peer[q] = Trunk
    BY <1>1, <1>5, WiredBack DEF Port, Trunk, TypeOK
  <2>2. peer[q] # NoPort /\ Joined(peer[q][1])
    BY <2>1, PanelsAssumption DEF Joined, Trunk
  <2> QED
    BY <2>2 DEF Proper, PullFrame
<1>6. AllProper(chan)
  BY <1>1, <1>2, <1>3, <1>4, <1>5, PutProper DEF SendRootPull, TypeOK
<1>7. \A p \in Panels : ConnectedEdges(p) = {} /\ parent[p] = NoEdge /\ assigned[p] = 0 /\ probing[p] = NoEdge
  BY DEF Init, PanelsInit, ConnectedEdges
<1>8. \A p \in Panels : PanelInTree(p)
  BY <1>7 DEF PanelInTree
<1>9. FloodEdgesFormTree
  BY <1>7 DEF FloodEdgesFormTree
<1> QED
  BY <1>6, <1>8, <1>9 DEF FloodInv

\* PanelDiscovery, PanelRouter: whatever is lost or late, the edges a relayed frame goes out
\* on form a tree hanging from the controller, so no flood circulates in a ring of panels.
THEOREM FloodsEnd == Spec => []FloodEdgesFormTree
<1>1. FloodInv => FloodEdgesFormTree
  BY DEF FloodInv
<1> QED
  BY TypeCorrect, InitFlood, NextFlood, <1>1, PTL DEF Spec

-----------------------------------------------------------------------------
(* The walk itself, when only what is retried can be lost.                  *)

\* What is lost is retried (a probe, an answer on its first hop, an ADVANCE, a DONE), no
\* timer gives up what is still on its way, there are fewer faults than any retry
\* allows, and the coordinator's arrays hold every panel.
Recoverable ==
    /\ Faults \subseteq {"PULL", "REG", "ADV", "DONE", "CROSSED_PROBE"}
    /\ MaxFaults < ProbeAttempts /\ MaxFaults < RootIntervals /\ MaxFaults < StallIntervals
    /\ IsFiniteSet(Panels) /\ Cardinality(Panels) <= MaxPanels

\* Port x has an offer out; nothing has been settled at port x; port x leads down from a
\* node of the tree; port y has settled the offer of the port wired to it.
Asks(x)  == IF x = Trunk THEN frontier = 0 ELSE probing[x[1]] = x[2]
Fresh(x) == IF x = Trunk THEN frontier = 0 ELSE edges[x[1]][x[2]] = "Unexplored"
Below(x) == x = Trunk \/ (assigned[x[1]] # 0 /\ x[2] # parent[x[1]])
Answered(y) == y # Trunk /\ (y[2] = parent[y[1]] \/ edges[y[1]][y[2]] = "NotConnected")

\* A registration names a panel, its parent edge and the edge above it, and has left its
\* first hop only if that edge is settled.
Truthful(x, f) ==
    \E q \in Panels :
        /\ assigned[q] = f.index /\ parent[q] = f.edge
        /\ peer[<<q, parent[q]>>][2] = f.parentEdge
        /\ peer[<<q, parent[q]>>] = x \/ ~Fresh(peer[<<q, parent[q]>>])

\* Frame f is the answer of the panel asked at port x.
AnswerOf(x, f) ==
    /\ peer[x] # NoPort /\ peer[x] # Trunk
    /\ IF f.index = 0 THEN edges[peer[x][1]][peer[x][2]] = "NotConnected"
       ELSE parent[peer[x][1]] = peer[x][2] /\ assigned[peer[x][1]] = f.index

\* What may be on its way to port x.
Fits(x, f) ==
    /\ f.type = "PULL" =>
        /\ x # Trunk /\ f.parentEdge = peer[x][2]
        /\ Answered(x) \/ (Asks(peer[x]) /\ f.index = nextPanelIndex)
    /\ f.type # "PULL" => peer[x] # NoPort /\ ~Fresh(peer[x])
    /\ f.type = "REG" =>
        /\ Below(x) /\ f.target = 0
        /\ f.index # 0 => Truthful(x, f)
        /\ Fresh(x) => Asks(x) /\ AnswerOf(x, f)
    /\ f.type = "ADV" => x # Trunk /\ x[2] = parent[x[1]]
    /\ f.type = "DONE" => Below(x) /\ f.target = 0 /\ ~Fresh(x)
AllFit(ch) == \A x \in Port : \A f \in Carried(ch, x) : Fits(x, f)

\* Who holds which index: the panels recorded, and at most one that is not yet.
Numbered ==
    /\ IndicesDistinct
    /\ \A p \in Panels : assigned[p] <= nextPanelIndex
    /\ \A i \in 1 .. nextPanelIndex - 1 : \E p \in Panels : assigned[p] = i
    /\ frontier # 0 => frontier < nextPanelIndex
    /\ frontier = 0 => nextPanelIndex = 1

Recorded(p) == assigned[p] # 0 /\ assigned[p] # nextPanelIndex

\* A panel that is not recorded has explored nothing.
Blank(p) == ~Recorded(p) =>
    probing[p] = NoEdge /\ \A e \in Edge : e # parent[p] => edges[p][e] = "Unexplored"

\* Connected edges lead to children, known by their index, and to the parent.
Kids(p) ==
    /\ parent[p] # NoEdge => edges[p][parent[p]] = "Connected"
    /\ \A e \in Edge : e # parent[p] /\ edges[p][e] = "Connected" =>
        \E q \in Panels :
            /\ peer[<<p, e>>] = <<q, parent[q]>>
            /\ childIndexes[p][e] = assigned[q] /\ assigned[q] > assigned[p]
Above(q) == assigned[q] # 0 =>
    IF assigned[q] = 1 THEN peer[<<q, parent[q]>>] = Trunk
    ELSE \E p \in Panels, e \in Edge :
            /\ peer[<<q, parent[q]>>] = <<p, e>>
            /\ assigned[p] # 0 /\ assigned[p] < assigned[q] /\ e # parent[p]
            /\ edges[p][e] = "Connected" \/ (probing[p] = e /\ assigned[q] = nextPanelIndex)

\* A refused edge leads nowhere or to a recorded panel.
Refused(p) == \A e \in Edge : edges[p][e] = "NotConnected" /\ peer[<<p, e>>] # NoPort =>
    peer[<<p, e>>] # Trunk /\ Recorded(peer[<<p, e>>][1])

\* Only the edge being probed can be settled at its far end alone.
Half(p) == \A e \in Edge :
    /\ edges[p][e] = "Unexplored" /\ peer[<<p, e>>] # NoPort
    /\ ~Fresh(peer[<<p, e>>])
    => probing[p] = e

\* The edges below edge e are settled.
Lowest(p, e) == \A d \in Edge : d < e /\ d # parent[p] => edges[p][d] # "Unexplored"

\* Only the frontier probes, and it offers the next index.
Prober(p) == probing[p] # NoEdge =>
    /\ assigned[p] = frontier /\ frontier # 0 /\ ~complete
    /\ pendingAssign[p] = nextPanelIndex
    /\ edges[p][probing[p]] = "Unexplored" /\ Lowest(p, probing[p])

\* A panel waiting to be recorded hangs below the frontier, by the edge it probes or the
\* one it has just connected.
Waiting(q) == assigned[q] = nextPanelIndex =>
    /\ ~complete
    /\ frontier # 0 => \E p \in Panels, e \in Edge :
        /\ peer[<<q, parent[q]>>] = <<p, e>> /\ assigned[p] = frontier
        /\ e # parent[p] /\ Lowest(p, e)
        /\ probing[p] = NoEdge => edges[p][e] = "Connected"
        /\ probing[p] # NoEdge => probing[p] = e

PanelOK(p) ==
    Blank(p) /\ Kids(p) /\ Above(p) /\ Refused(p) /\ Half(p) /\ Prober(p) /\ Waiting(p)

\* Nothing is being offered or waits to be recorded.
Idle == \A p \in Panels : probing[p] = NoEdge /\ assigned[p] # nextPanelIndex

\* The panels on the path: the frontier and the stack below it.
OnPath(i) == i = frontier \/ \E k \in 1 .. Len(stack) : stack[k] = i
After(k) == IF k = Len(stack) THEN frontier ELSE stack[k + 1]
Finished(p) == OpenEdges(p, edges[p]) = {}

\* The path goes down, each entry's last child is the next one, and what is off it is
\* finished.
Descends ==
    /\ \A k \in 1 .. Len(stack) : stack[k] < frontier
    /\ \A j, k \in 1 .. Len(stack) : j < k => stack[j] < stack[k]
LastChild(p) == \A k \in 1 .. Len(stack) : stack[k] = assigned[p] /\ assigned[p] # 0 =>
    /\ \E e \in Edge : e # parent[p] /\ edges[p][e] = "Connected" /\ childIndexes[p][e] = After(k)
    /\ \A e \in Edge : e # parent[p] /\ edges[p][e] = "Connected" => childIndexes[p][e] <= After(k)
OffPath(p) == Recorded(p) /\ ~OnPath(assigned[p]) => Finished(p)
PathOK == Descends /\ (\A p \in Panels : LastChild(p) /\ OffPath(p))

\* The one frame that keeps the walk going while nothing is offered.
IsToken(f) == f.type = "ADV" \/ f.type = "DONE"
TokenFree(ch) == \A x \in Port : \A f \in Carried(ch, x) : ~IsToken(f)
Sole(ch) == \A x, y \in Port : \A j \in 1 .. Len(ch[x]), k \in 1 .. Len(ch[y]) :
    IsToken(ch[x][j]) /\ IsToken(ch[y][k]) => x = y /\ j = k
Moves(x, f) == IsToken(f) =>
    /\ frontier # 0 /\ ~complete /\ Idle
    /\ f.type = "ADV" => f.target = frontier /\ f.index = nextPanelIndex /\ OnPath(assigned[x[1]])
    /\ f.type = "DONE" => f.index = frontier /\ \A p \in Panels : assigned[p] = frontier => Finished(p)
AllMove(ch) == \A x \in Port : \A f \in Carried(ch, x) : Moves(x, f)

\* What is done when it is over: every recorded panel is finished, or there is none.
Over == complete =>
    /\ Idle
    /\ IF frontier = 0 THEN peer[Trunk] = NoPort
       ELSE (\A p \in Panels : assigned[p] # 0 => Finished(p))

\* Everything that is waited for is on its way, or a fault has taken it.
Quiet(x) == chan[x] = <<>> /\ chan[peer[x]] = <<>>
Paid ==
    /\ frontier # 0 \/ peer[Trunk] # NoPort => waited <= faults
    /\ frontier = 0 /\ peer[Trunk] # NoPort /\ Quiet(Trunk) => waited + 1 <= faults
    /\ frontier # 0 /\ ~complete /\ Idle /\ TokenFree(chan) => waited + 1 <= faults
ProbePaid(p) == probing[p] # NoEdge /\ peer[<<p, probing[p]>>] # NoPort =>
    /\ attempts[p] <= faults
    /\ Quiet(<<p, probing[p]>>) => attempts[p] + 1 <= faults
Reported ==
    frontier # 0 /\ (\A p \in Panels : probing[p] = NoEdge) /\ (\E q \in Panels : assigned[q] = nextPanelIndex)
        => \E x \in Port : \E f \in Carried(chan, x) : f.type = "REG" /\ f.index = nextPanelIndex

\* The recorded links, from both ends, and no two of them cross.
LinkHolds(l) ==
    \E p, q \in Panels :
        /\ assigned[p] = l.parent /\ assigned[q] = l.child
        /\ l.parentEdge \in Edge /\ l.parentEdge # parent[p] /\ edges[p][l.parentEdge] = "Connected"
        /\ childIndexes[p][l.parentEdge] = l.child
        /\ l.childEdge = parent[q] /\ peer[<<p, l.parentEdge>>] = <<q, l.childEdge>>
LinksOK ==
    /\ \A k \in 1 .. Len(links) : LinkHolds(links[k]) /\ links[k].parent # 0
    /\ \A j, k \in 1 .. Len(links) : j < k =>
        links[k].parent >= links[j].child \/ links[k].parent <= links[j].parent
    /\ \A i \in 0 .. nextPanelIndex, k \in 1 .. Len(links) : OnPath(i) =>
        i >= links[k].child \/ i <= links[k].parent

WalkInv ==
    /\ Numbered /\ (\A p \in Panels : PanelOK(p))
    /\ PathOK /\ LinksOK /\ Over
    /\ AllFit(chan) /\ Sole(chan) /\ AllMove(chan)
    /\ Paid /\ (\A p \in Panels : ProbePaid(p)) /\ Reported

Invariants == TypeOK /\ TreeInv /\ FloodInv /\ WalkInv

\* The port of a panel's edge.
LEMMA PortOf == \A p \in Panels, e \in Edge :
    <<p, e>> \in Port /\ <<p, e>> # Trunk /\ <<p, e>>[1] = p /\ <<p, e>>[2] = e /\ e # NoEdge
  BY PanelsAssumption, NotAnEdge DEF Port, Trunk

\* A port is the controller's or the one of a panel's edge.
LEMMA PortForm ==
    ASSUME NEW x \in Port
    PROVE  \/ x = Trunk
           \/ x # Trunk /\ x[1] \in Panels /\ x[2] \in Edge /\ x = <<x[1], x[2]>>
  BY PanelsAssumption DEF Port, Trunk

\* A wire joins two ports, and is the same from both ends.
LEMMA Wire ==
    ASSUME WiresTypeOK, NEW x \in Port, peer[x] # NoPort
    PROVE  peer[x] \in Port /\ peer[peer[x]] = x /\ peer[x] # x
  BY WiringsAssumption DEF WiresTypeOK

\* A panel with an index has its parent edge wired.
LEMMA Rooted ==
    ASSUME TypeOK, FloodInv, NEW p \in Panels, assigned[p] # 0
    PROVE  /\ parent[p] \in Edge /\ parent[p] # NoEdge
           /\ <<p, parent[p]>> \in Port /\ <<p, parent[p]>> # Trunk
           /\ peer[<<p, parent[p]>>] \in Port /\ peer[<<p, parent[p]>>] # NoPort
           /\ peer[peer[<<p, parent[p]>>]] = <<p, parent[p]>>
<1>1. parent[p] # NoEdge /\ peer[<<p, parent[p]>>] # NoPort
  BY DEF FloodInv, PanelInTree
<1>2. parent[p] \in Edge
  BY <1>1 DEF TypeOK, PanelsTypeOK
<1> QED
  BY <1>1, <1>2, PortOf, Wire DEF TypeOK

\* Only the panel with an index has a parent.
LEMMA Unrooted ==
    ASSUME FloodInv, NEW p \in Panels, assigned[p] = 0
    PROVE  parent[p] = NoEdge /\ probing[p] = NoEdge
  BY DEF FloodInv, PanelInTree

\* At most one offer is out.
LEMMA OneAsker ==
    ASSUME WalkInv, NEW x \in Port, NEW y \in Port, Asks(x), Asks(y)
    PROVE  x = y
<1>1. ASSUME NEW z \in Port, z # Trunk, Asks(z)
      PROVE  z[1] \in Panels /\ z = <<z[1], probing[z[1]]>> /\ assigned[z[1]] = frontier /\ frontier # 0
  <2>1. z[1] \in Panels /\ z[2] \in Edge /\ z = <<z[1], z[2]>> /\ probing[z[1]] = z[2]
    BY <1>1, PortForm DEF Asks
  <2>2. probing[z[1]] # NoEdge /\ Prober(z[1])
    BY <2>1, NotAnEdge DEF WalkInv, PanelOK
  <2> QED
    BY <2>1, <2>2 DEF Prober
<1>2. CASE x = Trunk \/ y = Trunk
  BY <1>1, <1>2 DEF Asks
<1>3. CASE x # Trunk /\ y # Trunk
  BY <1>1, <1>3 DEF WalkInv, Numbered, IndicesDistinct
<1> QED
  BY <1>2, <1>3

-----------------------------------------------------------------------------
(* What a step may do to the panels without disturbing the frames on the    *)
(* wires.                                                                   *)

\* Indices, parents and settled edges are for ever.
Keeps ==
    /\ peer' = peer
    /\ frontier # 0 => frontier' # 0
    /\ \A p \in Panels :
        /\ assigned[p] # 0 => assigned'[p] = assigned[p]
        /\ parent[p] # NoEdge => parent'[p] = parent[p]
        /\ \A e \in Edge : edges[p][e] # "Unexplored" => edges'[p][e] = edges[p][e]

\* An offer stays out, or has been settled at both ends.
Settles ==
    \A x \in Port : Asks(x) =>
        \/ Asks(x)' /\ nextPanelIndex' = nextPanelIndex
        \/ ~Fresh(x)' /\ (peer[x] # NoPort => Answered(peer[x])')

\* An edge that has been settled is not offered again.
LEMMA StaysSettled ==
    ASSUME Keeps, NEW x \in Port, ~Fresh(x)
    PROVE  ~Fresh(x)'
<1>1. CASE x = Trunk
  BY <1>1 DEF Keeps, Fresh
<1>2. CASE x # Trunk
  BY <1>2, PortForm DEF Keeps, Fresh
<1> QED
  BY <1>1, <1>2

\* An offer that has been answered stays answered.
LEMMA StaysAnswered ==
    ASSUME Keeps, NEW x \in Port, Answered(x)
    PROVE  Answered(x)'
<1>1. x # Trunk /\ x[1] \in Panels /\ x[2] \in Edge /\ x[2] # NoEdge
  BY PortForm, NotAnEdge DEF Answered
<1> QED
  BY <1>1 DEF Keeps, Answered

\* What leads down from the tree goes on doing so.
LEMMA StaysBelow ==
    ASSUME FloodInv, Keeps, NEW x \in Port, Below(x)
    PROVE  Below(x)'
<1>1. CASE x = Trunk
  BY <1>1 DEF Below
<1>2. CASE x # Trunk
  <2>1. x[1] \in Panels /\ assigned[x[1]] # 0 /\ x[2] # parent[x[1]]
    BY <1>2, PortForm DEF Below
  <2>2. parent[x[1]] # NoEdge
    BY <2>1 DEF FloodInv, PanelInTree
  <2> QED
    BY <2>1, <2>2 DEF Keeps, Below
<1> QED
  BY <1>1, <1>2

\* A registration that is true stays true.
LEMMA StaysTruthful ==
    ASSUME TypeOK, FloodInv, Keeps, NEW x \in Port, NEW f \in Frame, f.index # 0, Truthful(x, f)
    PROVE  Truthful(x, f)'
<1>1. PICK q \in Panels :
        /\ assigned[q] = f.index /\ parent[q] = f.edge
        /\ peer[<<q, parent[q]>>][2] = f.parentEdge
        /\ peer[<<q, parent[q]>>] = x \/ ~Fresh(peer[<<q, parent[q]>>])
  BY DEF Truthful
<1>2. /\ parent[q] # NoEdge /\ peer[<<q, parent[q]>>] \in Port
  BY <1>1, Rooted
<1>3. PICK y \in Port : y = peer[<<q, parent[q]>>]
  BY <1>2
<1>4. assigned'[q] = assigned[q] /\ parent'[q] = parent[q] /\ y = peer'[<<q, parent'[q]>>]
  BY <1>1, <1>2, <1>3 DEF Keeps
<1>5. ~Fresh(y) => ~Fresh(y)'
  BY StaysSettled
<1>6. ~Fresh(y)' => ~Fresh(peer[<<q, parent[q]>>])'
  BY <1>4 DEF Fresh
<1> QED
  BY <1>1, <1>3, <1>4, <1>5, <1>6 DEF Truthful

\* An answer stays the answer of the panel that gave it.
LEMMA StaysAnswerOf ==
    ASSUME TypeOK, Keeps, NEW x \in Port, NEW f \in Frame, AnswerOf(x, f)
    PROVE  AnswerOf(x, f)'
<1>1. peer[x] # NoPort /\ peer[x] # Trunk /\ peer[x] \in Port
  BY Wire DEF AnswerOf, TypeOK
<1>2. peer[x][1] \in Panels /\ peer[x][2] \in Edge /\ peer[x][2] # NoEdge
  BY <1>1, PortForm, NotAnEdge
<1> QED
  BY <1>1, <1>2 DEF AnswerOf, Keeps

\* A frame that fits its wire still does after a step that keeps what is settled.
LEMMA StaysFit ==
    ASSUME TypeOK, FloodInv, Keeps, Settles, NEW x \in Port, NEW f \in Frame,
           Proper(x, f), Fits(x, f)
    PROVE  Fits(x, f)'
<1>1. peer' = peer
  BY DEF Keeps
<1>2. f.type = "PULL" =>
        /\ x # Trunk /\ f.parentEdge = peer[x][2]
        /\ Answered(x)' \/ (Asks(peer[x])' /\ f.index = nextPanelIndex')
  <2> SUFFICES ASSUME f.type = "PULL"
               PROVE  Answered(x)' \/ (Asks(peer[x])' /\ f.index = nextPanelIndex')
    BY DEF Fits
  <2>1. PICK y \in Port : y = peer[x] /\ peer[y] = x /\ x # NoPort
    BY Wire, PanelsAssumption DEF Proper, TypeOK
  <2>2. CASE Answered(x)
    BY <2>2, StaysAnswered
  <2>3. CASE Asks(peer[x]) /\ f.index = nextPanelIndex
    <3>1. \/ Asks(y)' /\ nextPanelIndex' = nextPanelIndex
          \/ Answered(peer[y])'
      BY <1>1, <2>1, <2>3 DEF Settles
    <3>2. Answered(peer[y])' => Answered(x)'
      BY <1>1, <2>1 DEF Answered
    <3>3. Asks(y)' => Asks(peer[x])'
      BY <1>1, <2>1 DEF Asks
    <3> QED
      BY <2>3, <3>1, <3>2, <3>3
  <2> QED
    BY <2>2, <2>3 DEF Fits
<1>3. f.type # "PULL" => peer[x] # NoPort /\ ~Fresh(peer[x])'
  <2> SUFFICES ASSUME f.type # "PULL" PROVE peer[x] # NoPort /\ ~Fresh(peer[x])'
    OBVIOUS
  <2>1. PICK y \in Port : y = peer[x] /\ peer[x] # NoPort /\ ~Fresh(y)
    BY Wire DEF Fits, TypeOK
  <2>2. ~Fresh(y)'
    BY <2>1, StaysSettled
  <2> QED
    BY <1>1, <2>1, <2>2 DEF Fresh
<1>4. f.type = "REG" =>
        /\ Below(x)' /\ f.target = 0
        /\ f.index # 0 => Truthful(x, f)'
        /\ Fresh(x)' => Asks(x)' /\ AnswerOf(x, f)'
  <2> SUFFICES ASSUME f.type = "REG", Fresh(x)' PROVE Asks(x)' /\ AnswerOf(x, f)'
    BY StaysBelow, StaysTruthful DEF Fits
  <2>1. Fresh(x)
    BY StaysSettled
  <2>2. Asks(x) /\ AnswerOf(x, f)
    BY <2>1 DEF Fits
  <2> QED
    BY <2>2, StaysAnswerOf DEF Settles
<1>5. f.type = "ADV" => x # Trunk /\ x[2] = parent'[x[1]]
  BY PortForm, NotAnEdge DEF Fits, Keeps
<1>6. f.type = "DONE" => Below(x)' /\ f.target = 0 /\ ~Fresh(x)'
  BY StaysBelow, StaysSettled DEF Fits
<1> QED
  BY <1>1, <1>2, <1>3, <1>4, <1>5, <1>6 DEF Fits

\* Every frame on the wires was there and still fits, or is new and fits.
LEMMA AllStayFit ==
    ASSUME TypeOK, FloodInv, AllFit(chan), Keeps, Settles,
           \A x \in Port : \A f \in Carried(chan', x) : f \in Carried(chan, x) \/ Fits(x, f)'
    PROVE  AllFit(chan)'
<1>1. ASSUME NEW x \in Port, NEW f \in Carried(chan, x) PROVE Fits(x, f)'
  <2>1. f \in Frame
    <3>1. chan[x] \in Seq(Frame)
      BY DEF TypeOK, WiresTypeOK
    <3> QED
      BY <3>1 DEF Carried
  <2>2. Proper(x, f) /\ Fits(x, f)
    BY DEF FloodInv, AllProper, AllFit
  <2> QED
    BY <2>1, <2>2, StaysFit
<1> QED
  BY <1>1 DEF AllFit, Carried

-----------------------------------------------------------------------------
(* Sending and taking the one frame that keeps the walk going.              *)

\* A wire that carries a frame is not empty.
LEMMA CarriedSome ==
    ASSUME NEW ch, NEW y, NEW f \in Carried(ch, y)
    PROVE  ch[y] # <<>>
<1> SUFFICES ASSUME ch[y] = <<>> PROVE FALSE
  OBVIOUS
<1>1. Len(ch[y]) = 0
  OBVIOUS
<1> QED
  BY <1>1 DEF Carried

\* The oldest frame is one that is carried.
LEMMA HeadCarried ==
    ASSUME NEW ch \in Channels, NEW x \in Port, ch[x] # <<>>
    PROVE  Head(ch[x]) \in Carried(ch, x) /\ Head(ch[x]) \in Frame
<1>1. ch[x] \in Seq(Frame)
  BY DEF Channels
<1>2. 1 \in 1 .. Len(ch[x]) /\ Head(ch[x]) = ch[x][1] /\ Head(ch[x]) \in Frame
  BY <1>1
<1> QED
  BY <1>2 DEF Carried

\* An entry of a channel one frame shorter or longer is an entry of the channel.
LEMMA TakenEntry ==
    ASSUME NEW ch \in Channels, NEW x \in Port, ch[x] # <<>>, NEW y \in Port,
           NEW k \in 1 .. Len(Taken(ch, x)[y])
    PROVE  IF y = x THEN k + 1 \in 1 .. Len(ch[y]) /\ Taken(ch, x)[y][k] = ch[y][k + 1]
                    ELSE k \in 1 .. Len(ch[y]) /\ Taken(ch, x)[y][k] = ch[y][k]
<1>1. ch[y] \in Seq(Frame) /\ ch[x] \in Seq(Frame)
  BY DEF Channels
<1>2. CASE y = x
  <2>1. Taken(ch, x)[y] = Tail(ch[y])
    BY <1>2 DEF Taken, Channels
  <2> QED
    BY <1>1, <1>2, <2>1
<1>3. CASE y # x
  <2>1. Taken(ch, x)[y] = ch[y]
    BY <1>3 DEF Taken, Channels
  <2> QED
    BY <1>3, <2>1
<1> QED
  BY <1>2, <1>3

\* What a channel holds after a frame is sent: what it held, and the frame at its end.
LEMMA PutEntry ==
    ASSUME NEW ch \in Channels, NEW n, NEW es, NEW f \in Frame, NEW y \in Port,
           NEW k \in 1 .. Len(Put(ch, n, es, f)[y])
    PROVE  \/ k \in 1 .. Len(ch[y]) /\ Put(ch, n, es, f)[y][k] = ch[y][k]
           \/ /\ k = Len(ch[y]) + 1 /\ Put(ch, n, es, f)[y][k] = f
              /\ \E e \in es : peer[<<n, e>>] = y
<1>1. ch[y] \in Seq(Frame)
  BY DEF Channels
<1>2. CASE \E e \in es : peer[<<n, e>>] = y
  <2>1. Put(ch, n, es, f)[y] = Append(ch[y], f)
    BY <1>2 DEF Put
  <2>2. k \in 1 .. Len(ch[y]) + 1 /\ Len(ch[y]) \in Nat
    BY <1>1, <2>1
  <2>3. Append(ch[y], f)[k] = IF k = Len(ch[y]) + 1 THEN f ELSE ch[y][k]
    BY <1>1, <2>2
  <2>4. k = Len(ch[y]) + 1 \/ k \in 1 .. Len(ch[y])
    BY <2>2
  <2> QED
    BY <1>2, <2>1, <2>3, <2>4
<1>3. CASE ~(\E e \in es : peer[<<n, e>>] = y)
  BY <1>3 DEF Put
<1> QED
  BY <1>2, <1>3

\* When the token is taken none is left.
LEMMA TakenSole ==
    ASSUME NEW ch \in Channels, NEW x \in Port, ch[x] # <<>>, Sole(ch)
    PROVE  /\ Sole(Taken(ch, x))
           /\ IsToken(Head(ch[x])) => TokenFree(Taken(ch, x))
<1> DEFINE c == Taken(ch, x)
<1>1. \A y \in Port : Len(ch[y]) \in Nat
  BY DEF Channels
<1>2. c \in Channels
  BY TakenTyped
<1>3. \A y \in Port : Len(c[y]) \in Nat
  BY <1>2 DEF Channels
<1>4. \A y \in Port : \A k \in 1 .. Len(c[y]) :
        IF y = x THEN k + 1 \in 1 .. Len(ch[y]) /\ c[y][k] = ch[y][k + 1]
                 ELSE k \in 1 .. Len(ch[y]) /\ c[y][k] = ch[y][k]
  BY TakenEntry
<1> HIDE DEF c
<1>5. Sole(c)
  <2> SUFFICES ASSUME NEW y \in Port, NEW z \in Port, NEW j \in 1 .. Len(c[y]), NEW k \in 1 .. Len(c[z]),
                      IsToken(c[y][j]), IsToken(c[z][k])
               PROVE  y = z /\ j = k
    BY DEF Sole
  <2>1. PICK i \in 1 .. Len(ch[y]) : c[y][j] = ch[y][i] /\ i = IF y = x THEN j + 1 ELSE j
    BY <1>4
  <2>2. PICK h \in 1 .. Len(ch[z]) : c[z][k] = ch[z][h] /\ h = IF z = x THEN k + 1 ELSE k
    BY <1>4
  <2>3. y = z /\ i = h
    BY <2>1, <2>2 DEF Sole
  <2>4. j \in Nat /\ k \in Nat
    OBVIOUS
  <2> QED
    BY <2>1, <2>2, <2>3, <2>4
<1>6. IsToken(Head(ch[x])) => TokenFree(c)
  <2> SUFFICES ASSUME IsToken(Head(ch[x])), NEW y \in Port, NEW k \in 1 .. Len(c[y]), IsToken(c[y][k])
               PROVE  FALSE
    BY DEF TokenFree, Carried
  <2>1. ch[x] \in Seq(Frame)
    BY DEF Channels
  <2>2. 1 \in 1 .. Len(ch[x]) /\ IsToken(ch[x][1])
    BY <2>1
  <2>3. PICK i \in 1 .. Len(ch[y]) : c[y][k] = ch[y][i] /\ i = IF y = x THEN k + 1 ELSE k
    BY <1>4
  <2>4. y = x /\ i = 1
    BY <2>2, <2>3 DEF Sole
  <2>5. k >= 1 /\ k \in Nat
    OBVIOUS
  <2> QED
    BY <2>3, <2>4, <2>5
<1> QED
  BY <1>5, <1>6 DEF c

\* A token may be sent, on one edge, where there is none.
LEMMA PutSole ==
    ASSUME NEW ch \in Channels, NEW n, NEW es, NEW f \in Frame, Sole(ch),
           \/ ~IsToken(f)
           \/ TokenFree(ch) /\ \A d, e \in es : d = e
    PROVE  Sole(Put(ch, n, es, f))
<1> DEFINE c == Put(ch, n, es, f)
<1>1. \A y \in Port : \A k \in 1 .. Len(c[y]) :
           \/ k \in 1 .. Len(ch[y]) /\ c[y][k] = ch[y][k]
           \/ /\ k = Len(ch[y]) + 1 /\ c[y][k] = f
              /\ \E e \in es : peer[<<n, e>>] = y
  BY PutEntry
<1> HIDE DEF c
<1> SUFFICES ASSUME NEW y \in Port, NEW z \in Port, NEW j \in 1 .. Len(c[y]), NEW k \in 1 .. Len(c[z]),
                    IsToken(c[y][j]), IsToken(c[z][k])
             PROVE  y = z /\ j = k
  BY DEF Sole, c
<1>2. CASE ~IsToken(f)
  <2>1. j \in 1 .. Len(ch[y]) /\ c[y][j] = ch[y][j]
    BY <1>1, <1>2
  <2>2. k \in 1 .. Len(ch[z]) /\ c[z][k] = ch[z][k]
    BY <1>1, <1>2
  <2> QED
    BY <2>1, <2>2 DEF Sole
<1>3. CASE TokenFree(ch) /\ \A d, e \in es : d = e
  <2>0. \A w \in Port : \A i \in 1 .. Len(ch[w]) : ~IsToken(ch[w][i])
    BY <1>3 DEF TokenFree, Carried
  <2>1. j = Len(ch[y]) + 1 /\ \E e \in es : peer[<<n, e>>] = y
    BY <1>1, <2>0
  <2>2. k = Len(ch[z]) + 1 /\ \E e \in es : peer[<<n, e>>] = z
    BY <1>1, <2>0
  <2>3. y = z
    BY <1>3, <2>1, <2>2
  <2> QED
    BY <2>1, <2>2, <2>3
<1> QED
  BY <1>2, <1>3

\* Taking a frame brings no token.
LEMMA TakenFree ==
    ASSUME NEW ch \in Channels, NEW x \in Port, ch[x] # <<>>, TokenFree(ch)
    PROVE  TokenFree(Taken(ch, x))
  BY TakenCarried DEF TokenFree

\* Nor does sending one that is none.
LEMMA PutFree ==
    ASSUME NEW ch \in Channels, NEW n, NEW es, NEW f \in Frame, TokenFree(ch), ~IsToken(f)
    PROVE  TokenFree(Put(ch, n, es, f))
  BY PutCarried DEF TokenFree

\* No token is at most one.
LEMMA FreeSole ==
    ASSUME NEW ch \in Channels, TokenFree(ch)
    PROVE  Sole(ch)
  BY DEF TokenFree, Sole, Carried

\* What was on a wire still is once a frame has been sent, and the frame is on the wire it was
\* sent on.
LEMMA PutKeeps ==
    ASSUME NEW ch \in Channels, NEW n, NEW es, NEW f \in Frame, NEW y \in Port
    PROVE  /\ \A g \in Carried(ch, y) : g \in Carried(Put(ch, n, es, f), y)
           /\ (\E e \in es : peer[<<n, e>>] = y) => f \in Carried(Put(ch, n, es, f), y)
           /\ Put(ch, n, es, f)[y] = <<>> => ch[y] = <<>> /\ ~(\E e \in es : peer[<<n, e>>] = y)
<1>1. ch[y] \in Seq(Frame)
  BY DEF Channels
<1>2. CASE \E e \in es : peer[<<n, e>>] = y
  <2>1. Put(ch, n, es, f)[y] = Append(ch[y], f)
    BY <1>2 DEF Put
  <2>2. /\ Len(Append(ch[y], f)) = Len(ch[y]) + 1 /\ Append(ch[y], f)[Len(ch[y]) + 1] = f
        /\ \A k \in 1 .. Len(ch[y]) : Append(ch[y], f)[k] = ch[y][k]
        /\ Append(ch[y], f) # <<>> /\ Len(ch[y]) \in Nat
    BY <1>1
  <2>3. \A g \in Carried(ch, y) : g \in Carried(Put(ch, n, es, f), y)
    BY <2>1, <2>2 DEF Carried
  <2>4. f \in Carried(Put(ch, n, es, f), y)
    BY <2>1, <2>2 DEF Carried
  <2> QED
    BY <1>2, <2>1, <2>2, <2>3, <2>4
<1>3. CASE ~(\E e \in es : peer[<<n, e>>] = y)
  BY <1>3 DEF Put, Carried
<1> QED
  BY <1>2, <1>3

\* The same for a frame sent on one edge.
LEMMA Sent ==
    ASSUME NEW ch \in Channels, NEW n, NEW e, NEW f \in Frame, NEW y \in Port
    PROVE  /\ \A g \in Carried(Put(ch, n, {e}, f), y) : g \in Carried(ch, y) \/ (g = f /\ peer[<<n, e>>] = y)
           /\ \A g \in Carried(ch, y) : g \in Carried(Put(ch, n, {e}, f), y)
           /\ peer[<<n, e>>] = y => f \in Carried(Put(ch, n, {e}, f), y)
           /\ Put(ch, n, {e}, f)[y] = <<>> => ch[y] = <<>> /\ peer[<<n, e>>] # y
           /\ Put(ch, n, {e}, f) \in Channels
<1> DEFINE es == {e}
<1>1. (\E d \in es : peer[<<n, d>>] = y) <=> peer[<<n, e>>] = y
  OBVIOUS
<1> HIDE DEF es
<1>2. /\ \A g \in Carried(Put(ch, n, es, f), y) : g \in Carried(ch, y) \/ (g = f /\ peer[<<n, e>>] = y)
      /\ \A g \in Carried(ch, y) : g \in Carried(Put(ch, n, es, f), y)
      /\ peer[<<n, e>>] = y => f \in Carried(Put(ch, n, es, f), y)
      /\ Put(ch, n, es, f)[y] = <<>> => ch[y] = <<>> /\ peer[<<n, e>>] # y
      /\ Put(ch, n, es, f) \in Channels
  BY <1>1, PutCarried, PutKeeps, PutTyped
<1> QED
  BY <1>2 DEF es

\* A frame sent on one edge leaves at most one token.
LEMMA SentSole ==
    ASSUME NEW ch \in Channels, NEW n, NEW e, NEW f \in Frame, Sole(ch),
           ~IsToken(f) \/ TokenFree(ch)
    PROVE  Sole(Put(ch, n, {e}, f))
<1>1. \A c, d \in {e} : c = d
  OBVIOUS
<1> QED
  BY <1>1, PutSole

\* Only the frame taken is missing.
LEMMA TakenKeeps ==
    ASSUME NEW ch \in Channels, NEW x \in Port, ch[x] # <<>>, NEW y \in Port
    PROVE  /\ \A g \in Carried(ch, y) : g \in Carried(Taken(ch, x), y) \/ (y = x /\ g = Head(ch[x]))
           /\ Taken(ch, x)[y] = <<>> => ch[y] = <<>> \/ y = x
<1>1. ch[y] \in Seq(Frame) /\ ch[x] \in Seq(Frame)
  BY DEF Channels
<1>2. CASE y = x
  <2>1. Taken(ch, x)[y] = Tail(ch[y])
    BY <1>2 DEF Taken, Channels
  <2>2. ASSUME NEW k \in 1 .. Len(ch[y]), k # 1
        PROVE  k - 1 \in 1 .. Len(Tail(ch[y])) /\ Tail(ch[y])[k - 1] = ch[y][k]
    BY <1>1, <1>2, <2>2
  <2>3. ch[y][1] = Head(ch[x])
    BY <1>1, <1>2
  <2> QED
    BY <1>2, <2>1, <2>2, <2>3 DEF Carried
<1>3. CASE y # x
  BY <1>3 DEF Taken, Channels, Carried
<1> QED
  BY <1>2, <1>3

-----------------------------------------------------------------------------
(* Steps that only move frames.                                             *)

Static == Numbered /\ (\A p \in Panels : PanelOK(p)) /\ PathOK /\ LinksOK /\ Over
staticVars == <<peer, nextPanelIndex, frontier, complete, stack, links, parent, edges,
                childIndexes, assigned, pendingAssign, probing>>

\* What is true of the tables stays so while they do not change.
LEMMA QuietStatic == Static /\ UNCHANGED staticVars => Static'
<1> SUFFICES ASSUME Static, UNCHANGED staticVars PROVE Static'
  OBVIOUS
<1>1. Numbered'
  BY DEF Static, staticVars, Numbered, IndicesDistinct
<1>2. ASSUME NEW p \in Panels PROVE PanelOK(p)'
  <2>1. PanelOK(p)
    BY DEF Static
  <2>2. Blank(p)' /\ Kids(p)' /\ Prober(p)'
    BY <2>1 DEF staticVars, PanelOK, Blank, Recorded, Kids, Prober, Lowest
  <2>3. Above(p)' /\ Refused(p)'
    BY <2>1 DEF staticVars, PanelOK, Above, Refused, Recorded
  <2>4. Half(p)'
    BY <2>1 DEF staticVars, PanelOK, Half, Fresh
  <2>5. Waiting(p)'
    BY <2>1 DEF staticVars, PanelOK, Waiting, Lowest
  <2> QED
    BY <2>2, <2>3, <2>4, <2>5 DEF PanelOK
<1>3. PathOK'
  <2>1. Descends'
    BY DEF Static, staticVars, PathOK, Descends
  <2>2. ASSUME NEW p \in Panels PROVE LastChild(p)' /\ OffPath(p)'
    <3>1. LastChild(p) /\ OffPath(p)
      BY DEF Static, PathOK
    <3>2. LastChild(p)'
      BY <3>1 DEF staticVars, LastChild, After
    <3>3. OffPath(p)'
      BY <3>1 DEF staticVars, OffPath, OnPath, Finished, OpenEdges, Recorded
    <3> QED
      BY <3>2, <3>3
  <2> QED
    BY <2>1, <2>2 DEF PathOK
<1>4. LinksOK'
  <2>1. \A l : LinkHolds(l) => LinkHolds(l)'
    BY DEF staticVars, LinkHolds
  <2>2. \A i : OnPath(i)' = OnPath(i)
    BY DEF staticVars, OnPath
  <2> QED
    BY <2>1, <2>2 DEF Static, staticVars, LinksOK
<1>5. Over'
  BY DEF Static, staticVars, Over, Idle, Finished, OpenEdges
<1> QED
  BY <1>1, <1>2, <1>3, <1>4, <1>5 DEF Static

\* Tables that have not changed have kept what they held.
LEMMA QuietKeeps == UNCHANGED staticVars => Keeps /\ Settles
<1> SUFFICES ASSUME UNCHANGED staticVars PROVE Keeps /\ Settles
  OBVIOUS
<1>1. Keeps
  BY DEF staticVars, Keeps
<1>2. Settles
  BY DEF staticVars, Settles, Asks
<1> QED
  BY <1>1, <1>2

\* A token remains due while the tables do not change.
LEMMA QuietMoves ==
    ASSUME UNCHANGED staticVars, NEW x, NEW f, Moves(x, f)
    PROVE  Moves(x, f)'
  BY DEF staticVars, Moves, Idle, OnPath, Finished, OpenEdges

\* A frame remains in place while the tables do not change.
LEMMA QuietFits ==
    ASSUME UNCHANGED staticVars, NEW x, NEW f, Fits(x, f)
    PROVE  Fits(x, f)'
  BY DEF staticVars, Fits, Answered, Asks, Fresh, Below, Truthful, AnswerOf

\* Whatever is carried is a frame.
LEMMA CarriedFrame ==
    ASSUME TypeOK, NEW x \in Port, NEW f \in Carried(chan, x)
    PROVE  f \in Frame
<1>1. chan[x] \in Seq(Frame)
  BY DEF TypeOK, WiresTypeOK
<1> QED
  BY <1>1 DEF Carried

\* A step that moves frames: each is where it was, or fits where it is now and may move the
\* walk on from there.
LEMMA QuietFrames ==
    ASSUME Invariants, UNCHANGED staticVars,
           \A x \in Port : \A f \in Carried(chan', x) :
               f \in Carried(chan, x) \/ (Fits(x, f) /\ Moves(x, f))
    PROVE  Static' /\ AllFit(chan)' /\ AllMove(chan)'
<1>1. Static'
  BY QuietStatic DEF Invariants, WalkInv, Static
<1>2. AllFit(chan)'
  BY QuietKeeps, QuietFits, AllStayFit DEF Invariants, WalkInv
<1>3. AllMove(chan)'
  <2>1. ASSUME NEW x \in Port, NEW f \in Carried(chan', x) PROVE Moves(x, f)'
    <3>1. Moves(x, f)
      BY DEF Invariants, WalkInv, AllMove
    <3> QED
      BY <3>1, QuietMoves
  <2> QED
    BY <2>1 DEF AllMove, Carried
<1> QED
  BY <1>1, <1>2, <1>3

\* What is known of the frame a node takes off a wire.
LEMMA TheHead ==
    ASSUME Invariants, NEW x \in Port, chan[x] # <<>>, NEW f, f = Head(chan[x])
    PROVE  /\ f \in Frame /\ f \in Carried(chan, x) /\ Proper(x, f) /\ Fits(x, f) /\ Moves(x, f)
           /\ chan \in Channels /\ Taken(chan, x) \in Channels
           /\ Sole(Taken(chan, x)) /\ (IsToken(f) => TokenFree(Taken(chan, x)))
           /\ \A y \in Port : \A g \in Carried(Taken(chan, x), y) : g \in Carried(chan, y)
<1>1. chan \in Channels /\ Sole(chan)
  BY DEF Invariants, TypeOK, WiresTypeOK, Channels, WalkInv
<1>2. f \in Frame /\ f \in Carried(chan, x)
  BY <1>1, HeadCarried
<1>3. Proper(x, f) /\ Fits(x, f) /\ Moves(x, f)
  BY <1>2 DEF Invariants, FloodInv, AllProper, WalkInv, AllFit, AllMove
<1>4. Taken(chan, x) \in Channels
  BY <1>1, TakenTyped
<1>5. Sole(Taken(chan, x)) /\ (IsToken(f) => TokenFree(Taken(chan, x)))
  BY <1>1, TakenSole
<1>6. \A y \in Port : \A g \in Carried(Taken(chan, x), y) : g \in Carried(chan, y)
  BY <1>1, TakenCarried
<1> QED
  BY <1>1, <1>2, <1>3, <1>4, <1>5, <1>6

-----------------------------------------------------------------------------
(* Where frames go.                                                         *)

\* Two panels with the same index are one.
LEMMA SamePanel ==
    ASSUME WalkInv, NEW p \in Panels, NEW q \in Panels, assigned[p] = assigned[q], assigned[p] # 0
    PROVE  p = q
  BY DEF WalkInv, Numbered, IndicesDistinct

\* A panel that has settled or probes an edge has been recorded.
LEMMA NotBlank ==
    ASSUME WalkInv, NEW p \in Panels, assigned[p] # 0, NEW e \in Edge, e # parent[p],
           edges[p][e] # "Unexplored" \/ probing[p] # NoEdge
    PROVE  Recorded(p)
  BY DEF WalkInv, PanelOK, Blank

\* The parent's port above a panel.
LEMMA UpPort ==
    ASSUME Invariants, NEW p \in Panels, assigned[p] # 0, NEW u, u = peer[<<p, parent[p]>>]
    PROVE  /\ u \in Port /\ u # NoPort /\ Below(u) /\ peer[u] = <<p, parent[p]>>
           /\ ~Fresh(peer[u]) /\ peer[u] # NoPort
           /\ Fresh(u) => Asks(u) /\ assigned[p] = nextPanelIndex
<1>1. /\ parent[p] \in Edge /\ parent[p] # NoEdge /\ u \in Port /\ u # NoPort
      /\ peer[u] = <<p, parent[p]>> /\ <<p, parent[p]>> # Trunk /\ <<p, parent[p]>> # NoPort
  BY Rooted, PanelsAssumption DEF Invariants
<1>2. PanelOK(p)
  BY DEF Invariants, WalkInv
<1>3. ~Fresh(peer[u])
  BY <1>1, <1>2 DEF PanelOK, Kids, Fresh
<1>4. CASE assigned[p] = 1
  <2>1. u = Trunk
    BY <1>2, <1>4 DEF PanelOK, Above
  <2> QED
    BY <1>1, <1>3, <1>4, <2>1 DEF Below, Fresh, Asks, Invariants, WalkInv, Numbered
<1>5. CASE assigned[p] # 1
  <2>1. PICK a \in Panels, e \in Edge :
            /\ u = <<a, e>> /\ assigned[a] # 0 /\ e # parent[a]
            /\ edges[a][e] = "Connected" \/ (probing[a] = e /\ assigned[p] = nextPanelIndex)
    BY <1>2, <1>5 DEF PanelOK, Above
  <2>2. u # Trunk /\ u[1] = a /\ u[2] = e
    BY <2>1, PortOf
  <2> QED
    BY <1>1, <1>3, <2>1, <2>2 DEF Below, Fresh, Asks
<1> QED
  BY <1>4, <1>5

\* The port below a kid edge.
LEMMA DownPort ==
    ASSUME Invariants, NEW p \in Panels, assigned[p] # 0,
           NEW e \in Edge, e # parent[p], edges[p][e] = "Connected"
    PROVE  \E q \in Panels :
              /\ peer[<<p, e>>] = <<q, parent[q]>> /\ childIndexes[p][e] = assigned[q]
              /\ assigned[q] > assigned[p] /\ assigned[q] # 0
              /\ <<q, parent[q]>> \in Port /\ peer[<<q, parent[q]>>] = <<p, e>>
              /\ <<q, parent[q]>> # Trunk /\ parent[q] \in Edge
<1>1. PanelOK(p) /\ assigned \in [Panels -> Nat] /\ <<p, e>> \in Port /\ WiresTypeOK /\ TypeOK
  BY PortOf DEF Invariants, WalkInv, TypeOK, PanelsTypeOK
<1>2. PICK q \in Panels : /\ peer[<<p, e>>] = <<q, parent[q]>>
                          /\ childIndexes[p][e] = assigned[q] /\ assigned[q] > assigned[p]
  BY <1>1 DEF PanelOK, Kids
<1>3. assigned[q] # 0
  BY <1>1, <1>2
<1>4. <<q, parent[q]>> \in Port /\ parent[q] \in Edge /\ <<q, parent[q]>> # Trunk
  BY <1>3, Rooted DEF Invariants
<1>5. peer[<<q, parent[q]>>] = <<p, e>>
  BY <1>1, <1>2, <1>4, WiredBack
<1> QED
  BY <1>2, <1>3, <1>4, <1>5

\* An answer or a DONE is relayed to the parent.
LEMMA RelayUp ==
    ASSUME Invariants, NEW p \in Panels, NEW e \in Edge, chan[<<p, e>>] # <<>>,
           NEW f, f = Head(chan[<<p, e>>]), f.type = "REG" \/ f.type = "DONE"
    PROVE  /\ assigned[p] # 0 /\ e # parent[p] /\ f.type # "PULL" /\ Relays(p, f)
           /\ Dispatched(p, e, f) = Put(Taken(chan, <<p, e>>), p, {parent[p]}, f)
<1>1. <<p, e>> \in Port /\ <<p, e>> # Trunk
  BY PortOf
<1>2. Below(<<p, e>>) /\ f.target = 0
  BY <1>1, TheHead DEF Fits
<1>3. assigned[p] # 0 /\ e # parent[p]
  BY <1>1, <1>2 DEF Below
<1>4. parent[p] # NoEdge /\ parent[p] \in Edge
  BY <1>3, Rooted DEF Invariants
<1>5. edges[p][parent[p]] = "Connected"
  BY <1>4 DEF Invariants, WalkInv, PanelOK, Kids
<1>6. RouteEdges(p, e, f) = {parent[p]}
  BY <1>3, <1>4, <1>5 DEF RouteEdges, ConnectedEdges
<1>7. Relays(p, f)
  BY <1>2 DEF Relays
<1> QED
  BY <1>2, <1>3, <1>6, <1>7 DEF Dispatched

\* A registration or DONE that a panel passes on fits the wire to its parent.
LEMMA RelayUpFits ==
    ASSUME Invariants, NEW p \in Panels, NEW e \in Edge, chan[<<p, e>>] # <<>>,
           NEW f, f = Head(chan[<<p, e>>]), f.type = "REG" \/ f.type = "DONE",
           edges[p][e] # "Unexplored",
           NEW u, u = peer[<<p, parent[p]>>]
    PROVE  Recorded(p) /\ u \in Port /\ ~Fresh(u) /\ Fits(u, f) /\ Moves(u, f)
<1>1. <<p, e>> \in Port /\ <<p, e>> # Trunk /\ <<p, e>>[1] = p /\ <<p, e>>[2] = e
  BY PortOf
<1>2. f \in Frame /\ Fits(<<p, e>>, f) /\ Moves(<<p, e>>, f)
  BY <1>1, TheHead
<1>3. assigned[p] # 0 /\ e # parent[p]
  BY RelayUp
<1>4. Recorded(p)
  BY <1>3, NotBlank DEF Invariants
<1>5. /\ u \in Port /\ Below(u) /\ peer[u] # NoPort /\ ~Fresh(peer[u])
      /\ Fresh(u) => assigned[p] = nextPanelIndex
  BY <1>3, UpPort
<1>6. ~Fresh(u)
  BY <1>4, <1>5 DEF Recorded
<1>7. ASSUME f.type = "REG", f.index # 0 PROVE Truthful(u, f)
  <2>1. Truthful(<<p, e>>, f)
    BY <1>2, <1>7 DEF Fits
  <2>2. ~Fresh(<<p, e>>)
    BY <1>1 DEF Fresh
  <2> QED
    BY <2>1, <2>2 DEF Truthful
<1>8. Fits(u, f)
  BY <1>2, <1>5, <1>6, <1>7 DEF Fits
<1>9. Moves(u, f)
  BY <1>2 DEF Moves, IsToken
<1> QED
  BY <1>4, <1>5, <1>6, <1>8, <1>9

\* The panels on the path route what is addressed to the frontier to the next one on it.
LEMMA RouteOnPath ==
    ASSUME Invariants, NEW p \in Panels, assigned[p] # 0, assigned[p] # frontier, OnPath(assigned[p]),
           NEW f, f.target = frontier, frontier # 0
    PROVE  \E d \in Edge, q \in Panels :
              /\ RouteDownstream(p, parent[p], f) = {d}
              /\ d # parent[p] /\ edges[p][d] = "Connected" /\ peer[<<p, d>>] = <<q, parent[q]>>
              /\ <<q, parent[q]>> \in Port /\ <<q, parent[q]>> # Trunk /\ peer[<<q, parent[q]>>] = <<p, d>>
              /\ assigned[q] # 0 /\ OnPath(assigned[q])
<1>1. PICK k \in 1 .. Len(stack) : stack[k] = assigned[p]
  BY DEF OnPath
<1>2. LastChild(p) /\ Descends /\ WalkInv
  BY DEF Invariants, WalkInv, PathOK
<1>3. /\ stack \in Seq(0 .. MaxPanels) /\ frontier \in Nat /\ Len(stack) \in Nat
      /\ childIndexes[p] \in [Edge -> Nat] /\ Edge \subseteq Nat
  BY LimitsAssumption, NotAnEdge DEF Invariants, TypeOK, ControllerTypeOK, PanelsTypeOK, Edge
<1>4. PICK d \in Edge : d # parent[p] /\ edges[p][d] = "Connected" /\ childIndexes[p][d] = After(k)
  BY <1>1, <1>2 DEF LastChild
<1>5. \A c \in Edge : c # parent[p] /\ edges[p][c] = "Connected" => childIndexes[p][c] <= After(k)
  BY <1>1, <1>2 DEF LastChild
<1>6. OnPath(After(k)) /\ After(k) <= frontier
  <2>1. CASE k = Len(stack)
    BY <1>3, <2>1 DEF After, OnPath
  <2>2. CASE k # Len(stack)
    <3>0. k + 1 \in 1 .. Len(stack)
      BY <1>3, <2>2
    <3>4. \A i \in 1 .. Len(stack) : stack[i] \in 0 .. MaxPanels
      BY <1>3, ElementOfSeq
    <3>5. After(k) = stack[k + 1]
      BY <2>2 DEF After
    <3>1. k + 1 \in 1 .. Len(stack) /\ After(k) = stack[k + 1] /\ stack[k + 1] \in 0 .. MaxPanels
      BY <3>0, <3>4, <3>5
    <3>2. stack[k + 1] \in Nat /\ stack[k + 1] < frontier
      BY <1>2, <3>1, LimitsAssumption DEF Descends
    <3> QED
      BY <1>3, <3>1, <3>2 DEF OnPath
  <2> QED
    BY <2>1, <2>2
<1> DEFINE kids == ConnectedEdges(p) \ {parent[p]}
<1>7. \A c \in kids : c \in Edge /\ c # parent[p] /\ edges[p][c] = "Connected"
  BY DEF ConnectedEdges
<1>8. ASSUME NEW c \in kids
      PROVE  /\ childIndexes[p][c] # 0 /\ childIndexes[p][c] \in Nat
             /\ childIndexes[p][c] <= childIndexes[p][d]
             /\ childIndexes[p][c] = childIndexes[p][d] => c = d
  <2>1. c \in Edge /\ c # parent[p] /\ edges[p][c] = "Connected"
    BY <1>7
  <2>2. PICK r \in Panels : /\ peer[<<p, c>>] = <<r, parent[r]>> /\ childIndexes[p][c] = assigned[r]
                            /\ assigned[r] # 0 /\ peer[<<r, parent[r]>>] = <<p, c>>
    BY <2>1, DownPort
  <2>3. PICK q \in Panels : /\ peer[<<p, d>>] = <<q, parent[q]>> /\ childIndexes[p][d] = assigned[q]
                            /\ assigned[q] # 0 /\ peer[<<q, parent[q]>>] = <<p, d>>
    BY <1>4, DownPort
  <2>4. childIndexes[p][c] = childIndexes[p][d] => c = d
    <3> SUFFICES ASSUME childIndexes[p][c] = childIndexes[p][d] PROVE c = d
      OBVIOUS
    <3>1. q = r
      BY <1>2, <2>2, <2>3, SamePanel
    <3> QED
      BY <2>2, <2>3, <3>1
  <2> QED
    BY <1>3, <1>4, <1>5, <2>1, <2>2, <2>4
<1>9. d \in kids
  BY <1>4 DEF ConnectedEdges
<1>10. childIndexes[p][d] <= frontier
  BY <1>4, <1>6
<1> HIDE DEF kids
<1>11. BranchEdge(p, frontier, kids) = {d}
  <2>1. d \in BranchEdge(p, frontier, kids)
    <3>1. \A c \in kids \ {d} : childIndexes[p][c] < childIndexes[p][d]
      BY <1>8, <1>9
    <3> QED
      BY <1>9, <1>10, <3>1 DEF BranchEdge
  <2>2. ASSUME NEW c \in BranchEdge(p, frontier, kids), c # d PROVE FALSE
    <3>1. c \in kids /\ d \in {x \in kids : childIndexes[p][x] <= frontier} \ {c}
      BY <1>9, <1>10, <2>2 DEF BranchEdge
    <3>2. \/ childIndexes[p][d] < childIndexes[p][c]
          \/ childIndexes[p][d] = childIndexes[p][c]
      BY <2>2, <3>1 DEF BranchEdge
    <3>3. childIndexes[p][c] <= childIndexes[p][d] /\ childIndexes[p][c] # childIndexes[p][d]
          /\ childIndexes[p][c] \in Nat /\ childIndexes[p][d] \in Nat
      BY <1>8, <1>9, <2>2, <3>1
    <3> QED
      BY <3>2, <3>3
  <2> QED
    BY <2>1, <2>2
<1>12. RouteDownstream(p, parent[p], f) = {d}
  BY <1>8, <1>11 DEF RouteDownstream, kids
<1>13. PICK q \in Panels : /\ peer[<<p, d>>] = <<q, parent[q]>> /\ childIndexes[p][d] = assigned[q]
                          /\ assigned[q] # 0 /\ <<q, parent[q]>> \in Port /\ <<q, parent[q]>> # Trunk
                          /\ peer[<<q, parent[q]>>] = <<p, d>>
  BY <1>4, DownPort
<1>14. OnPath(assigned[q])
  BY <1>4, <1>6, <1>13
<1> QED
  BY <1>4, <1>12, <1>13, <1>14

\* An ADV for the frontier passes down the path.
LEMMA RelayDown ==
    ASSUME Invariants, NEW p \in Panels, NEW e \in Edge, chan[<<p, e>>] # <<>>,
           NEW f, f = Head(chan[<<p, e>>]), f.type = "ADV", ~ActsOnAdvance(p, f)
    PROVE  \E d \in Edge : \E u \in Port :
              /\ peer[<<p, d>>] = u /\ Fits(u, f) /\ Moves(u, f)
              /\ Dispatched(p, e, f) = Put(Taken(chan, <<p, e>>), p, {d}, f)
<1>1. <<p, e>> \in Port /\ <<p, e>> # Trunk /\ <<p, e>>[1] = p /\ <<p, e>>[2] = e /\ e # NoEdge
  BY PortOf
<1>2. Fits(<<p, e>>, f) /\ Moves(<<p, e>>, f)
  BY <1>1, TheHead
<1>3. /\ e = parent[p] /\ frontier # 0 /\ f.target = frontier /\ OnPath(assigned[p])
      /\ Idle /\ ~complete /\ f.index = nextPanelIndex
  BY <1>1, <1>2 DEF Fits, Moves, IsToken
<1>4. assigned[p] # 0 /\ assigned[p] # frontier /\ parent[p] # NoEdge
  <2>1. assigned[p] # 0
    BY <1>1, <1>3, Unrooted DEF Invariants
  <2>2. assigned[p] # frontier
    BY <1>3 DEF ActsOnAdvance, Idle
  <2> QED
    BY <1>1, <1>3, <2>1, <2>2
<1>5. PICK d \in Edge, q \in Panels :
              /\ RouteDownstream(p, parent[p], f) = {d}
              /\ d # parent[p] /\ edges[p][d] = "Connected" /\ peer[<<p, d>>] = <<q, parent[q]>>
              /\ <<q, parent[q]>> \in Port /\ <<q, parent[q]>> # Trunk /\ peer[<<q, parent[q]>>] = <<p, d>>
              /\ assigned[q] # 0 /\ OnPath(assigned[q])
  BY <1>3, <1>4, RouteOnPath
<1>6. Relays(p, f)
  BY <1>3, <1>4 DEF Relays
<1>7. Dispatched(p, e, f) = Put(Taken(chan, <<p, e>>), p, {d}, f)
  BY <1>3, <1>4, <1>5, <1>6 DEF Dispatched, RouteEdges
<1>8. ~Fresh(<<p, d>>) /\ <<p, d>> # NoPort
  BY <1>5, PortOf, PanelsAssumption DEF Fresh
<1>9. PICK u \in Port : u = <<q, parent[q]>>
  BY <1>5
<1>10. u # Trunk /\ u[1] = q /\ u[2] = parent[q] /\ peer[u] = <<p, d>> /\ peer[<<p, d>>] = u
  BY <1>5, <1>9
<1>11. Fits(u, f)
  BY <1>8, <1>10 DEF Fits
<1>12. Moves(u, f)
  BY <1>2, <1>5, <1>10 DEF Moves
<1> QED
  BY <1>7, <1>10, <1>11, <1>12

-----------------------------------------------------------------------------
(* Nothing that is waited for gets lost, but for a fault.                   *)

\* The arrays hold every panel.
LEMMA Capacity ==
    ASSUME Recoverable, Invariants, NEW q \in Panels, assigned[q] = nextPanelIndex
    PROVE  nextPanelIndex <= MaxPanels /\ Len(stack) < MaxPanels
<1>1. nextPanelIndex \in Nat /\ nextPanelIndex >= 1 /\ MaxPanels \in Nat
  BY LimitsAssumption DEF Invariants, TypeOK, ControllerTypeOK
<1> DEFINE I == 1 .. nextPanelIndex
           h == [i \in I |-> CHOOSE p \in Panels : assigned[p] = i]
<1>2. \A i \in I : \E p \in Panels : assigned[p] = i
  BY <1>1 DEF Invariants, WalkInv, Numbered
<1>3. \A i \in I : h[i] \in Panels /\ assigned[h[i]] = i
  BY <1>2
<1>4. h \in Injection(I, Panels)
  BY <1>3 DEF Injection, IsInjective
<1>5. IsFiniteSet(Panels) /\ Cardinality(Panels) <= MaxPanels
  BY DEF Recoverable
<1>6. Cardinality(I) <= Cardinality(Panels)
  <2> HIDE DEF I, h
  <2> QED
    BY <1>4, <1>5, FS_Injection
<1>7. Cardinality(I) = nextPanelIndex
  <2>1. 1 \in Int /\ nextPanelIndex \in Int
    BY <1>1
  <2>2. Cardinality(1 .. nextPanelIndex) = IF 1 > nextPanelIndex THEN 0 ELSE nextPanelIndex - 1 + 1
    BY <2>1, FS_Interval
  <2> QED
    BY <1>1, <2>2
<1>8. Cardinality(Panels) \in Nat
  BY <1>5, FS_CardinalityType
<1>9. nextPanelIndex <= MaxPanels
  <2> HIDE DEF I
  <2> QED
    BY <1>1, <1>5, <1>6, <1>7, <1>8
<1>10. Len(stack) <= Len(indices) /\ Len(indices) = nextPanelIndex - 1
  BY DEF Invariants, TreeInv, RecordedTreeIsPreorder
<1>11. Len(stack) \in Nat
  BY DEF Invariants, TypeOK, ControllerTypeOK
<1> QED
  BY <1>1, <1>9, <1>10, <1>11

\* A step that takes the last frame on its way between port x and the one wired to it
\* leaves another.
Heard(x) == chan'[x] = <<>> /\ chan'[peer[x]] = <<>> => Quiet(x)

\* A frame passed on is no fault: the budgets of the retries are as they were.
LEMMA QuietPaid ==
    ASSUME Invariants, UNCHANGED staticVars, UNCHANGED <<waited, faults, attempts>>,
           \A x \in Port : Asks(x) /\ peer[x] # NoPort => Heard(x),
           TokenFree(chan') => TokenFree(chan),
           frontier # 0 => \A x \in Port : \A g \in Carried(chan, x) :
               g.type = "REG" /\ g.index = nextPanelIndex =>
                   \E y \in Port : \E k \in Carried(chan', y) : k.type = "REG" /\ k.index = nextPanelIndex
    PROVE  (Paid /\ (\A p \in Panels : ProbePaid(p)) /\ Reported)'
<1>1. Paid /\ (\A p \in Panels : ProbePaid(p)) /\ Reported
  BY DEF Invariants, WalkInv
<1>2. Paid'
  <2>1. frontier = 0 /\ peer[Trunk] # NoPort /\ Quiet(Trunk)' => Quiet(Trunk)
    BY DEF Asks, Port, Heard, Quiet, staticVars
  <2>2. Idle' => Idle
    BY DEF Idle, staticVars
  <2> QED
    BY <1>1, <2>1, <2>2 DEF Paid, staticVars
<1>3. ASSUME NEW p \in Panels PROVE ProbePaid(p)'
  <2>1. probing[p] # NoEdge => probing[p] \in Edge
    BY DEF Invariants, TypeOK, PanelsTypeOK
  <2>2. ASSUME probing[p] # NoEdge, peer[<<p, probing[p]>>] # NoPort, Quiet(<<p, probing[p]>>)'
        PROVE  Quiet(<<p, probing[p]>>)
    <3>1. PICK x \in Port : x = <<p, probing[p]>> /\ x # Trunk /\ x[1] = p /\ x[2] = probing[p]
      BY <2>1, <2>2, PortOf
    <3>2. Asks(x)
      BY <3>1 DEF Asks
    <3>3. Heard(x)
      BY <2>2, <3>1, <3>2
    <3>4. chan'[x] = <<>> /\ chan'[peer[x]] = <<>>
      BY <2>2, <3>1 DEF Quiet, staticVars
    <3> QED
      BY <3>1, <3>3, <3>4 DEF Heard
  <2>3. ProbePaid(p)
    BY <1>1
  <2> QED
    BY <2>2, <2>3 DEF ProbePaid, staticVars
<1>4. Reported'
  BY <1>1 DEF Reported, Carried, staticVars
<1> QED
  BY <1>2, <1>3, <1>4

\* What the controller can make nothing of is a registration it has or one that was refused.
LEMMA IgnoreWalk ==
    ASSUME Recoverable, Invariants, chan[Trunk] # <<>>, NEW f, f = Head(chan[Trunk]),
           ControllerIgnore(f), UNCHANGED <<peer, faults, panelVars>>
    PROVE  WalkInv'
<1>1. /\ chan' = Taken(chan, Trunk) /\ ~Registers(f) /\ ~Resolves(f)
      /\ UNCHANGED staticVars /\ UNCHANGED <<waited, faults, attempts>>
  BY DEF ControllerIgnore, staticVars, panelVars
<1>2. Trunk \in Port
  BY DEF Port
<1>3. /\ f \in Frame /\ f \in Carried(chan, Trunk) /\ Fits(Trunk, f) /\ Moves(Trunk, f)
      /\ chan \in Channels /\ Sole(Taken(chan, Trunk))
      /\ \A y \in Port : \A g \in Carried(Taken(chan, Trunk), y) : g \in Carried(chan, y)
  BY <1>2, TheHead
<1>4. f.type = "REG" /\ ~IsToken(f)
  <2>1. f.type \in {"PULL", "REG", "ADV", "DONE"}
    BY <1>3 DEF Frame
  <2>2. f.type = "DONE" => f.index = frontier
    BY <1>3 DEF Moves, IsToken
  <2> QED
    BY <1>1, <1>3, <2>1, <2>2 DEF Fits, Resolves, IsToken
<1>5. f.index # nextPanelIndex
  <2> SUFFICES ASSUME f.index = nextPanelIndex PROVE FALSE
    OBVIOUS
  <2>1. nextPanelIndex >= 1 /\ nextPanelIndex \in Nat
    BY LimitsAssumption DEF Invariants, TypeOK, ControllerTypeOK
  <2>4. f.index # 0
    BY <2>1
  <2>5. Truthful(Trunk, f)
    BY <1>3, <1>4, <2>4 DEF Fits
  <2>2. PICK q \in Panels : assigned[q] = nextPanelIndex
    BY <2>5 DEF Truthful
  <2>3. nextPanelIndex <= MaxPanels /\ Len(stack) < MaxPanels
    BY <2>2, Capacity
  <2> QED
    BY <1>1, <1>4, <2>1, <2>3 DEF Registers, RejectedIndex
<1>6. frontier # 0
  <2> SUFFICES ASSUME frontier = 0 PROVE FALSE
    OBVIOUS
  <2>1. nextPanelIndex = 1 /\ Fresh(Trunk)
    BY DEF Invariants, WalkInv, Numbered, Fresh
  <2>2. AnswerOf(Trunk, f)
    BY <1>3, <1>4, <2>1 DEF Fits
  <2>3. peer[Trunk] \in Port /\ peer[Trunk] # Trunk
    BY <1>2, <2>2, Wire DEF AnswerOf, Invariants, TypeOK
  <2>4. PICK q \in Panels, d \in Edge : peer[Trunk][1] = q /\ peer[Trunk][2] = d
    BY <2>3, PortForm
  <2>5. PanelOK(q) /\ assigned[q] \in Nat /\ assigned[q] <= 1
    BY <2>1 DEF Invariants, WalkInv, Numbered, TypeOK, PanelsTypeOK
  <2>6. ~Recorded(q)
    BY <2>1, <2>5 DEF Recorded
  <2>7. edges[q][d] # "NotConnected"
    <3>1. d # parent[q] => edges[q][d] = "Unexplored"
      BY <2>5, <2>6 DEF PanelOK, Blank
    <3>2. d = parent[q] => edges[q][d] = "Connected"
      BY <2>4, <2>5, NotAnEdge DEF PanelOK, Kids
    <3> QED
      BY <3>1, <3>2
  <2>8. f.index # 0 /\ assigned[q] = f.index
    BY <2>2, <2>4, <2>7 DEF AnswerOf
  <2> QED
    BY <1>5, <2>1, <2>5, <2>8
<1>7. Static' /\ AllFit(chan)' /\ AllMove(chan)'
  BY <1>1, <1>3, QuietFrames
<1>8. Sole(chan)'
  BY <1>1, <1>3 DEF Sole
<1>9. (Paid /\ (\A p \in Panels : ProbePaid(p)) /\ Reported)'
  <2>1. \A y \in Port : \A g \in Carried(chan, y) : g \in Carried(chan', y) \/ (y = Trunk /\ g = f)
    BY <1>1, <1>2, <1>3, TakenKeeps
  <2>2. TokenFree(chan') => TokenFree(chan)
    BY <1>4, <2>1 DEF TokenFree
  <2>3. \A y \in Port : chan'[y] = <<>> => chan[y] = <<>> \/ y = Trunk
    BY <1>1, <1>2, <1>3, TakenKeeps
  <2>4. ASSUME NEW x \in Port, Asks(x), peer[x] # NoPort PROVE Heard(x)
    <3> SUFFICES ASSUME chan'[x] = <<>>, chan'[peer[x]] = <<>> PROVE Quiet(x)
      BY DEF Heard
    <3>1. x # Trunk /\ peer[x] \in Port /\ peer[peer[x]] = x
      BY <1>6, <2>4, Wire DEF Asks, Invariants, TypeOK
    <3>2. Fresh(x)
      <4>1. x[1] \in Panels /\ probing[x[1]] = x[2] /\ x[2] # NoEdge
        BY <2>4, <3>1, PortForm, NotAnEdge DEF Asks
      <4>2. Prober(x[1])
        BY <4>1 DEF Invariants, WalkInv, PanelOK
      <4> QED
        BY <3>1, <4>1, <4>2 DEF Prober, Fresh
    <3>3. peer[x] # Trunk
      BY <1>3, <1>4, <3>1, <3>2 DEF Fits
    <3> QED
      BY <2>3, <3>1, <3>3 DEF Quiet
  <2>5. \A x \in Port : \A g \in Carried(chan, x) :
            g.type = "REG" /\ g.index = nextPanelIndex => g \in Carried(chan', x)
    BY <1>5, <2>1
  <2> QED
    BY <1>1, <2>2, <2>4, <2>5, QuietPaid
<1> QED
  BY <1>7, <1>8, <1>9 DEF WalkInv, Static

\* Port x has an offer out and nothing is settled there.
LEMMA AskedFresh ==
    ASSUME Invariants, NEW x \in Port, Asks(x)
    PROVE  /\ Fresh(x)
           /\ x # Trunk => x[1] \in Panels /\ x[2] \in Edge /\ x = <<x[1], x[2]>> /\ probing[x[1]] = x[2]
                           /\ probing[x[1]] # NoEdge /\ Prober(x[1]) /\ ~Idle
           /\ x = Trunk => frontier = 0
<1>1. CASE x = Trunk
  BY <1>1 DEF Asks, Fresh
<1>2. CASE x # Trunk
  <2>1. x[1] \in Panels /\ x[2] \in Edge /\ x = <<x[1], x[2]>> /\ probing[x[1]] = x[2] /\ x[2] # NoEdge
    BY <1>2, PortForm, NotAnEdge DEF Asks
  <2>2. Prober(x[1])
    BY <2>1 DEF Invariants, WalkInv, PanelOK
  <2> QED
    BY <1>2, <2>1, <2>2 DEF Prober, Fresh, Idle
<1> QED
  BY <1>1, <1>2

\* A frame taken at the far end of an offer is the offer.
LEMMA OfferTaken ==
    ASSUME Invariants, NEW x \in Port, Asks(x), peer[x] # NoPort, NEW f, Fits(peer[x], f)
    PROVE  f.type = "PULL" /\ peer[x] \in Port /\ peer[peer[x]] = x /\ peer[x] # Trunk /\ peer[x] # x
<1>1. peer[x] \in Port /\ peer[peer[x]] = x /\ peer[x] # x
  BY Wire DEF Invariants, TypeOK
<1>2. Fresh(x)
  BY AskedFresh
<1>3. f.type = "PULL"
  BY <1>1, <1>2 DEF Fits
<1> QED
  BY <1>1, <1>3 DEF Fits

\* While an offer is out no token is under way.
LEMMA NoTokenAsked ==
    ASSUME Invariants, NEW x \in Port, Asks(x), NEW y \in Port, NEW f \in Carried(chan, y)
    PROVE  ~IsToken(f)
<1>1. Moves(y, f)
  BY DEF Invariants, WalkInv, AllMove
<1>2. CASE x = Trunk
  BY <1>1, <1>2, AskedFresh DEF Moves
<1>3. CASE x # Trunk
  BY <1>1, <1>3, AskedFresh DEF Moves
<1> QED
  BY <1>2, <1>3

\* The retry timer runs out only once everything has come to rest.
LEMMA RestBeforeTick ==
    ASSUME Recoverable, Invariants, IntervalPasses
    PROVE  AtRest /\ UNCHANGED faults /\ ~converted /\ ~complete
<1>1. "LATE_WALK" \notin Faults
  BY DEF Recoverable
<1> QED
  BY <1>1 DEF IntervalPasses, UnlessFault, Suffer

\* At rest nothing is under way and nothing is offered.
LEMMA RestEmpty ==
    ASSUME AtRest
    PROVE  /\ \A x \in Port : Carried(chan, x) = {} /\ chan[x] = <<>>
           /\ TokenFree(chan) /\ \A p \in Panels : probing[p] = NoEdge
<1>1. \A x \in Port : chan[x] = <<>> /\ Len(chan[x]) = 0
  BY DEF AtRest
<1>2. \A x \in Port : Carried(chan, x) = {}
  BY <1>1 DEF Carried
<1> QED
  BY <1>1, <1>2 DEF AtRest, TokenFree

\* The root panel below the trunk.
LEMMA RootPanel ==
    ASSUME Invariants, frontier # 0
    PROVE  \E r \in Panels : /\ assigned[r] = 1 /\ parent[r] \in Edge /\ <<r, parent[r]>> \in Port
                             /\ peer[Trunk] = <<r, parent[r]>> /\ peer[<<r, parent[r]>>] = Trunk
                             /\ <<r, parent[r]>> # Trunk
<1>1. frontier \in Nat /\ nextPanelIndex \in Nat
  BY LimitsAssumption DEF Invariants, TypeOK, ControllerTypeOK
<1>2. 1 \in 1 .. nextPanelIndex - 1
  BY <1>1 DEF Invariants, WalkInv, Numbered
<1>3. PICK r \in Panels : assigned[r] = 1
  BY <1>2 DEF Invariants, WalkInv, Numbered
<1>4. Above(r)
  BY DEF Invariants, WalkInv, PanelOK
<1>5. peer[<<r, parent[r]>>] = Trunk
  BY <1>3, <1>4 DEF Above
<1> QED
  BY <1>3, <1>5, Rooted DEF Invariants

\* The first panel is on the path as long as the walk goes on.
LEMMA RootOnPath == Invariants /\ frontier # 0 /\ ~complete => OnPath(1)
<1> SUFFICES ASSUME Invariants, frontier # 0, ~complete PROVE OnPath(1)
  OBVIOUS
<1>1. Path /\ stack \in Seq(0 .. MaxPanels) /\ Len(stack) \in Nat /\ LinksOK /\ stack # <<>>
  BY PathForm DEF Invariants, TypeOK, TreeInv, ControllerTypeOK, WalkInv, Path
<1>2. stack[1] = 0 /\ \A l \in 1 .. Len(links) : links[l].parent # 0
  BY <1>1 DEF Path, LinksOK
<1>3. Len(stack) >= 1
  BY <1>1
<1>4. CASE Len(stack) = 1
  <2>1. PathTo(1, frontier)
    BY <1>1, <1>4 DEF Path
  <2> QED
    BY <1>2, <2>1 DEF PathTo, OnPath
<1>5. CASE Len(stack) # 1
  <2>0. \A h \in Nat : h >= 1 /\ h # 1 => 1 \in 1 .. h - 1 /\ 1 + 1 = 2 /\ 2 \in 1 .. h
    OBVIOUS
  <2>1. 1 \in 1 .. Len(stack) - 1 /\ 1 + 1 = 2 /\ 2 \in 1 .. Len(stack)
    BY <1>1, <1>3, <1>5, <2>0
  <2>2. PathTo(1, stack[2])
    BY <1>1, <2>1 DEF Path
  <2> QED
    BY <1>2, <2>1, <2>2 DEF PathTo, OnPath
<1> QED
  BY <1>4, <1>5

\* An ADV leaves the controller for the root panel.
LEMMA AdvanceFits ==
    ASSUME Invariants, frontier # 0, NEW u \in Port, peer[Trunk] = u, NEW t, NEW i
    PROVE  Fits(u, AdvFrame(t, i)) /\ u[1] \in Panels /\ assigned[u[1]] = 1 /\ AdvFrame(t, i).type = "ADV"
           /\ AdvFrame(t, i).target = t /\ AdvFrame(t, i).index = i
<1>1. PICK r \in Panels : /\ assigned[r] = 1 /\ peer[Trunk] = <<r, parent[r]>>
                          /\ peer[<<r, parent[r]>>] = Trunk /\ <<r, parent[r]>> # Trunk
                          /\ parent[r] \in Edge
  BY RootPanel
<1>2. u[1] = r /\ u[2] = parent[r] /\ peer[u] = Trunk /\ u # Trunk
  BY <1>1
<1>3. Trunk # NoPort /\ ~Fresh(Trunk)
  BY PanelsAssumption DEF Fresh, Port
<1> QED
  BY <1>1, <1>2, <1>3 DEF Fits, AdvFrame

\* A resent root offer finds the old one lost.
LEMMA RetryRootWalk ==
    ASSUME Recoverable, Invariants, IntervalPasses, RetryRoot,
           UNCHANGED <<peer, nextPanelIndex, frontier, stack, indices, links, panelVars>>
    PROVE  WalkInv'
<1>1. /\ AtRest /\ UNCHANGED faults /\ frontier = 0 /\ waited' = waited + 1
      /\ chan' = Put(chan, Controller, {0}, PullFrame(nextPanelIndex, 0))
      /\ UNCHANGED staticVars
  BY RestBeforeTick DEF RetryRoot, SendRootPull, staticVars, panelVars
<1>2. nextPanelIndex \in Nat /\ chan \in Channels /\ Trunk \in Port
  BY LimitsAssumption DEF Invariants, TypeOK, ControllerTypeOK, WiresTypeOK, Channels, Port
<1>3. PICK f \in Frame : f = PullFrame(nextPanelIndex, 0)
  BY <1>2, PullTyped DEF NoEdge
<1>4. f.type = "PULL" /\ f.index = nextPanelIndex /\ f.parentEdge = 0 /\ ~IsToken(f)
  BY <1>3 DEF PullFrame, IsToken
<1>5. /\ \A x \in Port : Carried(chan, x) = {} /\ chan[x] = <<>>
      /\ TokenFree(chan) /\ \A p \in Panels : probing[p] = NoEdge
  BY <1>1, RestEmpty
<1>6. chan' = Put(chan, Controller, {0}, f)
  BY <1>1, <1>3
<1>7. ASSUME NEW x \in Port, NEW g \in Carried(chan', x)
      PROVE  g = f /\ peer[Trunk] = x /\ Fits(x, g) /\ Moves(x, g)
  <2>1. g = f /\ peer[Trunk] = x
    <3>1. g \in Carried(chan, x) \/ (g = f /\ peer[<<Controller, 0>>] = x)
      BY <1>2, <1>6, <1>7, Sent
    <3> QED
      BY <1>5, <3>1 DEF Trunk
  <2>2. peer[x] = Trunk /\ x # Trunk
    BY <1>2, <2>1, Wire, WiredBack, PanelsAssumption DEF Invariants, TypeOK
  <2>3. Fits(x, g)
    BY <1>1, <1>4, <2>1, <2>2 DEF Fits, Asks, Trunk
  <2> QED
    BY <1>4, <2>1, <2>3 DEF Moves
<1>8. Static' /\ AllFit(chan)' /\ AllMove(chan)'
  BY <1>1, <1>7, QuietFrames
<1>9. Sole(chan)'
  <2>1. Sole(Put(chan, Controller, {0}, f))
    BY <1>2, <1>4, PutSole DEF Invariants, WalkInv
  <2> QED
    BY <1>6, <2>1 DEF Sole
<1>10. Paid'
  <2>1. peer[Trunk] # NoPort => Quiet(Trunk)
    BY <1>2, <1>5, Wire DEF Quiet, Invariants, TypeOK
  <2>2. peer[Trunk] # NoPort => chan'[peer[Trunk]] # <<>>
    <3> SUFFICES ASSUME peer[Trunk] # NoPort PROVE chan'[peer[Trunk]] # <<>>
      OBVIOUS
    <3>1. PICK u \in Port : u = peer[<<Controller, 0>>]
      BY <1>2, Wire DEF Invariants, TypeOK, Trunk
    <3>3. f \in Carried(Put(chan, Controller, {0}, f), u)
      BY <1>2, <3>1, Sent
    <3>2. Put(chan, Controller, {0}, f)[u] # <<>>
      BY <3>3, CarriedSome
    <3> QED
      BY <1>6, <3>1, <3>2 DEF Trunk
  <2> QED
    BY <1>1, <2>1, <2>2 DEF Invariants, WalkInv, Paid, Quiet, staticVars
<1>11. (\A p \in Panels : ProbePaid(p))' /\ Reported'
  BY <1>1, <1>5 DEF ProbePaid, Reported, staticVars
<1> QED
  BY <1>8, <1>9, <1>10, <1>11 DEF WalkInv, Static

\* A resent ADVANCE finds the walk's one frame lost.
LEMMA RetryAdvanceWalk ==
    ASSUME Recoverable, Invariants, IntervalPasses, RetryAdvance,
           UNCHANGED <<peer, nextPanelIndex, frontier, stack, indices, links, panelVars>>
    PROVE  WalkInv'
<1>1. /\ AtRest /\ UNCHANGED faults /\ frontier # 0 /\ waited' = waited + 1 /\ ~complete
      /\ chan' = Put(chan, Controller, {0}, AdvFrame(frontier, nextPanelIndex))
      /\ UNCHANGED staticVars
  BY RestBeforeTick DEF RetryAdvance, SendAdvance, staticVars, panelVars
<1>2. nextPanelIndex \in Nat /\ frontier \in Nat /\ chan \in Channels
  BY LimitsAssumption DEF Invariants, TypeOK, ControllerTypeOK, WiresTypeOK, Channels
<1>3. PICK f \in Frame : f = AdvFrame(frontier, nextPanelIndex)
  BY <1>2, AdvTyped
<1>4. IsToken(f) /\ f.type = "ADV" /\ f.target = frontier /\ f.index = nextPanelIndex
  BY <1>3 DEF AdvFrame, IsToken
<1>5. /\ \A x \in Port : Carried(chan, x) = {} /\ chan[x] = <<>>
      /\ TokenFree(chan) /\ \A p \in Panels : probing[p] = NoEdge
  BY <1>1, RestEmpty
<1>6. chan' = Put(chan, Controller, {0}, f)
  BY <1>1, <1>3
<1>7. Idle
  BY <1>1, <1>5 DEF Invariants, WalkInv, Reported, Idle
<1>8. OnPath(1)
  BY <1>1, RootOnPath
<1>9. ASSUME NEW x \in Port, NEW g \in Carried(chan', x)
      PROVE  Fits(x, g) /\ Moves(x, g)
  <2>1. g = f /\ peer[Trunk] = x
    <3>1. g \in Carried(chan, x) \/ (g = f /\ peer[<<Controller, 0>>] = x)
      BY <1>2, <1>6, <1>9, Sent
    <3> QED
      BY <1>5, <3>1 DEF Trunk
  <2>2. Fits(x, g) /\ assigned[x[1]] = 1
    BY <1>1, <1>3, <2>1, AdvanceFits
  <2> QED
    BY <1>1, <1>4, <1>7, <1>8, <2>1, <2>2 DEF Moves
<1>10. Static' /\ AllFit(chan)' /\ AllMove(chan)'
  BY <1>1, <1>9, QuietFrames
<1>11. Sole(chan)'
  <2>1. Sole(Put(chan, Controller, {0}, f))
    BY <1>2, <1>5, PutSole, FreeSole
  <2> QED
    BY <1>6, <2>1 DEF Sole
<1>12. Paid'
  <2>1. waited + 1 <= faults
    BY <1>1, <1>5, <1>7 DEF Invariants, WalkInv, Paid
  <2>2. PICK u \in Port : u = peer[<<Controller, 0>>]
    BY <1>1, RootPanel DEF Trunk
  <2>3. f \in Carried(chan', u)
    <3>1. f \in Carried(Put(chan, Controller, {0}, f), u)
      BY <1>2, <2>2, Sent
    <3> QED
      BY <1>6, <3>1
  <2>4. ~TokenFree(chan)'
    BY <1>4, <2>3 DEF TokenFree, Carried
  <2> QED
    BY <1>1, <2>1, <2>4 DEF Paid, staticVars
<1>13. (\A p \in Panels : ProbePaid(p))' /\ Reported'
  <2>1. \A q \in Panels : assigned[q] # nextPanelIndex
    BY <1>7 DEF Idle
  <2> QED
    BY <1>1, <1>5, <2>1 DEF ProbePaid, Reported, staticVars
<1> QED
  BY <1>10, <1>11, <1>12, <1>13 DEF WalkInv, Static

\* The walk is not given up.
LEMMA NoGiveUpWalk ==
    ASSUME Recoverable, Invariants, IntervalPasses
    PROVE  ~GiveUpWalk
<1> SUFFICES ASSUME GiveUpWalk PROVE FALSE
  OBVIOUS
<1>1. AtRest /\ frontier # 0 /\ waited + 1 >= StallIntervals /\ ~complete
  BY RestBeforeTick DEF GiveUpWalk
<1>2. TokenFree(chan) /\ (\A x \in Port : Carried(chan, x) = {}) /\ \A p \in Panels : probing[p] = NoEdge
  BY <1>1, RestEmpty
<1>3. Idle
  BY <1>1, <1>2 DEF Invariants, WalkInv, Reported, Idle
<1>4. waited + 1 <= faults
  BY <1>1, <1>2, <1>3 DEF Invariants, WalkInv, Paid
<1>5. waited \in Nat /\ faults \in Nat /\ faults <= MaxFaults /\ MaxFaults < StallIntervals
  BY LimitsAssumption DEF Recoverable, Invariants, TypeOK, WiresTypeOK, ControllerTypeOK
<1> QED
  BY <1>1, <1>4, <1>5, LimitsAssumption

\* The root is given up only if nothing is plugged into the trunk.
LEMMA GiveUpRootWalk ==
    ASSUME Recoverable, Invariants, IntervalPasses, GiveUpRoot,
           UNCHANGED <<peer, nextPanelIndex, frontier, stack, indices, links, panelVars>>
    PROVE  WalkInv' /\ peer[Trunk] = NoPort
<1>1. /\ AtRest /\ UNCHANGED faults /\ frontier = 0 /\ waited + 1 >= RootIntervals /\ complete'
      /\ UNCHANGED <<chan, waited, peer, nextPanelIndex, frontier, stack, links, panelVars>>
  BY RestBeforeTick DEF GiveUpRoot
<1>2. /\ \A x \in Port : Carried(chan, x) = {} /\ chan[x] = <<>>
      /\ \A p \in Panels : probing[p] = NoEdge
  BY <1>1, RestEmpty
<1>3. Trunk \in Port
  BY DEF Port
<1>4. peer[Trunk] = NoPort
  <2> SUFFICES ASSUME peer[Trunk] # NoPort PROVE FALSE
    OBVIOUS
  <2>1. Quiet(Trunk)
    BY <1>2, <1>3, Wire DEF Quiet, Invariants, TypeOK
  <2>2. waited + 1 <= faults
    BY <1>1, <2>1 DEF Invariants, WalkInv, Paid
  <2>3. waited \in Nat /\ faults \in Nat /\ faults <= MaxFaults /\ MaxFaults < RootIntervals
    BY LimitsAssumption DEF Recoverable, Invariants, TypeOK, WiresTypeOK, ControllerTypeOK
  <2> QED
    BY <1>1, <2>2, <2>3, LimitsAssumption
<1>5. \A q \in Panels : assigned[q] # nextPanelIndex
  <2> SUFFICES ASSUME NEW q \in Panels, assigned[q] = nextPanelIndex PROVE FALSE
    OBVIOUS
  <2>1. assigned[q] = 1
    BY <1>1 DEF Invariants, WalkInv, Numbered
  <2>2. peer[<<q, parent[q]>>] = Trunk
    BY <2>1 DEF Invariants, WalkInv, PanelOK, Above
  <2>3. peer[Trunk] = <<q, parent[q]>> /\ <<q, parent[q]>> \in Port
    BY <2>1, <2>2, Rooted DEF Invariants
  <2> QED
    BY <1>4, <2>3, PanelsAssumption
<1>6. Numbered' /\ PathOK'
  <2>1. UNCHANGED <<peer, nextPanelIndex, frontier, stack, panelVars>>
    BY <1>1
  <2>2. Numbered' /\ Descends'
    BY <2>1 DEF panelVars, Numbered, IndicesDistinct, Descends, Invariants, WalkInv, PathOK
  <2>3. ASSUME NEW p \in Panels PROVE LastChild(p)' /\ OffPath(p)'
    <3>1. LastChild(p) /\ OffPath(p)
      BY DEF Invariants, WalkInv, PathOK
    <3>2. LastChild(p)'
      BY <2>1, <3>1 DEF panelVars, LastChild, After
    <3>3. OffPath(p)'
      BY <2>1, <3>1 DEF panelVars, OffPath, OnPath, Finished, OpenEdges, Recorded
    <3> QED
      BY <3>2, <3>3
  <2> QED
    BY <2>2, <2>3 DEF PathOK
<1>7. ASSUME NEW p \in Panels PROVE PanelOK(p)'
  <2>1. PanelOK(p)
    BY DEF Invariants, WalkInv
  <2>2. Blank(p)' /\ Kids(p)'
    BY <1>1, <2>1 DEF panelVars, PanelOK, Blank, Recorded, Kids
  <2>3. Above(p)' /\ Refused(p)'
    BY <1>1, <2>1 DEF panelVars, PanelOK, Above, Refused, Recorded
  <2>4. Half(p)'
    BY <1>1, <2>1 DEF panelVars, PanelOK, Half, Fresh
  <2>5. Prober(p)' /\ Waiting(p)'
    BY <1>1, <1>2, <1>5 DEF panelVars, Prober, Waiting
  <2> QED
    BY <2>2, <2>3, <2>4, <2>5 DEF PanelOK
<1>8. LinksOK'
  <2>1. \A l : LinkHolds(l) => LinkHolds(l)'
    BY <1>1 DEF panelVars, LinkHolds
  <2>2. \A i : OnPath(i)' = OnPath(i)
    BY <1>1 DEF OnPath
  <2> QED
    BY <1>1, <2>1, <2>2 DEF Invariants, WalkInv, LinksOK
<1>9. Over'
  BY <1>1, <1>2, <1>4, <1>5 DEF Over, Idle, panelVars
<1>10. AllFit(chan)' /\ AllMove(chan)'
  BY <1>1, <1>2 DEF AllFit, AllMove, Carried
<1>11. Sole(chan)'
  BY <1>1 DEF Sole, Invariants, WalkInv
<1>12. Paid' /\ (\A p \in Panels : ProbePaid(p))' /\ Reported'
  BY <1>1, <1>2, <1>4 DEF Paid, ProbePaid, Reported, panelVars
<1> QED
  BY <1>4, <1>6, <1>7, <1>8, <1>9, <1>10, <1>11, <1>12 DEF WalkInv

-----------------------------------------------------------------------------
(* A node takes a frame off one wire and sends another.                     *)

\* The wires c are those of chan but for the head f of wire x, taken, and g, sent on edge e
\* of node n.
Swap(c, x, f, n, e, g) ==
    /\ c \in Channels
    /\ \A y \in Port : \A h \in Carried(c, y) : h \in Carried(chan, y) \/ (h = g /\ peer[<<n, e>>] = y)
    /\ \A y \in Port : \A h \in Carried(chan, y) : h \in Carried(c, y) \/ (y = x /\ h = f)
    /\ \A y \in Port : peer[<<n, e>>] = y => g \in Carried(c, y) /\ c[y] # <<>>
    /\ \A y \in Port : c[y] = <<>> => chan[y] = <<>> \/ y = x
    /\ IsToken(f) \/ ~IsToken(g) => Sole(c)
    /\ ~IsToken(f) /\ TokenFree(c) => TokenFree(chan)

\* What a step that takes a frame and sends one leaves on the wires.
LEMMA Swapped ==
    ASSUME Invariants, NEW x \in Port, chan[x] # <<>>, NEW f, f = Head(chan[x]),
           NEW n, NEW e, NEW g \in Frame, NEW c, c = Put(Taken(chan, x), n, {e}, g)
    PROVE  Swap(c, x, f, n, e, g)
<1>1. /\ Taken(chan, x) \in Channels /\ chan \in Channels
      /\ Sole(Taken(chan, x)) /\ (IsToken(f) => TokenFree(Taken(chan, x)))
      /\ \A y \in Port : \A h \in Carried(Taken(chan, x), y) : h \in Carried(chan, y)
  BY TheHead
<1>2. PICK d \in Channels : d = Taken(chan, x)
  BY <1>1
<1>3. c = Put(d, n, {e}, g)
  BY <1>2
<1>4. c \in Channels /\ (IsToken(f) \/ ~IsToken(g) => Sole(c))
  BY <1>1, <1>2, <1>3, PutTyped, SentSole
<1>5. \A y \in Port : \A h \in Carried(c, y) : h \in Carried(chan, y) \/ (h = g /\ peer[<<n, e>>] = y)
  <2>1. ASSUME NEW y \in Port, NEW h \in Carried(c, y)
        PROVE  h \in Carried(d, y) \/ (h = g /\ peer[<<n, e>>] = y)
    BY <1>3, <2>1, Sent
  <2> QED
    BY <1>1, <1>2, <2>1
<1>6. \A y \in Port : \A h \in Carried(chan, y) : h \in Carried(c, y) \/ (y = x /\ h = f)
  <2>1. ASSUME NEW y \in Port, NEW h \in Carried(chan, y) PROVE h \in Carried(d, y) \/ (y = x /\ h = f)
    BY <1>1, <1>2, <2>1, TakenKeeps
  <2>2. ASSUME NEW y \in Port, NEW h \in Carried(d, y) PROVE h \in Carried(c, y)
    <3>1. \A k \in Carried(d, y) : k \in Carried(Put(d, n, {e}, g), y)
      BY Sent
    <3> QED
      BY <1>3, <3>1
  <2> QED
    BY <2>1, <2>2
<1>7. ASSUME NEW y \in Port, peer[<<n, e>>] = y PROVE g \in Carried(c, y) /\ c[y] # <<>>
  <2>1. g \in Carried(c, y)
    BY <1>3, <1>7, Sent
  <2> QED
    BY <2>1, CarriedSome
<1>8. ASSUME NEW y \in Port, c[y] = <<>> PROVE chan[y] = <<>> \/ y = x
  <2>1. ASSUME NEW h \in Carried(d, y) PROVE FALSE
    <3>1. \A k \in Carried(d, y) : k \in Carried(Put(d, n, {e}, g), y)
      BY Sent
    <3>2. h \in Carried(c, y)
      BY <1>3, <3>1
    <3> QED
      BY <1>8, <3>2, CarriedSome
  <2>2. d[y] = <<>>
    BY <2>1, HeadCarried
  <2> QED
    BY <1>1, <1>2, <2>2, TakenKeeps
<1>9. ASSUME ~IsToken(f), TokenFree(c) PROVE TokenFree(chan)
  BY <1>6, <1>9 DEF TokenFree
<1> QED
  BY <1>4, <1>5, <1>6, <1>7, <1>8, <1>9 DEF Swap

\* An asked port hears nothing but the answer.
LEMMA AskedHears ==
    ASSUME Invariants, NEW x \in Port, x # Trunk, Asks(x), NEW f \in Frame, Fits(x, f), Proper(x, f)
    PROVE  f.type = "REG" /\ AnswerOf(x, f)
<1>1. /\ Fresh(x) /\ x[1] \in Panels /\ x[2] \in Edge /\ probing[x[1]] = x[2] /\ probing[x[1]] # NoEdge
      /\ x = <<x[1], x[2]>>
  BY AskedFresh
<1>2. x[2] # parent[x[1]] /\ edges[x[1]][x[2]] = "Unexplored"
  BY <1>1 DEF Invariants, FloodInv, PanelInTree, Fresh
<1>3. f.type \in {"PULL", "REG", "ADV", "DONE"}
  BY DEF Frame
<1>4. f.type # "PULL"
  <2> SUFFICES ASSUME f.type = "PULL" PROVE FALSE
    OBVIOUS
  <2>1. Asks(peer[x])
    BY <1>2 DEF Fits, Answered
  <2>2. peer[x] # NoPort
    BY DEF Proper
  <2> QED
    BY <2>1, <2>2, Wire, OneAsker DEF Invariants, TypeOK
<1> QED
  BY <1>1, <1>2, <1>3, <1>4 DEF Fits

\* A quiet step that takes one frame and sends another: the new one fits, keeps the walk
\* going if the old one did, and does not stand in for an answer.
LEMMA SwapWalk ==
    ASSUME Invariants, UNCHANGED staticVars, UNCHANGED <<waited, faults, attempts>>,
           NEW x \in Port, chan[x] # <<>>, NEW f, f = Head(chan[x]),
           NEW n, NEW e, NEW u \in Port, peer[<<n, e>>] = u, NEW g \in Frame, Fits(u, g), Moves(u, g),
           chan' = Put(Taken(chan, x), n, {e}, g),
           IsToken(f) <=> IsToken(g),
           f.type = "REG" /\ f.index = nextPanelIndex => g = f,
           ~Asks(x), f.type = "PULL" => u = peer[x]
    PROVE  WalkInv'
<1>1. f \in Frame /\ f \in Carried(chan, x) /\ Fits(x, f) /\ chan \in Channels
  BY TheHead
<1>2. /\ chan' \in Channels
      /\ \A y \in Port : \A h \in Carried(chan', y) : h \in Carried(chan, y) \/ (h = g /\ u = y)
      /\ \A y \in Port : \A h \in Carried(chan, y) : h \in Carried(chan', y) \/ (y = x /\ h = f)
      /\ g \in Carried(chan', u) /\ chan'[u] # <<>>
      /\ \A y \in Port : chan'[y] = <<>> => chan[y] = <<>> \/ y = x
      /\ Sole(chan') /\ (~IsToken(f) /\ TokenFree(chan') => TokenFree(chan))
  <2>0. PICK c : c = chan'
    OBVIOUS
  <2>1. c = Put(Taken(chan, x), n, {e}, g)
    BY <2>0
  <2>2. Swap(c, x, f, n, e, g)
    BY <2>1, Swapped
  <2> QED
    BY <2>0, <2>2 DEF Swap
<1>3. Static' /\ AllFit(chan)' /\ AllMove(chan)'
  BY <1>2, QuietFrames
<1>4. TokenFree(chan') => TokenFree(chan)
  BY <1>2 DEF TokenFree
<1>5. ASSUME NEW z \in Port, Asks(z), peer[z] # NoPort PROVE Heard(z)
  <2> SUFFICES ASSUME chan'[z] = <<>>, chan'[peer[z]] = <<>> PROVE Quiet(z)
    BY DEF Heard
  <2>1. peer[z] \in Port /\ peer[peer[z]] = z
    BY <1>5, Wire DEF Invariants, TypeOK
  <2>2. peer[z] # x
    <3> SUFFICES ASSUME peer[z] = x PROVE FALSE
      OBVIOUS
    <3>1. f.type = "PULL"
      BY <1>1, <1>5, OfferTaken
    <3>2. u = z
      BY <2>1, <3>1
    <3> QED
      BY <1>2, <3>2
  <2>3. z # x
    BY <1>5
  <2> QED
    BY <1>2, <2>1, <2>2, <2>3 DEF Quiet
<1>6. \A y \in Port : \A h \in Carried(chan, y) : h.type = "REG" /\ h.index = nextPanelIndex =>
          \E z \in Port : \E k \in Carried(chan', z) : k.type = "REG" /\ k.index = nextPanelIndex
  BY <1>2
<1>7. (Paid /\ (\A p \in Panels : ProbePaid(p)) /\ Reported)'
  BY <1>4, <1>5, <1>6, QuietPaid
<1>8. Sole(chan)'
  BY <1>2 DEF Sole
<1> QED
  BY <1>3, <1>7, <1>8 DEF WalkInv, Static

\* A repeated offer is answered again, by the index and the edges it found before.
LEMMA AcceptRepeatWalk ==
    ASSUME Invariants, NEW p \in Panels, NEW e \in Edge, chan[<<p, e>>] # <<>>,
           NEW f, f = Head(chan[<<p, e>>]), PanelAcceptOffer(p, e, f), assigned[p] # 0,
           UNCHANGED <<peer, faults, coordVars>>
    PROVE  WalkInv'
<1>1. PICK x \in Port : x = <<p, e>> /\ x # Trunk /\ x[1] = p /\ x[2] = e /\ e # NoEdge
  BY PortOf
<1>2. f.type = "PULL" /\ parent[p] = e /\ parent[p] # NoEdge
  <2>1. parent[p] # NoEdge
    BY DEF Invariants, FloodInv, PanelInTree
  <2> QED
    BY <2>1 DEF PanelAcceptOffer, Accepts
<1>3. f \in Frame /\ Fits(x, f) /\ Proper(x, f)
  BY <1>1, TheHead
<1>4. PICK g \in Frame : g = RegFrame(assigned[p], e, f.parentEdge)
  <2>1. assigned[p] \in Nat /\ e \in 0 .. NoEdge /\ f.parentEdge \in 0 .. NoEdge
    BY <1>3, NotAnEdge DEF Invariants, TypeOK, PanelsTypeOK, Frame
  <2> QED
    BY <2>1, RegTyped
<1>5. /\ UNCHANGED staticVars /\ UNCHANGED <<waited, faults, attempts>>
      /\ chan' = Put(Taken(chan, x), p, {e}, g)
  <2>1. parent' = parent
    <3>1. parent' = [parent EXCEPT ![p] = e] /\ parent \in [Panels -> Edge \cup {NoEdge}]
      BY DEF PanelAcceptOffer, Invariants, TypeOK, PanelsTypeOK
    <3> QED
      BY <1>2, <3>1
  <2>2. edges' = edges /\ assigned' = assigned
    BY <1>2 DEF PanelAcceptOffer
  <2>3. Dispatched(p, e, f) = Taken(chan, x)
    BY <1>1, <1>2 DEF Dispatched, Relays
  <2>4. chan' = Put(Taken(chan, x), p, {e}, g)
    BY <1>4, <2>2, <2>3 DEF PanelAcceptOffer
  <2> QED
    BY <2>1, <2>2, <2>4 DEF PanelAcceptOffer, coordVars, staticVars
<1>6. PICK u \in Port : u = peer[<<p, e>>] /\ peer[u] = x /\ u = peer[x]
  BY <1>1, <1>2, UpPort
<1>7. /\ Below(u) /\ ~Fresh(x) /\ x # NoPort /\ (Fresh(u) => Asks(u))
  BY <1>1, <1>2, <1>6, UpPort
<1>8. g.type = "REG" /\ g.target = 0 /\ g.index = assigned[p] /\ g.edge = e /\ g.parentEdge = f.parentEdge
  BY <1>4 DEF RegFrame
<1>9. Fits(u, g)
  <2>1. f.parentEdge = u[2]
    BY <1>2, <1>3, <1>6 DEF Fits
  <2>2. Truthful(u, g)
    BY <1>2, <1>6, <1>8, <2>1 DEF Truthful
  <2>3. AnswerOf(u, g)
    BY <1>1, <1>2, <1>6, <1>7, <1>8 DEF AnswerOf
  <2> QED
    BY <1>6, <1>7, <1>8, <2>2, <2>3 DEF Fits
<1>10. ~IsToken(f) /\ ~IsToken(g)
  BY <1>2, <1>8 DEF IsToken
<1>11. ~Asks(x)
  BY <1>7, AskedFresh
<1> QED
  BY <1>1, <1>2, <1>5, <1>6, <1>9, <1>10, <1>11, SwapWalk DEF Moves

\* What a panel only relays goes to its parent, or down the path to the frontier.
LEMMA RelayOnlyWalk ==
    ASSUME Invariants, NEW p \in Panels, NEW e \in Edge, chan[<<p, e>>] # <<>>,
           NEW f, f = Head(chan[<<p, e>>]), PanelRelayOnly(p, e, f),
           UNCHANGED <<peer, faults, coordVars>>
    PROVE  WalkInv'
<1>1. PICK x \in Port : x = <<p, e>> /\ x # Trunk /\ x[1] = p /\ x[2] = e /\ e # NoEdge
  BY PortOf
<1>2. /\ f.type # "PULL" /\ ~(f.type = "REG" /\ probing[p] = e) /\ ~ActsOnAdvance(p, f)
      /\ chan' = Dispatched(p, e, f)
      /\ UNCHANGED staticVars /\ UNCHANGED <<waited, faults, attempts>>
  BY DEF PanelRelayOnly, staticVars, coordVars, panelVars
<1>3. f \in Frame /\ Fits(x, f) /\ Proper(x, f) /\ f.type \in {"PULL", "REG", "ADV", "DONE"}
  <2>1. f \in Frame /\ Fits(x, f) /\ Proper(x, f)
    BY <1>1, TheHead
  <2> QED
    BY <2>1 DEF Frame
<1>4. ~Asks(x)
  BY <1>1, <1>2, <1>3, AskedHears DEF Asks
<1>5. PICK d, u \in Port : /\ peer[<<p, d[2]>>] = u /\ Fits(u, f) /\ Moves(u, f)
                           /\ Dispatched(p, e, f) = Put(Taken(chan, <<p, e>>), p, {d[2]}, f)
  <2>1. CASE f.type = "REG" \/ f.type = "DONE"
    <3>1. edges[p][e] # "Unexplored"
      BY <1>1, <1>3, <1>4, <2>1 DEF Fits, Fresh
    <3>2. /\ assigned[p] # 0
          /\ Dispatched(p, e, f) = Put(Taken(chan, <<p, e>>), p, {parent[p]}, f)
      BY <2>1, RelayUp
    <3>3. PICK u \in Port : u = peer[<<p, parent[p]>>] /\ Fits(u, f) /\ Moves(u, f)
      BY <2>1, <3>1, RelayUpFits
    <3>4. PICK d \in Port : d[2] = parent[p]
      BY <3>2, Rooted, PortOf DEF Invariants
    <3> QED
      BY <3>2, <3>3, <3>4
  <2>2. CASE f.type = "ADV"
    <3>1. PICK h \in Edge, u \in Port :
              /\ peer[<<p, h>>] = u /\ Fits(u, f) /\ Moves(u, f)
              /\ Dispatched(p, e, f) = Put(Taken(chan, <<p, e>>), p, {h}, f)
      BY <1>2, <2>2, RelayDown
    <3>2. <<p, h>> \in Port /\ <<p, h>>[2] = h
      BY PortOf
    <3> QED
      BY <3>1, <3>2
  <2> QED
    BY <1>2, <1>3, <2>1, <2>2
<1>6. chan' = Put(Taken(chan, x), p, {d[2]}, f)
  BY <1>1, <1>2, <1>5
<1> QED
  BY <1>1, <1>2, <1>3, <1>4, <1>5, <1>6, SwapWalk

\* The conversion into the topology leaves the walk as it was.
LEMMA ConvertWalk == Invariants /\ Convert => WalkInv'
<1> SUFFICES ASSUME Invariants, Convert PROVE WalkInv'
  OBVIOUS
<1>1. UNCHANGED staticVars /\ UNCHANGED <<waited, faults, attempts, chan>>
  BY DEF Convert, staticVars, panelVars
<1>2. Static' /\ AllFit(chan)' /\ AllMove(chan)'
  BY <1>1, QuietFrames
<1>3. (Paid /\ (\A p \in Panels : ProbePaid(p)) /\ Reported)'
  BY <1>1, QuietPaid DEF Heard, Quiet
<1>4. Sole(chan)'
  BY <1>1 DEF Sole, Invariants, WalkInv
<1> QED
  BY <1>2, <1>3, <1>4 DEF WalkInv, Static

\* So does a step that changes nothing.
LEMMA StutterWalk == Invariants /\ UNCHANGED vars => WalkInv'
<1> SUFFICES ASSUME Invariants, UNCHANGED vars PROVE WalkInv'
  OBVIOUS
<1>1. UNCHANGED staticVars /\ UNCHANGED <<waited, faults, attempts, chan>>
  BY DEF vars, staticVars, panelVars, coordVars
<1>2. Static' /\ AllFit(chan)' /\ AllMove(chan)'
  BY <1>1, QuietFrames
<1>3. (Paid /\ (\A p \in Panels : ProbePaid(p)) /\ Reported)'
  BY <1>1, QuietPaid DEF Heard, Quiet
<1>4. Sole(chan)'
  BY <1>1 DEF Sole, Invariants, WalkInv
<1> QED
  BY <1>2, <1>3, <1>4 DEF WalkInv, Static

\* A lost frame is one that is sent again, and the fault pays for the retry.
LEMMA LoseFrameWalk ==
    ASSUME Recoverable, Invariants, NEW x \in Port, LoseFrame(x)
    PROVE  WalkInv'
<1>1. /\ chan[x] # <<>> /\ chan' = Taken(chan, x) /\ faults' = faults + 1
      /\ UNCHANGED staticVars /\ UNCHANGED <<waited, attempts>>
      /\ LossKind(x, Head(chan[x])) \in Faults
  BY DEF LoseFrame, Suffer, staticVars, panelVars, coordVars
<1>2. PICK f : f = Head(chan[x])
  OBVIOUS
<1>3. /\ f \in Frame /\ chan \in Channels /\ Sole(Taken(chan, x))
      /\ \A y \in Port : \A g \in Carried(Taken(chan, x), y) : g \in Carried(chan, y)
  BY <1>1, <1>2, TheHead
<1>4. Static' /\ AllFit(chan)' /\ AllMove(chan)'
  BY <1>1, <1>3, QuietFrames
<1>5. Sole(chan)'
  BY <1>1, <1>3 DEF Sole
<1>6. faults \in Nat /\ waited \in Nat /\ attempts \in [Panels -> Nat]
  BY LimitsAssumption DEF Invariants, TypeOK, WiresTypeOK, ControllerTypeOK, PanelsTypeOK
<1>7. Paid'
  BY <1>1, <1>6 DEF Invariants, WalkInv, Paid, staticVars
<1>8. ASSUME NEW p \in Panels PROVE ProbePaid(p)'
  <2>1. ProbePaid(p)
    BY DEF Invariants, WalkInv
  <2> QED
    BY <1>1, <1>6, <2>1 DEF ProbePaid, staticVars
<1>9. Reported'
  <2> SUFFICES ASSUME frontier # 0, \A p \in Panels : probing[p] = NoEdge,
                      \E q \in Panels : assigned[q] = nextPanelIndex
               PROVE  \E y \in Port : \E g \in Carried(chan', y) : g.type = "REG" /\ g.index = nextPanelIndex
    BY <1>1 DEF Reported, staticVars, Carried
  <2>1. PICK y \in Port : \E g \in Carried(chan, y) : g.type = "REG" /\ g.index = nextPanelIndex
    BY DEF Invariants, WalkInv, Reported
  <2>2. PICK g \in Carried(chan, y) : g.type = "REG" /\ g.index = nextPanelIndex
    BY <2>1
  <2>3. f.type # "REG"
    <3> SUFFICES ASSUME f.type = "REG" PROVE FALSE
      OBVIOUS
    <3>1. x # Trunk => probing[x[1]] # x[2]
      BY PortForm, NotAnEdge
    <3>2. LossKind(x, f) = "RELAYED_REG"
      BY <3>1 DEF LossKind
    <3> QED
      BY <1>1, <1>2, <3>2 DEF Recoverable
  <2>4. g \in Carried(Taken(chan, x), y) \/ g = f
    BY <1>1, <1>2, <1>3, TakenKeeps
  <2>5. g \in Carried(chan', y)
    BY <1>1, <2>2, <2>3, <2>4
  <2> QED
    BY <2>2, <2>5
<1> QED
  BY <1>4, <1>5, <1>7, <1>8, <1>9 DEF WalkInv, Static

\* The far end of an edge that a panel probes is not the controller.
LEMMA ProbesDown ==
    ASSUME Invariants, NEW p \in Panels, probing[p] # NoEdge
    PROVE  /\ probing[p] \in Edge /\ probing[p] # parent[p] /\ <<p, probing[p]>> \in Port
           /\ peer[<<p, probing[p]>>] # Trunk /\ assigned[p] = frontier /\ frontier # 0
           /\ pendingAssign[p] = nextPanelIndex /\ Asks(<<p, probing[p]>>)
           /\ edges[p][probing[p]] = "Unexplored" /\ Prober(p) /\ <<p, probing[p]>> # Trunk
<1>1. probing[p] \in Edge /\ probing[p] # parent[p] /\ Prober(p)
  BY DEF Invariants, TypeOK, PanelsTypeOK, FloodInv, PanelInTree, WalkInv, PanelOK
<1>2. PICK x \in Port : x = <<p, probing[p]>> /\ x # Trunk /\ x[1] = p /\ x[2] = probing[p]
  BY <1>1, PortOf
<1>3. frontier # 0
  BY <1>1 DEF Prober
<1>4. peer[x] # Trunk
  <2> SUFFICES ASSUME peer[x] = Trunk PROVE FALSE
    OBVIOUS
  <2>1. peer[Trunk] = x
    BY WiredBack DEF Port, Invariants, TypeOK
  <2>2. PICK r \in Panels : peer[Trunk] = <<r, parent[r]>>
    BY <1>3, RootPanel
  <2> QED
    BY <1>1, <1>2, <2>1, <2>2
<1> QED
  BY <1>1, <1>2, <1>3, <1>4 DEF Prober, Asks

\* A probe that is sent again finds the offer or its answer lost, or pays a fault.
LEMMA ResendWalk ==
    ASSUME Invariants, NEW p \in Panels, probing[p] # NoEdge, PanelResendProbe(p),
           UNCHANGED <<peer, coordVars>>
    PROVE  WalkInv'
<1>1. PICK e \in Edge : e = probing[p]
  BY ProbesDown
<1>2. PICK x \in Port : x = <<p, e>> /\ x # Trunk /\ x[1] = p /\ x[2] = e /\ e # NoEdge
  BY PortOf
<1>3. PICK g \in Frame : g = PullFrame(pendingAssign[p], e)
  <2>1. pendingAssign[p] \in Nat /\ e \in 0 .. NoEdge
    BY NotAnEdge DEF Invariants, TypeOK, PanelsTypeOK
  <2> QED
    BY <2>1, PullTyped
<1>4. /\ UNCHANGED staticVars /\ waited' = waited
      /\ attempts' = [attempts EXCEPT ![p] = @ + 1]
      /\ chan' = Put(chan, p, {e}, g)
      /\ UnlessFault(~AnswerOnTheWay(p, e), "CROSSED_PROBE")
  BY <1>1, <1>3 DEF PanelResendProbe, staticVars, coordVars
<1>5. chan \in Channels /\ faults \in Nat /\ waited \in Nat /\ attempts \in [Panels -> Nat]
  BY LimitsAssumption DEF Invariants, TypeOK, WiresTypeOK, Channels, ControllerTypeOK, PanelsTypeOK
<1>6. /\ \A y \in Port : \A h \in Carried(chan', y) : h \in Carried(chan, y) \/ (h = g /\ peer[x] = y)
      /\ \A y \in Port : peer[x] = y => g \in Carried(chan', y)
  <2>1. ASSUME NEW y \in Port
        PROVE  /\ \A h \in Carried(Put(chan, p, {e}, g), y) : h \in Carried(chan, y) \/ (h = g /\ peer[<<p, e>>] = y)
               /\ peer[<<p, e>>] = y => g \in Carried(Put(chan, p, {e}, g), y)
    BY <1>5, Sent
  <2> QED
    BY <1>2, <1>4, <2>1
<1>7. g.type = "PULL" /\ g.index = nextPanelIndex /\ g.parentEdge = e /\ ~IsToken(g)
  BY <1>3, ProbesDown DEF PullFrame, IsToken
<1>8. ASSUME NEW y \in Port, peer[x] = y PROVE Fits(y, g) /\ Moves(y, g)
  <2>1. peer[y] = x
    BY <1>8, WiredBack DEF Invariants, TypeOK
  <2>2. y # Trunk
    BY <1>1, <1>2, <1>8, ProbesDown
  <2>3. Asks(peer[y])
    BY <1>1, <1>2, <2>1 DEF Asks
  <2>4. Fits(y, g)
    BY <1>2, <1>7, <2>1, <2>2, <2>3 DEF Fits
  <2> QED
    BY <1>7, <2>4 DEF Moves
<1>9. Static' /\ AllFit(chan)' /\ AllMove(chan)'
  BY <1>4, <1>6, <1>8, QuietFrames
<1>10. Sole(chan)'
  <2>1. Sole(Put(chan, p, {e}, g))
    BY <1>5, <1>7, SentSole DEF Invariants, WalkInv
  <2>2. PICK c : c = Put(chan, p, {e}, g)
    OBVIOUS
  <2>3. chan' = c /\ Sole(c)
    BY <1>4, <2>1, <2>2
  <2> QED
    BY <2>3 DEF Sole
<1>11. faults' \in Nat /\ faults' >= faults
  BY <1>4, <1>5 DEF UnlessFault, Suffer
<1>12. Paid'
  <2>1. ~Idle' /\ frontier' # 0
    BY <1>4, ProbesDown DEF Idle, staticVars
  <2>2. waited <= faults
    BY ProbesDown DEF Invariants, WalkInv, Paid
  <2> QED
    BY <1>4, <1>5, <1>11, <2>1, <2>2 DEF Paid
<1>13. ASSUME NEW q \in Panels PROVE ProbePaid(q)'
  <2> SUFFICES ASSUME probing[q] # NoEdge, peer[<<q, probing[q]>>] # NoPort
               PROVE  ProbePaid(q)'
    BY <1>4 DEF ProbePaid, staticVars
  <2>1. q = p
    BY ProbesDown, SamePanel DEF Invariants
  <2>2. attempts[p] <= faults /\ (Quiet(x) => attempts[p] + 1 <= faults)
    BY <1>1, <1>2, <2>1 DEF Invariants, WalkInv, ProbePaid
  <2>3. attempts'[p] = attempts[p] + 1
    BY <1>4, <1>5
  <2>4. attempts'[p] <= faults'
    <3>1. CASE ~AnswerOnTheWay(p, e) /\ UNCHANGED faults
      <4>1. Quiet(x)
        BY <1>1, <1>2, <2>1, <3>1 DEF AnswerOnTheWay, Quiet
      <4> QED
        BY <2>2, <2>3, <3>1, <4>1
    <3>2. CASE faults' = faults + 1
      BY <1>5, <2>2, <2>3, <3>2
    <3> QED
      BY <1>4, <3>1, <3>2 DEF UnlessFault, Suffer
  <2>5. PICK y \in Port : peer[x] = y
    BY <1>1, <1>2, <2>1, Wire DEF Invariants, TypeOK
  <2>6. chan'[y] # <<>>
    BY <1>6, <2>5, CarriedSome
  <2>7. peer' = peer /\ probing' = probing
    BY <1>4 DEF staticVars
  <2>8. ~Quiet(<<q, probing[q]>>)'
    BY <1>1, <1>2, <2>1, <2>5, <2>6, <2>7 DEF Quiet
  <2> QED
    BY <2>1, <2>4, <2>7, <2>8 DEF ProbePaid
<1>14. Reported'
  BY <1>4 DEF Reported, staticVars
<1> QED
  BY <1>9, <1>10, <1>12, <1>13, <1>14 DEF WalkInv, Static

\* An edge is given up only if nothing is plugged in there.
LEMMA GiveUpEmpty ==
    ASSUME Recoverable, Invariants, NEW p \in Panels, probing[p] # NoEdge, PanelGiveUpEdge(p)
    PROVE  /\ peer[<<p, probing[p]>>] = NoPort /\ UNCHANGED faults
           /\ EdgeFailed(p, probing[p], attempts[p] + 1, chan)
<1>1. /\ ~AnswerOnTheWay(p, probing[p]) /\ UNCHANGED faults /\ attempts[p] + 1 >= ProbeAttempts
      /\ EdgeFailed(p, probing[p], attempts[p] + 1, chan)
  BY DEF Recoverable, PanelGiveUpEdge, UnlessFault, Suffer
<1>2. peer[<<p, probing[p]>>] = NoPort
  <2> SUFFICES ASSUME peer[<<p, probing[p]>>] # NoPort PROVE FALSE
    OBVIOUS
  <2>1. Quiet(<<p, probing[p]>>)
    BY <1>1 DEF AnswerOnTheWay, Quiet
  <2>2. attempts[p] + 1 <= faults
    BY <2>1 DEF Invariants, WalkInv, ProbePaid
  <2>3. faults \in Nat /\ faults <= MaxFaults /\ MaxFaults < ProbeAttempts /\ attempts[p] \in Nat
    BY LimitsAssumption DEF Recoverable, Invariants, TypeOK, WiresTypeOK, PanelsTypeOK
  <2> QED
    BY <1>1, <2>2, <2>3, LimitsAssumption
<1> QED
  BY <1>1, <1>2

-----------------------------------------------------------------------------
(* What survives a step that keeps what is settled.                         *)

\* The index behind a connected edge is for ever too.
KeepsKids == \A p \in Panels, e \in Edge : edges[p][e] = "Connected" => childIndexes'[p][e] = childIndexes[p][e]

\* What is recorded stays so.
KeepsRecords == \A p \in Panels : Recorded(p) => Recorded(p)'

\* A recorded link holds as long as the edges and indices at its ends do.
LEMMA StaysLinked ==
    ASSUME Invariants, Keeps, KeepsKids, NEW l, LinkHolds(l), l.parent # 0, l.child # 0
    PROVE  LinkHolds(l)'
<1>1. PICK p, q \in Panels :
        /\ assigned[p] = l.parent /\ assigned[q] = l.child
        /\ l.parentEdge \in Edge /\ l.parentEdge # parent[p] /\ edges[p][l.parentEdge] = "Connected"
        /\ childIndexes[p][l.parentEdge] = l.child
        /\ l.childEdge = parent[q] /\ peer[<<p, l.parentEdge>>] = <<q, l.childEdge>>
  BY DEF LinkHolds
<1>2. parent[p] # NoEdge /\ parent[q] # NoEdge
  BY <1>1, Rooted DEF Invariants
<1>3. /\ peer' = peer /\ assigned'[p] = assigned[p] /\ assigned'[q] = assigned[q]
      /\ parent'[p] = parent[p] /\ parent'[q] = parent[q]
      /\ edges'[p][l.parentEdge] = "Connected" /\ childIndexes'[p][l.parentEdge] = l.child
  BY <1>1, <1>2 DEF Keeps, KeepsKids
<1> QED
  BY <1>1, <1>3 DEF LinkHolds

\* Links are numbered by the child they lead to.
LEMMA LinkTyped ==
    ASSUME Invariants, NEW k \in 1 .. Len(links)
    PROVE  /\ links[k] \in Link /\ links[k].parent \in Nat /\ links[k].parent # 0
           /\ links[k].child \in Nat /\ links[k].child # 0 /\ links[k].child = k + 1 /\ LinkHolds(links[k])
           /\ links[k].parent < links[k].child
<1>1. links \in Seq(Link) /\ Len(links) \in Nat
  BY DEF Invariants, TypeOK, ControllerTypeOK
<1>2. links[k] \in Link
  BY <1>1, ElementOfSeq
<1>3. /\ links[k].child = k + 1 /\ links[k].parent \in 1 .. k /\ LinkHolds(links[k])
  BY DEF Invariants, TreeInv, RecordedTreeIsPreorder, WalkInv, LinksOK
<1>4. k \in Nat
  BY <1>1
<1> QED
  BY <1>2, <1>3, <1>4, LimitsAssumption DEF Link

\* While nothing is recorded all links hold.
LEMMA LinksStay ==
    ASSUME Invariants, Keeps, KeepsKids, UNCHANGED <<links, stack, frontier, nextPanelIndex>>
    PROVE  LinksOK'
<1>1. \A k \in 1 .. Len(links) : LinkHolds(links[k])'
  BY LinkTyped, StaysLinked
<1>2. \A i : OnPath(i)' = OnPath(i)
  BY DEF OnPath
<1> QED
  BY <1>1, <1>2 DEF LinksOK, Invariants, WalkInv

\* A panel keeps its children as long as no edge of it is connected anew.
LEMMA KidsStay ==
    ASSUME Invariants, Keeps, KeepsKids, NEW p \in Panels, assigned[p] # 0,
           \A e \in Edge : edges[p][e] = "Unexplored" => edges'[p][e] # "Connected"
    PROVE  Kids(p)'
<1>1. Kids(p) /\ parent[p] # NoEdge /\ parent[p] \in Edge /\ assigned'[p] = assigned[p] /\ parent'[p] = parent[p]
  BY Rooted DEF Invariants, WalkInv, PanelOK, Keeps
<1>2. edges'[p][parent[p]] = "Connected"
  BY <1>1 DEF Kids, Keeps
<1>3. ASSUME NEW e \in Edge, e # parent[p], edges'[p][e] = "Connected"
      PROVE  \E q \in Panels :
                /\ peer'[<<p, e>>] = <<q, parent'[q]>>
                /\ childIndexes'[p][e] = assigned'[q] /\ assigned'[q] > assigned'[p]
  <2>1. edges[p][e] = "Connected"
    BY <1>3 DEF Keeps
  <2>2. PICK q \in Panels : /\ peer[<<p, e>>] = <<q, parent[q]>> /\ childIndexes[p][e] = assigned[q]
                            /\ assigned[q] > assigned[p] /\ assigned[q] # 0
    BY <1>3, <2>1, DownPort
  <2>3. parent[q] # NoEdge
    BY <2>2, Rooted DEF Invariants
  <2> QED
    BY <1>1, <2>1, <2>2, <2>3 DEF Keeps, KeepsKids
<1> QED
  BY <1>1, <1>2, <1>3 DEF Kids

\* A panel keeps its parent, which stays about to connect it or has done so.
LEMMA AboveStay ==
    ASSUME Invariants, Keeps, NEW q \in Panels, assigned[q] # 0,
           \A p \in Panels, e \in Edge :
               /\ peer[<<q, parent[q]>>] = <<p, e>> /\ probing[p] = e /\ assigned[q] = nextPanelIndex
               => edges'[p][e] = "Connected" \/ (probing'[p] = e /\ nextPanelIndex' = nextPanelIndex)
    PROVE  Above(q)'
<1>1. Above(q) /\ parent[q] # NoEdge /\ assigned'[q] = assigned[q] /\ parent'[q] = parent[q] /\ peer' = peer
  BY Rooted DEF Invariants, WalkInv, PanelOK, Keeps
<1>2. CASE assigned[q] = 1
  BY <1>1, <1>2 DEF Above
<1>3. CASE assigned[q] # 1
  <2>1. PICK p \in Panels, e \in Edge :
            /\ peer[<<q, parent[q]>>] = <<p, e>>
            /\ assigned[p] # 0 /\ assigned[p] < assigned[q] /\ e # parent[p]
            /\ edges[p][e] = "Connected" \/ (probing[p] = e /\ assigned[q] = nextPanelIndex)
    BY <1>1, <1>3 DEF Above
  <2>2. parent[p] # NoEdge
    BY <2>1, Rooted DEF Invariants
  <2>3. assigned'[p] = assigned[p] /\ parent'[p] = parent[p]
    BY <2>1, <2>2 DEF Keeps
  <2>4. edges'[p][e] = "Connected" \/ (probing'[p] = e /\ assigned'[q] = nextPanelIndex')
    <3>1. CASE edges[p][e] = "Connected"
      BY <3>1 DEF Keeps
    <3>2. CASE probing[p] = e /\ assigned[q] = nextPanelIndex
      BY <1>1, <2>1, <3>2
    <3> QED
      BY <2>1, <3>1, <3>2
  <2> QED
    BY <1>1, <1>3, <2>1, <2>3, <2>4 DEF Above
<1> QED
  BY <1>2, <1>3

\* A refused edge goes on leading nowhere or to a recorded panel.
LEMMA RefusedStay ==
    ASSUME Invariants, Keeps, KeepsRecords, NEW p \in Panels,
           \A e \in Edge : edges'[p][e] = "NotConnected" => edges[p][e] = "NotConnected"
    PROVE  Refused(p)'
<1>1. Refused(p) /\ peer' = peer
  BY DEF Invariants, WalkInv, PanelOK, Keeps
<1>2. ASSUME NEW e \in Edge, edges'[p][e] = "NotConnected", peer[<<p, e>>] # NoPort
      PROVE  peer[<<p, e>>] # Trunk /\ Recorded(peer[<<p, e>>][1])'
  <2>1. peer[<<p, e>>] # Trunk /\ Recorded(peer[<<p, e>>][1])
    BY <1>1, <1>2 DEF Refused
  <2>2. PICK y \in Port : y = peer[<<p, e>>]
    BY <1>2, Wire, PortOf DEF Invariants, TypeOK
  <2>3. PICK r \in Panels : r = y[1]
    BY <2>1, <2>2, PortForm
  <2>4. Recorded(r)'
    BY <2>1, <2>2, <2>3 DEF KeepsRecords
  <2> QED
    BY <1>1, <2>1, <2>2, <2>3, <2>4 DEF Recorded
<1> QED
  BY <1>1, <1>2 DEF Refused

\* A panel with no edge left has none later.
LEMMA FinishedStay ==
    ASSUME Keeps, NEW p \in Panels, parent[p] # NoEdge, Finished(p)
    PROVE  Finished(p)'
  BY DEF Keeps, Finished, OpenEdges

\* The edges below one stay settled.
LEMMA LowestStay ==
    ASSUME Keeps, NEW p \in Panels, parent[p] # NoEdge, NEW e \in Edge, Lowest(p, e)
    PROVE  Lowest(p, e)'
  BY DEF Keeps, Lowest

\* The path and the fully explored panels off it, when only panels take a step.
LEMMA PathStay ==
    ASSUME Invariants, Keeps, KeepsKids, UNCHANGED <<stack, frontier, nextPanelIndex>>,
           \A p \in Panels : assigned[p] = 0 => assigned'[p] = 0 \/ assigned'[p] = nextPanelIndex,
           \A p \in Panels : assigned[p] # 0 /\ assigned[p] # frontier =>
               \A e \in Edge : edges[p][e] = "Unexplored" => edges'[p][e] # "Connected"
    PROVE  PathOK'
<1>1. Descends' /\ Descends
  BY DEF Invariants, WalkInv, PathOK, Descends
<1>2. /\ frontier \in Nat /\ nextPanelIndex \in Nat /\ (frontier # 0 => frontier < nextPanelIndex)
      /\ \A k \in 1 .. Len(stack) : stack[k] \in Nat /\ stack[k] < frontier
  <2>1. stack \in Seq(0 .. MaxPanels)
    BY DEF Invariants, TypeOK, ControllerTypeOK
  <2>2. \A k \in 1 .. Len(stack) : stack[k] \in 0 .. MaxPanels
    BY <2>1, ElementOfSeq
  <2> QED
    BY <1>1, <2>2, LimitsAssumption DEF Invariants, TypeOK, ControllerTypeOK, WalkInv, Numbered, Descends
<1>3. ASSUME NEW p \in Panels PROVE LastChild(p)'
  <2> SUFFICES ASSUME NEW k \in 1 .. Len(stack), stack[k] = assigned'[p], assigned'[p] # 0
               PROVE  /\ \E e \in Edge : e # parent'[p] /\ edges'[p][e] = "Connected" /\ childIndexes'[p][e] = After(k)
                      /\ \A e \in Edge : e # parent'[p] /\ edges'[p][e] = "Connected" => childIndexes'[p][e] <= After(k)
    BY DEF LastChild, After
  <2>1. assigned[p] # 0
    <3> SUFFICES ASSUME assigned[p] = 0 PROVE FALSE
      OBVIOUS
    <3>1. assigned'[p] = nextPanelIndex
      OBVIOUS
    <3>2. stack[k] < frontier /\ frontier # 0 /\ stack[k] \in Nat
      BY <1>2
    <3> QED
      BY <1>2, <3>1, <3>2
  <2>2. assigned'[p] = assigned[p] /\ parent'[p] = parent[p]
    BY <2>1, Rooted DEF Keeps, Invariants
  <2>3. assigned[p] # frontier
    BY <1>2, <2>2
  <2>4. LastChild(p)
    BY DEF Invariants, WalkInv, PathOK
  <2>5. \A e \in Edge : edges'[p][e] = "Connected" <=> edges[p][e] = "Connected"
    BY <2>1, <2>3 DEF Keeps
  <2>6. \A e \in Edge : edges[p][e] = "Connected" => childIndexes'[p][e] = childIndexes[p][e]
    BY DEF KeepsKids
  <2> QED
    BY <2>1, <2>2, <2>4, <2>5, <2>6 DEF LastChild
<1>4. ASSUME NEW p \in Panels PROVE OffPath(p)'
  <2> SUFFICES ASSUME Recorded(p)', ~OnPath(assigned'[p]) PROVE Finished(p)'
    BY DEF OffPath, OnPath
  <2>1. assigned[p] # 0 /\ assigned'[p] = assigned[p]
    BY DEF Recorded, Keeps
  <2>2. Finished(p)
    BY <2>1 DEF Invariants, WalkInv, PathOK, OffPath, Recorded
  <2> QED
    BY <2>1, <2>2, FinishedStay, Rooted DEF Invariants
<1> QED
  BY <1>1, <1>3, <1>4 DEF PathOK

-----------------------------------------------------------------------------
(* The answer to the one offer that is out.                                 *)

\* The panel that waits to be recorded is the one at the far end of the offer.
LEMMA NoneWaits ==
    ASSUME Invariants, NEW x \in Port, Asks(x), NEW q \in Panels, assigned[q] = nextPanelIndex
    PROVE  peer[x] = <<q, parent[q]>>
<1>1. nextPanelIndex \in Nat /\ nextPanelIndex # 0
  BY DEF Invariants, TypeOK, ControllerTypeOK
<1>2. /\ peer[peer[<<q, parent[q]>>]] = <<q, parent[q]>> /\ PanelOK(q) /\ assigned[q] # 0
      /\ frontier = 0 => nextPanelIndex = 1
  BY <1>1, Rooted DEF Invariants, WalkInv, Numbered
<1>3. CASE x = Trunk
  BY <1>2, <1>3 DEF Asks, PanelOK, Above
<1>4. CASE x # Trunk
  <2>1. x[1] \in Panels /\ x = <<x[1], x[2]>> /\ probing[x[1]] = x[2] /\ probing[x[1]] # NoEdge
    BY <1>4, AskedFresh
  <2>2. assigned[x[1]] = frontier /\ frontier # 0
    BY <2>1, ProbesDown
  <2>3. PICK p \in Panels, e \in Edge :
        /\ peer[<<q, parent[q]>>] = <<p, e>> /\ assigned[p] = frontier
        /\ probing[p] # NoEdge => probing[p] = e
    BY <1>2, <2>2 DEF PanelOK, Waiting
  <2>5. PICK b \in Panels : b = x[1] /\ assigned[b] = assigned[p] /\ assigned[b] # 0
    BY <2>1, <2>2, <2>3
  <2>4. p = x[1]
    BY <2>5, SamePanel DEF Invariants
  <2> QED
    BY <1>2, <2>1, <2>3, <2>4
<1> QED
  BY <1>3, <1>4

\* An offer leads down from a node of the tree, while the walk is on.
LEMMA AskedBelow ==
    ASSUME Invariants, NEW x \in Port, Asks(x), peer[x] # NoPort
    PROVE  /\ Below(x) /\ ~complete
           /\ x # Trunk => frontier # 0 /\ assigned[x[1]] = frontier /\ Recorded(x[1])
<1>1. CASE x = Trunk
  BY <1>1 DEF Asks, Below, Invariants, WalkInv, Over
<1>2. CASE x # Trunk
  <2>1. x[1] \in Panels /\ x = <<x[1], x[2]>> /\ probing[x[1]] = x[2] /\ probing[x[1]] # NoEdge
        /\ Prober(x[1])
    BY <1>2, AskedFresh
  <2>2. assigned[x[1]] = frontier /\ frontier # 0 /\ x[2] # parent[x[1]]
    BY <2>1, ProbesDown
  <2>3. frontier < nextPanelIndex /\ frontier \in Nat /\ nextPanelIndex \in Nat
    BY <2>2, LimitsAssumption DEF Invariants, WalkInv, Numbered, TypeOK, ControllerTypeOK
  <2> QED
    BY <1>2, <2>1, <2>2, <2>3 DEF Below, Prober, Recorded
<1> QED
  BY <1>1, <1>2

\* The wires once the offer of port a has been answered by g.
AnswerGone(g, a) ==
    /\ \A y \in Port : \A h \in Carried(chan', y) : h \in Carried(chan, y) \/ (h = g /\ y = a)
    /\ Sole(chan)' /\ AllMove(chan)' /\ Paid' /\ (\A p \in Panels : ProbePaid(p)') /\ Reported'

\* What the answer to the offer of port a does not disturb.
LEMMA OfferAnswered ==
    ASSUME Invariants, NEW x \in Port, chan[x] # <<>>, NEW f, f = Head(chan[x]), f.type = "PULL",
           NEW n, NEW e, NEW g \in Frame, g.type = "REG", chan' = Put(Taken(chan, x), n, {e}, g),
           NEW a \in Port, Asks(a), peer[<<n, e>>] = a,
           UNCHANGED <<peer, waited, faults, attempts, frontier, complete, nextPanelIndex, probing>>
    PROVE  AnswerGone(g, a)
<1>1. PICK c : c = chan'
  OBVIOUS
<1>2. Swap(c, x, f, n, e, g)
  BY <1>1, Swapped
<1>3. ~IsToken(f) /\ ~IsToken(g)
  BY DEF IsToken
<1>4. /\ \A y \in Port : \A h \in Carried(chan', y) : h \in Carried(chan, y) \/ (h = g /\ y = a)
      /\ chan'[a] # <<>>
  BY <1>1, <1>2 DEF Swap
<1>5. Sole(chan)'
  <2>1. c = chan' /\ Sole(c)
    BY <1>1, <1>2, <1>3 DEF Swap
  <2> QED
    BY <2>1
<1>6. \A y \in Port : \A h \in Carried(chan', y) : ~IsToken(h)
  BY <1>3, <1>4, NoTokenAsked
<1>7. AllMove(chan)'
  BY <1>6 DEF AllMove, Moves, Carried
<1>8. frontier # 0 => \E p \in Panels : probing[p] # NoEdge
  <2> SUFFICES ASSUME frontier # 0 PROVE \E p \in Panels : probing[p] # NoEdge
    OBVIOUS
  <2>1. a # Trunk
    BY DEF Asks
  <2> QED
    BY <2>1, AskedFresh
<1>9. Paid'
  <2>1. Paid
    BY DEF Invariants, WalkInv
  <2>2. frontier = 0 => a = Trunk
    BY AskedFresh, AskedBelow, ProbesDown
  <2>3. frontier # 0 => ~Idle'
    BY <1>8 DEF Idle
  <2>4. frontier = 0 => ~Quiet(Trunk)'
    BY <1>4, <2>2 DEF Quiet
  <2> QED
    BY <2>1, <2>3, <2>4 DEF Paid
<1>10. ASSUME NEW p \in Panels PROVE ProbePaid(p)'
  <2>1. ProbePaid(p)
    BY DEF Invariants, WalkInv
  <2>2. ASSUME probing[p] # NoEdge PROVE ~Quiet(<<p, probing[p]>>)'
    <3>1. PICK z \in Port : z = <<p, probing[p]>> /\ Asks(z)
      BY <2>2, ProbesDown
    <3>2. z = a
      BY <3>1, OneAsker DEF Invariants
    <3> QED
      BY <1>4, <3>1, <3>2 DEF Quiet
  <2> QED
    BY <2>1, <2>2 DEF ProbePaid
<1>11. Reported'
  BY <1>8 DEF Reported
<1> QED
  BY <1>4, <1>5, <1>7, <1>9, <1>10, <1>11 DEF AnswerGone

\* An offer taken at an unsettled edge is the one that is out.
LEMMA OfferReached ==
    ASSUME Invariants, NEW p \in Panels, NEW e \in Edge, chan[<<p, e>>] # <<>>,
           NEW f, f = Head(chan[<<p, e>>]), f.type = "PULL", e # parent[p], edges[p][e] # "NotConnected"
    PROVE  \E a \in Port :
              /\ a = peer[<<p, e>>] /\ peer[a] = <<p, e>> /\ a # <<p, e>> /\ Asks(a) /\ Below(a) /\ ~complete
              /\ f.index = nextPanelIndex /\ f.parentEdge = a[2] /\ edges[p][e] = "Unexplored"
              /\ f.index # 0 /\ f.index \in Nat /\ f.parentEdge \in 0 .. NoEdge
<1>1. PICK x \in Port : x = <<p, e>> /\ x # Trunk /\ x[1] = p /\ x[2] = e /\ e # NoEdge
  BY PortOf
<1>2. f \in Frame /\ Fits(x, f) /\ Proper(x, f)
  BY <1>1, TheHead
<1>3. PICK a \in Port : a = peer[x] /\ peer[a] = x /\ a # x /\ a # NoPort
  BY <1>1, <1>2, Wire, PanelsAssumption DEF Proper, Invariants, TypeOK
<1>4. Asks(a) /\ f.index = nextPanelIndex /\ f.parentEdge = a[2]
  BY <1>1, <1>2, <1>3 DEF Fits, Answered
<1>5. peer[a] # NoPort
  BY <1>1, <1>3, PanelsAssumption
<1>6. Below(a) /\ ~complete
  BY <1>4, <1>5, AskedBelow
<1>7. edges[p][e] # "Connected"
  <2> SUFFICES ASSUME edges[p][e] = "Connected" PROVE FALSE
    OBVIOUS
  <2>1. assigned[p] # 0
    BY DEF Invariants, FloodInv, PanelInTree, ConnectedEdges
  <2>2. PICK q \in Panels : /\ peer[<<p, e>>] = <<q, parent[q]>> /\ assigned[q] # 0
                            /\ <<q, parent[q]>> # Trunk /\ parent[q] \in Edge
    BY <2>1, DownPort
  <2>3. a # Trunk /\ a[1] = q /\ a[2] = parent[q]
    BY <1>1, <1>3, <2>2
  <2>4. probing[q] = parent[q] /\ probing[q] # NoEdge
    BY <1>4, <2>3, AskedFresh
  <2> QED
    BY <2>4, ProbesDown
<1>8. f.index # 0 /\ f.index \in Nat /\ f.parentEdge \in 0 .. NoEdge
  BY <1>2, <1>4 DEF Frame, Invariants, TypeOK, ControllerTypeOK
<1>9. edges[p][e] \in EdgeState
  BY DEF Invariants, TypeOK, PanelsTypeOK
<1> QED
  BY <1>1, <1>3, <1>4, <1>6, <1>7, <1>8, <1>9 DEF EdgeState

\* Settling the far end of the offer leaves one edge settled at that end alone.
LEMMA HalfStay ==
    ASSUME Invariants, Keeps, NEW a \in Port, Asks(a), peer[a] # NoPort,
           \A z \in Port : Fresh(z) /\ z # peer[a] => Fresh(z)',
           UNCHANGED <<probing, frontier>>, NEW r \in Panels
    PROVE  Half(r)'
<1>1. peer' = peer
  BY DEF Keeps
<1>2. ASSUME NEW e \in Edge, edges'[r][e] = "Unexplored", peer[<<r, e>>] # NoPort, ~Fresh(peer[<<r, e>>])'
      PROVE  probing[r] = e
  <2>1. edges[r][e] = "Unexplored"
    BY <1>2 DEF Keeps
  <2>2. PICK z \in Port : z = peer[<<r, e>>] /\ peer[z] = <<r, e>>
    BY <1>2, Wire, PortOf DEF Invariants, TypeOK
  <2>3. CASE ~Fresh(z)
    BY <1>2, <2>1, <2>2, <2>3 DEF Invariants, WalkInv, PanelOK, Half
  <2>4. CASE Fresh(z)
    <3>1. Fresh(z)' => Fresh(peer[<<r, e>>])'
      BY <1>1, <2>2 DEF Fresh
    <3>2. z = peer[a]
      BY <1>2, <2>4, <3>1
    <3>3. a = <<r, e>>
      BY <2>2, <3>2, Wire DEF Invariants, TypeOK
    <3> QED
      BY <3>3, AskedFresh, PortOf
  <2> QED
    BY <2>3, <2>4
<1> QED
  BY <1>1, <1>2 DEF Half

\* A panel that takes its first offer waits to be recorded.
LEMMA AcceptFirstWalk ==
    ASSUME Invariants, TypeOK', NEW p \in Panels, NEW e \in Edge, chan[<<p, e>>] # <<>>,
           NEW f, f = Head(chan[<<p, e>>]), PanelAcceptOffer(p, e, f), assigned[p] = 0,
           UNCHANGED <<peer, faults, coordVars>>
    PROVE  WalkInv'
<1>1. PICK x \in Port : x = <<p, e>> /\ x # Trunk /\ x[1] = p /\ x[2] = e /\ e # NoEdge
  BY PortOf
<1>2. parent[p] = NoEdge /\ probing[p] = NoEdge /\ f.type = "PULL"
  BY Unrooted DEF Invariants, PanelAcceptOffer
<1>3. ~Recorded(p) /\ Blank(p) /\ \A d \in Edge : edges[p][d] = "Unexplored"
  BY <1>2, NotAnEdge DEF Recorded, Invariants, WalkInv, PanelOK, Blank
<1>4. PICK a \in Port :
              /\ a = peer[<<p, e>>] /\ peer[a] = <<p, e>> /\ a # <<p, e>> /\ Asks(a) /\ Below(a) /\ ~complete
              /\ f.index = nextPanelIndex /\ f.parentEdge = a[2] /\ edges[p][e] = "Unexplored"
              /\ f.index # 0 /\ f.index \in Nat /\ f.parentEdge \in 0 .. NoEdge
  <2>1. e # parent[p] /\ edges[p][e] # "NotConnected"
    BY <1>1, <1>2, <1>3
  <2> QED
    BY <1>2, <2>1, OfferReached
<1>5. PICK g \in Frame : g = RegFrame(nextPanelIndex, e, f.parentEdge)
  BY <1>4, NotAnEdge, RegTyped
<1>6. g.type = "REG" /\ g.target = 0 /\ g.index = nextPanelIndex /\ g.edge = e /\ g.parentEdge = a[2]
  BY <1>4, <1>5 DEF RegFrame
<1>7. /\ assigned' = [assigned EXCEPT ![p] = nextPanelIndex]
      /\ parent' = [parent EXCEPT ![p] = e]
      /\ edges' = [edges EXCEPT ![p][e] = "Connected"]
      /\ UNCHANGED <<peer, faults, coordVars, childIndexes, pendingAssign, probing, attempts>>
  BY <1>2, <1>4 DEF PanelAcceptOffer
<1>8. /\ assigned \in [Panels -> Nat] /\ parent \in [Panels -> Edge \cup {NoEdge}]
      /\ edges \in [Panels -> [Edge -> EdgeState]]
  BY DEF Invariants, TypeOK, PanelsTypeOK
<1>9. /\ assigned'[p] = nextPanelIndex /\ parent'[p] = e /\ edges'[p][e] = "Connected"
      /\ \A d \in Edge : d # e => edges'[p][d] = edges[p][d]
      /\ \A q \in Panels : q # p => assigned'[q] = assigned[q] /\ parent'[q] = parent[q] /\ edges'[q] = edges[q]
  BY <1>7, <1>8
<1>10. /\ UNCHANGED <<peer, nextPanelIndex, frontier, complete, stack, links, childIndexes, pendingAssign, probing>>
       /\ UNCHANGED <<waited, faults, attempts>>
  BY <1>7 DEF coordVars
<1>11. chan' = Put(Taken(chan, x), p, {e}, g)
  <2>1. Dispatched(p, e, f) = Taken(chan, x)
    BY <1>1, <1>2 DEF Dispatched, Relays
  <2> QED
    BY <1>4, <1>5, <1>9, <2>1 DEF PanelAcceptOffer
<1>12. Keeps /\ KeepsKids
  <2>1. \A q \in Panels :
        /\ assigned[q] # 0 => assigned'[q] = assigned[q]
        /\ parent[q] # NoEdge => parent'[q] = parent[q]
        /\ \A d \in Edge : edges[q][d] # "Unexplored" => edges'[q][d] = edges[q][d]
    BY <1>2, <1>3, <1>9
  <2> QED
    BY <1>10, <2>1 DEF Keeps, KeepsKids
<1>13. Settles
  BY <1>10 DEF Settles, Asks
<1>14. \A q \in Panels : assigned[q] # nextPanelIndex
  BY <1>1, <1>2, <1>4, NoneWaits, Rooted DEF Invariants
<1>15. nextPanelIndex \in Nat /\ nextPanelIndex # 0 /\ frontier \in Nat
       /\ (frontier # 0 => frontier < nextPanelIndex) /\ (frontier = 0 => nextPanelIndex = 1)
  BY LimitsAssumption, SMTT(30) DEF Invariants, TypeOK, ControllerTypeOK, WalkInv, Numbered
<1>16. /\ a = Trunk => frontier = 0
       /\ a # Trunk => \E b \in Panels, h \in Edge :
            /\ a = <<b, h>> /\ assigned[b] = frontier /\ frontier # 0 /\ b # p /\ h # parent[b]
            /\ probing[b] = h /\ Lowest(b, h)
  <2>1. CASE a = Trunk
    BY <1>4, <2>1, AskedFresh
  <2>2. CASE a # Trunk
    <3>1. /\ a[1] \in Panels /\ a[2] \in Edge /\ a = <<a[1], a[2]>> /\ probing[a[1]] = a[2]
          /\ probing[a[1]] # NoEdge /\ Prober(a[1])
      BY <1>4, <2>2, AskedFresh
    <3>2. PICK b \in Panels, h \in Edge : b = a[1] /\ h = a[2]
      BY <3>1
    <3>3. assigned[b] = frontier /\ frontier # 0 /\ h # parent[b] /\ probing[b] = h /\ Lowest(b, h)
      BY <3>1, <3>2, ProbesDown DEF Prober
    <3>4. b # p
      BY <3>3
    <3> QED
      BY <2>2, <3>1, <3>2, <3>3, <3>4
  <2> QED
    BY <2>1, <2>2
<1>17. Numbered'
  <2>1. IndicesDistinct'
    <3> SUFFICES ASSUME NEW q \in Panels, NEW r \in Panels, q # r, assigned'[q] # 0
                 PROVE  assigned'[q] # assigned'[r]
      BY DEF IndicesDistinct
    <3>1. CASE q # p /\ r # p
      BY <1>9, <3>1 DEF Invariants, WalkInv, Numbered, IndicesDistinct
    <3>2. CASE q = p \/ r = p
      BY <1>9, <1>14, <3>2
    <3> QED
      BY <3>1, <3>2
  <2>2. \A q \in Panels : assigned'[q] <= nextPanelIndex
    BY <1>9, <1>15 DEF Invariants, WalkInv, Numbered
  <2>3. \A i \in 1 .. nextPanelIndex - 1 : \E q \in Panels : assigned'[q] = i
    <3> SUFFICES ASSUME NEW i \in 1 .. nextPanelIndex - 1 PROVE \E q \in Panels : assigned'[q] = i
      OBVIOUS
    <3>1. PICK q \in Panels : assigned[q] = i
      BY DEF Invariants, WalkInv, Numbered
    <3>2. q # p
      BY <3>1
    <3> QED
      BY <1>9, <3>1, <3>2
  <2> QED
    BY <1>10, <1>15, <2>1, <2>2, <2>3 DEF Numbered
<1>18. \A q \in Panels : Recorded(q) <=> Recorded(q)'
  BY <1>9, <1>10 DEF Recorded
<1>19. \A z \in Port : Fresh(z) /\ z # peer[a] => Fresh(z)'
  <2> SUFFICES ASSUME NEW z \in Port, Fresh(z), z # x PROVE Fresh(z)'
    BY <1>1, <1>4
  <2>1. CASE z = Trunk
    BY <1>10, <2>1 DEF Fresh
  <2>2. CASE z # Trunk
    <3>1. z[1] \in Panels /\ z[2] \in Edge /\ z = <<z[1], z[2]>>
      BY <2>2, PortForm
    <3>2. z[1] # p \/ z[2] # e
      BY <1>1, <3>1
    <3> QED
      BY <1>9, <2>2, <3>1, <3>2 DEF Fresh
  <2> QED
    BY <2>1, <2>2
<1>20. ASSUME NEW q \in Panels PROVE PanelOK(q)'
  <2>0. PanelOK(q)
    BY DEF Invariants, WalkInv
  <2>1. Blank(q)'
    BY <1>3, <1>9, <1>10, <1>18, <2>0 DEF PanelOK, Blank
  <2>2. Kids(q)'
    <3>1. CASE q = p
      <4>1. \A d \in Edge : d # e => edges'[p][d] = "Unexplored"
        BY <1>3, <1>9
      <4> QED
        BY <1>9, <3>1, <4>1 DEF Kids
    <3>2. CASE q # p /\ assigned[q] # 0
      BY <1>9, <1>12, <3>2, KidsStay
    <3>3. CASE q # p /\ assigned[q] = 0
      <4>1. parent[q] = NoEdge
        BY <3>3, Unrooted DEF Invariants
      <4>2. \A d \in Edge : edges[q][d] = "Unexplored"
        BY <2>0, <3>3, <4>1, NotAnEdge DEF PanelOK, Blank, Recorded
      <4> QED
        BY <1>9, <3>3, <4>1, <4>2 DEF Kids
    <3> QED
      BY <3>1, <3>2, <3>3
  <2>3. Above(q)'
    <3>1. CASE q = p
      <4>1. CASE a = Trunk
        BY <1>1, <1>4, <1>9, <1>10, <1>15, <1>16, <3>1, <4>1 DEF Above
      <4>2. CASE a # Trunk
        <5>1. PICK b \in Panels, h \in Edge :
                /\ a = <<b, h>> /\ assigned[b] = frontier /\ frontier # 0 /\ b # p /\ h # parent[b]
                /\ probing[b] = h /\ Lowest(b, h)
          BY <1>16, <4>2
        <5>2. /\ peer'[<<q, parent'[q]>>] = <<b, h>> /\ assigned'[b] = frontier /\ parent'[b] = parent[b]
              /\ probing'[b] = h /\ assigned'[q] = nextPanelIndex'
          BY <1>4, <1>9, <1>10, <3>1, <5>1
        <5>3. frontier < nextPanelIndex /\ nextPanelIndex # 1
          BY <1>15, <5>1
        <5> QED
          BY <1>10, <5>1, <5>2, <5>3 DEF Above
      <4> QED
        BY <4>1, <4>2
    <3>2. CASE q # p /\ assigned[q] # 0
      BY <1>10, <1>12, <3>2, AboveStay
    <3>3. CASE q # p /\ assigned[q] = 0
      BY <1>9, <3>3 DEF Above
    <3> QED
      BY <3>1, <3>2, <3>3
  <2>4. Refused(q)'
    <3>1. \A d \in Edge : edges'[q][d] = "NotConnected" => edges[q][d] = "NotConnected"
      BY <1>9
    <3> QED
      BY <1>12, <1>18, <3>1, RefusedStay DEF KeepsRecords
  <2>5. Half(q)'
    <3>1. peer[a] # NoPort
      BY <1>1, <1>4, PanelsAssumption
    <3> QED
      BY <1>4, <1>10, <1>12, <1>19, <3>1, HalfStay
  <2>6. Prober(q)'
    <3>1. q = p => probing'[q] = NoEdge
      BY <1>2, <1>10
    <3> QED
      BY <1>9, <1>10, <2>0, <3>1 DEF PanelOK, Prober, Lowest
  <2>7. Waiting(q)'
    <3> SUFFICES ASSUME q = p, frontier # 0
                 PROVE  \E b \in Panels, h \in Edge :
                    /\ peer'[<<q, parent'[q]>>] = <<b, h>> /\ assigned'[b] = frontier
                    /\ h # parent'[b] /\ Lowest(b, h)'
                    /\ probing'[b] = NoEdge => edges'[b][h] = "Connected"
                    /\ probing'[b] # NoEdge => probing'[b] = h
      BY <1>4, <1>9, <1>10, <1>14 DEF Waiting
    <3>1. PICK b \in Panels, h \in Edge :
                /\ a = <<b, h>> /\ assigned[b] = frontier /\ frontier # 0 /\ b # p /\ h # parent[b]
                /\ probing[b] = h /\ Lowest(b, h)
      BY <1>16
    <3>2. Lowest(b, h)'
      BY <1>9, <3>1 DEF Lowest
    <3>3. /\ peer'[<<q, parent'[q]>>] = <<b, h>> /\ assigned'[b] = frontier /\ parent'[b] = parent[b]
          /\ probing'[b] = h /\ h # NoEdge
      BY <1>4, <1>9, <1>10, <3>1, NotAnEdge
    <3> QED
      BY <3>1, <3>2, <3>3
  <2> QED
    BY <2>1, <2>2, <2>3, <2>4, <2>5, <2>6, <2>7 DEF PanelOK
<1>21. PathOK'
  <2>1. \A q \in Panels : assigned[q] = 0 => assigned'[q] = 0 \/ assigned'[q] = nextPanelIndex
    BY <1>9
  <2>2. \A q \in Panels : assigned[q] # 0 /\ assigned[q] # frontier =>
               \A d \in Edge : edges[q][d] = "Unexplored" => edges'[q][d] # "Connected"
    BY <1>9
  <2> QED
    BY <1>10, <1>12, <2>1, <2>2, PathStay
<1>22. LinksOK'
  BY <1>10, <1>12, LinksStay
<1>23. Over'
  BY <1>4, <1>10 DEF Over
<1>24. /\ \A y \in Port : \A h \in Carried(chan', y) : h \in Carried(chan, y) \/ (h = g /\ y = a)
       /\ Sole(chan)' /\ AllMove(chan)' /\ Paid' /\ (\A q \in Panels : ProbePaid(q)') /\ Reported'
  <2>1. UNCHANGED <<peer, waited, faults, attempts, frontier, complete, nextPanelIndex, probing>>
    BY <1>10
  <2>2. chan[x] # <<>> /\ f = Head(chan[x]) /\ g.type = "REG" /\ peer[<<p, e>>] = a /\ Asks(a)
    BY <1>1, <1>4, <1>6
  <2>3. AnswerGone(g, a)
    BY <1>2, <1>11, <2>1, <2>2, OfferAnswered
  <2> QED
    BY <2>3 DEF AnswerGone
<1>25. Fits(a, g)'
  <2>1. Below(a)' /\ Asks(a)'
    BY <1>4, <1>10, <1>12, StaysBelow DEF Invariants, Asks
  <2>2. peer'[a] = x /\ peer' = peer /\ x # NoPort /\ ~Fresh(x)'
    BY <1>1, <1>4, <1>9, <1>10, PanelsAssumption DEF Fresh
  <2>3. ~Fresh(peer[a])'
    BY <2>2 DEF Fresh
  <2>4. Truthful(a, g)'
    BY <1>4, <1>6, <1>9, <1>10 DEF Truthful
  <2>5. AnswerOf(a, g)'
    <3>1. peer'[a][1] = p /\ peer'[a][2] = e /\ peer'[a] # NoPort /\ peer'[a] # Trunk /\ g.index # 0
      BY <1>1, <1>6, <1>15, <2>2
    <3> QED
      BY <1>6, <1>9, <3>1 DEF AnswerOf
  <2> QED
    BY <1>6, <2>1, <2>2, <2>3, <2>4, <2>5 DEF Fits
<1>26. AllFit(chan)'
  <2>1. \A y \in Port : \A h \in Carried(chan', y) : h \in Carried(chan, y) \/ Fits(y, h)'
    BY <1>24, <1>25
  <2> QED
    BY <1>12, <1>13, <2>1, AllStayFit DEF Invariants, WalkInv
<1> QED
  BY <1>17, <1>20, <1>21, <1>22, <1>23, <1>24, <1>26 DEF WalkInv

\* A refused offer that comes again is refused again.
LEMMA RejectRepeatWalk ==
    ASSUME Invariants, NEW p \in Panels, NEW e \in Edge, chan[<<p, e>>] # <<>>,
           NEW f, f = Head(chan[<<p, e>>]), PanelRejectOffer(p, e, f), edges[p][e] = "NotConnected",
           UNCHANGED <<peer, faults, coordVars>>
    PROVE  WalkInv'
<1>1. PICK x \in Port : x = <<p, e>> /\ x # Trunk /\ x[1] = p /\ x[2] = e /\ e # NoEdge
  BY PortOf
<1>2. f.type = "PULL" /\ parent[p] # e /\ parent[p] # NoEdge
  BY DEF PanelRejectOffer, Accepts
<1>3. f \in Frame /\ Fits(x, f) /\ Proper(x, f)
  BY <1>1, TheHead
<1>4. PICK u \in Port : u = peer[x] /\ peer[u] = x /\ u # x /\ u # NoPort /\ u = peer[<<p, e>>]
  BY <1>1, <1>2, <1>3, Wire, PanelsAssumption DEF Proper, Invariants, TypeOK
<1>5. PICK g \in Frame : g = RegFrame(0, e, f.parentEdge)
  <2>1. e \in 0 .. NoEdge /\ f.parentEdge \in 0 .. NoEdge /\ 0 \in Nat
    BY <1>3, NotAnEdge DEF Frame
  <2> QED
    BY <2>1, RegTyped
<1>6. g.type = "REG" /\ g.target = 0 /\ g.index = 0
  BY <1>5 DEF RegFrame
<1>7. /\ UNCHANGED staticVars /\ UNCHANGED <<waited, faults, attempts>>
      /\ chan' = Put(Taken(chan, x), p, {e}, g)
  <2>1. edges' = edges
    <3>1. edges \in [Panels -> [Edge -> EdgeState]] /\ edges' = [edges EXCEPT ![p][e] = "NotConnected"]
      BY DEF PanelRejectOffer, Invariants, TypeOK, PanelsTypeOK
    <3> QED
      BY <3>1
  <2>2. Dispatched(p, e, f) = Taken(chan, x)
    BY <1>1, <1>2 DEF Dispatched, Relays
  <2>3. chan' = Put(Taken(chan, x), p, {e}, g)
    BY <1>5, <2>2 DEF PanelRejectOffer, RejectedIndex
  <2> QED
    BY <2>1, <2>3 DEF PanelRejectOffer, coordVars, staticVars
<1>8. u # Trunk /\ Recorded(u[1]) /\ u[1] \in Panels /\ u[2] \in Edge /\ u = <<u[1], u[2]>>
  <2>1. Refused(p) /\ peer[<<p, e>>] # NoPort
    BY <1>4 DEF Invariants, WalkInv, PanelOK
  <2>2. u # Trunk /\ Recorded(u[1])
    BY <1>4, <2>1 DEF Refused
  <2> QED
    BY <2>2, PortForm
<1>9. PICK b \in Panels, h \in Edge : u = <<b, h>> /\ Recorded(b) /\ assigned[b] # 0 /\ u[1] = b /\ u[2] = h
  BY <1>8 DEF Recorded
<1>10. h # parent[b]
  <2> SUFFICES ASSUME h = parent[b] PROVE FALSE
    OBVIOUS
  <2>1. peer[<<b, parent[b]>>] = <<p, e>> /\ Above(b)
    BY <1>1, <1>4, <1>9 DEF Invariants, WalkInv, PanelOK
  <2>2. CASE assigned[b] = 1
    BY <1>1, <2>1, <2>2 DEF Above
  <2>3. CASE assigned[b] # 1
    <3>1. PICK q \in Panels, d \in Edge :
            <<p, e>> = <<q, d>> /\ (edges[q][d] = "Connected" \/ (probing[q] = d /\ assigned[b] = nextPanelIndex))
      BY <1>9, <2>1, <2>3 DEF Above
    <3> QED
      BY <1>9, <3>1 DEF Recorded
  <2> QED
    BY <2>2, <2>3
<1>11. ~Fresh(x) /\ ~Asks(x)
  BY <1>1, AskedFresh DEF Fresh
<1>12. Fits(u, g)
  <2>1. Below(u)
    BY <1>8, <1>9, <1>10 DEF Below
  <2>2. Fresh(u) => Asks(u)
    <3>1. peer[<<b, h>>] # NoPort /\ ~Fresh(peer[<<b, h>>])
      BY <1>1, <1>4, <1>9, <1>11, PanelsAssumption
    <3>2. Half(b)
      BY DEF Invariants, WalkInv, PanelOK
    <3>3. Fresh(u) => edges[b][h] = "Unexplored"
      BY <1>8, <1>9 DEF Fresh
    <3>4. Fresh(u) => probing[b] = h
      BY <3>1, <3>2, <3>3 DEF Half
    <3> QED
      BY <1>8, <1>9, <3>4 DEF Asks
  <2>3. AnswerOf(u, g)
    BY <1>1, <1>4, <1>6, PanelsAssumption DEF AnswerOf
  <2>4. peer[u] # NoPort /\ ~Fresh(peer[u])
    BY <1>4, <1>11, PanelsAssumption
  <2> QED
    BY <1>6, <2>1, <2>2, <2>3, <2>4 DEF Fits
<1>13. ~IsToken(f) /\ ~IsToken(g) /\ Moves(u, g)
  BY <1>2, <1>6 DEF IsToken, Moves
<1>14. peer[<<p, e>>] = u /\ chan[x] # <<>> /\ f = Head(chan[x]) /\ f.type # "REG"
  BY <1>1, <1>2, <1>4
<1> QED
  BY <1>4, <1>7, <1>11, <1>12, <1>13, <1>14, SwapWalk

\* A panel that has its parent refuses the offer of another: both ends of the edge are settled.
LEMMA RejectFirstWalk ==
    ASSUME Invariants, NEW p \in Panels, NEW e \in Edge, chan[<<p, e>>] # <<>>,
           NEW f, f = Head(chan[<<p, e>>]), PanelRejectOffer(p, e, f), edges[p][e] # "NotConnected",
           UNCHANGED <<peer, faults, coordVars>>
    PROVE  WalkInv'
<1>1. PICK x \in Port : x = <<p, e>> /\ x # Trunk /\ x[1] = p /\ x[2] = e /\ e # NoEdge
  BY PortOf
<1>2. f.type = "PULL" /\ parent[p] # e /\ parent[p] # NoEdge /\ assigned[p] # 0
  BY DEF PanelRejectOffer, Accepts, Invariants, FloodInv, PanelInTree
<1>3. PICK a \in Port :
              /\ a = peer[<<p, e>>] /\ peer[a] = <<p, e>> /\ a # <<p, e>> /\ Asks(a) /\ Below(a) /\ ~complete
              /\ f.index = nextPanelIndex /\ f.parentEdge = a[2] /\ edges[p][e] = "Unexplored"
              /\ f.index # 0 /\ f.index \in Nat /\ f.parentEdge \in 0 .. NoEdge
  BY <1>2, OfferReached, SMTT(30)
<1>4. a # NoPort /\ peer[a] # NoPort /\ peer[a] = x /\ a = peer[x] /\ a # x
  BY <1>1, <1>3, PanelsAssumption
<1>5. PICK g \in Frame : g = RegFrame(0, e, f.parentEdge)
  BY <1>3, NotAnEdge, RegTyped
<1>6. g.type = "REG" /\ g.target = 0 /\ g.index = 0
  BY <1>5 DEF RegFrame
<1>7. /\ edges' = [edges EXCEPT ![p][e] = "NotConnected"]
      /\ UNCHANGED <<peer, nextPanelIndex, frontier, complete, stack, links, childIndexes, pendingAssign, probing>>
      /\ UNCHANGED <<waited, faults, attempts, assigned, parent>>
  BY DEF PanelRejectOffer, coordVars
<1>8. /\ edges'[p][e] = "NotConnected"
      /\ \A d \in Edge : d # e => edges'[p][d] = edges[p][d]
      /\ \A q \in Panels : q # p => edges'[q] = edges[q]
  BY <1>7 DEF Invariants, TypeOK, PanelsTypeOK
<1>9. chan' = Put(Taken(chan, x), p, {e}, g)
  <2>1. Dispatched(p, e, f) = Taken(chan, x)
    BY <1>1, <1>2 DEF Dispatched, Relays
  <2> QED
    BY <1>5, <2>1 DEF PanelRejectOffer, RejectedIndex
<1>10. Keeps /\ KeepsKids
  <2>1. \A q \in Panels, d \in Edge : edges[q][d] # "Unexplored" => edges'[q][d] = edges[q][d]
    BY <1>3, <1>8
  <2> QED
    BY <1>7, <2>1 DEF Keeps, KeepsKids
<1>11. Settles
  BY <1>7 DEF Settles, Asks
<1>12. \A q \in Panels : assigned[q] # nextPanelIndex
  <2> SUFFICES ASSUME NEW q \in Panels, assigned[q] = nextPanelIndex PROVE FALSE
    OBVIOUS
  <2>1. peer[a] = <<q, parent[q]>>
    BY <1>3, NoneWaits
  <2> QED
    BY <1>2, <1>3, <2>1
<1>13. Recorded(p) /\ KeepsRecords
  BY <1>2, <1>7, <1>12 DEF Recorded, KeepsRecords
<1>14. \A q \in Panels, d \in Edge : edges[q][d] = "Unexplored" => edges'[q][d] # "Connected"
  BY <1>8
<1>15. \A z \in Port : Fresh(z) /\ z # peer[a] => Fresh(z)'
  <2> SUFFICES ASSUME NEW z \in Port, Fresh(z), z # x PROVE Fresh(z)'
    BY <1>4
  <2>1. CASE z = Trunk
    BY <1>7, <2>1 DEF Fresh
  <2>2. CASE z # Trunk
    <3>1. z[1] \in Panels /\ z[2] \in Edge /\ z = <<z[1], z[2]>>
      BY <2>2, PortForm
    <3>2. z[1] # p \/ z[2] # e
      BY <1>1, <3>1
    <3> QED
      BY <1>8, <2>2, <3>1, <3>2 DEF Fresh
  <2> QED
    BY <2>1, <2>2
<1>16. a # Trunk /\ Recorded(a[1])
  <2>1. a # Trunk
    <3> SUFFICES ASSUME a = Trunk PROVE FALSE
      OBVIOUS
    <3>1. nextPanelIndex = 1 /\ assigned[p] <= 1 /\ assigned[p] \in Nat
      BY <1>3, AskedFresh DEF Invariants, WalkInv, Numbered, TypeOK, PanelsTypeOK
    <3> QED
      BY <1>2, <1>12, <3>1
  <2> QED
    BY <1>3, <1>4, <2>1, AskedBelow
<1>17. ASSUME NEW q \in Panels PROVE PanelOK(q)'
  <2>0. PanelOK(q)
    BY DEF Invariants, WalkInv
  <2>1. Blank(q)'
    BY <1>7, <1>8, <1>13, <2>0 DEF PanelOK, Blank, Recorded
  <2>2. Kids(q)'
    <3>1. CASE assigned[q] # 0
      BY <1>10, <1>14, <3>1, KidsStay
    <3>2. CASE assigned[q] = 0
      <4>1. parent[q] = NoEdge /\ q # p
        BY <1>2, <3>2, Unrooted DEF Invariants
      <4>2. \A d \in Edge : edges[q][d] = "Unexplored"
        BY <2>0, <3>2, <4>1, NotAnEdge DEF PanelOK, Blank, Recorded
      <4> QED
        BY <1>7, <1>8, <4>1, <4>2 DEF Kids
    <3> QED
      BY <3>1, <3>2
  <2>3. Above(q)'
    <3>1. CASE assigned[q] # 0
      BY <1>10, <1>12, <3>1, AboveStay
    <3>2. CASE assigned[q] = 0
      BY <1>7, <3>2 DEF Above
    <3> QED
      BY <3>1, <3>2
  <2>4. Refused(q)'
    <3>1. CASE q # p
      BY <1>8, <1>10, <1>13, <3>1, RefusedStay
    <3>2. CASE q = p
      <4> SUFFICES ASSUME NEW d \in Edge, edges'[p][d] = "NotConnected", peer[<<p, d>>] # NoPort
                   PROVE  peer[<<p, d>>] # Trunk /\ Recorded(peer[<<p, d>>][1])
        BY <1>7, <3>2 DEF Refused, Recorded
      <4>1. CASE d = e
        BY <1>3, <1>16, <4>1
      <4>2. CASE d # e
        BY <1>8, <2>0, <3>2, <4>2 DEF PanelOK, Refused
      <4> QED
        BY <4>1, <4>2
    <3> QED
      BY <3>1, <3>2
  <2>5. Half(q)'
    BY <1>3, <1>4, <1>7, <1>10, <1>15, HalfStay
  <2>6. Prober(q)'
    <3> SUFFICES ASSUME probing[q] # NoEdge PROVE Prober(q)'
      BY <1>7 DEF Prober
    <3>1. PICK z \in Port : z = <<q, probing[q]>> /\ Asks(z) /\ probing[q] \in Edge
      BY ProbesDown
    <3>2. z = a
      BY <1>3, <3>1, OneAsker DEF Invariants
    <3>3. q # p \/ probing[q] # e
      BY <1>1, <1>4, <3>1, <3>2
    <3>4. edges'[q][probing[q]] = "Unexplored"
      BY <1>8, <2>0, <3>1, <3>3 DEF PanelOK, Prober
    <3>5. \A d \in Edge : edges[q][d] # "Unexplored" => edges'[q][d] # "Unexplored"
      BY <1>10 DEF Keeps
    <3> QED
      BY <1>7, <2>0, <3>4, <3>5 DEF PanelOK, Prober, Lowest
  <2>7. Waiting(q)'
    BY <1>7, <1>12 DEF Waiting
  <2> QED
    BY <2>1, <2>2, <2>3, <2>4, <2>5, <2>6, <2>7 DEF PanelOK
<1>18. PathOK' /\ LinksOK'
  BY <1>7, <1>10, <1>14, PathStay, LinksStay
<1>19. Numbered' /\ Over'
  BY <1>3, <1>7 DEF Invariants, WalkInv, Numbered, IndicesDistinct, Over
<1>20. AnswerGone(g, a)
  <2>1. UNCHANGED <<peer, waited, faults, attempts, frontier, complete, nextPanelIndex, probing>>
    BY <1>7
  <2>2. chan[x] # <<>> /\ f = Head(chan[x]) /\ g.type = "REG" /\ peer[<<p, e>>] = a /\ Asks(a)
    BY <1>1, <1>3, <1>6
  <2> QED
    BY <1>2, <1>9, <2>1, <2>2, OfferAnswered
<1>21. Fits(a, g)'
  <2>1. Below(a)' /\ Asks(a)'
    BY <1>3, <1>7, <1>10, StaysBelow DEF Invariants, Asks
  <2>2. peer'[a] = x /\ peer' = peer /\ x # NoPort /\ ~Fresh(x)'
    BY <1>1, <1>4, <1>7, <1>8, PanelsAssumption DEF Fresh
  <2>3. ~Fresh(peer[a])'
    BY <2>2 DEF Fresh
  <2>5. AnswerOf(a, g)'
    <3>1. peer'[a][1] = p /\ peer'[a][2] = e /\ peer'[a] # NoPort /\ peer'[a] # Trunk
      BY <1>1, <2>2
    <3> QED
      BY <1>6, <1>8, <3>1 DEF AnswerOf
  <2> QED
    BY <1>6, <2>1, <2>2, <2>3, <2>5 DEF Fits
<1>22. AllFit(chan)'
  <2>1. \A y \in Port : \A h \in Carried(chan', y) : h \in Carried(chan, y) \/ Fits(y, h)'
    BY <1>20, <1>21 DEF AnswerGone
  <2> QED
    BY <1>10, <1>11, <2>1, AllStayFit DEF Invariants, WalkInv
<1> QED
  BY <1>17, <1>18, <1>19, <1>20, <1>22 DEF WalkInv, AnswerGone

-----------------------------------------------------------------------------
(* The answer to a probe.                                                   *)

\* Frame f at edge e of panel p is the answer of the panel there.
AnswerAt(p, e, f) ==
    \E q \in Panels, h \in Edge :
        /\ peer[<<p, e>>] = <<q, h>> /\ <<q, h>> \in Port /\ peer[<<q, h>>] = <<p, e>> /\ <<q, h>> # Trunk
        /\ f.type = "REG" /\ f \in Frame /\ Fits(<<p, e>>, f)
        /\ f.index = 0 => edges[q][h] = "NotConnected"
        /\ f.index # 0 => parent[q] = h /\ assigned[q] = f.index

\* What a prober hears at the edge it probes is the answer of the panel there.
LEMMA AnswerHeard ==
    ASSUME Invariants, NEW p \in Panels, NEW e \in Edge, probing[p] = e, chan[<<p, e>>] # <<>>,
           NEW f, f = Head(chan[<<p, e>>])
    PROVE  AnswerAt(p, e, f)
<1>1. PICK x \in Port : x = <<p, e>> /\ x # Trunk /\ x[1] = p /\ x[2] = e /\ e # NoEdge
  BY PortOf
<1>2. f \in Frame /\ Fits(x, f) /\ Proper(x, f)
  BY <1>1, TheHead
<1>3. Asks(x)
  BY <1>1 DEF Asks
<1>4. f.type = "REG" /\ AnswerOf(x, f)
  BY <1>1, <1>2, <1>3, AskedHears
<1>5. PICK y \in Port : y = peer[x] /\ peer[y] = x /\ y # Trunk
  BY <1>4, Wire DEF AnswerOf, Invariants, TypeOK
<1>6. PICK q \in Panels, h \in Edge : y = <<q, h>> /\ y[1] = q /\ y[2] = h
  BY <1>5, PortForm
<1>7. /\ f.index = 0 => edges[q][h] = "NotConnected"
      /\ f.index # 0 => parent[q] = h /\ assigned[q] = f.index
  BY <1>4, <1>5, <1>6 DEF AnswerOf
<1> QED
  BY <1>1, <1>2, <1>4, <1>5, <1>6, <1>7 DEF AnswerAt

\* Only the prober and the panel it waits for know of an index that is not recorded.
LEMMA ChildAcceptedWalk ==
    ASSUME Invariants, NEW p \in Panels, NEW e \in Edge, chan[<<p, e>>] # <<>>,
           NEW f, f = Head(chan[<<p, e>>]), PanelChildAccepted(p, e, f),
           UNCHANGED <<peer, faults, coordVars>>
    PROVE  WalkInv'
<1>1. PICK x \in Port : x = <<p, e>> /\ x # Trunk /\ x[1] = p /\ x[2] = e /\ e # NoEdge
  BY PortOf
<1>2. f.type = "REG" /\ probing[p] = e /\ probing[p] # NoEdge /\ f.index # 0
  BY <1>1 DEF PanelChildAccepted, RejectedIndex
<1>3. PICK q \in Panels, h \in Edge :
              /\ peer[x] = <<q, h>> /\ <<q, h>> \in Port /\ peer[<<q, h>>] = x /\ <<q, h>> # Trunk
              /\ f \in Frame /\ Fits(x, f) /\ parent[q] = h /\ assigned[q] = f.index
  <2>1. AnswerAt(p, e, f)
    BY <1>2, AnswerHeard
  <2> QED
    BY <1>1, <1>2, <2>1 DEF AnswerAt
<1>4. /\ e # parent[p] /\ assigned[p] = frontier /\ frontier # 0 /\ ~complete
      /\ pendingAssign[p] = nextPanelIndex /\ Asks(x) /\ edges[p][e] = "Unexplored" /\ Lowest(p, e)
  BY <1>1, <1>2, ProbesDown DEF Prober
<1>5. assigned[q] # 0 /\ parent[p] # NoEdge /\ assigned[p] # 0
  BY <1>2, <1>3, <1>4, Rooted DEF Invariants
<1>6. assigned[q] = nextPanelIndex /\ assigned[q] > frontier
  <2>1. Above(q) /\ peer[<<q, parent[q]>>] = <<p, e>>
    BY <1>1, <1>3 DEF Invariants, WalkInv, PanelOK
  <2>2. assigned[q] # 1
    BY <1>1, <2>1 DEF Above
  <2>3. PICK b \in Panels, d \in Edge :
            /\ <<p, e>> = <<b, d>> /\ assigned[b] < assigned[q]
            /\ edges[b][d] = "Connected" \/ (probing[b] = d /\ assigned[q] = nextPanelIndex)
    BY <1>5, <2>1, <2>2 DEF Above
  <2> QED
    BY <1>4, <2>3
<1>7. /\ probing' = [probing EXCEPT ![p] = NoEdge]
      /\ edges' = [edges EXCEPT ![p][e] = "Connected"]
      /\ childIndexes' = [childIndexes EXCEPT ![p][e] = nextPanelIndex]
      /\ chan' = Dispatched(p, e, f)
      /\ UNCHANGED <<peer, nextPanelIndex, frontier, complete, stack, links, pendingAssign>>
      /\ UNCHANGED <<waited, faults, attempts, assigned, parent>>
  BY <1>3, <1>6 DEF PanelChildAccepted, coordVars
<1>8. /\ edges'[p][e] = "Connected" /\ childIndexes'[p][e] = nextPanelIndex /\ probing'[p] = NoEdge
      /\ \A d \in Edge : d # e => edges'[p][d] = edges[p][d] /\ childIndexes'[p][d] = childIndexes[p][d]
      /\ \A r \in Panels : r # p => edges'[r] = edges[r] /\ childIndexes'[r] = childIndexes[r] /\ probing'[r] = probing[r]
  BY <1>7 DEF Invariants, TypeOK, PanelsTypeOK
<1>9. \A r \in Panels : r # p => probing[r] = NoEdge
  <2> SUFFICES ASSUME NEW r \in Panels, probing[r] # NoEdge PROVE r = p
    OBVIOUS
  <2>1. assigned[r] = assigned[p] /\ assigned[r] # 0
    BY <1>4, ProbesDown
  <2> QED
    BY <2>1, SamePanel DEF Invariants
<1>10. \A r \in Panels : probing'[r] = NoEdge
  BY <1>8, <1>9
<1>11. Keeps /\ KeepsKids /\ KeepsRecords
  <2>1. /\ \A r \in Panels, d \in Edge : edges[r][d] # "Unexplored" => edges'[r][d] = edges[r][d]
        /\ \A r \in Panels, d \in Edge : edges[r][d] = "Connected" => childIndexes'[r][d] = childIndexes[r][d]
    BY <1>4, <1>8
  <2> QED
    BY <1>7, <2>1 DEF Keeps, KeepsKids, KeepsRecords, Recorded
<1>12. \A r \in Panels : assigned[r] = nextPanelIndex => r = q
  BY <1>5, <1>6, SamePanel DEF Invariants
<1>13. ~Fresh(x)' /\ Answered(peer[x])'
  BY <1>1, <1>3, <1>7, <1>8 DEF Fresh, Answered
<1>14. Settles
  <2> SUFFICES ASSUME NEW z \in Port, Asks(z) PROVE ~Fresh(z)' /\ Answered(peer[z])'
    BY DEF Settles
  <2>1. z = x
    BY <1>4, OneAsker DEF Invariants
  <2> QED
    BY <1>13, <2>1
<1>15. Recorded(p)
  BY <1>2, <1>4, <1>5, NotBlank DEF Invariants
<1>16. q # p
  BY <1>6, <1>15 DEF Recorded
<1>17. ASSUME NEW r \in Panels PROVE PanelOK(r)'
  <2>0. PanelOK(r)
    BY DEF Invariants, WalkInv
  <2>1. Blank(r)'
    BY <1>7, <1>8, <1>15, <2>0 DEF PanelOK, Blank, Recorded
  <2>2. Kids(r)'
    <3>1. CASE r # p /\ assigned[r] # 0
      BY <1>8, <1>11, <3>1, KidsStay
    <3>2. CASE r = p
      <4>1. edges[p][parent[p]] = "Connected" /\ parent[p] \in Edge
        BY <1>5, <2>0, <3>2, Rooted DEF PanelOK, Kids, Invariants
      <4>2. edges'[p][parent[p]] = "Connected"
        BY <1>4, <1>8, <4>1
      <4>3. ASSUME NEW d \in Edge, d # parent[p], edges'[p][d] = "Connected"
            PROVE  \E s \in Panels :
                      /\ peer[<<p, d>>] = <<s, parent[s]>>
                      /\ childIndexes'[p][d] = assigned[s] /\ assigned[s] > assigned[p]
        <5>1. CASE d = e
          BY <1>1, <1>3, <1>4, <1>6, <1>8, <5>1
        <5>2. CASE d # e
          BY <1>8, <2>0, <3>2, <4>3, <5>2 DEF PanelOK, Kids
        <5> QED
          BY <5>1, <5>2
      <4> QED
        BY <1>7, <3>2, <4>2, <4>3 DEF Kids
    <3>3. CASE r # p /\ assigned[r] = 0
      <4>1. parent[r] = NoEdge
        BY <3>3, Unrooted DEF Invariants
      <4>2. \A d \in Edge : edges[r][d] = "Unexplored"
        BY <2>0, <3>3, <4>1, NotAnEdge DEF PanelOK, Blank, Recorded
      <4> QED
        BY <1>7, <1>8, <3>3, <4>1, <4>2 DEF Kids
    <3> QED
      BY <3>1, <3>2, <3>3
  <2>3. Above(r)'
    <3>1. CASE assigned[r] # 0
      <4>1. \A b \in Panels, d \in Edge : probing[b] = d => edges'[b][d] = "Connected"
        BY <1>2, <1>8, <1>9, NotAnEdge
      <4> QED
        BY <1>11, <3>1, <4>1, AboveStay
    <3>2. CASE assigned[r] = 0
      BY <1>7, <3>2 DEF Above
    <3> QED
      BY <3>1, <3>2
  <2>4. Refused(r)'
    <3>1. \A d \in Edge : edges'[r][d] = "NotConnected" => edges[r][d] = "NotConnected"
      BY <1>8
    <3> QED
      BY <1>11, <3>1, RefusedStay
  <2>5. Half(r)'
    <3> SUFFICES ASSUME NEW d \in Edge, edges'[r][d] = "Unexplored", peer[<<r, d>>] # NoPort,
                        ~Fresh(peer[<<r, d>>])'
                 PROVE  FALSE
      BY <1>7 DEF Half
    <3>1. edges[r][d] = "Unexplored" /\ ~(r = p /\ d = e)
      BY <1>8, <1>11 DEF Keeps
    <3>2. PICK z \in Port : z = peer[<<r, d>>] /\ peer[z] = <<r, d>>
      BY Wire, PortOf DEF Invariants, TypeOK
    <3>3. probing[r] # d
      BY <1>2, <1>9, <3>1, NotAnEdge
    <3>4. Fresh(z)
      BY <2>0, <3>1, <3>2, <3>3 DEF PanelOK, Half
    <3>5. ~Fresh(z)'
      BY <1>7, <3>2 DEF Fresh
    <3>6. z = x
      <4>1. z # Trunk
        BY <1>7, <3>4, <3>5 DEF Fresh
      <4>2. z[1] \in Panels /\ z[2] \in Edge /\ z = <<z[1], z[2]>>
        BY <4>1, PortForm
      <4>3. edges[z[1]][z[2]] = "Unexplored" /\ edges'[z[1]][z[2]] # "Unexplored"
        BY <3>4, <3>5, <4>1 DEF Fresh
      <4>4. z[1] = p /\ z[2] = e
        BY <1>8, <4>2, <4>3
      <4> QED
        BY <1>1, <4>2, <4>4
    <3>7. r = q /\ d = parent[q]
      BY <1>3, <3>2, <3>6
    <3>8. edges[q][parent[q]] = "Connected"
      BY <1>5, <2>0, <3>7, Rooted DEF PanelOK, Kids, Invariants
    <3> QED
      BY <3>1, <3>7, <3>8
  <2>6. Prober(r)'
    BY <1>10 DEF Prober
  <2>7. Waiting(r)'
    <3> SUFFICES ASSUME r = q
                 PROVE  \E b \in Panels, d \in Edge :
                    /\ peer'[<<q, parent'[q]>>] = <<b, d>> /\ assigned'[b] = frontier
                    /\ d # parent'[b] /\ Lowest(b, d)'
                    /\ probing'[b] = NoEdge => edges'[b][d] = "Connected"
                    /\ probing'[b] # NoEdge => probing'[b] = d
      BY <1>4, <1>7, <1>12 DEF Waiting
    <3>1. Lowest(p, e)'
      BY <1>4, <1>5, <1>11, LowestStay
    <3>2. peer'[<<q, parent'[q]>>] = <<p, e>> /\ assigned'[p] = frontier /\ e # parent'[p]
      BY <1>1, <1>3, <1>4, <1>7
    <3> QED
      BY <1>8, <3>1, <3>2
  <2> QED
    BY <2>1, <2>2, <2>3, <2>4, <2>5, <2>6, <2>7 DEF PanelOK
<1>18. PathOK'
  <2>1. \A r \in Panels : assigned[r] # 0 /\ assigned[r] # frontier =>
               \A d \in Edge : edges[r][d] = "Unexplored" => edges'[r][d] # "Connected"
    BY <1>4, <1>8
  <2> QED
    BY <1>7, <1>11, <2>1, PathStay
<1>19. LinksOK'
  BY <1>7, <1>11, LinksStay
<1>20. Numbered' /\ Over'
  BY <1>4, <1>7 DEF Invariants, WalkInv, Numbered, IndicesDistinct, Over
<1>21. PICK u \in Port : u = peer[<<p, parent[p]>>]
  BY <1>5, UpPort
<1>22. /\ Below(u) /\ peer[u] = <<p, parent[p]>> /\ ~Fresh(u)
       /\ peer[u] # NoPort /\ ~Fresh(peer[u]) /\ peer[u] \in Port
  <2>1. /\ Below(u) /\ peer[u] = <<p, parent[p]>> /\ ~Fresh(peer[u]) /\ peer[u] # NoPort
        /\ (Fresh(u) => assigned[p] = nextPanelIndex)
    BY <1>5, <1>21, UpPort
  <2> QED
    BY <1>5, <1>15, <2>1, Rooted DEF Recorded, Invariants
<1>23. chan' = Put(Taken(chan, x), p, {parent[p]}, f)
  BY <1>1, <1>2, <1>7, RelayUp
<1>24. Swap(chan', x, f, p, parent[p], f)
  <2>1. PICK c : c = chan'
    OBVIOUS
  <2>2. Swap(c, x, f, p, parent[p], f)
    BY <1>1, <1>3, <1>23, <2>1, Swapped
  <2> QED
    BY <2>1, <2>2
<1>25. Fits(u, f)'
  <2>1. Below(u)' /\ ~Fresh(u)'
    BY <1>11, <1>22, StaysBelow, StaysSettled DEF Invariants
  <2>2. PICK v \in Port : v = peer[u] /\ ~Fresh(v)
    BY <1>22
  <2>3. ~Fresh(v)'
    BY <1>11, <2>2, StaysSettled
  <2>4. peer' = peer /\ ~Fresh(peer[u])'
    BY <1>7, <2>2, <2>3 DEF Fresh
  <2>5. Truthful(x, f)
    BY <1>2, <1>3 DEF Fits
  <2>6. Truthful(x, f)'
    BY <1>2, <1>3, <1>11, <2>5, StaysTruthful DEF Invariants
  <2>7. Truthful(u, f)'
    BY <1>13, <2>6 DEF Truthful
  <2>8. f.target = 0
    BY <1>2, <1>3 DEF Fits
  <2> QED
    BY <1>2, <1>22, <2>1, <2>4, <2>7, <2>8 DEF Fits
<1>26. AllFit(chan)'
  <2>1. \A y \in Port : \A g \in Carried(chan', y) : g \in Carried(chan, y) \/ Fits(y, g)'
    BY <1>21, <1>24, <1>25 DEF Swap
  <2> QED
    BY <1>11, <1>14, <2>1, AllStayFit DEF Invariants, WalkInv
<1>27. ~IsToken(f)
  BY <1>2 DEF IsToken
<1>28. Sole(chan)' /\ AllMove(chan)'
  <2>1. Sole(chan')
    BY <1>24, <1>27 DEF Swap
  <2>2. \A y \in Port : \A g \in Carried(chan', y) : ~IsToken(g)
    BY <1>4, <1>24, <1>27, NoTokenAsked DEF Swap
  <2> QED
    BY <2>1, <2>2 DEF AllMove, Moves, Carried
<1>29. Paid'
  <2>1. ~Idle' /\ frontier # 0
    BY <1>4, <1>6, <1>7 DEF Idle
  <2> QED
    BY <1>7, <2>1 DEF Paid, Invariants, WalkInv
<1>30. (\A r \in Panels : ProbePaid(r)') /\ Reported'
  <2>1. f \in Carried(chan', u) /\ f.index = nextPanelIndex
    BY <1>3, <1>6, <1>21, <1>24 DEF Swap
  <2> QED
    BY <1>2, <1>7, <1>10, <2>1 DEF ProbePaid, Reported, Carried
<1> QED
  BY <1>17, <1>18, <1>19, <1>20, <1>26, <1>28, <1>29, <1>30 DEF WalkInv

-----------------------------------------------------------------------------
(* On to the next edge.                                                     *)

\* Only the port below the root panel's parent edge is the controller's.
LEMMA NotTrunk ==
    ASSUME Invariants, frontier # 0, NEW p \in Panels, NEW e \in Edge, e # parent[p]
    PROVE  peer[<<p, e>>] # Trunk
<1> SUFFICES ASSUME peer[<<p, e>>] = Trunk PROVE FALSE
  OBVIOUS
<1>1. PICK x \in Port : x = <<p, e>>
  BY PortOf
<1>2. peer[Trunk] = x
  BY <1>1, WiredBack DEF Port, Invariants, TypeOK
<1>3. PICK r \in Panels : peer[Trunk] = <<r, parent[r]>>
  BY RootPanel
<1> QED
  BY <1>1, <1>2, <1>3

\* The frontier, with nothing out and nobody waiting, probes its lowest open edge or reports
\* that there is none; c is what else is on the wires.
LEMMA ProbeOn ==
    ASSUME Invariants, NEW p \in Panels, NEW c \in Channels, NEW tries,
           Keeps, KeepsKids, Settles,
           UNCHANGED <<peer, nextPanelIndex, frontier, complete, stack, links, waited, faults, assigned, parent>>,
           assigned[p] = frontier, frontier # 0, ~complete, pendingAssign'[p] = nextPanelIndex,
           \A r \in Panels : r # p => probing[r] = NoEdge,
           \A q \in Panels : assigned[q] # nextPanelIndex,
           ProbeNext(p, edges'[p], nextPanelIndex, tries, c), TokenFree(c),
           \A y \in Port : \A g \in Carried(c, y) : g \in Carried(chan, y) \/ Fits(y, g)',
           \A r \in Panels, d \in Edge : edges[r][d] = "Unexplored" => edges'[r][d] # "Connected",
           \A r \in Panels : r # p => edges'[r] = edges[r],
           \A r \in Panels : Refused(r)',
           \A r \in Panels, d \in Edge : edges'[r][d] = "Unexplored" /\ peer[<<r, d>>] # NoPort
               => Fresh(peer[<<r, d>>])'
    PROVE  WalkInv'
<1>1. Recorded(p) /\ assigned[p] # 0 /\ parent[p] # NoEdge /\ parent[p] \in Edge
      /\ <<p, parent[p]>> \in Port
  BY Rooted DEF Recorded, Invariants
<1>2. probing \in [Panels -> Edge \cup {NoEdge}] /\ attempts \in [Panels -> 0 .. ProbeAttempts]
  BY DEF Invariants, TypeOK, PanelsTypeOK
<1>3. KeepsRecords
  BY DEF KeepsRecords, Recorded
<1>4. /\ Fresh(Trunk)' <=> Fresh(Trunk)
      /\ Trunk \in Port
  BY DEF Fresh, Port
<1>5. \A r \in Panels : r # p => probing'[r] = NoEdge
  BY <1>2 DEF ProbeNext
<1>6. \A r \in Panels : assigned[r] = frontier => r = p
  BY SamePanel DEF Invariants
<1>7. probing'[p] # NoEdge =>
        /\ probing'[p] \in Edge /\ probing'[p] # parent[p] /\ edges'[p][probing'[p]] = "Unexplored"
        /\ \A d \in Edge : d < probing'[p] /\ d # parent[p] => edges'[p][d] # "Unexplored"
        /\ attempts'[p] = 0 /\ chan' = Put(c, p, {probing'[p]}, PullFrame(nextPanelIndex, probing'[p]))
  <2> SUFFICES ASSUME probing'[p] # NoEdge
               PROVE  /\ probing'[p] \in Edge /\ probing'[p] # parent[p] /\ edges'[p][probing'[p]] = "Unexplored"
                      /\ \A d \in Edge : d < probing'[p] /\ d # parent[p] => edges'[p][d] # "Unexplored"
                      /\ attempts'[p] = 0 /\ chan' = Put(c, p, {probing'[p]}, PullFrame(nextPanelIndex, probing'[p]))
    OBVIOUS
  <2>1. PICK e \in OpenEdges(p, edges'[p]) :
            /\ \A d \in OpenEdges(p, edges'[p]) : e <= d
            /\ probing' = [probing EXCEPT ![p] = e]
            /\ attempts' = [attempts EXCEPT ![p] = 0]
            /\ chan' = Put(c, p, {e}, PullFrame(nextPanelIndex, e))
    BY <1>2 DEF ProbeNext
  <2>2. probing'[p] = e /\ attempts'[p] = 0 /\ e \in Edge /\ e # parent[p] /\ edges'[p][e] = "Unexplored"
    BY <1>2, <2>1 DEF OpenEdges
  <2>3. \A d \in Edge : d < e /\ d # parent[p] => edges'[p][d] # "Unexplored"
    <3>1. \A d \in Edge : d # parent[p] /\ edges'[p][d] = "Unexplored" => e <= d
      BY <2>1 DEF OpenEdges
    <3>2. Edge \subseteq Nat
      BY DEF Edge
    <3> QED
      BY <2>2, <3>1, <3>2
  <2>4. \A d \in Edge : d < probing'[p] /\ d # parent[p] => edges'[p][d] # "Unexplored"
    BY <2>2, <2>3
  <2> QED
    BY <2>1, <2>2, <2>4
<1>8. probing'[p] = NoEdge => Finished(p)' /\ chan' = Put(c, p, {parent[p]}, DoneFrame(frontier))
  BY <1>2, NotAnEdge DEF ProbeNext, Finished, OpenEdges
<1>9. ASSUME NEW r \in Panels PROVE PanelOK(r)'
  <2>0. PanelOK(r)
    BY DEF Invariants, WalkInv
  <2>1. Blank(r)'
    <3>1. CASE r = p
      BY <1>1, <3>1 DEF Blank, Recorded
    <3>2. CASE r # p
      BY <1>5, <2>0, <3>2 DEF PanelOK, Blank, Recorded
    <3> QED
      BY <3>1, <3>2
  <2>2. Kids(r)'
    <3>1. CASE assigned[r] # 0
      BY <3>1, KidsStay
    <3>2. CASE assigned[r] = 0
      <4>1. parent[r] = NoEdge
        BY <3>2, Unrooted DEF Invariants
      <4>2. \A d \in Edge : edges[r][d] = "Unexplored"
        BY <2>0, <3>2, <4>1, NotAnEdge DEF PanelOK, Blank, Recorded
      <4> QED
        BY <4>1, <4>2 DEF Kids
    <3> QED
      BY <3>1, <3>2
  <2>3. Above(r)'
    <3>1. CASE assigned[r] # 0
      BY <3>1, AboveStay
    <3>2. CASE assigned[r] = 0
      BY <3>2 DEF Above
    <3> QED
      BY <3>1, <3>2
  <2>4. Refused(r)'
    OBVIOUS
  <2>5. Half(r)'
    BY DEF Half
  <2>6. Prober(r)'
    <3>1. CASE r = p
      BY <1>7, <3>1 DEF Prober, Lowest
    <3>2. CASE r # p
      BY <1>5, <3>2 DEF Prober
    <3> QED
      BY <3>1, <3>2
  <2>7. Waiting(r)'
    BY DEF Waiting
  <2> QED
    BY <2>1, <2>2, <2>3, <2>4, <2>5, <2>6, <2>7 DEF PanelOK
<1>10. PathOK' /\ LinksOK'
  BY PathStay, LinksStay
<1>11. Numbered' /\ Over'
  BY DEF Invariants, WalkInv, Numbered, IndicesDistinct, Over
<1>12. nextPanelIndex \in Nat /\ frontier \in Nat /\ faults \in Nat
  BY LimitsAssumption DEF Invariants, TypeOK, WiresTypeOK, ControllerTypeOK
<1>13. ASSUME NEW e, NEW g \in Frame, chan' = Put(c, p, {e}, g),
              \A y \in Port : peer[<<p, e>>] = y => Fits(y, g)'
       PROVE  /\ AllFit(chan)' /\ Sole(chan)'
              /\ \A y \in Port : \A h \in Carried(chan', y) : IsToken(h) => h = g
              /\ \A y \in Port : peer[<<p, e>>] = y => g \in Carried(chan', y) /\ chan'[y] # <<>>
  <2>1. ASSUME NEW y \in Port, NEW h \in Carried(chan', y)
        PROVE  h \in Carried(c, y) \/ (h = g /\ peer[<<p, e>>] = y)
    <3>1. \A k \in Carried(Put(c, p, {e}, g), y) : k \in Carried(c, y) \/ (k = g /\ peer[<<p, e>>] = y)
      BY Sent
    <3> QED
      BY <1>13, <2>1, <3>1
  <2>2. \A y \in Port : \A h \in Carried(chan', y) : h \in Carried(chan, y) \/ Fits(y, h)'
    BY <1>13, <2>1
  <2>3. AllFit(chan)'
    BY <2>2, AllStayFit DEF Invariants, WalkInv
  <2>4. Sole(chan')
    <3>1. Sole(Put(c, p, {e}, g))
      BY FreeSole, SentSole
    <3> QED
      BY <1>13, <3>1
  <2>5. \A y \in Port : \A h \in Carried(chan', y) : IsToken(h) => h = g
    BY <2>1 DEF TokenFree
  <2>6. ASSUME NEW y \in Port, peer[<<p, e>>] = y PROVE g \in Carried(chan', y) /\ chan'[y] # <<>>
    <3>1. g \in Carried(Put(c, p, {e}, g), y)
      BY <2>6, Sent
    <3>2. g \in Carried(chan', y)
      BY <1>13, <3>1
    <3> QED
      BY <3>2, CarriedSome
  <2> QED
    BY <2>3, <2>4, <2>5, <2>6
<1>14. CASE probing'[p] # NoEdge
  <2>1. PICK e \in Edge : /\ e = probing'[p] /\ e # parent[p] /\ edges'[p][e] = "Unexplored"
                          /\ attempts'[p] = 0 /\ chan' = Put(c, p, {e}, PullFrame(nextPanelIndex, e))
    BY <1>7, <1>14
  <2>2. PICK g \in Frame : g = PullFrame(nextPanelIndex, e)
    BY <1>12, PullTyped, NotAnEdge
  <2>3. g.type = "PULL" /\ g.index = nextPanelIndex /\ g.parentEdge = e /\ ~IsToken(g)
    BY <2>2 DEF PullFrame, IsToken
  <2>4. PICK x \in Port : x = <<p, e>> /\ x # Trunk /\ x[1] = p /\ x[2] = e /\ e # NoEdge
    BY PortOf, ZenonT(30)
  <2>5. ASSUME NEW y \in Port, peer[<<p, e>>] = y PROVE Fits(y, g)'
    <3>1. peer[y] = x
      BY <2>4, <2>5, WiredBack DEF Invariants, TypeOK
    <3>2. y # Trunk
      BY <2>1, <2>5, NotTrunk
    <3>3. peer'[y] = x /\ Asks(peer[y])'
      BY <2>1, <2>4, <3>1 DEF Asks
    <3> QED
      BY <2>3, <2>4, <3>2, <3>3 DEF Fits
  <2>6. /\ AllFit(chan)' /\ Sole(chan)'
        /\ \A y \in Port : \A h \in Carried(chan', y) : IsToken(h) => h = g
        /\ \A y \in Port : peer[<<p, e>>] = y => g \in Carried(chan', y) /\ chan'[y] # <<>>
    <3>1. chan' = Put(c, p, {e}, g)
      BY <2>1, <2>2
    <3> QED
      BY <1>13, <2>5, <3>1
  <2>7. AllMove(chan)'
    BY <2>3, <2>6 DEF AllMove, Moves, Carried
  <2>8. Paid'
    <3>1. ~Idle'
      BY <1>14 DEF Idle
    <3> QED
      BY <3>1 DEF Paid, Invariants, WalkInv
  <2>9. ASSUME NEW r \in Panels PROVE ProbePaid(r)'
    <3>1. CASE r # p
      BY <1>5, <3>1 DEF ProbePaid
    <3>2. CASE r = p
      <4> SUFFICES ASSUME peer[<<p, e>>] # NoPort PROVE ~Quiet(<<p, e>>)'
        BY <1>12, <2>1, <3>2 DEF ProbePaid
      <4>1. PICK y \in Port : y = peer[<<p, e>>]
        BY <2>4, Wire DEF Invariants, TypeOK
      <4> QED
        BY <2>6, <4>1 DEF Quiet
    <3> QED
      BY <3>1, <3>2
  <2>10. Reported'
    BY DEF Reported
  <2> QED
    BY <1>9, <1>10, <1>11, <2>6, <2>7, <2>8, <2>9, <2>10 DEF WalkInv
<1>15. CASE probing'[p] = NoEdge
  <2>1. PICK g \in Frame : g = DoneFrame(frontier)
    BY <1>12, DoneTyped
  <2>2. g.type = "DONE" /\ g.index = frontier /\ g.target = 0 /\ IsToken(g)
    BY <2>1 DEF DoneFrame, IsToken
  <2>3. chan' = Put(c, p, {parent[p]}, g) /\ Finished(p)'
    BY <1>8, <1>15, <2>1
  <2>4. PICK u \in Port : u = peer[<<p, parent[p]>>]
    BY <1>1, UpPort
  <2>5. /\ Below(u) /\ peer[u] = <<p, parent[p]>> /\ ~Fresh(u)
        /\ peer[u] # NoPort /\ ~Fresh(peer[u]) /\ peer[u] \in Port
    <3>1. /\ Below(u) /\ peer[u] = <<p, parent[p]>> /\ ~Fresh(peer[u]) /\ peer[u] # NoPort
          /\ (Fresh(u) => assigned[p] = nextPanelIndex)
      BY <1>1, <2>4, UpPort
    <3> QED
      BY <1>1, <3>1
  <2>6. Fits(u, g)'
    <3>1. Below(u)' /\ ~Fresh(u)'
      BY <2>5, StaysBelow, StaysSettled DEF Invariants
    <3>2. PICK v \in Port : v = peer[u] /\ ~Fresh(v)
      BY <2>5
    <3>3. ~Fresh(v)'
      BY <3>2, StaysSettled
    <3>4. ~Fresh(peer[u])'
      BY <3>2, <3>3 DEF Fresh
    <3> QED
      BY <2>2, <2>5, <3>1, <3>4 DEF Fits
  <2>7. /\ AllFit(chan)' /\ Sole(chan)'
        /\ \A y \in Port : \A h \in Carried(chan', y) : IsToken(h) => h = g
        /\ \A y \in Port : peer[<<p, parent[p]>>] = y => g \in Carried(chan', y) /\ chan'[y] # <<>>
    <3>1. \A y \in Port : peer[<<p, parent[p]>>] = y => Fits(y, g)'
      BY <2>4, <2>6
    <3> QED
      BY <1>13, <2>3, <3>1
  <2>8. Idle'
    BY <1>5, <1>15 DEF Idle
  <2>9. AllMove(chan)'
    <3>1. \A r \in Panels : assigned'[r] = frontier' => Finished(r)'
      BY <1>6, <2>3
    <3>2. ASSUME NEW y \in Port, NEW h \in Carried(chan', y) PROVE Moves(y, h)'
      BY <2>2, <2>7, <2>8, <3>1, <3>2 DEF Moves
    <3> QED
      BY <3>2 DEF AllMove, Carried
  <2>10. Paid'
    <3>1. ~TokenFree(chan')
      BY <2>2, <2>4, <2>7 DEF TokenFree
    <3> QED
      BY <3>1 DEF Paid, Invariants, WalkInv
  <2>11. (\A r \in Panels : ProbePaid(r)') /\ Reported'
    BY <1>5, <1>15 DEF ProbePaid, Reported
  <2> QED
    BY <1>9, <1>10, <1>11, <2>7, <2>9, <2>10, <2>11 DEF WalkInv
<1> QED
  BY <1>14, <1>15

\* An edge that leads nowhere, or to a panel that has refused it, is given up and the next
\* one is probed.
LEMMA FailedWalk ==
    ASSUME Invariants, NEW p \in Panels, NEW e \in Edge, NEW c \in Channels, NEW tries,
           probing[p] = e, EdgeFailed(p, e, tries, c), UNCHANGED <<peer, faults, coordVars>>,
           peer[<<p, e>>] = NoPort \/ \E q \in Panels, h \in Edge :
               peer[<<p, e>>] = <<q, h>> /\ peer[<<q, h>>] = <<p, e>> /\ edges[q][h] = "NotConnected",
           TokenFree(c),
           \A y \in Port : \A g \in Carried(c, y) :
               \/ g \in Carried(chan, y)
               \/ y = peer[<<p, parent[p]>>] /\ g.type = "REG" /\ g.index = 0 /\ g.target = 0
    PROVE  WalkInv'
<1>1. PICK x \in Port : x = <<p, e>> /\ x # Trunk /\ x[1] = p /\ x[2] = e /\ e # NoEdge
  BY PortOf
<1>2. /\ e # parent[p] /\ assigned[p] = frontier /\ frontier # 0 /\ ~complete
      /\ pendingAssign[p] = nextPanelIndex /\ Asks(x) /\ edges[p][e] = "Unexplored"
  BY <1>1, ProbesDown DEF Prober
<1>3. assigned[p] # 0 /\ parent[p] # NoEdge /\ parent[p] \in Edge
  BY <1>2, Rooted DEF Invariants
<1>4. /\ edges' = [edges EXCEPT ![p][e] = "NotConnected"]
      /\ childIndexes' = [childIndexes EXCEPT ![p][e] = 0]
      /\ ProbeNext(p, edges'[p], nextPanelIndex, tries, c)
      /\ UNCHANGED <<peer, nextPanelIndex, frontier, complete, stack, links, waited, faults>>
      /\ UNCHANGED <<assigned, parent, pendingAssign>>
  BY <1>2 DEF EdgeFailed, coordVars
<1>5. /\ edges'[p][e] = "NotConnected"
      /\ \A d \in Edge : d # e => edges'[p][d] = edges[p][d] /\ childIndexes'[p][d] = childIndexes[p][d]
      /\ \A r \in Panels : r # p => edges'[r] = edges[r] /\ childIndexes'[r] = childIndexes[r]
  BY <1>4 DEF Invariants, TypeOK, PanelsTypeOK
<1>6. Keeps /\ KeepsKids /\ KeepsRecords
  <2>1. /\ \A r \in Panels, d \in Edge : edges[r][d] # "Unexplored" => edges'[r][d] = edges[r][d]
        /\ \A r \in Panels, d \in Edge : edges[r][d] = "Connected" => childIndexes'[r][d] = childIndexes[r][d]
    BY <1>2, <1>5
  <2> QED
    BY <1>4, <2>1 DEF Keeps, KeepsKids, KeepsRecords, Recorded
<1>7. ASSUME NEW q \in Panels PROVE assigned[q] # nextPanelIndex
  <2> SUFFICES ASSUME assigned[q] = nextPanelIndex PROVE FALSE
    OBVIOUS
  <2>1. peer[x] = <<q, parent[q]>>
    BY <1>2, NoneWaits
  <2>2. assigned[q] # 0
    BY DEF Invariants, TypeOK, ControllerTypeOK
  <2>3. <<q, parent[q]>> # NoPort /\ parent[q] # NoEdge
    BY <2>2, Rooted, PanelsAssumption DEF Invariants
  <2>4. edges[q][parent[q]] = "Connected"
    BY <2>3 DEF Invariants, WalkInv, PanelOK, Kids
  <2>5. PICK q0 \in Panels, h0 \in Edge : <<q, parent[q]>> = <<q0, h0>> /\ edges[q0][h0] = "NotConnected"
    BY <1>1, <2>1, <2>3
  <2>6. q = q0 /\ parent[q] = h0
    BY <2>5
  <2> QED
    BY <2>4, <2>5, <2>6
<1>8. \A r \in Panels : r # p => probing[r] = NoEdge
  <2> SUFFICES ASSUME NEW r \in Panels, probing[r] # NoEdge PROVE r = p
    OBVIOUS
  <2>1. assigned[r] = assigned[p] /\ assigned[r] # 0
    BY <1>2, ProbesDown
  <2> QED
    BY <2>1, SamePanel DEF Invariants
<1>9. ~Fresh(x)' /\ (peer[x] # NoPort => Answered(peer[x])')
  <2>1. ~Fresh(x)'
    BY <1>1, <1>5 DEF Fresh
  <2>2. ASSUME NEW q \in Panels, NEW h \in Edge, peer[x] = <<q, h>>, edges[q][h] = "NotConnected"
        PROVE  Answered(peer[x])'
    <3>1. edges'[q][h] = "NotConnected" /\ <<q, h>> # Trunk
      BY <1>6, <2>2, PortOf DEF Keeps
    <3> QED
      BY <1>4, <2>2, <3>1 DEF Answered
  <2> QED
    BY <1>1, <2>1, <2>2
<1>10. Settles
  <2> SUFFICES ASSUME NEW z \in Port, Asks(z) PROVE ~Fresh(z)' /\ (peer[z] # NoPort => Answered(peer[z])')
    BY DEF Settles
  <2>1. z = x
    BY <1>2, OneAsker DEF Invariants
  <2> QED
    BY <1>9, <2>1
<1>11. ASSUME NEW r \in Panels PROVE Refused(r)'
  <2>1. CASE r # p
    <3>1. \A d \in Edge : edges'[r][d] = "NotConnected" => edges[r][d] = "NotConnected"
      BY <1>5, <2>1
    <3> QED
      BY <1>6, <3>1, RefusedStay
  <2>2. CASE r = p
    <3> SUFFICES ASSUME NEW d \in Edge, edges'[p][d] = "NotConnected", peer[<<p, d>>] # NoPort
                 PROVE  peer[<<p, d>>] # Trunk /\ Recorded(peer[<<p, d>>][1])'
      BY <1>4, <2>2 DEF Refused
    <3>1. PICK z \in Port : z = peer[<<p, d>>]
      BY PortOf, Wire DEF Invariants, TypeOK
    <3>2. z # Trunk /\ Recorded(z[1])
      <4>1. CASE d # e
        BY <1>5, <3>1, <4>1 DEF Invariants, WalkInv, PanelOK, Refused
      <4>2. CASE d = e
        <5>1. PICK q \in Panels, h \in Edge : z = <<q, h>> /\ edges[q][h] = "NotConnected"
          BY <3>1, <4>2
        <5>2. Recorded(q)
          BY <5>1, NotAnEdge DEF Invariants, WalkInv, PanelOK, Blank, Kids
        <5> QED
          BY <5>1, <5>2, PortOf
      <4> QED
        BY <4>1, <4>2
    <3>3. z[1] \in Panels
      BY <3>2, PortForm
    <3> QED
      BY <1>6, <3>1, <3>2, <3>3 DEF KeepsRecords
  <2> QED
    BY <2>1, <2>2
<1>12. ASSUME NEW r \in Panels, NEW d \in Edge, edges'[r][d] = "Unexplored", peer[<<r, d>>] # NoPort
       PROVE  Fresh(peer[<<r, d>>])'
  <2>1. edges[r][d] = "Unexplored" /\ ~(r = p /\ d = e)
    BY <1>5, <1>6, <1>12 DEF Keeps
  <2>2. PICK z \in Port : z = peer[<<r, d>>] /\ peer[z] = <<r, d>>
    BY <1>12, Wire, PortOf DEF Invariants, TypeOK
  <2>3. probing[r] # d
    BY <1>8, <2>1, NotAnEdge
  <2>4. Fresh(z)
    BY <1>12, <2>1, <2>2, <2>3 DEF Invariants, WalkInv, PanelOK, Half
  <2> SUFFICES ASSUME ~Fresh(z)' PROVE FALSE
    BY <1>4, <2>2 DEF Fresh
  <2>5. z = x
    <3>1. z # Trunk
      BY <1>4, <2>4 DEF Fresh
    <3>2. z[1] \in Panels /\ z[2] \in Edge /\ z = <<z[1], z[2]>>
      BY <3>1, PortForm
    <3>3. edges[z[1]][z[2]] = "Unexplored" /\ edges'[z[1]][z[2]] # "Unexplored"
      BY <2>4, <3>1 DEF Fresh
    <3>4. z[1] = p /\ z[2] = e
      BY <1>5, <3>2, <3>3
    <3> QED
      BY <1>1, <3>2, <3>4
  <2>6. edges[r][d] = "NotConnected"
    <3>1. <<r, d>> \in Port /\ <<r, d>> # NoPort /\ peer[<<p, e>>] = <<r, d>>
      BY <1>1, <2>2, <2>5, PanelsAssumption, PortOf
    <3>2. PICK q0 \in Panels, h0 \in Edge : <<r, d>> = <<q0, h0>> /\ edges[q0][h0] = "NotConnected"
      BY <3>1
    <3>3. r = q0 /\ d = h0
      BY <3>2
    <3> QED
      BY <3>2, <3>3
  <2> QED
    BY <2>1, <2>6
<1>13. ASSUME NEW y \in Port, NEW g \in Carried(c, y) PROVE g \in Carried(chan, y) \/ Fits(y, g)'
  <2> SUFFICES ASSUME y = peer[<<p, parent[p]>>], g.type = "REG", g.index = 0, g.target = 0 PROVE Fits(y, g)'
    OBVIOUS
  <2>1. Below(y) /\ ~Fresh(y) /\ peer[y] = <<p, parent[p]>> /\ ~Fresh(peer[y]) /\ peer[y] # NoPort
    BY <1>3, <1>7, UpPort
  <2>2. Below(y)' /\ ~Fresh(y)'
    BY <1>6, <2>1, StaysBelow, StaysSettled DEF Invariants
  <2>3. PICK v \in Port : v = peer[y] /\ ~Fresh(v)
    BY <1>3, <2>1, PortOf
  <2>4. ~Fresh(v)'
    BY <1>6, <2>3, StaysSettled
  <2>5. peer' = peer /\ ~Fresh(peer[y])'
    BY <1>4, <2>3, <2>4 DEF Fresh
  <2> QED
    BY <2>1, <2>2, <2>5 DEF Fits
<1>14. pendingAssign'[p] = nextPanelIndex
  BY <1>2, <1>4
<1>15. \A r \in Panels, d \in Edge : edges[r][d] = "Unexplored" => edges'[r][d] # "Connected"
  BY <1>5
<1> QED
  BY <1>2, <1>4, <1>5, <1>6, <1>7, <1>8, <1>10, <1>11, <1>12, <1>13, <1>14, <1>15, ProbeOn

\* An edge is refused: the panel goes on to the next one, or is done.
LEMMA ChildRejectedWalk ==
    ASSUME Invariants, NEW p \in Panels, NEW e \in Edge, chan[<<p, e>>] # <<>>,
           NEW f, f = Head(chan[<<p, e>>]), PanelChildRejected(p, e, f),
           UNCHANGED <<peer, faults, coordVars>>
    PROVE  WalkInv'
<1>1. PICK x \in Port : x = <<p, e>> /\ x # Trunk
  BY PortOf
<1>2. f.type = "REG" /\ probing[p] = e /\ probing[p] # NoEdge /\ f.index = 0
  BY PortOf DEF PanelChildRejected, RejectedIndex
<1>3. PICK q \in Panels, h \in Edge :
              /\ peer[<<p, e>>] = <<q, h>> /\ peer[<<q, h>>] = <<p, e>> /\ edges[q][h] = "NotConnected"
              /\ f \in Frame /\ Fits(<<p, e>>, f)
  <2>1. AnswerAt(p, e, f)
    BY <1>2, AnswerHeard
  <2> QED
    BY <1>2, <2>1 DEF AnswerAt
<1>4. Dispatched(p, e, f) = Put(Taken(chan, x), p, {parent[p]}, f)
  BY <1>1, <1>2, RelayUp
<1>5. PICK c : c = Dispatched(p, e, f)
  OBVIOUS
<1>6. Swap(c, x, f, p, parent[p], f)
  BY <1>1, <1>3, <1>4, <1>5, Swapped
<1>7. Asks(x)
  BY <1>1, <1>2, ProbesDown
<1>8. ~IsToken(f) /\ f.target = 0
  BY <1>2, <1>3 DEF IsToken, Fits
<1>9. c \in Channels /\ TokenFree(c)
  <2>1. \A y \in Port : \A g \in Carried(chan, y) : ~IsToken(g)
    BY <1>7, NoTokenAsked
  <2> QED
    BY <1>6, <1>8, <2>1 DEF Swap, TokenFree
<1>10. \A y \in Port : \A g \in Carried(c, y) :
               \/ g \in Carried(chan, y)
               \/ y = peer[<<p, parent[p]>>] /\ g.type = "REG" /\ g.index = 0 /\ g.target = 0
  BY <1>2, <1>6, <1>8 DEF Swap
<1>11. EdgeFailed(p, e, attempts[p], c)
  BY <1>5 DEF PanelChildRejected
<1> QED
  BY <1>2, <1>3, <1>9, <1>10, <1>11, FailedWalk

\* A probe without answer is given up only where no panel is.
LEMMA GiveUpEdgeWalk ==
    ASSUME Recoverable, Invariants, NEW p \in Panels, probing[p] # NoEdge, PanelGiveUpEdge(p),
           UNCHANGED <<peer, coordVars>>
    PROVE  WalkInv'
<1>1. PICK e \in Edge : e = probing[p]
  BY ProbesDown
<1>2. peer[<<p, e>>] = NoPort /\ UNCHANGED faults /\ EdgeFailed(p, e, attempts[p] + 1, chan)
  BY <1>1, GiveUpEmpty
<1>3. chan \in Channels
  BY DEF Channels, Invariants, TypeOK, WiresTypeOK
<1>4. TokenFree(chan)
  BY ProbesDown, NoTokenAsked DEF TokenFree
<1> QED
  BY <1>1, <1>2, <1>3, <1>4, FailedWalk

\* The panel an ADVANCE names takes up its next edge, or is done.
LEMMA AdvanceWalk ==
    ASSUME Invariants, NEW p \in Panels, NEW e \in Edge, chan[<<p, e>>] # <<>>,
           NEW f, f = Head(chan[<<p, e>>]), PanelAdvance(p, e, f),
           UNCHANGED <<peer, faults, coordVars>>
    PROVE  WalkInv'
<1>1. PICK x \in Port : x = <<p, e>>
  BY PortOf
<1>2. f.type = "ADV" /\ f.target = assigned[p] /\ IsToken(f)
  BY DEF PanelAdvance, ActsOnAdvance, IsToken
<1>3. Moves(x, f) /\ f \in Frame /\ Taken(chan, x) \in Channels /\ TokenFree(Taken(chan, x))
      /\ \A y \in Port : \A g \in Carried(Taken(chan, x), y) : g \in Carried(chan, y)
  BY <1>1, <1>2, TheHead
<1>4. frontier # 0 /\ ~complete /\ Idle /\ f.target = frontier /\ f.index = nextPanelIndex /\ assigned[p] = frontier
  BY <1>2, <1>3 DEF Moves
<1>5. PICK c \in Channels : c = Taken(chan, x)
  BY <1>3
<1>6. Dispatched(p, e, f) = c
  BY <1>1, <1>2, <1>4, <1>5 DEF Dispatched, Relays
<1>7. /\ pendingAssign' = [pendingAssign EXCEPT ![p] = nextPanelIndex]
      /\ ProbeNext(p, edges'[p], nextPanelIndex, attempts[p], c)
      /\ UNCHANGED <<peer, nextPanelIndex, frontier, complete, stack, links, waited, faults>>
      /\ UNCHANGED <<assigned, parent, edges, childIndexes>>
  BY <1>4, <1>6 DEF PanelAdvance, coordVars
<1>8. Keeps /\ KeepsKids /\ KeepsRecords
  BY <1>7 DEF Keeps, KeepsKids, KeepsRecords, Recorded
<1>9. \A r \in Panels : probing[r] = NoEdge /\ assigned[r] # nextPanelIndex
  BY <1>4 DEF Idle
<1>10. Settles
  <2> SUFFICES ASSUME NEW z \in Port, Asks(z) PROVE FALSE
    BY DEF Settles
  <2> QED
    BY <1>4, AskedFresh
<1>11. pendingAssign'[p] = nextPanelIndex
  BY <1>7 DEF Invariants, TypeOK, PanelsTypeOK
<1>12. ASSUME NEW r \in Panels PROVE Refused(r)'
  BY <1>7, <1>8, RefusedStay
<1>13. ASSUME NEW r \in Panels, NEW d \in Edge, edges'[r][d] = "Unexplored", peer[<<r, d>>] # NoPort
       PROVE  Fresh(peer[<<r, d>>])'
  <2>1. Half(r) /\ d # NoEdge
    BY NotAnEdge DEF Invariants, WalkInv, PanelOK
  <2>2. Fresh(peer[<<r, d>>])
    BY <1>7, <1>9, <1>13, <2>1 DEF Half
  <2> QED
    BY <1>7, <2>2 DEF Fresh
<1>14. TokenFree(c) /\ \A y \in Port : \A g \in Carried(c, y) : g \in Carried(chan, y)
  BY <1>3, <1>5
<1> QED
  BY <1>4, <1>7, <1>8, <1>9, <1>10, <1>11, <1>12, <1>13, <1>14, ProbeOn

-----------------------------------------------------------------------------
(* The controller moves on: it records a panel, resumes its parent, or is   *)
(* done.                                                                    *)

\* The stack holds indices smaller than the frontier.
LEMMA StackTyped ==
    ASSUME Invariants
    PROVE  /\ stack \in Seq(0 .. MaxPanels) /\ Len(stack) \in Nat /\ Len(links) \in Nat
           /\ frontier \in Nat /\ frontier \in 0 .. MaxPanels /\ nextPanelIndex \in Nat /\ nextPanelIndex >= 1
           /\ (frontier # 0 => frontier < nextPanelIndex)
           /\ \A k \in 1 .. Len(stack) : stack[k] \in Nat /\ stack[k] < frontier
           /\ waited \in Nat /\ faults \in Nat
<1>1. stack \in Seq(0 .. MaxPanels) /\ Len(stack) \in Nat
  BY DEF Invariants, TypeOK, ControllerTypeOK
<1>2. \A k \in 1 .. Len(stack) : stack[k] \in 0 .. MaxPanels
  BY <1>1, ElementOfSeq
<1>3. \A k \in 1 .. Len(stack) : stack[k] < frontier
  BY DEF Invariants, WalkInv, PathOK, Descends
<1> QED
  BY <1>1, <1>2, <1>3, LimitsAssumption
     DEF Invariants, TypeOK, WiresTypeOK, ControllerTypeOK, WalkInv, Numbered

\* A step of the controller leaves the panels as they are; it may settle its own port when
\* the root panel has already settled the other end.
LEMMA CalmPanels ==
    ASSUME Invariants, UNCHANGED <<peer, panelVars>>,
           \A p \in Panels : probing[p] = NoEdge /\ assigned[p] # nextPanelIndex' /\ (Recorded(p) => Recorded(p)'),
           Fresh(Trunk) => Fresh(Trunk)' \/ \E q \in Panels : peer[Trunk] = <<q, parent[q]>> /\ parent[q] # NoEdge,
           NEW r \in Panels
    PROVE  PanelOK(r)'
<1>0. PanelOK(r)
  BY DEF Invariants, WalkInv
<1>1. UNCHANGED <<parent, edges, childIndexes, assigned, pendingAssign, probing, attempts>>
  BY DEF panelVars
<1>2. Blank(r)' /\ Kids(r)'
  BY <1>0, <1>1 DEF PanelOK, Blank, Kids
<1>3. Above(r)'
  BY <1>0, <1>1, NotAnEdge DEF PanelOK, Above
<1>4. Refused(r)'
  <2> SUFFICES ASSUME NEW e \in Edge, edges[r][e] = "NotConnected", peer[<<r, e>>] # NoPort
               PROVE  peer[<<r, e>>] # Trunk /\ Recorded(peer[<<r, e>>][1])'
    BY <1>1 DEF Refused
  <2>1. peer[<<r, e>>] # Trunk /\ Recorded(peer[<<r, e>>][1])
    BY <1>0 DEF PanelOK, Refused
  <2>2. peer[<<r, e>>][1] \in Panels
    BY <2>1, PortOf, Wire, PortForm DEF Invariants, TypeOK
  <2> QED
    BY <2>1, <2>2
<1>5. Half(r)'
  <2> SUFFICES ASSUME NEW e \in Edge, edges[r][e] = "Unexplored", peer[<<r, e>>] # NoPort,
                      ~Fresh(peer[<<r, e>>])'
               PROVE  FALSE
    BY <1>1 DEF Half
  <2>1. PICK z \in Port : z = peer[<<r, e>>] /\ peer[z] = <<r, e>>
    BY Wire, PortOf DEF Invariants, TypeOK
  <2>2. Fresh(z) /\ ~Fresh(z)'
    <3>1. Fresh(z)
      BY <1>0, <2>1, NotAnEdge DEF PanelOK, Half
    <3> QED
      BY <1>1, <2>1, <3>1 DEF Fresh
  <2>3. z = Trunk
    BY <1>1, <2>2 DEF Fresh
  <2>4. PICK q \in Panels : peer[Trunk] = <<q, parent[q]>> /\ parent[q] # NoEdge
    BY <2>2, <2>3
  <2>5. edges[q][parent[q]] = "Connected"
    BY <2>4 DEF Invariants, WalkInv, PanelOK, Kids
  <2>6. r = q /\ e = parent[q]
    BY <2>1, <2>3, <2>4
  <2> QED
    BY <2>5, <2>6
<1>6. Prober(r)' /\ Waiting(r)'
  BY <1>1 DEF Prober, Waiting
<1> QED
  BY <1>2, <1>3, <1>4, <1>5, <1>6 DEF PanelOK

\* The ADV that names the new frontier is the only token.
LEMMA AdvanceSent ==
    ASSUME Invariants, chan[Trunk] # <<>>, TokenFree(Taken(chan, Trunk)),
           NEW g \in Frame, g.type = "ADV", g.target = frontier', g.index = nextPanelIndex',
           chan' = Put(Taken(chan, Trunk), Controller, {0}, g), Keeps, Settles,
           UNCHANGED <<peer, faults, panelVars>>, waited' = 0, frontier' # 0, ~complete', Idle',
           NEW r \in Panels, peer[Trunk] = <<r, parent[r]>>, assigned[r] = 1, OnPath(1)'
    PROVE  /\ AllFit(chan)' /\ Sole(chan)' /\ AllMove(chan)'
           /\ Paid' /\ (\A p \in Panels : ProbePaid(p)') /\ Reported'
<1>0. Trunk \in Port /\ <<Controller, 0>> = Trunk /\ Trunk # NoPort
  BY PanelsAssumption DEF Port, Trunk
<1>1. UNCHANGED <<parent, edges, childIndexes, assigned, pendingAssign, probing, attempts>>
  BY DEF panelVars
<1>2. PICK u \in Port : /\ u = peer[Trunk] /\ u # Trunk /\ u[1] = r /\ u[2] = parent[r] /\ peer[u] = Trunk
  <2>1. <<r, parent[r]>> \in Port /\ <<r, parent[r]>> # Trunk
    BY Rooted DEF Invariants
  <2>2. peer[<<r, parent[r]>>] = Trunk
    BY <1>0, <2>1, WiredBack DEF Invariants, TypeOK
  <2> QED
    BY <2>1, <2>2
<1>3. PICK t : t = Taken(chan, Trunk) /\ t \in Channels /\ TokenFree(t)
             /\ \A y \in Port : \A h \in Carried(t, y) : h \in Carried(chan, y)
  BY <1>0, TheHead
<1>4. chan' = Put(t, Controller, {0}, g)
  BY <1>3
<1>5. PICK c : c = chan'
  OBVIOUS
<1>6. /\ \A y \in Port : \A h \in Carried(c, y) : h \in Carried(t, y) \/ (h = g /\ y = u)
      /\ g \in Carried(c, u) /\ Sole(c)
  <2>1. c = Put(t, Controller, {0}, g)
    BY <1>4, <1>5
  <2>2. \A y \in Port : /\ \A h \in Carried(c, y) : h \in Carried(t, y) \/ (h = g /\ peer[<<Controller, 0>>] = y)
                        /\ peer[<<Controller, 0>>] = y => g \in Carried(c, y)
    BY <1>3, <2>1, Sent
  <2>3. Sole(c)
    BY <1>3, <2>1, FreeSole, SentSole
  <2> QED
    BY <1>0, <1>2, <2>2, <2>3
<1>7. Fits(u, g)'
  <2>1. ~Fresh(Trunk)'
    BY DEF Fresh
  <2> QED
    BY <1>0, <1>1, <1>2, <2>1 DEF Fits
<1>8. AllFit(chan)'
  <2>1. \A y \in Port : \A h \in Carried(chan', y) : h \in Carried(chan, y) \/ Fits(y, h)'
    BY <1>3, <1>5, <1>6, <1>7
  <2> QED
    BY <2>1, AllStayFit DEF Invariants, WalkInv
<1>9. Sole(chan)'
  BY <1>5, <1>6
<1>10. Moves(u, g)'
  BY <1>1, <1>2 DEF Moves
<1>11. AllMove(chan)'
  <2> SUFFICES ASSUME NEW y \in Port, NEW h \in Carried(chan', y) PROVE Moves(y, h)'
    BY DEF AllMove, Carried
  <2>1. CASE h = g /\ y = u
    BY <1>10, <2>1
  <2>2. CASE h \in Carried(t, y)
    <3>1. ~IsToken(h)
      BY <1>3, <2>2 DEF TokenFree
    <3> QED
      BY <3>1 DEF Moves
  <2> QED
    BY <1>5, <1>6, <2>1, <2>2
<1>12. Paid'
  <2>1. ~TokenFree(chan')
    BY <1>5, <1>6 DEF TokenFree, IsToken
  <2> QED
    BY <2>1, StackTyped DEF Paid
<1>13. (\A p \in Panels : ProbePaid(p)') /\ Reported'
  BY DEF Idle, ProbePaid, Reported
<1> QED
  BY <1>8, <1>9, <1>11, <1>12, <1>13

\* The panel that a registration is about, and the node it hangs below.
NewBelow(q, f) ==
    /\ assigned[q] = nextPanelIndex /\ parent[q] = f.edge /\ parent[q] # NoEdge /\ ~complete
    /\ \A p \in Panels : probing[p] = NoEdge
    /\ frontier = 0 => peer[<<q, parent[q]>>] = Trunk /\ nextPanelIndex = 1
    /\ frontier # 0 => \E p \in Panels, e \in Edge :
          /\ peer[<<q, parent[q]>>] = <<p, e>> /\ peer[<<p, e>>] = <<q, parent[q]>> /\ f.parentEdge = e
          /\ assigned[p] = frontier /\ e # parent[p] /\ edges[p][e] = "Connected"
          /\ childIndexes[p][e] = nextPanelIndex

\* A registration that is entered is that of the one panel not recorded yet.
LEMMA RegistersNew ==
    ASSUME Invariants, chan[Trunk] # <<>>, NEW f, f = Head(chan[Trunk]), Registers(f)
    PROVE  \E q \in Panels : NewBelow(q, f)
<1>0. Trunk \in Port
  BY DEF Port
<1>1. f.type = "REG" /\ f.index # 0 /\ f.index = nextPanelIndex /\ nextPanelIndex \in Nat /\ nextPanelIndex >= 1
  BY StackTyped DEF Registers, RejectedIndex
<1>2. Fits(Trunk, f)
  BY <1>0, TheHead
<1>3. PICK q \in Panels :
        /\ assigned[q] = nextPanelIndex /\ parent[q] = f.edge /\ peer[<<q, parent[q]>>][2] = f.parentEdge
        /\ peer[<<q, parent[q]>>] = Trunk \/ ~Fresh(peer[<<q, parent[q]>>])
  BY <1>1, <1>2 DEF Fits, Truthful
<1>4. parent[q] # NoEdge /\ assigned[q] # 0 /\ Waiting(q) /\ Above(q) /\ ~complete
  BY <1>1, <1>3, Rooted DEF Invariants, WalkInv, PanelOK, Waiting
<1>5. CASE frontier = 0
  <2>1. \A p \in Panels : probing[p] = NoEdge
    BY <1>5, ProbesDown
  <2>2. nextPanelIndex = 1
    BY <1>5 DEF Invariants, WalkInv, Numbered
  <2>3. peer[<<q, parent[q]>>] = Trunk
    BY <1>3, <1>4, <2>2 DEF Above
  <2> QED
    BY <1>3, <1>4, <1>5, <2>1, <2>2, <2>3 DEF NewBelow
<1>6. CASE frontier # 0
  <2>1. PICK p \in Panels, e \in Edge :
            /\ peer[<<q, parent[q]>>] = <<p, e>> /\ assigned[p] = frontier /\ e # parent[p]
            /\ probing[p] = NoEdge => edges[p][e] = "Connected"
            /\ probing[p] # NoEdge => probing[p] = e
    BY <1>3, <1>4, <1>6 DEF Waiting
  <2>2. f.parentEdge = e /\ edges[p][e] # "Unexplored"
    <3>1. <<p, e>> # Trunk /\ <<p, e>>[1] = p /\ <<p, e>>[2] = e
      BY PortOf
    <3>2. ~Fresh(<<p, e>>) /\ <<p, e>>[2] = f.parentEdge
      BY <1>3, <2>1, <3>1
    <3> QED
      BY <3>1, <3>2 DEF Fresh
  <2>3. probing[p] = NoEdge /\ edges[p][e] = "Connected"
    BY <2>1, <2>2, ProbesDown
  <2>4. ASSUME NEW b \in Panels PROVE probing[b] = NoEdge
    <3> SUFFICES ASSUME probing[b] # NoEdge PROVE FALSE
      OBVIOUS
    <3>1. assigned[b] = assigned[p] /\ assigned[b] # 0
      BY <1>6, <2>1, ProbesDown
    <3>2. b = p
      BY <3>1, SamePanel DEF Invariants
    <3> QED
      BY <2>3, <3>2
  <2>5. peer[<<p, e>>] = <<q, parent[q]>>
    BY <1>4, <2>1, Rooted DEF Invariants
  <2>6. childIndexes[p][e] = nextPanelIndex
    <3>1. PICK b \in Panels : peer[<<p, e>>] = <<b, parent[b]>> /\ childIndexes[p][e] = assigned[b]
      BY <2>1, <2>3 DEF Invariants, WalkInv, PanelOK, Kids
    <3> QED
      BY <1>3, <2>5, <3>1
  <2> QED
    BY <1>3, <1>4, <1>6, <2>1, <2>2, <2>3, <2>4, <2>5, <2>6 DEF NewBelow
<1> QED
  BY <1>5, <1>6

\* A registration makes its panel the frontier, below the old one.
LEMMA RegisterWalk ==
    ASSUME Recoverable, Invariants, chan[Trunk] # <<>>, NEW f, f = Head(chan[Trunk]),
           ControllerRegister(f), UNCHANGED <<peer, faults, panelVars>>
    PROVE  WalkInv'
<1>0. Trunk \in Port /\ Registers(f) /\ f.index = nextPanelIndex
  BY DEF Port, ControllerRegister, Registers
<1>1. PICK q \in Panels : NewBelow(q, f)
  BY <1>0, RegistersNew
<1>2. /\ assigned[q] = nextPanelIndex /\ parent[q] = f.edge /\ parent[q] # NoEdge /\ ~complete
      /\ \A p \in Panels : probing[p] = NoEdge
  BY <1>1 DEF NewBelow
<1>3. /\ frontier' = nextPanelIndex /\ nextPanelIndex' = nextPanelIndex + 1 /\ stack' = Append(stack, frontier)
      /\ waited' = 0 /\ complete' = complete
      /\ chan' = Put(Taken(chan, Trunk), Controller, {0}, AdvFrame(nextPanelIndex, nextPanelIndex + 1))
      /\ frontier = 0 => links' = links
      /\ frontier # 0 => AddLink(frontier, f.parentEdge, f.index, f.edge)
  BY <1>0 DEF ControllerRegister, SendAdvance
<1>4. UNCHANGED <<parent, edges, childIndexes, assigned, pendingAssign, probing, attempts>>
  BY DEF panelVars
<1>5. /\ stack \in Seq(0 .. MaxPanels) /\ Len(stack) \in Nat /\ Len(links) \in Nat
      /\ frontier \in Nat /\ frontier \in 0 .. MaxPanels /\ nextPanelIndex \in Nat /\ nextPanelIndex >= 1
      /\ (frontier # 0 => frontier < nextPanelIndex)
      /\ \A k \in 1 .. Len(stack) : stack[k] \in Nat /\ stack[k] < frontier
  BY StackTyped
<1>6. /\ Len(stack') = Len(stack) + 1 /\ stack'[Len(stack) + 1] = frontier
      /\ \A k \in 1 .. Len(stack) : stack'[k] = stack[k]
  BY <1>3, <1>5, Pushed
<1>7. \A k \in 1 .. Len(stack') : k = Len(stack) + 1 \/ k \in 1 .. Len(stack)
  BY <1>5, <1>6
<1>8. \A i : OnPath(i)' <=> (OnPath(i) \/ i = nextPanelIndex)
  <2>1. Len(stack) + 1 \in 1 .. Len(stack') /\ \A k \in 1 .. Len(stack) : k \in 1 .. Len(stack')
    BY <1>5, <1>6
  <2> QED
    BY <1>3, <1>6, <1>7, <2>1 DEF OnPath
<1>9. \A p \in Panels : assigned[p] # 0 => assigned[p] <= nextPanelIndex
  BY DEF Invariants, WalkInv, Numbered
<1>10. Keeps /\ KeepsKids
  BY <1>3, <1>4, <1>5 DEF Keeps, KeepsKids
<1>11. \A p \in Panels : assigned[p] # nextPanelIndex' /\ (Recorded(p) => Recorded(p)')
  <2>1. \A p \in Panels : assigned[p] \in Nat
    BY DEF Invariants, TypeOK, PanelsTypeOK
  <2> QED
    BY <1>3, <1>4, <1>5, <1>9, <2>1 DEF Recorded
<1>12. Fresh(Trunk) => peer[Trunk] = <<q, parent[q]>> /\ parent[q] # NoEdge
  <2>1. frontier = 0 => peer[<<q, parent[q]>>] = Trunk
    BY <1>1 DEF NewBelow
  <2>2. <<q, parent[q]>> \in Port /\ peer[peer[<<q, parent[q]>>]] = <<q, parent[q]>>
    BY <1>2, <1>5, Rooted DEF Invariants
  <2> QED
    BY <1>2, <2>1, <2>2 DEF Fresh
<1>13. \A r \in Panels : PanelOK(r)'
  BY <1>2, <1>11, <1>12, CalmPanels
<1>14. Numbered'
  <2>1. ASSUME NEW i \in 1 .. nextPanelIndex PROVE \E p \in Panels : assigned[p] = i
    <3>1. CASE i = nextPanelIndex
      BY <1>2, <3>1
    <3>2. CASE i # nextPanelIndex
      <4>1. i \in 1 .. nextPanelIndex - 1
        BY <1>5, <3>2
      <4> QED
        BY <4>1 DEF Invariants, WalkInv, Numbered
    <3> QED
      BY <3>1, <3>2
  <2>2. \A p \in Panels : assigned[p] <= nextPanelIndex + 1
    <3>1. \A p \in Panels : assigned[p] \in Nat /\ assigned[p] <= nextPanelIndex
      BY DEF Invariants, TypeOK, PanelsTypeOK, WalkInv, Numbered
    <3> QED
      BY <1>5, <3>1
  <2>3. IndicesDistinct'
    BY <1>4 DEF Invariants, WalkInv, Numbered, IndicesDistinct
  <2>4. \A i \in 1 .. nextPanelIndex' - 1 : \E p \in Panels : assigned'[p] = i
    <3>1. nextPanelIndex' - 1 = nextPanelIndex
      BY <1>3, <1>5
    <3> QED
      BY <1>4, <2>1, <3>1
  <2>5. (frontier' # 0 => frontier' < nextPanelIndex') /\ frontier' # 0
    BY <1>3, <1>5
  <2>6. \A p \in Panels : assigned'[p] <= nextPanelIndex'
    BY <1>3, <1>4, <2>2
  <2> QED
    BY <2>3, <2>4, <2>5, <2>6 DEF Numbered
<1>15. Descends'
  <2>1. \A k \in 1 .. Len(stack') : stack'[k] < frontier'
    BY <1>3, <1>5, <1>6, <1>7
  <2>2. \A j, k \in 1 .. Len(stack') : j < k => stack'[j] < stack'[k]
    <3> SUFFICES ASSUME NEW j \in 1 .. Len(stack'), NEW k \in 1 .. Len(stack'), j < k
                 PROVE  stack'[j] < stack'[k]
      OBVIOUS
    <3>1. j \in 1 .. Len(stack)
      BY <1>5, <1>6
    <3>2. CASE k = Len(stack) + 1
      BY <1>5, <1>6, <3>1, <3>2
    <3>3. CASE k \in 1 .. Len(stack)
      BY <1>6, <3>1, <3>3 DEF Invariants, WalkInv, PathOK, Descends
    <3> QED
      BY <1>7, <3>2, <3>3
  <2> QED
    BY <2>1, <2>2 DEF Descends
<1>16. ASSUME NEW r \in Panels PROVE LastChild(r)' /\ OffPath(r)'
  <2>1. ASSUME NEW k \in 1 .. Len(stack'), stack'[k] = assigned[r], assigned[r] # 0, NEW a, a = After(k)'
        PROVE  /\ \E e \in Edge : e # parent[r] /\ edges[r][e] = "Connected" /\ childIndexes[r][e] = a
               /\ \A e \in Edge : e # parent[r] /\ edges[r][e] = "Connected" => childIndexes[r][e] <= a
    <3>1. CASE k \in 1 .. Len(stack)
      <4>1. a = After(k)
        <5>1. k # Len(stack') /\ a = stack'[k + 1]
          BY <1>5, <1>6, <2>1, <3>1 DEF After
        <5>2. k # Len(stack) => k + 1 \in 1 .. Len(stack)
          BY <1>5, <3>1
        <5> QED
          BY <1>6, <5>1, <5>2 DEF After
      <4>2. LastChild(r) /\ stack[k] = assigned[r]
        BY <1>6, <2>1, <3>1 DEF Invariants, WalkInv, PathOK
      <4> QED
        BY <2>1, <3>1, <4>1, <4>2 DEF LastChild
    <3>2. CASE k = Len(stack) + 1
      <4>1. a = nextPanelIndex /\ assigned[r] = frontier /\ frontier # 0
        BY <1>3, <1>6, <2>1, <3>2 DEF After
      <4>2. PICK p \in Panels, e \in Edge :
                assigned[p] = frontier /\ e # parent[p] /\ edges[p][e] = "Connected"
                /\ childIndexes[p][e] = nextPanelIndex
        BY <1>1, <4>1 DEF NewBelow
      <4>3. p = r
        BY <4>1, <4>2, SamePanel DEF Invariants
      <4>4. \A d \in Edge : d # parent[r] /\ edges[r][d] = "Connected" => childIndexes[r][d] <= nextPanelIndex
        BY <1>9, <2>1, DownPort
      <4> QED
        BY <4>1, <4>2, <4>3, <4>4
    <3> QED
      BY <1>7, <3>1, <3>2
  <2>2. OffPath(r)'
    <3>1. OffPath(r)
      BY DEF Invariants, WalkInv, PathOK
    <3>2. PICK a : a = assigned[r] /\ a = assigned'[r]
      BY <1>4
    <3>3. Finished(r) => Finished(r)'
      BY <1>4 DEF Finished, OpenEdges
    <3>4. OnPath(a)' <=> (OnPath(a) \/ a = nextPanelIndex)
      BY <1>8
    <3>5. a # 0 /\ ~OnPath(a)' => Finished(r)'
      BY <3>1, <3>2, <3>3, <3>4 DEF OffPath, Recorded
    <3>6. OnPath(a)' <=> OnPath(assigned[r])'
      BY <3>2 DEF OnPath
    <3> QED
      BY <3>2, <3>5, <3>6 DEF OffPath, Recorded
  <2>3. LastChild(r)'
    BY <1>4, <2>1 DEF LastChild
  <2> QED
    BY <2>2, <2>3
<1>17. LinksOK'
  <2>1. \A k \in 1 .. Len(links) : links[k].parent # 0 /\ links[k] \in Link
           /\ links[k].parent \in Nat /\ links[k].child \in Nat /\ links[k].child = k + 1
    BY LinkTyped
  <2>0. ASSUME NEW k \in 1 .. Len(links), NEW l, l = links[k] PROVE LinkHolds(l)'
    <3>1. LinkHolds(l) /\ l.parent # 0 /\ l.child # 0
      BY <2>0, LinkTyped
    <3> QED
      BY <1>10, <3>1, StaysLinked
  <2>2. CASE frontier = 0
    <3>1. links = <<>> /\ links' = <<>>
      BY <1>3, <2>2 DEF Invariants, TreeInv
    <3>2. Len(links') = 0
      BY <3>1
    <3> QED
      BY <3>2 DEF LinksOK
  <2>3. CASE frontier # 0
    <3>1. Len(links) = nextPanelIndex - 2 /\ Len(links) < MaxPanels
      <4>1. Len(indices) = nextPanelIndex - 1 /\ nextPanelIndex > 1
        BY <1>5, <2>3 DEF Invariants, TreeInv, RecordedTreeIsPreorder
      <4>2. Len(links) = nextPanelIndex - 2
        BY <1>5, <4>1 DEF Invariants, TreeInv, RecordedTreeIsPreorder
      <4>3. nextPanelIndex <= MaxPanels
        BY <1>0 DEF Registers
      <4> QED
        BY <1>5, <4>2, <4>3, LimitsAssumption
    <3>2. PICK l : l = [parent |-> frontier, parentEdge |-> f.parentEdge, child |-> f.index, childEdge |-> f.edge]
      OBVIOUS
    <3>3. links' = Append(links, l)
      BY <1>3, <2>3, <3>1, <3>2 DEF AddLink
    <3>4. links \in Seq(Link \cup {l}) /\ l \in Link \cup {l}
      <4>1. links \in Seq(Link)
        BY DEF Invariants, TypeOK, ControllerTypeOK
      <4> QED
        BY <4>1
    <3>5. /\ Len(links') = Len(links) + 1 /\ links'[Len(links) + 1] = l
          /\ \A k \in 1 .. Len(links) : links'[k] = links[k]
      BY <3>3, <3>4, Pushed
    <3>6. \A k \in 1 .. Len(links') : k = Len(links) + 1 \/ k \in 1 .. Len(links)
      BY <1>5, <3>5
    <3>7. l.parent = frontier /\ l.child = nextPanelIndex
      BY <1>0, <3>2
    <3>8. LinkHolds(l)'
      <4>1. PICK p \in Panels, e \in Edge :
              /\ peer[<<p, e>>] = <<q, parent[q]>> /\ f.parentEdge = e
              /\ assigned[p] = frontier /\ e # parent[p] /\ edges[p][e] = "Connected"
              /\ childIndexes[p][e] = nextPanelIndex
        BY <1>1, <2>3 DEF NewBelow
      <4>2. l.parentEdge = e /\ l.childEdge = parent[q]
        BY <1>2, <3>2, <4>1
      <4>3. LinkHolds(l)
        BY <1>2, <3>7, <4>1, <4>2 DEF LinkHolds
      <4> QED
        BY <1>4, <4>3 DEF LinkHolds
    <3>9. ASSUME NEW k \in 1 .. Len(links') PROVE LinkHolds(links[k])' /\ links'[k].parent # 0
      <4>1. PICK m : m = links'[k]
        OBVIOUS
      <4>2. LinkHolds(m)' /\ m.parent # 0
        <5>1. CASE k = Len(links) + 1
          BY <2>3, <3>5, <3>7, <3>8, <4>1, <5>1
        <5>2. CASE k \in 1 .. Len(links)
          BY <2>0, <2>1, <3>5, <4>1, <5>2
        <5> QED
          BY <3>6, <5>1, <5>2
      <4> QED
        BY <4>1, <4>2 DEF LinkHolds
    <3>10. \A j, k \in 1 .. Len(links') : j < k =>
              links'[k].parent >= links'[j].child \/ links'[k].parent <= links'[j].parent
      <4> SUFFICES ASSUME NEW j \in 1 .. Len(links'), NEW k \in 1 .. Len(links'), j < k
                   PROVE  links'[k].parent >= links'[j].child \/ links'[k].parent <= links'[j].parent
        OBVIOUS
      <4>1. j \in 1 .. Len(links) /\ links'[j] = links[j]
        BY <1>5, <3>5
      <4>2. CASE k = Len(links) + 1
        <5>1. frontier \in 0 .. nextPanelIndex /\ OnPath(frontier)
          BY <1>5, <2>3 DEF OnPath
        <5>2. frontier >= links[j].child \/ frontier <= links[j].parent
          BY <4>1, <5>1 DEF Invariants, WalkInv, LinksOK
        <5> QED
          BY <3>5, <3>7, <4>1, <4>2, <5>2
      <4>3. CASE k \in 1 .. Len(links)
        BY <3>5, <4>1, <4>3 DEF Invariants, WalkInv, LinksOK
      <4> QED
        BY <3>6, <4>2, <4>3
    <3>11. \A i \in 0 .. nextPanelIndex', k \in 1 .. Len(links') : OnPath(i)' =>
              i >= links'[k].child \/ i <= links'[k].parent
      <4> SUFFICES ASSUME NEW i \in 0 .. nextPanelIndex + 1, NEW k \in 1 .. Len(links'), OnPath(i) \/ i = nextPanelIndex
                   PROVE  i >= links'[k].child \/ i <= links'[k].parent
        BY <1>3, <1>8
      <4>1. CASE i = nextPanelIndex
        <5>1. CASE k = Len(links) + 1
          BY <1>5, <3>5, <3>7, <4>1, <5>1
        <5>2. CASE k \in 1 .. Len(links)
          <6>1. links'[k].child = k + 1 /\ k \in Nat /\ k <= Len(links)
            BY <1>5, <2>1, <3>5, <5>2, SMTT(30)
          <6> QED
            BY <1>5, <3>1, <4>1, <6>1
        <5> QED
          BY <3>6, <5>1, <5>2
      <4>2. CASE i # nextPanelIndex
        <5>1. OnPath(i) /\ i <= frontier
          BY <1>5, <4>2 DEF OnPath
        <5>2. i \in 0 .. nextPanelIndex
          BY <1>5, <2>3, <5>1
        <5>3. CASE k = Len(links) + 1
          BY <3>5, <3>7, <5>1, <5>3
        <5>4. CASE k \in 1 .. Len(links)
          BY <3>5, <5>1, <5>2, <5>4 DEF Invariants, WalkInv, LinksOK
        <5> QED
          BY <3>6, <5>3, <5>4
      <4> QED
        BY <4>1, <4>2
    <3> QED
      BY <3>9, <3>10, <3>11 DEF LinksOK
  <2> QED
    BY <2>2, <2>3
<1>18. Over'
  BY <1>2, <1>3 DEF Over
<1>19. Settles
  <2> SUFFICES ASSUME NEW z \in Port, Asks(z) PROVE ~Fresh(z)' /\ (peer[z] # NoPort => Answered(peer[z])')
    BY DEF Settles
  <2>1. z = Trunk
    BY <1>2, AskedFresh
  <2>2. Fresh(Trunk) /\ ~Fresh(Trunk)'
    BY <1>3, <1>5, <2>1, AskedFresh DEF Fresh
  <2>3. <<q, parent[q]>> # Trunk
    BY <1>2, <1>5, Rooted DEF Invariants
  <2>4. Answered(<<q, parent[q]>>)
    BY <2>3 DEF Answered
  <2>5. <<q, parent[q]>> \in Port
    BY <1>2, <1>5, Rooted DEF Invariants
  <2>6. Answered(<<q, parent[q]>>)'
    BY <1>4, <2>4 DEF Answered
  <2>7. peer'[Trunk] = <<q, parent'[q]>>
    BY <1>4, <1>12, <2>2
  <2> QED
    BY <1>4, <2>1, <2>2, <2>6, <2>7
<1>20. PICK r \in Panels : peer[Trunk] = <<r, parent[r]>> /\ assigned[r] = 1
  <2>1. CASE frontier # 0
    BY <2>1, RootPanel
  <2>2. CASE frontier = 0
    <3>1. nextPanelIndex = 1
      BY <1>1, <2>2 DEF NewBelow
    <3> QED
      BY <1>2, <1>12, <2>2, <3>1 DEF Fresh
  <2> QED
    BY <2>1, <2>2
<1>21. OnPath(1)'
  <2>1. CASE frontier # 0
    BY <1>2, <1>8, <2>1, RootOnPath
  <2>2. CASE frontier = 0
    BY <1>1, <1>8, <2>2 DEF NewBelow
  <2> QED
    BY <2>1, <2>2
<1>22. TokenFree(Taken(chan, Trunk))
  <2>1. ~Idle
    BY <1>2 DEF Idle
  <2>2. \A y \in Port : \A g \in Carried(chan, y) : ~IsToken(g)
    BY <2>1 DEF Invariants, WalkInv, AllMove, Moves
  <2>3. \A y \in Port : \A g \in Carried(Taken(chan, Trunk), y) : g \in Carried(chan, y)
    BY <1>0, TheHead
  <2> QED
    BY <2>2, <2>3 DEF TokenFree
<1>23. PICK g \in Frame : /\ g = AdvFrame(nextPanelIndex, nextPanelIndex + 1) /\ g.type = "ADV"
                          /\ g.target = frontier' /\ g.index = nextPanelIndex'
  <2>1. nextPanelIndex + 1 \in Nat
    BY <1>5
  <2>2. AdvFrame(nextPanelIndex, nextPanelIndex + 1) \in Frame
    BY <1>5, <2>1, AdvTyped
  <2> QED
    BY <1>3, <2>2 DEF AdvFrame
<1>24. Idle' /\ frontier' # 0 /\ ~complete'
  BY <1>2, <1>3, <1>4, <1>5, <1>11 DEF Idle
<1>25. chan' = Put(Taken(chan, Trunk), Controller, {0}, g)
  BY <1>3, <1>23
<1>26. /\ AllFit(chan)' /\ Sole(chan)' /\ AllMove(chan)'
       /\ Paid' /\ (\A p \in Panels : ProbePaid(p)') /\ Reported'
  BY <1>3, <1>10, <1>19, <1>20, <1>21, <1>22, <1>23, <1>24, <1>25, AdvanceSent
<1>27. PathOK'
  BY <1>15, <1>16 DEF PathOK
<1> QED
  BY <1>13, <1>14, <1>17, <1>18, <1>26, <1>27 DEF WalkInv

\* The DONE of the root panel ends the walk: what is on no path is finished, and so is the
\* frontier.
LEMMA DoneLastWalk ==
    ASSUME Invariants, chan[Trunk] # <<>>, NEW f, f = Head(chan[Trunk]),
           ControllerDoneLast(f), UNCHANGED <<peer, faults, panelVars>>
    PROVE  WalkInv'
<1>0. Trunk \in Port /\ f.type = "DONE" /\ f.index = frontier /\ IsToken(f)
  BY DEF Port, ControllerDoneLast, Resolves, IsToken
<1>1. /\ Moves(Trunk, f) /\ Fits(Trunk, f) /\ Sole(Taken(chan, Trunk)) /\ TokenFree(Taken(chan, Trunk))
      /\ \A y \in Port : \A g \in Carried(Taken(chan, Trunk), y) : g \in Carried(chan, y)
  BY <1>0, TheHead
<1>2. frontier # 0 /\ ~complete /\ Idle /\ \A p \in Panels : assigned[p] = frontier => Finished(p)
  BY <1>0, <1>1 DEF Moves
<1>3. /\ complete' /\ waited' = 0 /\ chan' = Taken(chan, Trunk)
      /\ UNCHANGED <<nextPanelIndex, frontier, links>>
      /\ stack' = IF stack = <<>> THEN stack ELSE SubSeq(stack, 1, Len(stack) - 1)
      /\ stack # <<>> => stack[Len(stack)] = 0
  BY DEF ControllerDoneLast, Resumable
<1>4. UNCHANGED <<parent, edges, childIndexes, assigned, pendingAssign, probing, attempts>>
  BY DEF panelVars
<1>5. Len(stack') = 0 /\ \A k \in 1 .. Len(stack) : stack[k] = 0
  <2>1. stack \in Seq(0 .. MaxPanels)
    BY StackTyped
  <2>2. CASE stack = <<>>
    BY <1>3, <2>2
  <2>3. CASE stack # <<>>
    <3>1. Len(stack) = 1
      BY <1>3, <2>3, SentinelAtBottom DEF Invariants, TypeOK
    <3>2. Len(stack') = 0
      BY <1>3, <2>1, <2>3, <3>1, Popped
    <3>3. \A k \in 1 .. Len(stack) : k = Len(stack)
      BY <3>1
    <3> QED
      BY <1>3, <2>3, <3>2, <3>3
  <2> QED
    BY <2>2, <2>3
<1>6. /\ \A i : OnPath(i)' <=> i = frontier
      /\ \A i : OnPath(i) => i = frontier \/ i = 0
  BY <1>3, <1>5 DEF OnPath
<1>7. \A r \in Panels : PanelOK(r)'
  <2>1. \A p \in Panels : probing[p] = NoEdge /\ assigned[p] # nextPanelIndex' /\ (Recorded(p) => Recorded(p)')
    BY <1>2, <1>3, <1>4 DEF Idle, Recorded
  <2>2. ~Fresh(Trunk)
    BY <1>2 DEF Fresh
  <2> QED
    BY <2>1, <2>2, CalmPanels
<1>8. Numbered'
  BY <1>3, <1>4 DEF Invariants, WalkInv, Numbered, IndicesDistinct
<1>9. ASSUME NEW r \in Panels PROVE assigned[r] # 0 => Finished(r)
  <2> SUFFICES ASSUME assigned[r] # 0, assigned[r] # frontier PROVE Finished(r)
    BY <1>2
  <2>1. Recorded(r) /\ ~OnPath(assigned[r])
    BY <1>2, <1>6 DEF Recorded, Idle
  <2> QED
    BY <2>1 DEF Invariants, WalkInv, PathOK, OffPath
<1>10. \A r \in Panels : Finished(r) => Finished(r)'
  BY <1>4 DEF Finished, OpenEdges
<1>11. PathOK'
  <2>1. Descends' /\ \A r \in Panels : LastChild(r)'
    BY <1>5 DEF Descends, LastChild
  <2>2. \A r \in Panels : OffPath(r)'
    BY <1>4, <1>9, <1>10 DEF OffPath, Recorded
  <2> QED
    BY <2>1, <2>2 DEF PathOK
<1>12. LinksOK'
  <2>1. ASSUME NEW k \in 1 .. Len(links) PROVE LinkHolds(links[k])'
    <3>1. LinkHolds(links[k])
      BY DEF Invariants, WalkInv, LinksOK
    <3> QED
      BY <1>3, <1>4, <3>1 DEF LinkHolds
  <2>2. OnPath(frontier)
    BY DEF OnPath
  <2>3. \A i \in 0 .. nextPanelIndex, k \in 1 .. Len(links) : i = frontier =>
            i >= links[k].child \/ i <= links[k].parent
    BY <2>2 DEF Invariants, WalkInv, LinksOK
  <2>4. \A i \in 0 .. nextPanelIndex', k \in 1 .. Len(links') : OnPath(i)' =>
            i >= links'[k].child \/ i <= links'[k].parent
    BY <1>3, <1>6, <2>3
  <2> QED
    BY <1>3, <2>1, <2>4 DEF Invariants, WalkInv, LinksOK
<1>13. Over'
  BY <1>2, <1>3, <1>4, <1>9, <1>10 DEF Over, Idle
<1>14. Keeps /\ Settles
  <2>1. Keeps
    BY <1>3, <1>4 DEF Keeps
  <2>2. \A z \in Port : ~Asks(z)
    BY <1>2, AskedFresh
  <2> QED
    BY <2>1, <2>2 DEF Settles
<1>15. AllFit(chan)'
  BY <1>1, <1>3, <1>14, AllStayFit DEF Invariants, WalkInv
<1>16. Sole(chan)'
  BY <1>1, <1>3
<1>17. AllMove(chan)'
  <2>1. \A y \in Port : \A g \in Carried(chan', y) : ~IsToken(g)
    BY <1>1, <1>3 DEF TokenFree
  <2> QED
    BY <2>1 DEF AllMove, Moves, Carried
<1>18. Paid' /\ (\A p \in Panels : ProbePaid(p)') /\ Reported'
  BY <1>2, <1>3, <1>4, StackTyped DEF Idle, Paid, ProbePaid, Reported
<1> QED
  BY <1>7, <1>8, <1>11, <1>12, <1>13, <1>15, <1>16, <1>17, <1>18 DEF WalkInv

\* The DONE of any other panel makes its parent the frontier again.
LEMMA DoneResumeWalk ==
    ASSUME Invariants, chan[Trunk] # <<>>, NEW f, f = Head(chan[Trunk]),
           ControllerDoneResume(f), UNCHANGED <<peer, faults, panelVars>>
    PROVE  WalkInv'
<1>0. Trunk \in Port /\ f.type = "DONE" /\ f.index = frontier /\ IsToken(f)
  BY DEF Port, ControllerDoneResume, Resolves, IsToken
<1>1. Moves(Trunk, f) /\ TokenFree(Taken(chan, Trunk))
  BY <1>0, TheHead
<1>2. frontier # 0 /\ ~complete /\ Idle /\ \A p \in Panels : assigned[p] = frontier => Finished(p)
  BY <1>0, <1>1 DEF Moves
<1>3. /\ stack # <<>> /\ stack[Len(stack)] # 0 /\ frontier' = stack[Len(stack)]
      /\ stack' = SubSeq(stack, 1, Len(stack) - 1) /\ waited' = 0
      /\ UNCHANGED <<nextPanelIndex, complete, links>>
      /\ chan' = Put(Taken(chan, Trunk), Controller, {0}, AdvFrame(stack[Len(stack)], nextPanelIndex))
  BY DEF ControllerDoneResume, Resumable, SendAdvance
<1>4. UNCHANGED <<parent, edges, childIndexes, assigned, pendingAssign, probing, attempts>>
  BY DEF panelVars
<1>5. /\ stack \in Seq(0 .. MaxPanels) /\ Len(stack) \in Nat
      /\ frontier \in Nat /\ nextPanelIndex \in Nat
      /\ (frontier # 0 => frontier < nextPanelIndex)
      /\ \A k \in 1 .. Len(stack) : stack[k] \in Nat /\ stack[k] < frontier
  BY StackTyped
<1>6. PICK n \in Nat : n = Len(stack) /\ n >= 1 /\ n \in 1 .. Len(stack)
  BY <1>3, <1>5
<1>7. /\ Len(stack') = n - 1 /\ frontier' = stack[n]
      /\ \A k \in 1 .. n - 1 : stack'[k] = stack[k] /\ k \in 1 .. Len(stack)
  BY <1>3, <1>5, <1>6, Popped
<1>8. \A k \in 1 .. Len(stack) : k = n \/ k \in 1 .. n - 1
  BY <1>6
<1>9. \A i : OnPath(i) <=> (OnPath(i)' \/ i = frontier)
  BY <1>6, <1>7, <1>8 DEF OnPath
<1>10. \A r \in Panels : PanelOK(r)'
  <2>1. \A p \in Panels : probing[p] = NoEdge /\ assigned[p] # nextPanelIndex' /\ (Recorded(p) => Recorded(p)')
    BY <1>2, <1>3, <1>4 DEF Idle, Recorded
  <2>2. ~Fresh(Trunk)
    BY <1>2 DEF Fresh
  <2> QED
    BY <2>1, <2>2, CalmPanels
<1>11. frontier' \in Nat /\ frontier' # 0 /\ frontier' < frontier
  BY <1>3, <1>5, <1>6, <1>7
<1>12. Numbered'
  <2>1. frontier' < nextPanelIndex
    BY <1>2, <1>5, <1>11
  <2> QED
    BY <1>3, <1>4, <1>11, <2>1 DEF Invariants, WalkInv, Numbered, IndicesDistinct
<1>13. Descends'
  <2>1. \A k \in 1 .. n - 1 : stack[k] < stack[n] /\ \A j \in 1 .. n - 1 : j < k => stack[j] < stack[k]
    <3>1. \A j, k \in 1 .. Len(stack) : j < k => stack[j] < stack[k]
      BY DEF Invariants, WalkInv, PathOK, Descends
    <3>2. \A k \in 1 .. n - 1 : k \in 1 .. Len(stack) /\ k < n
      BY <1>6
    <3> QED
      BY <1>6, <3>1, <3>2
  <2> QED
    BY <1>7, <2>1 DEF Descends
<1>14. ASSUME NEW r \in Panels PROVE LastChild(r)'
  <2>1. ASSUME NEW k \in 1 .. Len(stack'), stack'[k] = assigned[r], assigned[r] # 0, NEW a, a = After(k)'
        PROVE  /\ \E e \in Edge : e # parent[r] /\ edges[r][e] = "Connected" /\ childIndexes[r][e] = a
               /\ \A e \in Edge : e # parent[r] /\ edges[r][e] = "Connected" => childIndexes[r][e] <= a
    <3>1. k \in 1 .. Len(stack) /\ k # Len(stack) /\ stack[k] = assigned[r]
      BY <1>6, <1>7, <2>1
    <3>2. a = stack[k + 1]
      <4>1. CASE k = n - 1
        BY <1>6, <1>7, <2>1, <4>1 DEF After
      <4>2. CASE k # n - 1
        <5>1. k + 1 \in 1 .. n - 1
          BY <1>6, <1>7, <4>2
        <5> QED
          BY <1>7, <2>1, <4>2, <5>1 DEF After
      <4> QED
        BY <4>1, <4>2
    <3>3. a = After(k)
      BY <3>1, <3>2 DEF After
    <3>4. LastChild(r)
      BY DEF Invariants, WalkInv, PathOK
    <3> QED
      BY <2>1, <3>1, <3>3, <3>4 DEF LastChild
  <2> QED
    BY <1>4, <2>1 DEF LastChild
<1>15. ASSUME NEW r \in Panels PROVE OffPath(r)'
  <2>1. OffPath(r)
    BY DEF Invariants, WalkInv, PathOK
  <2>2. PICK a : a = assigned[r] /\ a = assigned'[r]
    BY <1>4
  <2>3. Finished(r) => Finished(r)'
    BY <1>4 DEF Finished, OpenEdges
  <2>4. OnPath(a) <=> (OnPath(a)' \/ a = frontier)
    BY <1>9
  <2>5. Recorded(r)' /\ ~OnPath(a)' => Finished(r)'
    BY <1>2, <1>3, <2>1, <2>2, <2>3, <2>4 DEF OffPath, Recorded
  <2>6. OnPath(a)' <=> OnPath(assigned[r])'
    BY <2>2 DEF OnPath
  <2> QED
    BY <2>5, <2>6 DEF OffPath
<1>16. PathOK'
  BY <1>13, <1>14, <1>15 DEF PathOK
<1>17. LinksOK'
  <2>1. ASSUME NEW k \in 1 .. Len(links) PROVE LinkHolds(links[k])'
    <3>1. LinkHolds(links[k])
      BY DEF Invariants, WalkInv, LinksOK
    <3> QED
      BY <1>3, <1>4, <3>1 DEF LinkHolds
  <2>2. \A i \in 0 .. nextPanelIndex', k \in 1 .. Len(links') : OnPath(i)' =>
            i >= links'[k].child \/ i <= links'[k].parent
    BY <1>3, <1>9 DEF Invariants, WalkInv, LinksOK
  <2> QED
    BY <1>3, <2>1, <2>2 DEF Invariants, WalkInv, LinksOK
<1>18. Over'
  BY <1>2, <1>3 DEF Over
<1>19. Keeps /\ Settles
  <2>1. Keeps
    BY <1>4, <1>11 DEF Keeps
  <2>2. \A z \in Port : ~Asks(z)
    BY <1>2, AskedFresh
  <2> QED
    BY <2>1, <2>2 DEF Settles
<1>20. PICK r \in Panels : peer[Trunk] = <<r, parent[r]>> /\ assigned[r] = 1
  BY <1>2, RootPanel
<1>21. OnPath(1)'
  <2>1. OnPath(1)
    BY <1>2, RootOnPath
  <2>2. frontier # 1
    BY <1>5, <1>11
  <2> QED
    BY <1>9, <2>1, <2>2
<1>22. PICK g \in Frame : /\ g = AdvFrame(stack[Len(stack)], nextPanelIndex) /\ g.type = "ADV"
                          /\ g.target = frontier' /\ g.index = nextPanelIndex'
  <2>1. AdvFrame(stack[Len(stack)], nextPanelIndex) \in Frame
    BY <1>3, <1>5, <1>11, AdvTyped
  <2> QED
    BY <1>3, <2>1 DEF AdvFrame
<1>23. Idle' /\ ~complete'
  BY <1>2, <1>3, <1>4 DEF Idle
<1>24. chan' = Put(Taken(chan, Trunk), Controller, {0}, g)
  BY <1>3, <1>22
<1>25. /\ AllFit(chan)' /\ Sole(chan)' /\ AllMove(chan)'
       /\ Paid' /\ (\A p \in Panels : ProbePaid(p)') /\ Reported'
  BY <1>1, <1>3, <1>11, <1>19, <1>20, <1>21, <1>22, <1>23, <1>24, AdvanceSent
<1> QED
  BY <1>10, <1>12, <1>16, <1>17, <1>18, <1>25 DEF WalkInv

-----------------------------------------------------------------------------
(* The walk as a whole.                                                     *)

\* At power-up the controller's offer is on the trunk and nothing else has happened.
LEMMA InitWalk == Init => WalkInv
<1> SUFFICES ASSUME Init PROVE WalkInv
  OBVIOUS
<1>1. /\ nextPanelIndex = 1 /\ frontier = 0 /\ Len(stack) = 0 /\ ~complete /\ waited = 0
      /\ faults = 0 /\ Len(links) = 0
  BY DEF Init, ControllerInit
<1>2. \A p \in Panels : /\ parent[p] = NoEdge /\ assigned[p] = 0 /\ probing[p] = NoEdge
                        /\ \A e \in Edge : edges[p][e] = "Unexplored"
  BY DEF Init, PanelsInit
<1>3. TypeOK
  BY InitTyped
<1>4. Trunk \in Port /\ Trunk = <<Controller, 0>> /\ Trunk[2] = 0
  BY DEF Port, Trunk
<1>5. \A x \in Port : Fresh(x)
  BY <1>1, <1>2, PortForm DEF Fresh
<1>6. ASSUME NEW p \in Panels PROVE PanelOK(p) /\ LastChild(p) /\ OffPath(p) /\ ProbePaid(p)
  <2>1. Half(p)
    <3>1. \A e \in Edge : peer[<<p, e>>] # NoPort => peer[<<p, e>>] \in Port
      BY <1>3, PortOf, Wire DEF TypeOK
    <3> QED
      BY <1>5, <3>1 DEF Half
  <2>2. Blank(p) /\ Kids(p) /\ Above(p) /\ Refused(p) /\ Prober(p) /\ Waiting(p)
    BY <1>1, <1>2 DEF Blank, Kids, Above, Refused, Prober, Waiting
  <2>3. LastChild(p) /\ OffPath(p) /\ ProbePaid(p)
    BY <1>1, <1>2 DEF LastChild, OffPath, Recorded, ProbePaid
  <2> QED
    BY <2>1, <2>2, <2>3 DEF PanelOK
<1>7. Numbered
  BY <1>1, <1>2 DEF Numbered, IndicesDistinct
<1>8. Descends /\ LinksOK /\ Over
  BY <1>1 DEF Descends, LinksOK, Over
<1> DEFINE none == [q \in Port |-> <<>>]
<1>9. /\ none \in Channels /\ \A q \in Port : Carried(none, q) = {}
  BY DEF Channels, Carried
<1>10. PICK g \in Frame : g = PullFrame(1, 0) /\ g.type = "PULL" /\ g.index = 1 /\ g.parentEdge = 0
  <2>1. PullFrame(1, 0) \in Frame
    BY PullTyped DEF NoEdge
  <2> QED
    BY <2>1 DEF PullFrame
<1>11. chan = Put(none, Controller, {0}, g)
  BY <1>1, <1>10 DEF Init, SendRootPull
<1> HIDE DEF none
<1>12. \A y \in Port : /\ \A h \in Carried(chan, y) : h = g /\ peer[Trunk] = y
                       /\ peer[Trunk] = y => g \in Carried(chan, y)
  BY <1>4, <1>9, <1>11, Sent
<1>13. ~IsToken(g)
  BY <1>10 DEF IsToken
<1>14. Sole(chan)
  <2>1. TokenFree(none)
    BY <1>9 DEF TokenFree
  <2> QED
    BY <1>9, <1>11, <1>13, <2>1, FreeSole, SentSole
<1>15. AllMove(chan)
  BY <1>12, <1>13 DEF AllMove, Moves
<1>16. AllFit(chan)
  <2> SUFFICES ASSUME NEW y \in Port, peer[Trunk] = y PROVE Fits(y, g)
    BY <1>12 DEF AllFit
  <2>1. peer[y] = Trunk /\ y # Trunk
    <3>1. Trunk # NoPort /\ y # NoPort
      BY <1>4, PanelsAssumption
    <3> QED
      BY <1>3, <1>4, <3>1, Wire DEF TypeOK
  <2>2. Asks(peer[y])
    BY <1>1, <2>1 DEF Asks
  <2> QED
    BY <1>1, <1>4, <1>10, <2>1, <2>2 DEF Fits
<1>17. Paid
  <2> SUFFICES ASSUME peer[Trunk] # NoPort PROVE ~Quiet(Trunk)
    BY <1>1 DEF Paid
  <2>1. PICK y \in Port : y = peer[Trunk]
    BY <1>3, <1>4, Wire DEF TypeOK
  <2>2. g \in Carried(chan, y)
    BY <1>12, <2>1
  <2>3. chan[y] # <<>>
    BY <2>2, CarriedSome
  <2> QED
    BY <2>1, <2>3 DEF Quiet
<1>18. Reported
  BY <1>1 DEF Reported
<1> QED
  BY <1>6, <1>7, <1>8, <1>14, <1>15, <1>16, <1>17, <1>18 DEF WalkInv, PathOK

\* Whatever the controller receives.
LEMMA ControllerReceiveWalk == Recoverable /\ Invariants /\ ControllerReceive => WalkInv'
<1> SUFFICES ASSUME Recoverable, Invariants, ControllerReceive PROVE WalkInv'
  OBVIOUS
<1>1. PICK f : f = Head(chan[Trunk])
  OBVIOUS
<1>2. chan[Trunk] # <<>> /\ UNCHANGED <<peer, faults, panelVars>>
  BY DEF ControllerReceive
<1>3. ControllerRegister(f) \/ ControllerDoneLast(f) \/ ControllerDoneResume(f) \/ ControllerIgnore(f)
  BY <1>1 DEF ControllerReceive
<1>4. CASE ControllerRegister(f)
  BY <1>1, <1>2, <1>4, RegisterWalk
<1>5. CASE ControllerDoneLast(f)
  BY <1>1, <1>2, <1>5, DoneLastWalk
<1>6. CASE ControllerDoneResume(f)
  BY <1>1, <1>2, <1>6, DoneResumeWalk
<1>7. CASE ControllerIgnore(f)
  BY <1>1, <1>2, <1>7, IgnoreWalk
<1> QED
  BY <1>3, <1>4, <1>5, <1>6, <1>7

\* Whatever a panel receives.
LEMMA PanelReceiveWalk ==
    ASSUME Invariants, TypeOK', NEW p \in Panels, NEW e \in Edge, PanelReceive(p, e)
    PROVE  WalkInv'
<1>1. PICK f : f = Head(chan[<<p, e>>])
  OBVIOUS
<1>2. chan[<<p, e>>] # <<>> /\ UNCHANGED <<peer, faults, coordVars>>
  BY DEF PanelReceive
<1>3. \/ PanelAcceptOffer(p, e, f) \/ PanelRejectOffer(p, e, f) \/ PanelChildAccepted(p, e, f)
      \/ PanelChildRejected(p, e, f) \/ PanelAdvance(p, e, f) \/ PanelRelayOnly(p, e, f)
  BY <1>1 DEF PanelReceive
<1>4. CASE PanelAcceptOffer(p, e, f)
  <2>1. CASE assigned[p] = 0
    BY <1>1, <1>2, <1>4, <2>1, AcceptFirstWalk
  <2>2. CASE assigned[p] # 0
    BY <1>1, <1>2, <1>4, <2>2, AcceptRepeatWalk
  <2> QED
    BY <2>1, <2>2
<1>5. CASE PanelRejectOffer(p, e, f)
  <2>1. CASE edges[p][e] = "NotConnected"
    BY <1>1, <1>2, <1>5, <2>1, RejectRepeatWalk
  <2>2. CASE edges[p][e] # "NotConnected"
    BY <1>1, <1>2, <1>5, <2>2, RejectFirstWalk
  <2> QED
    BY <2>1, <2>2
<1>6. CASE PanelChildAccepted(p, e, f)
  BY <1>1, <1>2, <1>6, ChildAcceptedWalk
<1>7. CASE PanelChildRejected(p, e, f)
  BY <1>1, <1>2, <1>7, ChildRejectedWalk
<1>8. CASE PanelAdvance(p, e, f)
  BY <1>1, <1>2, <1>8, AdvanceWalk
<1>9. CASE PanelRelayOnly(p, e, f)
  BY <1>1, <1>2, <1>9, RelayOnlyWalk
<1> QED
  BY <1>3, <1>4, <1>5, <1>6, <1>7, <1>8, <1>9

\* Every step keeps the invariant of the walk.
LEMMA NextWalk == Recoverable /\ Invariants /\ TypeOK' /\ [Next]_vars => WalkInv'
<1> SUFFICES ASSUME Recoverable, Invariants, TypeOK', [Next]_vars PROVE WalkInv'
  OBVIOUS
<1>1. CASE ControllerReceive
  BY <1>1, ControllerReceiveWalk
<1>2. CASE CoordinatorTick
  <2>1. /\ IntervalPasses
        /\ RetryRoot \/ GiveUpRoot \/ RetryAdvance \/ GiveUpWalk
        /\ UNCHANGED <<peer, nextPanelIndex, frontier, stack, indices, links, panelVars>>
    BY <1>2 DEF CoordinatorTick
  <2> QED
    BY <2>1, RetryRootWalk, GiveUpRootWalk, RetryAdvanceWalk, NoGiveUpWalk
<1>3. CASE Convert
  BY <1>3, ConvertWalk
<1>4. ASSUME NEW p \in Panels, NEW e \in Edge, PanelReceive(p, e) PROVE WalkInv'
  BY <1>4, PanelReceiveWalk
<1>5. ASSUME NEW p \in Panels, PanelProbeTimeout(p) PROVE WalkInv'
  <2>1. /\ probing[p] # NoEdge
        /\ PanelResendProbe(p) \/ PanelGiveUpEdge(p)
        /\ UNCHANGED <<peer, coordVars>>
    BY <1>5 DEF PanelProbeTimeout
  <2> QED
    BY <2>1, ResendWalk, GiveUpEdgeWalk
<1>6. ASSUME NEW x \in Port, LoseFrame(x) PROVE WalkInv'
  BY <1>6, LoseFrameWalk
<1>7. CASE UNCHANGED vars
  BY <1>7, StutterWalk
<1> QED
  BY <1>1, <1>2, <1>3, <1>4, <1>5, <1>6, <1>7 DEF Next

\* The boot loop leaves discovery only when the coordinator is complete.
Left == converted => complete

\* Every step keeps to that.
LEMMA NextLeft == TypeOK /\ Left /\ [Next]_vars => Left'
<1> SUFFICES ASSUME TypeOK, Left, [Next]_vars PROVE Left'
  OBVIOUS
<1>1. CASE UNCHANGED coordVars
  BY <1>1 DEF coordVars, Left
<1>2. CASE ControllerReceive
  BY <1>2 DEF ControllerReceive, ControllerRegister, ControllerDoneLast, ControllerDoneResume, ControllerIgnore, Left
<1>3. CASE CoordinatorTick
  BY <1>3 DEF CoordinatorTick, IntervalPasses, RetryRoot, GiveUpRoot, RetryAdvance, GiveUpWalk, Left
<1>4. CASE Convert
  BY <1>4 DEF Convert, Left
<1>5. ASSUME NEW p \in Panels, NEW e \in Edge, PanelReceive(p, e) PROVE UNCHANGED coordVars
  BY <1>5 DEF PanelReceive
<1>6. ASSUME NEW p \in Panels, PanelProbeTimeout(p) PROVE UNCHANGED coordVars
  BY <1>6 DEF PanelProbeTimeout
<1>7. ASSUME NEW q \in Port, LoseFrame(q) PROVE UNCHANGED coordVars
  BY <1>7 DEF LoseFrame
<1>8. UNCHANGED vars => UNCHANGED coordVars
  BY DEF vars
<1> QED
  BY <1>1, <1>2, <1>3, <1>4, <1>5, <1>6, <1>7, <1>8 DEF Next

\* All of it holds in every state of a boot that can recover from its faults.
THEOREM WalkInvariant ==
    ASSUME Recoverable
    PROVE  Spec => [](Invariants /\ Left)
<1>1. Init => Invariants /\ Left
  BY InitTyped, InitTree, InitFlood, InitWalk DEF Invariants, Init, ControllerInit, Left
<1>2. Invariants /\ Left /\ TypeOK' /\ [Next]_vars => (Invariants /\ Left)'
  BY NextTree, NextFlood, NextWalk, NextLeft DEF Invariants
<1> QED
  BY <1>1, <1>2, TypeCorrect, PTL DEF Spec

\* PanelDiscoveryDriver: whatever probe, answer or ADVANCE is lost and resent, no two panels
\* come to answer to one index.
THEOREM IndicesStayDistinct ==
    ASSUME Recoverable
    PROVE  Spec => []IndicesDistinct
<1>1. Invariants /\ Left => IndicesDistinct
  BY DEF Invariants, WalkInv, Numbered
<1> QED
  BY <1>1, WalkInvariant, PTL

\* DiscoveryTreeBuilder: every link the controller has recorded is a wire between the two
\* panels that answer to its indices, at the edges the registration named.
THEOREM LinksStayWires ==
    ASSUME Recoverable
    PROVE  Spec => []LinksAreWires
<1>1. Invariants /\ Left => LinksAreWires
  BY DEF Invariants, WalkInv, LinksOK, LinkHolds, LinksAreWires
<1> QED
  BY <1>1, WalkInvariant, PTL

\* Every neighbour of a recorded panel that has explored all its edges has an index.
LEMMA NeighbourIndexed ==
    ASSUME Invariants, NEW m \in Panels, assigned[m] # 0, Finished(m), NEW n \in Panels, Wired(m, n)
    PROVE  assigned[n] # 0
<1>1. PICK x \in Port, y \in Port : x[1] = m /\ y[1] = n /\ peer[x] = y
  BY DEF Wired
<1>2. x # Trunk /\ y # Trunk
  BY <1>1, PanelsAssumption DEF Trunk
<1>3. PICK d \in Edge, h \in Edge : x = <<m, d>> /\ y = <<n, h>>
  BY <1>1, <1>2, PortForm
<1>4. PanelOK(m)
  BY DEF Invariants, WalkInv
<1>5. peer[<<m, d>>] = <<n, h>> /\ <<n, h>> # Trunk /\ <<n, h>> # NoPort
  BY <1>1, <1>2, <1>3, PanelsAssumption
<1>6. CASE d = parent[m]
  <2>1. assigned[m] # 1
    BY <1>4, <1>5, <1>6 DEF PanelOK, Above
  <2>2. PICK p \in Panels, e \in Edge : <<n, h>> = <<p, e>> /\ assigned[p] # 0
    BY <1>4, <1>5, <1>6, <2>1 DEF PanelOK, Above
  <2> QED
    BY <2>2
<1>7. CASE d # parent[m] /\ edges[m][d] = "Connected"
  <2>1. PICK q \in Panels : peer[<<m, d>>] = <<q, parent[q]>> /\ assigned[q] # 0
    BY <1>7, DownPort
  <2>2. <<n, h>> = <<q, parent[q]>>
    BY <1>5, <2>1
  <2> QED
    BY <2>1, <2>2
<1>8. CASE d # parent[m] /\ edges[m][d] = "NotConnected"
  <2>1. Recorded(peer[<<m, d>>][1])
    BY <1>4, <1>5, <1>8 DEF PanelOK, Refused
  <2> QED
    BY <1>5, <2>1 DEF Recorded
<1>9. d # parent[m] => edges[m][d] # "Unexplored"
  BY DEF Finished, OpenEdges
<1>10. edges[m][d] \in EdgeState
  BY DEF Invariants, TypeOK, PanelsTypeOK
<1> QED
  BY <1>6, <1>7, <1>8, <1>9, <1>10 DEF EdgeState

\* The node plugged into the trunk has an index, if there is one.
LEMMA TrunkIndexed ==
    ASSUME Invariants, NEW n \in Panels, Wired(Controller, n)
    PROVE  peer[Trunk] # NoPort /\ (frontier # 0 => assigned[n] # 0)
<1>1. PICK x \in Port, y \in Port : x[1] = Controller /\ y[1] = n /\ peer[x] = y
  BY DEF Wired
<1>2. x = Trunk /\ y # NoPort
  BY <1>1, PortForm, PanelsAssumption
<1>3. ASSUME frontier # 0 PROVE assigned[n] # 0
  <2>1. PICK r \in Panels : assigned[r] = 1 /\ peer[Trunk] = <<r, parent[r]>>
    BY <1>3, RootPanel
  <2>2. n = r
    BY <1>1, <1>2, <2>1
  <2> QED
    BY <2>1, <2>2
<1> QED
  BY <1>1, <1>2, <1>3

\* DiscoveryCoordinator: whatever is lost on the way, a finished boot has found every panel
\* that is wired, directly or through others, to the controller, and has recorded it under
\* the index the panel answers to.
THEOREM EveryPanelFound ==
    ASSUME Recoverable
    PROVE  Spec => []FindsEveryPanel
<1>1. Invariants /\ Left => FindsEveryPanel
  <2> SUFFICES ASSUME Invariants, Left, converted, NEW p \in Reachable
               PROVE  \E k \in 1 .. Len(indices) : indices[k] = assigned[p]
    BY DEF FindsEveryPanel
  <2>1. complete /\ Idle /\ IF frontier = 0 THEN peer[Trunk] = NoPort
                            ELSE (\A r \in Panels : assigned[r] # 0 => Finished(r))
    BY DEF Left, Over, Invariants, WalkInv
  <2> DEFINE S == {Controller} \cup {r \in Panels : assigned[r] # 0}
  <2>2. ASSUME NEW m \in S, NEW n \in Panels, Wired(m, n) PROVE n \in S
    <3>1. CASE m = Controller
      BY <2>1, <2>2, <3>1, TrunkIndexed
    <3>2. CASE m # Controller
      <4>1. m \in Panels /\ assigned[m] # 0
        BY <3>2
      <4>2. frontier # 0
        <5>1. assigned[m] \in Nat /\ assigned[m] <= nextPanelIndex /\ assigned[m] # nextPanelIndex
          BY <2>1, <4>1 DEF Idle, Invariants, TypeOK, PanelsTypeOK, WalkInv, Numbered
        <5> QED
          BY <4>1, <5>1 DEF Invariants, WalkInv, Numbered
      <4> QED
        BY <2>1, <2>2, <4>1, <4>2, NeighbourIndexed
    <3> QED
      BY <3>1, <3>2
  <2>3. p \in S /\ p \in Panels /\ p # Controller
    <3>1. S \in SUBSET (Panels \cup {Controller}) /\ Controller \in S
      OBVIOUS
    <3>2. p \in Panels /\ ((Controller \in S /\ \A m \in S, n \in Panels : Wired(m, n) => n \in S) => p \in S)
      <4> HIDE DEF S
      <4> QED
        BY <3>1 DEF Reachable
    <3> QED
      BY <2>2, <3>1, <3>2, PanelsAssumption
  <2>4. assigned[p] # 0 /\ assigned[p] \in Nat /\ assigned[p] <= nextPanelIndex /\ assigned[p] # nextPanelIndex
    BY <2>1, <2>3 DEF Idle, Invariants, TypeOK, PanelsTypeOK, WalkInv, Numbered
  <2>5. Len(indices) = nextPanelIndex - 1 /\ \A k \in 1 .. Len(indices) : indices[k] = k
    BY DEF Invariants, TreeInv, RecordedTreeIsPreorder
  <2>6. assigned[p] \in 1 .. Len(indices)
    BY <2>4, <2>5, StackTyped
  <2> QED
    BY <2>5, <2>6
<1> QED
  BY <1>1, WalkInvariant, PTL

-----------------------------------------------------------------------------
(* The numbering the router relies on.                                      *)

\* A set of indices that holds the children of its members.
Closed(S) == \A k \in 1 .. Len(links) : links[k].parent \in S => links[k].child \in S

\* The recorded subtree of an index is the least closed set around it.
LEMMA SubtreeLeast ==
    ASSUME NEW i, NEW S \in SUBSET (1 .. Len(indices)), i \in S, Closed(S)
    PROVE  Subtree(i) \subseteq S
  BY DEF Subtree, Closed

\* A subtree holds its root and, with a panel, that panel's children.
LEMMA SubtreeGrows ==
    ASSUME Invariants, NEW i \in 1 .. Len(indices)
    PROVE  /\ i \in Subtree(i) /\ Subtree(i) \subseteq 1 .. Len(indices)
           /\ \A k \in 1 .. Len(links) : links[k].parent \in Subtree(i) => links[k].child \in Subtree(i)
<1>1. i \in Subtree(i) /\ Subtree(i) \subseteq 1 .. Len(indices)
  BY DEF Subtree
<1>2. Len(links) \in Nat /\ Len(indices) \in Nat /\ Len(indices) > 0 /\ Len(links) = Len(indices) - 1
  BY DEF Invariants, TypeOK, ControllerTypeOK, TreeInv, RecordedTreeIsPreorder
<1>3. ASSUME NEW k \in 1 .. Len(links), links[k].parent \in Subtree(i)
      PROVE  links[k].child \in Subtree(i)
  <2>1. links[k].child \in 1 .. Len(indices)
    <3>1. links[k].child = k + 1 /\ k \in Nat /\ k <= Len(links)
      BY <1>2, LinkTyped
    <3> QED
      BY <1>2, <3>1
  <2>2. ASSUME NEW S \in SUBSET (1 .. Len(indices)), i \in S,
               \A m \in 1 .. Len(links) : links[m].parent \in S => links[m].child \in S
        PROVE  links[k].child \in S
    <3>1. links[k].parent \in S
      BY <1>3, <2>2 DEF Subtree
    <3> QED
      BY <2>2, <3>1
  <2> QED
    BY <2>1, <2>2 DEF Subtree
<1> QED
  BY <1>1, <1>3

\* What is below an index and not the index itself is below one of its children.
LEMMA SubtreeSplits ==
    ASSUME Invariants, NEW i \in 1 .. Len(indices), NEW t \in Subtree(i), t # i
    PROVE  \E k \in 1 .. Len(links) :
              links[k].parent = i /\ links[k].child \in 1 .. Len(indices) /\ t \in Subtree(links[k].child)
<1> DEFINE S == {j \in 1 .. Len(indices) : j = i \/ \E k \in 1 .. Len(links) :
                    /\ links[k].parent = i /\ links[k].child \in 1 .. Len(indices)
                    /\ j \in Subtree(links[k].child)}
<1>1. \A k \in 1 .. Len(links) : links[k].child \in 1 .. Len(indices)
  <2>1. Len(links) \in Nat /\ Len(indices) \in Nat /\ Len(indices) > 0 /\ Len(links) = Len(indices) - 1
    BY DEF Invariants, TypeOK, ControllerTypeOK, TreeInv, RecordedTreeIsPreorder
  <2>2. \A k \in 1 .. Len(links) : links[k].child = k + 1 /\ k + 1 \in 1 .. Len(indices)
    BY <2>1, LinkTyped
  <2> QED
    BY <2>2
<1>2. ASSUME NEW k \in 1 .. Len(links), links[k].parent \in S PROVE links[k].child \in S
  <2>1. CASE links[k].parent = i
    <3>1. links[k].child \in Subtree(links[k].child)
      BY <1>1, SubtreeGrows
    <3> QED
      BY <1>1, <2>1, <3>1
  <2>2. CASE links[k].parent # i
    <3>1. PICK m \in 1 .. Len(links) :
              /\ links[m].parent = i /\ links[m].child \in 1 .. Len(indices)
              /\ links[k].parent \in Subtree(links[m].child)
      BY <1>2, <2>2
    <3>2. links[k].child \in Subtree(links[m].child)
      BY <3>1, SubtreeGrows
    <3> QED
      BY <1>1, <3>1, <3>2
  <2> QED
    BY <2>1, <2>2
<1>3. S \in SUBSET (1 .. Len(indices)) /\ i \in S /\ Closed(S)
  BY <1>2 DEF Closed
<1>4. t \in S
  <2> HIDE DEF S
  <2> QED
    BY <1>3, SubtreeLeast
<1> QED
  BY <1>4

\* Below a child are only indices that start at its own and stay under its next sibling's.
LEMMA SubtreeSpan ==
    ASSUME Invariants, NEW k \in 1 .. Len(links), NEW t \in Subtree(links[k].child)
    PROVE  /\ t \in 1 .. Len(indices) /\ links[k].child <= t
           /\ \A m \in 1 .. Len(links) : k < m /\ links[m].parent = links[k].parent => t < links[m].child
<1>1. /\ Len(links) \in Nat /\ Len(indices) \in Nat /\ Len(indices) > 0 /\ Len(links) = Len(indices) - 1
  BY DEF Invariants, TypeOK, ControllerTypeOK, TreeInv, RecordedTreeIsPreorder
<1>2. \A m \in 1 .. Len(links) : /\ m \in Nat /\ m <= Len(links) /\ links[m].child = m + 1
                                 /\ links[m].child \in 1 .. Len(indices)
                                 /\ links[m].parent \in Nat /\ links[m].parent < links[m].child
  <2>1. \A m \in 1 .. Len(links) : m \in Nat /\ m <= Len(links) /\ m + 1 \in 1 .. Len(indices)
    BY <1>1
  <2> QED
    BY <2>1, LinkTyped
<1>3. t \in 1 .. Len(indices)
  BY DEF Subtree
<1>4. links[k].child <= t
  <2> DEFINE S == {j \in 1 .. Len(indices) : links[k].child <= j}
  <2>1. Closed(S)
    <3> SUFFICES ASSUME NEW m \in 1 .. Len(links), links[m].parent \in S PROVE links[m].child \in S
      BY DEF Closed
    <3>1. links[k].child <= links[m].parent /\ links[m].parent < links[m].child
      BY <1>2
    <3> QED
      BY <1>2, <3>1
  <2>2. links[k].child \in S /\ S \in SUBSET (1 .. Len(indices))
    BY <1>2
  <2>3. t \in S
    <3> HIDE DEF S
    <3> QED
      BY <2>1, <2>2, SubtreeLeast
  <2> QED
    BY <2>3
<1>5. ASSUME NEW m \in 1 .. Len(links), k < m, links[m].parent = links[k].parent
      PROVE  t < links[m].child
  <2> DEFINE S == {j \in 1 .. Len(indices) : links[k].child <= j /\ j < links[m].child}
  <2>1. ASSUME NEW n \in 1 .. Len(links), links[n].parent \in S PROVE links[n].child \in S
    <3>1. /\ links[k].child <= links[n].parent /\ links[n].parent < links[m].child
          /\ links[n].parent < links[n].child
      BY <1>2, <2>1
    <3>2. links[n].parent # links[m].parent /\ links[n].parent > links[m].parent
      BY <1>2, <1>5, <3>1
    <3>3. n # m
      BY <3>2
    <3>4. ~(m < n)
      <4> SUFFICES ASSUME m < n PROVE FALSE
        OBVIOUS
      <4>1. links[n].parent >= links[m].child \/ links[n].parent <= links[m].parent
        BY DEF Invariants, WalkInv, LinksOK
      <4> QED
        BY <1>2, <3>1, <3>2, <4>1
    <3>5. links[n].child < links[m].child
      BY <1>2, <3>3, <3>4
    <3> QED
      BY <1>2, <3>1, <3>5
  <2>2. links[k].child \in S /\ S \in SUBSET (1 .. Len(indices)) /\ Closed(S)
    BY <1>2, <1>5, <2>1 DEF Closed
  <2>3. t \in S
    <3> HIDE DEF S
    <3> QED
      BY <2>2, SubtreeLeast
  <2> QED
    BY <2>3
<1> QED
  BY <1>3, <1>4, <1>5

\* The branch PanelRouter takes is the child whose recorded subtree holds the target.
LEMMA RouteHits ==
    ASSUME Invariants, Idle, NEW p \in Panels, assigned[p] # 0, NEW k \in 1 .. Len(links),
           links[k].parent = assigned[p], NEW t \in Subtree(links[k].child)
    PROVE  RouteDownstream(p, parent[p], AdvFrame(t, 0)) = {links[k].parentEdge}
<1> DEFINE kids == ConnectedEdges(p) \ {parent[p]}
<1>1. /\ t \in 1 .. Len(indices) /\ links[k].child <= t
      /\ \A m \in 1 .. Len(links) : k < m /\ links[m].parent = links[k].parent => t < links[m].child
  BY SubtreeSpan
<1>2. PICK e \in Edge : e = links[k].parentEdge /\ e # parent[p] /\ edges[p][e] = "Connected"
                        /\ childIndexes[p][e] = links[k].child
  <2>1. PICK b \in Panels : assigned[b] = links[k].parent /\ links[k].parentEdge \in Edge
              /\ links[k].parentEdge # parent[b] /\ edges[b][links[k].parentEdge] = "Connected"
              /\ childIndexes[b][links[k].parentEdge] = links[k].child
    BY LinkTyped DEF LinkHolds
  <2>2. b = p
    BY <2>1, SamePanel DEF Invariants
  <2> QED
    BY <2>1, <2>2
<1>3. e \in kids /\ kids \subseteq Edge
  BY <1>2 DEF ConnectedEdges
<1>4. /\ Len(links) \in Nat /\ Len(indices) \in Nat /\ Len(indices) > 0
      /\ Len(links) = Len(indices) - 1 /\ Len(indices) = nextPanelIndex - 1 /\ nextPanelIndex \in Nat
  BY <1>1, StackTyped DEF Invariants, TypeOK, ControllerTypeOK, TreeInv, RecordedTreeIsPreorder
<1>5. \A b \in Panels : assigned[b] \in Nat
  BY DEF Invariants, TypeOK, PanelsTypeOK
<1>6. ASSUME NEW d \in kids
      PROVE  /\ childIndexes[p][d] \in Nat /\ childIndexes[p][d] # 0
             /\ d # e /\ childIndexes[p][d] <= t => childIndexes[p][d] < links[k].child
  <2>1. d \in Edge /\ d # parent[p] /\ edges[p][d] = "Connected"
    BY <1>6 DEF ConnectedEdges
  <2>2. PICK q \in Panels : /\ childIndexes[p][d] = assigned[q] /\ assigned[q] > assigned[p]
                            /\ assigned[q] # 0 /\ peer[<<q, parent[q]>>] = <<p, d>>
    BY <2>1, DownPort
  <2>3. PICK b \in Nat : b = assigned[q] /\ b >= 2 /\ b < nextPanelIndex
    <3>1. assigned[q] # nextPanelIndex /\ assigned[q] <= nextPanelIndex
      BY DEF Idle, Invariants, WalkInv, Numbered
    <3> QED
      BY <1>4, <1>5, <2>2, <3>1
  <2>4. PICK m \in 1 .. Len(links) : m = b - 1
    BY <1>4, <2>3
  <2>5. links[m].child = b /\ links[m].parent = assigned[p] /\ links[m].parentEdge = d
    <3>1. links[m].child = m + 1 /\ LinkHolds(links[m])
      BY LinkTyped
    <3>2. links[m].child = b
      BY <2>3, <2>4, <3>1
    <3>3. PICK b1 \in Panels, q1 \in Panels :
              /\ assigned[b1] = links[m].parent /\ assigned[q1] = b /\ links[m].parentEdge \in Edge
              /\ peer[<<b1, links[m].parentEdge>>] = <<q1, parent[q1]>>
      BY <3>1, <3>2 DEF LinkHolds
    <3>4. q1 = q
      BY <2>2, <2>3, <3>3, SamePanel DEF Invariants
    <3>5. peer[<<q, parent[q]>>] = <<b1, links[m].parentEdge>>
      <4>1. <<b1, links[m].parentEdge>> \in Port
        BY <3>3, PortOf
      <4>2. <<q, parent[q]>> # NoPort
        BY <2>2, Rooted, PanelsAssumption DEF Invariants
      <4> QED
        BY <3>3, <3>4, <4>1, <4>2, Wire DEF Invariants, TypeOK
    <3>6. b1 = p /\ links[m].parentEdge = d
      BY <2>2, <3>5
    <3> QED
      BY <3>2, <3>3, <3>6
  <2>6. ASSUME d # e, b <= t PROVE b < links[k].child
    <3>1. m # k
      BY <1>2, <2>5, <2>6
    <3>2. ~(k < m)
      BY <1>1, <1>4, <2>3, <2>5, <2>6
    <3>3. links[k].child = k + 1
      BY LinkTyped
    <3> QED
      BY <1>4, <2>3, <2>4, <3>1, <3>2, <3>3
  <2> QED
    BY <2>2, <2>3, <2>6
<1>7. links[k].child \in Nat /\ t \in Nat /\ t # 0
  BY <1>1, LinkTyped
<1>8. BranchEdge(p, t, kids) = {e}
  <2> HIDE DEF kids
  <2> QED
    BY <1>1, <1>2, <1>3, <1>6, <1>7 DEF BranchEdge
<1>9. AdvFrame(t, 0).target = t
  BY DEF AdvFrame
<1> QED
  BY <1>2, <1>6, <1>7, <1>8, <1>9 DEF RouteDownstream

\* PanelRouter: once discovery is over, a frame for any panel below p leaves p on one edge,
\* the one to the child whose subtree holds the target.
THEOREM RoutesReachTargets ==
    ASSUME Recoverable
    PROVE  Spec => []RoutesFollowTree
<1>1. Invariants /\ Left => RoutesFollowTree
  <2> SUFFICES ASSUME Invariants, Left, converted, NEW p \in Panels, assigned[p] # 0,
                      NEW t \in Subtree(assigned[p]) \ {assigned[p]}
               PROVE  \E k \in 1 .. Len(links) :
                          /\ links[k].parent = assigned[p]
                          /\ t \in Subtree(links[k].child)
                          /\ RouteDownstream(p, parent[p], AdvFrame(t, 0)) = {links[k].parentEdge}
    BY DEF RoutesFollowTree
  <2>1. Idle
    BY DEF Left, Over, Invariants, WalkInv
  <2>2. assigned[p] \in 1 .. Len(indices)
    <3>1. assigned[p] \in Nat /\ assigned[p] <= nextPanelIndex /\ assigned[p] # nextPanelIndex
      BY <2>1 DEF Idle, Invariants, TypeOK, PanelsTypeOK, WalkInv, Numbered
    <3>2. Len(indices) = nextPanelIndex - 1 /\ nextPanelIndex \in Nat
      BY StackTyped DEF Invariants, TreeInv, RecordedTreeIsPreorder
    <3> QED
      BY <3>1, <3>2
  <2>3. PICK k \in 1 .. Len(links) : links[k].parent = assigned[p] /\ t \in Subtree(links[k].child)
    BY <2>2, SubtreeSplits
  <2> QED
    BY <2>1, <2>3, RouteHits
<1> QED
  BY <1>1, WalkInvariant, PTL

-----------------------------------------------------------------------------
(* The depth-first walk that the frames, timers and tables add up to.       *)

\* The walk's variables, as Discovery!Walk reads them off the coordinator.
Order == [k \in 1 .. Len(indices) |-> PanelOf(indices[k])]
Way   == IF complete \/ frontier = 0 THEN <<>>
         ELSE [k \in 1 .. Len(stack) |-> PanelOf(Append(stack, frontier)[k + 1])]

\* No two panels have one index, so an index names its panel.
LEMMA PanelOfIs ==
    ASSUME WalkInv, NEW p \in Panels, assigned[p] # 0
    PROVE  PanelOf(assigned[p]) = p
<1>1. assigned[PanelOf(assigned[p])] = assigned[p] /\ PanelOf(assigned[p]) \in Panels
  BY DEF PanelOf
<1> QED
  BY <1>1, SamePanel

\* The k-th panel visited answers to index k.
LEMMA OrderForm ==
    ASSUME Invariants
    PROVE  /\ Order \in Seq(Panels) /\ Len(Order) = nextPanelIndex - 1 /\ Len(indices) = nextPanelIndex - 1
           /\ nextPanelIndex \in Nat /\ nextPanelIndex >= 1
           /\ \A k \in 1 .. nextPanelIndex - 1 : Order[k] \in Panels /\ assigned[Order[k]] = k
<1>1. /\ Len(indices) = nextPanelIndex - 1 /\ Len(indices) \in Nat
      /\ \A k \in 1 .. Len(indices) : indices[k] = k
  BY DEF Invariants, TypeOK, ControllerTypeOK, TreeInv, RecordedTreeIsPreorder
<1>2. ASSUME NEW k \in 1 .. nextPanelIndex - 1
      PROVE  PanelOf(indices[k]) \in Panels /\ assigned[PanelOf(indices[k])] = k
  <2>1. \E p \in Panels : assigned[p] = k
    BY DEF Invariants, WalkInv, Numbered
  <2>2. indices[k] = k
    BY <1>1
  <2> QED
    BY <2>1, <2>2 DEF PanelOf
<1>3. Order = [k \in 1 .. nextPanelIndex - 1 |-> PanelOf(indices[k])]
  BY <1>1 DEF Order
<1>4. nextPanelIndex \in Nat /\ nextPanelIndex >= 1 /\ nextPanelIndex - 1 \in Nat
  BY StackTyped
<1>5. Order \in Seq(Panels) /\ Len(Order) = nextPanelIndex - 1
  BY <1>2, <1>3, <1>4
<1> QED
  BY <1>1, <1>2, <1>3, <1>4, <1>5

\* The way ends at the frontier.
LEMMA WayForm ==
    ASSUME Invariants, frontier # 0, ~complete
    PROVE  /\ Way \in Seq(Panels) /\ Len(Way) = Len(stack) /\ Len(stack) \in Nat /\ Len(stack) >= 1
           /\ stack[1] = 0 /\ Way[Len(stack)] \in Panels /\ assigned[Way[Len(stack)]] = frontier
           /\ \A k \in 1 .. Len(stack) : k # Len(stack) => Way[k] \in Panels /\ assigned[Way[k]] = stack[k + 1]
<1>1. /\ stack \in Seq(0 .. MaxPanels) /\ Len(stack) \in Nat /\ frontier \in 0 .. MaxPanels
      /\ frontier \in Nat /\ nextPanelIndex \in Nat /\ frontier < nextPanelIndex
      /\ \A k \in 1 .. Len(stack) : stack[k] \in Nat /\ stack[k] < frontier
  BY StackTyped
<1>2. /\ Append(stack, frontier)[Len(stack) + 1] = frontier
      /\ \A k \in 1 .. Len(stack) : Append(stack, frontier)[k] = stack[k]
  BY <1>1, Pushed
<1>3. stack # <<>> /\ stack[1] = 0
  BY PathForm DEF Invariants, TypeOK, TreeInv, Path
<1>4. Len(stack) >= 1
  BY <1>1, <1>3
<1>5. \A k \in 1 .. Len(stack) : k # Len(stack) => k + 1 \in 1 .. Len(stack) /\ 1 < k + 1
  BY <1>1
<1>6. \A k \in 1 .. Len(stack) : k # Len(stack) => stack[k + 1] # 0 /\ stack[k + 1] \in Nat /\ stack[k + 1] < frontier
  <2>1. \A k \in 1 .. Len(stack) : 1 < k => stack[1] < stack[k]
    <3>1. 1 \in 1 .. Len(stack)
      BY <1>1, <1>4
    <3> QED
      BY <3>1 DEF Invariants, WalkInv, PathOK, Descends
  <2> QED
    BY <1>1, <1>3, <1>5, <2>1
<1>7. \A i \in Nat : i # 0 /\ i < nextPanelIndex => PanelOf(i) \in Panels /\ assigned[PanelOf(i)] = i
  <2> SUFFICES ASSUME NEW i \in Nat, i # 0, i < nextPanelIndex
               PROVE  PanelOf(i) \in Panels /\ assigned[PanelOf(i)] = i
    OBVIOUS
  <2>1. i \in 1 .. nextPanelIndex - 1
    BY <1>1
  <2>2. \E p \in Panels : assigned[p] = i
    BY <2>1 DEF Invariants, WalkInv, Numbered
  <2> QED
    BY <2>2 DEF PanelOf
<1>8. Way = [k \in 1 .. Len(stack) |-> PanelOf(Append(stack, frontier)[k + 1])]
  BY DEF Way
<1>9. \A k \in 1 .. Len(stack) : Way[k] = PanelOf(IF k = Len(stack) THEN frontier ELSE stack[k + 1])
  BY <1>2, <1>5, <1>8
<1>10. Way[Len(stack)] \in Panels /\ assigned[Way[Len(stack)]] = frontier
  BY <1>1, <1>4, <1>7, <1>9
<1>11. \A k \in 1 .. Len(stack) : k # Len(stack) => Way[k] \in Panels /\ assigned[Way[k]] = stack[k + 1]
  <2> SUFFICES ASSUME NEW k \in 1 .. Len(stack), k # Len(stack)
               PROVE  Way[k] \in Panels /\ assigned[Way[k]] = stack[k + 1]
    OBVIOUS
  <2>1. Way[k] = PanelOf(stack[k + 1])
    BY <1>9
  <2>2. stack[k + 1] \in Nat /\ stack[k + 1] # 0 /\ stack[k + 1] < nextPanelIndex
    BY <1>1, <1>6
  <2> QED
    BY <1>7, <2>1, <2>2
<1>12. Way \in Seq(Panels) /\ Len(Way) = Len(stack)
  <2>1. \A k \in 1 .. Len(stack) : Way[k] \in Panels
    BY <1>10, <1>11
  <2> QED
    BY <1>1, <1>8, <2>1
<1> QED
  BY <1>1, <1>3, <1>4, <1>10, <1>11, <1>12

\* Two sequences that agree everywhere are one.
LEMMA SameSeq ==
    ASSUME NEW S, NEW s \in Seq(S), NEW t \in Seq(S), Len(s) = Len(t),
           \A k \in 1 .. Len(s) : s[k] = t[k]
    PROVE  s = t
  BY SeqEqual

\* What Order and Way say of the coordinator.
OrderIs ==
    /\ Order \in Seq(Panels) /\ Len(Order) = nextPanelIndex - 1
    /\ \A k \in 1 .. nextPanelIndex - 1 : Order[k] \in Panels /\ assigned[Order[k]] = k
WayIs ==
    /\ complete \/ frontier = 0 => Way = <<>>
    /\ ~complete /\ frontier # 0 =>
          /\ Way \in Seq(Panels) /\ Len(Way) = Len(stack)
          /\ Way[Len(stack)] \in Panels /\ assigned[Way[Len(stack)]] = frontier
          /\ \A k \in 1 .. Len(stack) : k # Len(stack) => Way[k] \in Panels /\ assigned[Way[k]] = stack[k + 1]

\* The order and the way as the invariant describes them, before a step and after it.
LEMMA WalkRead == Invariants => OrderIs /\ WayIs
<1> SUFFICES ASSUME Invariants PROVE OrderIs /\ WayIs
  OBVIOUS
<1>1. OrderIs
  BY OrderForm DEF OrderIs
<1>2. complete \/ frontier = 0 => Way = <<>>
  BY DEF Way
<1> QED
  BY <1>1, <1>2, WayForm DEF WayIs

\* The same, after the step.
LEMMA WalkReadNext == Invariants' => OrderIs' /\ WayIs'
  BY WalkRead, PTL

\* Indices still tell panels apart after the step.
LEMMA SamePanelNext == Invariants' =>
    \A p, q \in Panels : assigned'[p] = assigned'[q] /\ assigned'[p] # 0 => p = q
  BY DEF Invariants, WalkInv, Numbered, IndicesDistinct

\* Only the sentinel is 0.
LEMMA StackAbove ==
    ASSUME Invariants, frontier # 0, ~complete
    PROVE  \A k \in 1 .. Len(stack) : k # Len(stack) => stack[k + 1] # 0
<1>1. stack[1] = 0 /\ Len(stack) >= 1 /\ Len(stack) \in Nat
  BY WayForm
<1>2. \A k \in 1 .. Len(stack) : k # Len(stack) => k + 1 \in 1 .. Len(stack) /\ 1 < k + 1 /\ 1 \in 1 .. Len(stack)
  BY <1>1
<1>3. \A k \in 1 .. Len(stack) : k # Len(stack) => stack[1] < stack[k + 1]
  BY <1>2 DEF Invariants, WalkInv, PathOK, Descends
<1>4. \A k \in 1 .. Len(stack) : stack[k] \in Nat
  BY StackTyped
<1> QED
  BY <1>1, <1>2, <1>3, <1>4

\* While the coordinator's tables stand still and panels keep their indices, so does the walk.
LEMMA WalkStands ==
    ASSUME Invariants, Invariants', UNCHANGED <<peer, stack, frontier, complete, nextPanelIndex>>,
           \A p \in Panels : assigned[p] # 0 => assigned'[p] = assigned[p]
    PROVE  Order' = Order /\ Way' = Way
<1>1. OrderIs /\ WayIs /\ OrderIs' /\ WayIs'
  BY WalkRead, WalkReadNext
<1>2. nextPanelIndex \in Nat /\ frontier \in Nat /\ Len(stack) \in Nat
  BY StackTyped
<1>3. Order' = Order
  <2>1. \A k \in 1 .. nextPanelIndex - 1 : Order'[k] = Order[k]
    <3> SUFFICES ASSUME NEW k \in 1 .. nextPanelIndex - 1 PROVE Order'[k] = Order[k]
      OBVIOUS
    <3>1. /\ Order[k] \in Panels /\ assigned[Order[k]] = k /\ k # 0
          /\ Order'[k] \in Panels /\ assigned'[Order'[k]] = k
      BY <1>1, <1>2 DEF OrderIs
    <3>2. assigned'[Order[k]] = k
      BY <3>1
    <3> QED
      BY <3>1, <3>2, SamePanelNext
  <2>2. Order \in Seq(Panels) /\ Order' \in Seq(Panels) /\ Len(Order') = Len(Order) /\ Len(Order) = nextPanelIndex - 1
    BY <1>1 DEF OrderIs
  <2> QED
    BY <2>1, <2>2, SameSeq
<1>4. Way' = Way
  <2>1. CASE complete \/ frontier = 0
    BY <1>1, <2>1 DEF WayIs
  <2>2. CASE ~complete /\ frontier # 0
    <3>1. /\ Way \in Seq(Panels) /\ Len(Way) = Len(stack)
          /\ Way[Len(stack)] \in Panels /\ assigned[Way[Len(stack)]] = frontier
          /\ \A k \in 1 .. Len(stack) : k # Len(stack) => Way[k] \in Panels /\ assigned[Way[k]] = stack[k + 1]
      BY <1>1, <2>2 DEF WayIs
    <3>2. /\ Way' \in Seq(Panels) /\ Len(Way') = Len(stack)
          /\ Way'[Len(stack)] \in Panels /\ assigned'[Way'[Len(stack)]] = frontier
          /\ \A k \in 1 .. Len(stack) : k # Len(stack) => Way'[k] \in Panels /\ assigned'[Way'[k]] = stack[k + 1]
      BY <1>1, <2>2 DEF WayIs
    <3>3. \A k \in 1 .. Len(stack) : k # Len(stack) => stack[k + 1] # 0
      BY <2>2, StackAbove
    <3>4. \A k \in 1 .. Len(stack) : Way'[k] = Way[k]
      BY <2>2, <3>1, <3>2, <3>3, SamePanelNext
    <3> QED
      BY <3>1, <3>2, <3>4, SameSeq
  <2> QED
    BY <2>1, <2>2
<1> QED
  BY <1>3, <1>4

\* Visited are the panels recorded; the current node is the frontier.
LEMMA VisitedIs ==
    ASSUME Invariants
    PROVE  Walk!Visited = {p \in Panels : Recorded(p)}
<1>1. Walk!Visited = {Order[k] : k \in 1 .. Len(Order)}
  BY DEF Walk!Visited, Order
<1>2. OrderIs /\ nextPanelIndex \in Nat
  BY WalkRead, StackTyped
<1>3. ASSUME NEW k \in 1 .. Len(Order) PROVE Order[k] \in Panels /\ Recorded(Order[k])
  BY <1>2 DEF OrderIs, Recorded
<1>4. ASSUME NEW p \in Panels, Recorded(p) PROVE \E k \in 1 .. Len(Order) : Order[k] = p
  <2>1. assigned[p] \in Nat /\ assigned[p] # 0 /\ assigned[p] <= nextPanelIndex /\ assigned[p] # nextPanelIndex
    BY <1>4 DEF Recorded, Invariants, TypeOK, PanelsTypeOK, WalkInv, Numbered
  <2>2. PICK k \in 1 .. Len(Order) : k = assigned[p]
    BY <1>2, <2>1 DEF OrderIs
  <2>3. assigned[Order[k]] = assigned[p] /\ Order[k] \in Panels
    BY <1>2, <2>2 DEF OrderIs
  <2> QED
    BY <2>1, <2>3, SamePanel DEF Invariants
<1> QED
  BY <1>1, <1>3, <1>4

\* The walk stands at the frontier.
LEMMA CurrentIs ==
    ASSUME Invariants, ~complete
    PROVE  /\ frontier = 0 => Walk!Current = Controller /\ Way = <<>>
           /\ frontier # 0 => /\ Walk!Current \in Panels /\ assigned[Walk!Current] = frontier
                              /\ Way # <<>> /\ Len(Way) = Len(stack)
<1>1. Walk!Current = IF Way = <<>> THEN Controller ELSE Way[Len(Way)]
  BY DEF Walk!Current, Way
<1>2. WayIs
  BY WalkRead
<1>3. frontier # 0 => Len(stack) >= 1 /\ Len(stack) \in Nat
  BY WayForm
<1> QED
  BY <1>1, <1>2, <1>3 DEF WayIs

\* What lies behind a settled edge of the frontier has been visited, or is the panel
\* waiting to be.
LEMMA Explored ==
    ASSUME Invariants, NEW p \in Panels, Recorded(p), NEW d \in Edge,
           d = parent[p] \/ edges[p][d] # "Unexplored",
           NEW n \in Panels, NEW h \in Edge, peer[<<p, d>>] = <<n, h>>
    PROVE  Recorded(n) \/ (assigned[n] = nextPanelIndex /\ d # parent[p] /\ peer[<<n, parent[n]>>] = <<p, d>>)
<1>1. PanelOK(p) /\ assigned[p] # 0 /\ assigned[p] < nextPanelIndex /\ assigned[p] \in Nat /\ nextPanelIndex \in Nat
  <2>1. PanelOK(p) /\ assigned[p] <= nextPanelIndex /\ assigned[p] \in Nat
    BY DEF Invariants, TypeOK, PanelsTypeOK, WalkInv, Numbered
  <2> QED
    BY <2>1, StackTyped DEF Recorded
<1>2. <<n, h>> # Trunk /\ <<n, h>> # NoPort
  BY PortOf, PanelsAssumption
<1>3. CASE d = parent[p]
  <2>1. assigned[p] # 1
    BY <1>1, <1>2, <1>3 DEF PanelOK, Above
  <2>2. PICK b \in Panels, e \in Edge : <<n, h>> = <<b, e>> /\ assigned[b] # 0 /\ assigned[b] < assigned[p]
    BY <1>1, <1>3, <2>1 DEF PanelOK, Above
  <2>3. n = b /\ assigned[b] \in Nat
    BY <2>2 DEF Invariants, TypeOK, PanelsTypeOK
  <2> QED
    BY <1>1, <2>2, <2>3 DEF Recorded
<1>4. CASE d # parent[p] /\ edges[p][d] = "Connected"
  <2>1. PICK q \in Panels : /\ peer[<<p, d>>] = <<q, parent[q]>> /\ assigned[q] # 0
                            /\ peer[<<q, parent[q]>>] = <<p, d>>
    BY <1>1, <1>4, DownPort
  <2>2. n = q
    BY <2>1
  <2> QED
    BY <1>4, <2>1, <2>2 DEF Recorded
<1>5. CASE d # parent[p] /\ edges[p][d] = "NotConnected"
  <2>1. Recorded(peer[<<p, d>>][1])
    BY <1>1, <1>2, <1>5 DEF PanelOK, Refused
  <2> QED
    BY <2>1
<1>6. edges[p][d] \in EdgeState
  BY DEF Invariants, TypeOK, PanelsTypeOK
<1> QED
  BY <1>3, <1>4, <1>5, <1>6 DEF EdgeState

\* The edges that lead on from the current node n.
LEMMA LeadsIs ==
    ASSUME Invariants, NEW n, n = Walk!Current, NEW e
    PROVE  e \in Walk!Leads <=> /\ e \in Edge /\ <<n, e>> \in Port
                                /\ \E b \in Panels, d \in Edge : ~Recorded(b) /\ peer[<<n, e>>] = <<b, d>>
<1>1. Walk!Visited = {p \in Panels : Recorded(p)}
  BY VisitedIs
<1>2. Walk!Leads = {c \in Edge : /\ <<n, c>> \in Port
                                 /\ \E b \in Panels \ Walk!Visited, d \in Edge : peer[<<n, c>>] = <<b, d>>}
  BY DEF Walk!Leads
<1> QED
  BY <1>1, <1>2

\* The edge by which the new panel hangs is the lowest that leads on.
LEMMA NewIsLowest ==
    ASSUME Invariants, NEW q \in Panels, NEW f, NewBelow(q, f)
    PROVE  \E e \in Edge : /\ e \in Walk!Leads /\ \A d \in Walk!Leads : e <= d
                           /\ peer[<<Walk!Current, e>>] = <<q, parent[q]>>
<1>1. /\ assigned[q] = nextPanelIndex /\ parent[q] # NoEdge /\ ~complete
      /\ \A p \in Panels : probing[p] = NoEdge
      /\ frontier = 0 => peer[<<q, parent[q]>>] = Trunk /\ nextPanelIndex = 1
      /\ frontier # 0 => \E p \in Panels, e \in Edge :
            /\ peer[<<q, parent[q]>>] = <<p, e>> /\ peer[<<p, e>>] = <<q, parent[q]>>
            /\ assigned[p] = frontier /\ e # parent[p] /\ edges[p][e] = "Connected"
  BY DEF NewBelow
<1>2. parent[q] \in Edge /\ ~Recorded(q)
  BY <1>1 DEF Invariants, TypeOK, PanelsTypeOK, Recorded
<1>3. PICK n : n = Walk!Current
  OBVIOUS
<1>4. SUFFICES \E e \in Edge : /\ <<n, e>> \in Port /\ peer[<<n, e>>] = <<q, parent[q]>>
                               /\ \A d \in Walk!Leads : e <= d
  BY <1>2, <1>3, LeadsIs
<1>5. CASE frontier = 0
  <2>1. n = Controller
    BY <1>1, <1>3, <1>5, CurrentIs
  <2>2. 0 \in Edge /\ \A d \in Edge : 0 <= d
    BY EdgesAssumption DEF Edge, NoEdge
  <2>3. <<n, 0>> = Trunk /\ Trunk \in Port
    BY <2>1 DEF Trunk, Port
  <2>4. peer[Trunk] = <<q, parent[q]>>
    <3>1. <<q, parent[q]>> \in Port /\ peer[peer[<<q, parent[q]>>]] = <<q, parent[q]>>
      BY <1>1, StackTyped, Rooted DEF Invariants
    <3> QED
      BY <1>1, <1>5, <3>1
  <2>5. \A d \in Walk!Leads : 0 <= d
    BY <1>3, <2>2, LeadsIs
  <2> QED
    BY <2>2, <2>3, <2>4, <2>5
<1>6. CASE frontier # 0
  <2>1. PICK p \in Panels, e \in Edge :
            /\ peer[<<q, parent[q]>>] = <<p, e>> /\ peer[<<p, e>>] = <<q, parent[q]>>
            /\ assigned[p] = frontier /\ e # parent[p] /\ edges[p][e] = "Connected"
    BY <1>1, <1>6
  <2>2. n = p
    <3>1. n \in Panels /\ assigned[n] = frontier
      BY <1>1, <1>3, <1>6, CurrentIs
    <3> QED
      BY <1>6, <2>1, <3>1, SamePanel DEF Invariants
  <2>3. Recorded(p)
    BY <1>6, <2>1, StackTyped DEF Recorded
  <2>4. Lowest(p, e)
    <3>1. PICK b \in Panels, c \in Edge : peer[<<q, parent[q]>>] = <<b, c>> /\ Lowest(b, c)
      BY <1>1, <1>6 DEF Invariants, WalkInv, PanelOK, Waiting
    <3>2. b = p /\ c = e
      BY <2>1, <3>1
    <3> QED
      BY <3>1, <3>2
  <2>5. ASSUME NEW d \in Walk!Leads PROVE e <= d
    <3>1. PICK b \in Panels, h \in Edge : d \in Edge /\ ~Recorded(b) /\ peer[<<p, d>>] = <<b, h>>
      BY <1>3, <2>2, LeadsIs
    <3> SUFFICES ASSUME d < e PROVE FALSE
      BY <3>1, EdgesAssumption DEF Edge
    <3>2. d = parent[p] \/ edges[p][d] # "Unexplored"
      BY <2>4, <3>1 DEF Lowest
    <3>3. assigned[b] = nextPanelIndex /\ peer[<<b, parent[b]>>] = <<p, d>>
      BY <2>3, <3>1, <3>2, Explored
    <3>4. b = q
      BY <1>1, <3>3, StackTyped, SamePanel DEF Invariants
    <3>5. d = e
      BY <2>1, <3>3, <3>4
    <3> QED
      BY <2>1, <3>5, EdgesAssumption DEF Edge
  <2> QED
    BY <2>1, <2>2, <2>5, PortOf
<1> QED
  BY <1>5, <1>6

\* A registration is a step of the walk to the lowest edge that leads on.
LEMMA RegisterDescends ==
    ASSUME Invariants, Invariants', chan[Trunk] # <<>>, NEW f, f = Head(chan[Trunk]),
           ControllerRegister(f), UNCHANGED <<peer, faults, panelVars>>
    PROVE  Walk!Descend
<1>1. PICK q \in Panels : NewBelow(q, f)
  BY RegistersNew DEF ControllerRegister
<1>2. /\ frontier' = nextPanelIndex /\ nextPanelIndex' = nextPanelIndex + 1
      /\ stack' = Append(stack, frontier) /\ complete' = complete /\ assigned' = assigned /\ peer' = peer
  BY DEF ControllerRegister, Registers, panelVars
<1>3. assigned[q] = nextPanelIndex /\ ~complete
  BY <1>1 DEF NewBelow
<1>4. OrderIs /\ WayIs /\ OrderIs' /\ WayIs'
  BY WalkRead, WalkReadNext
<1>5. /\ nextPanelIndex \in Nat /\ nextPanelIndex >= 1 /\ frontier \in Nat /\ Len(stack) \in Nat
      /\ stack \in Seq(0 .. MaxPanels) /\ frontier \in 0 .. MaxPanels
  BY StackTyped
<1>6. /\ Len(stack') = Len(stack) + 1 /\ stack'[Len(stack) + 1] = frontier
      /\ \A k \in 1 .. Len(stack) : stack'[k] = stack[k]
  BY <1>2, <1>5, Pushed
<1>7. Order' = Append(Order, q)
  <2>1. /\ Order \in Seq(Panels) /\ Len(Order) = nextPanelIndex - 1
        /\ \A k \in 1 .. nextPanelIndex - 1 : Order[k] \in Panels /\ assigned[Order[k]] = k
    BY <1>4 DEF OrderIs
  <2>2. /\ Order' \in Seq(Panels) /\ Len(Order') = nextPanelIndex
        /\ \A k \in 1 .. nextPanelIndex : Order'[k] \in Panels /\ assigned[Order'[k]] = k
    <3>1. nextPanelIndex' - 1 = nextPanelIndex
      BY <1>2, <1>5
    <3>2. /\ Order' \in Seq(Panels) /\ Len(Order') = nextPanelIndex' - 1
          /\ \A k \in 1 .. nextPanelIndex' - 1 : Order'[k] \in Panels /\ assigned'[Order'[k]] = k
      BY <1>4 DEF OrderIs
    <3> QED
      BY <1>2, <3>1, <3>2
  <2>3. PICK o : o = Append(Order, q)
    OBVIOUS
  <2>4. o \in Seq(Panels) /\ Len(o) = nextPanelIndex /\ o[nextPanelIndex] = q
        /\ \A k \in 1 .. nextPanelIndex - 1 : o[k] = Order[k]
    BY <1>5, <2>1, <2>3
  <2>5. ASSUME NEW k \in 1 .. nextPanelIndex PROVE Order'[k] = o[k]
    <3>1. o[k] \in Panels /\ assigned[o[k]] = k
      <4>1. CASE k = nextPanelIndex
        BY <1>3, <2>4, <4>1
      <4>2. CASE k # nextPanelIndex
        <5>1. k \in 1 .. nextPanelIndex - 1
          BY <1>5, <4>2
        <5> QED
          BY <2>1, <2>4, <5>1
      <4> QED
        BY <4>1, <4>2
    <3>2. k # 0
      BY <1>5
    <3>3. Order'[k] \in Panels /\ assigned[Order'[k]] = k
      BY <2>2
    <3> QED
      BY <3>1, <3>2, <3>3, SamePanel DEF Invariants
  <2>6. Order' = o
    BY <2>2, <2>4, <2>5, SameSeq
  <2> QED
    BY <2>3, <2>6
<1>8. Way' = Append(Way, q)
  <2>1. /\ Way' \in Seq(Panels) /\ Len(Way') = Len(stack) + 1
        /\ Way'[Len(stack) + 1] \in Panels /\ assigned[Way'[Len(stack) + 1]] = nextPanelIndex
        /\ \A k \in 1 .. Len(stack) : Way'[k] \in Panels /\ assigned[Way'[k]] = stack'[k + 1]
    <3>1. ~complete' /\ frontier' # 0
      BY <1>2, <1>3, <1>5
    <3>2. /\ Way' \in Seq(Panels) /\ Len(Way') = Len(stack')
          /\ Way'[Len(stack')] \in Panels /\ assigned'[Way'[Len(stack')]] = frontier'
          /\ \A k \in 1 .. Len(stack') : k # Len(stack') => Way'[k] \in Panels /\ assigned'[Way'[k]] = stack'[k + 1]
      BY <1>4, <3>1 DEF WayIs
    <3>3. \A k \in 1 .. Len(stack) : k \in 1 .. Len(stack') /\ k # Len(stack')
      BY <1>5, <1>6
    <3> QED
      BY <1>2, <1>6, <3>2, <3>3
  <2>2. Way'[Len(stack) + 1] = q
    BY <1>3, <1>5, <2>1, SamePanel DEF Invariants
  <2>3. /\ Way \in Seq(Panels) /\ Len(Way) = Len(stack)
        /\ \A k \in 1 .. Len(stack) : Way'[k] = Way[k]
    <3>1. CASE frontier = 0
      <4>1. stack = <<>> /\ Way = <<>>
        BY <1>4, <3>1 DEF WayIs, Invariants, TreeInv
      <4> QED
        BY <4>1
    <3>2. CASE frontier # 0
      <4>1. /\ Way \in Seq(Panels) /\ Len(Way) = Len(stack)
            /\ Way[Len(stack)] \in Panels /\ assigned[Way[Len(stack)]] = frontier
            /\ \A k \in 1 .. Len(stack) : k # Len(stack) => Way[k] \in Panels /\ assigned[Way[k]] = stack[k + 1]
        BY <1>3, <1>4, <3>2 DEF WayIs
      <4>2. \A k \in 1 .. Len(stack) : k # Len(stack) => stack[k + 1] # 0
        BY <3>2, <1>3, StackAbove
      <4>3. ASSUME NEW k \in 1 .. Len(stack) PROVE Way'[k] = Way[k]
        <5>1. CASE k = Len(stack)
          <6>1. assigned[Way'[k]] = frontier /\ Way'[k] \in Panels
            BY <1>6, <2>1, <5>1
          <6> QED
            BY <3>2, <4>1, <5>1, <6>1, SamePanel DEF Invariants
        <5>2. CASE k # Len(stack)
          <6>1. stack'[k + 1] = stack[k + 1]
            BY <1>5, <1>6, <5>2
          <6>2. assigned[Way'[k]] = stack[k + 1] /\ Way'[k] \in Panels
            BY <2>1, <6>1
          <6> QED
            BY <4>1, <4>2, <5>2, <6>2, SamePanel DEF Invariants
        <5> QED
          BY <5>1, <5>2
      <4> QED
        BY <4>1, <4>3
    <3> QED
      BY <3>1, <3>2
  <2>4. PICK w : w = Append(Way, q)
    OBVIOUS
  <2>5. w \in Seq(Panels) /\ Len(w) = Len(stack) + 1 /\ w[Len(stack) + 1] = q
        /\ \A k \in 1 .. Len(stack) : w[k] = Way[k]
    BY <1>5, <2>3, <2>4
  <2>6. \A k \in 1 .. Len(stack) + 1 : Way'[k] = w[k]
    <3>1. \A k \in 1 .. Len(stack) + 1 : k = Len(stack) + 1 \/ k \in 1 .. Len(stack)
      BY <1>5
    <3> QED
      BY <2>2, <2>3, <2>5, <3>1
  <2>7. Way' = w
    BY <2>1, <2>5, <2>6, SameSeq
  <2> QED
    BY <2>4, <2>7
<1>9. PICK e \in Edge : /\ e \in Walk!Leads /\ \A d \in Walk!Leads : e <= d
                        /\ peer[<<Walk!Current, e>>] = <<q, parent[q]>>
  BY <1>1, NewIsLowest
<1>10. /\ Order' = Append(Order, peer[<<Walk!Current, e>>][1])
       /\ Way' = Append(Way, peer[<<Walk!Current, e>>][1])
  BY <1>7, <1>8, <1>9
<1>11. Way = <<>> => Order = <<>>
  <2> SUFFICES ASSUME Way = <<>> PROVE Order = <<>>
    OBVIOUS
  <2>1. frontier = 0
    BY <1>3, CurrentIs
  <2>2. Order \in Seq(Panels) /\ Len(Order) = 0
    BY <1>4, <2>1 DEF OrderIs, Invariants, WalkInv, Numbered
  <2> QED
    BY <2>2
<1> QED
  BY <1>2, <1>3, <1>9, <1>10, <1>11 DEF Walk!Descend, Order, Way

\* Nothing leads on from a finished panel while nothing is being offered.
LEMMA NoLeads ==
    ASSUME Invariants, Idle, ~complete, frontier # 0,
           \A p \in Panels : assigned[p] = frontier => Finished(p)
    PROVE  Walk!Leads = {}
<1>1. PICK n : n = Walk!Current
  OBVIOUS
<1>2. n \in Panels /\ assigned[n] = frontier
  BY <1>1, CurrentIs
<1>3. Recorded(n) /\ Finished(n)
  BY <1>2, StackTyped DEF Recorded
<1> SUFFICES ASSUME NEW e, e \in Walk!Leads PROVE FALSE
  OBVIOUS
<1>4. PICK c \in Edge : /\ c = e
                       /\ \E b \in Panels, d \in Edge : ~Recorded(b) /\ peer[<<n, c>>] = <<b, d>>
  <2>1. e \in Edge /\ \E b \in Panels, d \in Edge : ~Recorded(b) /\ peer[<<n, e>>] = <<b, d>>
    BY <1>1, LeadsIs
  <2> QED
    BY <2>1
<1>5. c = parent[n] \/ edges[n][c] # "Unexplored"
  BY <1>3 DEF Finished, OpenEdges
<1>6. PICK b \in Panels, d \in Edge : ~Recorded(b) /\ peer[<<n, c>>] = <<b, d>>
  BY <1>4
<1>7. assigned[b] = nextPanelIndex
  <2>1. Recorded(b) \/ (assigned[b] = nextPanelIndex /\ c # parent[n] /\ peer[<<b, parent[b]>>] = <<n, c>>)
    BY <1>2, <1>3, <1>5, <1>6, Explored
  <2> QED
    BY <1>6, <2>1
<1> QED
  BY <1>7 DEF Idle

\* The DONE of the first panel ends the walk.
LEMMA DoneLastFinishes ==
    ASSUME Invariants, Invariants', chan[Trunk] # <<>>, NEW f, f = Head(chan[Trunk]),
           ControllerDoneLast(f), UNCHANGED <<peer, faults, panelVars>>
    PROVE  Walk!Finish
<1>1. Moves(Trunk, f) /\ f.type = "DONE" /\ f.index = frontier /\ IsToken(f)
  <2>1. Trunk \in Port /\ f.type = "DONE" /\ f.index = frontier /\ IsToken(f)
    BY DEF Port, ControllerDoneLast, Resolves, IsToken
  <2> QED
    BY <2>1, TheHead
<1>2. frontier # 0 /\ ~complete /\ Idle /\ \A p \in Panels : assigned[p] = frontier => Finished(p)
  BY <1>1 DEF Moves
<1>3. /\ complete' = TRUE /\ peer' = peer /\ indices' = indices /\ assigned' = assigned
      /\ stack # <<>> => stack[Len(stack)] = 0
  BY DEF ControllerDoneLast, Resumable, panelVars
<1>4. Walk!Leads = {}
  BY <1>2, NoLeads
<1>5. Len(Way) <= 1
  <2>1. Len(Way) = Len(stack) /\ stack # <<>>
    BY <1>2, CurrentIs, WayForm
  <2>2. Len(stack) = 1
    BY <1>3, <2>1, SentinelAtBottom DEF Invariants, TypeOK
  <2> QED
    BY <2>1, <2>2
<1>6. Way' = <<>>
  BY <1>3 DEF Way
<1>7. Order' = Order
  BY <1>3 DEF Order, PanelOf
<1> QED
  BY <1>2, <1>3, <1>4, <1>5, <1>6, <1>7 DEF Walk!Finish, Order, Way

\* Any other DONE turns the walk back to the panel above.
LEMMA DoneResumeTurnsBack ==
    ASSUME Invariants, Invariants', chan[Trunk] # <<>>, NEW f, f = Head(chan[Trunk]),
           ControllerDoneResume(f), UNCHANGED <<peer, faults, panelVars>>
    PROVE  Walk!TurnBack
<1>1. Moves(Trunk, f) /\ f.type = "DONE" /\ f.index = frontier /\ IsToken(f)
  <2>1. Trunk \in Port /\ f.type = "DONE" /\ f.index = frontier /\ IsToken(f)
    BY DEF Port, ControllerDoneResume, Resolves, IsToken
  <2> QED
    BY <2>1, TheHead
<1>2. frontier # 0 /\ ~complete /\ Idle /\ \A p \in Panels : assigned[p] = frontier => Finished(p)
  BY <1>1 DEF Moves
<1>3. /\ stack # <<>> /\ stack[Len(stack)] # 0 /\ frontier' = stack[Len(stack)]
      /\ stack' = SubSeq(stack, 1, Len(stack) - 1)
      /\ complete' = complete /\ peer' = peer /\ indices' = indices /\ assigned' = assigned
  BY DEF ControllerDoneResume, Resumable, panelVars
<1>4. Walk!Leads = {}
  BY <1>2, NoLeads
<1>5. /\ Way \in Seq(Panels) /\ Len(Way) = Len(stack) /\ Len(stack) \in Nat /\ Len(stack) >= 1
      /\ stack[1] = 0 /\ Way[Len(stack)] \in Panels /\ assigned[Way[Len(stack)]] = frontier
      /\ \A k \in 1 .. Len(stack) : k # Len(stack) => Way[k] \in Panels /\ assigned[Way[k]] = stack[k + 1]
  BY <1>2, WayForm
<1>6. PICK n \in Nat : n = Len(stack) /\ n > 1
  BY <1>3, <1>5
<1>7. Len(stack') = n - 1 /\ \A k \in 1 .. n - 1 : stack'[k] = stack[k]
  <2>1. stack \in Seq(0 .. MaxPanels)
    BY StackTyped
  <2> QED
    BY <1>3, <1>6, <2>1, Popped
<1>8. /\ Way' \in Seq(Panels) /\ Len(Way') = n - 1
      /\ Way'[n - 1] \in Panels /\ assigned[Way'[n - 1]] = stack[n]
      /\ \A k \in 1 .. n - 1 : k # n - 1 => Way'[k] \in Panels /\ assigned[Way'[k]] = stack'[k + 1]
  <2>1. WayIs'
    BY WalkReadNext
  <2>2. ~complete' /\ frontier' # 0
    BY <1>2, <1>3
  <2>3. /\ Way' \in Seq(Panels) /\ Len(Way') = Len(stack')
        /\ Way'[Len(stack')] \in Panels /\ assigned'[Way'[Len(stack')]] = frontier'
        /\ \A k \in 1 .. Len(stack') : k # Len(stack') => Way'[k] \in Panels /\ assigned'[Way'[k]] = stack'[k + 1]
    BY <2>1, <2>2 DEF WayIs
  <2> QED
    BY <1>3, <1>6, <1>7, <2>3
<1>9. \A k \in 1 .. n - 1 : stack[k + 1] # 0
  <2>1. \A k \in 1 .. n - 1 : k \in 1 .. Len(stack) /\ k # Len(stack)
    BY <1>6
  <2> QED
    BY <1>2, <2>1, StackAbove
<1>10. ASSUME NEW k \in 1 .. n - 1 PROVE Way'[k] = Way[k]
  <2>1. Way'[k] \in Panels /\ assigned[Way'[k]] = stack[k + 1]
    <3>1. CASE k = n - 1
      <4>1. k + 1 = n
        BY <1>6, <3>1
      <4> QED
        BY <1>8, <3>1, <4>1
    <3>2. CASE k # n - 1
      <4>1. k + 1 \in 1 .. n - 1
        BY <1>6, <3>2
      <4> QED
        BY <1>7, <1>8, <3>2, <4>1
    <3> QED
      BY <3>1, <3>2
  <2>2. Way[k] \in Panels /\ assigned[Way[k]] = stack[k + 1]
    <3>1. k \in 1 .. Len(stack) /\ k # Len(stack)
      BY <1>6
    <3> QED
      BY <1>5, <3>1
  <2> QED
    BY <1>9, <2>1, <2>2, SamePanel DEF Invariants
<1>11. Way' = SubSeq(Way, 1, Len(Way) - 1)
  <2>1. PICK w : w = SubSeq(Way, 1, Len(Way) - 1)
    OBVIOUS
  <2>2. w \in Seq(Panels) /\ Len(w) = n - 1 /\ \A k \in 1 .. n - 1 : w[k] = Way[k]
    BY <1>5, <1>6, <2>1
  <2>3. Way' = w
    BY <1>8, <1>10, <2>2, SameSeq
  <2> QED
    BY <2>1, <2>3
<1>12. Order' = Order
  BY <1>3 DEF Order, PanelOf
<1> QED
  BY <1>3, <1>4, <1>5, <1>6, <1>11, <1>12 DEF Walk!TurnBack, Order, Way

\* A panel keeps the index it has taken.
LEMMA AssignedStays == TypeOK /\ [Next]_vars =>
    peer' = peer /\ \A r \in Panels : assigned[r] # 0 => assigned'[r] = assigned[r]
<1> SUFFICES ASSUME TypeOK, [Next]_vars
             PROVE  peer' = peer /\ \A r \in Panels : assigned[r] # 0 => assigned'[r] = assigned[r]
  OBVIOUS
<1>1. ASSUME UNCHANGED <<peer, panelVars>> PROVE peer' = peer /\ assigned' = assigned
  BY <1>1 DEF panelVars
<1>2. CASE ControllerReceive \/ CoordinatorTick \/ Convert \/ (\E x \in Port : LoseFrame(x)) \/ UNCHANGED vars
  BY <1>1, <1>2 DEF ControllerReceive, CoordinatorTick, Convert, LoseFrame, vars
<1>3. ASSUME NEW p \in Panels, PanelProbeTimeout(p) PROVE peer' = peer /\ assigned' = assigned
  BY <1>3 DEF PanelProbeTimeout, PanelResendProbe, PanelGiveUpEdge, EdgeFailed
<1>4. ASSUME NEW p \in Panels, NEW e \in Edge, PanelReceive(p, e)
      PROVE  peer' = peer /\ \A r \in Panels : assigned[r] # 0 => assigned'[r] = assigned[r]
  <2>1. PICK f : /\ peer' = peer
                 /\ \/ PanelAcceptOffer(p, e, f) \/ PanelRejectOffer(p, e, f) \/ PanelChildAccepted(p, e, f)
                    \/ PanelChildRejected(p, e, f) \/ PanelAdvance(p, e, f) \/ PanelRelayOnly(p, e, f)
    BY <1>4 DEF PanelReceive
  <2>2. CASE PanelAcceptOffer(p, e, f)
    <3>1. assigned' = IF assigned[p] = 0 THEN [assigned EXCEPT ![p] = f.index] ELSE assigned
      BY <2>2 DEF PanelAcceptOffer
    <3> QED
      BY <2>1, <3>1 DEF TypeOK, PanelsTypeOK
  <2>3. CASE PanelRejectOffer(p, e, f) \/ PanelChildAccepted(p, e, f) \/ PanelChildRejected(p, e, f)
             \/ PanelAdvance(p, e, f) \/ PanelRelayOnly(p, e, f)
    BY <2>1, <2>3 DEF PanelRejectOffer, PanelChildAccepted, PanelChildRejected, EdgeFailed, PanelAdvance,
                      PanelRelayOnly, panelVars
  <2> QED
    BY <2>1, <2>2, <2>3
<1> QED
  BY <1>2, <1>3, <1>4 DEF Next

\* Nothing else the controller or a panel does shows in the walk.
LEMMA WalkStutters ==
    ASSUME Invariants, Invariants', [Next]_vars,
           UNCHANGED <<indices, stack, frontier, complete, nextPanelIndex>>
    PROVE  UNCHANGED <<peer, Order, Way, complete>>
<1>1. peer' = peer /\ \A r \in Panels : assigned[r] # 0 => assigned'[r] = assigned[r]
  BY AssignedStays DEF Invariants
<1> QED
  BY <1>1, WalkStands

\* Every step is a step of the walk, or does not show in it.
LEMMA NextWalks ==
    ASSUME Recoverable, Invariants, Invariants', [Next]_vars
    PROVE  Walk!WalkNext \/ UNCHANGED <<peer, Order, Way, complete>>
<1>1. CASE ControllerReceive
  <2>1. PICK f : f = Head(chan[Trunk])
    OBVIOUS
  <2>2. chan[Trunk] # <<>> /\ UNCHANGED <<peer, faults, panelVars>>
    BY <1>1 DEF ControllerReceive
  <2>3. ControllerRegister(f) \/ ControllerDoneLast(f) \/ ControllerDoneResume(f) \/ ControllerIgnore(f)
    BY <1>1, <2>1 DEF ControllerReceive
  <2>4. CASE ControllerRegister(f)
    BY <2>1, <2>2, <2>4, RegisterDescends DEF Walk!WalkNext
  <2>5. CASE ControllerDoneLast(f)
    BY <2>1, <2>2, <2>5, DoneLastFinishes DEF Walk!WalkNext
  <2>6. CASE ControllerDoneResume(f)
    BY <2>1, <2>2, <2>6, DoneResumeTurnsBack DEF Walk!WalkNext
  <2>7. CASE ControllerIgnore(f)
    BY <2>7, WalkStutters DEF ControllerIgnore
  <2> QED
    BY <2>3, <2>4, <2>5, <2>6, <2>7
<1>2. CASE CoordinatorTick
  <2>1. /\ IntervalPasses
        /\ RetryRoot \/ GiveUpRoot \/ RetryAdvance \/ GiveUpWalk
        /\ UNCHANGED <<peer, nextPanelIndex, frontier, stack, indices, links, panelVars>>
    BY <1>2 DEF CoordinatorTick
  <2>2. CASE RetryRoot \/ RetryAdvance
    <3>1. complete' = complete
      BY <2>2 DEF RetryRoot, RetryAdvance
    <3> QED
      BY <2>1, <3>1, WalkStutters
  <2>3. CASE GiveUpRoot
    <3>1. peer[Trunk] = NoPort
      BY <2>1, <2>3, GiveUpRootWalk
    <3>2. ~complete /\ complete' = TRUE /\ frontier = 0 /\ peer' = peer /\ indices' = indices /\ assigned' = assigned
      BY <2>1, <2>3 DEF IntervalPasses, GiveUpRoot, panelVars
    <3>3. Walk!Leads = {}
      <4>1. PICK n : n = Walk!Current
        OBVIOUS
      <4>2. n = Controller
        BY <3>2, <4>1, CurrentIs
      <4> SUFFICES ASSUME NEW e, e \in Walk!Leads PROVE FALSE
        OBVIOUS
      <4>3. PICK b \in Panels, d \in Edge : <<n, e>> \in Port /\ peer[<<n, e>>] = <<b, d>>
        BY <4>1, LeadsIs
      <4>4. <<n, e>> = Trunk
        BY <4>2, <4>3, PanelsAssumption DEF Port
      <4>5. <<b, d>> \in Port
        BY PortOf
      <4> QED
        BY <3>1, <4>3, <4>4, <4>5, PanelsAssumption
    <3>4. Way = <<>> /\ Way' = <<>> /\ Order' = Order
      BY <3>2 DEF Way, Order, PanelOf
    <3>5. Len(Way) <= 1
      BY <3>4
    <3>6. Walk!Finish
      BY <3>2, <3>3, <3>4, <3>5 DEF Walk!Finish, Order, Way
    <3> QED
      BY <3>6 DEF Walk!WalkNext
  <2> QED
    BY <2>1, <2>2, <2>3, NoGiveUpWalk
<1>3. CASE Convert
  BY <1>3, WalkStutters DEF Convert
<1>4. ASSUME UNCHANGED coordVars
      PROVE  UNCHANGED <<peer, Order, Way, complete>>
  BY <1>4, WalkStutters DEF coordVars
<1>5. ASSUME NEW p \in Panels, NEW e \in Edge, PanelReceive(p, e) PROVE UNCHANGED coordVars
  BY <1>5 DEF PanelReceive
<1>6. ASSUME NEW p \in Panels, PanelProbeTimeout(p) PROVE UNCHANGED coordVars
  BY <1>6 DEF PanelProbeTimeout
<1>7. ASSUME NEW x \in Port, LoseFrame(x) PROVE UNCHANGED coordVars
  BY <1>7 DEF LoseFrame
<1>8. UNCHANGED vars => UNCHANGED coordVars
  BY DEF vars
<1> QED
  BY <1>1, <1>2, <1>3, <1>4, <1>5, <1>6, <1>7, <1>8 DEF Next

\* The walk starts at the controller with nothing visited.
LEMMA InitWalks ==
    ASSUME Init, Invariants
    PROVE  Walk!WalkInit
<1>1. nextPanelIndex = 1 /\ frontier = 0 /\ complete = FALSE
  BY DEF Init, ControllerInit
<1>2. Order = <<>>
  <2>1. Order \in Seq(Panels) /\ Len(Order) = 0
    BY <1>1, WalkRead DEF OrderIs
  <2> QED
    BY <2>1
<1>3. Way = <<>>
  BY <1>1 DEF Way
<1> QED
  BY <1>1, <1>2, <1>3 DEF Walk!WalkInit, Order, Way

\* DiscoveryCoordinator, PanelDiscovery and their drivers: frames, probe timeouts, retries
\* and tables add up to a depth-first walk of the wiring that always takes the lowest edge
\* leading to a panel not visited yet and turns back only when there is none.
THEOREM WalksDepthFirst ==
    ASSUME Recoverable
    PROVE  Spec => Walk!WalkSafe
<1>1. Init /\ Invariants => Walk!WalkInit
  BY InitWalks
<1>2. Invariants /\ Invariants' /\ [Next]_vars => [Walk!WalkNext]_(Walk!walkVars)
  BY NextWalks DEF Walk!walkVars, Order, Way
<1> QED
  BY <1>1, <1>2, WalkInvariant, PTL DEF Spec, Walk!WalkSafe

=============================================================================
