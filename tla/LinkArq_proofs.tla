---------------------------- MODULE LinkArq_proofs ----------------------------
(***************************************************************************)
(* Theorems about LinkArq, for all times, numbers of retransmissions, of   *)
(* calls and of losses: a call is dispatched once if the clock it is noted *)
(* by is young enough (DispatchedOnce), a call that was acknowledged was   *)
(* dispatched (AckedDispatched), an answer answers its own call            *)
(* (AnswersOwn), and a call into a link at rest fails only when more was   *)
(* lost than there are retransmissions (CallsSurviveLosses).               *)
(***************************************************************************)
EXTENDS LinkArq, TLAPS

Replies == {Reply(t) : t \in Targets}
Acks    == {Ack(w) : w \in Frames \cup Replies}
Sent    == [what : Frames \cup Acks, call : 1 .. MaxCalls, age : 0 .. MaxDelay]
Answers == [what : Replies \cup Acks, call : 1 .. MaxCalls, age : Nat]

ControllerType ==
    /\ calls \in 0 .. MaxCalls /\ frame \in Frames \cup {Nothing}
    /\ airtime \in [1 .. MaxCalls -> 0 .. FrameTime]
    /\ waiting \in {"LINK_ACK", "REPLY", "nothing"}
    /\ waiting # "nothing" => calls > 0 /\ frame \in Frames
    /\ acked \in BOOLEAN /\ attemptsLeft \in 0 .. LINK_RETRANSMITS
    /\ sinceSent \in Nat /\ sinceStart \in Nat
SendingType ==
    /\ sending \in {"nothing", "first", "copy"}
    /\ sending = "nothing" => sinceSent <= LINK_ACK_TIMEOUT_MS
    /\ sending # "nothing" => waiting # "nothing" /\ ~acked /\ sinceSent <= airtime[calls]
    /\ sending = "first" => attemptsLeft = LINK_RETRANSMITS
    /\ sending = "copy" => attemptsLeft > 0
WireType ==
    /\ down \in Seq(Sent) /\ up \in Seq(Answers)
    /\ \A i \in DOMAIN down : down[i].call <= calls
    /\ \A i \in DOMAIN up : up[i].call <= calls
PanelType ==
    /\ panel \in {"listening", "acting", "sending", "window"}
    /\ acting \in [what : Frames \cup Replies \cup {Nothing}, call : 0 .. MaxCalls]
    /\ panel = "acting" => acting.what \in Frames
    /\ panel \in {"sending", "window"} => acting.what \in Replies
    /\ panel # "listening" => acting.call > 0 /\ acting.call <= calls
    /\ attempt \in Nat /\ sinceStep \in Nat /\ lag \in Nat
    /\ entry \in [armed : BOOLEAN, what : Frames \cup {Nothing}, age : Nat]
    /\ dispatched \in [1 .. MaxCalls -> Nat] /\ lagged \in [1 .. MaxCalls -> Nat]
GhostType ==
    /\ disturbed \in BOOLEAN /\ received \in BOOLEAN
    /\ outcome \in 0 .. MaxCalls /\ losses \in Nat /\ callLosses \in Nat
TypeInv == ControllerType /\ SendingType /\ WireType /\ PanelType /\ GhostType

-----------------------------------------------------------------------------
IsFrame(f) == f.what[1] # "LINK_ACK"

\* The frames of a call are equal, and those of an earlier one are in front.
WireInv ==
    /\ \A i \in DOMAIN down : IsFrame(down[i]) /\ down[i].call = calls => down[i].what = frame
    /\ \A i, j \in DOMAIN down : i < j /\ IsFrame(down[i]) /\ IsFrame(down[j]) =>
          /\ down[i].call <= down[j].call
          /\ down[i].call = down[j].call => down[i].what = down[j].what

\* Nobody has heard of a call whose first frame is still being sent.
FirstInv ==
    sending = "first" => /\ dispatched[calls] = 0
                         /\ \A i \in DOMAIN down : IsFrame(down[i]) => down[i].call # calls

\* The frame may still be sent again; how long ago it was sent first.
MaySend == waiting # "nothing" /\ ~acked /\ attemptsLeft > 0
Elapsed == (LINK_RETRANSMITS - attemptsLeft) * (LINK_ACK_TIMEOUT_MS + airtime[calls])
           + sinceSent + (IF sending = "copy" THEN LINK_ACK_TIMEOUT_MS ELSE 0)

\* Call n is what the panel noted last, and not longer ago than the call and slack when
\* the next copy of its frame is there.
NotedBy(n, slack) ==
    /\ \A i \in DOMAIN down : IsFrame(down[i]) =>
          /\ n <= down[i].call
          /\ down[i].call = n => /\ entry.armed /\ entry.what = down[i].what
                                 /\ entry.age <= slack + Span(n) + down[i].age
    /\ n = calls /\ MaySend => entry.armed /\ entry.what = frame /\ entry.age <= slack + Elapsed

NotedInv == \A n \in 1 .. MaxCalls : dispatched[n] > 0 => n <= calls /\ NotedBy(n, lagged[n])

\* A call that began with the link at rest has it for itself.
Alone ==
    /\ \A i \in DOMAIN down : down[i].call = calls
    /\ \A i \in DOMAIN up : up[i].call = calls
    /\ panel # "listening" => acting.call = calls

\* The panel has not heard of it.
Unheard ==
    /\ ~acked /\ up = <<>> /\ panel = "listening" /\ lag = 0
    /\ entry.armed /\ entry.what = frame => entry.age >= LINK_DEDUP_WINDOW_MS

\* The panel's clock was read after the call began.
LagBounded ==
    /\ \A i \in DOMAIN down : IsFrame(down[i]) => lag <= Span(calls) + down[i].age
    /\ MaySend => lag <= Elapsed

QuietInv ==
    ~disturbed /\ calls > 0 =>
        /\ Alone /\ LagBounded
        /\ dispatched[calls] = 0 => Unheard
        /\ dispatched[calls] > 0 => NotedBy(calls, 0)
        /\ Span(calls) + MaxDelay < LINK_DEDUP_WINDOW_MS => dispatched[calls] <= 1

ArqInv ==
    TypeInv /\ WireInv /\ FirstInv /\ NotedInv /\ DispatchedOnceInTime /\ QuietInv /\ AnswersThisCall

-----------------------------------------------------------------------------
(* Times, frames and wires.                                                 *)

LEMMA Times ==
    /\ LINK_ACK_TIMEOUT_MS \in Nat \ {0} /\ LINK_RETRANSMITS \in Nat
    /\ LINK_DEDUP_WINDOW_MS \in Nat /\ ACK_TIMEOUT_MS \in Nat /\ MaxDelay \in Nat
    /\ MaxActing \in Nat /\ MaxCalls \in Nat /\ MaxLosses \in Nat /\ FrameTime \in Nat
    /\ AirTimes \subseteq 0 .. FrameTime /\ MaxLag \in Nat
<1>1. /\ LINK_ACK_TIMEOUT_MS \in Nat /\ LINK_RETRANSMITS \in Nat
      /\ LINK_DEDUP_WINDOW_MS \in Nat /\ ACK_TIMEOUT_MS \in Nat /\ MaxDelay \in Nat
      /\ MaxActing \in Nat /\ MaxCalls \in Nat /\ MaxLosses \in Nat /\ FrameTime \in Nat
      /\ AirTimes \subseteq 0 .. FrameTime /\ 2 * MaxDelay < LINK_ACK_TIMEOUT_MS
  BY TimesAssumption
<1>2. \A m, n \in Nat : m * n \in Nat
  OBVIOUS
<1>3. (LINK_RETRANSMITS + 1) * (FrameTime + LINK_ACK_TIMEOUT_MS) \in Nat
  BY <1>1, <1>2
<1> QED
  BY <1>1, <1>3 DEF MaxLag

\* The time a frame takes, and how long after its first copy its last one is out.
LEMMA Airtime ==
    ASSUME ControllerType, NEW n \in 1 .. MaxCalls
    PROVE  /\ airtime[n] \in Nat /\ airtime[n] <= FrameTime
           /\ Span(n) \in Nat
<1>1. /\ airtime[n] \in Nat /\ airtime[n] <= FrameTime
      /\ LINK_ACK_TIMEOUT_MS + airtime[n] \in Nat /\ LINK_RETRANSMITS \in Nat
  BY Times DEF ControllerType
<1>2. \A a, b \in Nat : a * b \in Nat
  OBVIOUS
<1> QED
  BY <1>1, <1>2 DEF Span

LEMMA Kinds ==
    /\ \A w \in Frames : w[1] \in {"FETCH_STATE", "COMMAND"}
    /\ \A w \in Frames : w[1] = "FETCH_STATE" => Reply(w[2]) \in Replies
    /\ \A w \in Replies : w[1] = "FETCH_STATE_REPLY"
    /\ \A w \in Acks : w[1] = "LINK_ACK"
    /\ \A w \in Frames \cup Replies : Ack(w) \in Acks
  BY DEF Frames, Replies, Acks, Fetch, Reply, Ack

LEMMA Appended ==
    ASSUME NEW S, NEW s \in Seq(S), NEW w, NEW n, [what |-> w, call |-> n, age |-> 0] \in S
    PROVE  /\ On(s, w, n) \in Seq(S)
           /\ DOMAIN On(s, w, n) = 1 .. Len(s) + 1 /\ DOMAIN s = 1 .. Len(s) /\ Len(s) \in Nat
           /\ \A i \in DOMAIN s : On(s, w, n)[i] = s[i]
           /\ On(s, w, n)[Len(s) + 1] = [what |-> w, call |-> n, age |-> 0]
  BY DEF On

LEMMA Oldest ==
    ASSUME NEW S, NEW s \in Seq(S), s # <<>>
    PROVE  /\ Head(s) \in S /\ Head(s) = s[1] /\ 1 \in DOMAIN s
           /\ Tail(s) \in Seq(S)
           /\ \A i \in DOMAIN Tail(s) : i + 1 \in DOMAIN s /\ Tail(s)[i] = s[i + 1]
  OBVIOUS

LEMMA Element ==
    ASSUME NEW S, NEW s \in Seq(S)
    PROVE  /\ \A i \in DOMAIN s : s[i] \in S
           /\ DOMAIN s = 1 .. Len(s) /\ Len(s) \in Nat
  OBVIOUS

\* Whatever was on a wire and stays is in the same order.
OnlyOld(after, before) ==
    \E k \in Nat : \A i \in DOMAIN after : i + k \in DOMAIN before /\ after[i] = before[i + k]

LEMMA Flushed ==
    ASSUME NEW left, TypeInv, Flush(left)
    PROVE  /\ left \in Seq(Answers) /\ \A i \in DOMAIN left : left[i].age <= MaxDelay
           /\ \A i \in DOMAIN left : left[i].call <= calls
<1>1. PICK k \in 1 .. Len(up) + 1 : /\ left = SubSeq(up, k, Len(up))
                                   /\ \A i \in k .. Len(up) : up[i].age <= MaxDelay
  BY DEF Flush
<1>2. up \in Seq(Answers) /\ Len(up) \in Nat /\ DOMAIN up = 1 .. Len(up)
  BY DEF TypeInv, WireType
<1>3. left \in Seq(Answers) /\ DOMAIN left = 1 .. Len(up) - k + 1
  BY <1>1, <1>2
<1>4. \A i \in DOMAIN left : i + k - 1 \in k .. Len(up) /\ left[i] = up[i + k - 1]
  BY <1>1, <1>2, <1>3
<1> QED
  BY <1>1, <1>2, <1>3, <1>4 DEF TypeInv, WireType

\* What is in S is in T at any age.
Ageless(S, T) ==
    \A r \in S : /\ r.age \in Nat /\ r = [what |-> r.what, call |-> r.call, age |-> r.age]
                 /\ \A k \in Nat : [what |-> r.what, call |-> r.call, age |-> k] \in T

LEMMA Aged ==
    ASSUME NEW S, NEW T, NEW wire \in Seq(S), Ageless(S, T)
    PROVE  /\ Older(wire) \in Seq(T) /\ DOMAIN Older(wire) = DOMAIN wire
           /\ \A i \in DOMAIN wire :
                 /\ Older(wire)[i].what = wire[i].what /\ Older(wire)[i].call = wire[i].call
                 /\ wire[i].age \in Nat
                 /\ wire[i].age < MaxDelay => Older(wire)[i].age = wire[i].age + 1
<1>1. \A i \in DOMAIN wire : wire[i] \in S
  BY Element
<1>2. ASSUME NEW r \in S
      PROVE  LET k == Min2(r.age + 1, MaxDelay + 1)
                 o == [r EXCEPT !.age = Min2(@ + 1, MaxDelay + 1)]
             IN  /\ k \in Nat /\ (r.age < MaxDelay => k = r.age + 1)
                 /\ o = [what |-> r.what, call |-> r.call, age |-> k] /\ o \in T
  <2> DEFINE k == Min2(r.age + 1, MaxDelay + 1)
             o == [r EXCEPT !.age = Min2(@ + 1, MaxDelay + 1)]
  <2>1. k \in Nat /\ (r.age < MaxDelay => k = r.age + 1)
    BY Times DEF Min2, Ageless
  <2>2. o = [[what |-> r.what, call |-> r.call, age |-> r.age] EXCEPT !.age = k]
    BY DEF Ageless
  <2> HIDE DEF k
  <2>3. o = [what |-> r.what, call |-> r.call, age |-> k]
    BY <2>2
  <2> QED
    BY <2>1, <2>3 DEF k, Ageless
<1>3. DOMAIN wire = 1 .. Len(wire) /\ Len(wire) \in Nat
  BY Element
<1>4. \A i \in DOMAIN wire : LET o == [wire[i] EXCEPT !.age = Min2(@ + 1, MaxDelay + 1)]
                           IN  /\ o \in T /\ o.what = wire[i].what /\ o.call = wire[i].call
                               /\ wire[i].age < MaxDelay => o.age = wire[i].age + 1
  BY <1>1, <1>2
<1>5. DOMAIN Older(wire) = 1 .. Len(wire) /\ \A i \in DOMAIN wire : Older(wire)[i] \in T
  BY <1>3, <1>4 DEF Older
<1>6. Older(wire) \in Seq(T)
  <2>1. Older(wire) \in [1 .. Len(wire) -> T]
    BY <1>3, <1>5 DEF Older
  <2> HIDE DEF Older
  <2> QED
    BY <1>3, <2>1
<1>7. \A i \in DOMAIN wire :
         Older(wire)[i] = [wire[i] EXCEPT !.age = Min2(@ + 1, MaxDelay + 1)]
  BY DEF Older
<1>8. \A i \in DOMAIN wire : wire[i].age \in Nat
  BY <1>1 DEF Ageless
<1> HIDE DEF Older
<1> QED
  BY <1>3, <1>4, <1>5, <1>6, <1>7, <1>8

-----------------------------------------------------------------------------
(* The types.                                                               *)

\* What is on a wire when a frame of a known call joins it, or the oldest leaves it.
LEMMA DownJoined ==
    ASSUME TypeInv, NEW w \in Frames \cup Acks, NEW n \in 1 .. MaxCalls, calls' \in Int, n <= calls',
           calls <= calls', down' = On(down, w, n)
    PROVE  down' \in Seq(Sent) /\ \A i \in DOMAIN down' : down'[i].call <= calls'
<1>1. [what |-> w, call |-> n, age |-> 0] \in Sent
  BY Times DEF Sent
<1>2. down \in Seq(Sent) /\ calls \in Int /\ \A i \in DOMAIN down : down[i].call <= calls /\ down[i] \in Sent
  BY Element DEF TypeInv, WireType, ControllerType
<1>3. \A i \in DOMAIN down : down[i].call \in Int
  BY <1>2, Times DEF Sent
<1> HIDE DEF Sent
<1>4. down' \in Seq(Sent)
  BY <1>1, <1>2, Appended
<1>5. \A i \in DOMAIN down' : \/ i \in DOMAIN down /\ down'[i] = down[i]
                             \/ down'[i] = [what |-> w, call |-> n, age |-> 0]
  BY <1>1, <1>2, Appended
<1>6. n <= calls'
  OBVIOUS
<1> QED
  BY <1>2, <1>3, <1>4, <1>5, <1>6

LEMMA UpJoined ==
    ASSUME TypeInv, NEW w \in Replies \cup Acks, NEW n \in 1 .. MaxCalls, n <= calls,
           up' = On(up, w, n)
    PROVE  up' \in Seq(Answers) /\ \A i \in DOMAIN up' : up'[i].call <= calls
<1>1. [what |-> w, call |-> n, age |-> 0] \in Answers
  BY DEF Answers
<1>2. up \in Seq(Answers) /\ \A i \in DOMAIN up : up[i].call <= calls
  BY DEF TypeInv, WireType
<1> HIDE DEF Answers
<1>4. up' \in Seq(Answers)
  BY <1>1, <1>2, Appended
<1>5. \A i \in DOMAIN up' : \/ i \in DOMAIN up /\ up'[i] = up[i]
                           \/ up'[i] = [what |-> w, call |-> n, age |-> 0]
  BY <1>1, <1>2, Appended
<1> QED
  BY <1>2, <1>4, <1>5

LEMMA DownTail ==
    ASSUME TypeInv, down # <<>>
    PROVE  /\ Tail(down) \in Seq(Sent) /\ \A i \in DOMAIN Tail(down) : Tail(down)[i].call <= calls
           /\ Head(down) \in Sent /\ Head(down) = down[1] /\ 1 \in DOMAIN down
           /\ Head(down).what \in Frames \cup Acks /\ Head(down).call \in 1 .. MaxCalls
           /\ Head(down).call <= calls
<1>1. down \in Seq(Sent) /\ \A i \in DOMAIN down : down[i].call <= calls
  BY DEF TypeInv, WireType
<1>2. Head(down) \in Sent /\ Head(down) = down[1] /\ 1 \in DOMAIN down
  BY <1>1, Oldest
<1> QED
  BY <1>1, <1>2, Oldest DEF Sent

LEMMA UpTail ==
    ASSUME TypeInv, up # <<>>
    PROVE  /\ Tail(up) \in Seq(Answers) /\ \A i \in DOMAIN Tail(up) : Tail(up)[i].call <= calls
           /\ Head(up) \in Answers /\ Head(up) = up[1] /\ 1 \in DOMAIN up
           /\ Head(up).what \in Replies \cup Acks /\ Head(up).call \in 1 .. MaxCalls
           /\ Head(up).call <= calls
<1>1. up \in Seq(Answers) /\ \A i \in DOMAIN up : up[i].call <= calls
  BY DEF TypeInv, WireType
<1>2. Head(up) \in Answers /\ Head(up) = up[1] /\ 1 \in DOMAIN up
  BY <1>1, Oldest
<1> QED
  BY <1>1, <1>2, Oldest DEF Answers

LEMMA CallType == ASSUME TypeInv, NEW w \in Frames, Call(w) PROVE TypeInv'
<1>1. calls \in Nat /\ calls < MaxCalls /\ calls' = calls + 1 /\ MaxCalls \in Nat
  BY Times DEF Call, TypeInv, ControllerType
<1>2. down' \in Seq(Sent) /\ \A i \in DOMAIN down' : down'[i].call <= calls'
  <2>1. down \in Seq(Sent) /\ \A i \in DOMAIN down : down[i] \in Sent /\ down[i].call <= calls
    BY Element DEF TypeInv, WireType
  <2>2. \A i \in DOMAIN down : down[i].call \in Nat
    BY <2>1 DEF Sent
  <2>3. down' = down
    BY DEF Call
  <2> QED
    BY <1>1, <2>1, <2>2, <2>3
<1>3. up' \in Seq(Answers) /\ \A i \in DOMAIN up' : up'[i].call <= calls
  BY Flushed DEF Call
<1>4. \A i \in DOMAIN up' : up'[i].call <= calls'
  <2>1. \A i \in DOMAIN up' : up'[i].call \in Int
    <3>1. \A i \in DOMAIN up' : up'[i] \in Answers
      BY <1>3, Element
    <3> QED
      BY <3>1 DEF Answers
  <2> QED
    BY <1>1, <1>3, <2>1
<1>5. ControllerType'
  <2>1. waiting' \in {"LINK_ACK", "REPLY"} /\ frame' \in Frames /\ acked' = FALSE
    BY DEF Call
  <2>2. attemptsLeft' = LINK_RETRANSMITS /\ sinceSent' = 0 /\ sinceStart' = 0
    BY DEF Call
  <2>3. attemptsLeft' \in 0 .. LINK_RETRANSMITS
    BY <2>2, Times
  <2>4. calls' \in 0 .. MaxCalls /\ calls' > 0
    BY <1>1
  <2>5. PICK t \in AirTimes : airtime' = [airtime EXCEPT ![calls + 1] = t]
    BY DEF Call
  <2>6. airtime' \in [1 .. MaxCalls -> 0 .. FrameTime]
    BY <2>5, Times DEF TypeInv, ControllerType
  <2> QED
    BY <2>1, <2>2, <2>3, <2>4, <2>6 DEF ControllerType
<1>8. SendingType'
  <2>1. /\ sending' = "first" /\ waiting' # "nothing" /\ acked' = FALSE /\ sinceSent' = 0
        /\ attemptsLeft' = LINK_RETRANSMITS /\ calls' \in 1 .. MaxCalls
    BY <1>1 DEF Call
  <2>2. airtime'[calls'] \in Nat
    BY <1>5, <2>1, Times DEF ControllerType
  <2> QED
    BY <2>1, <2>2 DEF SendingType
<1>6. PanelType'
  BY <1>1 DEF Call, panelVars, TypeInv, PanelType
<1>7. GhostType'
  <2>1. disturbed' \in BOOLEAN
    <3>1. disturbed' = (\/ panel # "listening" \/ lag > 0 \/ down # <<>>
                        \/ \E i \in DOMAIN up' : up'[i].age <= MaxDelay
                        \/ entry.armed /\ entry.what = w /\ entry.age < LINK_DEDUP_WINDOW_MS)
      BY DEF Call
    <3> QED
      BY <3>1
  <2> QED
    BY <2>1 DEF Call, TypeInv, GhostType
<1> QED
  BY <1>2, <1>3, <1>4, <1>5, <1>6, <1>7, <1>8 DEF TypeInv, WireType

LEMMA ControllerSentType == TypeInv /\ ControllerSent => TypeInv'
<1> SUFFICES ASSUME TypeInv, ControllerSent PROVE TypeInv'
  OBVIOUS
<1>1. calls \in 1 .. MaxCalls /\ frame \in Frames /\ calls' = calls
  BY DEF ControllerSent, TypeInv, ControllerType, SendingType
<1>2. down' \in Seq(Sent) /\ \A i \in DOMAIN down' : down'[i].call <= calls'
  BY <1>1, DownJoined DEF ControllerSent
<1>3. ControllerType' /\ SendingType'
  BY Times DEF ControllerSent, TypeInv, ControllerType, SendingType
<1> QED
  BY <1>1, <1>2, <1>3 DEF ControllerSent, panelVars, ghostVars, TypeInv, WireType, PanelType, GhostType

LEMMA ControllerRetransmitType == TypeInv /\ ControllerRetransmit => TypeInv'
<1> SUFFICES ASSUME TypeInv, ControllerRetransmit PROVE TypeInv'
  OBVIOUS
<1>1. calls \in 1 .. MaxCalls /\ calls' = calls /\ ControllerType
  BY DEF ControllerRetransmit, TypeInv, ControllerType
<1>2. ControllerType' /\ SendingType'
  BY <1>1, Airtime DEF ControllerRetransmit, MayRetransmit, TypeInv, ControllerType, SendingType
<1> QED
  BY <1>1, <1>2 DEF ControllerRetransmit, panelVars, ghostVars, TypeInv, WireType, PanelType, GhostType

LEMMA ReturnsType ==
    ASSUME TypeInv, NEW well \in BOOLEAN, NEW answer \in 0 .. MaxCalls,
           Returns(well, answer) \/ Stays, sending = "nothing", acked' \in BOOLEAN,
           UNCHANGED <<calls, frame, airtime, sending, attemptsLeft, sinceSent, sinceStart>>,
           UNCHANGED <<disturbed, losses, callLosses>>
    PROVE  ControllerType' /\ SendingType' /\ GhostType'
           /\ (waiting' # "nothing" => waiting' = waiting)
  BY DEF Returns, Stays, TypeInv, ControllerType, SendingType, GhostType

LEMMA ControllerReceiveAckType == TypeInv /\ ControllerReceiveAck => TypeInv'
<1> SUFFICES ASSUME TypeInv, ControllerReceiveAck PROVE TypeInv'
  OBVIOUS
<1>1. acked' \in BOOLEAN
  <2>1. (Head(up).what = Ack(frame)) \in BOOLEAN
    OBVIOUS
  <2> QED
    BY <2>1 DEF ControllerReceiveAck, TypeInv, ControllerType
<1>2. TRUE \in BOOLEAN /\ calls \in 0 .. MaxCalls
  BY DEF TypeInv, ControllerType
<1>3. ControllerType' /\ SendingType' /\ GhostType' /\ calls' = calls
  BY <1>1, <1>2, ReturnsType DEF ControllerReceiveAck, Reading
<1>4. up' \in Seq(Answers) /\ \A i \in DOMAIN up' : up'[i].call <= calls
  BY UpTail DEF ControllerReceiveAck
<1> QED
  BY <1>3, <1>4 DEF ControllerReceiveAck, panelVars, TypeInv, WireType, PanelType

LEMMA ControllerReceiveReplyType == TypeInv /\ ControllerReceiveReply => TypeInv'
<1> SUFFICES ASSUME TypeInv, ControllerReceiveReply PROVE TypeInv'
  OBVIOUS
<1>1. Head(up).what \in Replies /\ Head(up).call \in 1 .. MaxCalls /\ Head(up).call <= calls
  BY UpTail, Kinds DEF ControllerReceiveReply
<1>2. (Head(up).what = Reply(frame[2])) \in BOOLEAN
  OBVIOUS
<1>3. ControllerType' /\ SendingType' /\ GhostType' /\ calls' = calls
  <2>1. acked' \in BOOLEAN /\ Head(up).call \in 0 .. MaxCalls
    BY <1>1 DEF ControllerReceiveReply, TypeInv, ControllerType
  <2> QED
    BY <1>2, <2>1, ReturnsType DEF ControllerReceiveReply, Reading
<1>4. up' \in Seq(Answers) /\ \A i \in DOMAIN up' : up'[i].call <= calls
  BY UpTail DEF ControllerReceiveReply
<1>5. down' \in Seq(Sent) /\ \A i \in DOMAIN down' : down'[i].call <= calls'
  <2>1. Ack(Head(up).what) \in Acks
    BY <1>1, Kinds
  <2>2. calls \in Int
    BY DEF TypeInv, ControllerType
  <2>3. down' = On(down, Ack(Head(up).what), Head(up).call)
    BY DEF ControllerReceiveReply
  <2> QED
    BY <1>1, <1>3, <2>1, <2>2, <2>3, DownJoined
<1> QED
  BY <1>3, <1>4, <1>5 DEF ControllerReceiveReply, panelVars, TypeInv, WireType, PanelType

LEMMA ControllerTimeoutType == TypeInv /\ ControllerTimeout => TypeInv'
<1> SUFFICES ASSUME TypeInv, ControllerTimeout PROVE TypeInv'
  OBVIOUS
<1>1. FALSE \in BOOLEAN /\ calls \in 0 .. MaxCalls
  BY DEF TypeInv, ControllerType
<1>2. ControllerType' /\ SendingType' /\ GhostType' /\ calls' = calls
  <2>1. acked' \in BOOLEAN
    BY DEF ControllerTimeout, TypeInv, ControllerType
  <2> QED
    BY <1>1, <2>1, ReturnsType DEF ControllerTimeout
<1> QED
  BY <1>2 DEF ControllerTimeout, panelVars, TypeInv, WireType, PanelType

\* The panel's part of a frame it hears.
LEMMA Hears ==
    ASSUME TypeInv, PanelReceive
    PROVE  LET w == Head(down).what
               n == Head(down).call
           IN  /\ down # <<>> /\ down' = Tail(down) /\ n \in 1 .. MaxCalls /\ n <= calls
               /\ panel = "listening" /\ UNCHANGED <<controllerVars, ghostVars>>
               /\ \/ /\ w \in Acks /\ UNCHANGED <<up, panelVars>>
                  \/ /\ w \in Frames /\ up' = On(up, Ack(w), n) /\ Note(w)
                     /\ lagged' = [lagged EXCEPT ![n] = Max2(@, lag)]
                     /\ UNCHANGED <<attempt, lag>>
                     /\ \/ Duplicate(w) /\ UNCHANGED <<panel, acting, sinceStep, dispatched>>
                        \/ /\ ~Duplicate(w) /\ panel' = "acting" /\ sinceStep' = 0
                           /\ acting' = [what |-> w, call |-> n]
                           /\ dispatched' = [dispatched EXCEPT ![n] = @ + 1]
<1>1. /\ Head(down).what \in Frames \cup Acks /\ Head(down).call \in 1 .. MaxCalls
      /\ Head(down).call <= calls
  BY DownTail DEF PanelReceive
<1>2. Head(down).what \in Acks <=> Head(down).what[1] = "LINK_ACK"
  BY <1>1, Kinds
<1>3. CASE Head(down).what \in Acks
  BY <1>1, <1>2, <1>3 DEF PanelReceive
<1>4. CASE Head(down).what \notin Acks
  BY <1>1, <1>2, <1>4 DEF PanelReceive
<1> QED
  BY <1>3, <1>4

LEMMA PanelReceiveType == TypeInv /\ PanelReceive => TypeInv'
<1> SUFFICES ASSUME TypeInv, PanelReceive PROVE TypeInv'
  OBVIOUS
<1> DEFINE w == Head(down).what
           n == Head(down).call
<1>1. /\ down # <<>> /\ down' = Tail(down) /\ n \in 1 .. MaxCalls /\ n <= calls
      /\ panel = "listening" /\ UNCHANGED <<controllerVars, ghostVars>>
  BY Hears
<1>2. \/ /\ w \in Acks /\ UNCHANGED <<up, panelVars>>
      \/ /\ w \in Frames /\ up' = On(up, Ack(w), n) /\ Note(w)
         /\ lagged' = [lagged EXCEPT ![n] = Max2(@, lag)]
         /\ UNCHANGED <<attempt, lag>>
         /\ \/ Duplicate(w) /\ UNCHANGED <<panel, acting, sinceStep, dispatched>>
            \/ /\ ~Duplicate(w) /\ panel' = "acting" /\ sinceStep' = 0
               /\ acting' = [what |-> w, call |-> n]
               /\ dispatched' = [dispatched EXCEPT ![n] = @ + 1]
  BY Hears
<1> HIDE DEF w, n
<1>3. ControllerType' /\ SendingType' /\ GhostType' /\ calls' = calls
  BY <1>1 DEF controllerVars, ghostVars, TypeInv, ControllerType, SendingType, GhostType
<1>4. down' \in Seq(Sent) /\ \A i \in DOMAIN down' : down'[i].call <= calls
  BY <1>1, DownTail
<1>5. CASE w \in Acks /\ UNCHANGED <<up, panelVars>>
  BY <1>3, <1>4, <1>5 DEF TypeInv, WireType, PanelType, panelVars
<1>6. CASE /\ w \in Frames /\ up' = On(up, Ack(w), n) /\ Note(w)
           /\ lagged' = [lagged EXCEPT ![n] = Max2(@, lag)]
           /\ UNCHANGED <<attempt, lag>>
           /\ \/ Duplicate(w) /\ UNCHANGED <<panel, acting, sinceStep, dispatched>>
              \/ /\ ~Duplicate(w) /\ panel' = "acting" /\ sinceStep' = 0
                 /\ acting' = [what |-> w, call |-> n]
                 /\ dispatched' = [dispatched EXCEPT ![n] = @ + 1]
  <2>1. up' \in Seq(Answers) /\ \A i \in DOMAIN up' : up'[i].call <= calls
    <3>1. Ack(w) \in Replies \cup Acks
      BY <1>6, Kinds
    <3> QED
      BY <1>1, <1>6, <3>1, UpJoined
  <2>2. entry' \in [armed : BOOLEAN, what : Frames \cup {Nothing}, age : Nat]
    BY <1>6 DEF Note, TypeInv, PanelType
  <2>3. lagged' \in [1 .. MaxCalls -> Nat]
    <3>1. Max2(lagged[n], lag) \in Nat
      BY <1>1 DEF Max2, TypeInv, PanelType
    <3> QED
      BY <1>1, <1>6, <3>1 DEF TypeInv, PanelType
  <2>4. /\ acting' \in [what : Frames \cup Replies \cup {Nothing}, call : 0 .. MaxCalls]
        /\ dispatched' \in [1 .. MaxCalls -> Nat] /\ sinceStep' \in Nat
        /\ panel' \in {"listening", "acting"}
        /\ panel' = "acting" => acting'.what \in Frames /\ acting'.call = n
    <3>1. n \in 0 .. MaxCalls /\ dispatched[n] + 1 \in Nat
      BY <1>1 DEF TypeInv, PanelType
    <3> QED
      BY <1>1, <1>6, <3>1 DEF TypeInv, PanelType
  <2>5. PanelType'
    BY <1>1, <1>3, <1>6, <2>2, <2>3, <2>4 DEF TypeInv, PanelType
  <2> QED
    BY <1>3, <1>4, <2>1, <2>5 DEF TypeInv, WireType
<1> QED
  BY <1>2, <1>5, <1>6

LEMMA PanelMissesType == TypeInv /\ PanelMisses => TypeInv'
<1> SUFFICES ASSUME TypeInv, PanelMisses PROVE TypeInv'
  OBVIOUS
<1>1. down' \in Seq(Sent) /\ \A i \in DOMAIN down' : down'[i].call <= calls
  BY DownTail DEF PanelMisses
<1> QED
  BY <1>1 DEF PanelMisses, controllerVars, panelVars, ghostVars, TypeInv, ControllerType, SendingType, WireType,
     PanelType, GhostType

LEMMA PanelActedType == TypeInv /\ PanelActed => TypeInv'
<1> SUFFICES ASSUME TypeInv, PanelActed PROVE TypeInv'
  OBVIOUS
<1>1. acting.what \in Frames /\ acting.call \in 1 .. MaxCalls /\ acting.call <= calls
  BY DEF PanelActed, TypeInv, PanelType
<1>2. /\ UNCHANGED <<controllerVars, down, ghostVars, lag, entry, dispatched, lagged>>
      /\ calls' = calls
  BY DEF PanelActed, controllerVars
<1>3. ControllerType' /\ SendingType' /\ GhostType'
  BY <1>2 DEF controllerVars, ghostVars, TypeInv, ControllerType, SendingType, GhostType
<1>4. CASE acting.what[1] = "FETCH_STATE"
  <2> DEFINE r == Reply(acting.what[2])
  <2>1. r \in Replies
    BY <1>1, <1>4, Kinds
  <2>2. acting' = [acting EXCEPT !.what = r]
    BY <1>4 DEF PanelActed
  <2> HIDE DEF r
  <2>3. /\ acting' \in [what : Frames \cup Replies \cup {Nothing}, call : 0 .. MaxCalls]
        /\ acting'.what = r /\ acting'.call = acting.call
    BY <2>1, <2>2 DEF TypeInv, PanelType
  <2>4. UNCHANGED up /\ panel' = "sending" /\ attempt' = 0 /\ sinceStep' = 0
    BY <1>4, <2>3 DEF PanelActed
  <2>6. PanelType'
    BY <1>1, <1>2, <2>1, <2>3, <2>4 DEF TypeInv, PanelType
  <2> QED
    BY <1>2, <1>3, <2>4, <2>6 DEF TypeInv, WireType
<1>5. CASE acting.what[1] # "FETCH_STATE"
  <2>1. panel' = "listening" /\ UNCHANGED <<up, acting, attempt, sinceStep>>
    BY <1>5 DEF PanelActed
  <2> QED
    BY <1>2, <1>3, <2>1 DEF TypeInv, WireType, PanelType
<1> QED
  BY <1>4, <1>5

LEMMA PanelSentType == TypeInv /\ PanelSent => TypeInv'
<1> SUFFICES ASSUME TypeInv, PanelSent PROVE TypeInv'
  OBVIOUS
<1>1. acting.what \in Replies /\ acting.call \in 1 .. MaxCalls /\ acting.call <= calls
  BY DEF PanelSent, TypeInv, PanelType
<1>2. up' \in Seq(Answers) /\ \A i \in DOMAIN up' : up'[i].call <= calls
  BY <1>1, UpJoined DEF PanelSent
<1>3. PanelType'
  BY DEF PanelSent, controllerVars, TypeInv, PanelType
<1> QED
  BY <1>2, <1>3 DEF PanelSent, controllerVars, ghostVars, TypeInv, ControllerType, SendingType,
     WireType, GhostType

LEMMA PanelTickType == TypeInv /\ PanelTick => TypeInv'
  BY DEF PanelTick, controllerVars, ghostVars, TypeInv, ControllerType, SendingType, WireType, PanelType, GhostType

LEMMA WindowReceiveType == TypeInv /\ WindowReceive => TypeInv'
<1> SUFFICES ASSUME TypeInv, WindowReceive PROVE TypeInv'
  OBVIOUS
<1>1. down' \in Seq(Sent) /\ \A i \in DOMAIN down' : down'[i].call <= calls
  BY DownTail DEF WindowReceive
<1>2. PanelType'
  BY DEF WindowReceive, controllerVars, TypeInv, PanelType
<1> QED
  BY <1>1, <1>2 DEF WindowReceive, controllerVars, ghostVars, TypeInv, ControllerType, SendingType, WireType, GhostType

LEMMA WindowTimeoutType == TypeInv /\ WindowTimeout => TypeInv'
<1> SUFFICES ASSUME TypeInv, WindowTimeout PROVE TypeInv'
  OBVIOUS
<1>1. PanelType'
  BY DEF WindowTimeout, controllerVars, TypeInv, PanelType
<1> QED
  BY <1>1 DEF WindowTimeout, controllerVars, ghostVars, TypeInv, ControllerType, SendingType,
     WireType, GhostType

LEMMA LoseType == TypeInv /\ Lose => TypeInv'
<1> SUFFICES ASSUME TypeInv, Lose PROVE TypeInv'
  OBVIOUS
<1>1. \/ down # <<>> /\ down' = Tail(down) /\ UNCHANGED up
      \/ up # <<>> /\ up' = Tail(up) /\ UNCHANGED down
  BY DEF Lose
<1>2. UNCHANGED <<controllerVars, panelVars, disturbed, outcome, received>>
      /\ losses' = losses + 1 /\ callLosses' = callLosses + 1
  BY DEF Lose
<1>3. ControllerType' /\ SendingType' /\ PanelType' /\ GhostType' /\ calls' = calls
  BY <1>2 DEF controllerVars, panelVars, TypeInv, ControllerType, SendingType, PanelType, GhostType
<1>4. CASE down # <<>> /\ down' = Tail(down) /\ UNCHANGED up
  BY <1>3, <1>4, DownTail DEF TypeInv, WireType
<1>5. CASE up # <<>> /\ up' = Tail(up) /\ UNCHANGED down
  BY <1>3, <1>5, UpTail DEF TypeInv, WireType
<1> QED
  BY <1>1, <1>4, <1>5

\* A millisecond: every frame on its way down is one older.
LEMMA Ages ==
    ASSUME TypeInv, Tick
    PROVE  /\ down' \in Seq(Sent) /\ DOMAIN down' = DOMAIN down
           /\ \A i \in DOMAIN down : /\ down'[i].what = down[i].what /\ down'[i].call = down[i].call
                                     /\ down[i].age \in Nat /\ down'[i].age = down[i].age + 1
           /\ up' \in Seq(Answers) /\ DOMAIN up' = DOMAIN up
           /\ \A i \in DOMAIN up : up'[i].what = up[i].what /\ up'[i].call = up[i].call
<1> DEFINE Any == [what : Frames \cup Acks, call : 1 .. MaxCalls, age : Nat]
<1>1. down \in Seq(Sent) /\ up \in Seq(Answers)
  BY DEF TypeInv, WireType
<1>2. down' = Older(down) /\ up' = Older(up) /\ \A i \in DOMAIN down : down[i].age < MaxDelay
  BY DEF Tick
<1>3. Ageless(Sent, Any)
  BY Times DEF Sent, Ageless
<1>4. Ageless(Answers, Answers)
  BY DEF Answers, Ageless
<1>5. \A r \in Any : r.age \in 0 .. MaxDelay => r \in Sent
  BY DEF Sent
<1> HIDE DEF Any
<1>6. /\ Older(down) \in Seq(Any) /\ DOMAIN Older(down) = DOMAIN down
      /\ \A i \in DOMAIN down :
            /\ Older(down)[i].what = down[i].what /\ Older(down)[i].call = down[i].call
            /\ down[i].age \in Nat
            /\ down[i].age < MaxDelay => Older(down)[i].age = down[i].age + 1
  BY <1>1, <1>3, Aged
<1>7. /\ Older(up) \in Seq(Answers) /\ DOMAIN Older(up) = DOMAIN up
      /\ \A i \in DOMAIN up : Older(up)[i].what = up[i].what /\ Older(up)[i].call = up[i].call
  BY <1>1, <1>4, Aged
<1>8. \A i \in DOMAIN down' : down'[i] \in Sent
  <2>1. \A i \in DOMAIN down' : down'[i] \in Any
    BY <1>2, <1>6, Element
  <2>2. \A i \in DOMAIN down' : down'[i].age \in 0 .. MaxDelay
    BY <1>2, <1>6, Times
  <2> QED
    BY <1>5, <2>1, <2>2
<1>9. down' \in Seq(Sent)
  <2> DEFINE s == down'
  <2>1. s \in Seq(Any) /\ \A i \in DOMAIN s : s[i] \in Sent
    BY <1>2, <1>6, <1>8
  <2>2. DOMAIN s = 1 .. Len(s) /\ Len(s) \in Nat /\ s = [i \in 1 .. Len(s) |-> s[i]]
    BY <2>1, Element
  <2> HIDE DEF s
  <2>3. s \in [1 .. Len(s) -> Sent]
    BY <2>1, <2>2
  <2>4. s \in Seq(Sent)
    BY <2>2, <2>3
  <2> QED
    BY <2>4 DEF s
<1> QED
  BY <1>2, <1>6, <1>7, <1>9

LEMMA TickType == TypeInv /\ Tick => TypeInv'
<1> SUFFICES ASSUME TypeInv, Tick PROVE TypeInv'
  OBVIOUS
<1>1. WireType'
  BY Ages DEF Tick, TypeInv, WireType
<1>2. sinceSent' \in Nat /\ SendingType'
  <2>1. sinceSent' = IF sending = "nothing" THEN Min2(sinceSent + 1, LINK_ACK_TIMEOUT_MS)
                                            ELSE sinceSent + 1
    BY DEF Tick
  <2>2. sending # "nothing" => sinceSent < airtime[calls] /\ airtime[calls] \in Nat
    <3>1. sending # "nothing" => calls \in 1 .. MaxCalls /\ ControllerType
      BY DEF TypeInv, ControllerType, SendingType
    <3> QED
      BY <3>1, Airtime DEF Tick
  <2> QED
    BY SMTT(30), <2>1, <2>2, Times DEF Tick, Min2, TypeInv, ControllerType, SendingType
<1>3. Limit \in Nat
  <2>1. \A a, b \in Nat : a * b \in Nat
    OBVIOUS
  <2>2. (LINK_RETRANSMITS + 1) * LINK_ACK_TIMEOUT_MS \in Nat
    BY <2>1, Times
  <2> QED
    BY <2>2, Times DEF Limit
<1>4. sinceStart' \in Nat
  BY <1>3 DEF Tick, Min2, TypeInv, ControllerType
<1>5. ControllerType'
  BY <1>2, <1>4 DEF Tick, TypeInv, ControllerType
<1>6. sinceStep' \in Nat /\ lag' \in Nat
  <2>1. sinceStep \in Nat /\ lag \in Nat
    BY DEF TypeInv, PanelType
  <2>2. /\ sinceStep' = IF panel = "listening" THEN sinceStep ELSE sinceStep + 1
        /\ lag' = IF panel = "listening" THEN 0 ELSE Min2(lag + 1, MaxLag)
    BY DEF Tick
  <2> QED
    BY <2>1, <2>2, Times DEF Min2
<1>7. entry' \in [armed : BOOLEAN, what : Frames \cup {Nothing}, age : Nat]
  <2> DEFINE age == Min2(entry.age + 1, MaxLag + LINK_DEDUP_WINDOW_MS)
  <2>1. age \in Nat
    BY Times DEF Min2, TypeInv, PanelType
  <2>2. entry' = [entry EXCEPT !.age = age]
    BY DEF Tick
  <2> HIDE DEF age
  <2> QED
    BY <2>1, <2>2 DEF TypeInv, PanelType
<1>8. PanelType'
  BY <1>6, <1>7 DEF Tick, TypeInv, PanelType
<1> QED
  BY <1>1, <1>2, <1>5, <1>8 DEF Tick, ghostVars, TypeInv, GhostType

-----------------------------------------------------------------------------
(* What a step keeps that sends no frame and notes none.                    *)

\* The time since a frame was first out, when its next copy is due and when that is out.
LEMMA Retransmissions ==
    ASSUME TypeInv, calls > 0
    PROVE  /\ Elapsed \in Nat
           /\ attemptsLeft > 0 => Elapsed <= Span(calls)
           /\ sending = "copy" /\ sinceSent >= airtime[calls] =>
                 (LINK_RETRANSMITS - (attemptsLeft - 1)) * (LINK_ACK_TIMEOUT_MS + airtime[calls]) = Elapsed
<1> DEFINE T == LINK_ACK_TIMEOUT_MS
           R == LINK_RETRANSMITS
           k == attemptsLeft
           a == airtime[calls]
           extra == sinceSent + (IF sending = "copy" THEN LINK_ACK_TIMEOUT_MS ELSE 0)
<1>1. T \in Nat /\ R \in Nat /\ k \in 0 .. R /\ a \in Nat
  <2>1. calls \in 1 .. MaxCalls /\ ControllerType
    BY DEF TypeInv, ControllerType
  <2> QED
    BY <2>1, Airtime, Times DEF ControllerType
<1>2. extra \in Nat /\ extra <= T + a
  BY <1>1 DEF TypeInv, ControllerType, SendingType
<1>3. Elapsed = (R - k) * (T + a) + extra /\ Span(calls) = R * (T + a)
  <2>1. PICK p \in Int : p = (R - k) * (T + a)
    BY <1>1
  <2>2. PICK e \in Nat : e = IF sending = "copy" THEN LINK_ACK_TIMEOUT_MS ELSE 0
    BY <1>1
  <2>3. Elapsed = p + sinceSent + e /\ extra = sinceSent + e
    BY <2>1, <2>2 DEF Elapsed
  <2>4. Elapsed = p + extra
    BY <2>1, <2>2, <2>3 DEF TypeInv, ControllerType
  <2>5. Span(calls) = R * (T + a)
    BY DEF Span
  <2> QED
    BY <2>1, <2>4, <2>5
<1>4. sending = "copy" /\ sinceSent >= a => k > 0 /\ extra = T + a
  BY <1>1 DEF TypeInv, ControllerType, SendingType
<1> HIDE DEF T, R, k, a, extra
<1>5. PICK d \in Nat : d = T + a
  BY <1>1
<1>6. \A m, n \in Nat : m * n \in Nat
  OBVIOUS
<1>7. R - k \in Nat /\ (R - k) * d \in Nat
  BY <1>1, <1>5, <1>6
<1>8. Elapsed \in Nat
  BY <1>2, <1>3, <1>5, <1>7
<1>9. ASSUME k > 0 PROVE Elapsed <= Span(calls) /\ (R - (k - 1)) * d = (R - k) * d + d
  <2>1. k - 1 \in Nat /\ (k - 1) * d \in Nat
    BY <1>1, <1>5, <1>6, <1>9
  <2>2. R * d = (R - k) * d + (k - 1) * d + d /\ (R - (k - 1)) * d = (R - k) * d + d
    BY <1>1, <1>5
  <2> QED
    BY <1>2, <1>3, <1>5, <1>7, <2>1, <2>2
<1>10. ASSUME sending = "copy", sinceSent >= a PROVE (R - (k - 1)) * (T + a) = Elapsed
  BY <1>3, <1>4, <1>5, <1>9, <1>10
<1> QED
  BY <1>8, <1>9, <1>10 DEF T, R, k, a

ElapsedOK == calls > 0 => Elapsed \in Nat
\* The time since the first transmission is a number, before a step and after it.
LEMMA ElapsedNat == TypeInv => ElapsedOK
  BY Retransmissions DEF ElapsedOK
\* The same, after the step.
LEMMA ElapsedNatNext == TypeInv' => ElapsedOK'
  BY ElapsedNat, PTL

FramesStay ==
    \E k \in {0, 1} : \A i \in DOMAIN down' :
        IsFrame(down'[i]) => i + k \in DOMAIN down /\ down'[i] = down[i + k]

LEMMA FramesLeft ==
    ASSUME TypeInv, down' = down \/ (down # <<>> /\ down' = Tail(down))
    PROVE  FramesStay
<1>1. down \in Seq(Sent)
  BY DEF TypeInv, WireType
<1>2. CASE down' = down
  <2>1. \A i \in DOMAIN down : i + 0 \in DOMAIN down /\ down[i] = down[i + 0]
    BY <1>1, Element
  <2> QED
    BY <1>2, <2>1 DEF FramesStay
<1>3. CASE down # <<>> /\ down' = Tail(down)
  <2>1. \A i \in DOMAIN down' : i + 1 \in DOMAIN down /\ down'[i] = down[i + 1]
    BY <1>1, <1>3, Oldest
  <2> QED
    BY <2>1 DEF FramesStay
<1> QED
  BY <1>2, <1>3

LEMMA AckJoins ==
    ASSUME TypeInv, NEW w \in Acks, NEW n \in 1 .. MaxCalls, down' = On(down, w, n)
    PROVE  /\ FramesStay
           /\ \A i \in DOMAIN down' : (i \in DOMAIN down /\ down'[i] = down[i]) \/ down'[i].call = n
<1> DEFINE r == [what |-> w, call |-> n, age |-> 0]
<1>1. down \in Seq(Sent) /\ r \in Sent
  BY Times DEF TypeInv, WireType, Sent
<1>2. \A i \in DOMAIN down' : (i \in DOMAIN down /\ down'[i] = down[i]) \/ down'[i] = r
  BY <1>1, Appended
<1>3. ~IsFrame(r) /\ r.call = n
  BY Kinds DEF IsFrame
<1> HIDE DEF r
<1>4. \A i \in DOMAIN down : i + 0 = i
  BY <1>1, Element
<1>5. \A i \in DOMAIN down' : IsFrame(down'[i]) => i + 0 \in DOMAIN down /\ down'[i] = down[i + 0]
  BY <1>2, <1>3, <1>4
<1> QED
  BY <1>2, <1>3, <1>5 DEF FramesStay

Calm ==
    /\ FramesStay
    /\ UNCHANGED <<calls, frame, airtime>> /\ (sending' = "first" => sending = "first")
    /\ UNCHANGED <<entry, dispatched, lagged, disturbed>>
    /\ MaySend' => MaySend /\ Elapsed' = Elapsed
    /\ lag' = lag \/ lag' = 0

LEMMA CalmNoted ==
    ASSUME TypeInv, Calm, NEW n, NEW slack, NotedBy(n, slack)
    PROVE  NotedBy(n, slack)'
<1>1. MaySend' => Elapsed' = Elapsed
  BY DEF Calm
<1>2. PICK k \in {0, 1} : \A i \in DOMAIN down' :
        IsFrame(down'[i]) => i + k \in DOMAIN down /\ down'[i] = down[i + k]
  BY DEF Calm, FramesStay
<1> HIDE DEF IsFrame
<1>3. entry' = entry /\ calls' = calls /\ frame' = frame /\ Span(n)' = Span(n)
  BY DEF Calm, Span
<1>4. \A i \in DOMAIN down' : IsFrame(down'[i]) =>
          /\ n <= down'[i].call
          /\ down'[i].call = n => /\ entry.armed /\ entry.what = down'[i].what
                                  /\ entry.age <= slack + Span(n) + down'[i].age
  BY <1>2 DEF NotedBy
<1>5. n = calls /\ MaySend' => entry.armed /\ entry.what = frame /\ entry.age <= slack + Elapsed
  BY DEF NotedBy, Calm
<1> HIDE DEF MaySend, Elapsed
<1> QED
  BY <1>1, <1>3, <1>4, <1>5 DEF NotedBy, IsFrame

LEMMA CalmKeeps ==
    ASSUME ArqInv, Calm, TypeInv'
    PROVE  /\ WireInv' /\ FirstInv' /\ NotedInv' /\ DispatchedOnceInTime'
           /\ calls > 0 /\ LagBounded => LagBounded'
           /\ calls > 0 /\ Alone /\ Alone' /\ (dispatched[calls] = 0 /\ Unheard => Unheard') => QuietInv'
<1>1. PICK k \in {0, 1} : \A i \in DOMAIN down' :
        IsFrame(down'[i]) => i + k \in DOMAIN down /\ down'[i] = down[i + k]
  BY DEF Calm, FramesStay
<1>2. /\ UNCHANGED <<calls, frame, airtime>> /\ (sending' = "first" => sending = "first")
      /\ UNCHANGED <<entry, dispatched, lagged, disturbed>>
  BY DEF Calm
<1>4. \A i \in DOMAIN down' : i \in Int
  BY Element DEF TypeInv, WireType
<1>3. WireInv'
  <2>1. \A i \in DOMAIN down' : IsFrame(down'[i]) /\ down'[i].call = calls => down'[i].what = frame
    BY <1>1 DEF ArqInv, WireInv
  <2>2. ASSUME NEW i \in DOMAIN down', NEW j \in DOMAIN down', i < j, IsFrame(down'[i]), IsFrame(down'[j])
        PROVE  /\ down'[i].call <= down'[j].call
               /\ down'[i].call = down'[j].call => down'[i].what = down'[j].what
    <3>1. i + k \in DOMAIN down /\ j + k \in DOMAIN down /\ down'[i] = down[i + k] /\ down'[j] = down[j + k]
      BY <1>1, <2>2
    <3>2. down \in Seq(Sent)
      BY DEF ArqInv, TypeInv, WireType
    <3>3. i + k < j + k
      <4>1. i + k \in Nat /\ j + k \in Nat
        BY <3>1, <3>2, Element
      <4>2. i \in Int /\ j \in Int
        BY <1>4
      <4> QED
        BY <2>2, <4>2
    <3> QED
      BY <2>2, <3>1, <3>3 DEF ArqInv, WireInv
  <2> QED
    BY <1>2, <2>1, <2>2 DEF WireInv, IsFrame
<1>5. NotedInv'
  <2> SUFFICES ASSUME NEW n \in 1 .. MaxCalls, dispatched'[n] > 0
               PROVE  n <= calls' /\ NotedBy(n, lagged[n])'
    BY DEF NotedInv
  <2>1. n <= calls /\ NotedBy(n, lagged[n])
    BY <1>2 DEF ArqInv, NotedInv
  <2>2. PICK s : s = lagged[n]
    OBVIOUS
  <2>3. NotedBy(n, s)'
    BY <2>1, <2>2, CalmNoted DEF ArqInv
  <2> QED
    BY <1>2, <2>1, <2>2, <2>3
<1>6. DispatchedOnceInTime'
  BY <1>2 DEF ArqInv, DispatchedOnceInTime, Span
<1>9. FirstInv'
  BY <1>1, <1>2 DEF ArqInv, FirstInv, IsFrame
<1>7. ASSUME calls > 0, LagBounded PROVE LagBounded'
  <2>1. MaySend' => MaySend /\ Elapsed' = Elapsed
    BY DEF Calm
  <2>2. \A i \in DOMAIN down' : IsFrame(down'[i]) => lag <= Span(calls) + down'[i].age
    BY <1>1, <1>7 DEF LagBounded
  <2>6. Span(calls) \in Nat /\ Span(calls)' = Span(calls)
    <3>1. calls \in 1 .. MaxCalls /\ ControllerType
      BY <1>7 DEF ArqInv, TypeInv, ControllerType
    <3> QED
      BY <1>2, <3>1, Airtime DEF Span
  <2>3. \A i \in DOMAIN down' : IsFrame(down'[i]) => 0 <= Span(calls) + down'[i].age
    <3>1. \A i \in DOMAIN down' : IsFrame(down'[i]) => down'[i].age \in Nat
      <4>1. \A i \in DOMAIN down : down[i].age \in Nat
        <5>1. \A i \in DOMAIN down : down[i] \in Sent
          BY Element DEF ArqInv, TypeInv, WireType
        <5> QED
          BY <5>1, Times DEF Sent
      <4> QED
        BY <1>1, <4>1
    <3> QED
      BY <2>6, <3>1
  <2>4. Elapsed >= 0
    BY <1>7, Retransmissions DEF ArqInv
  <2>5. (MaySend' => lag' <= Elapsed)
    BY <1>7, <2>1, <2>4 DEF LagBounded, Calm
  <2> QED
    BY <2>1, <2>2, <2>3, <2>5, <2>6 DEF LagBounded, IsFrame, Calm
<1>8. ASSUME calls > 0, Alone, Alone', dispatched[calls] = 0 /\ Unheard => Unheard'
      PROVE  QuietInv'
  <2> SUFFICES ASSUME ~disturbed
               PROVE  /\ Alone' /\ LagBounded'
                      /\ dispatched[calls] = 0 => Unheard'
                      /\ dispatched[calls] > 0 => NotedBy(calls, 0)'
                      /\ Span(calls) + MaxDelay < LINK_DEDUP_WINDOW_MS => dispatched[calls] <= 1
    BY <1>2 DEF QuietInv, Span
  <2>1. PICK n : n = calls
    OBVIOUS
  <2>2. dispatched[calls] > 0 => NotedBy(n, 0)'
    BY <1>8, <2>1, CalmNoted DEF ArqInv, QuietInv
  <2> QED
    BY <1>2, <1>7, <1>8, <2>1, <2>2 DEF ArqInv, QuietInv
<1> QED
  BY <1>3, <1>5, <1>6, <1>7, <1>8, <1>9

-----------------------------------------------------------------------------
(* The steps.                                                               *)

Kept == WireInv /\ FirstInv /\ NotedInv /\ DispatchedOnceInTime /\ QuietInv /\ AnswersThisCall

LEMMA AloneKept ==
    ASSUME Alone, calls' = calls,
           \A i \in DOMAIN down' : (i \in DOMAIN down /\ down'[i] = down[i]) \/ down'[i].call = calls
                                   \/ (i + 1 \in DOMAIN down /\ down'[i] = down[i + 1]),
           \A i \in DOMAIN up' : (i \in DOMAIN up /\ up'[i] = up[i]) \/ up'[i].call = calls
                                   \/ (i + 1 \in DOMAIN up /\ up'[i] = up[i + 1]),
           panel' # "listening" => acting'.call = calls
    PROVE  Alone'
  BY DEF Alone

\* The oldest leaves, or nothing does.
Left(after, before) == after = before \/ (before # <<>> /\ after = Tail(before))

LEMMA StillThere ==
    ASSUME NEW S, NEW s \in Seq(S), NEW t, Left(t, s)
    PROVE  \A i \in DOMAIN t : (i \in DOMAIN s /\ t[i] = s[i]) \/ (i + 1 \in DOMAIN s /\ t[i] = s[i + 1])
  BY Oldest DEF Left

LEMMA ReturnsKept ==
    ASSUME ArqInv, NEW well, NEW answer, ~disturbed => answer = calls, disturbed' = disturbed,
           waiting # "nothing", calls' = calls, Returns(well, answer) \/ Stays
    PROVE  AnswersThisCall' /\ (waiting' # "nothing" => waiting' = waiting)
  BY DEF ArqInv, AnswersThisCall, Returns, Stays

LEMMA ControllerReceiveAckKeeps == ArqInv /\ ControllerReceiveAck /\ TypeInv' => Kept'
<1> SUFFICES ASSUME ArqInv, ControllerReceiveAck, TypeInv' PROVE Kept'
  OBVIOUS
<1>1. /\ waiting # "nothing" /\ up # <<>> /\ up' = Tail(up) /\ down' = down /\ (acked => acked')
      /\ UNCHANGED <<panelVars, disturbed>> /\ calls > 0
      /\ UNCHANGED <<calls, frame, airtime, sending, attemptsLeft, sinceSent>>
  BY DEF ControllerReceiveAck, Reading, ArqInv, TypeInv, ControllerType
<1>2. /\ AnswersThisCall'
      /\ waiting' # "nothing" => waiting' = waiting
  BY <1>1, ReturnsKept DEF ControllerReceiveAck
<1>3. Calm
  <2>1. FramesStay
    BY <1>1, FramesLeft DEF ArqInv
  <2> QED
    BY <1>1, <1>2, <2>1 DEF Calm, panelVars, MaySend, Elapsed
<1>4. Alone => Alone'
  <2>1. Left(up', up) /\ Left(down', down)
    BY <1>1 DEF Left
  <2> QED
    BY <1>1, <1>2, <2>1, StillThere, AloneKept DEF ArqInv, TypeInv, WireType, panelVars, Alone
<1>5. ~Unheard
  BY <1>1 DEF Unheard
<1>6. QuietInv'
  <2>1. CASE ~disturbed
    BY <1>1, <1>3, <1>4, <1>5, <2>1, CalmKeeps DEF ArqInv, QuietInv
  <2>2. CASE disturbed
    BY <1>1, <2>2 DEF QuietInv
  <2> QED
    BY <2>1, <2>2
<1> QED
  BY <1>2, <1>3, <1>6, CalmKeeps DEF Kept

LEMMA ControllerReceiveReplyKeeps == ArqInv /\ ControllerReceiveReply /\ TypeInv' => Kept'
<1> SUFFICES ASSUME ArqInv, ControllerReceiveReply, TypeInv' PROVE Kept'
  OBVIOUS
<1>1. /\ waiting # "nothing" /\ up # <<>> /\ up' = Tail(up) /\ acked' = acked
      /\ down' = On(down, Ack(Head(up).what), Head(up).call)
      /\ UNCHANGED <<panelVars, disturbed>> /\ calls > 0
      /\ UNCHANGED <<calls, frame, airtime, sending, attemptsLeft, sinceSent>>
  BY DEF ControllerReceiveReply, Reading, ArqInv, TypeInv, ControllerType
<1>2. /\ Head(up) = up[1] /\ 1 \in DOMAIN up /\ Head(up).call \in 1 .. MaxCalls
      /\ Ack(Head(up).what) \in Acks
  <2>1. Head(up).what \in Replies
    BY <1>1, UpTail, Kinds DEF ControllerReceiveReply, ArqInv
  <2> QED
    BY <1>1, <2>1, UpTail, Kinds DEF ArqInv
<1>3. ~disturbed => Alone /\ Head(up).call = calls
  BY <1>1, <1>2 DEF ArqInv, QuietInv, Alone
<1>4. /\ AnswersThisCall'
      /\ waiting' # "nothing" => waiting' = waiting
  BY <1>1, <1>3, ReturnsKept DEF ControllerReceiveReply
<1>5. /\ FramesStay
      /\ \A i \in DOMAIN down' : (i \in DOMAIN down /\ down'[i] = down[i]) \/ down'[i].call = Head(up).call
  <2>1. PICK w \in Acks, n \in 1 .. MaxCalls : w = Ack(Head(up).what) /\ n = Head(up).call
    BY <1>2
  <2> QED
    BY <1>1, <2>1, AckJoins DEF ArqInv
<1>6. Calm
  BY <1>1, <1>4, <1>5 DEF Calm, panelVars, MaySend, Elapsed
<1>7. ~disturbed => Alone'
  <2>1. Left(up', up)
    BY <1>1 DEF Left
  <2> QED
    BY <1>1, <1>3, <1>4, <1>5, <2>1, StillThere, AloneKept DEF ArqInv, TypeInv, WireType, panelVars, Alone
<1>8. ~Unheard
  BY <1>1 DEF Unheard
<1>9. QuietInv'
  <2>1. CASE ~disturbed
    BY <1>1, <1>3, <1>6, <1>7, <1>8, <2>1, CalmKeeps
  <2>2. CASE disturbed
    BY <1>1, <2>2 DEF QuietInv
  <2> QED
    BY <2>1, <2>2
<1> QED
  BY <1>4, <1>6, <1>9, CalmKeeps DEF Kept

LEMMA ControllerTimeoutKeeps == ArqInv /\ ControllerTimeout /\ TypeInv' => Kept'
<1> SUFFICES ASSUME ArqInv, ControllerTimeout, TypeInv' PROVE Kept'
  OBVIOUS
<1>1. /\ waiting # "nothing" /\ UNCHANGED <<acked, down, up, panelVars, disturbed>> /\ calls > 0
      /\ UNCHANGED <<calls, frame, airtime, sending, attemptsLeft, sinceSent>>
  BY DEF ControllerTimeout, ArqInv, TypeInv, ControllerType
<1>2. /\ AnswersThisCall'
      /\ waiting' # "nothing" => waiting' = waiting
  BY <1>1, ReturnsKept DEF ControllerTimeout
<1>3. Calm
  <2>1. FramesStay
    BY <1>1, FramesLeft DEF ArqInv
  <2> QED
    BY <1>1, <1>2, <2>1 DEF Calm, panelVars, MaySend, Elapsed
<1>4. (Alone => Alone') /\ (Unheard => Unheard')
  BY <1>1, <1>2 DEF Alone, Unheard, panelVars
<1>5. QuietInv'
  <2>1. CASE ~disturbed
    BY <1>1, <1>3, <1>4, <2>1, CalmKeeps DEF ArqInv, QuietInv
  <2>2. CASE disturbed
    BY <1>1, <2>2 DEF QuietInv
  <2> QED
    BY <2>1, <2>2
<1> QED
  BY <1>2, <1>3, <1>5, CalmKeeps DEF Kept

\* A step that is no business of the controller's.
LEMMA CalmOutside ==
    ASSUME ArqInv, TypeInv', FramesStay, UNCHANGED <<controllerVars, entry, dispatched, lagged, disturbed,
           outcome, received>>, lag' = lag \/ lag' = 0,
           calls > 0 /\ Alone => Alone', Unheard => Unheard'
    PROVE  Kept'
<1>1. Calm
  BY DEF Calm, controllerVars, MaySend, Elapsed
<1>2. AnswersThisCall'
  BY DEF ArqInv, AnswersThisCall, controllerVars
<1>3. QuietInv'
  <2>1. CASE ~disturbed /\ calls > 0
    BY <1>1, <2>1, CalmKeeps DEF ArqInv, QuietInv
  <2>2. CASE disturbed \/ ~(calls > 0)
    BY <1>1, <2>2 DEF QuietInv, Calm
  <2> QED
    BY <2>1, <2>2
<1> QED
  BY <1>1, <1>2, <1>3, CalmKeeps DEF Kept

LEMMA PanelMissesKeeps == ArqInv /\ PanelMisses /\ TypeInv' => Kept'
<1> SUFFICES ASSUME ArqInv, PanelMisses, TypeInv' PROVE Kept'
  OBVIOUS
<1>1. /\ down # <<>> /\ down' = Tail(down) /\ UNCHANGED <<controllerVars, up, panelVars, ghostVars>>
      /\ panel # "listening"
  BY DEF PanelMisses
<1>2. FramesStay
  BY <1>1, FramesLeft DEF ArqInv
<1>3. Alone => Alone'
  <2>1. Left(down', down) /\ Left(up', up)
    BY <1>1 DEF Left
  <2> QED
    BY <1>1, <2>1, StillThere, AloneKept DEF ArqInv, TypeInv, WireType, panelVars, Alone, controllerVars
<1>4. ~Unheard
  BY <1>1 DEF Unheard
<1> QED
  BY <1>1, <1>2, <1>3, <1>4, CalmOutside DEF panelVars, ghostVars

LEMMA WindowReceiveKeeps == ArqInv /\ WindowReceive /\ TypeInv' => Kept'
<1> SUFFICES ASSUME ArqInv, WindowReceive, TypeInv' PROVE Kept'
  OBVIOUS
<1>1. /\ down # <<>> /\ down' = Tail(down) /\ panel = "window"
      /\ UNCHANGED <<controllerVars, up, acting, lag, entry, dispatched, lagged, ghostVars>>
  BY DEF WindowReceive
<1>2. FramesStay
  BY <1>1, FramesLeft DEF ArqInv
<1>3. Alone => Alone'
  <2>1. Left(down', down) /\ Left(up', up)
    BY <1>1 DEF Left
  <2> QED
    BY <1>1, <2>1, StillThere, AloneKept DEF ArqInv, TypeInv, WireType, Alone, controllerVars
<1>4. ~Unheard
  BY <1>1 DEF Unheard
<1> QED
  BY <1>1, <1>2, <1>3, <1>4, CalmOutside DEF ghostVars

LEMMA LoseKeeps == ArqInv /\ Lose /\ TypeInv' => Kept'
<1> SUFFICES ASSUME ArqInv, Lose, TypeInv' PROVE Kept'
  OBVIOUS
<1>1. /\ Left(down', down) /\ Left(up', up) /\ UNCHANGED <<controllerVars, panelVars, disturbed, outcome, received>>
      /\ up = <<>> => up' = <<>>
  BY DEF Lose, Left
<1>2. FramesStay
  BY <1>1, FramesLeft DEF ArqInv, Left
<1>3. Alone => Alone'
  BY <1>1, StillThere, AloneKept DEF ArqInv, TypeInv, WireType, panelVars, Alone, controllerVars
<1>4. Unheard => Unheard'
  BY <1>1 DEF Unheard, controllerVars, panelVars
<1> QED
  BY <1>1, <1>2, <1>3, <1>4, CalmOutside DEF panelVars

LEMMA PanelTickKeeps == ArqInv /\ PanelTick /\ TypeInv' => Kept'
<1> SUFFICES ASSUME ArqInv, PanelTick, TypeInv' PROVE Kept'
  OBVIOUS
<1>1. /\ UNCHANGED <<controllerVars, down, up, panel, acting, entry, dispatched, lagged, ghostVars>>
      /\ lag' = 0
  BY DEF PanelTick
<1>2. FramesStay
  BY <1>1, FramesLeft DEF ArqInv
<1>3. (Alone => Alone') /\ (Unheard => Unheard')
  BY <1>1 DEF Alone, Unheard, controllerVars
<1> QED
  BY <1>1, <1>2, <1>3, CalmOutside DEF ghostVars

\* The panel sends something of the call it acts on.
LEMMA UpStays ==
    ASSUME TypeInv, panel # "listening", NEW w \in Replies,
           up' = On(up, w, acting.call), Alone
    PROVE  \A i \in DOMAIN up' : (i \in DOMAIN up /\ up'[i] = up[i]) \/ up'[i].call = calls
<1>1. acting.call \in 1 .. MaxCalls /\ acting.call = calls
  BY DEF TypeInv, PanelType, Alone
<1>2. PICK n \in 1 .. MaxCalls : n = calls
  BY <1>1
<1>3. [what |-> w, call |-> n, age |-> 0] \in Answers
  BY DEF Answers
<1>4. up \in Seq(Answers)
  BY DEF TypeInv, WireType
<1> QED
  BY <1>1, <1>2, <1>3, <1>4, Appended

LEMMA PanelActedKeeps == ArqInv /\ PanelActed /\ TypeInv' => Kept'
<1> SUFFICES ASSUME ArqInv, PanelActed, TypeInv' PROVE Kept'
  OBVIOUS
<1>1. /\ panel = "acting" /\ UNCHANGED <<controllerVars, down, up, lag, entry, dispatched, lagged, ghostVars>>
  BY DEF PanelActed
<1>2. FramesStay
  BY <1>1, FramesLeft DEF ArqInv
<1>3. acting'.call = acting.call
  <2>1. CASE acting.what[1] = "FETCH_STATE"
    <3> DEFINE r == Reply(acting.what[2])
    <3>1. acting' = [acting EXCEPT !.what = r]
      BY <1>1, <2>1 DEF PanelActed
    <3> HIDE DEF r
    <3> QED
      BY <3>1 DEF ArqInv, TypeInv, PanelType
  <2>2. CASE acting.what[1] # "FETCH_STATE"
    BY <2>2 DEF PanelActed
  <2> QED
    BY <2>1, <2>2
<1>4. Alone => Alone'
  BY <1>1, <1>3 DEF Alone, controllerVars
<1>5. ~Unheard
  BY <1>1 DEF Unheard
<1> QED
  BY <1>1, <1>2, <1>4, <1>5, CalmOutside DEF ghostVars

LEMMA PanelSentKeeps == ArqInv /\ PanelSent /\ TypeInv' => Kept'
<1> SUFFICES ASSUME ArqInv, PanelSent, TypeInv' PROVE Kept'
  OBVIOUS
<1>1. /\ panel = "sending" /\ UNCHANGED <<controllerVars, down, acting, lag, entry, dispatched, lagged, ghostVars>>
      /\ acting.what \in Replies /\ up' = On(up, acting.what, acting.call)
  BY DEF PanelSent, ArqInv, TypeInv, PanelType
<1>2. FramesStay
  BY <1>1, FramesLeft DEF ArqInv
<1>3. Alone => Alone'
  <2> SUFFICES ASSUME Alone PROVE Alone'
    OBVIOUS
  <2>1. \A i \in DOMAIN up' : (i \in DOMAIN up /\ up'[i] = up[i]) \/ up'[i].call = calls
    BY <1>1, UpStays DEF ArqInv
  <2> QED
    BY <1>1, <2>1 DEF Alone, controllerVars
<1>4. ~Unheard
  BY <1>1 DEF Unheard
<1> QED
  BY <1>1, <1>2, <1>3, <1>4, CalmOutside DEF ghostVars

LEMMA WindowTimeoutKeeps == ArqInv /\ WindowTimeout /\ TypeInv' => Kept'
<1> SUFFICES ASSUME ArqInv, WindowTimeout, TypeInv' PROVE Kept'
  OBVIOUS
<1>1. /\ panel = "window"
      /\ UNCHANGED <<controllerVars, down, up, acting, lag, entry, dispatched, lagged, ghostVars>>
  BY DEF WindowTimeout
<1>2. FramesStay
  BY <1>1, FramesLeft DEF ArqInv
<1>3. Alone => Alone'
  BY <1>1 DEF Alone, controllerVars
<1>4. ~Unheard
  BY <1>1 DEF Unheard
<1> QED
  BY <1>1, <1>2, <1>3, <1>4, CalmOutside DEF ghostVars

LEMMA CallKeeps == ASSUME ArqInv, NEW w \in Frames, Call(w), TypeInv' PROVE Kept'
<1> DEFINE n == calls + 1
<1>1. /\ waiting = "nothing" /\ calls < MaxCalls /\ calls' = n /\ frame' = w /\ acked' = FALSE
      /\ sending' = "first" /\ attemptsLeft' = LINK_RETRANSMITS /\ sinceSent' = 0 /\ waiting' # "nothing"
      /\ UNCHANGED <<down, panelVars>>
  BY DEF Call
<1>2. calls \in Nat /\ MaxCalls \in Nat /\ n \in 1 .. MaxCalls
  BY <1>1, Times DEF ArqInv, TypeInv, ControllerType
<1>3. down \in Seq(Sent)
  BY DEF ArqInv, TypeInv, WireType
<1>4. \A i \in DOMAIN down : down[i].call <= calls /\ down[i].call \in Nat /\ down[i].call # n
  <2>1. \A i \in DOMAIN down : down[i] \in Sent
    BY <1>3, Element
  <2>2. \A i \in DOMAIN down : down[i].call <= calls /\ down[i].call \in Nat
    BY <2>1 DEF Sent, ArqInv, TypeInv, WireType
  <2> QED
    BY <1>2, <2>2
<1>5. \A m \in 1 .. MaxCalls : m <= calls => Span(m)' = Span(m)
  <2>1. PICK t \in AirTimes : airtime' = [airtime EXCEPT ![n] = t]
    BY DEF Call
  <2>2. \A m \in 1 .. MaxCalls : m <= calls => airtime'[m] = airtime[m]
    BY <1>2, <2>1 DEF ArqInv, TypeInv, ControllerType
  <2> QED
    BY <2>2 DEF Span
<1>8. WireInv'
  <2> HIDE DEF n
  <2>1. \A i \in DOMAIN down : down[i].call # calls'
    BY <1>1, <1>4
  <2> QED
    BY <1>1, <2>1 DEF ArqInv, WireInv, IsFrame
<1>9. \A m \in 1 .. MaxCalls : dispatched[m] > 0 => m <= calls
  BY DEF ArqInv, NotedInv
<1>10. NotedInv'
  <2> SUFFICES ASSUME NEW m \in 1 .. MaxCalls, dispatched[m] > 0
               PROVE  m <= n /\ NotedBy(m, lagged[m])'
    BY <1>1 DEF NotedInv, panelVars
  <2>1. m <= calls /\ m # n /\ m <= n /\ m \in Nat
    BY <1>2, <1>9
  <2>2. NotedBy(m, lagged[m])
    BY DEF ArqInv, NotedInv
  <2>3. Span(m)' = Span(m)
    BY <1>5, <2>1
  <2> HIDE DEF n
  <2>4. \A i \in DOMAIN down : IsFrame(down[i]) =>
          /\ m <= down[i].call
          /\ down[i].call = m => /\ entry.armed /\ entry.what = down[i].what
                                 /\ entry.age <= lagged[m] + Span(m) + down[i].age
    BY <2>2 DEF NotedBy
  <2> QED
    BY <1>1, <2>1, <2>3, <2>4 DEF NotedBy, IsFrame, panelVars
<1>14. dispatched[n] = 0
  <2>1. dispatched[n] \in Nat /\ ~(n <= calls)
    BY <1>2 DEF ArqInv, TypeInv, PanelType
  <2> QED
    BY <1>2, <1>9, <2>1
<1>11. DispatchedOnceInTime'
  <2> SUFFICES ASSUME NEW m \in 1 .. MaxCalls,
                      lagged[m] + Span(m)' + MaxDelay < LINK_DEDUP_WINDOW_MS
               PROVE  dispatched[m] <= 1
    BY <1>1 DEF DispatchedOnceInTime, panelVars
  <2>1. CASE m <= calls
    BY <1>5, <2>1 DEF ArqInv, DispatchedOnceInTime
  <2>2. CASE ~(m <= calls)
    <3>1. dispatched[m] \in Nat
      BY DEF ArqInv, TypeInv, PanelType
    <3> QED
      BY <1>9, <2>2, <3>1
  <2> QED
    BY <2>1, <2>2
<1>12. AnswersThisCall'
  BY <1>1 DEF AnswersThisCall
<1>15. FirstInv'
  <2> HIDE DEF n
  <2> QED
    BY <1>1, <1>4, <1>14 DEF FirstInv, IsFrame, panelVars
<1>13. QuietInv'
  <2> SUFFICES ASSUME ~disturbed' PROVE QuietInv'
    BY DEF QuietInv
  <2>1. /\ panel = "listening" /\ ~(lag > 0) /\ down = <<>> /\ \A i \in DOMAIN up' : ~(up'[i].age <= MaxDelay)
        /\ ~(entry.armed /\ entry.what = w /\ entry.age < LINK_DEDUP_WINDOW_MS)
    BY DEF Call
  <2>2. up' = <<>>
    <3>1. up' \in Seq(Answers) /\ \A i \in DOMAIN up' : up'[i].age <= MaxDelay
      BY Flushed DEF Call, ArqInv
    <3>2. DOMAIN up' = {}
      BY <2>1, <3>1
    <3> QED
      BY <3>1, <3>2
  <2>3. lag = 0 /\ entry.age \in Nat
    BY <2>1 DEF ArqInv, TypeInv, PanelType
  <2>5. down' = <<>> /\ DOMAIN down' = {}
    BY <1>1, <2>1
  <2>6. Alone'
    BY <1>1, <2>1, <2>2, <2>5 DEF Alone, panelVars
  <2>7. LagBounded'
    <3>1. 0 <= Elapsed'
      <4>1. calls' > 0
        BY <1>1, <1>2
      <4> QED
        BY <4>1, ElapsedNatNext DEF ElapsedOK
    <3> QED
      BY <1>1, <2>3, <2>5, <3>1 DEF LagBounded, panelVars
  <2>8. Unheard'
    BY <1>1, <2>1, <2>2, <2>3, Times DEF Unheard, panelVars
  <2>9. dispatched'[calls'] = 0
    BY <1>1, <1>14 DEF panelVars
  <2> QED
    BY <2>6, <2>7, <2>8, <2>9 DEF QuietInv
<1> QED
  BY <1>8, <1>10, <1>11, <1>12, <1>13, <1>15 DEF Kept

LEMMA ControllerSentKeeps == ArqInv /\ ControllerSent /\ TypeInv' => Kept'
<1> SUFFICES ASSUME ArqInv, ControllerSent, TypeInv' PROVE Kept'
  OBVIOUS
<1> DEFINE r == [what |-> frame, call |-> calls, age |-> 0]
<1>1. /\ sending # "nothing" /\ sinceSent >= airtime[calls] /\ waiting # "nothing" /\ ~acked
      /\ sending' = "nothing" /\ down' = On(down, frame, calls) /\ sinceSent' = 0
      /\ sending = "first" => UNCHANGED attemptsLeft
      /\ sending # "first" => attemptsLeft' = attemptsLeft - 1
      /\ UNCHANGED <<calls, frame, airtime, waiting, acked, up, panelVars, ghostVars>>
  BY DEF ControllerSent, ArqInv, TypeInv, SendingType
<1>2. calls \in 1 .. MaxCalls /\ frame \in Frames
  BY <1>1 DEF ArqInv, TypeInv, ControllerType
<1>3. down \in Seq(Sent) /\ r \in Sent
  BY <1>2, Times DEF ArqInv, TypeInv, WireType, Sent
<1>4. \A i \in DOMAIN down : down[i].call <= calls
  BY DEF ArqInv, TypeInv, WireType
<1>5. /\ DOMAIN down' = 1 .. Len(down) + 1 /\ DOMAIN down = 1 .. Len(down) /\ Len(down) \in Nat
      /\ \A i \in DOMAIN down : down'[i] = down[i]
      /\ down'[Len(down) + 1] = r
  BY <1>1, <1>3, Appended
<1>6. r.what = frame /\ r.call = calls /\ r.age = 0
  OBVIOUS
<1> HIDE DEF r
<1>7. \A i \in DOMAIN down' : (i \in DOMAIN down /\ down'[i] = down[i]) \/ (i = Len(down) + 1 /\ down'[i] = r)
  BY <1>5
<1>8. /\ Span(calls) \in Nat /\ Elapsed \in Nat /\ Elapsed' \in Nat /\ calls > 0
      /\ \A n : Span(n)' = Span(n)
  <2>1. calls > 0 /\ calls' > 0
    BY <1>1, <1>2
  <2>2. Elapsed \in Nat /\ Elapsed' \in Nat
    BY <2>1, Retransmissions, ElapsedNatNext DEF ArqInv, ElapsedOK
  <2> QED
    BY <1>1, <1>2, <2>1, <2>2, Airtime DEF Span, ArqInv, TypeInv
<1>14. sending # "first" => MaySend /\ Elapsed' = Elapsed /\ Elapsed <= Span(calls)
  <2> SUFFICES ASSUME sending # "first" PROVE MaySend /\ Elapsed' = Elapsed /\ Elapsed <= Span(calls)
    OBVIOUS
  <2>1. sending = "copy" /\ attemptsLeft > 0
    BY <1>1 DEF ArqInv, TypeInv, SendingType
  <2>2. /\ Elapsed <= Span(calls)
        /\ (LINK_RETRANSMITS - (attemptsLeft - 1)) * (LINK_ACK_TIMEOUT_MS + airtime[calls]) = Elapsed
    BY <1>1, <1>8, <2>1, Retransmissions DEF ArqInv
  <2>3. Elapsed' = (LINK_RETRANSMITS - (attemptsLeft - 1)) * (LINK_ACK_TIMEOUT_MS + airtime[calls]) + 0 + 0
    BY <1>1, <2>1 DEF Elapsed
  <2> QED
    BY <1>1, <1>8, <2>1, <2>2, <2>3 DEF MaySend
<1>15. sending = "first" => dispatched[calls] = 0
  BY DEF ArqInv, FirstInv
<1>9. WireInv'
  <2>1. \A i \in DOMAIN down' : IsFrame(down'[i]) /\ down'[i].call = calls => down'[i].what = frame
    BY <1>6, <1>7 DEF ArqInv, WireInv
  <2>2. ASSUME NEW i \in DOMAIN down', NEW j \in DOMAIN down', i < j, IsFrame(down'[i]), IsFrame(down'[j])
        PROVE  /\ down'[i].call <= down'[j].call
               /\ down'[i].call = down'[j].call => down'[i].what = down'[j].what
    <3>1. i \in DOMAIN down /\ down'[i] = down[i]
      BY <1>5, <1>7, <2>2
    <3>2. CASE j \in DOMAIN down /\ down'[j] = down[j]
      BY <2>2, <3>1, <3>2 DEF ArqInv, WireInv
    <3>3. CASE down'[j] = r
      BY <1>4, <1>6, <2>1, <2>2, <3>1, <3>3
    <3> QED
      BY <1>7, <3>2, <3>3
  <2> QED
    BY <1>1, <2>1, <2>2 DEF WireInv, IsFrame
<1>10. ASSUME NEW n \in 1 .. MaxCalls, NEW slack \in Nat, n <= calls, NotedBy(n, slack), dispatched[n] > 0
       PROVE  NotedBy(n, slack)'
  <2>1. n = calls => /\ entry.armed /\ entry.what = frame /\ entry.age <= slack + Elapsed
                     /\ sending # "first" /\ Elapsed' = Elapsed /\ Elapsed <= Span(n)
    BY <1>10, <1>14, <1>15 DEF NotedBy
  <2>2. entry.age \in Nat /\ Span(n) \in Nat
    BY Airtime DEF ArqInv, TypeInv, PanelType
  <2>3. n = calls => entry.age <= slack + Span(n) + 0
    BY <1>8, <2>1, <2>2
  <2>4. \A i \in DOMAIN down' : IsFrame(down'[i]) =>
          /\ n <= down'[i].call
          /\ down'[i].call = n => /\ entry.armed /\ entry.what = down'[i].what
                                  /\ entry.age <= slack + Span(n) + down'[i].age
    BY <1>6, <1>7, <1>10, <2>1, <2>3 DEF NotedBy
  <2>5. Span(n)' = Span(n)
    BY <1>8
  <2>6. n = calls' => entry.armed /\ entry.what = frame /\ entry.age <= slack + Elapsed'
    BY <1>1, <2>1
  <2> QED
    BY <1>1, <2>4, <2>5, <2>6 DEF NotedBy, IsFrame, panelVars
<1>11. NotedInv'
  <2> SUFFICES ASSUME NEW m \in 1 .. MaxCalls, dispatched[m] > 0
               PROVE  m <= calls /\ NotedBy(m, lagged[m])'
    BY <1>1 DEF NotedInv, panelVars
  <2>1. m <= calls /\ NotedBy(m, lagged[m]) /\ lagged[m] \in Nat
    BY DEF ArqInv, NotedInv, TypeInv, PanelType
  <2>2. PICK s \in Nat : s = lagged[m]
    BY <2>1
  <2>3. NotedBy(m, s)'
    BY <1>10, <2>1, <2>2
  <2> QED
    BY <1>1, <2>1, <2>2, <2>3 DEF panelVars
<1>12. DispatchedOnceInTime' /\ AnswersThisCall' /\ FirstInv'
  BY <1>1, <1>8 DEF ArqInv, DispatchedOnceInTime, AnswersThisCall, FirstInv, panelVars, ghostVars
<1>13. QuietInv'
  <2> SUFFICES ASSUME ~disturbed PROVE QuietInv'
    BY <1>1 DEF QuietInv, ghostVars
  <2>1. /\ Alone /\ LagBounded /\ (dispatched[calls] = 0 => Unheard)
        /\ (dispatched[calls] > 0 => NotedBy(calls, 0))
        /\ (Span(calls) + MaxDelay < LINK_DEDUP_WINDOW_MS => dispatched[calls] <= 1)
    BY <1>2 DEF ArqInv, QuietInv
  <2>2. Alone' /\ (Unheard => Unheard')
    BY <1>1, <1>6, <1>7, <2>1 DEF Alone, Unheard, panelVars
  <2>3. LagBounded'
    <3>1. lag <= Elapsed' /\ lag <= Span(calls) + 0
      <4>1. CASE sending = "first"
        BY <1>8, <1>15, <2>1, <4>1 DEF Unheard
      <4>2. CASE sending # "first"
        <5>1. lag <= Elapsed /\ lag \in Nat
          BY <1>14, <2>1, <4>2 DEF LagBounded, ArqInv, TypeInv, PanelType
        <5> QED
          BY <1>8, <1>14, <4>2, <5>1
      <4> QED
        BY <4>1, <4>2
    <3>3. \A i \in DOMAIN down' : IsFrame(down'[i]) => lag <= Span(calls) + down'[i].age
      BY <1>6, <1>7, <2>1, <3>1 DEF LagBounded
    <3>4. Span(calls)' = Span(calls)
      BY <1>1 DEF Span
    <3> QED
      BY <1>1, <3>1, <3>3, <3>4 DEF LagBounded, IsFrame, panelVars
  <2>4. dispatched[calls] > 0 => NotedBy(calls, 0)'
    <3>1. PICK n \in 1 .. MaxCalls : n = calls
      BY <1>2
    <3>2. dispatched[calls] > 0 => NotedBy(n, 0)'
      BY <1>10, <2>1, <3>1
    <3> QED
      BY <1>1, <3>1, <3>2
  <2>5. Span(calls)' = Span(calls)
    BY <1>1 DEF Span
  <2> QED
    BY <1>1, <2>1, <2>2, <2>3, <2>4, <2>5 DEF QuietInv, panelVars
<1> QED
  BY <1>9, <1>11, <1>12, <1>13 DEF Kept

LEMMA ControllerRetransmitKeeps == ArqInv /\ ControllerRetransmit /\ TypeInv' => Kept'
<1> SUFFICES ASSUME ArqInv, ControllerRetransmit, TypeInv' PROVE Kept'
  OBVIOUS
<1>1. /\ waiting # "nothing" /\ ~acked /\ attemptsLeft > 0 /\ sinceSent >= LINK_ACK_TIMEOUT_MS
      /\ sending = "nothing" /\ sending' = "copy" /\ sinceSent' = 0
      /\ UNCHANGED <<calls, frame, airtime, waiting, acked, attemptsLeft, down, up, panelVars, ghostVars>>
  BY DEF ControllerRetransmit, MayRetransmit
<1>2. Elapsed' = Elapsed
  <2>1. sinceSent = LINK_ACK_TIMEOUT_MS /\ LINK_ACK_TIMEOUT_MS \in Nat
    BY <1>1, Times DEF ArqInv, TypeInv, ControllerType, SendingType
  <2>2. calls > 0 /\ calls' > 0
    BY <1>1 DEF ArqInv, TypeInv, ControllerType
  <2> DEFINE p == (LINK_RETRANSMITS - attemptsLeft) * (LINK_ACK_TIMEOUT_MS + airtime[calls])
  <2>3. Elapsed = p + LINK_ACK_TIMEOUT_MS + 0 /\ Elapsed' = p + 0 + LINK_ACK_TIMEOUT_MS
    BY <1>1, <2>1 DEF Elapsed
  <2>4. p \in Int
    <3>1. airtime[calls] \in Nat
      BY <2>2, Airtime DEF ArqInv, TypeInv, ControllerType
    <3> QED
      BY <3>1, Times DEF ArqInv, TypeInv, ControllerType
  <2> HIDE DEF p
  <2> QED
    BY <2>1, <2>3, <2>4
<1>3. Calm
  <2>1. FramesStay
    BY <1>1, FramesLeft DEF ArqInv
  <2> QED
    BY <1>1, <1>2, <2>1 DEF Calm, panelVars, ghostVars, MaySend
<1>4. (Alone => Alone') /\ (Unheard => Unheard')
  BY <1>1 DEF Alone, Unheard, panelVars
<1>5. QuietInv'
  <2>1. CASE ~disturbed /\ calls > 0
    BY <1>3, <1>4, <2>1, CalmKeeps DEF ArqInv, QuietInv
  <2>2. CASE ~(~disturbed /\ calls > 0)
    BY <1>1, <2>2 DEF QuietInv, ghostVars
  <2> QED
    BY <2>1, <2>2
<1>6. AnswersThisCall'
  BY <1>1 DEF AnswersThisCall
<1> QED
  BY <1>3, <1>5, <1>6, CalmKeeps DEF Kept

LEMMA TickKeeps == ArqInv /\ Tick /\ TypeInv' => Kept'
<1> SUFFICES ASSUME ArqInv, Tick, TypeInv' PROVE Kept'
  OBVIOUS
<1>1. /\ DOMAIN down' = DOMAIN down
      /\ \A i \in DOMAIN down : /\ down'[i].what = down[i].what /\ down'[i].call = down[i].call
                                /\ down[i].age \in Nat /\ down'[i].age = down[i].age + 1
      /\ up' \in Seq(Answers) /\ DOMAIN up' = DOMAIN up
      /\ \A i \in DOMAIN up : up'[i].what = up[i].what /\ up'[i].call = up[i].call
  BY Ages DEF ArqInv
<1>2. UNCHANGED <<calls, frame, airtime, waiting, sending, acked, attemptsLeft, panel, acting, attempt,
                  dispatched, lagged, ghostVars>>
  BY DEF Tick
<1>3. \A i \in DOMAIN down : IsFrame(down'[i]) <=> IsFrame(down[i])
  BY <1>1 DEF IsFrame
<1>4. /\ entry'.armed = entry.armed /\ entry'.what = entry.what /\ entry'.age \in Nat /\ entry.age \in Nat
      /\ entry'.age <= entry.age + 1
      /\ entry.age >= LINK_DEDUP_WINDOW_MS => entry'.age >= LINK_DEDUP_WINDOW_MS
  <2> DEFINE age == Min2(entry.age + 1, MaxLag + LINK_DEDUP_WINDOW_MS)
  <2>1. /\ age \in Nat /\ entry.age \in Nat /\ age <= entry.age + 1
        /\ entry.age >= LINK_DEDUP_WINDOW_MS => age >= LINK_DEDUP_WINDOW_MS
    BY Times DEF Min2, ArqInv, TypeInv, PanelType
  <2>2. entry' = [entry EXCEPT !.age = age]
    BY DEF Tick
  <2> HIDE DEF age
  <2> QED
    BY <2>1, <2>2 DEF ArqInv, TypeInv, PanelType
<1>11. \A n : Span(n)' = Span(n)
  BY <1>2 DEF Span
<1>5. MaySend' = MaySend /\ (MaySend => Elapsed' = Elapsed + 1 /\ Elapsed \in Nat)
  <2>1. MaySend' = MaySend
    BY <1>2 DEF MaySend
  <2>2. ASSUME MaySend PROVE Elapsed' = Elapsed + 1 /\ Elapsed \in Nat
    <3>1. calls > 0 /\ airtime[calls] \in Nat /\ sinceSent \in Nat
      <4>1. calls \in 1 .. MaxCalls /\ ControllerType
        BY <2>2 DEF MaySend, ArqInv, TypeInv, ControllerType
      <4> QED
        BY <4>1, Airtime DEF ControllerType
    <3>2. sinceSent' = sinceSent + 1
      <4>1. sending = "nothing" => ~(sinceSent >= LINK_ACK_TIMEOUT_MS)
        BY <2>2 DEF MaySend, Tick, MayRetransmit
      <4>2. sinceSent' = IF sending = "nothing" THEN Min2(sinceSent + 1, LINK_ACK_TIMEOUT_MS)
                                                ELSE sinceSent + 1
        BY DEF Tick
      <4> QED
        BY <3>1, <4>1, <4>2, Times DEF Min2
    <3> DEFINE p == (LINK_RETRANSMITS - attemptsLeft) * (LINK_ACK_TIMEOUT_MS + airtime[calls])
               e == IF sending = "copy" THEN LINK_ACK_TIMEOUT_MS ELSE 0
    <3>3. p \in Int /\ e \in Nat
      BY <3>1, Times DEF ArqInv, TypeInv, ControllerType
    <3>4. Elapsed = p + sinceSent + e /\ Elapsed' = p + sinceSent' + e
      BY <1>2 DEF Elapsed
    <3> HIDE DEF p, e
    <3>5. Elapsed' = Elapsed + 1
      BY <3>1, <3>2, <3>3, <3>4
    <3> QED
      BY <3>1, <3>5, Retransmissions DEF ArqInv
  <2> QED
    BY <2>1, <2>2
<1>6. WireInv'
  BY <1>1, <1>2, <1>3 DEF ArqInv, WireInv, IsFrame
<1>7. ASSUME NEW n \in 1 .. MaxCalls, NEW slack \in Nat, NotedBy(n, slack)
      PROVE  NotedBy(n, slack)'
  <2>1. ASSUME NEW i \in DOMAIN down', IsFrame(down'[i])
        PROVE  /\ n <= down'[i].call
               /\ down'[i].call = n => /\ entry'.armed /\ entry'.what = down'[i].what
                                       /\ entry'.age <= slack + Span(n) + down'[i].age
    <3>1. /\ n <= down[i].call
          /\ down[i].call = n => /\ entry.armed /\ entry.what = down[i].what
                                 /\ entry.age <= slack + Span(n) + down[i].age
      BY <1>1, <1>3, <1>7, <2>1 DEF NotedBy
    <3>2. down[i].age \in Nat /\ down'[i].age = down[i].age + 1
      BY <1>1, <2>1
    <3>3. Span(n) \in Nat
      BY Airtime DEF ArqInv, TypeInv
    <3> QED
      BY <1>1, <1>4, <2>1, <3>1, <3>2, <3>3
  <2>2. n = calls /\ MaySend => entry'.armed /\ entry'.what = frame /\ entry'.age <= slack + Elapsed'
    BY <1>4, <1>5, <1>7 DEF NotedBy
  <2>3. Span(n)' = Span(n)
    BY <1>11
  <2> HIDE DEF MaySend, Elapsed
  <2> QED
    BY <1>2, <1>5, <2>1, <2>2, <2>3 DEF NotedBy, IsFrame
<1>8. NotedInv'
  <2> SUFFICES ASSUME NEW m \in 1 .. MaxCalls, dispatched[m] > 0
               PROVE  m <= calls /\ NotedBy(m, lagged[m])'
    BY <1>2 DEF NotedInv
  <2>1. m <= calls /\ NotedBy(m, lagged[m]) /\ lagged[m] \in Nat
    BY DEF ArqInv, NotedInv, TypeInv, PanelType
  <2>2. PICK s \in Nat : s = lagged[m]
    BY <2>1
  <2>3. NotedBy(m, s)'
    BY <1>7, <2>1, <2>2
  <2> QED
    BY <1>2, <2>1, <2>2, <2>3
<1>9. DispatchedOnceInTime' /\ AnswersThisCall' /\ FirstInv'
  BY <1>1, <1>2, <1>3, <1>11 DEF ArqInv, DispatchedOnceInTime, AnswersThisCall, FirstInv, IsFrame, ghostVars
<1>10. QuietInv'
  <2> SUFFICES ASSUME ~disturbed, calls > 0 PROVE QuietInv'
    BY <1>2 DEF QuietInv, ghostVars
  <2>1. /\ Alone /\ LagBounded /\ (dispatched[calls] = 0 => Unheard)
        /\ (dispatched[calls] > 0 => NotedBy(calls, 0))
        /\ (Span(calls) + MaxDelay < LINK_DEDUP_WINDOW_MS => dispatched[calls] <= 1)
    BY DEF ArqInv, QuietInv
  <2>6. Span(calls) \in Nat /\ Span(calls)' = Span(calls)
    <3>1. calls \in 1 .. MaxCalls
      BY DEF ArqInv, TypeInv, ControllerType
    <3> QED
      BY <1>2, <3>1, Airtime DEF ArqInv, TypeInv, Span
  <2>2. Alone'
    BY <1>1, <1>2, <2>1 DEF Alone
  <2>3. Unheard => Unheard'
    <3> SUFFICES ASSUME Unheard PROVE Unheard'
      OBVIOUS
    <3>1. up' = <<>>
      <4>1. DOMAIN up' = {}
        BY <1>1 DEF Unheard
      <4> QED
        BY <1>1, <4>1
    <3>2. lag' = 0
      BY DEF Unheard, Tick
    <3> QED
      BY <1>2, <1>4, <3>1, <3>2 DEF Unheard
  <2>4. LagBounded'
    <3>1. lag \in Nat /\ lag' \in Nat /\ lag' <= lag + 1
      <4>1. lag \in Nat /\ MaxLag \in Nat
        BY Times DEF ArqInv, TypeInv, PanelType
      <4>2. lag' = IF panel = "listening" THEN 0 ELSE Min2(lag + 1, MaxLag)
        BY DEF Tick
      <4>3. Min2(lag + 1, MaxLag) \in Nat /\ Min2(lag + 1, MaxLag) <= lag + 1
        BY <4>1 DEF Min2
      <4> QED
        BY <4>1, <4>2, <4>3
    <3>2. \A i \in DOMAIN down' : IsFrame(down'[i]) => lag' <= Span(calls) + down'[i].age
      <4>1. \A i \in DOMAIN down : IsFrame(down'[i]) => lag <= Span(calls) + down[i].age
        BY <1>3, <2>1 DEF LagBounded
      <4> QED
        BY <1>1, <2>6, <3>1, <4>1
    <3>3. MaySend => lag' <= Elapsed'
      BY <1>5, <2>1, <3>1 DEF LagBounded
    <3> HIDE DEF MaySend, Elapsed
    <3> QED
      BY <1>2, <1>5, <2>6, <3>2, <3>3 DEF LagBounded, IsFrame
  <2>5. dispatched[calls] > 0 => NotedBy(calls, 0)'
    <3>1. PICK n \in 1 .. MaxCalls : n = calls
      BY DEF ArqInv, TypeInv, ControllerType
    <3>2. dispatched[calls] > 0 => NotedBy(n, 0)'
      BY <1>7, <2>1, <3>1
    <3> QED
      BY <1>2, <3>1, <3>2
  <2> QED
    BY <1>2, <2>1, <2>2, <2>3, <2>4, <2>5, <2>6 DEF QuietInv
<1> QED
  BY <1>6, <1>8, <1>9, <1>10 DEF Kept

\* The panel hears a frame: it is noted, so whatever else is under way of the same call is
\* a duplicate, and no frame of an earlier call is left.
LEMMA HearsFrame ==
    ASSUME ArqInv, TypeInv', NEW w \in Frames, NEW n \in 1 .. MaxCalls,
           down # <<>>, w = Head(down).what, n = Head(down).call, down' = Tail(down), n <= calls,
           panel = "listening", UNCHANGED <<controllerVars, ghostVars>>,
           up' = On(up, Ack(w), n), Note(w), lagged' = [lagged EXCEPT ![n] = Max2(@, lag)],
           UNCHANGED <<attempt, lag>>,
           \/ Duplicate(w) /\ UNCHANGED <<panel, acting, sinceStep, dispatched>>
           \/ /\ ~Duplicate(w) /\ panel' = "acting" /\ acting' = [what |-> w, call |-> n]
              /\ dispatched' = [dispatched EXCEPT ![n] = @ + 1]
    PROVE  Kept'
<1>1. /\ down \in Seq(Sent) /\ 1 \in DOMAIN down /\ down[1] = Head(down) /\ down[1] \in Sent
      /\ calls \in Nat /\ n \in Nat
  BY Oldest, DownTail DEF ArqInv, TypeInv, WireType, ControllerType
<1>2. IsFrame(down[1]) /\ down[1].what = w /\ down[1].call = n /\ down[1].age \in 0 .. MaxDelay
  BY <1>1, Kinds DEF IsFrame, Sent
<1>3. \A i \in DOMAIN down' : /\ i + 1 \in DOMAIN down /\ down'[i] = down[i + 1] /\ 1 < i + 1
                             /\ down'[i] \in Sent
  <2>1. \A i \in DOMAIN down' : i + 1 \in DOMAIN down /\ down'[i] = down[i + 1]
    BY <1>1, Oldest
  <2>2. down' \in Seq(Sent)
    BY <1>1, Oldest
  <2> QED
    BY <2>1, <2>2, Element
<1>4. \A i \in DOMAIN down' : down'[i].call \in Nat /\ down'[i].age \in Nat
  BY <1>3, Times DEF Sent
<1>5. ASSUME NEW i \in DOMAIN down', IsFrame(down'[i])
      PROVE  n <= down'[i].call /\ (down'[i].call = n => down'[i].what = w)
  BY <1>1, <1>2, <1>3, <1>5 DEF ArqInv, WireInv
<1>6. n = calls => w = frame
  BY <1>1, <1>2 DEF ArqInv, WireInv
<1>7. entry'.armed /\ entry'.what = w /\ entry'.age = lag /\ lag \in Nat /\ lag' = lag /\ entry.age \in Nat
  BY DEF Note, ArqInv, TypeInv, PanelType
<1>8. /\ lagged'[n] \in Nat /\ lagged[n] \in Nat /\ lag <= lagged'[n] /\ lagged[n] <= lagged'[n]
      /\ \A m \in 1 .. MaxCalls : m # n => lagged'[m] = lagged[m]
  <2>1. Max2(lagged[n], lag) \in Nat /\ lag <= Max2(lagged[n], lag) /\ lagged[n] <= Max2(lagged[n], lag)
    BY DEF Max2, ArqInv, TypeInv, PanelType
  <2> QED
    BY <2>1 DEF ArqInv, TypeInv, PanelType
<1>9. /\ \A m \in 1 .. MaxCalls : m # n => dispatched'[m] = dispatched[m]
      /\ dispatched[n] \in Nat
      /\ Duplicate(w) => dispatched'[n] = dispatched[n]
      /\ ~Duplicate(w) => dispatched'[n] = dispatched[n] + 1
  BY DEF ArqInv, TypeInv, PanelType
<1>10. UNCHANGED <<calls, frame, airtime>> /\ MaySend' = MaySend /\ Elapsed' = Elapsed /\ Elapsed \in Nat
  <2>1. calls > 0
    BY <1>1
  <2> QED
    BY <2>1, Retransmissions DEF controllerVars, MaySend, Elapsed, ArqInv
<1>19. Span(n) \in Nat /\ \A m : Span(m)' = Span(m)
  BY <1>10, Airtime DEF ArqInv, TypeInv, Span
<1> HIDE DEF MaySend, Elapsed, IsFrame, Duplicate
<1>11. ASSUME NEW slack \in Nat, n = calls /\ MaySend => lag <= slack + Elapsed,
              \A i \in DOMAIN down' : IsFrame(down'[i]) => lag <= slack + Span(n) + down'[i].age
       PROVE  NotedBy(n, slack)'
  <2>1. ASSUME NEW i \in DOMAIN down', IsFrame(down'[i])
        PROVE  /\ n <= down'[i].call
               /\ down'[i].call = n => /\ entry'.armed /\ entry'.what = down'[i].what
                                       /\ entry'.age <= slack + Span(n) + down'[i].age
    <3>1. n <= down'[i].call /\ (down'[i].call = n => down'[i].what = w)
      BY <1>5, <2>1
    <3>2. lag <= slack + Span(n) + down'[i].age
      BY <1>11, <2>1
    <3> QED
      BY <1>7, <3>1, <3>2
  <2>2. n = calls' /\ MaySend' => entry'.armed /\ entry'.what = frame' /\ entry'.age <= slack + Elapsed'
    BY <1>6, <1>7, <1>10, <1>11
  <2>3. Span(n)' = Span(n)
    BY <1>19
  <2> QED
    BY <2>1, <2>2, <2>3 DEF NotedBy, IsFrame
<1>12. dispatched[n] > 0 => NotedBy(n, lagged[n])
  BY DEF ArqInv, NotedInv
<1>13. WireInv'
  <2>1. FramesStay
    BY FramesLeft DEF ArqInv
  <2>2. \A i \in DOMAIN down' : IsFrame(down'[i]) /\ down'[i].call = calls => down'[i].what = frame
    BY <1>3 DEF ArqInv, WireInv
  <2>3. ASSUME NEW i \in DOMAIN down', NEW j \in DOMAIN down', i < j, IsFrame(down'[i]), IsFrame(down'[j])
        PROVE  /\ down'[i].call <= down'[j].call
               /\ down'[i].call = down'[j].call => down'[i].what = down'[j].what
    <3>1. /\ i + 1 \in DOMAIN down /\ j + 1 \in DOMAIN down
          /\ down'[i] = down[i + 1] /\ down'[j] = down[j + 1]
      BY <1>3
    <3>2. i + 1 < j + 1
      <4>1. down' \in Seq(Sent)
        BY <1>1, Oldest
      <4> QED
        BY <2>3, <4>1, Element
    <3> QED
      BY <2>3, <3>1, <3>2 DEF ArqInv, WireInv
  <2> QED
    BY <1>10, <2>2, <2>3 DEF WireInv, IsFrame
<1>14. NotedInv'
  <2> SUFFICES ASSUME NEW m \in 1 .. MaxCalls, dispatched'[m] > 0
               PROVE  m <= calls /\ NotedBy(m, lagged[m])'
    BY <1>10 DEF NotedInv
  <2>1. CASE m = n
    <3>1. PICK s \in Nat : s = lagged'[n]
      BY <1>8
    <3>2. n = calls /\ MaySend => lag <= s + Elapsed
      BY <1>7, <1>8, <1>10, <3>1
    <3>3. \A i \in DOMAIN down' : IsFrame(down'[i]) => lag <= s + Span(n) + down'[i].age
      BY SMTT(30), <1>4, <1>7, <1>8, <1>19, <3>1
    <3>4. NotedBy(n, s)'
      BY <1>11, <3>2, <3>3
    <3> QED
      BY <2>1, <3>1, <3>4
  <2>2. CASE m # n
    <3>1. dispatched[m] > 0
      BY <1>9, <2>2
    <3>2. m <= calls /\ NotedBy(m, lagged[m]) /\ m \in Nat
      BY <3>1 DEF ArqInv, NotedInv
    <3>3. m < n
      BY <1>1, <1>2, <2>2, <3>2 DEF NotedBy
    <3>4. ASSUME NEW i \in DOMAIN down', IsFrame(down'[i])
          PROVE  m <= down'[i].call /\ down'[i].call # m
      <4>1. n <= down'[i].call /\ down'[i].call \in Nat
        BY <1>4, <1>5, <3>4
      <4> QED
        BY <1>1, <3>2, <3>3, <4>1
    <3>5. m # calls
      BY <1>1, <3>2, <3>3
    <3> QED
      BY <1>10, <3>2, <3>4, <3>5 DEF NotedBy, IsFrame
  <2> QED
    BY <2>1, <2>2
<1>15. ASSUME NEW slack \in Nat, NotedBy(n, slack), slack + Span(n) + MaxDelay < LINK_DEDUP_WINDOW_MS
       PROVE  Duplicate(w)
  <2>1. entry.armed /\ entry.what = w /\ entry.age <= slack + Span(n) + down[1].age
    BY <1>1, <1>2, <1>15 DEF NotedBy
  <2>2. entry.age - lag < LINK_DEDUP_WINDOW_MS
    BY <1>2, <1>7, <1>15, <1>19, <2>1, Times
  <2> QED
    BY <2>1, <2>2 DEF Duplicate, Within
<1>16. DispatchedOnceInTime'
  <2> SUFFICES ASSUME NEW m \in 1 .. MaxCalls, lagged'[m] + Span(m) + MaxDelay < LINK_DEDUP_WINDOW_MS
               PROVE  dispatched'[m] <= 1
    BY <1>19 DEF DispatchedOnceInTime
  <2>1. CASE m # n
    BY <1>8, <1>9, <2>1 DEF ArqInv, DispatchedOnceInTime
  <2>2. CASE m = n
    <3>1. lagged[n] + Span(n) + MaxDelay < LINK_DEDUP_WINDOW_MS
      BY <1>8, <1>19, <2>2, Times
    <3>2. dispatched[n] <= 1
      BY <3>1 DEF ArqInv, DispatchedOnceInTime
    <3>3. dispatched[n] > 0 => Duplicate(w)
      BY <1>8, <1>12, <1>15, <3>1
    <3> QED
      BY <1>9, <2>2, <3>2, <3>3
  <2> QED
    BY <2>1, <2>2
<1>17. AnswersThisCall'
  BY DEF ArqInv, AnswersThisCall, controllerVars, ghostVars
<1>18. QuietInv'
  <2> SUFFICES ASSUME ~disturbed, calls > 0
               PROVE  /\ Alone' /\ LagBounded'
                      /\ dispatched'[calls] > 0 /\ NotedBy(calls, 0)'
                      /\ Span(calls) + MaxDelay < LINK_DEDUP_WINDOW_MS => dispatched'[calls] <= 1
    BY <1>10, <1>19 DEF QuietInv, ghostVars
  <2>1. /\ Alone /\ LagBounded /\ (dispatched[calls] = 0 => Unheard)
        /\ (dispatched[calls] > 0 => NotedBy(calls, 0))
        /\ (Span(calls) + MaxDelay < LINK_DEDUP_WINDOW_MS => dispatched[calls] <= 1)
    BY DEF ArqInv, QuietInv
  <2>2. n = calls /\ w = frame
    BY <1>1, <1>2, <1>6, <2>1 DEF Alone
  <2>3. Alone'
    <3>1. \A i \in DOMAIN up' : (i \in DOMAIN up /\ up'[i] = up[i]) \/ up'[i].call = calls
      <4>1. [what |-> Ack(w), call |-> n, age |-> 0] \in Answers /\ up \in Seq(Answers)
        BY Kinds DEF Answers, ArqInv, TypeInv, WireType
      <4> QED
        BY <2>2, <4>1, Appended
    <3>2. panel' # "listening" => acting'.call = calls
      BY <2>2
    <3> QED
      BY <1>3, <1>10, <2>1, <3>1, <3>2 DEF Alone
  <2>4. /\ \A i \in DOMAIN down' : IsFrame(down'[i]) => lag <= Span(n) + down'[i].age
        /\ MaySend => lag <= Elapsed
    BY <1>3, <2>1, <2>2 DEF LagBounded
  <2>5. LagBounded'
    BY <1>7, <1>10, <1>19, <2>2, <2>4 DEF LagBounded, IsFrame
  <2>6. NotedBy(calls, 0)'
    <3>1. PICK s \in Nat : s = 0
      OBVIOUS
    <3>2. NotedBy(n, s)'
      <4>1. n = calls /\ MaySend => lag <= s + Elapsed
        BY <1>10, <2>4, <3>1
      <4>2. \A i \in DOMAIN down' : IsFrame(down'[i]) => lag <= s + Span(n) + down'[i].age
        BY <1>19, <2>4, <3>1
      <4> QED
        BY <1>11, <4>1, <4>2
    <3> QED
      BY <1>10, <2>2, <3>1, <3>2
  <2>7. dispatched[n] = 0 => ~Duplicate(w)
    <3> SUFFICES ASSUME Unheard, Duplicate(w) PROVE FALSE
      BY <2>1, <2>2
    <3>1. entry.armed /\ entry.what = frame /\ entry.age - lag < LINK_DEDUP_WINDOW_MS /\ lag = 0
      BY <2>2 DEF Duplicate, Within, Unheard
    <3>2. entry.age >= LINK_DEDUP_WINDOW_MS
      BY <3>1 DEF Unheard
    <3> QED
      BY <1>7, <3>1, <3>2, Times
  <2>8. Span(n) + MaxDelay < LINK_DEDUP_WINDOW_MS /\ dispatched[n] > 0 => Duplicate(w)
    <3>1. Span(n) + MaxDelay < LINK_DEDUP_WINDOW_MS => 0 + Span(n) + MaxDelay < LINK_DEDUP_WINDOW_MS
      BY <1>19, Times
    <3> QED
      BY <1>15, <2>1, <2>2, <3>1
  <2>9. dispatched'[n] > 0 /\ (Span(n) + MaxDelay < LINK_DEDUP_WINDOW_MS => dispatched'[n] <= 1)
    BY <1>9, <2>1, <2>2, <2>7, <2>8
  <2> QED
    BY <2>2, <2>3, <2>5, <2>6, <2>9
<1>20. FirstInv'
  <2> SUFFICES ASSUME sending = "first"
               PROVE  /\ dispatched'[calls] = 0
                      /\ \A i \in DOMAIN down' : IsFrame(down'[i]) => down'[i].call # calls
    BY <1>10 DEF FirstInv, IsFrame, controllerVars
  <2>1. dispatched[calls] = 0 /\ \A i \in DOMAIN down : IsFrame(down[i]) => down[i].call # calls
    BY DEF ArqInv, FirstInv
  <2>2. n # calls /\ calls \in 1 .. MaxCalls
    BY <1>1, <1>2, <2>1 DEF ArqInv, TypeInv, ControllerType
  <2> QED
    BY <1>3, <1>9, <2>1, <2>2
<1> QED
  BY <1>13, <1>14, <1>16, <1>17, <1>18, <1>20 DEF Kept

LEMMA PanelReceiveKeeps == ArqInv /\ PanelReceive /\ TypeInv' => Kept'
<1> SUFFICES ASSUME ArqInv, PanelReceive, TypeInv' PROVE Kept'
  OBVIOUS
<1>1. PICK w, n : w = Head(down).what /\ n = Head(down).call
  OBVIOUS
<1>2. /\ down # <<>> /\ down' = Tail(down) /\ n \in 1 .. MaxCalls /\ n <= calls
      /\ panel = "listening" /\ UNCHANGED <<controllerVars, ghostVars>>
      /\ \/ /\ w \in Acks /\ UNCHANGED <<up, panelVars>>
         \/ /\ w \in Frames /\ up' = On(up, Ack(w), n) /\ Note(w)
            /\ lagged' = [lagged EXCEPT ![n] = Max2(@, lag)]
            /\ UNCHANGED <<attempt, lag>>
            /\ \/ Duplicate(w) /\ UNCHANGED <<panel, acting, sinceStep, dispatched>>
               \/ /\ ~Duplicate(w) /\ panel' = "acting" /\ sinceStep' = 0
                  /\ acting' = [what |-> w, call |-> n]
                  /\ dispatched' = [dispatched EXCEPT ![n] = @ + 1]
  BY <1>1, Hears DEF ArqInv
<1>3. CASE w \in Acks /\ UNCHANGED <<up, panelVars>>
  <2>1. FramesStay
    BY <1>2, FramesLeft DEF ArqInv
  <2>2. Alone => Alone'
    <3>1. Left(down', down) /\ Left(up', up)
      BY <1>2, <1>3 DEF Left
    <3> QED
      BY <1>2, <1>3, <3>1, StillThere, AloneKept DEF ArqInv, TypeInv, WireType, panelVars, Alone, controllerVars
  <2>3. Unheard => Unheard'
    BY <1>2, <1>3 DEF Unheard, controllerVars, panelVars
  <2> QED
    BY <1>2, <1>3, <2>1, <2>2, <2>3, CalmOutside DEF panelVars, ghostVars
<1>4. CASE w \in Frames
  <2>1. w \notin Acks
    BY <1>4, Kinds
  <2> QED
    BY <1>1, <1>2, <1>4, <2>1, HearsFrame
<1> QED
  BY <1>2, <1>3, <1>4

-----------------------------------------------------------------------------
(* The theorems.                                                            *)

LEMMA InvInit == Init => ArqInv
<1> SUFFICES ASSUME Init PROVE ArqInv
  OBVIOUS
<1>1. ControllerType
  <2>1. 0 \in 0 .. MaxCalls /\ 0 \in 0 .. LINK_RETRANSMITS /\ 0 \in 0 .. FrameTime
    BY Times
  <2> QED
    BY <2>1 DEF Init, ControllerType
<1>2. WireType /\ SendingType
  BY Times DEF Init, WireType, SendingType
<1>3. PanelType
  <2>1. 0 \in 0 .. MaxCalls
    BY Times
  <2> QED
    BY <2>1 DEF Init, PanelType
<1>4. GhostType
  <2>1. 0 \in 0 .. MaxCalls
    BY Times
  <2> QED
    BY <2>1 DEF Init, GhostType
<1>5. WireInv /\ FirstInv /\ NotedInv /\ DispatchedOnceInTime /\ QuietInv /\ AnswersThisCall
  BY DEF Init, WireInv, FirstInv, NotedInv, DispatchedOnceInTime, QuietInv, AnswersThisCall
<1> QED
  BY <1>1, <1>2, <1>3, <1>4, <1>5 DEF ArqInv, TypeInv

LEMMA TypeNext == TypeInv /\ [Next]_vars => TypeInv'
<1> SUFFICES ASSUME TypeInv, [Next]_vars PROVE TypeInv'
  OBVIOUS
<1>1. CASE Controller
  BY <1>1, CallType, ControllerSentType, ControllerRetransmitType, ControllerReceiveAckType, ControllerReceiveReplyType,
     ControllerTimeoutType DEF Controller
<1>2. CASE Panel
  BY <1>2, PanelReceiveType, PanelMissesType, PanelActedType, PanelSentType, PanelTickType, WindowReceiveType,
     WindowTimeoutType DEF Panel
<1>3. CASE Lose
  BY <1>3, LoseType
<1>4. CASE Tick
  BY <1>4, TickType
<1>5. CASE UNCHANGED vars
  BY <1>5 DEF vars, controllerVars, panelVars, ghostVars, TypeInv, ControllerType, SendingType, WireType,
     PanelType, GhostType
<1> QED
  BY <1>1, <1>2, <1>3, <1>4, <1>5 DEF Next

LEMMA InvNext == ArqInv /\ [Next]_vars => ArqInv'
<1> SUFFICES ASSUME ArqInv, [Next]_vars PROVE TypeInv' /\ Kept'
  BY DEF ArqInv, Kept
<1>1. TypeInv'
  BY TypeNext DEF ArqInv
<1>2. CASE Controller
  BY <1>1, <1>2, CallKeeps, ControllerSentKeeps, ControllerRetransmitKeeps, ControllerReceiveAckKeeps,
     ControllerReceiveReplyKeeps, ControllerTimeoutKeeps DEF Controller
<1>3. CASE Panel
  BY <1>1, <1>3, PanelReceiveKeeps, PanelMissesKeeps, PanelActedKeeps, PanelSentKeeps, PanelTickKeeps,
     WindowReceiveKeeps, WindowTimeoutKeeps DEF Panel
<1>4. CASE Lose
  BY <1>1, <1>4, LoseKeeps
<1>5. CASE Tick
  BY <1>1, <1>5, TickKeeps
<1>6. CASE UNCHANGED vars
  <2>1. FramesStay
    BY <1>6, FramesLeft DEF ArqInv, vars
  <2>2. (Alone => Alone') /\ (Unheard => Unheard')
    BY <1>6 DEF Alone, Unheard, vars, controllerVars, panelVars
  <2> QED
    BY <1>1, <1>6, <2>1, <2>2, CalmOutside DEF vars, panelVars, ghostVars
<1> QED
  BY <1>1, <1>2, <1>3, <1>4, <1>5, <1>6 DEF Next

LEMMA Inv == Spec => []ArqInv
<1> QED
  BY InvInit, InvNext, PTL DEF Spec

\* What is acknowledged belongs to a call.
Begun == acked => calls > 0

LEMMA BegunNext == TypeInv /\ Begun /\ [Next]_vars => Begun'
<1> SUFFICES ASSUME TypeInv, Begun, [Next]_vars PROVE Begun'
  OBVIOUS
<1>1. CASE \E w \in Frames : Call(w)
  BY <1>1 DEF Call, Begun
<1>2. CASE ControllerReceiveAck
  <2>1. waiting # "nothing" /\ calls > 0
    BY <1>2 DEF ControllerReceiveAck, Reading, TypeInv, ControllerType
  <2>2. calls' = calls
    BY <1>2 DEF ControllerReceiveAck
  <2> QED
    BY <2>1, <2>2 DEF Begun
<1>3. CASE UNCHANGED <<calls, acked>>
  BY <1>3 DEF Begun
<1>4. CASE ControllerReceiveReply \/ ControllerTimeout \/ ControllerSent \/ ControllerRetransmit
  BY <1>3, <1>4 DEF ControllerReceiveReply, ControllerTimeout, ControllerSent, ControllerRetransmit
<1>5. CASE Panel \/ Lose \/ Tick \/ UNCHANGED vars
  BY <1>3, <1>5 DEF Panel, PanelReceive, PanelMisses, PanelActed, PanelSent, PanelTick,
     WindowReceive, WindowTimeout, Lose, Tick, vars, controllerVars
<1> QED
  BY <1>1, <1>2, <1>4, <1>5 DEF Next, Controller

\* LinkArq.hpp, LinkDedup: a retransmission is acknowledged again but not dispatched again,
\* for every call whose frame is short enough and which was noted by a clock young enough
\* for the window to outlast all its transmissions.
THEOREM DispatchedOnce == Spec => []DispatchedOnceInTime
<1>1. ArqInv => DispatchedOnceInTime
  BY DEF ArqInv
<1> QED
  BY <1>1, Inv, PTL

\* flushStrayBytes(), the CRC echoed in the hop acknowledgement: a call into a link at rest
\* that was acknowledged was dispatched, and once if the window outlasts the transmissions
\* of its frame.
THEOREM AckedDispatched == Spec => []AckedWasDispatched
<1>1. Init => Begun
  BY DEF Init, Begun
<1>2. ArqInv => TypeInv
  BY DEF ArqInv
<1>3. ArqInv /\ Begun => AckedWasDispatched
  <2> SUFFICES ASSUME ArqInv, acked, calls > 0, ~disturbed
               PROVE  /\ dispatched[calls] >= 1
                      /\ Span(calls) + MaxDelay < LINK_DEDUP_WINDOW_MS => dispatched[calls] = 1
    BY DEF Begun, AckedWasDispatched
  <2>1. /\ dispatched[calls] # 0
        /\ Span(calls) + MaxDelay < LINK_DEDUP_WINDOW_MS => dispatched[calls] <= 1
    BY DEF ArqInv, QuietInv, Unheard
  <2>2. dispatched[calls] \in Nat
    BY DEF ArqInv, TypeInv, ControllerType, PanelType
  <2> QED
    BY <2>1, <2>2
<1> QED
  BY <1>1, <1>2, <1>3, Inv, BegunNext, PTL DEF Spec

\* requestReply() and fetchState(): into a link at rest, the reply taken answers the call
\* that waits for it, and never an earlier one.
THEOREM AnswersOwn == Spec => []AnswersThisCall
<1>1. ArqInv => AnswersThisCall
  BY DEF ArqInv
<1> QED
  BY <1>1, Inv, PTL

-----------------------------------------------------------------------------
(* How many losses a call takes.                                            *)

\* All retransmissions of the longest frame, windows included.
Room == LINK_RETRANSMITS * (LINK_ACK_TIMEOUT_MS + FrameTime)
\* A reply is waited for long enough for every transmission of the request, for what the
\* panel does with it, and for every transmission of the reply; the last copy of a command
\* is on its way before the wait for its acknowledgement is over.
Patient ==
    /\ 2 * Room + FrameTime + 2 * MaxDelay + MaxActing < ACK_TIMEOUT_MS
    /\ LINK_RETRANSMITS * FrameTime < LINK_ACK_TIMEOUT_MS + 2 + FrameTime

IsReply(f) == f.what[1] = "FETCH_STATE_REPLY"
ReplyOnTheWay == IF \E i \in DOMAIN up : IsReply(up[i]) THEN 1 ELSE 0

\* A call into a quiet link is under way.
Going == waiting # "nothing" /\ ~disturbed
Exhausted == callLosses > LINK_RETRANSMITS

\* What it finds on the wires and at the panel is its own.
Shape ==
    /\ waiting = "REPLY" <=> frame[1] = "FETCH_STATE"
    /\ \A i \in DOMAIN up : IsReply(up[i]) => up[i].what = Reply(frame[2])
    /\ waiting = "REPLY" \/ dispatched[calls] = 0 => \A i \in DOMAIN down : IsFrame(down[i])
    /\ panel = "acting" => acting.what = frame
    /\ panel \in {"sending", "window"} => acting.what = Reply(frame[2])

\* Not heard yet: every transmission is still to come, on the wire, or lost.
Calling ==
    /\ callLosses + Len(down) + attemptsLeft + (IF sending = "first" THEN 1 ELSE 0) >= LINK_RETRANSMITS + 1
    /\ attemptsLeft > 0 => sinceStart <= Elapsed
    /\ \A i \in DOMAIN down : sinceStart <= Room + down[i].age

\* Heard, and not answered yet.
Acting ==
    panel = "acting" /\ sinceStep <= MaxActing /\ sinceStart <= Room + MaxDelay + sinceStep

\* All of the reply's transmissions but this one are lost.
Sending ==
    /\ panel = "sending" /\ attempt <= LINK_RETRANSMITS /\ sinceStep <= FrameTime
    /\ sinceStart <= Room + MaxDelay + MaxActing + attempt * (LINK_ACK_TIMEOUT_MS + FrameTime) + sinceStep
    /\ callLosses >= attempt

\* Answered: every transmission of the reply so far is on the wire or lost.
Answering ==
    /\ panel = "window" /\ attempt <= LINK_RETRANSMITS /\ sinceStep <= LINK_ACK_TIMEOUT_MS
    /\ sinceStart <= Room + MaxDelay + MaxActing + attempt * (LINK_ACK_TIMEOUT_MS + FrameTime)
                     + FrameTime + sinceStep
    /\ callLosses + ReplyOnTheWay >= attempt + 1
    /\ \A i \in DOMAIN up : IsReply(up[i]) => up[i].age >= sinceStep

\* A reply is there, and the controller, which was sending, has not read it yet.
Arrived == \E i \in DOMAIN up : IsReply(up[i]) /\ up[i].age > MaxDelay

Progress ==
    /\ dispatched[calls] = 0 => Calling
    /\ dispatched[calls] > 0 /\ waiting = "REPLY" => Exhausted \/ Arrived \/ Acting \/ Sending \/ Answering

\* The call is over, and what is left of its frame is still on the wire.
Travels ==
    /\ callLosses + Len(down) >= LINK_RETRANSMITS + 1
    /\ \A i \in DOMAIN down : down[i].what = frame
Ended ==
    waiting = "nothing" /\ ~disturbed /\ ~received =>
        \/ Exhausted
        \/ calls > 0 /\ frame[1] = "COMMAND" /\ (dispatched[calls] > 0 \/ Travels)

AbsorbInv == (Going => Shape /\ Progress) /\ Ended

\* What a call that began with the link at rest may rely on, also when it is over.
LEMMA Quiet ==
    ASSUME ArqInv, ~disturbed, calls > 0
    PROVE  /\ calls \in 1 .. MaxCalls /\ frame \in Frames \cup {Nothing}
           /\ Alone /\ dispatched[calls] \in Nat
           /\ dispatched[calls] = 0 => ~acked /\ up = <<>> /\ panel = "listening"
           /\ callLosses \in Nat
           /\ down \in Seq(Sent) /\ up \in Seq(Answers) /\ Len(down) \in Nat
           /\ DOMAIN down = 1 .. Len(down)
<1>1. calls \in 1 .. MaxCalls /\ frame \in Frames \cup {Nothing}
  BY DEF ArqInv, TypeInv, ControllerType
<1>2. callLosses \in Nat /\ dispatched[calls] \in Nat
  BY <1>1 DEF ArqInv, TypeInv, PanelType, GhostType
<1>3. down \in Seq(Sent) /\ up \in Seq(Answers)
  BY DEF ArqInv, TypeInv, WireType
<1>4. Alone /\ (dispatched[calls] = 0 => Unheard)
  BY DEF ArqInv, QuietInv
<1> QED
  BY <1>1, <1>2, <1>3, <1>4, Element DEF Unheard

\* What it may rely on while it is under way.
LEMMA Underway ==
    ASSUME ArqInv, Going
    PROVE  /\ calls \in 1 .. MaxCalls /\ calls > 0 /\ frame \in Frames /\ waiting \in {"LINK_ACK", "REPLY"}
           /\ Alone /\ dispatched[calls] \in Nat
           /\ dispatched[calls] = 0 => ~acked /\ up = <<>> /\ panel = "listening"
           /\ callLosses \in Nat /\ sinceStart \in Nat /\ sinceStep \in Nat /\ attempt \in Nat
           /\ sinceSent \in Nat
           /\ down \in Seq(Sent) /\ up \in Seq(Answers) /\ Len(down) \in Nat
           /\ DOMAIN down = 1 .. Len(down) /\ attemptsLeft \in 0 .. LINK_RETRANSMITS
           /\ \A i \in DOMAIN down : down[i].age \in Nat /\ down[i].age <= MaxDelay /\ down[i].what \in Frames \cup Acks
           /\ \A i \in DOMAIN up : up[i].age \in Nat
<1>1. /\ calls \in 1 .. MaxCalls /\ calls > 0 /\ frame \in Frames /\ waiting \in {"LINK_ACK", "REPLY"}
      /\ sinceStart \in Nat /\ sinceSent \in Nat /\ attemptsLeft \in 0 .. LINK_RETRANSMITS
  BY DEF ArqInv, TypeInv, ControllerType, Going
<1>2. sinceStep \in Nat /\ attempt \in Nat
  BY DEF ArqInv, TypeInv, PanelType
<1>3. down \in Seq(Sent) /\ up \in Seq(Answers)
  BY DEF ArqInv, TypeInv, WireType
<1>4. \A i \in DOMAIN down : down[i].age \in Nat /\ down[i].age <= MaxDelay /\ down[i].what \in Frames \cup Acks
  <2>1. \A i \in DOMAIN down : down[i] \in Sent
    BY <1>3, Element
  <2> QED
    BY <2>1, Times DEF Sent
<1>5. \A i \in DOMAIN up : up[i].age \in Nat
  <2>1. \A i \in DOMAIN up : up[i] \in Answers
    BY <1>3, Element
  <2> QED
    BY <2>1 DEF Answers
<1> QED
  BY <1>1, <1>2, <1>3, <1>4, <1>5, Quiet DEF Going

\* A step disturbs no call after the fact, and an earlier one is not looked at any more.
LEMMA StaysDisturbed == ASSUME disturbed, disturbed' = disturbed PROVE AbsorbInv'
  BY DEF AbsorbInv, Going, Ended

\* While it is under way there is nothing to show.
LEMMA StillGoing ==
    ASSUME waiting' # "nothing", Shape', Progress'
    PROVE  AbsorbInv'
  BY DEF AbsorbInv, Ended

\* Its end.
LEMMA NoLongerGoing ==
    ASSUME waiting' = "nothing", Ended'
    PROVE  AbsorbInv'
  BY DEF AbsorbInv, Going

\* What is left of a call that is over is still heard, or lost.
LEMMA StaysOver ==
    ASSUME ArqInv, AbsorbInv, waiting = "nothing", UNCHANGED <<calls, frame, waiting, received, disturbed>>,
           callLosses' \in Nat, callLosses' >= callLosses,
           calls > 0 /\ ~disturbed /\ dispatched[calls] > 0 => dispatched'[calls] > 0,
           calls > 0 /\ ~disturbed /\ frame[1] = "COMMAND" /\ dispatched[calls] = 0 /\ Travels =>
               Travels' \/ dispatched'[calls] > 0
    PROVE  AbsorbInv'
<1> SUFFICES ASSUME ~disturbed, ~received PROVE Ended'
  BY NoLongerGoing DEF Ended
<1>1. Exhausted \/ (calls > 0 /\ frame[1] = "COMMAND" /\ (dispatched[calls] > 0 \/ Travels))
  BY DEF AbsorbInv, Ended
<1>2. CASE Exhausted
  <2>1. callLosses \in Nat
    BY DEF ArqInv, TypeInv, GhostType
  <2>2. Exhausted'
    BY <1>2, <2>1, Times DEF Exhausted
  <2> QED
    BY <2>2 DEF Ended
<1>3. CASE calls > 0 /\ frame[1] = "COMMAND" /\ (dispatched[calls] > 0 \/ Travels)
  <2>1. dispatched[calls] = 0 \/ dispatched[calls] > 0
    BY <1>3, Quiet
  <2>2. dispatched'[calls] > 0 \/ Travels'
    BY <1>3, <2>1
  <2> QED
    BY <1>3, <2>2 DEF Ended
<1> QED
  BY <1>1, <1>2, <1>3

\* A step that hears and loses nothing leaves it as it is.
LEMMA StaysStill ==
    ASSUME ArqInv, AbsorbInv, ~Going, UNCHANGED <<calls, frame, waiting, received, disturbed>>,
           UNCHANGED <<callLosses, dispatched, down>>
    PROVE  AbsorbInv'
<1>1. CASE disturbed
  BY <1>1, StaysDisturbed
<1>2. CASE ~disturbed
  <2>1. Travels' = Travels
    BY DEF Travels
  <2>2. callLosses \in Nat
    BY DEF ArqInv, TypeInv, GhostType
  <2> QED
    BY <1>2, <2>1, <2>2, StaysOver DEF Going
<1> QED
  BY <1>1, <1>2

\* The time k transmissions of the longest frame take, windows included.
LEMMA Spans ==
    ASSUME NEW k \in Nat
    PROVE  LET d == LINK_ACK_TIMEOUT_MS + FrameTime IN
           /\ k * d \in Nat /\ (k + 1) * d = k * d + d
           /\ k = LINK_RETRANSMITS => k * d = Room
           /\ k < LINK_RETRANSMITS => k * d + d <= Room
           /\ Room \in Nat
<1> DEFINE d == LINK_ACK_TIMEOUT_MS + FrameTime
           R == LINK_RETRANSMITS
<1>1. d \in Nat /\ R \in Nat /\ Room = R * d
  BY Times DEF Room
<1> HIDE DEF d, R
<1>2. \A m, n \in Nat : m * n \in Nat
  OBVIOUS
<1>3. k * d \in Nat /\ (k + 1) * d = k * d + d /\ Room \in Nat
  BY <1>1, <1>2
<1>4. k = R => k * d = Room
  BY <1>1
<1>5. ASSUME k < R PROVE k * d + d <= Room
  <2>1. R - (k + 1) \in Nat
    BY <1>1, <1>5
  <2>2. (R - (k + 1)) * d \in Nat
    BY <1>1, <1>2, <2>1
  <2>3. R * d = (R - (k + 1)) * d + (k + 1) * d
    BY <1>1
  <2> QED
    BY <1>1, <1>3, <2>2, <2>3
<1> QED
  BY <1>3, <1>4, <1>5 DEF d, R

\* Products grow with their factors.
LEMMA Products ==
    ASSUME NEW k \in Nat, NEW n \in Nat, k <= n, NEW x \in Nat, NEW y \in Nat, x <= y
    PROVE  k * x \in Nat /\ n * y \in Nat /\ k * x <= n * y
<1>1. \A i, j \in Nat : i * j \in Nat
  OBVIOUS
<1>2. n - k \in Nat /\ y - x \in Nat
  OBVIOUS
<1>3. n * y = k * x + k * (y - x) + (n - k) * y
  OBVIOUS
<1>4. PICK p \in Nat, q \in Nat, r \in Nat : p = k * x /\ q = k * (y - x) /\ r = (n - k) * y
  BY <1>1, <1>2
<1>5. n * y = p + q + r
  BY <1>3, <1>4
<1> QED
  BY <1>4, <1>5

\* However long its frame takes, a call has sent all its copies within Room.
LEMMA WithinRoom ==
    ASSUME TypeInv, calls > 0
    PROVE  /\ Elapsed \in Nat /\ Room \in Nat
           /\ attemptsLeft > 0 => Elapsed <= Room
<1>1. calls \in 1 .. MaxCalls /\ ControllerType
  BY DEF TypeInv, ControllerType
<1>2. airtime[calls] \in Nat /\ airtime[calls] <= FrameTime /\ Span(calls) \in Nat
  BY <1>1, Airtime
<1>3. Span(calls) <= Room
  <2>1. /\ LINK_ACK_TIMEOUT_MS + airtime[calls] \in Nat /\ LINK_ACK_TIMEOUT_MS + FrameTime \in Nat
        /\ LINK_ACK_TIMEOUT_MS + airtime[calls] <= LINK_ACK_TIMEOUT_MS + FrameTime
    BY <1>2, Times
  <2>2. LINK_RETRANSMITS * (LINK_ACK_TIMEOUT_MS + airtime[calls])
        <= LINK_RETRANSMITS * (LINK_ACK_TIMEOUT_MS + FrameTime)
    BY <2>1, Times, Products
  <2> QED
    BY <2>2 DEF Span, Room
<1>4. Elapsed \in Nat /\ (attemptsLeft > 0 => Elapsed <= Span(calls))
  BY Retransmissions
<1>5. Room \in Nat
  BY Spans, Times
<1> QED
  BY <1>2, <1>3, <1>4, <1>5

\* A call has its first transmission and all its copies still to come.
LEMMA CallAbsorbs ==
    ASSUME ArqInv, ArqInv', NEW w \in Frames, Call(w)
    PROVE  AbsorbInv'
<1>1. /\ waiting = "nothing" /\ calls < MaxCalls /\ calls' = calls + 1 /\ frame' = w
      /\ sending' = "first"
      /\ attemptsLeft' = LINK_RETRANSMITS /\ sinceSent' = 0 /\ sinceStart' = 0 /\ callLosses' = 0
      /\ waiting' = (IF w[1] = "COMMAND" THEN "LINK_ACK" ELSE "REPLY")
      /\ down' = down /\ UNCHANGED panelVars
  BY DEF Call
<1>2. calls \in Nat /\ calls + 1 \in 1 .. MaxCalls
  BY <1>1, Times DEF ArqInv, TypeInv, ControllerType
<1> SUFFICES ASSUME ~disturbed' PROVE AbsorbInv'
  BY <1>1 DEF AbsorbInv, Going, Ended
<1>3. dispatched'[calls'] = 0
  <2>1. dispatched[calls + 1] \in Nat
    BY <1>2 DEF ArqInv, TypeInv, PanelType
  <2>2. ~(dispatched[calls + 1] > 0)
    BY <1>2 DEF ArqInv, NotedInv
  <2> QED
    BY <1>1, <2>1, <2>2 DEF panelVars
<1>4. up' = <<>> /\ panel' = "listening" /\ down' = <<>>
  <2>1. panel = "listening" /\ down = <<>>
    BY DEF Call
  <2>2. calls' > 0
    BY <1>1, <1>2
  <2>3. Unheard'
    BY <1>3, <2>2 DEF ArqInv, QuietInv
  <2> QED
    BY <1>1, <2>1, <2>3 DEF Unheard
<1>5. Len(down') = 0 /\ DOMAIN down' = {} /\ DOMAIN up' = {}
  BY <1>4
<1>6. Shape'
  <2>1. w[1] \in {"FETCH_STATE", "COMMAND"}
    BY Kinds
  <2>2. waiting' = "REPLY" <=> frame'[1] = "FETCH_STATE"
    BY <1>1, <2>1
  <2> QED
    BY <1>4, <1>5, <2>2 DEF Shape
<1>7. Progress'
  <2>1. Elapsed' \in Nat
    BY <1>1, <1>2, ElapsedNatNext DEF ArqInv, TypeInv, ElapsedOK
  <2>2. callLosses' + Len(down') + attemptsLeft' + (IF sending' = "first" THEN 1 ELSE 0)
        >= LINK_RETRANSMITS + 1
    BY <1>1, <1>5, Times
  <2>3. Calling'
    BY <1>1, <1>5, <2>1, <2>2 DEF Calling
  <2> QED
    BY <1>3, <2>3 DEF Progress
<1> QED
  BY <1>1, <1>6, <1>7, StillGoing

\* A frame that is out moves from those still to come onto the wire.
LEMMA SentAbsorbs == ArqInv /\ ArqInv' /\ AbsorbInv /\ ControllerSent => AbsorbInv'
<1> SUFFICES ASSUME ArqInv, ArqInv', AbsorbInv, ControllerSent PROVE AbsorbInv'
  OBVIOUS
<1>1. /\ sending # "nothing" /\ sinceSent >= airtime[calls] /\ sending' = "nothing"
      /\ down' = On(down, frame, calls) /\ sinceSent' = 0
      /\ \/ sending = "first" /\ sinceStart' = 0 /\ attemptsLeft' = attemptsLeft
         \/ sending = "copy" /\ sinceStart' = sinceStart /\ attemptsLeft' = attemptsLeft - 1
      /\ UNCHANGED <<calls, frame, airtime, waiting, up>> /\ UNCHANGED panelVars /\ UNCHANGED ghostVars
  BY DEF ControllerSent, ArqInv, TypeInv, SendingType
<1>2. UNCHANGED <<panel, acting, attempt, sinceStep, dispatched>> /\ UNCHANGED <<disturbed, callLosses, received>>
  BY <1>1 DEF panelVars, ghostVars
<1>3. waiting # "nothing"
  BY <1>1 DEF ArqInv, TypeInv, SendingType
<1>4. CASE ~Going
  BY <1>2, <1>3, <1>4, StaysDisturbed DEF Going
<1>5. CASE Going
  <2>1. /\ calls \in 1 .. MaxCalls /\ calls > 0 /\ frame \in Frames /\ down \in Seq(Sent) /\ Len(down) \in Nat
        /\ attemptsLeft \in 0 .. LINK_RETRANSMITS /\ callLosses \in Nat /\ sinceStart \in Nat
        /\ DOMAIN down = 1 .. Len(down) /\ \A i \in DOMAIN down : down[i].age \in Nat
    BY <1>5, Underway
  <2>2. Shape /\ Progress
    BY <1>5 DEF AbsorbInv
  <2>3. /\ Len(down') = Len(down) + 1
        /\ \A i \in DOMAIN down' : (i \in DOMAIN down /\ down'[i] = down[i]) \/ (down'[i].what = frame /\ down'[i].age = 0)
    <3>1. [what |-> frame, call |-> calls, age |-> 0] \in Sent
      BY <2>1, Times DEF Sent
    <3>2. /\ down' \in Seq(Sent) /\ DOMAIN down' = 1 .. Len(down) + 1
          /\ \A i \in DOMAIN down' : (i \in DOMAIN down /\ down'[i] = down[i])
                                     \/ down'[i] = [what |-> frame, call |-> calls, age |-> 0]
      BY <1>1, <2>1, <3>1, Appended
    <3>3. Len(down') = Len(down) + 1
      BY <2>1, <3>2
    <3> QED
      BY <3>2, <3>3
  <2>4. Shape'
    <3>1. frame[1] # "LINK_ACK"
      BY <2>1, Kinds
    <3> QED
      BY <1>1, <1>2, <2>2, <2>3, <3>1 DEF Shape, IsFrame, IsReply
  <2>5. Elapsed \in Nat /\ Room \in Nat /\ Elapsed' \in Nat /\ (attemptsLeft > 0 => Elapsed <= Room)
    BY <1>1, <2>1, WithinRoom, ElapsedNatNext DEF ArqInv, TypeInv, ElapsedOK
  <2>6. Calling => Calling'
    <3> SUFFICES ASSUME Calling PROVE Calling'
      OBVIOUS
    <3>1. callLosses' + Len(down') + attemptsLeft' + (IF sending' = "first" THEN 1 ELSE 0)
          >= LINK_RETRANSMITS + 1
      BY <1>1, <1>2, <2>1, <2>3, Times DEF Calling
    <3>2. CASE sending = "first"
      <4>1. sinceStart' = 0
        BY <1>1, <3>2
      <4>2. \A i \in DOMAIN down' : down'[i].age \in Nat
        BY <2>1, <2>3
      <4>3. \A i \in DOMAIN down' : sinceStart' <= Room + down'[i].age
        BY <2>5, <4>1, <4>2
      <4>4. Room' = Room
        BY DEF Room
      <4> QED
        BY <2>5, <3>1, <4>1, <4>3, <4>4 DEF Calling
    <3>3. CASE sending = "copy"
      <4>1. attemptsLeft > 0 /\ sinceStart' = sinceStart /\ attemptsLeft' = attemptsLeft - 1
        BY <1>1, <3>3 DEF ArqInv, TypeInv, SendingType
      <4>2. sinceStart <= Elapsed /\ Elapsed <= Room
        BY <2>5, <4>1 DEF Calling
      <4>3. Elapsed' = Elapsed
        <5>1. (LINK_RETRANSMITS - (attemptsLeft - 1)) * (LINK_ACK_TIMEOUT_MS + airtime[calls]) = Elapsed
          BY <1>1, <2>1, <3>3, Retransmissions DEF ArqInv
        <5>2. Elapsed' = (LINK_RETRANSMITS - (attemptsLeft - 1)) * (LINK_ACK_TIMEOUT_MS + airtime[calls]) + 0 + 0
          BY <1>1, <4>1 DEF Elapsed
        <5> QED
          BY <2>5, <5>1, <5>2
      <4>4. \A i \in DOMAIN down' : sinceStart' <= Room + down'[i].age
        <5> SUFFICES ASSUME NEW i \in DOMAIN down' PROVE sinceStart <= Room + down'[i].age
          BY <4>1
        <5>1. CASE i \in DOMAIN down /\ down'[i] = down[i]
          BY <5>1 DEF Calling
        <5>2. CASE down'[i].age = 0
          BY <2>1, <2>5, <4>2, <5>2
        <5> QED
          BY <2>3, <5>1, <5>2
      <4>5. Room' = Room
        BY DEF Room
      <4> QED
        BY <3>1, <4>1, <4>2, <4>3, <4>4, <4>5 DEF Calling
    <3> QED
      BY <1>1, <3>2, <3>3
  <2>7. CASE dispatched[calls] = 0
    BY <1>1, <1>2, <1>3, <2>2, <2>4, <2>6, <2>7, StillGoing DEF Progress
  <2>8. CASE dispatched[calls] # 0
    <3>1. sending = "copy"
      BY <1>1, <2>8 DEF ArqInv, FirstInv
    <3>2. sinceStart' = sinceStart
      BY <1>1, <3>1
    <3>3. Progress'
      BY <1>1, <1>2, <2>2, <2>8, <3>2
         DEF Progress, Exhausted, Arrived, Acting, Sending, Answering, ReplyOnTheWay, IsReply, Room
    <3> QED
      BY <1>1, <1>3, <2>4, <3>3, StillGoing
  <2> QED
    BY <2>7, <2>8
<1> QED
  BY <1>4, <1>5

\* A copy begins when nothing is being sent, and is counted when it is out.
LEMMA RetransmitAbsorbs == ArqInv /\ AbsorbInv /\ ControllerRetransmit => AbsorbInv'
<1> SUFFICES ASSUME ArqInv, AbsorbInv, ControllerRetransmit PROVE AbsorbInv'
  OBVIOUS
<1>1. /\ waiting # "nothing" /\ sending = "nothing" /\ sending' = "copy"
      /\ UNCHANGED <<calls, frame, waiting, sinceStart, attemptsLeft, down, up>> /\ UNCHANGED panelVars
      /\ UNCHANGED ghostVars
  BY DEF ControllerRetransmit
<1>2. UNCHANGED <<panel, acting, attempt, sinceStep, dispatched>> /\ UNCHANGED <<disturbed, callLosses, received>>
  BY <1>1 DEF panelVars, ghostVars
<1>3. CASE ~Going
  BY <1>1, <1>2, <1>3, StaysDisturbed DEF Going
<1>4. CASE Going
  <2>1. Shape /\ Progress
    BY <1>4 DEF AbsorbInv
  <2>2. Shape'
    BY <1>1, <1>2, <2>1 DEF Shape, IsFrame, IsReply
  <2>3. Elapsed' = Elapsed
    <3>1. UNCHANGED <<calls, airtime, attemptsLeft>> /\ sinceSent' = 0 /\ sinceSent >= LINK_ACK_TIMEOUT_MS
      BY DEF ControllerRetransmit, MayRetransmit
    <3>2. sinceSent = LINK_ACK_TIMEOUT_MS
      BY <1>1, <3>1, Times DEF ArqInv, TypeInv, SendingType, ControllerType
    <3>3. PICK p : p = (LINK_RETRANSMITS - attemptsLeft) * (LINK_ACK_TIMEOUT_MS + airtime[calls])
      OBVIOUS
    <3>4. Elapsed = p + LINK_ACK_TIMEOUT_MS + 0 /\ Elapsed' = p + 0 + LINK_ACK_TIMEOUT_MS
      BY <1>1, <3>1, <3>2, <3>3 DEF Elapsed
    <3>5. p \in Int
      <4>1. calls \in 1 .. MaxCalls /\ attemptsLeft \in Int
        BY <1>4, Underway
      <4>2. airtime[calls] \in Nat
        BY <4>1, Airtime DEF ArqInv, TypeInv
      <4>3. LINK_RETRANSMITS - attemptsLeft \in Int /\ LINK_ACK_TIMEOUT_MS + airtime[calls] \in Int
        BY <4>1, <4>2, Times
      <4>4. \A m, n \in Int : m * n \in Int
        OBVIOUS
      <4> QED
        BY <3>3, <4>3, <4>4
    <3> QED
      BY <3>4, <3>5, Times
  <2>4. Calling => Calling'
    <3>1. Room' = Room
      BY DEF Room
    <3> QED
      BY <1>1, <1>2, <2>3, <3>1 DEF Calling
  <2>5. Progress'
    BY <1>1, <1>2, <2>1, <2>4
       DEF Progress, Exhausted, Arrived, Acting, Sending, Answering, ReplyOnTheWay, IsReply, Room
  <2> QED
    BY <1>1, <2>2, <2>5, StillGoing
<1> QED
  BY <1>3, <1>4

\* A reply on the way stays on the way, and one that is there stays there, unless it is the
\* oldest answer that leaves.
LEMMA RepliesStay ==
    ASSUME TypeInv, up # <<>>, up' = Tail(up)
    PROVE  /\ \A i \in DOMAIN up' : \E j \in DOMAIN up : up'[i] = up[j]
           /\ ReplyOnTheWay \in {0, 1} /\ ReplyOnTheWay' \in {0, 1}
           /\ ~IsReply(Head(up)) => ReplyOnTheWay' >= ReplyOnTheWay
           /\ ~IsReply(Head(up)) \/ Head(up).age <= MaxDelay => (Arrived => Arrived')
<1>1. up \in Seq(Answers) /\ Head(up) = up[1] /\ DOMAIN up = 1 .. Len(up) /\ Len(up) \in Nat
  BY Oldest, Element DEF TypeInv, WireType
<1>2. \A i \in DOMAIN up' : i + 1 \in DOMAIN up /\ up'[i] = up[i + 1]
  BY <1>1, Oldest
<1>3. \A j \in DOMAIN up : j # 1 => j - 1 \in DOMAIN up' /\ up'[j - 1] = up[j]
  BY <1>1
<1>4. ~IsReply(Head(up)) /\ (\E j \in DOMAIN up : IsReply(up[j])) => \E i \in DOMAIN up' : IsReply(up'[i])
  BY <1>1, <1>3
<1>5. \A i \in DOMAIN up' : \E j \in DOMAIN up : up'[i] = up[j]
  BY <1>2
<1>6. ReplyOnTheWay \in {0, 1} /\ ReplyOnTheWay' \in {0, 1}
  BY DEF ReplyOnTheWay
<1>7. ~IsReply(Head(up)) => ReplyOnTheWay' >= ReplyOnTheWay
  BY <1>4 DEF ReplyOnTheWay, IsReply
<1>8. ASSUME ~IsReply(Head(up)) \/ Head(up).age <= MaxDelay, Arrived PROVE Arrived'
  <2>1. PICK j \in DOMAIN up : IsReply(up[j]) /\ up[j].age > MaxDelay
    BY <1>8 DEF Arrived
  <2>2. Head(up).age \in Nat
    <3>1. Head(up) \in Answers
      BY <1>1, Oldest
    <3> QED
      BY <3>1 DEF Answers
  <2>3. j # 1
    BY <1>1, <1>8, <2>1, <2>2, Times
  <2>4. j - 1 \in DOMAIN up' /\ up'[j - 1] = up[j]
    BY <1>3, <2>3
  <2>5. \E i \in DOMAIN up' : IsReply(up'[i]) /\ up'[i].age > MaxDelay
    BY <2>1, <2>4
  <2> QED
    BY <2>5 DEF Arrived, IsReply
<1> QED
  BY <1>5, <1>6, <1>7, <1>8

\* An acknowledgement comes only after the panel has heard the call.
LEMMA AckAbsorbs == ArqInv /\ ArqInv' /\ AbsorbInv /\ ControllerReceiveAck => AbsorbInv'
<1> SUFFICES ASSUME ArqInv, ArqInv', AbsorbInv, ControllerReceiveAck PROVE AbsorbInv'
  OBVIOUS
<1>1. /\ waiting # "nothing" /\ up # <<>> /\ Head(up).what[1] = "LINK_ACK" /\ up' = Tail(up)
      /\ UNCHANGED <<calls, frame, sending, attemptsLeft, sinceSent, sinceStart, airtime>>
      /\ UNCHANGED <<down, panelVars, disturbed, losses, callLosses>>
      /\ \/ waiting' = "nothing" /\ received' = TRUE
         \/ UNCHANGED waiting
  BY DEF ControllerReceiveAck, Returns, Stays, Reading
<1>2. UNCHANGED <<panel, acting, attempt, sinceStep, dispatched>>
  BY <1>1 DEF panelVars
<1>3. CASE ~Going
  BY <1>1, <1>3, StaysDisturbed DEF Going
<1>4. CASE Going
  <2>1. Shape /\ Progress
    BY <1>4 DEF AbsorbInv
  <2>2. dispatched[calls] > 0
    BY <1>1, <1>4, Underway
  <2>3. CASE waiting' = "nothing" /\ received' = TRUE
    BY <2>3, NoLongerGoing DEF Ended
  <2>4. CASE UNCHANGED waiting
    <3>1. /\ \A i \in DOMAIN up' : \E j \in DOMAIN up : up'[i] = up[j]
          /\ ReplyOnTheWay \in {0, 1} /\ ReplyOnTheWay' \in {0, 1} /\ ReplyOnTheWay' >= ReplyOnTheWay
          /\ Arrived => Arrived'
      BY <1>1, RepliesStay DEF ArqInv, IsReply
    <3>2. Shape'
      BY <1>1, <1>2, <2>1, <2>4, <3>1 DEF Shape, IsReply, IsFrame
    <3>3. Answering => Answering'
      <4> SUFFICES ASSUME Answering PROVE Answering'
        OBVIOUS
      <4>1. callLosses' + ReplyOnTheWay' >= attempt' + 1
        BY <1>1, <1>2, <1>4, <3>1, Underway DEF Answering
      <4>2. \A i \in DOMAIN up' : IsReply(up'[i]) => up'[i].age >= sinceStep'
        BY <1>2, <3>1 DEF Answering
      <4> QED
        BY <1>1, <1>2, <2>4, <4>1, <4>2 DEF Answering, IsReply, Room
    <3>4. Progress'
      BY <1>1, <1>2, <2>1, <2>2, <2>4, <3>1, <3>3 DEF Progress, Exhausted, Acting, Sending, Room
    <3> QED
      BY <1>1, <2>4, <3>2, <3>4, StillGoing
  <2> QED
    BY <1>1, <2>3, <2>4
<1> QED
  BY <1>3, <1>4

\* A reply on the way up is the one that is waited for.
LEMMA ReplyAbsorbs == ArqInv /\ ArqInv' /\ AbsorbInv /\ ControllerReceiveReply => AbsorbInv'
<1> SUFFICES ASSUME ArqInv, ArqInv', AbsorbInv, ControllerReceiveReply PROVE AbsorbInv'
  OBVIOUS
<1>1. /\ waiting # "nothing" /\ up # <<>> /\ IsReply(Head(up)) /\ up' = Tail(up)
      /\ UNCHANGED <<calls, frame>>
      /\ UNCHANGED <<panelVars, disturbed, losses, callLosses>>
      /\ waiting = "REPLY" => waiting' = "nothing" /\ received' = (Head(up).what = Reply(frame[2]))
      /\ waiting # "REPLY" => waiting' = waiting
  BY DEF ControllerReceiveReply, Returns, Stays, IsReply, Reading
<1>2. UNCHANGED <<panel, acting, attempt, sinceStep, dispatched>>
  BY <1>1 DEF panelVars
<1>3. CASE ~Going
  BY <1>1, <1>3, StaysDisturbed DEF Going
<1>4. CASE Going
  <2>1. Shape /\ Progress
    BY <1>4 DEF AbsorbInv
  <2>2. dispatched[calls] > 0
    BY <1>1, <1>4, Underway
  <2>3. CASE waiting = "REPLY"
    <3>1. Head(up) = up[1] /\ 1 \in DOMAIN up
      BY <1>1, UpTail DEF ArqInv
    <3>2. Head(up).what = Reply(frame[2])
      BY <1>1, <2>1, <3>1 DEF Shape
    <3> QED
      BY <1>1, <2>3, <3>2, NoLongerGoing DEF Ended
  <2>4. CASE waiting # "REPLY"
    <3>1. \A i \in DOMAIN up' : \E j \in DOMAIN up : up'[i] = up[j]
      BY <1>1, RepliesStay DEF ArqInv
    <3>2. dispatched'[calls'] > 0 /\ dispatched'[calls'] # 0
      BY <1>1, <1>2, <1>4, <2>2, <2>4, Underway
    <3>3. Shape'
      BY <1>1, <1>2, <2>1, <2>4, <3>1, <3>2 DEF Shape, IsReply, IsFrame
    <3>4. Progress'
      BY <1>1, <2>4, <3>2 DEF Progress
    <3> QED
      BY <1>1, <2>4, <3>3, <3>4, StillGoing
  <2> QED
    BY <2>3, <2>4
<1> QED
  BY <1>3, <1>4

\* A wait that has run out finds every transmission of the request, or of the reply, lost,
\* or the last copies of a command still on the wire.
LEMMA TimeoutAbsorbs == Patient /\ ArqInv /\ AbsorbInv /\ ControllerTimeout => AbsorbInv'
<1> SUFFICES ASSUME Patient, ArqInv, AbsorbInv, ControllerTimeout PROVE AbsorbInv'
  OBVIOUS
<1>1. /\ waiting # "nothing" /\ sending = "nothing" /\ sinceStart >= Limit
      /\ \A i \in DOMAIN up : up[i].age <= MaxDelay
      /\ waiting' = "nothing" /\ received' = FALSE /\ UNCHANGED <<calls, frame, down, dispatched>>
      /\ UNCHANGED <<disturbed, losses, callLosses>>
  BY DEF ControllerTimeout, Returns, panelVars
<1>2. CASE ~Going
  BY <1>1, <1>2, StaysDisturbed DEF Going
<1>3. CASE Going
  <2> DEFINE T == LINK_ACK_TIMEOUT_MS
             R == LINK_RETRANSMITS
             d == T + FrameTime
  <2>1. Shape /\ Progress
    BY <1>3 DEF AbsorbInv
  <2>2. /\ callLosses \in Nat /\ sinceStart \in Nat /\ sinceStep \in Nat /\ attempt \in Nat
        /\ waiting \in {"LINK_ACK", "REPLY"} /\ dispatched[calls] \in Nat
        /\ down \in Seq(Sent) /\ Len(down) \in Nat /\ attemptsLeft \in 0 .. R
        /\ DOMAIN down = 1 .. Len(down) /\ calls > 0 /\ calls \in 1 .. MaxCalls
        /\ \A i \in DOMAIN down : down[i].age \in Nat /\ down[i].age <= MaxDelay
        /\ \A i \in DOMAIN up : up[i].age \in Nat
    BY <1>3, Underway
  <2>3. Room \in Nat /\ T \in Nat /\ R \in Nat /\ FrameTime \in Nat /\ MaxDelay \in Nat
        /\ MaxDelay < T
    BY Times, TimesAssumption, Spans
  <2>4. CASE waiting = "LINK_ACK"
    <3> SUFFICES ASSUME dispatched[calls] = 0, ~Exhausted PROVE Travels
      <4>1. frame[1] = "COMMAND"
        <5>1. frame[1] # "FETCH_STATE" /\ frame \in Frames
          BY <1>3, <2>1, <2>4, Underway DEF Shape
        <5> QED
          BY <5>1, Kinds
      <4>2. Exhausted \/ dispatched[calls] > 0 \/ Travels
        BY <2>2
      <4>3. Exhausted' = Exhausted /\ Travels' = Travels
        BY <1>1 DEF Exhausted, Travels
      <4>4. Ended'
        BY <1>1, <2>2, <4>1, <4>2, <4>3 DEF Ended
      <4> QED
        BY <1>1, <4>4, NoLongerGoing
    <3>1. Calling
      BY <2>1 DEF Progress
    <3>2. attemptsLeft = 0
      <4> SUFFICES ASSUME attemptsLeft > 0 PROVE FALSE
        BY <2>2
      <4>1. sinceStart <= Elapsed
        BY <3>1 DEF Calling
      <4>2. sinceStart >= (R + 1) * T + 2
        BY <1>1, <2>4 DEF Limit
      <4>3. sinceSent \in Nat /\ sinceSent <= T
        BY <1>1 DEF ArqInv, TypeInv, SendingType, ControllerType
      <4>4. PICK a \in Nat : a = airtime[calls] /\ a <= FrameTime
        BY <2>2, Airtime DEF ArqInv, TypeInv
      <4>5. Elapsed = (R - attemptsLeft) * (T + a) + sinceSent
        <5>1. sending # "copy"
          BY <1>1
        <5>2. PICK p : p = (R - attemptsLeft) * (T + a)
          OBVIOUS
        <5>3. p \in Int
          <6>1. \A m, n \in Int : m * n \in Int
            OBVIOUS
          <6> QED
            BY <2>2, <2>3, <4>4, <5>2, <6>1
        <5>4. Elapsed = p + sinceSent + 0
          BY <4>4, <5>1, <5>2 DEF Elapsed
        <5> HIDE DEF T, R
        <5> QED
          BY <4>3, <5>2, <5>3, <5>4
      <4>6. R - attemptsLeft \in Nat /\ R - 1 \in Nat /\ R - attemptsLeft <= R - 1
        BY <2>2, <2>3
      <4>7. (R - attemptsLeft) * (T + a) <= (R - 1) * (T + FrameTime)
        <5> HIDE DEF T, R
        <5>1. T + a \in Nat /\ T + FrameTime \in Nat /\ T + a <= T + FrameTime
          BY <2>3, <4>4
        <5> QED
          BY <4>6, <5>1, Products
      <4>8. PICK p \in Nat : p = (R - attemptsLeft) * (T + a)
        <5> HIDE DEF T, R
        <5>1. T + a \in Nat /\ \A m, n \in Nat : m * n \in Nat
          BY <2>3, <4>4
        <5> QED
          BY <4>6, <5>1
      <4>9. PICK u \in Int, v \in Int : u = R * T /\ v = R * FrameTime
        <5> HIDE DEF T, R
        <5>1. \A m, n \in Int : m * n \in Int
          OBVIOUS
        <5> QED
          BY <2>3, <5>1
      <4>10. (R + 1) * T = u + T /\ (R - 1) * (T + FrameTime) = u + v - T - FrameTime
        <5> HIDE DEF T, R
        <5> QED
          BY <2>3, <4>9
      <4>11. v < T + 2 + FrameTime
        BY <4>9 DEF Patient
      <4> HIDE DEF T, R
      <4>12. Elapsed <= u + v - T - FrameTime + T
        BY <2>3, <4>3, <4>5, <4>7, <4>8, <4>9, <4>10
      <4>13. sinceStart >= u + T + 2
        BY <4>2, <4>10
      <4> QED
        BY <2>2, <2>3, <4>1, <4>3, <4>5, <4>8, <4>9, <4>11, <4>12, <4>13
    <3>3. callLosses + Len(down) >= R + 1
      BY <1>1, <2>2, <3>1, <3>2 DEF Calling
    <3>4. \A i \in DOMAIN down : down[i].what = frame
      <4>1. \A i \in DOMAIN down : IsFrame(down[i]) /\ down[i].call = calls
        BY <1>3, <2>1, Underway DEF Shape, Alone
      <4> QED
        BY <4>1 DEF ArqInv, WireInv
    <3> QED
      BY <3>3, <3>4 DEF Travels
  <2>5. CASE waiting = "REPLY"
    <3> SUFFICES Exhausted
      <4>1. Exhausted' = Exhausted
        BY <1>1 DEF Exhausted
      <4> QED
        BY <1>1, <4>1, NoLongerGoing DEF Ended
    <3>1. sinceStart > 2 * Room + FrameTime + 2 * MaxDelay + MaxActing
      BY <1>1, <2>2, <2>3, <2>5, Times DEF Limit, Patient
    <3>2. CASE dispatched[calls] = 0
      <4>1. Calling
        BY <2>1, <3>2 DEF Progress
      <4>2. attemptsLeft = 0
        <5>1. attemptsLeft > 0 => Elapsed \in Nat /\ Elapsed <= Room
          BY <2>2, WithinRoom DEF ArqInv
        <5>2. attemptsLeft > 0 => sinceStart <= Elapsed
          BY <4>1 DEF Calling
        <5> QED
          BY <2>2, <2>3, <3>1, <5>1, <5>2, Times
      <4>3. Len(down) = 0
        <5>1. \A i \in DOMAIN down : sinceStart <= Room + down[i].age
          BY <4>1 DEF Calling
        <5>2. ASSUME NEW i \in DOMAIN down PROVE FALSE
          <6>1. down[i].age \in Nat /\ down[i].age <= MaxDelay /\ sinceStart <= Room + down[i].age
            BY <2>2, <5>1
          <6> QED
            BY <2>2, <2>3, <3>1, <6>1, Times
        <5>3. DOMAIN down = {}
          BY <5>2
        <5> QED
          BY <2>2, <5>3
      <4> QED
        BY <1>1, <2>2, <4>1, <4>2, <4>3, Times DEF Calling, Exhausted
    <3>3. CASE dispatched[calls] > 0
      <4>1. Exhausted \/ Arrived \/ Acting \/ Sending \/ Answering
        BY <2>1, <2>5, <3>3 DEF Progress
      <4>2. ~Arrived
        <5> SUFFICES ASSUME NEW i \in DOMAIN up, up[i].age > MaxDelay PROVE FALSE
          BY DEF Arrived
        <5> QED
          BY <1>1, <2>2, <2>3
      <4>3. ~Acting
        BY <2>2, <2>3, <3>1, Times DEF Acting
      <4>4. PICK k \in Nat : /\ k = attempt * d
                             /\ attempt = R => k = Room
                             /\ attempt < R => k + d <= Room
        BY <2>2, Spans
      <4>5. attempt <= R => k <= Room
        BY <2>2, <2>3, <4>4
      <4>6. ~Sending
        <5>1. Sending => /\ sinceStart <= Room + MaxDelay + MaxActing + k + sinceStep
                         /\ sinceStep <= FrameTime /\ attempt <= R
          BY <4>4 DEF Sending
        <5> HIDE DEF T, R, d
        <5> QED
          BY <2>2, <2>3, <3>1, <4>5, <5>1, Times
      <4>7. ASSUME Answering PROVE Exhausted
        <5>1. /\ attempt <= R /\ sinceStep <= T
              /\ sinceStart <= Room + MaxDelay + MaxActing + k + FrameTime + sinceStep
              /\ callLosses + ReplyOnTheWay >= attempt + 1
              /\ \A i \in DOMAIN up : IsReply(up[i]) => up[i].age >= sinceStep
          BY <4>4, <4>7 DEF Answering
        <5>0. /\ sinceStep <= T /\ sinceStart <= Room + MaxDelay + MaxActing + k + FrameTime + sinceStep
              /\ sinceStep \in Nat /\ sinceStart \in Nat /\ MaxActing \in Nat /\ k \in Nat
          BY <2>2, <5>1, Times
        <5>2. attempt = R
          <6> SUFFICES ASSUME attempt < R PROVE FALSE
            BY <2>2, <2>3, <5>1
          <6>1. k + T + FrameTime <= Room
            BY <4>4, <2>3
          <6> HIDE DEF T, R, d
          <6> QED
            BY <2>3, <3>1, <5>0, <6>1
        <5>3. sinceStep > MaxDelay
          <6>1. k = Room
            BY <4>4, <5>2
          <6> HIDE DEF T, R, d
          <6> QED
            BY <2>3, <3>1, <5>0, <6>1
        <5>4. ReplyOnTheWay = 0
          <6>1. ASSUME NEW i \in DOMAIN up, IsReply(up[i]) PROVE FALSE
            <7>1. up[i].age \in Nat /\ up[i].age <= MaxDelay /\ up[i].age >= sinceStep
              BY <1>1, <2>2, <5>1, <6>1
            <7> QED
              BY <2>2, <2>3, <5>3, <7>1
          <6> QED
            BY <6>1 DEF ReplyOnTheWay
        <5> QED
          BY <2>2, <2>3, <5>1, <5>2, <5>4 DEF Exhausted
      <4> QED
        BY <4>1, <4>2, <4>3, <4>6, <4>7
    <3> QED
      BY <2>2, <3>2, <3>3
  <2> QED
    BY <2>2, <2>4, <2>5
<1> QED
  BY <1>2, <1>3

\* What joins the way up leaves what was there before.
LEMMA Joins ==
    ASSUME up \in Seq(Answers), NEW r \in Replies \cup Acks, NEW n \in 1 .. MaxCalls, up' = On(up, r, n)
    PROVE  /\ \A i \in DOMAIN up' : \/ i \in DOMAIN up /\ up'[i] = up[i]
                                    \/ up'[i].what = r /\ up'[i].age = 0
           /\ r \in Replies => ReplyOnTheWay' = 1
           /\ r \in Acks => ReplyOnTheWay' = ReplyOnTheWay
           /\ Arrived => Arrived'
           /\ up' # <<>>
<1>1. [what |-> r, call |-> n, age |-> 0] \in Answers
  BY DEF Answers
<1>2. /\ \A i \in DOMAIN up' : \/ i \in DOMAIN up /\ up'[i] = up[i]
                               \/ up'[i] = [what |-> r, call |-> n, age |-> 0]
      /\ Len(up) + 1 \in DOMAIN up' /\ up'[Len(up) + 1] = [what |-> r, call |-> n, age |-> 0]
      /\ \A i \in DOMAIN up : i \in DOMAIN up' /\ up'[i] = up[i]
  BY <1>1, Appended
<1>3. r \in Replies => ReplyOnTheWay' = 1
  <2>1. r \in Replies => \E i \in DOMAIN up' : up'[i].what[1] = "FETCH_STATE_REPLY"
    BY <1>2, Kinds
  <2> QED
    BY <2>1 DEF ReplyOnTheWay, IsReply
<1>4. r \in Acks => ReplyOnTheWay' = ReplyOnTheWay
  <2>1. r \in Acks => ((\E i \in DOMAIN up' : up'[i].what[1] = "FETCH_STATE_REPLY")
                       <=> (\E i \in DOMAIN up : up[i].what[1] = "FETCH_STATE_REPLY"))
    BY <1>2, Kinds
  <2> QED
    BY <2>1 DEF ReplyOnTheWay, IsReply
<1>5. Arrived => Arrived'
  BY <1>2 DEF Arrived, IsReply
<1>6. up' # <<>>
  BY <1>2
<1> QED
  BY <1>2, <1>3, <1>4, <1>5, <1>6

\* What the panel notes and acts on is this call's frame.
LEMMA HearAbsorbs == ArqInv /\ ArqInv' /\ AbsorbInv /\ PanelReceive => AbsorbInv'
<1> SUFFICES ASSUME ArqInv, ArqInv', AbsorbInv, PanelReceive PROVE AbsorbInv'
  OBVIOUS
<1>1. PICK w, n : w = Head(down).what /\ n = Head(down).call
  OBVIOUS
<1>2. /\ down # <<>> /\ down' = Tail(down) /\ panel = "listening" /\ UNCHANGED <<controllerVars, ghostVars>>
      /\ n \in 1 .. MaxCalls
      /\ \/ /\ w \in Acks /\ UNCHANGED <<up, panelVars>>
         \/ /\ w \in Frames /\ up' = On(up, Ack(w), n) /\ UNCHANGED <<attempt, lag>>
            /\ \/ UNCHANGED <<panel, acting, sinceStep, dispatched>>
               \/ /\ panel' = "acting" /\ sinceStep' = 0 /\ acting' = [what |-> w, call |-> n]
                  /\ dispatched' = [dispatched EXCEPT ![n] = @ + 1]
  BY <1>1, Hears DEF ArqInv
<1>3. /\ UNCHANGED <<calls, frame, airtime, waiting, sending, attemptsLeft, sinceSent, sinceStart>>
      /\ UNCHANGED <<disturbed, callLosses, received>>
  BY <1>2 DEF controllerVars, ghostVars
<1>4. CASE disturbed
  BY <1>3, <1>4, StaysDisturbed
<1>5. ASSUME calls > 0, ~disturbed, w \in Frames, up' = On(up, Ack(w), n)
      PROVE  dispatched'[calls] > 0 /\ dispatched'[calls] # 0
  <2>1. up \in Seq(Answers) /\ Ack(w) \in Acks
    BY <1>5, Quiet, Kinds
  <2>2. up' # <<>>
    BY <1>2, <1>5, <2>1, Joins
  <2>3. dispatched'[calls] \in Nat
    <3>1. calls \in 1 .. MaxCalls
      BY <1>5, Quiet
    <3> QED
      BY <1>3, <3>1 DEF ArqInv, TypeInv, PanelType
  <2>4. dispatched'[calls'] = 0 => Unheard'
    BY <1>3, <1>5 DEF ArqInv, QuietInv
  <2> QED
    BY <1>3, <2>2, <2>3, <2>4 DEF Unheard
<1>6. CASE waiting = "nothing" /\ ~disturbed
  <2>1. calls > 0 /\ dispatched[calls] > 0 => dispatched'[calls] > 0
    <3>1. CASE UNCHANGED panelVars
      BY <3>1 DEF panelVars
    <3>2. CASE w \in Frames /\ up' = On(up, Ack(w), n)
      BY <1>5, <1>6, <3>2
    <3> QED
      BY <1>2, <3>1, <3>2
  <2>2. calls > 0 /\ frame[1] = "COMMAND" /\ Travels => dispatched'[calls] > 0
    <3> SUFFICES ASSUME calls > 0, frame[1] = "COMMAND", Travels PROVE dispatched'[calls] > 0
      OBVIOUS
    <3>1. w = frame
      <4>1. down \in Seq(Sent)
        BY <1>6, Quiet
      <4>2. 1 \in DOMAIN down /\ Head(down) = down[1]
        BY <1>2, <4>1, Oldest
      <4> QED
        BY <1>1, <4>2 DEF Travels
    <3>2. w \notin Acks
      BY <3>1, Kinds
    <3> QED
      BY <1>2, <1>5, <1>6, <3>2
  <2>3. callLosses \in Nat
    BY DEF ArqInv, TypeInv, GhostType
  <2> QED
    BY <1>3, <1>6, <2>1, <2>2, <2>3, StaysOver
<1>7. CASE Going
  <2>1. Shape /\ Progress
    BY <1>7 DEF AbsorbInv
  <2>2. /\ calls \in 1 .. MaxCalls /\ calls > 0 /\ frame \in Frames /\ Alone /\ dispatched[calls] \in Nat
        /\ callLosses \in Nat /\ sinceStart \in Nat /\ down \in Seq(Sent) /\ up \in Seq(Answers)
        /\ \A i \in DOMAIN down : down[i].age \in Nat /\ down[i].age <= MaxDelay
    BY <1>7, Underway
  <2>3. /\ 1 \in DOMAIN down /\ down[1] = Head(down) /\ n = calls
        /\ \A i \in DOMAIN down' : \E j \in DOMAIN down : down'[i] = down[j]
    <3>1. 1 \in DOMAIN down /\ down[1] = Head(down) /\ \A i \in DOMAIN down' : i + 1 \in DOMAIN down /\ down'[i] = down[i + 1]
      BY <1>2, <2>2, Oldest
    <3> QED
      BY <1>1, <2>2, <3>1 DEF Alone
  <2>4. CASE w \in Acks /\ UNCHANGED <<up, panelVars>>
    <3>1. ~IsFrame(down[1])
      BY <1>1, <2>3, <2>4, Kinds DEF IsFrame
    <3>2. waiting # "REPLY" /\ dispatched[calls] # 0
      BY <2>1, <2>3, <3>1 DEF Shape
    <3>3. UNCHANGED <<panel, acting, dispatched>>
      BY <2>4 DEF panelVars
    <3>4. Shape'
      BY <1>3, <2>1, <2>4, <3>2, <3>3 DEF Shape, IsReply, IsFrame
    <3>5. Progress'
      BY <1>3, <3>2, <3>3 DEF Progress
    <3> QED
      BY <1>3, <1>7, <3>4, <3>5, StillGoing DEF Going
  <2>5. CASE w \in Frames /\ up' = On(up, Ack(w), n)
    <3>1. w = frame
      <4>1. IsFrame(down[1])
        BY <1>1, <2>3, <2>5, Kinds DEF IsFrame
      <4> QED
        BY <1>1, <2>3, <4>1 DEF ArqInv, WireInv
    <3>2. /\ \A i \in DOMAIN up' : (\E j \in DOMAIN up : up'[i] = up[j]) \/ ~IsReply(up'[i])
          /\ Arrived => Arrived'
      <4>1. Ack(w) \in Acks /\ Ack(w)[1] = "LINK_ACK"
        BY <2>5, Kinds DEF Ack
      <4>2. /\ \A i \in DOMAIN up' : \/ i \in DOMAIN up /\ up'[i] = up[i]
                                     \/ up'[i].what = Ack(w) /\ up'[i].age = 0
            /\ Arrived => Arrived'
        BY <1>2, <2>2, <2>5, <4>1, Joins
      <4> QED
        BY <4>1, <4>2 DEF IsReply
    <3>4. dispatched'[calls] > 0 /\ dispatched'[calls] # 0
      BY <1>5, <1>7, <2>2, <2>5 DEF Going
    <3>5. waiting = "REPLY" => \A i \in DOMAIN down' : IsFrame(down'[i])
      BY <2>1, <2>3 DEF Shape
    <3>8. dispatched[calls] # 0 /\ waiting = "REPLY" => Exhausted \/ Arrived
      BY <1>2, <2>1, <2>2 DEF Progress, Acting, Sending, Answering
    <3>6. CASE UNCHANGED <<panel, acting, sinceStep, dispatched>>
      <4>1. Shape'
        BY <1>3, <2>1, <3>2, <3>4, <3>5, <3>6 DEF Shape, IsReply, IsFrame
      <4>2. Progress'
        BY <1>3, <3>2, <3>4, <3>6, <3>8 DEF Progress, Exhausted
      <4> QED
        BY <1>3, <1>7, <4>1, <4>2, StillGoing DEF Going
    <3>7. CASE panel' = "acting" /\ sinceStep' = 0 /\ acting' = [what |-> w, call |-> n]
      <4>1. acting'.what = frame
        BY <3>1, <3>7
      <4>2. Shape'
        BY <1>3, <2>1, <3>2, <3>4, <3>5, <3>7, <4>1 DEF Shape, IsReply, IsFrame
      <4>3. dispatched[calls] = 0 => Acting'
        <5> SUFFICES ASSUME dispatched[calls] = 0 PROVE Acting'
          OBVIOUS
        <5>1. sinceStart <= Room + down[1].age
          BY <2>1, <2>3 DEF Progress, Calling
        <5>2. down[1].age \in Nat /\ down[1].age <= MaxDelay /\ Room \in Nat
          BY <2>2, <2>3, Spans, Times
        <5>3. sinceStart <= Room + MaxDelay + 0
          BY <2>2, <5>1, <5>2, Times
        <5> QED
          BY <1>3, <3>7, <5>3, Times DEF Acting, Room
      <4>5. Progress'
        BY <1>3, <3>2, <3>4, <3>8, <4>3 DEF Progress, Exhausted
      <4> QED
        BY <1>3, <1>7, <4>2, <4>5, StillGoing DEF Going
    <3> QED
      BY <1>2, <2>5, <3>6, <3>7, Kinds
  <2>6. w \in Frames => w \notin Acks
    BY Kinds
  <2> QED
    BY <1>2, <2>4, <2>5, <2>6
<1> QED
  BY <1>4, <1>6, <1>7 DEF Going

\* What the panel does not listen to, it loses: but then it has heard the call.
LEMMA MissAbsorbs == ArqInv /\ AbsorbInv /\ (PanelMisses \/ WindowReceive) => AbsorbInv'
<1> SUFFICES ASSUME ArqInv, AbsorbInv, PanelMisses \/ WindowReceive PROVE AbsorbInv'
  OBVIOUS
<1>1. /\ panel # "listening" /\ down # <<>> /\ down' = Tail(down)
      /\ UNCHANGED <<controllerVars, ghostVars>> /\ UNCHANGED <<up, acting, attempt, sinceStep, dispatched>>
      /\ panel' # panel => panel' = "listening" /\ Head(down).what = Ack(acting.what)
  BY DEF PanelMisses, WindowReceive, panelVars
<1>2. /\ UNCHANGED <<calls, frame, waiting, attemptsLeft, sinceSent, sinceStart>>
      /\ UNCHANGED <<disturbed, callLosses, received>>
  BY <1>1 DEF controllerVars, ghostVars
<1>3. CASE disturbed
  BY <1>2, <1>3, StaysDisturbed
<1>4. CASE waiting = "nothing" /\ ~disturbed
  <2>1. calls > 0 => dispatched[calls] # 0
    BY <1>1, <1>4, Quiet
  <2>2. callLosses \in Nat
    BY DEF ArqInv, TypeInv, GhostType
  <2> QED
    BY <1>1, <1>2, <1>4, <2>1, <2>2, StaysOver
<1>5. CASE Going
  <2>1. Shape /\ Progress
    BY <1>5 DEF AbsorbInv
  <2>2. dispatched[calls] > 0 /\ dispatched[calls] # 0 /\ down \in Seq(Sent)
    BY <1>1, <1>5, Underway
  <2>3. /\ 1 \in DOMAIN down /\ down[1] = Head(down)
        /\ \A i \in DOMAIN down' : \E j \in DOMAIN down : down'[i] = down[j]
    <3>1. 1 \in DOMAIN down /\ down[1] = Head(down) /\ \A i \in DOMAIN down' : i + 1 \in DOMAIN down /\ down'[i] = down[i + 1]
      BY <1>1, <2>2, Oldest
    <3> QED
      BY <3>1
  <2>4. waiting = "REPLY" => panel' = panel
    <3>1. waiting = "REPLY" => IsFrame(down[1])
      BY <2>1, <2>3 DEF Shape
    <3>2. Head(down).what = Ack(acting.what) => ~IsFrame(down[1])
      BY <2>3 DEF IsFrame, Ack
    <3> QED
      BY <1>1, <3>1, <3>2
  <2>5. Shape'
    <3>1. waiting = "REPLY" => \A i \in DOMAIN down' : IsFrame(down'[i])
      BY <2>1, <2>3 DEF Shape
    <3> QED
      BY <1>1, <1>2, <2>1, <2>2, <3>1 DEF Shape, IsFrame, IsReply
  <2>6. Progress'
    BY <1>1, <1>2, <2>1, <2>2, <2>4
       DEF Progress, Exhausted, Arrived, Acting, Sending, Answering, ReplyOnTheWay, IsReply, Room
  <2> QED
    BY <1>2, <1>5, <2>5, <2>6, StillGoing DEF Going
<1> QED
  BY <1>3, <1>4, <1>5 DEF Going

\* The clock the panel works with does not matter to the call's progress.
LEMMA TickedAbsorbs == ArqInv /\ AbsorbInv /\ PanelTick => AbsorbInv'
<1> SUFFICES ASSUME ArqInv, AbsorbInv, PanelTick PROVE AbsorbInv'
  OBVIOUS
<1>1. /\ UNCHANGED <<controllerVars, ghostVars>>
      /\ UNCHANGED <<down, up, panel, acting, attempt, sinceStep, dispatched>>
  BY DEF PanelTick
<1>2. /\ UNCHANGED <<calls, frame, airtime, waiting, sending, attemptsLeft, sinceSent, sinceStart>>
      /\ UNCHANGED <<disturbed, callLosses, received>>
  BY <1>1 DEF controllerVars, ghostVars
<1>3. CASE ~Going
  BY <1>1, <1>2, <1>3, StaysStill
<1>4. CASE Going
  <2>1. Shape /\ Progress
    BY <1>4 DEF AbsorbInv
  <2>2. Shape'
    BY <1>1, <1>2, <2>1 DEF Shape, IsFrame, IsReply
  <2>3. Progress'
    BY <1>1, <1>2, <2>1
       DEF Progress, Exhausted, Calling, Elapsed, Arrived, Acting, Sending, Answering, ReplyOnTheWay, IsReply, Room
  <2> QED
    BY <1>2, <1>4, <2>2, <2>3, StillGoing DEF Going
<1> QED
  BY <1>3, <1>4

\* The panel has acted: its reply is to be sent for the first time, or the call was a
\* command.
LEMMA ActedAbsorbs == ArqInv /\ AbsorbInv /\ PanelActed => AbsorbInv'
<1> SUFFICES ASSUME ArqInv, AbsorbInv, PanelActed PROVE AbsorbInv'
  OBVIOUS
<1>1. /\ panel = "acting" /\ UNCHANGED <<controllerVars, ghostVars>> /\ UNCHANGED <<down, up, dispatched>>
      /\ acting.what \in Frames /\ acting.call \in 1 .. MaxCalls
      /\ acting \in [what : Frames \cup Replies \cup {Nothing}, call : 0 .. MaxCalls]
  BY DEF PanelActed, ArqInv, TypeInv, PanelType
<1>2. /\ UNCHANGED <<calls, frame, waiting, attemptsLeft, sinceSent, sinceStart>>
      /\ UNCHANGED <<disturbed, callLosses, received>>
  BY <1>1 DEF controllerVars, ghostVars
<1>3. CASE ~Going
  BY <1>1, <1>2, <1>3, StaysStill
<1>4. CASE Going
  <2>1. Shape /\ Progress
    BY <1>4 DEF AbsorbInv
  <2>2. /\ dispatched[calls] > 0 /\ dispatched[calls] # 0 /\ callLosses \in Nat /\ sinceStart \in Nat
        /\ sinceStep \in Nat /\ up \in Seq(Answers)
    BY <1>1, <1>4, Underway
  <2>3. dispatched'[calls'] > 0 /\ dispatched'[calls'] # 0 /\ waiting' = waiting
    BY <1>1, <1>2, <2>2
  <2>4. acting.what = frame /\ (waiting = "REPLY" <=> frame[1] = "FETCH_STATE")
    BY <1>1, <2>1 DEF Shape
  <2>5. CASE frame[1] = "FETCH_STATE"
    <3>1. PICK r : r = Reply(frame[2])
      OBVIOUS
    <3>2. acting' = [acting EXCEPT !.what = r] /\ panel' = "sending" /\ attempt' = 0 /\ sinceStep' = 0
      BY <2>4, <2>5, <3>1 DEF PanelActed
    <3>3. acting'.what = r
      BY <1>1, <3>2
    <3>4. Shape'
      BY <1>1, <1>2, <2>1, <2>3, <3>1, <3>2, <3>3 DEF Shape, IsFrame, IsReply
    <3>5. Acting => Sending'
      <4> SUFFICES ASSUME Acting PROVE Sending'
        OBVIOUS
      <4>1. attempt' * (LINK_ACK_TIMEOUT_MS + FrameTime) = 0 /\ Room \in Nat /\ Room' = Room
        BY <3>2, Times, Spans DEF Room
      <4>2. sinceStart <= Room + MaxDelay + MaxActing
        BY <2>2, <4>1, Times DEF Acting
      <4>3. sinceStart' <= Room' + MaxDelay + MaxActing + attempt' * (LINK_ACK_TIMEOUT_MS + FrameTime) + sinceStep'
        BY SMTT(30), <1>2, <2>2, <3>2, <4>1, <4>2, Times
      <4> QED
        BY <1>2, <2>2, <3>2, <4>3, Times DEF Sending
    <3>6. Progress'
      BY <1>1, <1>2, <2>1, <2>2, <2>3, <3>5
         DEF Progress, Exhausted, Arrived, Sending, Answering, IsReply
    <3> QED
      BY <1>4, <2>3, <3>4, <3>6, StillGoing DEF Going
  <2>6. CASE frame[1] # "FETCH_STATE"
    <3>1. panel' = "listening"
      BY <2>4, <2>6 DEF PanelActed
    <3>2. Shape'
      BY <1>1, <1>2, <2>1, <2>3, <3>1 DEF Shape, IsFrame, IsReply
    <3>3. Progress'
      BY <2>3, <2>4, <2>6 DEF Progress
    <3> QED
      BY <1>4, <2>3, <3>2, <3>3, StillGoing DEF Going
  <2> QED
    BY <2>5, <2>6
<1> QED
  BY <1>3, <1>4

\* The reply is out, and on the way.
LEMMA PanelSentAbsorbs == ArqInv /\ ArqInv' /\ AbsorbInv /\ PanelSent => AbsorbInv'
<1> SUFFICES ASSUME ArqInv, ArqInv', AbsorbInv, PanelSent PROVE AbsorbInv'
  OBVIOUS
<1>1. /\ panel = "sending" /\ panel' = "window" /\ sinceStep' = 0 /\ sinceStep <= FrameTime
      /\ up' = On(up, acting.what, acting.call)
      /\ UNCHANGED <<controllerVars, ghostVars>> /\ UNCHANGED <<down, acting, attempt, dispatched>>
      /\ acting.what \in Replies /\ acting.call \in 1 .. MaxCalls
  BY Times DEF PanelSent, ArqInv, TypeInv, PanelType
<1>2. /\ UNCHANGED <<calls, frame, waiting, attemptsLeft, sinceSent, sinceStart>>
      /\ UNCHANGED <<disturbed, callLosses, received>>
  BY <1>1 DEF controllerVars, ghostVars
<1>3. CASE ~Going
  BY <1>1, <1>2, <1>3, StaysStill
<1>4. CASE Going
  <2>1. Shape /\ Progress
    BY <1>4 DEF AbsorbInv
  <2>2. /\ dispatched[calls] > 0 /\ dispatched[calls] # 0 /\ callLosses \in Nat /\ sinceStart \in Nat
        /\ sinceStep \in Nat /\ up \in Seq(Answers) /\ attempt \in Nat
    BY <1>1, <1>4, Underway
  <2>3. dispatched'[calls'] > 0 /\ dispatched'[calls'] # 0 /\ waiting' = waiting
    BY <1>1, <1>2, <2>2
  <2>4. acting.what = Reply(frame[2])
    BY <1>1, <2>1 DEF Shape
  <2>5. /\ \A i \in DOMAIN up' : \/ i \in DOMAIN up /\ up'[i] = up[i]
                                 \/ up'[i].what = acting.what /\ up'[i].age = 0
        /\ ReplyOnTheWay' = 1 /\ (Arrived => Arrived')
    BY <1>1, <2>2, Joins
  <2>6. Shape'
    BY <1>1, <1>2, <2>1, <2>3, <2>4, <2>5 DEF Shape, IsFrame, IsReply
  <2>7. Sending => Answering'
    <3> SUFFICES ASSUME Sending PROVE Answering'
      OBVIOUS
    <3>1. PICK k \in Nat : k = attempt * (LINK_ACK_TIMEOUT_MS + FrameTime)
      BY <2>2, Spans
    <3>2. Room \in Nat /\ Room' = Room
      BY Times, Spans DEF Room
    <3>3. sinceStart <= Room + MaxDelay + MaxActing + k + sinceStep
      BY <3>1 DEF Sending
    <3>4. sinceStart' <= Room' + MaxDelay + MaxActing + attempt' * (LINK_ACK_TIMEOUT_MS + FrameTime)
                         + FrameTime + sinceStep'
      <4>1. sinceStart <= Room + MaxDelay + MaxActing + k + FrameTime + 0
        BY <1>1, <2>2, <3>1, <3>2, <3>3, Times
      <4> QED
        BY <1>1, <1>2, <3>1, <3>2, <4>1
    <3>5. callLosses' + ReplyOnTheWay' >= attempt' + 1
      BY <1>1, <1>2, <2>2, <2>5 DEF Sending
    <3>6. \A i \in DOMAIN up' : up'[i].age >= 0
      <4>1. \A i \in DOMAIN up : up[i].age \in Nat
        BY <1>4, Underway
      <4> QED
        BY <2>5, <4>1
    <3>7. attempt' <= LINK_RETRANSMITS /\ sinceStep' <= LINK_ACK_TIMEOUT_MS
      BY <1>1, <2>2, Times DEF Sending
    <3> QED
      BY <1>1, <3>4, <3>5, <3>6, <3>7 DEF Answering
  <2>8. Progress'
    BY <1>1, <1>2, <2>1, <2>2, <2>3, <2>5, <2>7 DEF Progress, Exhausted, Acting, Answering
  <2> QED
    BY <1>4, <2>3, <2>6, <2>8, StillGoing DEF Going
<1> QED
  BY <1>3, <1>4

\* The window has closed: a reply that was on the way is there or lost, and is sent once
\* more.
LEMMA WindowAbsorbs == ArqInv /\ AbsorbInv /\ WindowTimeout => AbsorbInv'
<1> SUFFICES ASSUME ArqInv, AbsorbInv, WindowTimeout PROVE AbsorbInv'
  OBVIOUS
<1>1. /\ panel = "window" /\ sinceStep >= LINK_ACK_TIMEOUT_MS
      /\ UNCHANGED <<controllerVars, ghostVars>> /\ UNCHANGED <<down, up, acting, dispatched>>
      /\ \/ attempt >= LINK_RETRANSMITS /\ panel' = "listening" /\ UNCHANGED <<attempt, sinceStep>>
         \/ attempt < LINK_RETRANSMITS /\ panel' = "sending" /\ attempt' = attempt + 1 /\ sinceStep' = 0
  BY Times DEF WindowTimeout, ArqInv, TypeInv, PanelType
<1>2. /\ UNCHANGED <<calls, frame, waiting, attemptsLeft, sinceSent, sinceStart>>
      /\ UNCHANGED <<disturbed, callLosses, received>>
  BY <1>1 DEF controllerVars, ghostVars
<1>3. CASE ~Going
  BY <1>1, <1>2, <1>3, StaysStill
<1>4. CASE Going
  <2>1. Shape /\ Progress
    BY <1>4 DEF AbsorbInv
  <2>2. /\ dispatched[calls] > 0 /\ dispatched[calls] # 0 /\ callLosses \in Nat /\ sinceStart \in Nat
        /\ sinceStep \in Nat /\ attempt \in Nat /\ up \in Seq(Answers)
        /\ \A i \in DOMAIN up : up[i].age \in Nat
    BY <1>1, <1>4, Underway
  <2>3. dispatched'[calls'] > 0 /\ dispatched'[calls'] # 0 /\ waiting' = waiting
    BY <1>1, <1>2, <2>2
  <2>4. Arrived' = Arrived
    BY <1>1 DEF Arrived, IsReply
  <2>5. Answering => Arrived \/ callLosses >= attempt + 1
    <3> SUFFICES ASSUME Answering, ~Arrived PROVE callLosses >= attempt + 1
      OBVIOUS
    <3>1. MaxDelay < LINK_ACK_TIMEOUT_MS
      BY Times, TimesAssumption
    <3>2. ASSUME NEW i \in DOMAIN up, IsReply(up[i]) PROVE FALSE
      <4>1. up[i].age \in Nat /\ ~(up[i].age > MaxDelay) /\ up[i].age >= sinceStep
        BY <2>2, <3>2 DEF Answering, Arrived
      <4> QED
        BY <1>1, <2>2, <3>1, <4>1, Times
    <3>3. ReplyOnTheWay = 0
      BY <3>2 DEF ReplyOnTheWay
    <3> QED
      BY <2>2, <3>3 DEF Answering
  <2>6. CASE attempt >= LINK_RETRANSMITS /\ panel' = "listening"
    <3>1. Shape'
      BY <1>1, <1>2, <2>1, <2>3, <2>6 DEF Shape, IsFrame, IsReply
    <3>2. Answering => Arrived' \/ Exhausted'
      BY <1>2, <2>2, <2>4, <2>5, <2>6, Times DEF Exhausted
    <3>3. Progress'
      BY <1>1, <1>2, <2>1, <2>2, <2>3, <2>4, <3>2 DEF Progress, Exhausted, Acting, Sending
    <3> QED
      BY <1>4, <2>3, <3>1, <3>3, StillGoing DEF Going
  <2>7. CASE attempt < LINK_RETRANSMITS /\ panel' = "sending" /\ attempt' = attempt + 1 /\ sinceStep' = 0
    <3>1. Shape'
      BY <1>1, <1>2, <2>1, <2>3, <2>7 DEF Shape, IsFrame, IsReply
    <3>2. Answering => Arrived' \/ Sending'
      <4> SUFFICES ASSUME Answering, ~Arrived PROVE Sending'
        BY <2>4
      <4>1. PICK k \in Nat : /\ k = attempt * (LINK_ACK_TIMEOUT_MS + FrameTime)
                             /\ (attempt + 1) * (LINK_ACK_TIMEOUT_MS + FrameTime)
                                = k + (LINK_ACK_TIMEOUT_MS + FrameTime)
        BY <2>2, Spans
      <4>2. sinceStart <= Room + MaxDelay + MaxActing + k + FrameTime + sinceStep /\ sinceStep <= LINK_ACK_TIMEOUT_MS
        BY <4>1 DEF Answering
      <4>3. Room \in Nat /\ Room' = Room
        BY Times, Spans DEF Room
      <4>4. sinceStart <= Room + MaxDelay + MaxActing + (k + (LINK_ACK_TIMEOUT_MS + FrameTime)) + 0
        BY <2>2, <4>2, <4>3, Times
      <4>5. sinceStart' <= Room' + MaxDelay + MaxActing + attempt' * (LINK_ACK_TIMEOUT_MS + FrameTime) + sinceStep'
        BY <1>2, <2>7, <4>1, <4>3, <4>4
      <4>6. attempt' <= LINK_RETRANSMITS /\ sinceStep' <= FrameTime /\ callLosses' >= attempt'
        BY <1>2, <2>2, <2>5, <2>7, Times
      <4> QED
        BY <2>7, <4>5, <4>6 DEF Sending
    <3>3. Progress'
      BY <1>1, <1>2, <2>1, <2>2, <2>3, <2>4, <3>2 DEF Progress, Exhausted, Acting, Sending
    <3> QED
      BY <1>4, <2>3, <3>1, <3>3, StillGoing DEF Going
  <2> QED
    BY <1>1, <2>6, <2>7
<1> QED
  BY <1>3, <1>4

\* A frame the wire loses is counted.
LEMMA LoseAbsorbs == ArqInv /\ AbsorbInv /\ Lose => AbsorbInv'
<1> SUFFICES ASSUME ArqInv, AbsorbInv, Lose PROVE AbsorbInv'
  OBVIOUS
<1>1. /\ callLosses' = callLosses + 1 /\ UNCHANGED <<controllerVars, panelVars>>
      /\ UNCHANGED <<disturbed, received>>
      /\ \/ down # <<>> /\ down' = Tail(down) /\ UNCHANGED up
         \/ up # <<>> /\ Head(up).age <= MaxDelay /\ up' = Tail(up) /\ UNCHANGED down
  BY DEF Lose
<1>2. /\ UNCHANGED <<calls, frame, airtime, waiting, sending, attemptsLeft, sinceSent, sinceStart>>
      /\ UNCHANGED <<panel, acting, attempt, sinceStep, dispatched>>
  BY <1>1 DEF controllerVars, panelVars
<1>3. callLosses \in Nat
  BY DEF ArqInv, TypeInv, GhostType
<1>4. CASE disturbed
  BY <1>1, <1>4, StaysDisturbed
<1>5. CASE waiting = "nothing" /\ ~disturbed
  <2>1. calls > 0 /\ Travels => Travels'
    <3> SUFFICES ASSUME calls > 0, Travels PROVE Travels'
      OBVIOUS
    <3>1. down \in Seq(Sent) /\ Len(down) \in Nat
      BY <1>5, Quiet
    <3>2. CASE UNCHANGED down
      BY <1>1, <1>2, <1>3, <3>1, <3>2, Times DEF Travels
    <3>3. CASE down # <<>> /\ down' = Tail(down)
      <4>1. Len(down') = Len(down) - 1
        BY <3>1, <3>3
      <4>2. \A i \in DOMAIN down' : i + 1 \in DOMAIN down /\ down'[i] = down[i + 1]
        BY <3>1, <3>3, Oldest
      <4>3. \A i \in DOMAIN down' : down'[i].what = frame'
        BY <1>2, <4>2 DEF Travels
      <4> QED
        BY <1>1, <1>3, <3>1, <4>1, <4>3, Times DEF Travels
    <3> QED
      BY <1>1, <3>2, <3>3
  <2> QED
    BY <1>1, <1>2, <1>3, <1>5, <2>1, StaysOver
<1>6. CASE Going
  <2>1. Shape /\ Progress
    BY <1>6 DEF AbsorbInv
  <2>2. /\ down \in Seq(Sent) /\ up \in Seq(Answers) /\ Len(down) \in Nat /\ attempt \in Nat
        /\ attemptsLeft \in 0 .. LINK_RETRANSMITS /\ dispatched[calls] \in Nat
        /\ (up # <<>> => dispatched[calls] # 0)
    BY <1>6, Underway
  <2>3. Exhausted => Exhausted'
    BY <1>1, <1>3, Times DEF Exhausted
  <2>4. Sending => Sending'
    BY <1>1, <1>2, <1>3, <2>2 DEF Sending, Room
  <2>5. CASE down # <<>> /\ down' = Tail(down) /\ UNCHANGED up
    <3>1. /\ \A i \in DOMAIN down' : \E j \in DOMAIN down : down'[i] = down[j]
          /\ Len(down') = Len(down) - 1
      <4>1. \A i \in DOMAIN down' : i + 1 \in DOMAIN down /\ down'[i] = down[i + 1]
        BY <2>2, <2>5, Oldest
      <4>2. Len(down') = Len(down) - 1
        BY <2>2, <2>5
      <4> QED
        BY <4>1, <4>2
    <3>2. Shape'
      BY <1>1, <1>2, <2>1, <2>5, <3>1 DEF Shape, IsFrame, IsReply
    <3>3. Calling => Calling'
      <4> SUFFICES ASSUME Calling PROVE Calling'
        OBVIOUS
      <4>1. callLosses' + Len(down') + attemptsLeft' + (IF sending' = "first" THEN 1 ELSE 0)
            >= LINK_RETRANSMITS + 1
        BY <1>1, <1>2, <1>3, <2>2, <3>1, Times DEF Calling
      <4> QED
        BY <1>2, <3>1, <4>1 DEF Calling, Elapsed, Room
    <3>4. Answering => Answering'
      <4>1. ReplyOnTheWay \in {0, 1} /\ ReplyOnTheWay' = ReplyOnTheWay
        BY <2>5 DEF ReplyOnTheWay, IsReply
      <4>2. Answering => callLosses' + ReplyOnTheWay' >= attempt + 1
        BY <1>1, <1>3, <2>2, <4>1 DEF Answering
      <4> QED
        BY <1>2, <2>5, <4>2 DEF Answering, IsReply, Room
    <3>5. Arrived => Arrived'
      BY <2>5 DEF Arrived, IsReply
    <3>6. Progress'
      BY <1>2, <2>1, <2>3, <2>4, <3>3, <3>4, <3>5 DEF Progress, Acting, Room
    <3> QED
      BY <1>2, <1>6, <3>2, <3>6, StillGoing DEF Going
  <2>6. CASE up # <<>> /\ Head(up).age <= MaxDelay /\ up' = Tail(up) /\ UNCHANGED down
    <3>1. dispatched'[calls'] > 0 /\ dispatched'[calls'] # 0 /\ dispatched[calls] > 0
      BY <1>2, <2>2, <2>6
    <3>2. /\ \A i \in DOMAIN up' : \E j \in DOMAIN up : up'[i] = up[j]
          /\ ReplyOnTheWay \in {0, 1} /\ ReplyOnTheWay' \in {0, 1} /\ (Arrived => Arrived')
      BY <2>6, RepliesStay DEF ArqInv
    <3>3. Shape'
      BY <1>1, <1>2, <2>1, <2>6, <3>1, <3>2 DEF Shape, IsFrame, IsReply
    <3>4. Answering => Answering'
      <4>1. Answering => callLosses' + ReplyOnTheWay' >= attempt + 1
        <5> SUFFICES ASSUME Answering PROVE callLosses' + ReplyOnTheWay' >= attempt + 1
          OBVIOUS
        <5>1. callLosses + ReplyOnTheWay >= attempt + 1
          BY DEF Answering
        <5>2. callLosses' = callLosses + 1 /\ ReplyOnTheWay \in 0 .. 1 /\ ReplyOnTheWay' \in 0 .. 1
          BY <1>1, <3>2
        <5>3. \A c, a \in Nat : \A x, y \in 0 .. 1 : c + x >= a + 1 => (c + 1) + y >= a + 1
          OBVIOUS
        <5>4. attempt \in Nat
          BY <2>2
        <5>5. (callLosses + 1) + ReplyOnTheWay' >= attempt + 1
          BY <1>3, <5>1, <5>2, <5>3, <5>4, Zenon
        <5> QED
          BY <5>2, <5>5
      <4>2. Answering => \A i \in DOMAIN up' : IsReply(up'[i]) => up'[i].age >= sinceStep
        BY <3>2 DEF Answering
      <4> QED
        BY <1>2, <4>1, <4>2 DEF Answering, IsReply, Room
    <3>5. Progress'
      BY <1>2, <2>1, <2>3, <2>4, <3>1, <3>2, <3>4 DEF Progress, Acting, Room
    <3> QED
      BY <1>2, <1>6, <3>3, <3>5, StillGoing DEF Going
  <2> QED
    BY <1>1, <2>5, <2>6
<1> QED
  BY <1>4, <1>5, <1>6 DEF Going

\* The kind of what is on a wire stays; a reply that is not read in time is there.
LEMMA GrowsUp ==
    ASSUME ArqInv, Tick
    PROVE  /\ DOMAIN up' = DOMAIN up
           /\ \A i \in DOMAIN up : /\ up'[i].what = up[i].what
                                   /\ up'[i].age = up[i].age + 1 \/ up'[i].age > MaxDelay
                                   /\ up[i].age > MaxDelay => up'[i].age > MaxDelay
           /\ ReplyOnTheWay' = ReplyOnTheWay
           /\ Arrived => Arrived'
<1>1. up' = Older(up) /\ up \in Seq(Answers)
  BY DEF Tick, ArqInv, TypeInv, WireType
<1>2. DOMAIN up' = DOMAIN up /\ \A i \in DOMAIN up : up'[i].what = up[i].what
  BY Ages DEF ArqInv
<1>3. \A i \in DOMAIN up : /\ up'[i].age = up[i].age + 1 \/ up'[i].age > MaxDelay
                           /\ up[i].age > MaxDelay => up'[i].age > MaxDelay
  <2> SUFFICES ASSUME NEW i \in DOMAIN up
               PROVE  /\ up'[i].age = up[i].age + 1 \/ up'[i].age > MaxDelay
                      /\ up[i].age > MaxDelay => up'[i].age > MaxDelay
    OBVIOUS
  <2>1. up[i] \in Answers
    BY <1>1, Element
  <2>2. PICK r : r = up[i]
    OBVIOUS
  <2>3. r.age \in Nat /\ r \in Answers
    BY <2>1, <2>2 DEF Answers
  <2>4. up'[i] = [r EXCEPT !.age = Min2(r.age + 1, MaxDelay + 1)]
    BY <1>1, <2>2 DEF Older
  <2>5. up'[i].age = Min2(r.age + 1, MaxDelay + 1)
    BY <2>3, <2>4 DEF Answers
  <2> QED
    BY <2>2, <2>3, <2>5, Times DEF Min2
<1>4. ReplyOnTheWay' = ReplyOnTheWay
  BY <1>2 DEF ReplyOnTheWay, IsReply
<1>5. Arrived => Arrived'
  BY <1>2, <1>3 DEF Arrived, IsReply
<1> QED
  BY <1>2, <1>3, <1>4, <1>5

\* A millisecond of a call under way: everything it has to do with is one older.
LEMMA GrowsOlder ==
    ASSUME ArqInv, Going, Tick
    PROVE  /\ sinceStart' \in Nat /\ sinceStart' <= sinceStart + 1
           /\ DOMAIN down' = DOMAIN down /\ Len(down') = Len(down)
           /\ \A i \in DOMAIN down : down'[i].what = down[i].what /\ down'[i].age = down[i].age + 1
           /\ panel # "listening" => sinceStep' = sinceStep + 1
           /\ ~acked /\ attemptsLeft > 0 => Elapsed' = Elapsed + 1
<1>1. /\ sinceSent' = IF sending = "nothing" THEN Min2(sinceSent + 1, LINK_ACK_TIMEOUT_MS)
                                             ELSE sinceSent + 1
      /\ sinceStart' = Min2(sinceStart + 1, Limit)
      /\ sinceStep' = IF panel = "listening" THEN sinceStep ELSE sinceStep + 1
      /\ sending = "nothing" => ~MayRetransmit
      /\ UNCHANGED <<attemptsLeft, airtime, calls, sending>>
  BY DEF Tick, Going
<1>2. /\ sinceStart \in Nat /\ sinceStep \in Nat /\ attemptsLeft \in 0 .. LINK_RETRANSMITS
      /\ sinceSent \in Nat /\ down \in Seq(Sent) /\ calls \in 1 .. MaxCalls
  BY Underway
<1>3. sinceStart' \in Nat /\ sinceStart' <= sinceStart + 1
  <2>1. Limit \in Nat
    <3>1. \A m, n \in Nat : m * n \in Nat
      OBVIOUS
    <3>2. (LINK_RETRANSMITS + 1) * LINK_ACK_TIMEOUT_MS \in Nat
      BY <3>1, Times
    <3> QED
      BY <3>2, Times DEF Limit
  <2> QED
    BY <1>1, <1>2, <2>1 DEF Min2
<1>4. /\ DOMAIN down' = DOMAIN down /\ down' \in Seq(Sent)
      /\ \A i \in DOMAIN down : down'[i].what = down[i].what /\ down'[i].age = down[i].age + 1
  BY Ages DEF ArqInv
<1>5. Len(down') = Len(down)
  BY <1>2, <1>4
<1>6. panel # "listening" => sinceStep' = sinceStep + 1
  BY <1>1
<1>7. ASSUME ~acked, attemptsLeft > 0 PROVE Elapsed' = Elapsed + 1
  <2>1. sinceSent' = sinceSent + 1
    BY <1>1, <1>2, <1>7, Times DEF Min2, MayRetransmit
  <2>2. PICK p : p = (LINK_RETRANSMITS - attemptsLeft) * (LINK_ACK_TIMEOUT_MS + airtime[calls])
    OBVIOUS
  <2>3. p \in Int
    <3>1. airtime[calls] \in Nat
      BY <1>2, Airtime DEF ArqInv, TypeInv
    <3>2. LINK_RETRANSMITS - attemptsLeft \in Int /\ LINK_ACK_TIMEOUT_MS + airtime[calls] \in Int
      BY <1>2, <3>1, Times
    <3>3. \A m, n \in Int : m * n \in Int
      OBVIOUS
    <3> QED
      BY <2>2, <3>2, <3>3
  <2>4. PICK e \in Nat : e = IF sending = "copy" THEN LINK_ACK_TIMEOUT_MS ELSE 0
    BY Times
  <2>5. Elapsed = p + sinceSent + e /\ Elapsed' = p + sinceSent' + e
    BY <1>1, <2>2, <2>4 DEF Elapsed
  <2> QED
    BY <1>2, <2>1, <2>3, <2>5
<1> QED
  BY <1>3, <1>4, <1>5, <1>6, <1>7

\* A millisecond later no step of the exchange is later than it may be.
LEMMA TickAbsorbs == ArqInv /\ AbsorbInv /\ Tick => AbsorbInv'
<1> SUFFICES ASSUME ArqInv, AbsorbInv, Tick PROVE AbsorbInv'
  OBVIOUS
<1>1. /\ UNCHANGED <<calls, frame, waiting, sending, acked, attemptsLeft, panel, acting, attempt, dispatched>>
      /\ UNCHANGED <<disturbed, callLosses, received>>
      /\ panel = "acting" => sinceStep < MaxActing
      /\ panel = "sending" => sinceStep < FrameTime
      /\ panel = "window" => sinceStep < LINK_ACK_TIMEOUT_MS
  BY DEF Tick, ghostVars
<1>2. CASE disturbed
  BY <1>1, <1>2, StaysDisturbed
<1>3. CASE waiting = "nothing" /\ ~disturbed
  <2>1. DOMAIN down' = DOMAIN down /\ Len(down') = Len(down) /\ \A i \in DOMAIN down : down'[i].what = down[i].what
    <3>1. down \in Seq(Sent) /\ down' \in Seq(Sent) /\ DOMAIN down' = DOMAIN down
      BY Ages DEF ArqInv, TypeInv, WireType
    <3>2. Len(down') = Len(down)
      BY <3>1
    <3> QED
      BY <3>1, <3>2, Ages DEF ArqInv
  <2>2. Travels => Travels'
    BY <1>1, <2>1 DEF Travels
  <2>3. callLosses \in Nat
    BY DEF ArqInv, TypeInv, GhostType
  <2> QED
    BY <1>1, <1>3, <2>2, <2>3, StaysOver
<1>4. CASE Going
  <2>1. Shape /\ Progress
    BY <1>4 DEF AbsorbInv
  <2>2. /\ sinceStart \in Nat /\ sinceStep \in Nat /\ attempt \in Nat /\ callLosses \in Nat
        /\ \A i \in DOMAIN down : down[i].age \in Nat
        /\ \A i \in DOMAIN up : up[i].age \in Nat
        /\ dispatched[calls] = 0 => ~acked
        /\ calls > 0
    BY <1>4, Underway
  <2>3. /\ sinceStart' \in Nat /\ sinceStart' <= sinceStart + 1
        /\ DOMAIN down' = DOMAIN down /\ Len(down') = Len(down)
        /\ \A i \in DOMAIN down : down'[i].what = down[i].what /\ down'[i].age = down[i].age + 1
        /\ panel # "listening" => sinceStep' = sinceStep + 1
        /\ ~acked /\ attemptsLeft > 0 => Elapsed' = Elapsed + 1
    BY <1>4, GrowsOlder
  <2>4. /\ DOMAIN up' = DOMAIN up
        /\ \A i \in DOMAIN up : /\ up'[i].what = up[i].what
                                /\ up'[i].age = up[i].age + 1 \/ up'[i].age > MaxDelay
        /\ ReplyOnTheWay' = ReplyOnTheWay
        /\ Arrived => Arrived'
    BY GrowsUp
  <2>5. Room \in Nat /\ Room' = Room
    BY Times, Spans DEF Room
  <2>6. Shape'
    <3>1. \A i \in DOMAIN up' : IsReply(up'[i]) => up'[i].what = Reply(frame[2])
      BY <2>1, <2>4 DEF Shape, IsReply
    <3>2. waiting = "REPLY" \/ dispatched[calls] = 0 => \A i \in DOMAIN down' : IsFrame(down'[i])
      BY <2>1, <2>3 DEF Shape, IsFrame
    <3> QED
      BY <1>1, <2>1, <3>1, <3>2 DEF Shape, IsFrame, IsReply
  <2>7. dispatched[calls] = 0 => Calling'
    <3> SUFFICES ASSUME dispatched[calls] = 0 PROVE Calling'
      OBVIOUS
    <3>1. Calling
      BY <2>1 DEF Progress
    <3>2. callLosses' + Len(down') + attemptsLeft' + (IF sending' = "first" THEN 1 ELSE 0)
          >= LINK_RETRANSMITS + 1
      BY <1>1, <2>3, <3>1 DEF Calling
    <3>3. attemptsLeft > 0 => sinceStart' <= Elapsed'
      <4>1. Elapsed \in Nat
        BY <2>2, ElapsedNat DEF ElapsedOK, ArqInv, TypeInv
      <4>2. attemptsLeft > 0 => sinceStart <= Elapsed /\ Elapsed' = Elapsed + 1
        BY <2>2, <2>3, <3>1 DEF Calling
      <4> QED
        BY <2>2, <2>3, <4>1, <4>2
    <3>4. \A i \in DOMAIN down' : sinceStart' <= Room + down'[i].age
      <4> SUFFICES ASSUME NEW i \in DOMAIN down PROVE sinceStart' <= Room + (down[i].age + 1)
        BY <2>3
      <4>1. sinceStart <= Room + down[i].age /\ down[i].age \in Nat
        BY <2>2, <3>1 DEF Calling
      <4> QED
        BY <2>2, <2>3, <2>5, <4>1, Times
    <3> QED
      BY <1>1, <2>5, <3>2, <3>3, <3>4 DEF Calling
  <2>8. Acting => Acting'
    <3> SUFFICES ASSUME Acting PROVE Acting'
      OBVIOUS
    <3>1. panel = "acting" /\ sinceStart <= Room + MaxDelay + sinceStep
      BY DEF Acting
    <3>2. sinceStep' = sinceStep + 1 /\ sinceStep' <= MaxActing
      BY <1>1, <2>2, <2>3, <3>1, Times
    <3>3. sinceStart' <= Room + MaxDelay + sinceStep'
      BY <2>2, <2>3, <2>5, <3>1, <3>2, Times
    <3> QED
      BY <1>1, <2>5, <3>1, <3>2, <3>3 DEF Acting
  <2>9. Sending => Sending'
    <3> SUFFICES ASSUME Sending PROVE Sending'
      OBVIOUS
    <3>1. PICK k \in Nat : k = attempt * (LINK_ACK_TIMEOUT_MS + FrameTime)
      BY <2>2, Spans
    <3>2. panel = "sending" /\ sinceStart <= Room + MaxDelay + MaxActing + k + sinceStep
      BY <3>1 DEF Sending
    <3>3. sinceStep' = sinceStep + 1 /\ sinceStep' <= FrameTime
      BY <1>1, <2>2, <2>3, <3>2, Times
    <3>4. sinceStart' <= Room + MaxDelay + MaxActing + k + sinceStep'
      BY <2>2, <2>3, <2>5, <3>2, <3>3, Times
    <3> QED
      BY <1>1, <2>5, <3>1, <3>2, <3>3, <3>4 DEF Sending
  <2>10. Answering => Arrived' \/ Answering'
    <3> SUFFICES ASSUME Answering, ~Arrived' PROVE Answering'
      OBVIOUS
    <3>1. PICK k \in Nat : k = attempt * (LINK_ACK_TIMEOUT_MS + FrameTime)
      BY <2>2, Spans
    <3>2. panel = "window" /\ sinceStart <= Room + MaxDelay + MaxActing + k + FrameTime + sinceStep
      BY <3>1 DEF Answering
    <3>3. sinceStep' = sinceStep + 1 /\ sinceStep' <= LINK_ACK_TIMEOUT_MS
      BY <1>1, <2>2, <2>3, <3>2, Times
    <3>4. sinceStart' <= Room + MaxDelay + MaxActing + k + FrameTime + sinceStep'
      BY <2>2, <2>3, <2>5, <3>2, <3>3, Times
    <3>5. \A i \in DOMAIN up' : IsReply(up'[i]) => up'[i].age >= sinceStep'
      <4> SUFFICES ASSUME NEW i \in DOMAIN up', IsReply(up'[i]) PROVE up'[i].age >= sinceStep'
        OBVIOUS
      <4>1. i \in DOMAIN up /\ IsReply(up[i])
        BY <2>4 DEF IsReply
      <4>2. up'[i].age = up[i].age + 1
        BY <2>4, <4>1 DEF Arrived
      <4>3. up[i].age \in Nat /\ up[i].age >= sinceStep
        BY <2>2, <4>1 DEF Answering
      <4> QED
        BY <2>2, <3>3, <4>2, <4>3
    <3>6. callLosses' + ReplyOnTheWay' >= attempt' + 1 /\ attempt' <= LINK_RETRANSMITS
      BY <1>1, <2>4 DEF Answering
    <3> QED
      BY <1>1, <2>5, <3>1, <3>2, <3>3, <3>4, <3>5, <3>6 DEF Answering
  <2>11. Progress'
    BY <1>1, <2>1, <2>4, <2>7, <2>8, <2>9, <2>10 DEF Progress, Exhausted
  <2> QED
    BY <1>1, <1>4, <2>6, <2>11, StillGoing DEF Going
<1> QED
  BY <1>2, <1>3, <1>4 DEF Going

\* Before the first call nothing has failed.
LEMMA InitAbsorbs == Init => AbsorbInv
  BY DEF Init, AbsorbInv, Going, Ended

\* The hypothesis about the next state is the invariant's, which InvNext gives.
LEMMA AbsorbNext == Patient /\ ArqInv /\ ArqInv' /\ AbsorbInv /\ [Next]_vars => AbsorbInv'
<1> SUFFICES ASSUME Patient, ArqInv, ArqInv', AbsorbInv, [Next]_vars PROVE AbsorbInv'
  OBVIOUS
<1>1. CASE Controller
  BY <1>1, CallAbsorbs, SentAbsorbs, RetransmitAbsorbs, AckAbsorbs, ReplyAbsorbs, TimeoutAbsorbs
     DEF Controller
<1>2. CASE Panel
  BY <1>2, HearAbsorbs, MissAbsorbs, ActedAbsorbs, PanelSentAbsorbs, TickedAbsorbs, WindowAbsorbs
     DEF Panel
<1>3. CASE Lose
  BY <1>3, LoseAbsorbs
<1>4. CASE Tick
  BY <1>4, TickAbsorbs
<1>5. CASE UNCHANGED vars
  <2>1. /\ UNCHANGED <<calls, frame, airtime, waiting, sending, attemptsLeft, sinceSent, sinceStart>>
        /\ UNCHANGED <<down, up, panel, acting, attempt, sinceStep, dispatched, disturbed>>
        /\ UNCHANGED <<callLosses, received>>
    BY <1>5 DEF vars, controllerVars, panelVars, ghostVars
  <2>2. Going' = Going /\ Shape' = Shape /\ Ended' = Ended
    BY <2>1 DEF Going, Shape, IsFrame, IsReply, Ended, Travels, Exhausted
  <2>3. Progress' = Progress
    BY <2>1 DEF Progress, Exhausted, Calling, Elapsed, Arrived, Acting, Sending, Answering,
                ReplyOnTheWay, IsReply, Room
  <2> QED
    BY <2>2, <2>3 DEF AbsorbInv
<1> QED
  BY <1>1, <1>2, <1>3, <1>4, <1>5 DEF Next

\* What a call that is over and failed has lost, or left on the wire.
LEMMA AbsorbedIn == ArqInv /\ AbsorbInv => LossesAbsorbed
<1> SUFFICES ASSUME ArqInv, AbsorbInv, waiting = "nothing", ~disturbed, ~received, ~Exhausted
             PROVE  GetsThrough
  BY DEF LossesAbsorbed, GetsThrough, Exhausted
<1>1. calls > 0 /\ frame[1] = "COMMAND" /\ (dispatched[calls] > 0 \/ Travels)
  BY DEF AbsorbInv, Ended
<1>2. CASE Travels
  <2>1. Len(down) \in Nat /\ DOMAIN down = 1 .. Len(down) /\ callLosses \in Nat
    BY <1>1, Quiet
  <2>2. Len(down) > 0
    BY <1>2, <2>1, Times DEF Travels, Exhausted
  <2>3. 1 \in DOMAIN down /\ down[1].what = frame
    BY <1>2, <2>1, <2>2 DEF Travels
  <2> QED
    BY <1>1, <2>3 DEF GetsThrough
<1> QED
  BY <1>1, <1>2 DEF GetsThrough

\* awaitFrame() and ArqEdgeLink::sendOnEdge(): into a link at rest, a command that the panel
\* never hears or a request that is never answered has lost more frames than either end
\* retransmits, whatever is lost and whenever, and however long the frames take: the two
\* ends' timers do not defeat each other.
THEOREM CallsSurviveLosses == ASSUME Patient PROVE Spec => []LossesAbsorbed
<1>1. Patient
  OBVIOUS
<1>2. ArqInv /\ AbsorbInv /\ [Next]_vars => AbsorbInv'
  BY <1>1, InvNext, AbsorbNext
<1>3. ArqInv /\ AbsorbInv => LossesAbsorbed
  BY AbsorbedIn
<1> QED
  BY <1>2, <1>3, InitAbsorbs, Inv, PTL DEF Spec

=============================================================================
