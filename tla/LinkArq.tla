-------------------------------- MODULE LinkArq --------------------------------
(***************************************************************************)
(* Hop acknowledgements on the trunk: ControllerRelayPacketSink at one end *)
(* and the first panel (LightnetPanel, ArqEdgeLink, LinkDedup) at the      *)
(* other, each sending and receiving.  A frame has no number, only its     *)
(* CRC: two frames with the same bytes are the same to both ends.  Time is *)
(* in milliseconds; both ends look at their clocks in each of them, unless *)
(* they are sending: sendOnEdge() blocks until the last byte is out, and   *)
(* only then the wait for an acknowledgement begins.  An acknowledgement   *)
(* takes less than half a millisecond; its time counts as MaxDelay.        *)
(***************************************************************************)
EXTENDS Integers, Sequences

CONSTANTS
    Targets,               \* panels that are asked for their state
    Commands,              \* frames that are only acknowledged
    LINK_ACK_TIMEOUT_MS,
    LINK_RETRANSMITS,
    LINK_DEDUP_WINDOW_MS,
    ACK_TIMEOUT_MS,        \* how long a reply is waited for
    AirTimes,              \* how long it takes to send a frame, or a reply
    FrameTime,             \* the longest of them: 3 ms at 250 kbaud
    MaxDelay,              \* a frame that is out arrives within this time, or never
    MaxActing,             \* what a panel does with a frame takes no longer than this
    MaxCalls, MaxLosses    \* bounds: calls of the sink, frames lost

ASSUME TimesAssumption ==
    /\ {LINK_ACK_TIMEOUT_MS, LINK_RETRANSMITS, LINK_DEDUP_WINDOW_MS, ACK_TIMEOUT_MS,
        FrameTime, MaxDelay, MaxActing, MaxCalls, MaxLosses} \subseteq Nat
    /\ AirTimes \subseteq 0 .. FrameTime
    \* the acknowledgement of a frame that arrives is there before it is given up
    /\ 2 * MaxDelay < LINK_ACK_TIMEOUT_MS

VARIABLES
    \* ControllerRelayPacketSink
    calls,         \* calls so far; the current one is the last
    frame,         \* what it sends
    waiting,       \* what awaitFrame() waits for: "LINK_ACK", "REPLY", or "nothing"
    sending,       \* what sendOnEdge() blocks for: the "first" frame, a "copy", or "nothing"
    acked, attemptsLeft,
    sinceSent,     \* how long it has been sending, or ago the last frame was out
    sinceStart,
    \* the wire: frames under way or not yet read, [what, call, age]
    down, up,
    \* the panel
    panel,         \* "listening", "acting", "sending", or in the "window" after its send
    acting,        \* the frame it acts on, or the reply it waits for an acknowledgement of
    attempt, sinceStep,
    lag,           \* how long ago tick() read the clock it still works with
    entry,         \* its LinkDedup entry: what was seen last on this edge, how long ago
    airtime,       \* airtime[n]: how long it takes to send the frame of call n
    \* for comparison only
    dispatched,    \* dispatched[n]: how often the panel acted on call n
    lagged,        \* lagged[n]: the longest lag with which a frame of call n was noted
    disturbed,     \* the current call began before the one before it was over and done
    losses, callLosses,
    outcome,       \* how the last call ended: "failed", or the call whose answer it took
    received       \* the last call ended well

controllerVars == <<calls, frame, airtime, waiting, sending, acked, attemptsLeft, sinceSent,
                    sinceStart>>
panelVars      == <<panel, acting, attempt, sinceStep, lag, entry, dispatched, lagged>>
ghostVars      == <<disturbed, losses, callLosses, outcome, received>>
vars == <<controllerVars, down, up, panelVars, ghostVars>>

Fetch(t) == <<"FETCH_STATE", t>>
Reply(t) == <<"FETCH_STATE_REPLY", t>>
Ack(w)   == <<"LINK_ACK", w>>
Frames   == {Fetch(t) : t \in Targets} \cup {<<"COMMAND", c>> : c \in Commands}
Nothing  == <<"NOOP", "none">>

On(wire, w, n) == Append(wire, [what |-> w, call |-> n, age |-> 0])

Min2(a, b) == IF a <= b THEN a ELSE b
Max2(a, b) == IF a <= b THEN b ELSE a

\* The last copy of the frame of call n is out this long after the first.
Span(n) == LINK_RETRANSMITS * (LINK_ACK_TIMEOUT_MS + airtime[n])
\* How long a panel can be held up by what it does with one frame.
MaxLag == MaxActing + (LINK_RETRANSMITS + 1) * (FrameTime + LINK_ACK_TIMEOUT_MS)

Init ==
    /\ calls = 0 /\ frame = Nothing /\ waiting = "nothing" /\ sending = "nothing"
    /\ airtime = [n \in 1 .. MaxCalls |-> 0]
    /\ acked = FALSE /\ attemptsLeft = 0 /\ sinceSent = 0 /\ sinceStart = 0
    /\ down = <<>> /\ up = <<>>
    /\ panel = "listening" /\ acting = [what |-> Nothing, call |-> 0]
    /\ attempt = 0 /\ sinceStep = 0 /\ lag = 0
    /\ entry = [armed |-> FALSE, what |-> Nothing, age |-> 0]
    /\ dispatched = [n \in 1 .. MaxCalls |-> 0] /\ lagged = [n \in 1 .. MaxCalls |-> 0]
    /\ disturbed = FALSE /\ losses = 0 /\ callLosses = 0 /\ outcome = 0 /\ received = TRUE

-----------------------------------------------------------------------------
(* The controller.                                                          *)

\* How long awaitFrame() is told to wait.
Limit == IF waiting = "LINK_ACK"
         THEN (LINK_RETRANSMITS + 1) * LINK_ACK_TIMEOUT_MS + 2
         ELSE ACK_TIMEOUT_MS

\* Mutated form: what is in the receive buffer stays there.
FlushNothing(left) == left = up
\* flushStrayBytes(): all that has arrived; what is still on the wire comes later.
Flush(left) == \E k \in 1 .. Len(up) + 1 :
    /\ left = SubSeq(up, k, Len(up))
    /\ \A i \in k .. Len(up) : up[i].age <= MaxDelay

\* send() without wantAck, or requestReply(): up to the first byte.
Call(w) ==
    /\ waiting = "nothing" /\ calls < MaxCalls
    /\ Flush(up')
    /\ calls' = calls + 1 /\ frame' = w
    /\ sending' = "first" /\ \E t \in AirTimes : airtime' = [airtime EXCEPT ![calls + 1] = t]
    /\ acked' = FALSE /\ attemptsLeft' = LINK_RETRANSMITS /\ sinceSent' = 0 /\ sinceStart' = 0
    /\ waiting' = IF w[1] = "COMMAND" THEN "LINK_ACK" ELSE "REPLY"
    /\ disturbed' = \/ panel # "listening" \/ lag > 0 \/ down # <<>>
                    \/ \E i \in DOMAIN up' : up'[i].age <= MaxDelay
                    \/ entry.armed /\ entry.what = w /\ entry.age < LINK_DEDUP_WINDOW_MS
    /\ callLosses' = 0
    /\ UNCHANGED <<down, panelVars, losses, outcome, received>>

\* The last byte is out, and sendOnEdge() returns: only now the clock is read.
ControllerSent ==
    /\ sending # "nothing" /\ sinceSent >= airtime[calls]
    /\ sending' = "nothing" /\ down' = On(down, frame, calls) /\ sinceSent' = 0
    /\ IF sending = "first"
       THEN sinceStart' = 0 /\ UNCHANGED attemptsLeft
       ELSE attemptsLeft' = attemptsLeft - 1 /\ UNCHANGED sinceStart
    /\ UNCHANGED <<calls, frame, airtime, waiting, acked, up, panelVars, ghostVars>>

\* Mutated form: one retransmission less than there should be.
MayRetransmitLess == ~acked /\ attemptsLeft > 1 /\ sinceSent >= LINK_ACK_TIMEOUT_MS
MayRetransmit == ~acked /\ attemptsLeft > 0 /\ sinceSent >= LINK_ACK_TIMEOUT_MS

\* awaitFrame() sends the frame again, and hears nothing until it is out.
ControllerRetransmit ==
    /\ waiting # "nothing" /\ sending = "nothing" /\ sinceStart < Limit /\ MayRetransmit
    /\ sending' = "copy" /\ sinceSent' = 0
    /\ UNCHANGED <<calls, frame, airtime, waiting, acked, attemptsLeft, sinceStart, down, up,
                   panelVars, ghostVars>>

\* The inner loop of awaitFrame(): it looks at the limit only when it comes round, so
\* what has arrived while it was sending is read whatever the time.
Reading == waiting # "nothing" /\ sending = "nothing" /\ (sinceStart < Limit \/ sinceSent = 0)

\* awaitFrame() returns; what its caller makes of it.
Returns(well, answer) == waiting' = "nothing" /\ received' = well /\ outcome' = answer
Stays == UNCHANGED <<waiting, received, outcome>>

\* A hop acknowledgement: it counts if it is for what was sent.
ControllerReceiveAck ==
    /\ Reading /\ up # <<>> /\ Head(up).what[1] = "LINK_ACK" /\ up' = Tail(up)
    /\ acked' = (acked \/ Head(up).what = Ack(frame))
    /\ IF waiting = "LINK_ACK" /\ acked' THEN Returns(TRUE, calls) ELSE Stays
    /\ UNCHANGED <<calls, frame, airtime, sending, attemptsLeft, sinceSent, sinceStart, down,
                   panelVars, disturbed, losses, callLosses>>

\* A reply is acknowledged always, and taken by whoever waits for one: fetchState()
\* looks at the panel it is from.
ControllerReceiveReply ==
    /\ Reading /\ up # <<>> /\ Head(up).what[1] = "FETCH_STATE_REPLY" /\ up' = Tail(up)
    /\ down' = On(down, Ack(Head(up).what), Head(up).call)
    /\ IF waiting = "REPLY" THEN Returns(Head(up).what = Reply(frame[2]), Head(up).call) ELSE Stays
    /\ UNCHANGED <<calls, frame, airtime, sending, acked, attemptsLeft, sinceSent, sinceStart,
                   panelVars, disturbed, losses, callLosses>>

\* The wait is over, and all that is sure to have arrived has been read.
ControllerTimeout ==
    /\ waiting # "nothing" /\ sending = "nothing" /\ sinceStart >= Limit
    /\ \A i \in DOMAIN up : up[i].age <= MaxDelay
    /\ Returns(FALSE, calls)
    /\ UNCHANGED <<calls, frame, airtime, sending, acked, attemptsLeft, sinceSent, sinceStart,
                   down, up, panelVars, disturbed, losses, callLosses>>

-----------------------------------------------------------------------------
(* The panel.                                                               *)

\* Mutated form: what was seen last is remembered for ever.
WithinForever(age) == TRUE
\* Mutated form: the window is as long as the retransmissions of a frame that takes no
\* time, and no longer.
WithinShort(age) == age < LINK_RETRANSMITS * LINK_ACK_TIMEOUT_MS
Within(age) == age < LINK_DEDUP_WINDOW_MS

\* checkAndNote(), by the clock tick() has read.
Duplicate(w) == entry.armed /\ entry.what = w /\ Within(entry.age - lag)
Note(w) == entry' = [armed |-> TRUE, what |-> w, age |-> lag]

\* pollBytes() has a whole frame: acknowledged first, then dropped or acted on.
PanelReceive ==
    /\ panel = "listening" /\ down # <<>> /\ down' = Tail(down)
    /\ LET w == Head(down).what  n == Head(down).call IN
       IF w[1] = "LINK_ACK"
       THEN UNCHANGED <<up, panelVars>>
       ELSE /\ up' = On(up, Ack(w), n)
            /\ Note(w) /\ lagged' = [lagged EXCEPT ![n] = Max2(@, lag)]
            /\ IF Duplicate(w)
               THEN UNCHANGED <<panel, acting, sinceStep, dispatched>>
               ELSE /\ panel' = "acting" /\ sinceStep' = 0
                    /\ acting' = [what |-> w, call |-> n]
                    /\ dispatched' = [dispatched EXCEPT ![n] = @ + 1]
            /\ UNCHANGED <<attempt, lag>>
    /\ UNCHANGED <<controllerVars, ghostVars>>

\* What arrives while it acts or sends is lost: the mux may be on another edge.
PanelMisses ==
    /\ panel \in {"acting", "sending"} /\ down # <<>> /\ down' = Tail(down)
    /\ UNCHANGED <<controllerVars, up, panelVars, ghostVars>>

\* The panel is done: a reply is sent, its own or one it relays.
PanelActed ==
    /\ panel = "acting"
    /\ IF acting.what[1] = "FETCH_STATE"
       THEN /\ acting' = [acting EXCEPT !.what = Reply(@[2])]
            /\ panel' = "sending" /\ attempt' = 0 /\ sinceStep' = 0
       ELSE panel' = "listening" /\ UNCHANGED <<acting, attempt, sinceStep>>
    /\ UNCHANGED <<controllerVars, down, up, lag, entry, dispatched, lagged, ghostVars>>

\* The last byte is out, and the window begins.
PanelSent ==
    /\ panel = "sending" /\ sinceStep \in AirTimes /\ up' = On(up, acting.what, acting.call)
    /\ panel' = "window" /\ sinceStep' = 0
    /\ UNCHANGED <<controllerVars, down, acting, attempt, lag, entry, dispatched, lagged, ghostVars>>

\* tick() comes round and is given the time anew.  Until then it polls again, by the
\* old one.
PanelTick ==
    /\ panel = "listening" /\ lag > 0 /\ lag' = 0
    /\ UNCHANGED <<controllerVars, down, up, panel, acting, attempt, sinceStep, entry,
                   dispatched, lagged, ghostVars>>

\* awaitLinkAck(): all but the acknowledgement waited for is noise.
WindowReceive ==
    /\ panel = "window" /\ sinceStep < LINK_ACK_TIMEOUT_MS
    /\ down # <<>> /\ down' = Tail(down)
    /\ panel' = IF Head(down).what = Ack(acting.what) THEN "listening" ELSE "window"
    /\ UNCHANGED <<controllerVars, up, acting, attempt, sinceStep, lag, entry, dispatched,
                   lagged, ghostVars>>

\* sendOnEdge(): the window has closed without it.
WindowTimeout ==
    /\ panel = "window" /\ sinceStep >= LINK_ACK_TIMEOUT_MS
    /\ IF attempt >= LINK_RETRANSMITS
       THEN panel' = "listening" /\ UNCHANGED <<attempt, sinceStep>>
       ELSE panel' = "sending" /\ attempt' = attempt + 1 /\ sinceStep' = 0
    /\ UNCHANGED <<controllerVars, down, up, acting, lag, entry, dispatched, lagged, ghostVars>>

-----------------------------------------------------------------------------
(* The wire and the clock.                                                  *)

Lose ==
    /\ losses < MaxLosses
    /\ \/ down # <<>> /\ Head(down).age <= MaxDelay /\ down' = Tail(down) /\ UNCHANGED up
       \/ up # <<>> /\ Head(up).age <= MaxDelay /\ up' = Tail(up) /\ UNCHANGED down
    /\ losses' = losses + 1 /\ callLosses' = callLosses + 1
    /\ UNCHANGED <<controllerVars, panelVars, disturbed, outcome, received>>

Older(wire) == [i \in DOMAIN wire |-> [wire[i] EXCEPT !.age = Min2(@ + 1, MaxDelay + 1)]]

\* A millisecond passes, not before everyone has done what was due in the last one.
Tick ==
    /\ IF sending # "nothing"
       THEN sinceSent < airtime[calls]
       ELSE waiting # "nothing" => /\ sinceStart < Limit /\ ~MayRetransmit
                                   /\ \A i \in DOMAIN up : up[i].age < MaxDelay
    /\ \A i \in DOMAIN down : down[i].age < MaxDelay
    /\ panel = "acting" => sinceStep < MaxActing
    /\ panel = "sending" => sinceStep < FrameTime
    /\ panel = "window" => sinceStep < LINK_ACK_TIMEOUT_MS
    /\ sinceSent' = IF sending = "nothing" THEN Min2(sinceSent + 1, LINK_ACK_TIMEOUT_MS)
                                           ELSE sinceSent + 1
    /\ sinceStart' = Min2(sinceStart + 1, Limit)
    /\ sinceStep' = IF panel = "listening" THEN sinceStep ELSE sinceStep + 1
    /\ lag' = IF panel = "listening" THEN 0 ELSE Min2(lag + 1, MaxLag)
    /\ entry' = [entry EXCEPT !.age = Min2(@ + 1, MaxLag + LINK_DEDUP_WINDOW_MS)]
    /\ down' = Older(down) /\ up' = Older(up)
    /\ UNCHANGED <<calls, frame, airtime, waiting, sending, acked, attemptsLeft, panel, acting,
                   attempt, dispatched, lagged, ghostVars>>

Controller == (\E w \in Frames : Call(w)) \/ ControllerSent \/ ControllerRetransmit
              \/ ControllerReceiveAck \/ ControllerReceiveReply \/ ControllerTimeout
Panel == PanelReceive \/ PanelMisses \/ PanelActed \/ PanelSent \/ PanelTick \/ WindowReceive
         \/ WindowTimeout

Next == Controller \/ Panel \/ Lose \/ Tick
Spec == Init /\ [][Next]_vars

-----------------------------------------------------------------------------
(* Properties.                                                              *)

\* LinkArq.hpp: a retransmission "is re-acked but NOT dispatched again (no double relay,
\* no double local action)".  That holds for every call whose frame is short enough, and
\* noted by a clock that is young enough, for LinkDedup's window to outlast the sender's
\* retransmissions, however acknowledgements are lost or crossed.
DispatchedOnceInTime ==
    \A n \in 1 .. MaxCalls :
        lagged[n] + Span(n) + MaxDelay < LINK_DEDUP_WINDOW_MS => dispatched[n] <= 1

\* A call whose frame has been acknowledged has been acted on, unless it began while an
\* equal one was fresh in the panel's window or the one before it was not over: no stale
\* acknowledgement is taken for it (flushStrayBytes(), the echoed CRC).  It has been acted
\* on once if the window outlasts its retransmissions, whatever the panel's clock shows.
AckedWasDispatched ==
    acked /\ ~disturbed =>
        /\ dispatched[calls] >= 1
        /\ Span(calls) + MaxDelay < LINK_DEDUP_WINDOW_MS => dispatched[calls] = 1

\* The answer a caller takes is the answer to its own call (requestReply() matches
\* nothing but the type).
AnswersThisCall == waiting = "nothing" /\ received /\ ~disturbed => outcome = calls

\* A call gets through when its answer does, and a command also when only its
\* acknowledgement is missing: send() may return before the last copy has arrived.
GetsThrough ==
    \/ received
    \/ frame[1] = "COMMAND" /\ (dispatched[calls] > 0 \/ \E i \in DOMAIN down : down[i].what = frame)

\* A call into a quiet link fails only when more frames were lost than there are
\* retransmissions: the two ends' transmissions and windows never defeat each other.
LossesAbsorbed ==
    waiting = "nothing" /\ ~disturbed => GetsThrough \/ callLosses > LINK_RETRANSMITS

=============================================================================
