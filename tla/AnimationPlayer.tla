-------------------------- MODULE AnimationPlayer --------------------------
(***************************************************************************)
(* The animation player of a panel: slots keyed by group, filled by        *)
(* PREPARE, begun by START, released by STOP or, for the pulses of a       *)
(* spawner, the instant they end.  The operators take and return a player; *)
(* Scene composes them with the controller.                                *)
(*                                                                         *)
(* "slots" has the occupied groups as its domain; a slot without a running *)
(* animation has cur = NoAnim, one with nothing prepared pending = NoAnim. *)
(* Colour arithmetic, the frame gate and the 16-bit clock are left out:    *)
(* "age" is the time since the slot was started, in units of the model.    *)
(***************************************************************************)
EXTENDS Naturals, FiniteSets, TLC

CONSTANTS MaxSlots, \* MAX_ANIM_SLOTS
          SeqMax    \* 0xFF: the last sequence number, and what a player starts from

NoShow == [animates |-> "", of |-> [kind |-> "", v |-> 0]]
NoAnim == [type |-> "NONE", loop |-> FALSE, reap |-> FALSE, dur |-> 0, delay |-> 0, shows |-> NoShow]

ClearSlot == [cur |-> NoAnim, pending |-> NoAnim, holding |-> FALSE, age |-> 0, level |-> 0]

NewPlayer == [slots |-> <<>>, lastStart |-> SeqMax, lastParams |-> SeqMax, background |-> 0]

AllocSlot(pl, g) ==
    IF g \in DOMAIN pl.slots \/ Cardinality(DOMAIN pl.slots) >= MaxSlots THEN pl
    ELSE [pl EXCEPT !.slots = @ @@ (g :> ClearSlot)]

\* A PREPARE that finds no slot is dropped.
Prepare(pl, g, anim) ==
    LET q == AllocSlot(pl, g)
    IN  IF g \in DOMAIN q.slots THEN [q EXCEPT !.slots[g].pending = anim] ELSE pl

ActivatePending(s) ==
    [s EXCEPT !.cur = s.pending, !.pending = NoAnim, !.holding = FALSE, !.age = 0,
              !.level = IF s.pending.type = "REACTIVE" THEN 0 ELSE @]

\* The copies of one START carry one number; all but the first are ignored.
Start(pl, seq, g) ==
    IF seq = pl.lastStart THEN pl
    ELSE IF g \notin DOMAIN pl.slots THEN [pl EXCEPT !.lastStart = seq]
    ELSE IF pl.slots[g].pending = NoAnim THEN [pl EXCEPT !.lastStart = seq]
    ELSE [pl EXCEPT !.lastStart = seq, !.slots[g] = ActivatePending(@)]

\* control(ANIM_CTRL_STOP); group 0 is every slot.
ControlStop(pl, g) ==
    [pl EXCEPT !.slots = [h \in {h \in DOMAIN pl.slots : g # 0 /\ h # g} |-> pl.slots[h]]]

\* updateParams(PARAM_TRIGGER): the age of a reactive slot is the time since its trigger.
UpdateParams(pl, seq, g, value) ==
    IF seq = pl.lastParams THEN pl
    ELSE [pl EXCEPT !.lastParams = seq,
                    !.slots = [h \in DOMAIN @ |->
                                 IF g \in {0, h} /\ @[h].cur.type = "REACTIVE"
                                 THEN [@[h] EXCEPT !.level = value, !.age = 0] ELSE @[h]]]

\* SET_COLOR and SET_BACKGROUND both set what a panel with nothing to show falls back to.
SetBackground(pl, c) == [pl EXCEPT !.background = c]

TickReactive(s) ==
    IF s.level = 0 THEN [s EXCEPT !.age = 0]
    ELSE [s EXCEPT !.age = @ + 1, !.level = IF s.age + 1 >= s.level THEN 0 ELSE s.level - (s.age + 1)]

EndOf(a) == a.delay + a.dur

\* One frame of a slot, one unit later.  A looping animation takes its delay as a phase;
\* any other is transparent before its delay and holds its last frame after its end.
Frame(s) ==
    CASE s.cur = NoAnim -> s
      [] s.cur # NoAnim /\ s.cur.type = "REACTIVE" -> TickReactive(s)
      [] s.cur # NoAnim /\ s.cur.type # "REACTIVE" /\ s.cur.loop /\ s.cur.dur > 0 ->
            [s EXCEPT !.age = (@ + 1) % s.cur.dur]
      [] OTHER -> IF s.holding THEN s
                  ELSE IF s.age + 1 < EndOf(s.cur) THEN [s EXCEPT !.age = @ + 1]
                  ELSE [s EXCEPT !.age = EndOf(s.cur), !.holding = s.cur.dur > 0]

\* composite: a slot that ends and is marked so is freed, whatever is prepared in it.
Reaped(s) == Frame(s).holding /\ ~s.holding /\ s.cur.reap

Composite(pl) ==
    [pl EXCEPT !.slots = [g \in {h \in DOMAIN @ : ~Reaped(@[h])} |-> Frame(@[g])]]

InProgress(s) == s.cur # NoAnim /\ ~s.holding /\ (s.cur.loop \/ s.age < EndOf(s.cur))
=============================================================================
