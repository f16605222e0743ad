----------------------------- MODULE SpscByteQueue -----------------------------
(***************************************************************************)
(* The byte ring shared by one producer and one consumer without a lock.   *)
(* A record is a two-byte length followed by its bytes, and may wrap.      *)
(* push() and pop() are cut at every access to what the two share: the     *)
(* other side's offset and each byte of the buffer.                        *)
(***************************************************************************)
EXTENDS Integers, Sequences

CONSTANTS
    Capacity,   \* CapacityBytes
    Base,       \* values of a byte (256)
    Records,    \* what may be pushed
    OutCap      \* outCap of the consumer's pop()

Byte  == 0 .. Base - 1
Index == 0 .. Capacity - 1
HEADER == 2

ASSUME RingAssumption == Capacity \in Nat /\ Capacity > HEADER /\ Base \in Nat /\ Base > 1
\* Callers push no empty record, none whose size does not fit the two bytes of the
\* header or of need, and none longer than what the consumer has room for.
ASSUME RecordsAssumption ==
    \A rec \in Records : /\ rec \in Seq(Byte) /\ rec # <<>>
                         /\ Len(rec) \div Base < Base /\ HEADER + Len(rec) < Base * Base
                         /\ Len(rec) <= OutCap
ASSUME OutCapAssumption == OutCap \in Nat

VARIABLES
    buf, w, r,  \* _buf, _w, _r
    pushing,    \* the record push() is writing, <<>> outside push()
    put,        \* bytes of it written
    wp,         \* p of push()
    popping,    \* pop() is reading
    got,        \* bytes it has read, the length first
    rp,         \* p of pop()
    taken,      \* what the last pop() returned
    \* what the ring should hold, for comparison only
    queue,      \* the records published and not yet released
    starts      \* where each of them begins

producerVars == <<w, pushing, put, wp>>
consumerVars == <<r, popping, got, rp, taken>>
vars == <<buf, producerVars, consumerVars, queue, starts>>

\* put(), get(): the offset after p.
Step(p) == IF p + 1 = Capacity THEN 0 ELSE p + 1

\* Bytes from offset a up to offset b.
Dist(a, b) == IF b >= a THEN b - a ELSE Capacity - a + b

\* Mutated form: a ring that has wrapped is taken for one that has not.
FreeNoWrap == Capacity - 1 - (w - r)
\* One byte stays unused: w = r means empty.
Free == Capacity - 1 - Dist(r, w)

\* A record as it lies in the ring.
Encoded(rec) == <<Len(rec) % Base, Len(rec) \div Base>> \o rec

Init ==
    /\ buf \in [Index -> {0}]
    /\ w = 0 /\ pushing = <<>> /\ put = 0 /\ wp = 0
    /\ r = 0 /\ popping = FALSE /\ got = <<>> /\ rp = 0 /\ taken = <<>>
    /\ queue = <<>> /\ starts = <<>>

-----------------------------------------------------------------------------
(* push(), for a record that fits; otherwise it returns with nothing done.  *)

PushStart ==
    /\ pushing = <<>>
    /\ \E rec \in Records : HEADER + Len(rec) <= Free /\ pushing' = rec
    /\ put' = 0 /\ wp' = w
    /\ UNCHANGED <<buf, w, consumerVars, queue, starts>>

PutByte ==
    /\ pushing # <<>> /\ put < HEADER + Len(pushing)
    /\ buf' = [buf EXCEPT ![wp] = Encoded(pushing)[put + 1]]
    /\ put' = put + 1 /\ wp' = Step(wp)
    /\ UNCHANGED <<w, pushing, consumerVars, queue, starts>>

\* Mutated form: the record is published before its last byte is written.
PushPublishEarly ==
    /\ pushing # <<>> /\ put >= HEADER + Len(pushing) - 1
    /\ w' = IF put = HEADER + Len(pushing) THEN wp ELSE Step(wp)
    /\ pushing' = <<>> /\ put' = 0 /\ wp' = w'
    /\ queue' = Append(queue, pushing) /\ starts' = Append(starts, w)
    /\ UNCHANGED <<buf, consumerVars>>

PushPublish ==
    /\ pushing # <<>> /\ put = HEADER + Len(pushing)
    /\ w' = wp /\ pushing' = <<>> /\ put' = 0
    /\ queue' = Append(queue, pushing) /\ starts' = Append(starts, w)
    /\ UNCHANGED <<buf, wp, consumerVars>>

-----------------------------------------------------------------------------
(* pop(), for a ring that is not empty; otherwise it returns 0.             *)

PopStart ==
    /\ ~popping /\ w # r
    /\ popping' = TRUE /\ got' = <<>> /\ rp' = r
    /\ UNCHANGED <<buf, producerVars, r, taken, queue, starts>>

\* The length has been read, and all it announces.
Whole == Len(got) >= HEADER /\ Len(got) = HEADER + got[1] + Base * got[2]

GetByte ==
    /\ popping /\ ~Whole
    /\ got' = Append(got, buf[rp]) /\ rp' = Step(rp)
    /\ UNCHANGED <<buf, producerVars, r, popping, taken, queue, starts>>

PopPublish ==
    /\ popping /\ Whole
    /\ r' = rp /\ popping' = FALSE /\ got' = <<>>
    /\ taken' = SubSeq(got, HEADER + 1, IF Len(got) - HEADER <= OutCap THEN Len(got)
                                        ELSE HEADER + OutCap)
    /\ queue' = IF queue = <<>> THEN <<>> ELSE Tail(queue)
    /\ starts' = IF starts = <<>> THEN <<>> ELSE Tail(starts)
    /\ UNCHANGED <<buf, producerVars, rp>>

-----------------------------------------------------------------------------
Producer == PushStart \/ PutByte \/ PushPublish
Consumer == PopStart \/ GetByte \/ PopPublish
Next == Producer \/ Consumer

Spec == Init /\ [][Next]_vars

-----------------------------------------------------------------------------
(* Properties.                                                              *)

\* The values every variable keeps to.
TypeOK ==
    /\ buf \in [Index -> Byte]
    /\ w \in Index /\ r \in Index /\ wp \in Index /\ rp \in Index
    /\ pushing \in Records \cup {<<>>} /\ put \in 0 .. Capacity
    /\ popping \in BOOLEAN /\ got \in Seq(Byte)
    /\ taken \in Seq(Byte)
    /\ queue \in Seq(Records) /\ starts \in Seq(Index)

Fifo == INSTANCE RecordFifo

\* However push() and pop() interleave, byte by byte, what pop() returns are the
\* records pushed, whole, once and in order (publish after the last byte written,
\* release after the last byte read).
ImplementsFifo == Fifo!FifoSpec

\* push() writes only bytes that hold no record published and not released, the
\* one being read included.
WritesOnlyFreeBytes == [][buf' # buf => Dist(r, wp) >= Dist(r, w)]_vars

\* Bytes of the first k records.
Occupied[k \in Nat] == IF k = 0 THEN 0 ELSE Occupied[k - 1] + HEADER + Len(queue[k])

=============================================================================
