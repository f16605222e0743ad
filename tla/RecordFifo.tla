------------------------------- MODULE RecordFifo -------------------------------
(***************************************************************************)
(* What a queue of records promises one producer and one consumer: what is *)
(* taken is what was put, whole, once and in order.                        *)
(* SpscByteQueue implements it.                                            *)
(***************************************************************************)
EXTENDS Sequences

CONSTANT Records

VARIABLES
    queue,   \* the records put and not yet taken, oldest first
    taken    \* the record taken last, <<>> before the first

FifoInit == queue = <<>> /\ taken = <<>>

Put ==
    /\ \E rec \in Records : queue' = Append(queue, rec)
    /\ UNCHANGED taken

Take ==
    /\ queue # <<>>
    /\ taken' = Head(queue)
    /\ queue' = Tail(queue)

FifoNext == Put \/ Take
FifoSpec == FifoInit /\ [][FifoNext]_<<queue, taken>>

=============================================================================
