------------------------------ MODULE SlotFile ------------------------------
(***************************************************************************)
(* Database<Codec> over a FsRandomAccessStorage, as operators on the       *)
(* contents of a file.  Behind a header lie slots of a flag byte and a     *)
(* payload.  A file is [version, cells]: the header's model version, 0     *)
(* when the file is missing or too short, and one cell for each flag and   *)
(* each payload.  A zero byte is a live flag, and zeros are the payload of *)
(* no record.  A mutation is the sequence of the writes it makes, so that  *)
(* one that fails half-way is a prefix.                                    *)
(***************************************************************************)
EXTENDS Integers, SequencesExt

CONSTANTS
    Keys,         \* scene ids or palette names
    Vals,         \* what a record holds besides its key
    FlagBitSet    \* records whose byte at a flag's place would have FLAG_DELETED set

ZERO == [key |-> "zero", val |-> "zero"]
DELETED == [key |-> "deleted", val |-> "deleted"]
NotFound == [key |-> "none", val |-> "none"]

Record == [key : Keys, val : Vals]

ASSUME SlotAssumption == {"zero", "deleted", "none"} \cap Keys = {} /\ FlagBitSet \subseteq Record

Cell == Record \cup {ZERO, DELETED}

NoFile == [version |-> 0, cells |-> <<>>]

SlotCount(cells) == Len(cells) \div 2
FlagAt(slot) == 2 * slot - 1
PayloadAt(slot) == 2 * slot

\* FLAG_DELETED of whatever byte lies at the flag's place.
IsDeleted(cell) == cell = DELETED \/ cell \in FlagBitSet

LiveSlots(cells) ==
    {s \in 1..SlotCount(cells) : ~IsDeleted(cells[FlagAt(s)])}

Tombstones(cells) == 1..SlotCount(cells) \ LiveSlots(cells)

\* foreachLive with the lookup callback of findById: the scan goes on after a match, so
\* the last one counts.
Matches(cells, key) == {s \in LiveSlots(cells) : cells[PayloadAt(s)].key = key}
Exists(cells, key) == Matches(cells, key) # {}
FindSlot(cells, key) == Max(Matches(cells, key))

Read(cells, key) ==
    IF Exists(cells, key) THEN cells[PayloadAt(FindSlot(cells, key))] ELSE NotFound

\* foreachMeta: the keys of the live slots in the order of the file, without the hidden one.
Listing(cells, hidden) ==
    LET upTo[s \in 0..SlotCount(cells)] ==
            IF s = 0 THEN <<>>
            ELSE IF s \in LiveSlots(cells) /\ cells[PayloadAt(s)].key # hidden
            THEN Append(upTo[s - 1], cells[PayloadAt(s)].key)
            ELSE upTo[s - 1]
    IN upTo[SlotCount(cells)]

(***************************************************************************)
(* Mutations                                                               *)
(***************************************************************************)
WriteLiveRecordSlot(at, rec) ==
    << [at |-> at, cell |-> ZERO], [at |-> at + 1, cell |-> rec] >>

\* The file is grown by zero bytes first; the new slot starts at the end of the file,
\* whether or not that is a multiple of the slot size.
AppendRecordSlot(cells, rec) ==
    LET at == Len(cells) + 1
    IN << [at |-> at, cell |-> ZERO], [at |-> at + 1, cell |-> ZERO] >>
         \o WriteLiveRecordSlot(at, rec)

InsertWrites(cells, rec) ==
    IF Tombstones(cells) # {}
    THEN WriteLiveRecordSlot(FlagAt(Min(Tombstones(cells))), rec)
    ELSE AppendRecordSlot(cells, rec)

ReplaceWrites(slot, rec) == << [at |-> PayloadAt(slot), cell |-> rec] >>

RemoveWrites(slot) == << [at |-> FlagAt(slot), cell |-> DELETED] >>

Write(cells, w) ==
    IF w.at <= Len(cells) THEN [cells EXCEPT ![w.at] = w.cell] ELSE Append(cells, w.cell)

Apply(cells, writes) ==
    LET after[n \in 0..Len(writes)] ==
            IF n = 0 THEN cells ELSE Write(after[n - 1], writes[n])
    IN after[Len(writes)]

\* Mutant: the copy is taken from the place it is meant for.
MovedFromPlace(cells, n, s) ==
    IF s = n THEN cells ELSE Apply(cells, WriteLiveRecordSlot(FlagAt(n), cells[PayloadAt(n)]))

\* A slot already in its place is skipped.
Moved(cells, n, s) ==
    IF s = n THEN cells ELSE Apply(cells, WriteLiveRecordSlot(FlagAt(n), cells[PayloadAt(s)]))

\* compact goes through the slots once and moves the live ones to the front; what is kept
\* ends at writeOffset.
Compacted(cells) ==
    LET after[s \in 0..SlotCount(cells)] ==
            IF s = 0 THEN [cells |-> cells, kept |-> 0]
            ELSE LET b == after[s - 1]
                 IN IF IsDeleted(b.cells[FlagAt(s)]) THEN b
                    ELSE [cells |-> Moved(b.cells, b.kept + 1, s), kept |-> b.kept + 1]
    IN after[SlotCount(cells)]

\* truncate(writeOffset) at the end of compact: what is kept only.
Shrink(cells, kept) == SubSeq(cells, 1, 2 * kept)

\* ensureOpen: a file that is missing, too short or of another version is made anew.
EnsureOpen(file, version) ==
    IF file.version = version THEN file ELSE [version |-> version, cells |-> <<>>]

=============================================================================
