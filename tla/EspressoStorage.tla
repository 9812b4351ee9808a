--------------------------- MODULE EspressoStorage ---------------------------
(***************************************************************************)
(* The storage of one Espresso node (espresso_storage.cc, espresso_data.cc *)
(* and espresso_state.cc): a data file of MaxSize bytes, a map from chunks *)
(* to the extents they occupy, and an ordered set of free extents.  A node *)
(* is single-threaded: a call is one step.                                 *)
(*                                                                         *)
(* deallocate_chunk keeps an iterator to the extent it erases when that    *)
(* extent follows the freed one, and steps it back afterwards.  That is    *)
(* undefined; the model lets it find the extent before, find none, or      *)
(* crash the node.                                                         *)
(***************************************************************************)
EXTENDS Integers, FiniteSets

CONSTANTS
    Chunks,         \* data descriptors
    Bytes,          \* byte values
    Zero,           \* the byte a hole in the data file reads as
    NoByte,         \* what is past the end of the data file
    MaxSize,        \* max_size of the data file
    WriteArgs,      \* the <<offset, count>> of the writes Barista sends
    ReadArgs        \* the <<offset, count>> of the reads Barista sends

\* Barista never writes zero bytes at offset 0: the only empty piece of a write
\* is the one that starts at the end of a chunk, which the node may not have.
ASSUME ArgsAssumption ==
    /\ MaxSize \in Nat \ {0}
    /\ Zero \in Bytes /\ NoByte \notin Bytes
    /\ WriteArgs \subseteq Nat \X Nat
    /\ ReadArgs \subseteq Nat \X Nat
    /\ \A w \in WriteArgs : w[1] + w[2] > 0

VARIABLES
    metadata,       \* chunk -> data_address
    free_extents,   \* set of data_address, ordered by offset
    disk,           \* the data file, which ends where the last write ended
    alive,          \* FALSE once the process has crashed
    last            \* the last reply: call, count asked, result, bytes read

vars == <<metadata, free_extents, disk, alive, last>>

Addresses == [offset : 0 .. MaxSize, size : 0 .. MaxSize]

Nothing == [i \in {} |-> 0]

\* The count or -1 the call returns and, for a read, the bytes in buf.
Reply(op, asked, result, data) ==
    last' = [op |-> op, asked |-> asked, result |-> result, data |-> data]

-------------------------------------------------------------------------------
(* The ordered set of extents.  operator< compares offsets only, so an     *)
(* insertion at an offset that is there already does nothing.              *)

Insert(F, a) == IF \E e \in F : e.offset = a.offset THEN F ELSE F \cup {a}

\* lower_bound(a): the first extent at or after a's offset, if any.
LowerBound(F, a) ==
    {e \in F : /\ e.offset >= a.offset
               /\ \A g \in F : g.offset >= a.offset => e.offset <= g.offset}

\* What --lower_bound(a) points to: the last extent before a's offset, if any.
Before(F, a) ==
    {e \in F : /\ e.offset < a.offset
               /\ \A g \in F : g.offset < a.offset => g.offset <= e.offset}

-------------------------------------------------------------------------------
(* allocate_chunk: first fit *)

Fits(F, size) == {e \in F : size <= e.size}

CanAllocate(F, size) == Fits(F, size) # {}

FirstFit(F, size) ==
    CHOOSE e \in Fits(F, size) : \A g \in Fits(F, size) : e.offset <= g.offset

Allocated(F, size) == [offset |-> FirstFit(F, size).offset, size |-> size]

\* A mistake: what is left of the extent keeps the size of the whole.
AllocateFromUnshrunk(F, size) ==
    LET it == FirstFit(F, size)
    IN  Insert(F, [offset |-> it.offset + size, size |-> it.size]) \ {it}

AllocateFrom(F, size) ==
    LET it == FirstFit(F, size)
        extra == [offset |-> it.offset + size, size |-> it.size - size]
    IN  (IF size < it.size THEN Insert(F, extra) ELSE F) \ {it}

-------------------------------------------------------------------------------
(* deallocate_chunk *)

\* The extent that follows a without a gap, if lower_bound finds it.
AdjacentAfter(F, a) == {e \in LowerBound(F, a) : e.offset = a.offset + a.size}

AdjacentBefore(F, a) == {e \in Before(F, a) : e.offset + e.size = a.offset}

MergeAfter(F, a) ==
    IF AdjacentAfter(F, a) = {} THEN a
    ELSE [a EXCEPT !.size = @ + (CHOOSE e \in AdjacentAfter(F, a) : TRUE).size]

\* A mistake: the merged extent keeps the later offset.
MergeBeforeKeepsOffset(F, a) ==
    LET e == CHOOSE e \in AdjacentBefore(F, a) : TRUE
    IN  IF AdjacentBefore(F, a) = {} THEN a
        ELSE [offset |-> a.offset, size |-> a.size + e.size]

MergeBefore(F, a) ==
    LET e == CHOOSE e \in AdjacentBefore(F, a) : TRUE
    IN  IF AdjacentBefore(F, a) = {} THEN a
        ELSE [offset |-> e.offset, size |-> a.size + e.size]

\* The set's iterator is dangling once the following extent was erased.
IteratorDangles(F, a) == AdjacentAfter(F, a) # {}

\* The free sets deallocate_chunk may leave when it returns.
Deallocations(F, a) ==
    LET rest   == F \ AdjacentAfter(F, a)
        grown  == MergeAfter(F, a)
        merged == Insert(rest \ AdjacentBefore(F, a), MergeBefore(F, grown))
        single == Insert(rest, grown)
    IN  IF IteratorDangles(F, a) THEN {merged, single} ELSE {merged}

\* The free set when the process crashes on the dangling iterator.
CrashedDeallocation(F, a) == F \ AdjacentAfter(F, a)

-------------------------------------------------------------------------------
(* reallocate_chunk: what it does to the free set D that deallocate_chunk  *)
(* left when no extent is large enough.                                    *)

\* A mistake: the deallocation is not undone.
UndoNothing(D, a) == D

UndoDeallocation(D, a) ==
    LET here   == {e \in LowerBound(D, a) : e.offset = a.offset}
        it     == IF here # {} THEN CHOOSE e \in here : TRUE
                  ELSE CHOOSE e \in Before(D, a) : TRUE
        free_before == a.offset - it.offset
        tail   == [offset |-> a.offset + a.size,
                   size   |-> it.size - a.size - free_before]
        D1     == (IF tail.size > 0 THEN Insert(D, tail) ELSE D) \ {it}
    IN  IF here # {} THEN D1
        ELSE Insert(D1, [offset |-> it.offset, size |-> free_before])

-------------------------------------------------------------------------------
(* The data file *)

Span(a, offset, count) == a.offset + offset .. a.offset + offset + count - 1

\* Byte i of d as a write from position p on leaves it: a write past the end of
\* the file fills what lies between.
Reached(d, p, i) == IF i < p /\ d[i] = NoByte THEN Zero ELSE d[i]

\* write_data of count bytes b at offset of the extent a; none when count is 0.
WriteData(d, a, offset, count, b) ==
    [i \in DOMAIN d |-> IF i \in Span(a, offset, count) THEN b
                        ELSE IF count > 0 THEN Reached(d, a.offset + offset, i)
                        ELSE d[i]]

\* A mistake: the old contents stay behind.
CopyNothing(d, old, new, junk) == d

\* The byte at i of the extent a, if the file has it.
HasByte(d, a, i) == i < a.size /\ d[a.offset + i] # NoByte

\* write_chunk copies the old contents over and writes as many bytes as the
\* new extent has: those that were not read come from the uninitialized buffer
\* or from past it.
CopyOver(d, old, new, junk) ==
    [i \in DOMAIN d |->
        IF i \in Span(new, 0, new.size)
        THEN IF HasByte(d, old, i - new.offset) THEN d[old.offset + i - new.offset]
             ELSE junk[i - new.offset]
        ELSE Reached(d, new.offset, i)]

-------------------------------------------------------------------------------
(* Calls *)

Init == /\ metadata = Nothing
        /\ free_extents = {[offset |-> 0, size |-> MaxSize]}
        /\ disk = [i \in 0 .. MaxSize - 1 |-> NoByte]
        /\ alive = TRUE
        /\ last = [op |-> "none", asked |-> 0, result |-> 0, data |-> Nothing]

SetAddress(c, a) ==
    metadata' = [x \in DOMAIN metadata \cup {c} |->
                    IF x = c THEN a ELSE metadata[x]]

\* write_chunk to a chunk the node does not have.
WriteNew(c, offset, count, b) ==
    /\ c \notin DOMAIN metadata
    /\ CanAllocate(free_extents, offset + count)
    /\ LET a == Allocated(free_extents, offset + count)
       IN  /\ SetAddress(c, a)
           /\ disk' = WriteData(disk, a, offset, count, b)
    /\ free_extents' = AllocateFrom(free_extents, offset + count)
    /\ Reply("write", count, count, Nothing)

\* write_chunk within the chunk's present size.
WriteInPlace(c, offset, count, b) ==
    /\ c \in DOMAIN metadata
    /\ offset + count <= metadata[c].size
    /\ disk' = WriteData(disk, metadata[c], offset, count, b)
    /\ Reply("write", count, count, Nothing)
    /\ UNCHANGED <<metadata, free_extents>>

Grows(c, offset, count) ==
    c \in DOMAIN metadata /\ offset + count > metadata[c].size

\* The bytes of a copy of n bytes of chunk c that read_data did not fill in.
Unread(c, n) == {i \in 0 .. n - 1 : ~HasByte(disk, metadata[c], i)}

\* write_chunk past the chunk's size: read it, free it, which leaves the free
\* set D, allocate a larger extent, write the old bytes back and then the new
\* ones.
GrowFrom(D, c, offset, count, b) ==
    /\ CanAllocate(D, offset + count)
    /\ LET a == Allocated(D, offset + count)
       IN  /\ SetAddress(c, a)
           /\ \E junk \in [Unread(c, offset + count) -> Bytes] :
                disk' = WriteData(CopyOver(disk, metadata[c], a, junk),
                                  a, offset, count, b)
    /\ free_extents' = AllocateFrom(D, offset + count)
    /\ Reply("write", count, count, Nothing)

WriteGrow(c, offset, count, b) ==
    /\ Grows(c, offset, count)
    /\ \E D \in Deallocations(free_extents, metadata[c]) :
        GrowFrom(D, c, offset, count, b)

\* write_chunk when no extent is large enough: for a new chunk, and for a
\* growing one, whose deallocation has left the free set D.
NewFull(c, offset, count) ==
    /\ c \notin DOMAIN metadata
    /\ ~CanAllocate(free_extents, offset + count)
    /\ UNCHANGED free_extents

GrowFull(D, c, offset, count) ==
    /\ ~CanAllocate(D, offset + count)
    /\ free_extents' = UndoDeallocation(D, metadata[c])

WriteFull(c, offset, count) ==
    /\ \/ NewFull(c, offset, count)
       \/ /\ Grows(c, offset, count)
          /\ \E D \in Deallocations(free_extents, metadata[c]) :
                GrowFull(D, c, offset, count)
    /\ Reply("write", count, -1, Nothing)
    /\ UNCHANGED <<metadata, disk>>

write_chunk(c, offset, count, b) ==
    /\ alive
    /\ \/ WriteNew(c, offset, count, b)
       \/ WriteInPlace(c, offset, count, b)
       \/ WriteGrow(c, offset, count, b)
       \/ WriteFull(c, offset, count)
    /\ UNCHANGED alive

\* The numbers of bytes read(2) may return when n are asked for at position p of
\* the file: n, or what there is before its end.
ReadCounts(p, n) ==
    {m \in 0 .. n : /\ \A i \in 0 .. m - 1 : disk[p + i] # NoByte
                    /\ m < n => disk[p + m] = NoByte}

\* read_chunk clips the count to the end of the chunk.  A chunk may reach past
\* the end of the data file, when it was made by an empty write.
ReadClipped(c, offset, count) ==
    /\ c \in DOMAIN metadata
    /\ offset <= metadata[c].size
    /\ LET a == metadata[c]
           n == IF count > a.size - offset THEN a.size - offset ELSE count
       IN  \E m \in ReadCounts(a.offset + offset, n) :
              Reply("read", count, m,
                    [i \in 0 .. m - 1 |-> disk[a.offset + offset + i]])

\* Past the end of the chunk, the negative count makes read(2) fail.
ReadFails(c, offset, count) ==
    /\ c \in DOMAIN metadata => offset > metadata[c].size
    /\ Reply("read", count, -1, Nothing)

read_chunk(c, offset, count) ==
    /\ alive
    /\ ReadClipped(c, offset, count) \/ ReadFails(c, offset, count)
    /\ UNCHANGED <<metadata, free_extents, disk, alive>>

delete_chunk(c) ==
    /\ alive
    /\ \/ /\ c \in DOMAIN metadata
          /\ free_extents' \in Deallocations(free_extents, metadata[c])
          /\ metadata' = [x \in DOMAIN metadata \ {c} |-> metadata[x]]
          /\ Reply("delete", 0, 0, Nothing)
       \/ /\ c \notin DOMAIN metadata
          /\ Reply("delete", 0, -1, Nothing)
          /\ UNCHANGED <<metadata, free_extents>>
    /\ UNCHANGED <<disk, alive>>

\* delete_chunk, or a write that grows the chunk, crashes in deallocate_chunk.
CrashInDeallocate(c) ==
    /\ alive
    /\ c \in DOMAIN metadata
    /\ IteratorDangles(free_extents, metadata[c])
    /\ free_extents' = CrashedDeallocation(free_extents, metadata[c])
    /\ alive' = FALSE
    /\ UNCHANGED <<metadata, disk, last>>

Next == \E c \in Chunks :
            \/ \E w \in WriteArgs, b \in Bytes : write_chunk(c, w[1], w[2], b)
            \/ \E r \in ReadArgs : read_chunk(c, r[1], r[2])
            \/ delete_chunk(c)
            \/ CrashInDeallocate(c)

Spec == Init /\ [][Next]_vars

-------------------------------------------------------------------------------
(* Properties *)

TypeOK == /\ DOMAIN metadata \subseteq Chunks
          /\ \A c \in DOMAIN metadata : metadata[c] \in Addresses
          /\ free_extents \subseteq Addresses
          /\ disk \in [0 .. MaxSize - 1 -> Bytes \cup {NoByte}]
          /\ alive \in BOOLEAN

Covers(a, i) == a.offset <= i /\ i < a.offset + a.size

Apart(a, b) == a.offset + a.size <= b.offset \/ b.offset + b.size <= a.offset

\* Every byte of the data file belongs to exactly one extent, free or of a
\* chunk: allocation, growth, its undoing when the disk is full, and
\* deallocation with any combination of merges neither lose space nor give a
\* byte to two chunks.
Partition ==
    alive =>
        /\ \A e, g \in free_extents : e # g => Apart(e, g)
        /\ \A c, d \in DOMAIN metadata :
              c # d => Apart(metadata[c], metadata[d])
        /\ \A e \in free_extents, c \in DOMAIN metadata :
              Apart(e, metadata[c])
        /\ \A i \in 0 .. MaxSize - 1 :
              \/ \E e \in free_extents : Covers(e, i)
              \/ \E c \in DOMAIN metadata : Covers(metadata[c], i)

\* A write that fails for lack of space leaves the free bytes as they were,
\* though the chunk was freed and taken back on the way.
FailedWriteKeepsSpace ==
    [][last'.op = "write" /\ last'.result = -1 /\ alive' =>
        \A i \in 0 .. MaxSize - 1 :
            (\E e \in free_extents : Covers(e, i))
                <=> (\E e \in free_extents' : Covers(e, i))]_vars

\* The node implements ChunkStore when a chunk's content is read through its
\* extent: a write never touches another chunk's bytes, growth moves the old
\* bytes along, a failed call and a crash change no content.  What an empty write
\* or a gap leaves in a chunk is no byte until the data file reaches there.
Content == [c \in DOMAIN metadata |->
                [i \in 0 .. metadata[c].size - 1 |->
                    disk[metadata[c].offset + i]]]

Abstract == INSTANCE ChunkStore WITH content <- Content

\* The refinement, as the property a run checks.
ImplementsChunkStore == Abstract!Spec
===============================================================================
