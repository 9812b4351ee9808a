------------------------------ MODULE FileLayout ------------------------------
(***************************************************************************)
(* A file written by successive appends of any sizes and read back in any  *)
(* ranges, through the pieces of Striping: does the same byte always live  *)
(* in the same place?  Stripe and chunk sizes are fixed when the file is   *)
(* created (add_file); the chunk size need not divide the stripe size, nor *)
(* be the smaller of the two.  What a read joins its answers by is the     *)
(* order of struct file_chunk, so the file has an id too.  The             *)
(* specification's parts have names of their own, so that one module can   *)
(* reason about it and the locks.                                          *)
(***************************************************************************)
EXTENDS Striping

CONSTANTS StripeSizes, ChunkSizes, Counts,
          FileIds,  \* ids the file may have
          MaxFile   \* bound on the size of the file

ASSUME SizesAssumption == /\ StripeSizes \subseteq Nat \ {0}
                          /\ ChunkSizes \subseteq Nat \ {0}
                          /\ Counts \subseteq Nat
                          /\ FileIds \subseteq Nat

\* The order of the maps Barista keeps chunks in.
ChunkOrder == INSTANCE ChunkMap

VARIABLES stripe_size, chunk_size,
          size,     \* bytes in the file
          where     \* where each byte was put: its stripe, chunk and offset

layout_vars == <<stripe_size, chunk_size, size, where>>

FileInit == /\ stripe_size \in StripeSizes
            /\ chunk_size \in ChunkSizes
            /\ size = 0
            /\ where = <<>>

\* The places of the bytes of a piece.
BytesOf(s) == [k \in 1 .. s.count |-> <<s.stripe, s.chunk, s.offset + k - 1>>]

\* The places of count bytes at offset, in the order of the pieces.
Places(offset, count) ==
    FoldLeft(LAMBDA q, s : q \o BytesOf(s), <<>>,
             Spans(stripe_size, chunk_size, offset, count))

\* write_file at the end of the file.
AppendBytes(count) == /\ size + count <= MaxFile
                      /\ where' = where \o Places(size, count)
                      /\ size' = size + count
                      /\ UNCHANGED <<stripe_size, chunk_size>>

FileNext == \E count \in Counts : AppendBytes(count)

FileSpec == FileInit /\ [][FileNext]_layout_vars

\* Whatever appends built the file, byte k is in stripe k / stripe_size, at
\* the chunk and offset that k's position in the stripe gives: the loops,
\* which start a range that begins at a unit's end in the unit before, agree
\* with plain division, also for a last chunk cut short by the stripe.
BytesWhereDivisionPutsThem ==
    /\ Len(where) = size
    /\ \A k \in 0 .. size - 1 :
        LET r == k % stripe_size
        IN  where[k + 1] = <<k \div stripe_size + 1, r \div chunk_size + 1,
                             r % chunk_size>>

\* A read of any range asks for the bytes of that range, each once and in
\* file order, wherever the boundaries of the writes were.
ReadsAskForTheRange ==
    \A offset \in 0 .. size : \A count \in 1 .. size - offset :
        Places(offset, count) = SubSeq(where, offset + 1, offset + count)

\* A read that the order of struct file_chunk does not disturb: one that stays
\* in a stripe, or goes from stripe f of file f to the next.
KeysAgree(f, s) == \/ \A i, j \in DOMAIN s : s[i].stripe = s[j].stripe
                   \/ \A i \in DOMAIN s : s[i].stripe \in {f, f + 1}

\* read_file asks for pieces in file order and joins the answers in the order
\* of a std::map under file_chunk's operator<, which for stripes s < t of file
\* f holds as it should only when s <= f < t.  For the reads above the two
\* orders are one and no two pieces have the same key, wherever the range
\* starts and ends.  Of other reads this says nothing: there the keys of two
\* stripes are one, or each is less than the other (see MCBaristaKeys.cfg).
PiecesInKeyOrder ==
    \A offset \in 0 .. size : \A count \in 1 .. size - offset : \A f \in FileIds :
        LET s == Spans(stripe_size, chunk_size, offset, count)
            key(i) == <<f, s[i].stripe, s[i].chunk>>
        IN  KeysAgree(f, s) =>
                \A i, j \in DOMAIN s : i < j =>
                    /\ ChunkOrder!ChunkLess(key(i), key(j))
                    /\ ~ChunkOrder!ChunkLess(key(j), key(i))
===============================================================================
