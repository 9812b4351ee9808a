------------------------------- MODULE Striping -------------------------------
(***************************************************************************)
(* How a range of a file becomes a list of pieces of chunks: the stripe    *)
(* loop of read_file and write_file over the chunk loop of                 *)
(* process_read_stripe and process_write_stripe.  Stripes are numbered     *)
(* from 1 in a file, chunks from 1 in a stripe.                            *)
(***************************************************************************)
EXTENDS Naturals, Sequences, SequencesExt

\* Mistakes: the position in the unit is lost; units are numbered from 0.
FirstUnitAtStart(size, offset) == [id |-> offset \div size + 1, offset |-> 0]

FirstUnitFromZero(size, offset) ==
    [id |-> offset \div size, offset |-> offset % size]

\* get_first_stripe and get_first_chunk: the unit that holds an offset and the
\* offset in it.  An offset at the end of a unit stays in that unit.
FirstUnit(size, offset) ==
    LET at[o \in Nat] == IF o > size
                         THEN [at[o - size] EXCEPT !.id = @ + 1]
                         ELSE [id |-> 1, offset |-> o]
    IN  at[offset]

\* The loop that walks count bytes through units of the given size: each turn
\* takes what is left, or what is left of the unit, and moves to the next.
\* `from' is the position of the piece in the request.
Pieces(size, offset, count) ==
    LET first == FirstUnit(size, offset)
        \* p = <<unit, offset in it, bytes done>>
        walk[p \in Nat \X (0 .. size) \X (0 .. count)] ==
            IF p[3] >= count THEN <<>>
            ELSE LET left == size - p[2]
                     n == IF count - p[3] > left THEN left ELSE count - p[3]
                 IN  <<[id |-> p[1], offset |-> p[2], count |-> n, from |-> p[3]]>>
                        \o walk[<<p[1] + 1, 0, p[3] + n>>]
    IN  walk[<<first.id, first.offset, 0>>]

\* A mistake: every stripe takes its bytes from the start of the request.
StripeSpansFromStart(chunk_size, s) ==
    LET chunks == Pieces(chunk_size, s.offset, s.count)
    IN  [i \in DOMAIN chunks |->
            [stripe |-> s.id, chunk |-> chunks[i].id,
             offset |-> chunks[i].offset, count |-> chunks[i].count,
             from |-> chunks[i].from]]

\* A mistake: the chunk number does not move on.
StripeSpansSameChunk(chunk_size, s) ==
    LET chunks == Pieces(chunk_size, s.offset, s.count)
    IN  [i \in DOMAIN chunks |->
            [stripe |-> s.id, chunk |-> chunks[1].id,
             offset |-> chunks[i].offset, count |-> chunks[i].count,
             from |-> s.from + chunks[i].from]]

\* The chunk pieces of one stripe piece.
StripeSpans(chunk_size, s) ==
    LET chunks == Pieces(chunk_size, s.offset, s.count)
    IN  [i \in DOMAIN chunks |->
            [stripe |-> s.id, chunk |-> chunks[i].id,
             offset |-> chunks[i].offset, count |-> chunks[i].count,
             from |-> s.from + chunks[i].from]]

\* All chunk pieces of count bytes at offset, in the order they are sent.
Spans(stripe_size, chunk_size, offset, count) ==
    FoldLeft(LAMBDA q, s : q \o StripeSpans(chunk_size, s), <<>>,
             Pieces(stripe_size, offset, count))
===============================================================================
