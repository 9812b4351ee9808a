------------------------------- MODULE ChunkMap -------------------------------
(***************************************************************************)
(* Barista's ordered maps keyed by struct file_chunk: chunk_to_node,       *)
(* chunk_to_replica_node and the response packets of a read.  A std::map   *)
(* takes two keys for the same when neither is less than the other, and    *)
(* file_chunk's operator< compares the left FILE id with the right STRIPE  *)
(* id when the stripes differ.  A chunk is <<file, stripe, chunk>>.        *)
(***************************************************************************)
EXTENDS Naturals, Sequences, SequencesExt

\* A mistake: chunk numbers before stripes.
ChunkLessByChunk(l, r) ==
    IF l[1] # r[1] THEN l[1] < r[1]
    ELSE IF l[3] # r[3] THEN l[3] < r[3]
    ELSE l[2] < r[2]

\* operator< of struct file_chunk.
ChunkLess(l, r) ==
    IF l[1] # r[1] THEN l[1] < r[1]
    ELSE IF l[2] # r[2] THEN l[1] < r[2]
    ELSE l[3] < r[3]

SameKey(l, r) == ~ChunkLess(l, r) /\ ~ChunkLess(r, l)

\* What std::map requires of its comparison.
StrictWeakOrder(S) ==
    /\ \A x \in S : ~ChunkLess(x, x)
    /\ \A x, y \in S : ChunkLess(x, y) => ~ChunkLess(y, x)
    /\ \A x, y, z \in S : ChunkLess(x, y) /\ ChunkLess(y, z) => ChunkLess(x, z)
    /\ \A x, y, z \in S : SameKey(x, y) /\ SameKey(y, z) => SameKey(x, z)

EmptyMap == [x \in {} |-> x]

Has(m, k) == \E x \in DOMAIN m : SameKey(x, k)

KeyFor(m, k) == CHOOSE x \in DOMAIN m : SameKey(x, k)

Get(m, k) == m[KeyFor(m, k)]

\* m[k] = v: an entry with an equivalent key keeps its key.
Put(m, k, v) ==
    LET key == IF Has(m, k) THEN KeyFor(m, k) ELSE k
    IN  [x \in DOMAIN m \cup {key} |-> IF x = key THEN v ELSE m[x]]

Erase(m, k) == [x \in {y \in DOMAIN m : ~SameKey(y, k)} |-> m[x]]

\* Keys in iteration order: the one with i - 1 keys before it is the i-th.
Sorted(S) == [i \in 1 .. Cardinality(S) |->
                CHOOSE k \in S : Cardinality({x \in S : ChunkLess(x, k)}) = i - 1]

InOrder(m) == Sorted(DOMAIN m)
===============================================================================
