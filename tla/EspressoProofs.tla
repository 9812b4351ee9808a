---------------------------- MODULE EspressoProofs ----------------------------
(***************************************************************************)
(* The safety of a node's storage, its refinement of ChunkStore, and what  *)
(* a restart finds, for data files of any size, any chunks and any         *)
(* arguments Barista sends.                                                *)
(***************************************************************************)
EXTENDS EspressoRestart, FiniteSetTheorems, WellFoundedInduction, TLAPS

-------------------------------------------------------------------------------
(* The inductive invariant *)

\* The extents that lie in the data file and are not empty.
Extents == {a \in Addresses : a.size > 0 /\ a.offset + a.size <= MaxSize}

\* Byte i belongs to an extent of F.
Covered(F, i) == \E e \in F : Covers(e, i)

\* No two extents of F overlap; so no two have the same offset, which is all
\* that operator< compares.
GoodFree(F) == /\ F \subseteq Extents
               /\ \A e, g \in F : e # g => Apart(e, g)

\* Byte i belongs to a chunk.
InChunk(i) == \E c \in DOMAIN metadata : Covers(metadata[c], i)

\* Chunks have extents that do not overlap.
GoodChunks ==
    /\ DOMAIN metadata \subseteq Chunks
    /\ \A c \in DOMAIN metadata : metadata[c] \in Extents
    /\ \A c, d \in DOMAIN metadata : c # d => Apart(metadata[c], metadata[d])

\* What the data file may have at a place.
Cells == Bytes \cup {NoByte}

\* The free extents stay apart from the chunks even in a crash; it only loses
\* space.
IInv ==
    /\ GoodChunks
    /\ GoodFree(free_extents)
    /\ \A e \in free_extents, c \in DOMAIN metadata : Apart(e, metadata[c])
    /\ disk \in [0 .. MaxSize - 1 -> Cells]
    /\ alive \in BOOLEAN
    /\ alive => \A i \in 0 .. MaxSize - 1 : Covered(free_extents, i) \/ InChunk(i)

-------------------------------------------------------------------------------
(* Extents *)

\* What an extent's fields are.
LEMMA ExtentFields ==
    ASSUME NEW a
    PROVE  a \in Extents <=>
             /\ a \in [offset : Nat, size : Nat]
             /\ a.offset \in Nat /\ a.size \in Nat
             /\ a.size > 0 /\ a.offset + a.size <= MaxSize
  BY ArgsAssumption DEF Extents, Addresses

\* A record of two numbers that fit is an extent.
LEMMA MakeExtent ==
    ASSUME NEW o \in Nat, NEW s \in Nat, s > 0, o + s <= MaxSize
    PROVE  [offset |-> o, size |-> s] \in Extents
  BY ExtentFields

\* Two extents are apart when they have no byte in common.
LEMMA ApartBytes ==
    ASSUME NEW a \in Extents, NEW b \in Extents
    PROVE  /\ Apart(a, b) <=> Apart(b, a)
           /\ Apart(a, b) <=> \A i \in Nat : ~(Covers(a, i) /\ Covers(b, i))
<1>1. /\ a.offset \in Nat /\ a.size \in Nat /\ a.size > 0
      /\ b.offset \in Nat /\ b.size \in Nat /\ b.size > 0
  BY ExtentFields
<1>2. Apart(a, b) <=> Apart(b, a)
  BY DEF Apart
<1>3. ASSUME Apart(a, b) PROVE \A i \in Nat : ~(Covers(a, i) /\ Covers(b, i))
  BY <1>1, <1>3 DEF Apart, Covers
<1>4. ASSUME \A i \in Nat : ~(Covers(a, i) /\ Covers(b, i)) PROVE Apart(a, b)
  <2>1. ~(Covers(a, a.offset) /\ Covers(b, a.offset))
        /\ ~(Covers(a, b.offset) /\ Covers(b, b.offset))
    BY <1>1, <1>4
  <2> QED BY <1>1, <2>1 DEF Apart, Covers
<1> QED BY <1>2, <1>3, <1>4

\* An extent contains its first byte; two overlapping members of a good set
\* are one.
LEMMA SameExtent ==
    ASSUME NEW F, GoodFree(F), NEW e \in F, NEW g \in F,
           NEW i \in Nat, Covers(e, i), Covers(g, i)
    PROVE  e = g
  BY ApartBytes DEF GoodFree

LEMMA FirstByte ==
    ASSUME NEW a \in Extents
    PROVE  a.offset \in Nat /\ Covers(a, a.offset)
  BY ExtentFields DEF Covers

\* An extent is apart from all of F when F covers none of its bytes.
LEMMA ApartCovered ==
    ASSUME NEW F, F \subseteq Extents, NEW a \in Extents
    PROVE  (\A e \in F : Apart(e, a))
             <=> (\A i \in Nat : ~(Covered(F, i) /\ Covers(a, i)))
  BY ApartBytes DEF Covered

\* insert of an extent that is apart from the others puts it there.
LEMMA InsertGood ==
    ASSUME NEW F, GoodFree(F), NEW a \in Extents, \A e \in F : Apart(e, a)
    PROVE  /\ Insert(F, a) = F \cup {a}
           /\ GoodFree(F \cup {a})
           /\ a \notin F
           /\ \A i : Covered(F \cup {a}, i) <=> Covered(F, i) \/ Covers(a, i)
<1>1. \A e \in F : e.offset # a.offset
  <2> SUFFICES ASSUME NEW e \in F, e.offset = a.offset PROVE FALSE
    OBVIOUS
  <2>1. e \in Extents /\ Apart(e, a)
    BY DEF GoodFree
  <2> QED BY <2>1, ExtentFields DEF Apart
<1>2. \A e \in F : Apart(e, a) /\ Apart(a, e)
  BY ApartBytes DEF GoodFree
<1> QED BY <1>1, <1>2 DEF Insert, GoodFree, Covered

\* A good set without some extents is good and covers what the others cover.
LEMMA RemoveGood ==
    ASSUME NEW F, GoodFree(F), NEW e \in F
    PROVE  /\ GoodFree(F \ {e})
           /\ \A g \in F \ {e} : Apart(g, e)
           /\ \A i \in Nat : Covered(F \ {e}, i) <=> Covered(F, i) /\ ~Covers(e, i)
<1>1. GoodFree(F \ {e}) /\ \A g \in F \ {e} : Apart(g, e)
  BY DEF GoodFree
<1>2. ASSUME NEW i \in Nat
      PROVE  Covered(F \ {e}, i) <=> Covered(F, i) /\ ~Covers(e, i)
  BY SameExtent DEF Covered
<1> QED BY <1>1, <1>2

-------------------------------------------------------------------------------
(* Allocation *)

\* A nonempty set of numbers has a least one, so a nonempty set of extents has
\* a first one.
LEMMA LeastNat ==
    ASSUME NEW T \in SUBSET Nat, T # {}
    PROVE  \E x \in T : \A y \in T : x <= y
<1>1. PICK x \in T : \A y \in T : ~(<<y, x>> \in OpToRel(<, Nat))
  BY NatLessThanWellFounded, WFMin
<1>2. ASSUME NEW y \in T, y < x PROVE FALSE
  <2>1. <<y, x>> \in OpToRel(<, Nat)
    BY <1>2 DEF OpToRel
  <2> QED BY <1>1, <2>1
<1>3. \A y \in T : x <= y
  BY <1>2
<1> QED BY <1>3

LEMMA LeastOffset ==
    ASSUME NEW T, T \subseteq Extents, T # {}
    PROVE  \E e \in T : \A g \in T : e.offset <= g.offset
<1> DEFINE O == {e.offset : e \in T}
<1>1. O \in SUBSET Nat /\ O # {}
  BY ExtentFields
<1>2. \E x \in O : \A y \in O : x <= y
  BY <1>1, LeastNat
<1> QED BY <1>2

\* The first fit is a free extent that is large enough.
LEMMA FirstFitFits ==
    ASSUME NEW F, GoodFree(F), NEW size \in Nat, CanAllocate(F, size)
    PROVE  FirstFit(F, size) \in F /\ size <= FirstFit(F, size).size
<1>1. Fits(F, size) # {} /\ Fits(F, size) \subseteq Extents
  BY DEF CanAllocate, Fits, GoodFree
<1>2. FirstFit(F, size) \in Fits(F, size)
  BY <1>1, LeastOffset DEF FirstFit
<1> QED BY <1>2 DEF Fits

\* Allocation splits the free bytes into those of the chunk and the others.
LEMMA AllocateGood ==
    ASSUME NEW F, GoodFree(F), NEW size \in Nat, size > 0, CanAllocate(F, size)
    PROVE  /\ Allocated(F, size) \in Extents
           /\ Allocated(F, size).size = size
           /\ GoodFree(AllocateFrom(F, size))
           /\ \A i \in Nat : Covered(AllocateFrom(F, size), i)
                               <=> Covered(F, i) /\ ~Covers(Allocated(F, size), i)
           /\ \A i \in Nat : Covers(Allocated(F, size), i) => Covered(F, i)
<1> DEFINE it == FirstFit(F, size)
           a == [offset |-> it.offset, size |-> size]
           extra == [offset |-> it.offset + size, size |-> it.size - size]
<1>1. it \in F /\ it \in Extents /\ size <= it.size
  BY FirstFitFits DEF GoodFree
<1>2. it.offset \in Nat /\ it.size \in Nat /\ it.offset + it.size <= MaxSize
  BY <1>1, ExtentFields
<1>3. MaxSize \in Nat
  BY ArgsAssumption
<1> HIDE DEF it
<1>4. a \in Extents /\ \A i \in Nat : Covers(a, i) => Covers(it, i)
  <2>1. a \in Extents
    BY <1>1, <1>2, <1>3, MakeExtent
  <2> QED BY <1>1, <1>2, <2>1 DEF Covers
<1>5. /\ GoodFree(F \ {it})
      /\ \A g \in F \ {it} : Apart(g, it)
      /\ \A i \in Nat : Covered(F \ {it}, i) <=> Covered(F, i) /\ ~Covers(it, i)
  BY <1>1, RemoveGood
<1>6. CASE size < it.size
  <2>1. /\ extra \in Extents
        /\ \A i \in Nat : Covers(it, i) <=> Covers(a, i) \/ Covers(extra, i)
        /\ \A i \in Nat : ~(Covers(a, i) /\ Covers(extra, i))
    <3>1. extra \in Extents
      BY <1>1, <1>2, <1>3, <1>6, MakeExtent
    <3> QED BY <1>2, <1>6, <3>1 DEF Covers
  <2>2. \A g \in F \ {it} : Apart(g, extra)
    BY <1>1, <1>5, <2>1, ApartBytes DEF GoodFree
  <2>3. /\ Insert(F \ {it}, extra) = (F \ {it}) \cup {extra}
        /\ GoodFree((F \ {it}) \cup {extra})
        /\ \A i : Covered((F \ {it}) \cup {extra}, i)
                    <=> Covered(F \ {it}, i) \/ Covers(extra, i)
    <3> DEFINE R == F \ {it}
    <3>1. GoodFree(R) /\ extra \in Extents /\ \A g \in R : Apart(g, extra)
      BY <1>5, <2>1, <2>2
    <3> HIDE DEF R, extra
    <3>2. /\ Insert(R, extra) = R \cup {extra}
          /\ GoodFree(R \cup {extra})
          /\ \A i : Covered(R \cup {extra}, i) <=> Covered(R, i) \/ Covers(extra, i)
      BY <3>1, InsertGood
    <3> QED BY <3>2 DEF R
  <2>4. extra.offset # it.offset /\ extra # it
    BY <1>2
  <2>5. \A e \in F : e.offset # extra.offset
    <3> SUFFICES ASSUME NEW e \in F, e.offset = extra.offset PROVE FALSE
      OBVIOUS
    <3>1. e # it /\ e \in Extents /\ Apart(e, extra)
      BY <2>2, <2>4 DEF GoodFree
    <3> QED BY <2>1, <3>1, ExtentFields DEF Apart
  <2>6. Insert(F, extra) \ {it} = (F \ {it}) \cup {extra}
    BY <2>4, <2>5 DEF Insert
  <2>7. AllocateFrom(F, size) = (F \ {it}) \cup {extra}
    BY <1>6, <2>6 DEF AllocateFrom, it
  <2>8. \A i \in Nat : Covers(it, i) => Covered(F, i)
    BY <1>1 DEF Covered
  <2>9. Allocated(F, size) = a
    BY DEF Allocated, it
  <2>10. \A i \in Nat : Covered((F \ {it}) \cup {extra}, i)
                           <=> Covered(F, i) /\ ~Covers(a, i)
    BY <1>5, <2>1, <2>3, <2>8
  <2>11. a.size = size
    OBVIOUS
  <2> HIDE DEF a, extra
  <2> QED BY <1>4, <2>3, <2>7, <2>8, <2>9, <2>10, <2>11
<1>7. CASE ~(size < it.size)
  <2>1. size = it.size
    BY <1>1, <1>2, <1>7
  <2>2. \A i \in Nat : Covers(it, i) <=> Covers(a, i)
    BY <2>1 DEF Covers
  <2>3. AllocateFrom(F, size) = F \ {it}
    BY <1>7 DEF AllocateFrom, it
  <2>4. \A i \in Nat : Covers(it, i) => Covered(F, i)
    BY <1>1 DEF Covered
  <2>5. Allocated(F, size) = a
    BY DEF Allocated, it
  <2> QED BY <1>4, <1>5, <2>2, <2>3, <2>4, <2>5
<1> QED BY <1>6, <1>7

-------------------------------------------------------------------------------
(* Deallocation *)

\* Extent e has all bytes of a.
Contains(e, a) == e.offset <= a.offset /\ a.offset + a.size <= e.offset + e.size

\* Two extents without a gap make one.
LEMMA JoinExtents ==
    ASSUME NEW a \in Extents, NEW b \in Extents, a.offset + a.size = b.offset
    PROVE  LET m == [offset |-> a.offset, size |-> a.size + b.size]
           IN  /\ m \in Extents
               /\ Contains(m, a) /\ Contains(m, b)
               /\ \A i \in Nat : Covers(m, i) <=> Covers(a, i) \/ Covers(b, i)
<1> DEFINE m == [offset |-> a.offset, size |-> a.size + b.size]
<1>1. /\ a.offset \in Nat /\ a.size \in Nat /\ a.size > 0
      /\ b.offset \in Nat /\ b.size \in Nat /\ b.size > 0
      /\ b.offset + b.size <= MaxSize /\ MaxSize \in Nat
  BY ExtentFields, ArgsAssumption
<1>2. m \in Extents
  BY <1>1, MakeExtent
<1>3. Contains(m, a) /\ Contains(m, b)
  BY <1>1 DEF Contains
<1>4. \A i \in Nat : Covers(m, i) <=> Covers(a, i) \/ Covers(b, i)
  BY <1>1 DEF Covers
<1> QED BY <1>2, <1>3, <1>4

\* A good set has at most one extent at an offset.
LEMMA OneAtOffset ==
    ASSUME NEW F, GoodFree(F), NEW e \in F, NEW g \in F, e.offset = g.offset
    PROVE  e = g
<1>1. e \in Extents /\ g \in Extents
  BY DEF GoodFree
<1> QED BY <1>1, FirstByte, SameExtent

\* The freed extent takes in the one that follows it.
LEMMA MergeAfterGood ==
    ASSUME NEW F, GoodFree(F), NEW a \in Extents, \A e \in F : Apart(e, a)
    PROVE  LET rest == F \ AdjacentAfter(F, a)
               g    == MergeAfter(F, a)
           IN  /\ GoodFree(rest)
               /\ g \in Extents /\ g.offset = a.offset
               /\ Contains(g, a)
               /\ \A e \in rest : Apart(e, g)
               /\ \A i \in Nat : Covered(rest, i) \/ Covers(g, i)
                                   <=> Covered(F, i) \/ Covers(a, i)
               /\ \A e \in F \ rest : e.offset >= a.offset
<1> DEFINE rest == F \ AdjacentAfter(F, a)
           g == MergeAfter(F, a)
<1>1. a.offset \in Nat /\ a.size \in Nat /\ a.size > 0
  BY ExtentFields
<1>2. CASE AdjacentAfter(F, a) = {}
  <2>1. g = a /\ rest = F
    BY <1>2 DEF MergeAfter
  <2>2. Contains(a, a)
    BY <1>1 DEF Contains
  <2> HIDE DEF g, rest
  <2> QED BY <2>1, <2>2 DEF g, rest
<1>3. CASE AdjacentAfter(F, a) # {}
  <2>1. PICK e \in AdjacentAfter(F, a) : e = CHOOSE x \in AdjacentAfter(F, a) : TRUE
    BY <1>3
  <2>2. e \in F /\ e \in Extents /\ e.offset = a.offset + a.size
    BY <2>1 DEF AdjacentAfter, LowerBound, GoodFree
  <2>3. AdjacentAfter(F, a) = {e}
    BY <2>1, <2>2, OneAtOffset DEF AdjacentAfter, LowerBound
  <2>4. g = [offset |-> a.offset, size |-> a.size + e.size]
    <3>1. g = [a EXCEPT !.size = @ + e.size]
      BY <1>3, <2>1 DEF MergeAfter
    <3>2. a \in [offset : Nat, size : Nat]
      BY ExtentFields
    <3> QED BY <3>1, <3>2
  <2>5. rest = F \ {e}
    BY <2>3
  <2>6. /\ g \in Extents /\ Contains(g, a)
        /\ \A i \in Nat : Covers(g, i) <=> Covers(a, i) \/ Covers(e, i)
    BY <2>2, <2>4, JoinExtents
  <2>7. g.offset = a.offset
    BY <2>4
  <2>8. e.offset >= a.offset
    BY <1>1, <2>2
  <2> HIDE DEF g, rest
  <2>9. /\ GoodFree(rest)
        /\ \A h \in rest : Apart(h, e)
        /\ \A i \in Nat : Covered(rest, i) <=> Covered(F, i) /\ ~Covers(e, i)
    BY <2>2, <2>5, RemoveGood
  <2>10. \A h \in rest : Apart(h, g)
    <3> SUFFICES ASSUME NEW h \in rest PROVE Apart(h, g)
      OBVIOUS
    <3>1. h \in Extents /\ Apart(h, a) /\ Apart(h, e)
      BY <2>5, <2>9 DEF GoodFree
    <3> QED BY <2>2, <2>6, <3>1, ApartBytes
  <2>11. \A i \in Nat : Covered(rest, i) \/ Covers(g, i)
                          <=> Covered(F, i) \/ Covers(a, i)
    <3>1. \A i \in Nat : Covers(e, i) => Covered(F, i)
      BY <2>2 DEF Covered
    <3> QED BY <2>6, <2>9, <3>1
  <2>12. \A h \in F \ rest : h.offset >= a.offset
    BY <2>5, <2>8
  <2> QED BY <2>6, <2>7, <2>9, <2>10, <2>11, <2>12 DEF g, rest
<1> QED BY <1>2, <1>3

\* The freed extent is taken in by the one before it, and is inserted.
LEMMA MergeBeforeGood ==
    ASSUME NEW F, GoodFree(F), NEW a \in Extents, \A e \in F : Apart(e, a)
    PROVE  LET M == Insert(F \ AdjacentBefore(F, a), MergeBefore(F, a))
           IN  /\ GoodFree(M)
               /\ \A i \in Nat : Covered(M, i) <=> Covered(F, i) \/ Covers(a, i)
               /\ \E e \in M : Contains(e, a)
<1> DEFINE M == Insert(F \ AdjacentBefore(F, a), MergeBefore(F, a))
<1>1. a.offset \in Nat /\ a.size \in Nat /\ a.size > 0
  BY ExtentFields
<1>2. CASE AdjacentBefore(F, a) = {}
  <2>1. MergeBefore(F, a) = a /\ F \ AdjacentBefore(F, a) = F
    BY <1>2 DEF MergeBefore
  <2>2. Contains(a, a)
    BY <1>1 DEF Contains
  <2>3. /\ Insert(F, a) = F \cup {a}
        /\ GoodFree(F \cup {a})
        /\ \A i : Covered(F \cup {a}, i) <=> Covered(F, i) \/ Covers(a, i)
    BY InsertGood
  <2>4. M = F \cup {a}
    BY <2>1, <2>3
  <2> HIDE DEF M
  <2> QED BY <2>2, <2>3, <2>4 DEF M
<1>3. CASE AdjacentBefore(F, a) # {}
  <2>1. PICK e \in AdjacentBefore(F, a) : e = CHOOSE x \in AdjacentBefore(F, a) : TRUE
    BY <1>3
  <2>2. e \in F /\ e \in Extents /\ e.offset + e.size = a.offset
    BY <2>1 DEF AdjacentBefore, Before, GoodFree
  <2>3. AdjacentBefore(F, a) = {e}
    <3>1. ASSUME NEW x \in AdjacentBefore(F, a) PROVE x = e
      <4>1. x \in F /\ x \in Extents /\ x.offset <= e.offset /\ e.offset <= x.offset
        BY <2>1, <2>2, <3>1 DEF AdjacentBefore, Before, GoodFree
      <4>2. x.offset = e.offset
        BY <2>2, <4>1, ExtentFields
      <4> QED BY <2>2, <4>1, <4>2, OneAtOffset
    <3> QED BY <2>1, <3>1
  <2> DEFINE g == [offset |-> e.offset, size |-> e.size + a.size]
  <2>4. MergeBefore(F, a) = g
    <3>1. MergeBefore(F, a) = [offset |-> e.offset, size |-> a.size + e.size]
      BY <1>3, <2>1 DEF MergeBefore
    <3>2. a.size + e.size = e.size + a.size
      BY <1>1, <2>2, ExtentFields
    <3> QED BY <3>1, <3>2
  <2>5. /\ g \in Extents /\ Contains(g, a)
        /\ \A i \in Nat : Covers(g, i) <=> Covers(e, i) \/ Covers(a, i)
    BY <2>2, JoinExtents
  <2> HIDE DEF g
  <2>6. /\ GoodFree(F \ {e})
        /\ \A h \in F \ {e} : Apart(h, e)
        /\ \A i \in Nat : Covered(F \ {e}, i) <=> Covered(F, i) /\ ~Covers(e, i)
    BY <2>2, RemoveGood
  <2>7. \A h \in F \ {e} : Apart(h, g)
    <3> SUFFICES ASSUME NEW h \in F \ {e} PROVE Apart(h, g)
      OBVIOUS
    <3>1. h \in Extents /\ Apart(h, a) /\ Apart(h, e)
      BY <2>6 DEF GoodFree
    <3> QED BY <2>2, <2>5, <3>1, ApartBytes
  <2>8. /\ Insert(F \ {e}, g) = (F \ {e}) \cup {g}
        /\ GoodFree((F \ {e}) \cup {g})
        /\ \A i : Covered((F \ {e}) \cup {g}, i) <=> Covered(F \ {e}, i) \/ Covers(g, i)
    BY <2>5, <2>6, <2>7, InsertGood
  <2>9. M = (F \ {e}) \cup {g}
    BY <2>3, <2>4, <2>8
  <2> HIDE DEF M
  <2>10. \A i \in Nat : Covered(M, i) <=> Covered(F, i) \/ Covers(a, i)
    <3>1. \A i \in Nat : Covers(e, i) => Covered(F, i)
      BY <2>2 DEF Covered
    <3> QED BY <2>5, <2>6, <2>8, <2>9, <3>1
  <2> QED BY <2>5, <2>8, <2>9, <2>10 DEF M
<1> QED BY <1>2, <1>3

\* deallocate_chunk, with its merges found or missed, adds the chunk's bytes to
\* the free ones and leaves them in one extent.
LEMMA DeallocateGood ==
    ASSUME NEW F, GoodFree(F), NEW a \in Extents, \A e \in F : Apart(e, a),
           NEW D \in Deallocations(F, a)
    PROVE  /\ GoodFree(D)
           /\ \A i \in Nat : Covered(D, i) <=> Covered(F, i) \/ Covers(a, i)
           /\ \E e \in D : Contains(e, a)
<1> DEFINE rest   == F \ AdjacentAfter(F, a)
           g      == MergeAfter(F, a)
           merged == Insert(rest \ AdjacentBefore(F, a), MergeBefore(F, g))
           single == Insert(rest, g)
<1>1. /\ GoodFree(rest)
      /\ g \in Extents /\ g.offset = a.offset
      /\ Contains(g, a)
      /\ \A e \in rest : Apart(e, g)
      /\ \A i \in Nat : Covered(rest, i) \/ Covers(g, i)
                          <=> Covered(F, i) \/ Covers(a, i)
      /\ \A e \in F \ rest : e.offset >= a.offset
  BY MergeAfterGood
<1>2. D = merged \/ D = single
  BY DEF Deallocations
<1>3. rest \subseteq F
  OBVIOUS
<1> HIDE DEF rest, g
<1>4. /\ a.offset \in Nat /\ a.size \in Nat
      /\ \A e \in F : e.offset \in Nat
  BY ExtentFields DEF GoodFree
<1>5. ASSUME NEW e \in Extents, Contains(e, g) PROVE Contains(e, a)
  BY <1>1, <1>5, ExtentFields DEF Contains
<1>6. CASE D = single
  <2>1. /\ Insert(rest, g) = rest \cup {g}
        /\ GoodFree(rest \cup {g})
        /\ \A i : Covered(rest \cup {g}, i) <=> Covered(rest, i) \/ Covers(g, i)
    BY <1>1, InsertGood
  <2>2. D = rest \cup {g}
    BY <1>6, <2>1
  <2> QED BY <1>1, <2>1, <2>2
<1>7. CASE D = merged
  <2>1. Before(F, a) = Before(rest, g)
    BY <1>1, <1>3, <1>4 DEF Before
  <2>2. Before(F, g) = Before(rest, g)
    BY <1>1, <1>3, <1>4 DEF Before
  <2>3. AdjacentBefore(F, a) = AdjacentBefore(rest, g)
        /\ AdjacentBefore(F, g) = AdjacentBefore(rest, g)
    BY <1>1, <2>1, <2>2 DEF AdjacentBefore
  <2>4. MergeBefore(F, g) = MergeBefore(rest, g)
    BY <2>3 DEF MergeBefore
  <2>5. D = Insert(rest \ AdjacentBefore(rest, g), MergeBefore(rest, g))
    BY <1>7, <2>3, <2>4
  <2>6. /\ GoodFree(D)
        /\ \A i \in Nat : Covered(D, i) <=> Covered(rest, i) \/ Covers(g, i)
        /\ \E e \in D : Contains(e, g)
    BY <1>1, <2>5, MergeBeforeGood
  <2> QED BY <1>1, <1>5, <2>6 DEF GoodFree
<1> QED BY <1>2, <1>6, <1>7

-------------------------------------------------------------------------------
(* Undoing a deallocation *)

\* The chunk's extent is cut out of the free extent that contains it.
LEMMA UndoGood ==
    ASSUME NEW D, GoodFree(D), NEW a \in Extents, NEW e \in D, Contains(e, a)
    PROVE  /\ GoodFree(UndoDeallocation(D, a))
           /\ \A i \in Nat : Covered(UndoDeallocation(D, a), i)
                               <=> Covered(D, i) /\ ~Covers(a, i)
<1> DEFINE here   == {x \in LowerBound(D, a) : x.offset = a.offset}
           before == a.offset - e.offset
           front  == [offset |-> e.offset, size |-> before]
           tail   == [offset |-> a.offset + a.size,
                      size   |-> e.size - a.size - before]
           D1     == (IF tail.size > 0 THEN Insert(D, tail) ELSE D) \ {e}
           T      == IF tail.size > 0 THEN (D \ {e}) \cup {tail} ELSE D \ {e}
           U      == UndoDeallocation(D, a)
<1>1. /\ a.offset \in Nat /\ a.size \in Nat /\ a.size > 0
      /\ e.offset \in Nat /\ e.size \in Nat /\ e.size > 0
      /\ e.offset + e.size <= MaxSize /\ MaxSize \in Nat
      /\ e.offset <= a.offset /\ a.offset + a.size <= e.offset + e.size
      /\ e \in Extents
  BY ExtentFields, ArgsAssumption DEF GoodFree, Contains
<1>2. \A x \in D : x \in Extents /\ x.offset \in Nat /\ x.size \in Nat /\ x.size > 0
                   /\ (x # e => Apart(x, e))
  BY ExtentFields DEF GoodFree
\* The iterator finds e.
<1>3. ASSUME here # {} PROVE e.offset = a.offset /\ (CHOOSE x \in here : TRUE) = e
  <2>1. ASSUME NEW x \in here PROVE x = e
    <3>1. x \in D /\ x.offset = a.offset
      BY DEF LowerBound
    <3> QED BY <1>1, <1>2, <3>1 DEF Apart
  <2> QED BY <1>3, <2>1
<1>4. ASSUME here = {} PROVE e.offset < a.offset
                             /\ (CHOOSE x \in Before(D, a) : TRUE) = e
  <2>1. e.offset # a.offset
    BY <1>1, <1>2, <1>4 DEF LowerBound
  <2>2. e.offset < a.offset
    BY <1>1, <2>1
  <2>3. \A x \in D : x.offset < a.offset => x.offset <= e.offset
    BY <1>1, <1>2 DEF Apart
  <2>4. e \in Before(D, a)
    BY <2>2, <2>3 DEF Before
  <2>5. ASSUME NEW x \in Before(D, a) PROVE x = e
    <3>1. x \in D /\ x.offset <= e.offset /\ e.offset <= x.offset
      BY <2>2, <2>3 DEF Before
    <3>2. x.offset = e.offset
      BY <1>1, <1>2, <3>1
    <3> QED BY <3>1, <3>2, OneAtOffset
  <2> QED BY <2>2, <2>4, <2>5
\* The bytes after the chunk.
<1>5. tail.size \in Nat /\ tail.offset \in Nat
      /\ tail.size = e.size - a.size - before
  BY <1>1
<1>6. D1 = T /\ GoodFree(T) /\ (\A x \in T : Apart(x, a))
      /\ (\A x \in T : x = tail \/ x \in D \ {e})
      /\ \A i \in Nat : Covered(T, i) <=> \/ Covered(D, i) /\ ~Covers(e, i)
                                          \/ tail.size > 0 /\ Covers(tail, i)
  <2>1. /\ GoodFree(D \ {e})
        /\ \A x \in D \ {e} : Apart(x, e)
        /\ \A i \in Nat : Covered(D \ {e}, i) <=> Covered(D, i) /\ ~Covers(e, i)
    BY RemoveGood
  <2>2. \A x \in D \ {e} : Apart(x, a)
    BY <1>1, <1>2 DEF Apart
  <2>3. CASE tail.size > 0
    <3>1. tail \in Extents
      BY <1>1, <1>5, <2>3, MakeExtent
    <3>2. \A x \in D \ {e} : Apart(x, tail) /\ x.offset # tail.offset
      BY <1>1, <1>2, <2>3 DEF Apart
    <3>3. Apart(tail, a)
      BY <1>1 DEF Apart
    <3>4. tail.offset # e.offset
      BY <1>1
    <3> HIDE DEF tail
    <3>5. /\ GoodFree((D \ {e}) \cup {tail})
          /\ \A i : Covered((D \ {e}) \cup {tail}, i)
                      <=> Covered(D \ {e}, i) \/ Covers(tail, i)
      BY <2>1, <3>1, <3>2, InsertGood
    <3>6. Insert(D, tail) = D \cup {tail} /\ tail # e
      BY <3>2, <3>4 DEF Insert
    <3> QED BY <2>1, <2>2, <2>3, <3>3, <3>5, <3>6
  <2>4. CASE ~(tail.size > 0)
    <3> HIDE DEF tail
    <3> QED BY <2>1, <2>2, <2>4
  <2> QED BY <2>3, <2>4
<1>7. \A i \in Nat : Covers(e, i) /\ ~Covers(a, i)
                       <=> \/ tail.size > 0 /\ Covers(tail, i)
                           \/ before > 0 /\ Covers(front, i)
  BY <1>1 DEF Covers
<1>8. \A i \in Nat : Covers(a, i) => Covers(e, i)
  BY <1>1 DEF Covers
<1>9. \A i \in Nat : Covers(e, i) => Covered(D, i)
  BY DEF Covered
<1>10. CASE here # {}
  <2>1. U = D1
    BY <1>3, <1>10 DEF UndoDeallocation
  <2>2. ~(before > 0)
    BY <1>1, <1>3, <1>10
  <2> HIDE DEF here, before, front, tail, D1, T, U
  <2>3. \A i \in Nat : Covered(T, i) <=> Covered(D, i) /\ ~Covers(a, i)
    BY <1>6, <1>7, <1>8, <1>9, <2>2
  <2> QED BY <1>6, <2>1, <2>3 DEF U
<1>11. CASE here = {}
  <2>1. U = Insert(D1, front)
    BY <1>4, <1>11 DEF UndoDeallocation
  <2>2. before \in Nat /\ before > 0
    BY <1>1, <1>4, <1>11
  <2>3. front \in Extents
    BY <1>1, <2>2, MakeExtent
  <2>4. \A x \in D \ {e} : Apart(x, front)
    BY <1>1, <1>2, <2>2 DEF Apart
  <2>5. Apart(tail, front)
    BY <1>1 DEF Apart
  <2> HIDE DEF here, before, front, tail, D1, T, U
  <2>6. \A x \in T : Apart(x, front)
    BY <1>6, <2>4, <2>5
  <2>7. /\ Insert(T, front) = T \cup {front}
        /\ GoodFree(T \cup {front})
        /\ \A i : Covered(T \cup {front}, i) <=> Covered(T, i) \/ Covers(front, i)
    BY <1>6, <2>3, <2>6, InsertGood
  <2>8. \A i \in Nat : Covered(T \cup {front}, i) <=> Covered(D, i) /\ ~Covers(a, i)
    BY <1>6, <1>7, <1>8, <1>9, <2>2, <2>7
  <2> QED BY <1>6, <2>1, <2>7, <2>8 DEF U
<1> QED BY <1>10, <1>11

-------------------------------------------------------------------------------
(* The calls *)

\* The new data file's bytes, where a write puts them.
LEMMA WriteDataGood ==
    ASSUME NEW d \in [0 .. MaxSize - 1 -> Cells], NEW a, NEW offset, NEW count,
           NEW b \in Bytes
    PROVE  WriteData(d, a, offset, count, b) \in [0 .. MaxSize - 1 -> Cells]
  BY ArgsAssumption DEF WriteData, Reached, Cells

\* A byte's place when the extent it is in moves.
LEMMA MovedByte ==
    ASSUME NEW o \in Nat, NEW n \in Nat, NEW s \in Nat, NEW i \in Int,
           n <= i, i <= n + s - 1
    PROVE  o + i - n \in o .. o + s - 1
  OBVIOUS

\* A grown chunk's bytes, old and unspecified.
LEMMA CopyOverGood ==
    ASSUME NEW d \in [0 .. MaxSize - 1 -> Cells],
           NEW old \in Extents, NEW new \in Extents,
           NEW junk \in [{i \in 0 .. new.size - 1 : ~HasByte(d, old, i)} -> Bytes]
    PROVE  CopyOver(d, old, new, junk) \in [0 .. MaxSize - 1 -> Cells]
<1>1. /\ old.offset \in Nat /\ old.size \in Nat /\ old.offset + old.size <= MaxSize
      /\ new.offset \in Nat /\ new.size \in Nat /\ MaxSize \in Nat
  BY ExtentFields, ArgsAssumption
<1>2. ASSUME NEW i \in 0 .. MaxSize - 1, i \in Span(new, 0, new.size),
             HasByte(d, old, i - new.offset)
      PROVE  old.offset + i - new.offset \in 0 .. MaxSize - 1
  <2>1. i \in Int /\ new.offset <= i /\ i <= new.offset + old.size - 1
    BY <1>1, <1>2 DEF Span, HasByte
  <2>2. old.offset + i - new.offset \in old.offset .. old.offset + old.size - 1
    BY <1>1, <2>1, MovedByte
  <2> DEFINE o == old.offset
             s == old.size
             j == o + i - new.offset
  <2>3. o \in Nat /\ s \in Nat /\ o + s <= MaxSize /\ MaxSize \in Nat
        /\ j \in o .. o + s - 1
    BY <1>1, <2>2
  <2> HIDE DEF o, s, j
  <2>4. j \in 0 .. MaxSize - 1
    BY <2>3
  <2> QED BY <2>4 DEF o, j
<1>3. ASSUME NEW i \in 0 .. MaxSize - 1, i \in Span(new, 0, new.size),
             ~HasByte(d, old, i - new.offset)
      PROVE  junk[i - new.offset] \in Bytes
  <2>1. i - new.offset \in 0 .. new.size - 1
    BY <1>1, <1>3 DEF Span
  <2> QED BY <1>3, <2>1
<1>4. ASSUME NEW i \in 0 .. MaxSize - 1
      PROVE  (IF i \in Span(new, 0, new.size)
              THEN IF HasByte(d, old, i - new.offset)
                   THEN d[old.offset + i - new.offset] ELSE junk[i - new.offset]
              ELSE Reached(d, new.offset, i)) \in Cells
  BY <1>2, <1>3, ArgsAssumption DEF Reached, Cells
<1> QED BY <1>4 DEF CopyOver

\* A free byte is in no chunk, and a byte is in one chunk only.
LEMMA BytesApart ==
    ASSUME IInv, NEW i \in Nat, NEW c \in DOMAIN metadata, Covers(metadata[c], i)
    PROVE  /\ ~Covered(free_extents, i)
           /\ \A d \in DOMAIN metadata : d # c => ~Covers(metadata[d], i)
<1>1. /\ free_extents \subseteq Extents
      /\ \A d \in DOMAIN metadata : metadata[d] \in Extents
      /\ \A e \in free_extents : Apart(e, metadata[c])
      /\ \A d \in DOMAIN metadata : d # c => Apart(metadata[c], metadata[d])
  BY DEF IInv, GoodChunks, GoodFree
<1>2. ~Covered(free_extents, i)
  BY <1>1, ApartCovered
<1> QED BY <1>1, <1>2, ApartBytes

\* The initial state.
LEMMA InitIInv == Init => IInv
<1> SUFFICES ASSUME Init PROVE IInv
  OBVIOUS
<1> DEFINE whole == [offset |-> 0, size |-> MaxSize]
<1>1. MaxSize \in Nat /\ MaxSize > 0 /\ Zero \in Bytes
  BY ArgsAssumption
<1>2. whole \in Extents /\ \A i \in 0 .. MaxSize - 1 : Covers(whole, i)
  BY <1>1, MakeExtent DEF Covers
<1>3. free_extents = {whole} /\ DOMAIN metadata = {} /\ alive = TRUE
      /\ disk = [i \in 0 .. MaxSize - 1 |-> NoByte]
  BY DEF Init, Nothing
<1> HIDE DEF whole
<1> QED BY <1>1, <1>2, <1>3 DEF IInv, GoodChunks, GoodFree, Covered, Cells

\* The extent of chunk c is allocated from the free set D, to which c's bytes
\* were added if it had some.
LEMMA PlaceChunk ==
    ASSUME IInv, NEW c \in Chunks, NEW D, GoodFree(D),
           \A i \in Nat : Covered(D, i) <=>
                \/ Covered(free_extents, i)
                \/ c \in DOMAIN metadata /\ Covers(metadata[c], i),
           NEW size \in Nat, size > 0, CanAllocate(D, size),
           SetAddress(c, Allocated(D, size)),
           free_extents' = AllocateFrom(D, size),
           disk' \in [0 .. MaxSize - 1 -> Cells], alive' \in BOOLEAN, alive' = alive
    PROVE  IInv'
<1> DEFINE a == Allocated(D, size)
<1>1. /\ a \in Extents /\ GoodFree(free_extents')
      /\ \A i \in Nat : Covered(free_extents', i) <=> Covered(D, i) /\ ~Covers(a, i)
      /\ \A i \in Nat : Covers(a, i) => Covered(D, i)
  BY AllocateGood
<1>2. /\ DOMAIN metadata' = DOMAIN metadata \cup {c}
      /\ metadata'[c] = a
      /\ \A d \in DOMAIN metadata : d # c => metadata'[d] = metadata[d]
  BY DEF SetAddress
<1> HIDE DEF a
<1>3. /\ GoodChunks
      /\ \A d \in DOMAIN metadata : metadata[d] \in Extents
  BY DEF IInv, GoodChunks
<1>4. ASSUME NEW d \in DOMAIN metadata, d # c, NEW i \in Nat, Covers(metadata[d], i)
      PROVE  ~Covered(D, i)
  BY <1>4, BytesApart
<1>5. \A d \in DOMAIN metadata : d # c => Apart(metadata[d], a) /\ Apart(a, metadata[d])
  BY <1>1, <1>3, <1>4, ApartBytes
<1>6. \A d \in DOMAIN metadata : d # c =>
          \A e \in free_extents' : Apart(e, metadata[d])
  <2> SUFFICES ASSUME NEW d \in DOMAIN metadata, d # c
               PROVE  \A e \in free_extents' : Apart(e, metadata[d])
    OBVIOUS
  <2>1. \A i \in Nat : ~(Covered(free_extents', i) /\ Covers(metadata[d], i))
    BY <1>1, <1>4
  <2> QED BY <1>1, <1>3, <2>1, ApartCovered DEF GoodFree
<1>7. \A e \in free_extents' : Apart(e, a)
  BY <1>1, ApartCovered DEF GoodFree
<1>8. GoodChunks'
  BY <1>1, <1>2, <1>3, <1>5 DEF GoodChunks
<1>9. ASSUME alive', NEW i \in 0 .. MaxSize - 1
      PROVE  Covered(free_extents', i) \/ InChunk(i)'
  <2>1. i \in Nat
    BY ArgsAssumption
  <2>2. Covered(free_extents, i) \/ InChunk(i)
    BY <1>9 DEF IInv
  <2>3. CASE Covered(D, i)
    <3>1. Covers(a, i) => InChunk(i)'
      BY <1>2 DEF InChunk
    <3> QED BY <1>1, <2>1, <2>3, <3>1
  <2>4. CASE ~Covered(D, i)
    <3>1. PICK d \in DOMAIN metadata : Covers(metadata[d], i) /\ d # c
      BY <2>1, <2>2, <2>4 DEF InChunk
    <3> QED BY <1>2, <3>1 DEF InChunk
  <2> QED BY <2>3, <2>4
<1>10. \A e \in free_extents', d \in DOMAIN metadata' : Apart(e, metadata'[d])
  BY <1>2, <1>6, <1>7
<1> QED BY <1>1, <1>8, <1>9, <1>10 DEF IInv

\* The free bytes are the same, and so are the chunks.
LEMMA SameBytes ==
    ASSUME IInv, GoodFree(free_extents'),
           \A i \in Nat : Covered(free_extents', i) <=> Covered(free_extents, i),
           UNCHANGED metadata,
           disk' \in [0 .. MaxSize - 1 -> Cells], alive' = alive
    PROVE  IInv'
<1>1. GoodChunks /\ alive \in BOOLEAN /\ GoodFree(free_extents)
      /\ \A d \in DOMAIN metadata : metadata[d] \in Extents
  BY DEF IInv, GoodChunks
<1>2. \A d \in DOMAIN metadata : \A e \in free_extents' : Apart(e, metadata[d])
  <2> SUFFICES ASSUME NEW d \in DOMAIN metadata
               PROVE  \A e \in free_extents' : Apart(e, metadata[d])
    OBVIOUS
  <2>1. \A i \in Nat : ~(Covered(free_extents', i) /\ Covers(metadata[d], i))
    BY BytesApart
  <2> QED BY <1>1, <2>1, ApartCovered DEF GoodFree
<1>3. GoodChunks' /\ \A i : InChunk(i)' <=> InChunk(i)
  BY <1>1 DEF GoodChunks, InChunk
<1>4. ASSUME alive', NEW i \in 0 .. MaxSize - 1
      PROVE  Covered(free_extents', i) \/ InChunk(i)'
  <2>1. i \in Nat
    BY ArgsAssumption
  <2> QED BY <1>3, <1>4, <2>1 DEF IInv
<1> QED BY <1>1, <1>2, <1>3, <1>4 DEF IInv

\* A first write.
LEMMA WriteNewIInv ==
    ASSUME IInv, NEW c \in Chunks, NEW offset \in Nat, NEW count \in Nat,
           offset + count > 0, NEW b \in Bytes, WriteNew(c, offset, count, b),
           UNCHANGED alive
    PROVE  IInv'
<1>1. /\ c \notin DOMAIN metadata
      /\ CanAllocate(free_extents, offset + count)
      /\ SetAddress(c, Allocated(free_extents, offset + count))
      /\ disk' = WriteData(disk, Allocated(free_extents, offset + count),
                           offset, count, b)
      /\ free_extents' = AllocateFrom(free_extents, offset + count)
  BY DEF WriteNew
<1>2. GoodFree(free_extents) /\ disk \in [0 .. MaxSize - 1 -> Cells] /\ alive \in BOOLEAN
  BY DEF IInv
<1>3. disk' \in [0 .. MaxSize - 1 -> Cells]
  BY <1>1, <1>2, WriteDataGood
<1>4. offset + count \in Nat
  OBVIOUS
<1> QED BY <1>1, <1>2, <1>3, <1>4, PlaceChunk

\* What deallocate_chunk leaves of the free set when chunk c is freed.
LEMMA FreedChunk ==
    ASSUME IInv, NEW c \in DOMAIN metadata,
           NEW D \in Deallocations(free_extents, metadata[c])
    PROVE  /\ metadata[c] \in Extents
           /\ GoodFree(D)
           /\ \A i \in Nat : Covered(D, i)
                               <=> Covered(free_extents, i) \/ Covers(metadata[c], i)
           /\ \E e \in D : Contains(e, metadata[c])
<1>1. /\ metadata[c] \in Extents /\ GoodFree(free_extents)
      /\ \A e \in free_extents : Apart(e, metadata[c])
  BY DEF IInv, GoodChunks
<1> QED BY <1>1, DeallocateGood

\* A write that grows a chunk.
LEMMA WriteGrowIInv ==
    ASSUME IInv, NEW c \in Chunks, NEW offset \in Nat, NEW count \in Nat,
           NEW b \in Bytes, WriteGrow(c, offset, count, b), UNCHANGED alive
    PROVE  IInv'
<1> DEFINE n == offset + count
<1>1. c \in DOMAIN metadata /\ n > metadata[c].size
  BY DEF WriteGrow, Grows
<1>2. PICK D \in Deallocations(free_extents, metadata[c]) :
            GrowFrom(D, c, offset, count, b)
  BY DEF WriteGrow
<1>3. /\ metadata[c] \in Extents /\ GoodFree(D)
      /\ \A i \in Nat : Covered(D, i)
                          <=> Covered(free_extents, i) \/ Covers(metadata[c], i)
  BY <1>1, FreedChunk
<1>4. n \in Nat /\ n > 0 /\ metadata[c].size <= n
  BY <1>1, <1>3, ExtentFields
<1>5. PICK junk \in [Unread(c, n) -> Bytes] :
            disk' = WriteData(CopyOver(disk, metadata[c], Allocated(D, n), junk),
                              Allocated(D, n), offset, count, b)
  BY <1>2 DEF GrowFrom
<1>6. /\ CanAllocate(D, n)
      /\ SetAddress(c, Allocated(D, n))
      /\ free_extents' = AllocateFrom(D, n)
  BY <1>2 DEF GrowFrom
<1> HIDE DEF n
<1>7. Allocated(D, n) \in Extents /\ Allocated(D, n).size = n
  BY <1>3, <1>4, <1>6, AllocateGood
<1>8. disk \in [0 .. MaxSize - 1 -> Cells] /\ alive \in BOOLEAN
  BY DEF IInv
<1>9. CopyOver(disk, metadata[c], Allocated(D, n), junk) \in [0 .. MaxSize - 1 -> Cells]
  <2>1. junk \in [{i \in 0 .. Allocated(D, n).size - 1 :
                        ~HasByte(disk, metadata[c], i)} -> Bytes]
    BY <1>5, <1>7 DEF Unread
  <2> QED BY <1>3, <1>7, <1>8, <2>1, CopyOverGood
<1>10. disk' \in [0 .. MaxSize - 1 -> Cells]
  BY <1>5, <1>9, WriteDataGood
<1> QED BY <1>1, <1>3, <1>4, <1>6, <1>8, <1>10, PlaceChunk

\* A write that fails gives the free bytes back as they were.
LEMMA WriteFullBytes ==
    ASSUME IInv, NEW c \in Chunks, NEW offset \in Nat, NEW count \in Nat,
           WriteFull(c, offset, count)
    PROVE  /\ GoodFree(free_extents')
           /\ \A i \in Nat : Covered(free_extents', i) <=> Covered(free_extents, i)
<1>1. CASE NewFull(c, offset, count)
  BY <1>1 DEF NewFull, IInv
<1>2. ASSUME Grows(c, offset, count),
             NEW D \in Deallocations(free_extents, metadata[c]),
             GrowFull(D, c, offset, count)
      PROVE  /\ GoodFree(free_extents')
             /\ \A i \in Nat : Covered(free_extents', i) <=> Covered(free_extents, i)
  <2> DEFINE a == metadata[c]
  <2>1. c \in DOMAIN metadata /\ free_extents' = UndoDeallocation(D, a)
    BY <1>2 DEF Grows, GrowFull
  <2>2. /\ a \in Extents /\ GoodFree(D)
        /\ \A i \in Nat : Covered(D, i) <=> Covered(free_extents, i) \/ Covers(a, i)
        /\ \E e \in D : Contains(e, a)
    BY <1>2, <2>1, FreedChunk
  <2>3. /\ GoodFree(UndoDeallocation(D, a))
        /\ \A i \in Nat : Covered(UndoDeallocation(D, a), i)
                            <=> Covered(D, i) /\ ~Covers(a, i)
    BY <2>2, UndoGood
  <2>4. \A i \in Nat : Covers(a, i) => ~Covered(free_extents, i)
    BY <2>1, BytesApart
  <2> HIDE DEF a
  <2> QED BY <2>1, <2>2, <2>3, <2>4
<1> QED BY <1>1, <1>2 DEF WriteFull

\* delete_chunk.
LEMMA DeleteIInv ==
    ASSUME IInv, NEW c \in Chunks, delete_chunk(c)
    PROVE  IInv'
<1>0. /\ GoodChunks /\ GoodFree(free_extents) /\ alive \in BOOLEAN
      /\ disk \in [0 .. MaxSize - 1 -> Cells]
      /\ \A d \in DOMAIN metadata : metadata[d] \in Extents
  BY DEF IInv, GoodChunks
<1>1. UNCHANGED <<disk, alive>>
  BY DEF delete_chunk
<1>2. CASE UNCHANGED <<metadata, free_extents>>
  BY <1>0, <1>1, <1>2, SameBytes
<1>3. CASE /\ c \in DOMAIN metadata
           /\ free_extents' \in Deallocations(free_extents, metadata[c])
           /\ metadata' = [x \in DOMAIN metadata \ {c} |-> metadata[x]]
  <2>1. /\ GoodFree(free_extents')
        /\ \A i \in Nat : Covered(free_extents', i)
                            <=> Covered(free_extents, i) \/ Covers(metadata[c], i)
    BY <1>3, FreedChunk
  <2>2. /\ DOMAIN metadata' = DOMAIN metadata \ {c}
        /\ \A d \in DOMAIN metadata' : metadata'[d] = metadata[d]
    BY <1>3
  <2>3. GoodChunks'
    BY <1>0, <2>2 DEF GoodChunks
  <2>4. \A d \in DOMAIN metadata' : \A e \in free_extents' : Apart(e, metadata'[d])
    <3> SUFFICES ASSUME NEW d \in DOMAIN metadata, d # c
                 PROVE  \A e \in free_extents' : Apart(e, metadata[d])
      BY <2>2
    <3>1. \A i \in Nat : ~(Covered(free_extents', i) /\ Covers(metadata[d], i))
      BY <1>3, <2>1, BytesApart
    <3> QED BY <1>0, <2>1, <3>1, ApartCovered DEF GoodFree
  <2>5. ASSUME alive', NEW i \in 0 .. MaxSize - 1
        PROVE  Covered(free_extents', i) \/ InChunk(i)'
    <3>1. i \in Nat
      BY ArgsAssumption
    <3>2. Covered(free_extents, i) \/ InChunk(i)
      BY <1>1, <2>5 DEF IInv
    <3>3. CASE \E d \in DOMAIN metadata : d # c /\ Covers(metadata[d], i)
      BY <2>2, <3>3 DEF InChunk
    <3> QED BY <2>1, <3>1, <3>2, <3>3 DEF InChunk
  <2> QED BY <1>0, <1>1, <2>1, <2>3, <2>4, <2>5 DEF IInv
<1> QED BY <1>2, <1>3 DEF delete_chunk

\* write_chunk.
LEMMA WriteIInv ==
    ASSUME IInv, NEW c \in Chunks, NEW offset \in Nat, NEW count \in Nat,
           offset + count > 0, NEW b \in Bytes, write_chunk(c, offset, count, b)
    PROVE  IInv'
<1>0. GoodFree(free_extents) /\ disk \in [0 .. MaxSize - 1 -> Cells]
  BY DEF IInv
<1>1. UNCHANGED alive
  BY DEF write_chunk
<1>2. CASE WriteInPlace(c, offset, count, b)
  <2>1. UNCHANGED <<metadata, free_extents>> /\ disk' \in [0 .. MaxSize - 1 -> Cells]
    BY <1>0, <1>2, WriteDataGood DEF WriteInPlace
  <2> QED BY <1>0, <1>1, <2>1, SameBytes
<1>3. CASE WriteFull(c, offset, count)
  <2>1. UNCHANGED <<metadata, disk>>
    BY <1>3 DEF WriteFull
  <2> QED BY <1>0, <1>1, <1>3, <2>1, SameBytes, WriteFullBytes
<1> QED BY <1>1, <1>2, <1>3, WriteNewIInv, WriteGrowIInv DEF write_chunk

\* A crash in deallocate_chunk.
LEMMA CrashIInv ==
    ASSUME IInv, NEW c \in Chunks, CrashInDeallocate(c)
    PROVE  IInv'
<1>1. /\ free_extents' \subseteq free_extents
      /\ alive' = FALSE /\ UNCHANGED <<metadata, disk>>
  BY DEF CrashInDeallocate, CrashedDeallocation
<1> QED BY <1>1 DEF IInv, GoodChunks, GoodFree

\* The arguments of a write.
LEMMA WriteArgument ==
    ASSUME NEW w \in WriteArgs
    PROVE  w[1] \in Nat /\ w[2] \in Nat /\ w[1] + w[2] > 0
  BY ArgsAssumption

\* Every step keeps the invariant.
LEMMA NextIInv == IInv /\ [Next]_vars => IInv'
<1> SUFFICES ASSUME IInv, [Next]_vars PROVE IInv'
  OBVIOUS
<1>0. GoodFree(free_extents) /\ disk \in [0 .. MaxSize - 1 -> Cells]
  BY DEF IInv
<1>1. CASE UNCHANGED vars
  BY <1>0, <1>1, SameBytes DEF vars
<1>2. ASSUME NEW c \in Chunks, NEW w \in WriteArgs, NEW b \in Bytes,
             write_chunk(c, w[1], w[2], b)
      PROVE  IInv'
  BY <1>2, WriteArgument, WriteIInv
<1>3. ASSUME NEW c \in Chunks, NEW r \in ReadArgs, read_chunk(c, r[1], r[2])
      PROVE  IInv'
  BY <1>0, <1>3, SameBytes DEF read_chunk
<1> QED BY <1>1, <1>2, <1>3, DeleteIInv, CrashIInv DEF Next

-------------------------------------------------------------------------------
(* The properties *)

\* The inductive invariant is one.
LEMMA Invariance == Spec => []IInv
  BY InitIInv, NextIInv, PTL DEF Spec

\* Addresses stay in the data file, whose bytes are bytes.
THEOREM StorageTypes == Spec => []TypeOK
<1>1. IInv => TypeOK
  BY DEF IInv, GoodChunks, GoodFree, Extents, TypeOK, Cells
<1> QED BY <1>1, Invariance, PTL

\* First-fit allocation, growth, its undoing, and deallocation with its merges
\* found or missed keep the data file partitioned between free extents and
\* chunks.
THEOREM StoragePartitioned == Spec => []Partition
<1>1. IInv => Partition
  BY DEF IInv, GoodChunks, GoodFree, Covered, InChunk, Partition
<1> QED BY <1>1, Invariance, PTL

\* A write that fails for lack of space neither loses nor gains free bytes.
THEOREM FailuresKeepSpace == Spec => FailedWriteKeepsSpace
<1> DEFINE Kept == last'.op = "write" /\ last'.result = -1 /\ alive' =>
                       \A i \in 0 .. MaxSize - 1 :
                           (\E e \in free_extents : Covers(e, i))
                               <=> (\E e \in free_extents' : Covers(e, i))
<1>1. ASSUME IInv, [Next]_vars PROVE [Kept]_vars
  <2> SUFFICES ASSUME Next, last'.op = "write", last'.result = -1, alive'
               PROVE  \A i \in Nat : Covered(free_extents', i)
                                       <=> Covered(free_extents, i)
    BY <1>1, ArgsAssumption DEF Covered
  <2>1. ASSUME NEW c \in Chunks, NEW w \in WriteArgs, NEW b \in Bytes,
               write_chunk(c, w[1], w[2], b)
        PROVE  \A i \in Nat : Covered(free_extents', i) <=> Covered(free_extents, i)
    <3>1. w[1] \in Nat /\ w[2] \in Nat /\ w[2] # -1
      BY WriteArgument
    <3>2. WriteFull(c, w[1], w[2])
      BY <2>1, <3>1
      DEF write_chunk, WriteNew, WriteInPlace, WriteGrow, GrowFrom, Reply
    <3> QED BY <1>1, <3>1, <3>2, WriteFullBytes
  <2>2. ASSUME NEW c \in Chunks, NEW r \in ReadArgs, read_chunk(c, r[1], r[2])
        PROVE  FALSE
    <3>1. last'.op = "read"
      BY <2>2 DEF read_chunk, ReadClipped, ReadFails, Reply
    <3> QED BY <3>1
  <2>3. ASSUME NEW c \in Chunks, delete_chunk(c) PROVE FALSE
    <3>1. last'.op = "delete"
      BY <2>3 DEF delete_chunk, Reply
    <3> QED BY <3>1
  <2>4. ASSUME NEW c \in Chunks, CrashInDeallocate(c) PROVE FALSE
    BY <2>4 DEF CrashInDeallocate
  <2> QED BY <2>1, <2>2, <2>3, <2>4 DEF Next
<1> QED BY <1>1, Invariance, PTL DEF Spec, FailedWriteKeepsSpace

-------------------------------------------------------------------------------
(* The refinement of ChunkStore *)

\* What a chunk contains: the bytes of its extent.
LEMMA ContentOf ==
    ASSUME IInv
    PROVE  /\ DOMAIN Content = DOMAIN metadata
           /\ \A c \in DOMAIN metadata :
                 /\ Content[c] = [i \in 0 .. metadata[c].size - 1 |->
                                     disk[metadata[c].offset + i]]
                 /\ Content[c] \in [0 .. metadata[c].size - 1 -> Cells]
                 /\ Abstract!Size(c) = metadata[c].size
           /\ \A c : c \notin DOMAIN metadata => Abstract!Size(c) = 0
<1>1. DOMAIN Content = DOMAIN metadata
  BY DEF Content
<1>2. ASSUME NEW c \in DOMAIN metadata
      PROVE  /\ Content[c] = [i \in 0 .. metadata[c].size - 1 |->
                                 disk[metadata[c].offset + i]]
             /\ Content[c] \in [0 .. metadata[c].size - 1 -> Cells]
             /\ Abstract!Size(c) = metadata[c].size
  <2> DEFINE a == metadata[c]
  <2>1. /\ a.offset \in Nat /\ a.size \in Nat /\ a.offset + a.size <= MaxSize
        /\ MaxSize \in Nat /\ disk \in [0 .. MaxSize - 1 -> Cells]
    BY ExtentFields, ArgsAssumption DEF IInv, GoodChunks
  <2>2. Content[c] = [i \in 0 .. a.size - 1 |-> disk[a.offset + i]]
    BY DEF Content
  <2> HIDE DEF a
  <2>3. \A i \in 0 .. a.size - 1 : a.offset + i \in 0 .. MaxSize - 1
    BY <2>1
  <2>4. Content[c] \in [0 .. a.size - 1 -> Cells]
    BY <2>1, <2>2, <2>3
  <2>5. Cardinality(0 .. a.size - 1) = a.size
    <3>1. ASSUME NEW n \in Nat PROVE Cardinality(0 .. n - 1) = n
      <4>1. n - 1 \in Int /\ 0 \in Int
        OBVIOUS
      <4>2. Cardinality(0 .. n - 1) = IF 0 > n - 1 THEN 0 ELSE n - 1 - 0 + 1
        BY <4>1, FS_Interval
      <4> QED BY <4>2
    <3> QED BY <2>1, <3>1
  <2>6. Abstract!Size(c) = a.size
    <3>1. DOMAIN Content[c] = 0 .. a.size - 1
      BY <2>2
    <3>2. Abstract!Size(c) = Cardinality(DOMAIN Content[c])
      BY <1>1 DEF Abstract!Size, Abstract!Cardinality, Cardinality
    <3> QED BY <2>5, <3>1, <3>2
  <2> QED BY <2>2, <2>4, <2>6 DEF a
<1>3. \A c : c \notin DOMAIN metadata => Abstract!Size(c) = 0
  BY <1>1 DEF Abstract!Size
<1> QED BY <1>1, <1>2, <1>3

\* A step that leaves chunks and data file leaves the contents.
LEMMA SameContent ==
    ASSUME UNCHANGED <<metadata, disk>>
    PROVE  Content' = Content
  BY DEF Content

\* A write to chunk c that leaves the bytes of the other chunks, moves those
\* of c along, and puts its own in place is a write of ChunkStore.
LEMMA WriteRefines ==
    ASSUME IInv, IInv', alive, NEW c \in Chunks,
           NEW offset \in Nat, NEW count \in Nat, NEW b \in Bytes,
           DOMAIN metadata' = DOMAIN metadata \cup {c},
           \A d \in DOMAIN metadata : d # c => metadata'[d] = metadata[d],
           \A d \in DOMAIN metadata : d # c =>
                \A j \in Nat : Covers(metadata[d], j) /\ disk[j] # NoByte
                                    => disk'[j] = disk[j],
           metadata'[c].size =
                IF offset + count > Abstract!Size(c) THEN offset + count
                ELSE Abstract!Size(c),
           \A i \in offset .. offset + count - 1 : disk'[metadata'[c].offset + i] = b,
           c \in DOMAIN metadata =>
                \A i \in 0 .. metadata[c].size - 1 :
                    /\ i \notin offset .. offset + count - 1
                    /\ disk[metadata[c].offset + i] # NoByte
                    => disk'[metadata'[c].offset + i] = disk[metadata[c].offset + i],
           Reply("write", count, count, Nothing), UNCHANGED alive
    PROVE  Abstract!Write(c, offset, count, b)
<1> DEFINE a == metadata'[c]
           new == Content'[c]
<1>1. /\ DOMAIN Content = DOMAIN metadata
      /\ \A d \in DOMAIN metadata :
            /\ Content[d] = [i \in 0 .. metadata[d].size - 1 |->
                                disk[metadata[d].offset + i]]
            /\ Abstract!Size(d) = metadata[d].size
      /\ \A d : d \notin DOMAIN metadata => Abstract!Size(d) = 0
  BY ContentOf
<1>2. /\ Content' = [x \in DOMAIN metadata' |->
                        [i \in 0 .. metadata'[x].size - 1 |->
                            disk'[metadata'[x].offset + i]]]
      /\ new = [i \in 0 .. a.size - 1 |-> disk'[a.offset + i]]
  BY DEF Content
<1>3. ASSUME NEW x \in DOMAIN metadata'
      PROVE  Content'[x] \in [0 .. metadata'[x].size - 1 -> Cells]
  <2> DEFINE e == metadata'[x]
  <2>1. /\ e.offset \in Nat /\ e.size \in Nat /\ e.offset + e.size <= MaxSize
        /\ MaxSize \in Nat /\ disk' \in [0 .. MaxSize - 1 -> Cells]
    BY ExtentFields, ArgsAssumption DEF IInv, GoodChunks
  <2>2. Content'[x] = [i \in 0 .. e.size - 1 |-> disk'[e.offset + i]]
    BY <1>2
  <2> HIDE DEF e
  <2>3. \A i \in 0 .. e.size - 1 : e.offset + i \in 0 .. MaxSize - 1
    BY <2>1
  <2>4. Content'[x] \in [0 .. e.size - 1 -> Cells]
    BY <2>1, <2>2, <2>3
  <2> QED BY <2>4 DEF e
<1>4. ASSUME NEW d \in DOMAIN metadata, d # c PROVE Content'[d] \in Abstract!Kept(d)
  <2>1. /\ metadata[d].offset \in Nat /\ metadata[d].size \in Nat
        /\ metadata'[d] = metadata[d] /\ d \in DOMAIN metadata'
    BY <1>4, ExtentFields DEF IInv, GoodChunks
  <2>2. ASSUME NEW i \in 0 .. metadata[d].size - 1, Content[d][i] # NoByte
        PROVE  Content'[d][i] = Content[d][i]
    <3>1. metadata[d].offset + i \in Nat
          /\ Covers(metadata[d], metadata[d].offset + i)
      BY <2>1 DEF Covers
    <3>2. Content[d] = [j \in 0 .. metadata[d].size - 1 |->
                          disk[metadata[d].offset + j]]
      BY <1>1
    <3>3. Content[d][i] = disk[metadata[d].offset + i]
      BY <3>2
    <3>4. Content'[d] = [j \in 0 .. metadata[d].size - 1 |->
                           disk'[metadata[d].offset + j]]
      BY <1>2, <2>1
    <3>5. Content'[d][i] = disk'[metadata[d].offset + i]
      BY <3>4
    <3>6. disk'[metadata[d].offset + i] = disk[metadata[d].offset + i]
      BY <1>4, <2>2, <3>1, <3>3
    <3> QED BY <3>3, <3>5, <3>6
  <2>3. Content'[d] \in [0 .. metadata[d].size - 1 -> Cells]
    BY <1>3, <2>1
  <2>4. DOMAIN Content[d] = 0 .. metadata[d].size - 1
    BY <1>1
  <2> QED BY <2>2, <2>3, <2>4 DEF Abstract!Kept, Cells
<1>5. \A i \in offset .. offset + count - 1 : new[i] = b
  <2>1. a.size >= offset + count /\ a.size \in Nat
    BY <1>1, ExtentFields DEF IInv, GoodChunks
  <2>2. \A i \in offset .. offset + count - 1 : i \in 0 .. a.size - 1
    BY <2>1
  <2> HIDE DEF a, new
  <2> QED BY <1>2, <2>2 DEF a
<1>6. ASSUME NEW i \in 0 .. Abstract!Size(c) - 1,
             i \notin offset .. offset + count - 1, Content[c][i] # NoByte
      PROVE  new[i] = Content[c][i]
  <2>1. c \in DOMAIN metadata /\ Abstract!Size(c) = metadata[c].size
    BY <1>1, <1>6
  <2>2. metadata[c].size \in Nat
    BY <2>1, ExtentFields DEF IInv, GoodChunks
  <2>3. a.size \in Nat /\ a.size >= metadata[c].size
    BY <2>1, <2>2
  <2>4. i \in 0 .. a.size - 1
    BY <1>6, <2>1, <2>2, <2>3
  <2>5. new[i] = disk'[a.offset + i]
    BY <1>2, <2>4
  <2>6. Content[c][i] = disk[metadata[c].offset + i]
    BY <1>1, <1>6, <2>1
  <2> QED BY <1>6, <2>1, <2>5, <2>6
<1>7. new \in Abstract!Written(c, offset, count, b)
  <2>1. new \in [0 .. a.size - 1 -> Cells]
    BY <1>3
  <2> HIDE DEF new
  <2> QED BY <1>5, <1>6, <2>1 DEF Abstract!Written, Cells
<1>8. /\ DOMAIN Content' = DOMAIN Content \cup {c}
      /\ Content' = [x \in DOMAIN Content' |-> Content'[x]]
  BY <1>1, <1>2
<1>9. Abstract!Reply("write", count, count, Abstract!Nothing)
  BY DEF Reply, Nothing, Abstract!Reply, Abstract!Nothing
<1>10. \A x \in DOMAIN Content \ {c} : Content'[x] \in Abstract!Kept(x)
  BY <1>1, <1>4
<1> QED BY <1>7, <1>8, <1>9, <1>10 DEF Abstract!Write

\* Data file w is d with count bytes b at offset of extent a; what is not in d
\* may be in w.
WrittenAt(w, d, a, offset, count, b) ==
    /\ \A i \in offset .. offset + count - 1 : w[a.offset + i] = b
    /\ \A i \in 0 .. a.size - 1 :
          i \notin offset .. offset + count - 1 /\ d[a.offset + i] # NoByte
            => w[a.offset + i] = d[a.offset + i]
    /\ \A j \in 0 .. MaxSize - 1 : ~Covers(a, j) /\ d[j] # NoByte => w[j] = d[j]

\* Data file w is d with the bytes of extent old at the start of extent new.
MovedTo(w, d, old, new) ==
    /\ \A i \in 0 .. old.size - 1 :
          d[old.offset + i] # NoByte => w[new.offset + i] = d[old.offset + i]
    /\ \A j \in 0 .. MaxSize - 1 : ~Covers(new, j) /\ d[j] # NoByte => w[j] = d[j]

\* The bytes a write changes are those of its span, and missing ones.
LEMMA WriteDataAt ==
    ASSUME NEW d \in [0 .. MaxSize - 1 -> Cells], NEW a \in Extents,
           NEW offset \in Nat, NEW count \in Nat, offset + count <= a.size,
           NEW b \in Bytes
    PROVE  WrittenAt(WriteData(d, a, offset, count, b), d, a, offset, count, b)
<1> DEFINE w == WriteData(d, a, offset, count, b)
<1>1. /\ a.offset \in Nat /\ a.size \in Nat /\ a.offset + a.size <= MaxSize
      /\ MaxSize \in Nat
  BY ExtentFields, ArgsAssumption
<1>2. \A j \in 0 .. MaxSize - 1 :
          /\ j \in Span(a, offset, count) => w[j] = b
          /\ j \notin Span(a, offset, count) /\ d[j] # NoByte => w[j] = d[j]
  BY DEF WriteData, Reached
<1> HIDE DEF w
<1>3. ASSUME NEW i \in 0 .. a.size - 1
      PROVE  /\ a.offset + i \in 0 .. MaxSize - 1
             /\ a.offset + i \in Span(a, offset, count)
                  <=> i \in offset .. offset + count - 1
  <2>1. a.offset + i \in 0 .. MaxSize - 1
    BY <1>1
  <2>2. a.offset + i \in Span(a, offset, count)
          <=> i \in offset .. offset + count - 1
    BY <1>1 DEF Span
  <2> QED BY <2>1, <2>2
<1>4. \A i \in offset .. offset + count - 1 : i \in 0 .. a.size - 1
  BY <1>1
<1>5. \A i \in offset .. offset + count - 1 : w[a.offset + i] = b
  BY <1>2, <1>3, <1>4
<1>6. \A i \in 0 .. a.size - 1 :
          i \notin offset .. offset + count - 1 /\ d[a.offset + i] # NoByte
            => w[a.offset + i] = d[a.offset + i]
  BY <1>2, <1>3
<1>7. \A j \in 0 .. MaxSize - 1 : j \in Span(a, offset, count) => Covers(a, j)
  BY <1>1 DEF Span, Covers
<1>8. \A j \in 0 .. MaxSize - 1 : ~Covers(a, j) /\ d[j] # NoByte => w[j] = d[j]
  BY <1>2, <1>7
<1> QED BY <1>5, <1>6, <1>8 DEF WrittenAt, w

\* A grown chunk has its old bytes in front.
LEMMA CopyOverAt ==
    ASSUME NEW d \in [0 .. MaxSize - 1 -> Cells],
           NEW old \in Extents, NEW new \in Extents, old.size <= new.size,
           NEW junk
    PROVE  MovedTo(CopyOver(d, old, new, junk), d, old, new)
<1> DEFINE w == CopyOver(d, old, new, junk)
<1>1. /\ old.offset \in Nat /\ old.size \in Nat
      /\ new.offset \in Nat /\ new.size \in Nat /\ new.offset + new.size <= MaxSize
      /\ MaxSize \in Nat
  BY ExtentFields, ArgsAssumption
<1>2. \A j \in 0 .. MaxSize - 1 :
          /\ j \in Span(new, 0, new.size) /\ HasByte(d, old, j - new.offset)
                => w[j] = d[old.offset + j - new.offset]
          /\ j \notin Span(new, 0, new.size) /\ d[j] # NoByte => w[j] = d[j]
  BY DEF CopyOver, Reached
<1> HIDE DEF w
<1>3. ASSUME NEW i \in 0 .. old.size - 1, d[old.offset + i] # NoByte
      PROVE  w[new.offset + i] = d[old.offset + i]
  <2>1. new.offset + i \in 0 .. MaxSize - 1 /\ new.offset + i \in Span(new, 0, new.size)
    BY <1>1 DEF Span
  <2> DEFINE k == new.offset + i
  <2>2. old.offset + k - new.offset = old.offset + i /\ k - new.offset = i
    BY <1>1
  <2>3. HasByte(d, old, i)
    BY <1>1, <1>3 DEF HasByte
  <2> HIDE DEF k
  <2>4. HasByte(d, old, k - new.offset)
    BY <2>2, <2>3
  <2>5. k \in 0 .. MaxSize - 1 /\ k \in Span(new, 0, new.size)
    BY <2>1 DEF k
  <2>6. w[k] = d[old.offset + k - new.offset]
    BY <1>2, <2>4, <2>5
  <2> QED BY <2>2, <2>6 DEF k
<1>4. ASSUME NEW j \in 0 .. MaxSize - 1, ~Covers(new, j), d[j] # NoByte
      PROVE  w[j] = d[j]
  <2>1. j \notin Span(new, 0, new.size)
    BY <1>1, <1>4 DEF Span, Covers
  <2> QED BY <1>2, <1>4, <2>1
<1> QED BY <1>3, <1>4 DEF MovedTo, w

\* A byte of another chunk is in the data file and not in c's extent.
LEMMA OtherChunks ==
    ASSUME IInv, IInv', NEW c \in DOMAIN metadata',
           \A d \in DOMAIN metadata : d # c => metadata'[d] = metadata[d],
           DOMAIN metadata' = DOMAIN metadata \cup {c},
           NEW d \in DOMAIN metadata, d # c, NEW j \in Nat, Covers(metadata[d], j)
    PROVE  j \in 0 .. MaxSize - 1 /\ ~Covers(metadata'[c], j)
<1>1. /\ metadata[d] \in Extents /\ metadata'[d] = metadata[d]
      /\ metadata'[c] \in Extents /\ Apart(metadata'[c], metadata'[d])
  BY DEF IInv, GoodChunks
<1>2. j \in 0 .. MaxSize - 1
  BY <1>1, ExtentFields, ArgsAssumption DEF Covers
<1> QED BY <1>1, <1>2, ApartBytes

\* Each way write_chunk succeeds is a write of ChunkStore.
LEMMA WriteNewRefines ==
    ASSUME IInv, IInv', alive, NEW c \in Chunks,
           NEW offset \in Nat, NEW count \in Nat, NEW b \in Bytes,
           offset + count > 0, WriteNew(c, offset, count, b), UNCHANGED alive
    PROVE  Abstract!Write(c, offset, count, b)
<1> DEFINE n == offset + count
           a == Allocated(free_extents, n)
<1>1. /\ c \notin DOMAIN metadata
      /\ CanAllocate(free_extents, n)
      /\ SetAddress(c, a)
      /\ disk' = WriteData(disk, a, offset, count, b)
      /\ Reply("write", count, count, Nothing)
  BY DEF WriteNew
<1>2. /\ DOMAIN metadata' = DOMAIN metadata \cup {c}
      /\ metadata'[c] = a
      /\ \A d \in DOMAIN metadata : d # c => metadata'[d] = metadata[d]
  BY <1>1 DEF SetAddress
<1>3. GoodFree(free_extents) /\ disk \in [0 .. MaxSize - 1 -> Cells] /\ n \in Nat /\ n > 0
  BY DEF IInv
<1>4. a \in Extents /\ a.size = n
  BY <1>1, <1>3, AllocateGood
<1> HIDE DEF a
<1>5. /\ \A i \in offset .. offset + count - 1 : disk'[a.offset + i] = b
      /\ \A j \in 0 .. MaxSize - 1 :
            ~Covers(a, j) /\ disk[j] # NoByte => disk'[j] = disk[j]
  <2>1. offset + count <= a.size
    BY <1>3, <1>4
  <2>2. WrittenAt(disk', disk, a, offset, count, b)
    BY <1>1, <1>3, <1>4, <2>1, WriteDataAt
  <2> QED BY <2>2 DEF WrittenAt
<1>6. Abstract!Size(c) = 0
  BY <1>1, ContentOf
<1>7. a.size = IF offset + count > Abstract!Size(c) THEN offset + count
               ELSE Abstract!Size(c)
  BY <1>3, <1>4, <1>6
<1>8. \A d \in DOMAIN metadata : d # c =>
          \A j \in Nat : Covers(metadata[d], j) /\ disk[j] # NoByte
                              => disk'[j] = disk[j]
  BY <1>2, <1>5, OtherChunks
<1> QED BY <1>1, <1>2, <1>5, <1>7, <1>8, WriteRefines

LEMMA WriteInPlaceRefines ==
    ASSUME IInv, IInv', alive, NEW c \in Chunks,
           NEW offset \in Nat, NEW count \in Nat, NEW b \in Bytes,
           WriteInPlace(c, offset, count, b), UNCHANGED alive
    PROVE  Abstract!Write(c, offset, count, b)
<1> DEFINE a == metadata[c]
<1>1. /\ c \in DOMAIN metadata /\ UNCHANGED metadata
      /\ offset + count <= a.size
      /\ disk' = WriteData(disk, a, offset, count, b)
      /\ Reply("write", count, count, Nothing)
  BY DEF WriteInPlace
<1>2. /\ a \in Extents /\ a.size \in Nat /\ disk \in [0 .. MaxSize - 1 -> Cells]
      /\ DOMAIN metadata' = DOMAIN metadata \cup {c} /\ metadata'[c] = a
  BY <1>1, ExtentFields DEF IInv, GoodChunks
<1>3. Abstract!Size(c) = a.size
  BY <1>1, ContentOf
<1>4. a.size = IF offset + count > Abstract!Size(c) THEN offset + count
               ELSE Abstract!Size(c)
  BY <1>1, <1>2, <1>3
<1>5. /\ \A i \in offset .. offset + count - 1 : disk'[a.offset + i] = b
      /\ \A i \in 0 .. a.size - 1 :
            i \notin offset .. offset + count - 1 /\ disk[a.offset + i] # NoByte
              => disk'[a.offset + i] = disk[a.offset + i]
      /\ \A j \in 0 .. MaxSize - 1 :
            ~Covers(a, j) /\ disk[j] # NoByte => disk'[j] = disk[j]
  <2>1. WrittenAt(disk', disk, a, offset, count, b)
    BY <1>1, <1>2, WriteDataAt
  <2> QED BY <2>1 DEF WrittenAt
<1>6. \A d \in DOMAIN metadata : d # c =>
          \A j \in Nat : Covers(metadata[d], j) /\ disk[j] # NoByte
                              => disk'[j] = disk[j]
  BY <1>1, <1>2, <1>5, OtherChunks
<1> QED BY <1>1, <1>2, <1>4, <1>5, <1>6, WriteRefines

LEMMA WriteGrowRefines ==
    ASSUME IInv, IInv', alive, NEW c \in Chunks,
           NEW offset \in Nat, NEW count \in Nat, NEW b \in Bytes,
           WriteGrow(c, offset, count, b), UNCHANGED alive
    PROVE  Abstract!Write(c, offset, count, b)
<1> DEFINE n == offset + count
           old == metadata[c]
<1>1. c \in DOMAIN metadata /\ n > old.size
  BY DEF WriteGrow, Grows
<1>2. PICK D \in Deallocations(free_extents, old) : GrowFrom(D, c, offset, count, b)
  BY DEF WriteGrow
<1> DEFINE a == Allocated(D, n)
<1>3. PICK junk \in [Unread(c, n) -> Bytes] :
            disk' = WriteData(CopyOver(disk, old, a, junk), a, offset, count, b)
  BY <1>2 DEF GrowFrom
<1>4. /\ CanAllocate(D, n)
      /\ SetAddress(c, a)
      /\ Reply("write", count, count, Nothing)
  BY <1>2 DEF GrowFrom
<1>5. old \in Extents /\ GoodFree(D) /\ disk \in [0 .. MaxSize - 1 -> Cells]
  BY <1>1, FreedChunk DEF IInv
<1>6. n \in Nat /\ n > 0 /\ old.size <= n /\ old.size \in Nat
  BY <1>1, <1>5, ExtentFields
<1>7. a \in Extents /\ a.size = n
  BY <1>4, <1>5, <1>6, AllocateGood
<1>8. /\ DOMAIN metadata' = DOMAIN metadata \cup {c}
      /\ metadata'[c] = a
      /\ \A d \in DOMAIN metadata : d # c => metadata'[d] = metadata[d]
  BY <1>4 DEF SetAddress
<1> HIDE DEF a, old
<1> DEFINE copy == CopyOver(disk, old, a, junk)
<1>9. /\ copy \in [0 .. MaxSize - 1 -> Cells]
      /\ \A i \in 0 .. old.size - 1 :
            disk[old.offset + i] # NoByte => copy[a.offset + i] = disk[old.offset + i]
      /\ \A j \in 0 .. MaxSize - 1 :
            ~Covers(a, j) /\ disk[j] # NoByte => copy[j] = disk[j]
  <2>1. /\ old.size <= a.size
        /\ junk \in [{i \in 0 .. a.size - 1 : ~HasByte(disk, old, i)} -> Bytes]
    BY <1>3, <1>6, <1>7 DEF Unread, old
  <2>2. copy \in [0 .. MaxSize - 1 -> Cells]
    BY <1>5, <1>7, <2>1, CopyOverGood
  <2>3. MovedTo(copy, disk, old, a)
    BY <1>5, <1>7, <2>1, CopyOverAt
  <2> QED BY <2>2, <2>3 DEF MovedTo
<1>10. disk' = WriteData(copy, a, offset, count, b) /\ offset + count <= a.size
  BY <1>3, <1>6, <1>7
<1> HIDE DEF copy
<1>11. /\ \A i \in offset .. offset + count - 1 : disk'[a.offset + i] = b
       /\ \A i \in 0 .. a.size - 1 :
             i \notin offset .. offset + count - 1 /\ copy[a.offset + i] # NoByte
               => disk'[a.offset + i] = copy[a.offset + i]
       /\ \A j \in 0 .. MaxSize - 1 :
             ~Covers(a, j) /\ copy[j] # NoByte => disk'[j] = copy[j]
  <2>1. WrittenAt(disk', copy, a, offset, count, b)
    BY <1>7, <1>9, <1>10, WriteDataAt
  <2> QED BY <2>1 DEF WrittenAt
<1>12. \A i \in 0 .. old.size - 1 :
           i \notin offset .. offset + count - 1 /\ disk[old.offset + i] # NoByte
             => disk'[a.offset + i] = disk[old.offset + i]
  <2>1. \A i \in 0 .. old.size - 1 : i \in 0 .. a.size - 1
    BY <1>6, <1>7
  <2> QED BY <1>9, <1>11, <2>1
<1>13. Abstract!Size(c) = old.size
  BY <1>1, ContentOf DEF old
<1>14. a.size = IF offset + count > Abstract!Size(c) THEN offset + count
                ELSE Abstract!Size(c)
  BY <1>1, <1>7, <1>13
<1>15. \A d \in DOMAIN metadata : d # c =>
           \A j \in Nat : Covers(metadata[d], j) /\ disk[j] # NoByte
                              => disk'[j] = disk[j]
  BY <1>8, <1>9, <1>11, OtherChunks
<1> QED BY <1>1, <1>4, <1>8, <1>11, <1>12, <1>14, <1>15, WriteRefines DEF old

\* read_chunk returns the bytes of the content, clipped alike.
LEMMA ReadRefines ==
    ASSUME IInv, NEW c \in Chunks, NEW offset \in Nat, NEW count \in Nat,
           read_chunk(c, offset, count)
    PROVE  Abstract!Read(c, offset, count) \/ Abstract!ReadFails(c, offset, count)
<1>1. /\ alive /\ UNCHANGED <<metadata, disk, alive>>
  BY DEF read_chunk
<1>2. UNCHANGED <<Content, alive>>
  BY <1>1, SameContent
<1>3. /\ DOMAIN Content = DOMAIN metadata
      /\ \A d \in DOMAIN metadata :
            /\ Content[d] = [i \in 0 .. metadata[d].size - 1 |->
                                disk[metadata[d].offset + i]]
            /\ Abstract!Size(d) = metadata[d].size
  BY ContentOf
<1>4. CASE ReadClipped(c, offset, count)
  <2> DEFINE a == metadata[c]
             n == IF count > a.size - offset THEN a.size - offset ELSE count
             p == a.offset + offset
  <2>1. c \in DOMAIN metadata /\ offset <= a.size
    BY <1>4 DEF ReadClipped
  <2>2. PICK m \in ReadCounts(p, n) :
            Reply("read", count, m, [i \in 0 .. m - 1 |-> disk[p + i]])
    BY <1>4 DEF ReadClipped
  <2>3. a.offset \in Nat /\ a.size \in Nat
    BY <2>1, ExtentFields DEF IInv, GoodChunks
  <2>4. n \in Nat /\ offset + n <= a.size
        /\ n = IF offset + count > a.size THEN a.size - offset ELSE count
    BY <2>1, <2>3
  <2> HIDE DEF n, p
  <2>5. /\ m \in 0 .. n
        /\ \A i \in 0 .. m - 1 : disk[p + i] # NoByte
        /\ m < n => disk[p + m] = NoByte
    BY <2>2 DEF ReadCounts
  <2>6. ASSUME NEW i \in Nat, i < n
        PROVE  Content[c][offset + i] = disk[p + i]
    <3>1. offset + i \in 0 .. a.size - 1
      BY <2>3, <2>4, <2>6
    <3>2. Content[c][offset + i] = disk[a.offset + (offset + i)]
      BY <1>3, <2>1, <3>1
    <3>3. a.offset + (offset + i) = p + i
      BY <2>3 DEF p
    <3> QED BY <3>2, <3>3
  <2>7. \A i \in 0 .. m - 1 : i \in Nat /\ i < n
    BY <2>4, <2>5
  <2>8. last' = [op |-> "read", asked |-> count, result |-> m,
                 data |-> [i \in 0 .. m - 1 |-> Content[c][offset + i]]]
    <3>1. [i \in 0 .. m - 1 |-> disk[p + i]]
            = [i \in 0 .. m - 1 |-> Content[c][offset + i]]
      BY <2>6, <2>7
    <3> QED BY <2>2, <3>1 DEF Reply
  <2>9. \A i \in offset .. offset + m - 1 : Content[c][i] # NoByte
    <3> SUFFICES ASSUME NEW i \in offset .. offset + m - 1
                 PROVE  Content[c][i] # NoByte
      OBVIOUS
    <3>1. i - offset \in 0 .. m - 1 /\ offset + (i - offset) = i
      BY <2>4, <2>5
    <3> QED BY <2>5, <2>6, <2>7, <3>1
  <2>10. m < n => Content[c][offset + m] = NoByte
    BY <2>4, <2>5, <2>6
  <2>11. Abstract!Size(c) = a.size
    BY <1>3, <2>1
  <2> DEFINE k == IF offset + count > Abstract!Size(c)
                  THEN Abstract!Size(c) - offset ELSE count
  <2>12. k = n
    BY <2>4, <2>11
  <2>13. \E x \in 0 .. k :
            /\ \A i \in offset .. offset + x - 1 : Content[c][i] # NoByte
            /\ x < k => Content[c][offset + x] = NoByte
            /\ Abstract!Reply("read", count, x,
                              [i \in 0 .. x - 1 |-> Content[c][offset + i]])
    BY <2>5, <2>8, <2>9, <2>10, <2>12 DEF Abstract!Reply
  <2> QED BY <1>1, <1>2, <1>3, <2>1, <2>11, <2>13 DEF Abstract!Read
<1>5. CASE ReadFails(c, offset, count)
  <2>1. c \notin DOMAIN Content \/ offset > Abstract!Size(c)
    BY <1>3, <1>5 DEF ReadFails
  <2>2. last' = [op |-> "read", asked |-> count, result |-> -1, data |-> Nothing]
    BY <1>5 DEF ReadFails, Reply
  <2> QED BY <1>1, <1>2, <2>1, <2>2
          DEF Abstract!ReadFails, Abstract!Reply, Abstract!Nothing, Nothing
<1> QED BY <1>4, <1>5 DEF read_chunk

\* delete_chunk removes the chunk and no other.
LEMMA DeleteRefines ==
    ASSUME NEW c \in Chunks, delete_chunk(c)
    PROVE  Abstract!Delete(c) \/ Abstract!DeleteFails(c)
<1>1. alive /\ UNCHANGED <<disk, alive>> /\ DOMAIN Content = DOMAIN metadata
  BY DEF delete_chunk, Content
<1>2. CASE c \in DOMAIN metadata
  <2>1. /\ metadata' = [x \in DOMAIN metadata \ {c} |-> metadata[x]]
        /\ Reply("delete", 0, 0, Nothing)
    BY <1>2 DEF delete_chunk
  <2>2. Content' = [x \in DOMAIN Content \ {c} |-> Content[x]]
    BY <1>1, <2>1 DEF Content
  <2> QED BY <1>1, <1>2, <2>1, <2>2
          DEF Abstract!Delete, Abstract!Reply, Abstract!Nothing, Reply, Nothing
<1>3. CASE c \notin DOMAIN metadata
  <2>1. UNCHANGED metadata /\ Reply("delete", 0, -1, Nothing)
    BY <1>3 DEF delete_chunk
  <2> QED BY <1>1, <1>3, <2>1, SameContent
          DEF Abstract!DeleteFails, Abstract!Reply, Abstract!Nothing, Reply, Nothing
<1> QED BY <1>2, <1>3

\* A write that fails changes no content.
LEMMA WriteFullRefines ==
    ASSUME NEW c \in Chunks, NEW offset, NEW count, alive,
           WriteFull(c, offset, count), UNCHANGED alive
    PROVE  Abstract!WriteFails(count)
<1>1. Reply("write", count, -1, Nothing) /\ UNCHANGED <<metadata, disk>>
  BY DEF WriteFull
<1> QED BY <1>1, SameContent
        DEF Abstract!WriteFails, Abstract!Reply, Abstract!Nothing, Reply, Nothing

\* Every step of the node is a step of ChunkStore, or leaves it alone.
LEMMA NextRefines ==
    ASSUME IInv, IInv', [Next]_vars
    PROVE  [Abstract!Next]_<<Content, alive, last>>
<1>1. CASE UNCHANGED vars
  <2>1. UNCHANGED <<metadata, disk, alive, last>>
    BY <1>1 DEF vars
  <2> QED BY <2>1, SameContent
<1>2. ASSUME NEW c \in Chunks, NEW w \in WriteArgs, NEW b \in Bytes,
             write_chunk(c, w[1], w[2], b)
      PROVE  Abstract!Write(c, w[1], w[2], b) \/ Abstract!WriteFails(w[2])
  <2>1. w[1] \in Nat /\ w[2] \in Nat /\ w[1] + w[2] > 0
    BY WriteArgument
  <2>2. alive /\ UNCHANGED alive
    BY <1>2 DEF write_chunk
  <2> QED BY <1>2, <2>1, <2>2, WriteNewRefines, WriteInPlaceRefines,
             WriteGrowRefines, WriteFullRefines
          DEF write_chunk
<1>3. ASSUME NEW c \in Chunks, NEW r \in ReadArgs, read_chunk(c, r[1], r[2])
      PROVE  Abstract!Read(c, r[1], r[2]) \/ Abstract!ReadFails(c, r[1], r[2])
  <2>1. r[1] \in Nat /\ r[2] \in Nat
    BY ArgsAssumption
  <2> QED BY <1>3, <2>1, ReadRefines
<1>4. ASSUME NEW c \in Chunks, CrashInDeallocate(c) PROVE Abstract!Die
  <2>1. UNCHANGED <<metadata, disk, last>> /\ alive' = FALSE
    BY <1>4 DEF CrashInDeallocate
  <2> QED BY <2>1, SameContent DEF Abstract!Die
<1> QED BY <1>1, <1>2, <1>3, <1>4, DeleteRefines DEF Next, Abstract!Next

\* The node implements ChunkStore: through allocation, growth, moves, failures
\* and crashes a chunk's bytes are those last written to it.
THEOREM StorageImplementsChunkStore == Spec => ImplementsChunkStore
<1>1. Init => Abstract!Init
  <2> SUFFICES ASSUME Init PROVE Abstract!Init
    OBVIOUS
  <2>1. DOMAIN metadata = {}
    BY DEF Init, Nothing
  <2>2. Content = Abstract!Nothing
    BY <2>1 DEF Content, Abstract!Nothing
  <2> QED BY <2>2 DEF Init, Abstract!Init, Abstract!Nothing, Nothing
<1>2. IInv /\ IInv' /\ [Next]_vars => [Abstract!Next]_<<Content, alive, last>>
  BY NextRefines
<1> QED BY <1>1, <1>2, Invariance, PTL
        DEF Spec, ImplementsChunkStore, Abstract!Spec, Abstract!vars

-------------------------------------------------------------------------------
(* Restarts *)


\* In its first life the file of the map has, in the first slot of each key,
\* the address of every chunk that was never deleted; the other chunks it has
\* were deleted at some time.
FileAgrees ==
    ~restarted =>
        /\ DOMAIN metadata \subseteq DOMAIN chunkFile
        /\ DOMAIN chunkFile \subseteq DOMAIN metadata \cup deleted
        /\ \A c \in DOMAIN metadata \ deleted : chunkFile[c] = metadata[c]

\* A first write inserts the chunk.
LEMMA NewLifeAgrees ==
    ASSUME FileAgrees, ~restarted, NEW c \in Chunks, NEW offset, NEW count, NEW b,
           NewLife(c, offset, count, b), UNCHANGED <<deleted, restarted>>
    PROVE  FileAgrees'
<1>1. /\ c \notin DOMAIN metadata
      /\ DOMAIN metadata' = DOMAIN metadata \cup {c}
      /\ \A d \in DOMAIN metadata : metadata'[d] = metadata[d]
  BY DEF NewLife, WriteNew, SetAddress
<1>2. CASE c \in DOMAIN chunkFile
  <2>1. c \in deleted /\ UNCHANGED chunkFile
    BY <1>1, <1>2 DEF FileAgrees, NewLife, MapInserted
  <2> QED BY <1>1, <1>2, <2>1 DEF FileAgrees
<1>3. CASE c \notin DOMAIN chunkFile
  <2>1. /\ DOMAIN chunkFile' = DOMAIN chunkFile \cup {c}
        /\ chunkFile'[c] = metadata'[c]
        /\ \A d \in DOMAIN chunkFile : chunkFile'[d] = chunkFile[d]
    BY <1>3 DEF NewLife, MapInserted
  <2> QED BY <1>1, <2>1 DEF FileAgrees
<1> QED BY <1>2, <1>3

\* A write that moves a chunk changes its slot, and one that fails changes
\* neither.
LEMMA GrownLifeAgrees ==
    ASSUME FileAgrees, ~restarted, NEW c \in Chunks, NEW offset, NEW count, NEW b,
           GrownLife(c, offset, count, b), UNCHANGED <<deleted, restarted>>
    PROVE  FileAgrees'
<1>1. c \in DOMAIN metadata
  BY DEF GrownLife, Grows
<1>2. CASE UNCHANGED <<metadata, chunkFile>>
  BY <1>2 DEF FileAgrees
<1>3. ASSUME NEW D, GrowFrom(D, c, offset, count, b), MapAssigned(c)
      PROVE  FileAgrees'
  <2>1. /\ DOMAIN metadata' = DOMAIN metadata
        /\ \A d \in DOMAIN metadata : d # c => metadata'[d] = metadata[d]
    BY <1>1, <1>3 DEF GrowFrom, SetAddress
  <2>2. /\ DOMAIN chunkFile' = DOMAIN chunkFile
        /\ \A d \in DOMAIN chunkFile : d # c => chunkFile'[d] = chunkFile[d]
        /\ c \notin deleted /\ c \in DOMAIN chunkFile => chunkFile'[c] = metadata'[c]
    BY <1>3 DEF MapAssigned
  <2> QED BY <1>1, <2>1, <2>2 DEF FileAgrees
<1> QED BY <1>2, <1>3 DEF GrownLife

\* An erased chunk keeps its slot and counts as deleted from then on.
LEMMA DeleteAgrees ==
    ASSUME FileAgrees, ~restarted, NEW c \in Chunks, Delete(c)
    PROVE  FileAgrees'
<1>1. /\ UNCHANGED <<chunkFile, restarted>>
      /\ deleted' = deleted \cup (DOMAIN metadata \ DOMAIN metadata')
  BY DEF Delete
<1>2. /\ DOMAIN metadata' \subseteq DOMAIN metadata
      /\ \A d \in DOMAIN metadata' : metadata'[d] = metadata[d]
  BY DEF Delete, delete_chunk
<1> QED BY <1>1, <1>2 DEF FileAgrees

\* The file agrees with the map all through the first life.
LEMMA FirstLifeAgrees == SpecFiles => []FileAgrees
<1>1. InitFiles => FileAgrees
  BY DEF InitFiles, Init, Nothing, FileAgrees
<1>2. ASSUME FileAgrees, [NextFiles]_allVars PROVE FileAgrees'
  <2>1. CASE UNCHANGED <<metadata, chunkFile, deleted, restarted>>
    BY <1>2, <2>1 DEF FileAgrees
  <2>2. CASE restarted'
    BY <2>2 DEF FileAgrees
  <2>3. ASSUME NEW c \in Chunks, NEW offset, NEW count, NEW b, Write(c, offset, count, b)
        PROVE  FileAgrees'
    <3>1. ~restarted /\ UNCHANGED <<deleted, restarted>>
      BY <2>3 DEF Write
    <3>2. CASE UNCHANGED <<metadata, chunkFile>>
      BY <2>1, <3>1, <3>2
    <3> QED BY <1>2, <2>3, <3>1, <3>2, NewLifeAgrees, GrownLifeAgrees
            DEF Write, WriteInPlace
  <2>4. ASSUME NEW c \in Chunks, Delete(c) PROVE FileAgrees'
    BY <1>2, <2>4, DeleteAgrees DEF Delete
  <2>5. ASSUME NEW c \in Chunks, NEW r \in ReadArgs, Read(c, r[1], r[2])
        PROVE  FileAgrees'
    BY <2>1, <2>5 DEF Read, read_chunk, files
  <2>6. ASSUME NEW c \in Chunks, CrashInDeallocate(c), UNCHANGED files
        PROVE  FileAgrees'
    BY <2>1, <2>6 DEF CrashInDeallocate, files
  <2>7. CASE UNCHANGED allVars
    BY <2>1, <2>7 DEF allVars, vars, files
  <2>8. CASE Restart
    BY <2>2, <2>8 DEF Restart
  <2> QED BY <1>2, <2>3, <2>4, <2>5, <2>6, <2>7, <2>8 DEF NextFiles
<1> QED BY <1>1, <1>2, PTL DEF SpecFiles

\* A restart, after an orderly end or a crash in deallocate_chunk, finds every
\* chunk that was never deleted at its address and with its bytes.
THEOREM RestartFindsChunks == SpecFiles => RestartKeepsChunks
<1> DEFINE Kept == restarted' # restarted =>
                       \A c \in DOMAIN metadata \ deleted :
                           /\ c \in DOMAIN metadata' /\ metadata'[c] = metadata[c]
                           /\ \A i \in Span(metadata[c], 0, metadata[c].size) :
                                 disk'[i] = disk[i]
<1>1. ASSUME FileAgrees, [NextFiles]_allVars PROVE [Kept]_allVars
  <2>1. CASE UNCHANGED restarted
    BY <2>1
  <2>2. CASE Restart
    BY <1>1, <2>2 DEF Restart, FileAgrees
  <2> QED BY <1>1, <2>1, <2>2 DEF NextFiles, Write, Delete, Read, files
<1> QED BY <1>1, FirstLifeAgrees, PTL DEF SpecFiles, RestartKeepsChunks
===============================================================================
