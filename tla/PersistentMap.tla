---------------------------- MODULE PersistentMap ----------------------------
(***************************************************************************)
(* PersistentMap (persistent_map.h), the map in a memory-mapped file that  *)
(* keeps Barista's metadata and chunk maps and a node's extents.  The file *)
(* is an array of slots; `entries' is the index in memory, a std::map from *)
(* keys to pointers to slots, and unallocated_extents are the slots known  *)
(* to be free, as half-open ranges.  PersistentSet is the same code with   *)
(* entries that have no value.                                             *)
(*                                                                         *)
(* The mapping is shared, so the file has what the process wrote when it   *)
(* ends, closed or not.  Growing the file unmaps it and maps it again: if  *)
(* the kernel chooses another address, every pointer in entries dangles.   *)
(***************************************************************************)
EXTENDS Integers, Sequences, FiniteSets, SequencesExt

CONSTANTS
    Keys,           \* keys; none has all bytes zero
    Values,
    T0,             \* T(), the value operator[] gives a new entry
    Free,           \* the key of a slot whose key bytes are zero
    GrowBy,         \* slots a growth adds (10 in the code)
    PairSize,       \* sizeof(std::pair<Key, T>)
    MaxSlots,       \* bound on the slots of the file
    MaxOpens        \* bound on the times the file is opened

ASSUME MapAssumption == /\ {GrowBy, PairSize, MaxSlots, MaxOpens} \subseteq Nat
                        /\ GrowBy > 1 /\ PairSize > 1
                        /\ T0 \in Values
                        /\ Free \notin Keys

VARIABLES
    entries,                \* key -> index of its slot
    unallocated_extents,    \* set of <<first, second>>
    slots,                  \* the file
    dangling,               \* keys whose pointer is to an old mapping
    up,                     \* the process runs with the file open
    opens,                  \* times the file was opened
    scanned,                \* slots the last opening found
    erased,                 \* an entry has been erased
    reused,                 \* a slot found free on opening was given out
    wild                    \* the execution is undefined

mapVars == <<entries, unallocated_extents, slots, dangling, up, opens,
             scanned, erased, reused, wild>>

Nothing == [k \in {} |-> 0]

Slot(i) == slots[i + 1]

\* What the map holds.
Contents == [k \in DOMAIN entries |-> Slot(entries[k]).value]

-------------------------------------------------------------------------------
(* unallocated_extents *)

\* The order of std::pair.
Less(a, b) == a[1] < b[1] \/ (a[1] = b[1] /\ a[2] < b[2])

First(U) == CHOOSE e \in U : \A g \in U : g = e \/ Less(e, g)

\* What --lower_bound(x) and lower_bound(x) point to, if anything.
Preceding(U, x) == {e \in U : Less(e, x) /\ \A g \in U : Less(g, x) => ~Less(e, g)}

Following(U, x) == {e \in U : ~Less(e, x) /\ \A g \in U : ~Less(g, x) => ~Less(g, e)}

\* deallocate: the extent of one slot, joined with its neighbours.  The
\* pointer difference p - map counts slots already and is divided by the size
\* of a slot once more.
deallocate(U, index) ==
    LET start  == index \div PairSize
        one    == <<start, start + 1>>
        before == {e \in Preceding(U, one) : e[2] = start}
        after  == {e \in Following(U, one) : e[1] = start + 1}
        joined == <<IF before = {} THEN start ELSE First(before)[1],
                    IF after = {} THEN start + 1 ELSE First(after)[2]>>
    IN  (U \ (before \cup after)) \cup {joined}

\* allocate: the first slot of the first extent, or the first of GrowBy new
\* ones.
CanGrow == Len(slots) + GrowBy <= MaxSlots

AllocatedSlot == IF unallocated_extents # {} THEN First(unallocated_extents)[1]
                 ELSE Len(slots)

\* A mistake: the extent given out stays as it is.
ShrunkUnchanged(U) == U

\* The extents that are left when the first slot is given out.
Shrunk(U) == LET begin == First(U)
             IN  IF begin[1] + 1 = begin[2] THEN U \ {begin}
                 ELSE (U \ {begin}) \cup {<<begin[1] + 1, begin[2]>>}

\* A mistake: the new extent is one slot too long.
NewExtentTooLong == <<Len(slots) + 1, Len(slots) + GrowBy + 1>>

\* The slots of a growth that are not given out at once.
NewExtent == <<Len(slots) + 1, Len(slots) + GrowBy>>

\* Write a new pair to the slot allocate returns.
AddEntry(k, v) ==
    /\ entries' = [x \in DOMAIN entries \cup {k} |->
                      IF x = k THEN AllocatedSlot ELSE entries[x]]
    /\ \/ /\ unallocated_extents # {}
          /\ unallocated_extents' = Shrunk(unallocated_extents)
          /\ slots' = [slots EXCEPT ![AllocatedSlot + 1] = [key |-> k, value |-> v]]
          /\ reused' = (reused \/ AllocatedSlot < scanned)
          /\ UNCHANGED dangling
       \/ /\ unallocated_extents = {}
          /\ CanGrow
          /\ unallocated_extents' = {NewExtent}
          /\ slots' = slots \o [i \in 1 .. GrowBy |->
                                    IF i = 1 THEN [key |-> k, value |-> v]
                                    ELSE [key |-> Free, value |-> T0]]
          /\ dangling' \in {dangling, DOMAIN entries}
          /\ UNCHANGED reused

-------------------------------------------------------------------------------
(* Operations *)

\* insert: nothing if the key is there.
insert(k, v) ==
    /\ up
    /\ k \notin DOMAIN entries
    /\ AddEntry(k, v)
    /\ UNCHANGED <<up, opens, scanned, erased, wild>>

\* map[k] = v, through the reference operator[] returns.
assign(k, v) ==
    /\ up
    /\ \/ /\ k \in DOMAIN entries \ dangling
          /\ slots' = [slots EXCEPT ![entries[k] + 1].value = v]
          /\ UNCHANGED <<entries, unallocated_extents, dangling, reused>>
       \/ /\ k \notin DOMAIN entries
          /\ AddEntry(k, v)
    /\ UNCHANGED <<up, opens, scanned, erased, wild>>

\* Using a pointer to the old mapping: undefined.  The process ends, or goes
\* on with whatever bytes the new mapping has at that address, and the model
\* says nothing of it any more.
UseDangling(k) ==
    /\ up
    /\ k \in dangling
    /\ up' = FALSE
    /\ wild' \in BOOLEAN
    /\ UNCHANGED <<entries, unallocated_extents, slots, dangling, opens, scanned,
                   erased, reused>>

\* erase takes the key from the index; its slot keeps its bytes and is not
\* given back.
erase(k) ==
    /\ up
    /\ k \in DOMAIN entries
    /\ entries' = [x \in DOMAIN entries \ {k} |-> entries[x]]
    /\ erased' = TRUE
    /\ dangling' = dangling \ {k}
    /\ UNCHANGED <<unallocated_extents, slots, up, opens, scanned, reused,
                   wild>>

\* The process ends, by close() or otherwise.
close == /\ up
         /\ up' = FALSE
         /\ UNCHANGED <<entries, unallocated_extents, slots, dangling, opens,
                        scanned, erased, reused, wild>>

\* The slot that open's scan enters for key k: the first that has it.
FirstWith(k) == CHOOSE i \in DOMAIN slots :
                    /\ slots[i].key = k
                    /\ \A j \in 1 .. i - 1 : slots[j].key # k

\* A mistake: the scan starts behind the first slot.
FoundFromSecond == {slots[i].key : i \in 2 .. Len(slots)} \ {Free}

\* The keys the scan finds.
Found == {slots[i].key : i \in DOMAIN slots} \ {Free}

\* The scan of slot i of the file s: a slot with a zero key is deallocated.
Scan(s, U, i) == IF s[i].key = Free THEN deallocate(U, i - 1) ELSE U

\* open: the index is built from the slots, in their order.
open == /\ ~up
        /\ ~wild
        /\ opens < MaxOpens
        /\ up' = TRUE
        /\ opens' = opens + 1
        /\ entries' = [k \in Found |-> FirstWith(k) - 1]
        /\ unallocated_extents' =
              FoldLeft(LAMBDA U, i : Scan(slots, U, i), {},
                       [i \in DOMAIN slots |-> i])
        /\ dangling' = {}
        /\ scanned' = Len(slots)
        /\ UNCHANGED <<slots, erased, reused, wild>>

MapInit ==
    /\ entries = Nothing
    /\ unallocated_extents = {}
    /\ slots = <<>>
    /\ dangling = {}
    /\ up = FALSE
    /\ opens = 0
    /\ scanned = 0
    /\ erased = FALSE
    /\ reused = FALSE
    /\ wild = FALSE

MapNext ==
    \/ \E k \in Keys, v \in Values : \/ insert(k, v)
                                     \/ assign(k, v)
    \/ \E k \in Keys : erase(k) \/ UseDangling(k)
    \/ open
    \/ close

MapSpec == MapInit /\ [][MapNext]_mapVars

-------------------------------------------------------------------------------
(* Properties *)

\* Pointers are to slots of the file and extents are ranges within it, so that
\* no operation touches memory beyond the mapping.
MapTypeOK ==
    /\ DOMAIN entries \subseteq Keys
    /\ \A k \in DOMAIN entries : entries[k] \in 0 .. Len(slots) - 1
    /\ \A e \in unallocated_extents : /\ 0 <= e[1] /\ e[1] < e[2]
                                      /\ e[2] <= Len(slots)
    /\ dangling \subseteq DOMAIN entries
    /\ \A i \in DOMAIN slots :
          slots[i] \in [key : Keys \cup {Free}, value : Values]

\* Each entry has a slot of its own, with its key, through growths, erasures
\* and reopenings, until a slot is given out that an opening took for free:
\* deallocate divides by the size of a slot too often and may hand out the
\* slot of another entry.
SlotsApart ==
    ~reused => \A k, l \in DOMAIN entries :
                  /\ Slot(entries[k]).key = k
                  /\ k # l => entries[k] # entries[l]

\* Opening the file again gives back exactly what the map held when the
\* process ended, if no entry was erased before (an erased one comes back).
ReopenRecovers ==
    [][opens' # opens /\ ~erased /\ ~reused =>
        [k \in DOMAIN entries' |-> slots'[entries'[k] + 1].value] = Contents]_mapVars

\* Whatever was erased, an opening loses no entry: the ones it brings back
\* are the only difference in keys.
ReopenLosesNothing ==
    [][opens' # opens /\ ~reused =>
        DOMAIN entries \subseteq DOMAIN entries']_mapVars
===============================================================================
