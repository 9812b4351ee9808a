--------------------------- MODULE EspressoRestart ---------------------------
(***************************************************************************)
(* A node's process ends and is started again: espresso_global_data_init   *)
(* opens the map of chunks and the set of free extents from their files    *)
(* (persistent_map.h, persistent_set.h).                                   *)
(*                                                                         *)
(* Inserting takes the next slot of the file, changing a chunk's address   *)
(* changes its slot, and erasing leaves the slot as it is.  Opening goes   *)
(* through the slots in order and keeps the first of each key.  So of the  *)
(* files only the first slot of each key matters: freeFile is the size in  *)
(* the first slot of each offset ever inserted, chunkFile the address in   *)
(* the first slot of each chunk ever written.                              *)
(*                                                                         *)
(* The model covers the first life of the node, until its files grow for   *)
(* the second time (see PersistentMap for what that does), the restart,    *)
(* and reads after it: later insertions take slots that are in use.        *)
(***************************************************************************)
EXTENDS EspressoStorage

CONSTANT GrowBy     \* slots of a file before it grows again (10 in the code)

ASSUME GrowByAssumption == GrowBy \in Nat \ {0}

VARIABLES
    freeFile,   \* offset -> size
    chunkFile,  \* chunk -> address
    deleted,    \* chunks that have been deleted: their first slot is a dead one
    used,       \* slots used of the two files
    restarted   \* the node is in its second life

files == <<freeFile, chunkFile, deleted, used, restarted>>

allVars == <<vars, files>>

\* n slots of file i are taken.
Slots(i, n) == /\ used[i] + n <= GrowBy
               /\ used' = [used EXCEPT ![i] = @ + n]

\* The first slots of the free set's file after the extents X are inserted.
SetInserted(X) ==
    freeFile' = [o \in DOMAIN freeFile \cup {e.offset : e \in X} |->
                    IF o \in DOMAIN freeFile THEN freeFile[o]
                    ELSE (CHOOSE e \in X : e.offset = o).size]

\* The call inserts the extents X, and nothing in the map.
FreeChanged(X) == Slots(1, Cardinality(X)) /\ SetInserted(X)

\* The extents inserted by a call that takes the free set over D to what it is
\* afterwards.
InsertedOver(D) == (D \ free_extents) \cup (free_extents' \ D)

\* insert of chunk c, which takes a new slot.
MapInserted(c) ==
    chunkFile' = IF c \in DOMAIN chunkFile THEN chunkFile
                 ELSE [x \in DOMAIN chunkFile \cup {c} |->
                            IF x = c THEN metadata'[c] ELSE chunkFile[x]]

\* A mistake: the new address is only in memory.
MapAssignedInMemory(c) == UNCHANGED chunkFile

\* a->second of chunk c is assigned, which is in the chunk's slot.
MapAssigned(c) ==
    chunkFile' = IF c \in deleted THEN chunkFile
                 ELSE [chunkFile EXCEPT ![c] = metadata'[c]]

NewLife(c, offset, count, b) ==
    /\ WriteNew(c, offset, count, b)
    /\ LET X == free_extents' \ free_extents
       IN  /\ used[1] + Cardinality(X) <= GrowBy /\ used[2] < GrowBy
           /\ used' = <<used[1] + Cardinality(X), used[2] + 1>>
           /\ SetInserted(X)
    /\ MapInserted(c)

GrownLife(c, offset, count, b) ==
    /\ Grows(c, offset, count)
    /\ \E D \in Deallocations(free_extents, metadata[c]) :
        /\ \/ GrowFrom(D, c, offset, count, b) /\ MapAssigned(c)
           \/ /\ GrowFull(D, c, offset, count)
              /\ Reply("write", count, -1, Nothing)
              /\ UNCHANGED <<metadata, disk, chunkFile>>
        /\ FreeChanged(InsertedOver(D))

\* write_chunk, with what it leaves in the files.
Write(c, offset, count, b) ==
    /\ alive /\ ~restarted
    /\ \/ NewLife(c, offset, count, b)
       \/ GrownLife(c, offset, count, b)
       \/ /\ \/ WriteInPlace(c, offset, count, b)
             \/ /\ NewFull(c, offset, count)
                /\ Reply("write", count, -1, Nothing)
                /\ UNCHANGED <<metadata, disk>>
          /\ UNCHANGED <<freeFile, chunkFile, used>>
    /\ UNCHANGED <<alive, deleted, restarted>>

\* delete_chunk, with what it leaves in the files.
Delete(c) ==
    /\ ~restarted
    /\ delete_chunk(c)
    /\ FreeChanged(free_extents' \ free_extents)
    /\ deleted' = deleted \cup (DOMAIN metadata \ DOMAIN metadata')
    /\ UNCHANGED <<chunkFile, restarted>>

Read(c, offset, count) == read_chunk(c, offset, count) /\ UNCHANGED files

\* The process ends between two calls or crashes in one, and
\* espresso_global_data_init opens the files again.  The free set is not empty:
\* the whole file, inserted in the first life, has the first slot.
Restart ==
    /\ ~restarted
    /\ restarted' = TRUE
    /\ alive' = TRUE
    /\ metadata' = chunkFile
    /\ free_extents' = {[offset |-> o, size |-> freeFile[o]] :
                            o \in DOMAIN freeFile}
    /\ UNCHANGED <<disk, last, freeFile, chunkFile, deleted, used>>

InitFiles == /\ Init
             /\ freeFile = [o \in {0} |-> MaxSize]
             /\ chunkFile = Nothing
             /\ deleted = {}
             /\ used = <<1, 0>>
             /\ restarted = FALSE

NextFiles == \/ \E c \in Chunks :
                \/ \E w \in WriteArgs, b \in Bytes : Write(c, w[1], w[2], b)
                \/ \E r \in ReadArgs : Read(c, r[1], r[2])
                \/ Delete(c)
                \/ CrashInDeallocate(c) /\ UNCHANGED files
             \/ Restart

SpecFiles == InitFiles /\ [][NextFiles]_allVars

-------------------------------------------------------------------------------
(* Properties *)

\* A chunk that was never deleted is found again by a restart, where it was and
\* with its bytes, however often it grew and moved, and although the process
\* may have crashed while it freed an extent.  What else a restart finds is not
\* promised: deleted chunks are back, and free extents that are in use.
RestartKeepsChunks ==
    [][restarted' # restarted =>
        \A c \in DOMAIN metadata \ deleted :
            /\ c \in DOMAIN metadata' /\ metadata'[c] = metadata[c]
            /\ \A i \in Span(metadata[c], 0, metadata[c].size) :
                  disk'[i] = disk[i]]_allVars
===============================================================================
