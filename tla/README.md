# DecaFS in TLA+

DecaFS is a distributed file system for teaching. One **Barista** server takes
file calls from clients, cuts files into stripes and stripes into chunks, and
keeps each chunk on one of two primary **Espresso** nodes and on one of two
replica nodes. This directory holds TLA+ models of its core logic
(`src/src/lib/`), the TLC configurations that check them on small instances, and
TLAPS proofs.

`tlc -config X.cfg M` checks a run, `tlapm M.tla` the proofs of a module: those
whose name ends in `Proofs`, and `FoldInduction`. `PROJECT.json` lists the theorems,
the runs, for every definition the source lines it stands for, and for every
property a mistake in the code that breaks it.

## 1. The system

### Components

| component | state | operations |
|---|---|---|
| `barista_core` | active read, write and delete requests, with the number of answers expected and received | `open_file`, `read_file`, `write_file`, `close_file`, `delete_file`, `file_seek`, a response handler per kind of chunk request |
| `io_manager` | `chunk_to_node`, `chunk_to_replica_node` | `process_read_stripe`, `process_write_stripe`, `process_delete_file`, storage stat |
| `volatile_metadata` | descriptors with their cursors, request ids, the nodes that are up | `new_file_cursor`, `set_file_cursor`, `close_file_cursor`, `set_node_up`, `set_node_down`, `is_node_up` |
| `persistent_metadata` | pathname to id, id to size, stripe size, chunk size | `add_file`, `delete_file_contents`, `update_file_size`, stats |
| `locking_strategy` | a lock record per file, a metadata lock | get exclusive, get shared, release, has |
| `distribution_strategy`, `replication_strategy` | none | the node of a chunk, of a replica |
| `access` | none | passes chunk requests to the network |
| `network_core`, `net_tcp` | connections to clients and nodes; packets as bytes | building, sending, receiving and reading packets, dispatch of messages, connect and disconnect |
| `espresso_storage` | data file, chunk to extent, free extents | `read_chunk`, `write_chunk`, `delete_chunk` |
| `persistent_stl` | maps and sets in a memory-mapped file | insert, erase, grow, open |
| `DecafsClient` | the socket of a client | a method per call: send a packet, wait, read the answer |

### How they interact

Barista is one thread: `TcpServer::run` selects, takes one message from a
connection and runs its handler to the end. A client call blocks the client
until its answer. A handler of a client call checks locks and metadata, sends
chunk requests to nodes and returns; it records how many answers it expects.
The answers come in later, one handler call each, and the last one answers the
client. A node is one process that reads its connection in order and answers on
it. So inside Barista and inside a node there are no interleavings; between the
client calls, the four nodes and the answers every interleaving is possible.

### What is hard

* A request is spread over many steps: the lock and the metadata are checked in
  the first, and the answers are counted much later, mixed with those of other
  requests.
* The answers of the nodes arrive in any order and must be joined in file order.
* A node may die between any two steps. Barista learns of it only when it reads
  the end of the connection; a send before that is lost, fails, or raises
  SIGPIPE.
* `std::map` and `std::set` are used with comparison operators that make keys
  equal that are not, and with iterators to erased elements.
* A node's data file fills up; growing a chunk frees it first and must take it
  back when nothing larger is free.
* Ranges at stripe and chunk boundaries.
* TCP carries bytes, not packets. Every receiver peeks at the size and calls
  `recv` once, which may return part of a packet; every send may block, and
  nobody reads while it does.
* A client may end in the middle of a request; Barista forgets its connection
  and nothing else.
* Barista never closes the socket of a connection that ended, so it runs out of
  descriptors; a node may be restarted, and register, before Barista has seen
  its predecessor end.
* The maps that survive a restart live in a mapped file that moves when it
  grows, and are rebuilt from slots whose contents an erase leaves alone.

### What makes each component correct

* locks: one user per file, nobody loses a lock to another user's call, no lock
  that nobody can give back;
* node storage: each byte of the data file has one owner; a chunk's bytes are
  independent of the other chunks'; a failed write changes nothing;
* striping: each byte of a file has one place, whoever computes it;
* persistent maps: no two entries share a slot, a file that is opened again gives
  the entries back;
* connections: each has one role, a node that is up has a connection, an answer
  goes to the process that asked for it, and to a client that ended at most one;
* packets: every field comes out of the bytes as it went in, an answer reaches
  the call it answers, and nobody is blocked for ever;
* requests: every answer finds its request; every request that waits for a node
  is answered; a read returns what was written; an answered write is stored on
  both nodes; a storage stat tells where; a deleted file leaves nothing behind; no
  lock is left without a user.

`PROJECT.json` lists the hazards line by line under "hazards".

## 2. Modules

```
FileLock ──> LockingStrategy ──> MCLockingStrategy      UserLock (abstract)
   │         EspressoStorage ──> MCEspressoStorage      ChunkStore (abstract)
   │              └──────────> EspressoRestart ──> MCEspressoRestart
   │         Striping ──> FileLayout
   │            │
   └────────> BaristaCore <── ChunkMap
                └──> MCBaristaCore

PersistentMap ──> MCPersistentMap      BaristaConnections ──> MCBaristaConnections
Packets ──> PacketStream ──> MCPacketStream

OperatorProofs (of FileLock and Striping)
   ├──> BaristaPartsProofs (of LockingStrategy, FileLayout and PersistentMap)
   └──> BaristaCoreProofs ──> BaristaDataProofs (of BaristaCore)
FoldInduction ──> OperatorProofs, BaristaPartsProofs, BaristaCoreProofs,
                  PacketStreamProofs
EspressoProofs (of EspressoStorage and EspressoRestart)
BaristaConnectionsProofs
PacketStreamProofs (of Packets and PacketStream)
```

**FileLock** is the lock record of one file and the operations on it, each as a
guard (the code returns an error without it) and the resulting record.
`BaristaCore` uses these operators as they are.

**LockingStrategy** is the component with all its calls. Every function of the
code holds a mutex over its whole body, hence one step each. **UserLock** is
what it promises: a set of holders per file, always of one user.

**EspressoStorage** is the storage of a node. `metadata`, `free_extents` and
`disk` are the fields of `espresso_data`; `Insert`, `LowerBound` and `Before`
are what the ordered set does, whose order looks at offsets only.
`deallocate_chunk` keeps a copy of an iterator, erases the element and
decrements the copy. That is undefined; `Deallocations` allows both results a
surviving process can produce (the extent before is found and merged, or it is
not) and `CrashInDeallocate` the third outcome. The bytes `write_chunk` copies
from past the end of its buffer are arbitrary (`junk`). The data file ends where the
last write ended, and what is past its end is `NoByte`: an empty write to a new chunk,
which Barista sends after a seek to an overcounted end, gives the chunk an extent and
writes nothing, so that a read of it may come back short. **ChunkStore** is what it
promises: each chunk an independent run of bytes, of which a gap or an empty write may
leave some unspecified or missing until a later write brings them about.

**EspressoRestart** adds the files of a node's two persistent collections and
the end and restart of its process. An insertion takes the next slot, an
assignment to a chunk's address writes the chunk's slot, an erasure leaves the
slot's bytes, and opening keeps the first slot of each key. So of each file only
the first slot per key matters (`freeFile`, `chunkFile`); `deleted` are the
chunks whose first slot is a dead one. The model covers a first life without a
second growth of the files (`GrowBy` slots), the restart, and reads after it:
what an insertion of the second life does to the slots is `PersistentMap`'s
subject.

**Striping** turns a file range into the pieces Barista sends: the loops of
`read_file` and `write_file` over stripes and those of `process_read_stripe` and
`process_write_stripe` over chunks. **FileLayout** writes files through it by
all sequences of appends and compares with plain division; its specification is
`FileSpec` (and that of `PersistentMap` is `MapSpec`), so that `BaristaPartsProofs` can
extend it together with the locks. It also compares the order of the pieces with the
order of the map in which `read_response_handler` joins them, `ChunkMap`'s.

**ChunkMap** is `std::map` over `struct file_chunk`, with the `operator<` the
code has: it compares the left file id with the right stripe id. Two keys are one
when neither is less. `StrictWeakOrder` says where `std::map` is defined at all. `Put`
and `Erase` are what `PersistentMap`'s `operator[]`, `insert` and `erase` do to its
index, which is a `std::map`.

**BaristaCore** composes the locks, the metadata, the maps, the striping, the
connections and the nodes. One action per handler (`open_file`, `read_file`,
`write_file`, `close_file`, `delete_file`, `file_seek`, `file_storage_stat`, the
three response handlers), one per node step (`Espresso`), and the failures
(`NodeDies`, `NodeGone`, `NodeReturns`, and `ClientEnds`, after which the
client's locks, descriptors and requests stay). A node that returns has its free space
wrong (section 5): each write to it may then go over any of its other chunks, whose
bytes become arbitrary (`Spoilt`), and chunks it was told to delete may be back. Which
write goes over which chunk depends on the data file, which this module does not have,
so the choice is arbitrary. A send to a node that died unnoticed is lost, fails
once, or ends Barista (`SendToDead`), and once the reset has come every later one of
the handler fails or ends it (`FateAfter`). A client may call with any number for a
descriptor (`CallFds`); one below 1 fails an assertion of `read_file` and `write_file`
and ends Barista. A handler sends several messages; `Start`, `Send`,
`ReadSpan`, `WriteSpan` and `DeleteOne` fold over them, carrying the maps and the
up nodes that change between two sends. Variables carry the names of the
globals. `reply`, `content`, `deaths` and `full` are history and bounds: `reply`
is the last answer a client got, `content` what a correct file would hold. In
this module a node stores chunks as `ChunkStore` says; `EspressoStorage` shows
that nodes do, and `Espresso`'s second disjunct is its full disk.

**PersistentMap** is the map under the metadata, the chunk maps and a node's
chunk table: `entries`, the index in memory from keys to slots,
`unallocated_extents`, and `slots`, the mapped file. `deallocate` is translated
as it is, with a slot's index divided by the size of a slot a second time after
the subtraction of pointers has done so. `erase` leaves the slot's bytes where
they are. A growth maps the file anew; if the kernel chooses another address the
old pointers dangle, and following one either crashes the process or makes the
execution undefined (`wild`, which the model does not follow further).
`scanned`, `erased` and `reused` are history. No key has only zero bytes, which
is how the code marks a free slot.

**BaristaConnections** is `TcpServer`'s loop with the maps `BaristaServer` keeps
and the processes at the other ends. One pass of the loop accepts at most one
connection, takes a snapshot of the ready descriptors (`todo`) and visits them
in order. A failed `accept` is not noticed, because the result is unsigned, and
ends the server; the increment of an iterator to an erased element goes on,
crashes, or is undefined. The first send to an ended process resets the
connection, the next raises SIGPIPE. A process that ends with something unread resets
its connection itself (`LeftUnread`); a send that meets such a reset fails, and then
`IO_Manager` sets the node down while its connection stays in the map (`SendFails`). A
send to a node that is not in the map follows a null pointer (`SendNowhere`).
`overtaken` are the nodes that were restarted before the server saw their predecessor
end. The model stops when the
server does. It assumes that a node is restarted only after its old process
ended. What a call does is left to `BaristaCore`, which in turn has a simpler
view of connections.

**Packets** has, for every packet class that is sent, the bytes its constructor
lays out (`OpenPacket`, `ReadChunkRequest`, ...) and the fields its other
constructor reads from bytes (`OpenPacketOf`, ...). A word is four bytes and
holds numbers modulo `Radix`^4; whether it comes out signed depends on the member
it is read into, as in the code. The uninitialised `fd` of the delete packets is
any number.

**PacketStream** puts these packets on connections: bytes in the sender's buffer
(`wire`), segments, bytes in the receiver's buffer (`arrived`), and what a
blocked `send` has still to copy (`pending`). A process in a blocked send does
nothing else. The receivers peek at the size, allocate, and call `recv` once;
when the packet is not whole the code goes on with an uninitialised buffer, so
the model notes where (`torn`) and stops. `flight` is history: the packets sent
and not handled yet, with the call each belongs to. What Barista answers is
abstracted to any result at once, or one chunk request per byte and the sum of
their answers; `BaristaCore` has the rest. A read or a write of no bytes is
answered at once, which `read_file` and `write_file` do themselves. `CallFields` says what a client may put into a packet: any
numbers its members can hold, and an `off_t` that may be wider than its word.

## 3. Runs

| run | shows |
|---|---|
| `locks` | any order of calls by three processes of two users on two files: each file stays with one user (`OneUserPerFile`), no lock is stranded (`NoOrphanLock`), nobody's lock is taken by another user (`StrangersCannotDisturb`), and the locks implement `UserLock` |
| `espresso` | writes, growths, reads and deletes of three chunks in four bytes: the data file stays partitioned (`Partition`), a failed write gives all space back (`FailedWriteKeepsSpace`), the node implements `ChunkStore`; empty writes to new chunks and reads past the end of the data file are among the calls |
| `espresso_restart` | the node ends between calls or crashes in `deallocate_chunk`, after any sequence of calls, and opens its files: every chunk that was never deleted is where it was, with its bytes, however it grew and moved (`RestartKeepsChunks`) |
| `persistent_map` | inserts, assignments, erasures, growths, closings and openings: entries have slots of their own until a slot that an opening took for free is given out (`SlotsApart`), an opening gives back what was there while nothing was erased (`ReopenRecovers`), and never fewer keys (`ReopenLosesNothing`) |
| `file_layout` | stripes of 1 to 6 and chunks of 1 to 4 bytes, files up to 13 bytes: bytes are where division puts them, every range is read from there, and where the keys of a file tell its chunks apart, the order in which `operator<` sorts the pieces of a read is that of the file (`PiecesInKeyOrder`) |
| `barista_append` | two clients of two users open, append, read, close, delete and recreate a file, and one of them may end at any moment: every answer has its request and counts add up (`NoOrphanResponse`), nothing is left of deleted files, two clients never have requests under way on one file (`RequestsIsolated`), a lock has a descriptor behind it, a delete whose answers are on their way, or the delete of an empty file, which is stuck with it (`LocksHaveUsers`), every request that waits for a node is answered |
| `barista_faults` | one client with every kind of seek overwrites across chunk and stripe boundaries, reads and asks for storage stats, while one node dies at any moment and may come back with its free space wrong, or one chunk write finds the disk full: counts still add up, until a node has come back an answered read of a file without holes is right (`ReadCorrect`, also when it was served by replicas) and a write that reports its full count is on the primaries (`FullCountMeansStored`), without a fault answered data is on two nodes (`AnsweredDataStoredTwice`) and a storage stat lists exactly the copies there are (`StorageStatTrue`) |
| `barista_empty_delete` | violation: the delete of an empty file is never answered |
| `barista_chunk_keys` | violation: two stripes of file 2 are one key and a read loses bytes |
| `barista_node_loss` | violation: a write to a chunk whose node is known to be gone ends Barista |
| `connections` | two starts of one node and two clients: every connection has one role (`OneRolePerConnection`), up nodes have a connection and a connection kept for a node that is not up is one whose process has ended (`UpNodesConnected`), registered nodes are up unless a late disconnect removed a restarted one (`LiveNodesUp`), answers only go to who waits for them (`AnswersAwaited`), to a client that ends, what it leaves unread and what it is sent later is one answer at most (`EndedOwedOnce`), the server catches up with all connections again and again (`ConnectionsSettle`) |
| `packet_stream` | two clients and a node, every kind of call, as bytes: a packet that is received whole is the one sent and all its fields come out (`HandledAsSent`), an answer is taken for the call it answers although a client looks at neither id nor flag (`AnswersOwnCall`), a packet of a client is torn only if it is longer than a segment leaves room for (`ClientsTornOnlyByLength`), and while a client waits somebody can go on, if the buffers hold the answers to all outstanding chunk requests (`NoStandstill`) |

### Bounds

* `locks`: two processes of one user and one of another are the smallest set in
  which a user's processes share while a stranger competes; a second file shows
  that files do not affect each other.
* `espresso`: the calls are a first write, an append, a write that leaves a gap and
  needs the whole file, and an empty write at the end of a chunk that need not exist;
  with three chunks in four bytes every pattern of merge (none,
  before, after, both), fragmentation, and each way of undoing occur. A larger
  file only adds distance between extents.
* `espresso_restart`: two chunks in three bytes merge, grow, move and fail for
  lack of room, within eight insertions per file; the code first grows a file
  to ten slots, which gives the same result in more than twice the states.
* `file_layout`: the sizes contain chunk sizes that divide the stripe, that do
  not, and that exceed it; 13 bytes are at least two stripes of every size. The keys
  are those of files 1 to 3: reads that go from stripe f of file f to the next are
  the ones whose chunks `operator<` tells apart across a stripe.
* `persistent_map`: three keys in two growths of three slots give free extents of
  length 1 to 3, merges on both sides and a full file. `PairSize` 4 makes the
  second division give several slots one index, as the code does. Three openings let a wrong free extent of one life meet the
  entries of the next.
* `connections`: with three descriptors and four processes, a node is restarted,
  both before and after its end is seen, clients follow one another, and `accept`
  runs out of descriptors. One call of each client and one chunk of a call on a node
  are enough for a send that is lost, one that fails, a second one after either (by the
  other client's call), and one to a node that is gone from the map.
* Barista: `StripeSize` 4 and `ChunkSize` 2 give two chunks per stripe, so a
  count of 3 touches two chunks, on two primaries and two replicas, and a file
  of more than 4 bytes two stripes; a count of 5 (`barista_faults`) sends two pieces
  with bytes to one node. `MaxRequests` caps request ids (a write uses
  two, a read and a delete one), `MaxFds` descriptors, `CallFds` the numbers calls give
  for a descriptor (0 among them in `barista_faults`), `MaxFiles` file ids,
  `MaxSize` the recorded size. Two files let a file be deleted and created
  again. `MaxFaults` caps the deaths of nodes and the writes that find no room,
  and only clients in `Enders` end: in `barista_append` one of the two, which
  are alike. `barista_faults` opens files for writing only, and
  `barista_append` also for reading. Within the bounds of the passing
  runs the chunk keys are strictly ordered (`KeysAssumption`), so what they show
  does not depend on the broken comparison; `barista_chunk_keys` looks at
  the smallest bounds where two keys collide.
* `packet_stream`: bytes have four values, so that a word overflows at 256 and
  negative and cut numbers occur. Buffers of 38 bytes hold one chunk packet and
  a byte, those of 120 bytes three; a segment of 52 bytes is less than two. Of
  the reads and writes of chunks those of chunk 2 may fail (`MayFail`). With
  the small buffers and without the condition of `NoStandstill`, TLC finds
  Barista and the node blocked in their sends to each other.

The bounds are why the runs do not check deadlock: a model that has used up its
ids stops. `locks` has no such bound and does.

### What the properties leave out

Some of the hazards do go wrong in the code. Where nothing in the repository claims
that they do not, no run states so; the models contain the failure, and the properties
stop where it begins:

* `SlotsApart`, `ReopenRecovers` and `ReopenLosesNothing` hold until a slot is given out
  that an opening took for free, and `ReopenRecovers` for lives without erasures, because
  an erased entry is back. Use of a pointer into the old mapping ends the execution.
* `RestartKeepsChunks` says what a restart keeps. That free space is apart from the
  chunks after it, and that deleted chunks stay away, is false. Therefore `ReadCorrect`
  and `FullCountMeansStored` are said until a node has returned.
* `NothingLeftOfDeletedFiles`, `AnsweredDataStoredTwice`, `StorageStatTrue` and
  `LocksHaveUsers` are said while no node has died: a delete leaves behind what a node
  that is down has, and after a failed send the replica is not where the map says. They
  do hold in all executions without deaths, with the overcounted sizes, which no property
  looks at by themselves.
* `LocksHaveUsers` knows one lock that is never given back, that of the delete of an
  empty file (`Stuck`), which `DeleteAnswered` shows to be never answered.
* `LiveNodesUp` is not said of a node that was restarted before the end of its old
  process was seen: the late disconnect takes it out of the map.
* `ConnectionsSettle` says nothing once the server has stopped, be it by a failed
  `accept`, the erased iterator, a null pointer or SIGPIPE. `SurvivesKnownLoss`, which
  fails, is about a loss Barista has noticed, not about a SIGPIPE on a retry.
* `HandledAsSent` and its like stop at the first torn packet. `NoStandstill` leaves out
  `mkdir` and `opendir`, which wait for ever, and has the size of the buffers as its
  condition.

`PROJECT.json` names these hazards with the line where each bites and a note.

### Fairness

`RequestsAnswered` and `DeleteAnswered` assume weak fairness of
`NodeAnswer(n)` and of `Espresso(n)` for each node. The first holds because
`check_for_messages` goes through all connections that are ready each time
`select` returns; the second because a node only blocks on its connection.
`ConnectionsSettle` assumes weak fairness of `Run`, the endless loop of
`TcpServer::run`, and of `EofArrives`, which is TCP's.
`PacketStream` states no fairness: `NoStandstill` says in every state that a
step towards the answer is possible, which together with TCP and a running
process is all there is to assume.
Nothing is assumed of clients, deaths or reconnections. `RequestsAnswered` is
checked without deaths: with one, a request that waited for the dead node waits
for ever, and the code has no timeout.

## 4. Proofs

Every theorem holds for all values of the constants that satisfy the assumptions
named below; where it states a property of a run, the run shows it on one small
instance and the theorem for all.

| module | theorems |
|---|---|
| `BaristaPartsProofs` | of the locks: `LockTypes`, `LocksOfOneUser` (`OneUserPerFile`), `LocksReleasable` (`NoOrphanLock`), `UsersAreIsolated` (`StrangersCannotDisturb`), `LocksImplementUserLock`; of the layout of files: `BytesPlaced` (`BytesWhereDivisionPutsThem`), `ReadsRight` (`ReadsAskForTheRange`), `PiecesOrdered` (`PiecesInKeyOrder`); of the persistent map: `MapTypes`, `EntriesApart` (`SlotsApart`), `OpeningRecovers` (`ReopenRecovers`), `OpeningLosesNothing` (`ReopenLosesNothing`) |
| `EspressoProofs` | `StorageTypes`, `StoragePartitioned` (`Partition`), `FailuresKeepSpace` (`FailedWriteKeepsSpace`), `StorageImplementsChunkStore`, `RestartFindsChunks` (`RestartKeepsChunks`) |
| `PacketStreamProofs` | `FieldsReturn`, `StreamInvariant`, `StreamTypeCorrect` (`TypeOK`), `PacketsHandledAsSent` (`HandledAsSent`), `AnswersToOwnCalls` (`AnswersOwnCall`), `TornOnlyByLength` (`ClientsTornOnlyByLength`), `CallsDoNotStandStill` (`NoStandstill`) |
| `BaristaConnectionsProofs` | `ConnectionTypes`, `ConnectionRoles` (`OneRolePerConnection`), `NodesConnected` (`UpNodesConnected`), `NodesUp` (`LiveNodesUp`), `AnswersToCalls` (`AnswersAwaited`), `EndedAnsweredOnce` (`EndedOwedOnce`) |
| `BaristaCoreProofs` | `BaristaTypes`, `LocksAreUsed` (`LocksHaveUsers`), `RequestsHaveTheirFiles` (`RequestsIsolated`), `NoAnswerIsOrphaned` (`NoOrphanResponse`) |
| `BaristaDataProofs` | `DeletesLeaveNothing` (`NothingLeftOfDeletedFiles`), `WritesAreStoredTwice` (`AnsweredDataStoredTwice`), `ReadsBeforeFaults`, `ReadsAnswerTheFile` (`ReadCorrect`) |

`OperatorProofs` and `FoldInduction` hold lemmas for these.

**Locks.** Assumption: each process has a user, and the NULL process and the user
0 are not among them (`UsersAssumption`). `OneUserPerFile` and `NoOrphanLock` are not
inductive: `get_exclusive_lock` does not look at the shared holders and
`get_shared_lock` not at the exclusive one, so it matters that an unowned record
has no leftover holder and that an owned one has some holder. `GoodLock` says
both, `OperationsGood` that the three operations preserve it. The refinement follows from `HoldersStep`, which
says what each operation does to the set of holders.

**Node storage.** Assumptions: the data file is not empty and no write is of zero
bytes at offset 0 (`ArgsAssumption`): the only empty piece of a write Barista sends
is one at the end of a chunk. `Partition`
alone is not inductive: the ordered set drops an extent whose offset it already
has and `deallocate_chunk` looks at neighbours only, so `IInv` adds that extents
are not empty and pairwise apart. An allocation, a deallocation with each
of its merges, and an undone growth are lemmas about sets of extents
(`AllocateGood` and the like), each saying which bytes are covered before and
after. The refinement maps each chunk to the bytes under its extent; a growth is
the step that needs `Partition`, because it copies a chunk through space others
might own. For the restart, `FileAgrees` says that the first slot of a chunk that
was never deleted has its present address, for any growth of the files
(`GrowByAssumption`).

**Persistent map.** Assumptions: a growth and a pair have more than one element,
and no key is the mark of a free slot (`MapAssumption`). The invariant has three
layers. The types hold whatever happens: even the index `deallocate` divides
twice stays inside the file. Until a slot that an opening took for free is given
out, every pointer is to a slot with its key, and what is free beyond the scanned
part is unwritten; that makes slots disjoint. While also nothing was erased,
every written slot is in the index, so that the loop of `open` rebuilds it.

**Striping.** Assumption: sizes are positive (`SizesAssumption`). `FirstUnitHolds`
shows that the subtraction loops of `get_first_stripe` and `get_first_chunk`
agree with division, `PiecesRun` that the walk cuts a range into consecutive
pieces, each in the unit where division puts it, and `SpansRun` composes the two
levels. `PlacesRange` then says that the bytes of the pieces of a range are the
places of the range, in order, and the invariant `Layout` that a file written by
appends has every byte at its place. `PiecesOrdered` compares the pieces with
`operator<`: stripes s < t of file f are in its order when s <= f < t, and only then
certainly (section 5), so it is about reads within one stripe and those from stripe f to
stripe f + 1, wherever they start and end; there the order of the pieces is strict, and
no empty piece takes the key of another.

**Connections.** Assumption: nodes and clients are different processes, and the
bounds are numbers (`ConnectionsAssumption`). The invariant ties the server's
three sets and two maps to the processes: a connection is pending while its first
packet is unread, a node has one connected process, and a client has one call,
which is unread, under way or answered (`OneCallPerClient`). `UpNodesConnected` needs
`UpAndDown`: a node leaves the up nodes with its connection, or because a send to it
failed, and then its process has ended. `EndedOwedOnce` rests on `OneCallPerClient`: a
client that leaves its answer unread, and so resets its connection, is sent nothing
more, and one whose answer is outstanding is sent one packet after its end. SIGPIPE
takes a reset and a send, or two sends. The theorem is about sends only: the erased
iterator of a client's disconnection (`tcp_server.cpp:172`) can still end the server,
and does in the model.

**Barista.** `LocksHaveUsers` needs that locks are good (`GoodLock`) and that
descriptors and request ids are fresh (`UsersInv`): then a lock has a descriptor or a
delete behind it. That such a delete has an answer under way is `NetInv`, below: while
no node has died as many messages are under way as answers are missing, and of a delete
some are, unless it sent none (`Stuck`). `RequestsIsolated` needs in
addition that every request's client still holds the lock of its file, and that a
client has one request at a time (`IsolationInv`). The theorem assumes
`OneClientPerUser`: with two connections of one user it is false, see section 5.
The loops over chunks do not touch what these two are about, so their proofs treat
what a loop computes as arbitrary.

`NoOrphanResponse` is about what the loops send, so here they are followed turn by
turn. `ReadLoopSends`, `WriteLoopSends` and `DeleteLoopSends` say that a loop that ends
well has put, for its request's ids, exactly as many messages on the wires to live
nodes as it counted, never more than it counted when some node is dead, and none
under any other id; the retries after a failed send are inside these lemmas. The
invariant `NetInv` says between handlers what that is worth: an id belongs to one
request and one kind of request (`Apart`), a message on a wire has an id that was
given out and its request is still there (`AllKnown`), and for each request as many
messages are under way as answers are missing (`Balanced`). A request is dropped
only when nothing is missing, which is where `Balanced` gives `AllKnown`; that a
write is dropped only with its replica id is why both ids are counted. `Sizes` is a
second invariant below it: cursors within files, files within `MaxSize`, so that
the ranges the loops walk are ranges of `SpansRun`. The assumption that counts and
seek offsets are natural numbers (`SizesAssumption`) is the code's `size_t` and
`uint32_t`.

`TypeOK` holds more than types: the chunks in the maps are chunks of files of at
most `MaxSize` bytes, primaries on primary nodes and replicas on replica nodes. A
write adds to the maps inside its loop, so `WriteLoopShaped` follows it (`Shaped`
is what every turn keeps, `PlacedShaped` the turn that places a new chunk), and
`SpanWithin` of `OperatorProofs` says that a piece of a range that ends within the
file lies in one of the file's stripes and chunks. `MapsInv` is the part of the
invariant between handlers, next to `NetInv` and `Sizes`.

`NothingLeftOfDeletedFiles` relates the maps, the wires and what the nodes store.
`Traced` is the invariant: a chunk a node stores is in the maps under that node, or
a delete of it is on the wire to the node (`CopiesFound`); a write on a wire is
entered in the maps, or has the chunk's delete behind it (`WritesEntered`); the two
maps name the same chunks (`MapsAgree`); once a delete is under way they have
forgotten its file (`DeletesClear`); and a message is of its request's file
(`FilesOfMessages`). `ReadOn`, `WroteOn` and `DeletedOn` say what a loop leaves in
the maps and on the wires while no node fails; that the loop of a delete meets every
chunk is `SortedAll`, for an iteration is in key order. That no write comes in
between is `RequestsIsolated`, and that the metadata go only with the last answer is
`Balanced`. Three assumptions are part of the statement. `OneClientPerUser`, as
above. `deaths = 0`: a node that is down when its chunk is deleted keeps it. Full
disks are allowed. `KeysDiffer`: the chunks within the bounds are different keys of
the maps. It holds for files of one stripe and for one file of two; in general
`operator<` takes different chunks for one (section 5), and then the maps forget the
wrong ones.

`AnsweredDataStoredTwice` relates the contents of files to what the wires will have
made of the stored chunks. `DataInv` is its invariant: a write on a wire carries the
bytes that the file should have where it puts them (`WritesTrue`), so that it does no
harm whenever it arrives; and every byte of a file that was written is in the maps,
and on each node they name for its chunk it is stored or a write that carries it is on
the wire there (`CopiesDue`). For a handled write this follows from `WroteOn` and
`SpanByte`: each byte of the new range lies in the one piece that division says. A
write may change only bytes no other write under way covers, which is
`RequestsIsolated` again; `Traced` gives that the only deletes that can remove a chunk
are of its file. Once no request of a file is under way there is no write of it on a
wire (`Balanced`), so what is due is stored. The assumptions are the same.

`ReadsBeforeFaults` is about the requests of a read instead. `ReadInv` says what a read
that is under way will get: the pieces it has, those on a wire from a node and those a
node will answer when it comes to the request (`Offers`) are parts of the bytes it wants,
and each piece that lies within the file is among them (`Promised`). A node answers from what it stores when
it takes the request, not from what it stored when the request was sent; that the two
agree is `AnsweredDataStoredTwice` and `RequestsIsolated`, since no write of the file is
under way, and that a short piece ends where the file does is `WithinInv` (a node stores no
more of a chunk than the file has). When nothing is missing any more, `PiecesJoined` puts
the parts together in the order of the map. The theorem holds until the first fault,
for files without holes, and under the three assumptions above and `KeysDifferInReads`:
a chunk a read asks for in vain, behind the end of the file, is no other chunk's key
either. It holds for one file of two stripes, and for files of one stripe whose reads do
not go past it.
`ReadsAnswerTheFile` turns this into `ReadCorrect` for `MaxFaults = 0`. That reads are
right across a death, from the replicas, is only model-checked.

**Packets.** Assumptions: a word has four digits of a radix that is even and
above 3 (`RadixAssumption`); a connection's buffers hold a registration packet and
there are finitely many clients (`StreamAssumption`); ids, results and the sizes of
chunk packets fit into their words (`WidthAssumption`); calls have fields their
packets can hold and are shorter than an `int` can say (`CallsAssumption`). The
bounds of the run on calls, chunks, segments and buffers are constants, so that the
theorems hold for all of them.

`FieldsReturn` is about the bytes: for each of the 24 classes that are sent and all
values of its fields, the receiver reads size and class from the first bytes, and
the other constructor reads the fields as they were. `WordReads` shows
it for one word, signed or unsigned; then it is shown for lists of words (`Reads`), for
strings that end in 0 (`ReadsString`) and for data behind six words (`ReadsFile`), of
which the 24 classes are instances. What does not return is in the statement: an `lseek` offset
that is wider than its word, the offset and count of a delete, which its
constructor sets to -1.

`IInv` is the inductive invariant. Its part `Streams` says of each connection that
the bytes in the receiver's buffer, in the sender's and in a blocked `send`, in
this order, are the bytes of the packets of `flight`. Therefore a receiver that
finds a size finds that of the oldest packet, and taking that many bytes leaves
whole packets (`ReceivedNext`, `HandleStream`). `Logic` says what those packets
are: a client has its call on the way, with Barista as one request, or answered
(`Asked`, `Served`, `Answered`); the answers and requests between Barista and the
node, one after the other, name each missing chunk of each request once
(`QueueOK`), so that a request whose count reaches 0 has nothing under way; request
ids are new because there are never more than calls (`CountOK`). `HandledAsSent`
and `AnswersOwnCall` follow from both parts together.

`TornInv` is inductive next to `IInv`: on a client's connection whose packets are
short, no `send` is blocked and what has arrived is always whole packets, because a
client has at most one packet there beside its registration and `Deliver` brings
them in one segment.

`NoStandstill` needs no further invariant but a count. Where nothing moves, bytes
under way have arrived (`StillChannel`) and a reader that does not take them is in
a blocked `send`; a blocked `send` of Barista or the node means that more than two
buffers full of chunk packets are under way on one channel. By `QueueOK` there are
at most as many of these as clients times `MaxChunks`, of at most 37 bytes each
(`QueueShort`), which `AnswersFit` excludes. So nobody is blocked (`NobodyBlocked`),
nothing is under way, and then the client that waits has a request with nothing
missing, which `QueueOK` excludes too.

**Loops and recursion.** The library's induction theorems take an operator as a
parameter, which the provers cannot instantiate. The lemma `NatSet` states
induction for a set instead, from the well-foundedness of `<`. With it
`FoldInduction` shows that what `FoldLeft` computes is what a loop leaves after its
last turn (`LoopTurns`), for a turn that is a constant operator of the module; a
proof module instantiates it with the turn it reasons about. The recursive
functions of `Striping` are shown to exist (`WalkExists`) by the same induction, on
what a walk has still to go.

Only model-checked:

* liveness (`RequestsAnswered`, `ConnectionsSettle`), which the prover does not
  handle;
* of `BaristaCore`: `ReadCorrect` after a death, `FullCountMeansStored` and
  `StorageStatTrue`. The first also needs that every replica is where the map says until
  a second death, the second the counts of a write that found a full disk, the third
  what the fold of `StorageInfo` groups.

## 5. What the models show about the code

Three disagreements have a run (see "findings"): the unanswered delete of an
empty file, the chunk order, the NULL dereference for a lost node. Others were
met while modelling; the models contain them, and where a property would not
hold because of one its comment says so:

* `deallocate_chunk` decrements an iterator to an erased element
  (`espresso_storage.cc:52`); the test `DeleteMergesLaterExtent` passes through it.
* A replica sent to another node after a failed send is not where the map says
  (`io_manager.cpp:157`). After a second death a read of it comes back short, which
  is why `ReadCorrect` is said of one.
* An erased entry of a persistent map is back after the next opening, its
  slot is never reused before that. A free slot that an opening finds is recorded
  under a wrong index, so that slot 0 may be given out twice
  (`persistent_map.h:50`). Pointers may dangle after a growth.
* The pathname map stores `std::string` objects, hence pointers, in its file.
* A late disconnect of a node's old process removes the restarted node from the
  maps and marks it down (`barista_server.cpp:66`).
* Sockets are never closed, and a failed `accept` is compared as unsigned
  (`tcp_server.cpp:132`); the loop increments an iterator to the element that the
  disconnect erased (`tcp_server.cpp:172`). `m_client_set` is never cleared.
* `MKDIR` and `OPENDIR` calls are never answered.
* `get_shared_lock` ignores the exclusive holder of the same user, so processes
  of one user are not isolated from each other; `release_lock` by the exclusive
  holder drops the shared locks of its fellows too.
* `get_metadata_lock` returns an error when the lock is taken, while its comment
  says it blocks (`locking_strategy.h:58`).
* `write_file` adds the count to the file's size even when it overwrites, so the
  size is larger than the file; reads past the real end come back
  short. A write at that end leaves a hole: with stripes of 16 and chunks of 2 bytes,
  after two writes of 4 at offset 0, a seek to the end and another write, a
  read of the 12 bytes gives 4, because `process_read_stripe` stops at the first chunk
  it does not find. `ReadCorrect` is therefore said of files whose every byte was
  written. The write after such a seek may begin with an empty piece
  at the end of a chunk the node does not have, for which the node allocates an extent
  without writing a byte (`io_manager.cpp:330`, `espresso_storage.cc:130`).
* The joining order of a read is that of `operator<`, too (`barista_core.cpp:349`). In
  file f it is certainly the order of the stripes s < t only when s <= f < t.
* A failed send marks the node down and leaves its connection in the map
  (`io_manager.cpp:68`); a node that ends with unread requests resets its connection
  and makes sends fail.
* `read_file` and `write_file` assert `fd > 0` (`barista_core.cpp:553`, `659`): a
  client's call with another number ends Barista.
* A delete while a node is down leaves that node's chunks and map entries behind.
* Closing one of two descriptors a client has on a file drops its lock for both.
* A user with two connections can lose a lock with a request under way: while
  one has the file open to write, the other opens it to read and closes it,
  which erases the record of both (`locking_strategy.cc:83`). Another user can
  then open or delete the file. `RequestsIsolated` is proved for users with one
  client each.
* A replica's failed write is not reported at all.
* A restarted node has its deleted chunks back, at the addresses they had first,
  and every extent that was ever free, the whole data file included: writes after
  a restart go over live chunks (`espresso_state.cc:14`, `persistent_set.h:253`).
  The comment of `delete_chunk` promises that it frees the space and that the
  chunk no longer exists (`espresso_storage.h`).
* A packet that arrives in parts is handled with the uninitialised rest of its
  buffer (`barista_server.cpp:105`, `espresso_client.cpp:36`,
  `decafs_client.cpp:114`). Between Barista and a node any packet may be torn.
* Barista and a node can block in their sends to each other for ever
  (`connection_to_client.cpp:8`, `tcp_client.cpp:124`).
* `lseek` cuts its offset to 32 bits (`lseek_packet.cpp:3`). `opendir` returns a
  pointer into a packet it frees (`decafs_client.cpp:67`), should it ever be
  answered.
* `read_chunk`'s comment says it fails outside the chunk's bounds; the code
  clips the count.
* A client that ends leaves its locks for ever (`barista_server.cpp:60`), and its
  disconnection makes the loop increment an erased iterator, as any other.

## 6. Not modelled

* A restart of Barista: its map file holds `std::string` objects, so what opening
  it does is undefined from the first comparison on. What a node's second life
  inserts into its files: see `PersistentMap` for one map.
* `clear`, the iterators and the range operations of `persistent_stl`: not used.
* `MkdirResponsePacket` and `OpendirResponsePacket` are never sent, because
  `open_dir` and `make_dir` are empty; `DeleteFilePacket` is not built. The move
  calls and the monitored strategy are empty or print only.
* The applications: `main` functions; `decafs_fuse.cc` does not compile against
  this `DecafsClient`. `network_core_old`: generated, not built.
* The wording of the storage stat: it is a sequence of groups here.
* File names longer than the limit; the widths of sizes and ids inside Barista,
  where the models stay far below 32 bits (the packets keep their width).

## 7. Plan

1. Proofs: the locks of `BaristaCore` as a refinement of `LockingStrategy`; then
   `ReadCorrect` across one death, which needs where the replicas are.
2. An abstract file system that `BaristaCore` implements while no node fails.
