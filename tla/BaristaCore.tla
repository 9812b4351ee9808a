----------------------------- MODULE BaristaCore -----------------------------
(***************************************************************************)
(* Barista and its four Espresso nodes: barista_core.cpp over the IO       *)
(* manager, the metadata, the locks and the network.                       *)
(*                                                                         *)
(* Barista is one thread: TcpServer::run takes one message at a time and   *)
(* runs its handler to the end, so a handler is one step.  A client call   *)
(* is synchronous: a client that waits for an answer sends nothing.  Each  *)
(* node works through its connection in order and answers on it; the nodes *)
(* run side by side, so the answers to one request come back in any order. *)
(*                                                                         *)
(* A node may die.  Barista notices when it reads the end of the stream;   *)
(* until then a send to it is lost, or fails, or raises SIGPIPE, which     *)
(* nothing handles.  A send to a node that is not in m_espresso_nodes      *)
(* dereferences NULL.  Either way Barista is gone.                         *)
(*                                                                         *)
(* The bytes a write stores are tagged with its request id and their       *)
(* position in its buffer.                                                 *)
(***************************************************************************)
EXTENDS FileLock, Integers, Striping, ChunkMap

CONSTANTS
    Paths,          \* pathnames
    OpenFlags,      \* the flags of open calls: records [rdwr, append]
    Counts,         \* the counts of read and write calls
    Seeks,          \* the <<whence, offset>> of seek calls
    CallFds,        \* the descriptors clients pass, theirs or not
    StatPaths,      \* the pathnames of file_storage_stat calls
    StripeSize,
    ChunkSize,
    MaxFiles,       \* bound on the file ids given out
    MaxFds,         \* bound on the file descriptors given out
    MaxRequests,    \* bound on the request ids given out
    MaxSize,        \* bound on the recorded size of a file
    MaxFaults,      \* bound on deaths of nodes and writes that find no room
    Enders          \* the clients that may end

Primaries == {1, 2}
Replicas == {3, 4}
Nodes == Primaries \cup Replicas

FileIds == 1 .. MaxFiles

\* Every chunk a file within the bounds can have.
Universe == FileIds \X (1 .. (MaxSize \div StripeSize) + 1)
                    \X (1 .. (StripeSize + ChunkSize - 1) \div ChunkSize)

\* The chunks the bounds allow are ones on which std::map is well defined.
ASSUME KeysAssumption == StrictWeakOrder(Universe)

\* Counts and offsets are unsigned.
ASSUME SizesAssumption ==
    /\ {StripeSize, ChunkSize, MaxFiles, MaxFds, MaxRequests, MaxSize} \subseteq
          Nat \ {0}
    /\ Counts \subseteq Nat
    /\ CallFds \subseteq Int
    /\ \A s \in Seeks : s[2] \in Nat

VARIABLES
    barista_up,             \* Barista has not crashed
    pathname_to_file_id, metadata, next_file_id,    \* persistent metadata
    file_cursors, last_fd, request_id, up_nodes,    \* volatile metadata
    file_locks,                                     \* locking strategy
    chunk_to_node, chunk_to_replica_node,           \* IO manager
    active_reads, active_writes, active_deletes,    \* requests under way
    connected,              \* m_espresso_nodes
    alive, store,           \* nodes that run; node -> chunk -> bytes
    to_node, from_node,     \* messages on the connections
    deaths, full,           \* node deaths and failed chunk writes so far
    returned,               \* nodes that have been started again
    erased,                 \* node -> the chunks ever deleted there
    ended,                  \* clients whose process has ended
    reply,                  \* the last answer to a client, with what a read
                            \* should return
    content                 \* what each file should hold

fileMeta == <<pathname_to_file_id, metadata, next_file_id>>
fds      == <<file_cursors, last_fd>>
maps     == <<chunk_to_node, chunk_to_replica_node>>
requests == <<active_reads, active_writes, active_deletes>>
network  == <<connected, to_node, from_node>>
machines == <<alive, store, deaths, full, returned, erased, ended>>

vars == <<barista_up, fileMeta, fds, request_id, up_nodes, file_locks, maps,
          requests, network, machines, reply, content>>

-------------------------------------------------------------------------------
(* The error results of barista_core.h, volatile_metadata.h and            *)
(* persistent_metadata_impl.h.                                             *)

FILE_IN_USE                == -1
FILE_NOT_OPEN_FOR_WRITE    == -2
FILE_NOT_OPEN_FOR_READ     == -3
UNABLE_TO_STAT_FILE        == -4
FILE_NOT_FOUND_FOR_READING == -5
INSTANCE_NOT_FOUND         == -1
WRONG_CLIENT               == -2
FILE_NOT_FOUND             == -1

\* A handler's checks found nothing to answer yet.
Proceed == 1

-------------------------------------------------------------------------------
(* Helpers *)

Add(f, k, v) == [x \in DOMAIN f \cup {k} |-> IF x = k THEN v ELSE f[x]]

Drop(f, k) == [x \in DOMAIN f \ {k} |-> f[x]]

Smaller(a, b) == IF a < b THEN a ELSE b

\* A byte nobody wrote.
Junk == <<0, 0>>

\* The bytes s after data is written at offset.
Overlay(s, offset, data) ==
    LET n == Len(data)
        len == IF offset + n <= Len(s) THEN Len(s) ELSE offset + n
    IN  [i \in 1 .. len |->
            IF offset < i /\ i <= offset + n THEN data[i - offset]
            ELSE IF i <= Len(s) THEN s[i]
            ELSE Junk]

\* At most count bytes of s from offset.
Slice(s, offset, count) == SubSeq(s, offset + 1, Smaller(offset + count, Len(s)))

\* The buffer of write request id.
Buffer(id, count) == [k \in 1 .. count |-> <<id, k>>]

Waiting(c) ==
    \/ \E id \in DOMAIN active_reads : active_reads[id].client = c
    \/ \E id \in DOMAIN active_writes : active_writes[id].client = c
    \/ \E id \in DOMAIN active_deletes : active_deletes[id].client = c

\* send_open_result, send_write_result and the like.
Answer(c, op, result) ==
    reply' = [to |-> c, op |-> op, result |-> result,
              data |-> <<>>, info |-> <<>>]

-------------------------------------------------------------------------------
(* Sending chunk requests.  A handler sends one after another; h is what   *)
(* it has changed so far.  fate says what a send to a node that died       *)
(* unnoticed does.                                                         *)

Fates == [connected \ alive ->
              {"lost", "lost_error", "lost_sigpipe", "error", "sigpipe"}]

Start(fate) == [up |-> up_nodes, c2n |-> chunk_to_node,
                c2r |-> chunk_to_replica_node, out |-> to_node,
                fate |-> fate, chunks |-> 0, replicas |-> 0,
                broken |-> {}, failed |-> FALSE, ok |-> TRUE]

\* The handler ends Barista.
Fatal(h) == [h EXCEPT !.ok = FALSE]

\* What the next send to the node does: the reset that answers a lost send may
\* have come by then, or may not come before the handler ends; after the error
\* it gives, the connection is known to be broken.
FateAfter(fate) == IF fate = "lost" THEN "lost"
                   ELSE IF fate = "lost_error" THEN "error"
                   ELSE "sigpipe"

\* A send to a node that died unnoticed: lost, failed, or the end of Barista.
SendToDead(h, n) ==
    LET g == [h EXCEPT !.fate[n] = FateAfter(@)]
    IN  IF h.fate[n] = "sigpipe" THEN Fatal(h)
        ELSE IF h.fate[n] = "error" THEN [g EXCEPT !.failed = TRUE]
        ELSE [g EXCEPT !.failed = FALSE]

SendToLive(h, n, msg) == [h EXCEPT !.out[n] = Append(@, msg), !.failed = FALSE]

\* sendToEspresso: m_espresso_nodes[n]->sendToClient(...).
Send(h, n, msg) ==
    IF ~h.ok THEN h
    ELSE IF n \notin connected THEN Fatal(h)
    ELSE IF n \in alive THEN SendToLive(h, n, msg)
    ELSE SendToDead(h, n)

\* up_nodes after a node has been set up or down; nothing else is done by the
\* handlers of monitored_strategy.
set_node_up(up, n) == up \cup {n}

set_node_down(up, n) == up \ {n}

\* The node of a failed send is set down.
DownIfFailed(h, n) ==
    IF h.ok /\ h.failed THEN [h EXCEPT !.up = set_node_down(@, n)] ELSE h

SendOrDown(h, n, msg) == DownIfFailed(Send(h, n, msg), n)

\* put_chunk and put_replica.
PutChunk(up, chunk) ==
    LET n == IF chunk % 2 = 1 THEN 1 ELSE 2 IN IF n \in up THEN n ELSE 3 - n

\* As a mistake would have it: replicas placed by the rule for chunks.
PutReplicaOnPrimary(up, chunk) == PutChunk(up, chunk)

PutReplica(up, chunk) ==
    LET n == IF chunk % 2 = 1 THEN 3 ELSE 4 IN IF n \in up THEN n ELSE 7 - n

\* One turn of the loop of process_read_stripe: the primary if it is up, else
\* the replica, whether that is up or not.  A failed send marks the node down.
ReadOnce(h, id, ch, s) ==
    LET primary == Get(h.c2n, ch)
        n == IF primary \in h.up THEN primary ELSE Get(h.c2r, ch)
    IN  IF primary \notin h.up /\ ~Has(h.c2r, ch)
        THEN Fatal(h)
        ELSE SendOrDown(h, n, [op |-> "read", id |-> id, chunk |-> ch,
                               offset |-> s.offset, count |-> s.count,
                               data |-> <<>>])

\* Mistakes: a failed send is passed over instead of tried again; the one that
\* is tried again is not counted.
ReadSpanNoRetry(h, id, file, s) ==
    LET ch == <<file, s.stripe, s.chunk>>
        sent == ReadOnce(h, id, ch, s)
    IN  IF ~h.ok \/ ~Has(h.c2n, ch) THEN h
        ELSE IF sent.failed THEN sent
        ELSE [sent EXCEPT !.chunks = @ + 1]

ReadSpanUncounted(h, id, file, s) ==
    LET ch == <<file, s.stripe, s.chunk>>
        sent == ReadOnce(h, id, ch, s)
    IN  IF ~h.ok \/ ~Has(h.c2n, ch) THEN h
        ELSE IF sent.ok /\ sent.failed THEN ReadOnce(sent, id, ch, s)
        ELSE [sent EXCEPT !.chunks = @ + 1]

ReadRetry(h, id, ch, s) == IF h.ok /\ h.failed THEN ReadOnce(h, id, ch, s) ELSE h

\* A failed send is tried again: on the replica, and once more on the same
\* replica.
ReadChunk(h, id, ch, s) ==
    ReadRetry(ReadRetry(ReadOnce(h, id, ch, s), id, ch, s), id, ch, s)

\* A piece of a read.  A missing chunk ends the stripe.
ReadSpan(h, id, file, s) ==
    LET ch == <<file, s.stripe, s.chunk>>
    IN  IF ~h.ok \/ s.stripe \in h.broken THEN h
        ELSE IF ~Has(h.c2n, ch) THEN [h EXCEPT !.broken = @ \cup {s.stripe}]
        ELSE [ReadChunk(h, id, ch, s) EXCEPT !.chunks = @ + 1]

\* The chunk and its replica get nodes if they are new.
Placed(h, ch) ==
    [h EXCEPT !.c2n = IF Has(@, ch) THEN @ ELSE Put(@, ch, PutChunk(h.up, ch[3])),
              !.c2r = IF Has(@, ch) THEN @ ELSE Put(@, ch, PutReplica(h.up, ch[3]))]

\* A failed send of a chunk is tried again on the same node.
WriteChunk(h, n, msg) ==
    LET g == SendOrDown(h, n, msg)
    IN  IF g.ok /\ g.failed THEN SendOrDown(g, n, msg) ELSE g

\* A failed one of a replica goes to another replica node, which the map does
\* not learn.
WriteReplica(h, n, msg) ==
    LET g == SendOrDown(h, n, msg)
    IN  IF g.ok /\ g.failed THEN Send(g, PutReplica(g.up, msg.chunk[3]), msg) ELSE g

\* A piece of a write: its chunk, then its replica.
WriteSpan(h, id, rid, file, s) ==
    LET ch == <<file, s.stripe, s.chunk>>
        Msg(i) == [op |-> "write", id |-> i, chunk |-> ch, offset |-> s.offset,
                   count |-> s.count,
                   data |-> SubSeq(Buffer(id, s.from + s.count),
                                   s.from + 1, s.from + s.count)]
        h1 == Placed(h, ch)
        h2 == WriteChunk(h1, Get(h1.c2n, ch), Msg(id))
        h3 == WriteReplica(h2, Get(h2.c2r, ch), Msg(rid))
    IN  IF ~h.ok THEN h
        ELSE [h3 EXCEPT !.chunks = @ + 1, !.replicas = @ + 1]

DeleteMsg(id, ch) == [op |-> "delete", id |-> id, chunk |-> ch, offset |-> 0,
                      count |-> 0, data |-> <<>>]

\* A mistake: the replica is forgotten but no delete is sent to its node.
DeleteOnePrimary(h, id, ch) ==
    IF Has(h.c2n, ch) /\ Get(h.c2n, ch) \in h.up
    THEN [Send(h, Get(h.c2n, ch), DeleteMsg(id, ch)) EXCEPT
              !.c2n = Erase(@, ch), !.c2r = Erase(@, ch), !.chunks = @ + 1]
    ELSE h

\* process_delete_file on one chunk: the chunk and its replica are deleted
\* and forgotten where their node is up, and left where it is not.
DeleteChunk(h, id, ch) ==
    IF Has(h.c2n, ch) /\ Get(h.c2n, ch) \in h.up
    THEN [Send(h, Get(h.c2n, ch), DeleteMsg(id, ch)) EXCEPT
              !.c2n = Erase(@, ch), !.chunks = @ + 1]
    ELSE h

DeleteReplica(h, id, ch) ==
    IF Has(h.c2r, ch) /\ Get(h.c2r, ch) \in h.up
    THEN [Send(h, Get(h.c2r, ch), DeleteMsg(id, ch)) EXCEPT
              !.c2r = Erase(@, ch), !.chunks = @ + 1]
    ELSE h

DeleteOne(h, id, ch) == DeleteReplica(DeleteChunk(h, id, ch), id, ch)

\* The network and the maps after a handler that did not crash.
Sent(h) == /\ up_nodes' = h.up
           /\ chunk_to_node' = h.c2n
           /\ chunk_to_replica_node' = h.c2r
           /\ to_node' = h.out
           /\ UNCHANGED <<barista_up, connected, from_node>>

\* Barista is gone; a restart is not part of this module.
Crash == /\ barista_up' = FALSE
         /\ UNCHANGED <<fileMeta, fds, request_id, up_nodes, file_locks, maps,
                        requests, network, machines, reply, content>>

-------------------------------------------------------------------------------
(* Opening and closing *)

SizeOf(file) == metadata[file].size

\* The cursor positions set_file_cursor may leave when asked for offset: at
\* most the size of the file.  If the file is gone, the size it compares with
\* is an uninitialized value.
Clipped(file, offset) == IF file \in DOMAIN metadata
                         THEN {Smaller(offset, SizeOf(file))}
                         ELSE 0 .. offset

\* open_file refuses to read a file that does not exist.
OpenMissing(c, path, flags) ==
    /\ path \notin DOMAIN pathname_to_file_id
    /\ ~flags.rdwr
    /\ Answer(c, "open", FILE_NOT_FOUND_FOR_READING)
    /\ UNCHANGED <<fileMeta, fds, file_locks, content>>

\* The lock an open asks for, and what it makes of the file's lock record.
CanOpen(l, c, flags) == IF flags.rdwr THEN CanGetExclusive(l, c)
                                      ELSE CanGetShared(l, c)

OpenLock(l, c, flags) == IF flags.rdwr THEN GetExclusive(l, c)
                                       ELSE GetShared(l, c)

OpenInUse(c, path, flags) ==
    /\ path \in DOMAIN pathname_to_file_id
    /\ ~CanOpen(file_locks[pathname_to_file_id[path]], c, flags)
    /\ Answer(c, "open", FILE_IN_USE)
    /\ UNCHANGED <<fileMeta, fds, file_locks, content>>

get_new_fd == last_fd + 1

\* The cursors with a new one, at the beginning of the file.
new_file_cursor(c, file) ==
    Add(file_cursors, get_new_fd, [client |-> c, file |-> file, offset |-> 0])

\* The lock, a new descriptor and its cursor, at the end of the file when it
\* is opened to append.
OpenGranted(c, file, flags, size) ==
    /\ CanOpen(file_locks[file], c, flags)
    /\ last_fd < MaxFds
    /\ file_locks' = [file_locks EXCEPT ![file] = OpenLock(@, c, flags)]
    /\ last_fd' = get_new_fd
    /\ file_cursors' = [new_file_cursor(c, file) EXCEPT
                           ![get_new_fd].offset = IF flags.append THEN size ELSE 0]
    /\ Answer(c, "open", get_new_fd)

OpenExisting(c, path, flags) ==
    /\ path \in DOMAIN pathname_to_file_id
    /\ LET file == pathname_to_file_id[path]
       IN  OpenGranted(c, file, flags, SizeOf(file))
    /\ UNCHANGED <<fileMeta, content>>

get_new_file_id == next_file_id + 1

add_file(path) ==
    /\ next_file_id' = get_new_file_id
    /\ metadata' = Add(metadata, get_new_file_id, [path |-> path, size |-> 0])
    /\ pathname_to_file_id' = Add(pathname_to_file_id, path, get_new_file_id)

\* Opening to write creates the file.
OpenNew(c, path, flags) ==
    /\ path \notin DOMAIN pathname_to_file_id
    /\ flags.rdwr
    /\ next_file_id < MaxFiles
    /\ add_file(path)
    /\ content' = Add(content, get_new_file_id, <<>>)
    /\ OpenGranted(c, get_new_file_id, flags, 0)

open_file(c, path, flags) ==
    /\ \/ OpenMissing(c, path, flags)
       \/ OpenInUse(c, path, flags)
       \/ OpenExisting(c, path, flags)
       \/ OpenNew(c, path, flags)
    /\ UNCHANGED <<barista_up, request_id, up_nodes, maps, requests, network,
                   machines>>

\* A mistake: only a writer's lock is given back.
ReleasedExclusive(file, c) ==
    IF HasExclusive(file_locks[file], c)
    THEN [file_locks EXCEPT ![file] = Release(@, c)]
    ELSE file_locks

\* release_lock: the code ignores its result.
Released(file, c) ==
    IF CanRelease(file_locks[file], c)
    THEN [file_locks EXCEPT ![file] = Release(@, c)]
    ELSE file_locks

\* close_file_cursor: the file whose cursor is closed, or an error.
close_file_cursor(c, fd) ==
    IF fd \notin DOMAIN file_cursors THEN INSTANCE_NOT_FOUND
    ELSE IF file_cursors[fd].client # c THEN WRONG_CLIENT
    ELSE file_cursors[fd].file

close_file(c, fd) ==
    /\ Answer(c, "close", close_file_cursor(c, fd))
    /\ \/ /\ close_file_cursor(c, fd) > 0
          /\ file_cursors' = Drop(file_cursors, fd)
          /\ file_locks' = Released(file_cursors[fd].file, c)
       \/ /\ close_file_cursor(c, fd) < 0
          /\ UNCHANGED <<file_cursors, file_locks>>
    /\ UNCHANGED <<barista_up, fileMeta, last_fd, request_id, up_nodes, maps,
                   requests, network, machines, content>>

-------------------------------------------------------------------------------
(* Seeking *)

\* set_file_cursor, which only the client that opened fd may call: the
\* possible values of file_cursors after it.
SetCursor(cursors, c, fd, offset) ==
    IF fd \in DOMAIN cursors /\ cursors[fd].client = c
    THEN {[cursors EXCEPT ![fd].offset = o] :
            o \in Clipped(cursors[fd].file, offset)}
    ELSE {cursors}

\* get_file_cursor, of whatever client.
CursorOf(cursors, fd) == IF fd \in DOMAIN cursors THEN cursors[fd].offset
                         ELSE INSTANCE_NOT_FOUND

\* SEEK_END sets the cursor to the largest value and ignores the offset.
file_seek(c, fd, whence, offset) ==
    /\ \/ /\ whence = "SEEK_END"
          /\ file_cursors' \in SetCursor(file_cursors, c, fd, MaxSize)
       \/ /\ whence = "SEEK_SET"
          /\ \E mid \in SetCursor(file_cursors, c, fd, 0) :
                IF fd \in DOMAIN mid
                THEN file_cursors' \in
                        SetCursor(mid, c, fd, mid[fd].offset + offset)
                ELSE file_cursors' = mid
       \/ /\ whence = "SEEK_CUR"
          /\ IF fd \in DOMAIN file_cursors
             THEN file_cursors' \in
                    SetCursor(file_cursors, c, fd,
                              file_cursors[fd].offset + offset)
             ELSE UNCHANGED file_cursors
    /\ Answer(c, "seek", CursorOf(file_cursors', fd))
    /\ UNCHANGED <<barista_up, fileMeta, last_fd, request_id, up_nodes,
                   file_locks, maps, requests, network, machines, content>>

-------------------------------------------------------------------------------
(* Reading *)

\* get_file_info: the file of fd, or 0, which nobody can lock.
FileOf(fd) == IF fd \in DOMAIN file_cursors THEN file_cursors[fd].file ELSE 0

LockOf(fd) == IF FileOf(fd) = 0 THEN NoLock ELSE file_locks[FileOf(fd)]

\* A mistake: the lock of the descriptor is not looked at.
ReadVerdictAnyone(c, fd, count) ==
    IF FileOf(fd) \notin DOMAIN metadata THEN UNABLE_TO_STAT_FILE
    ELSE IF file_cursors[fd].offset >= SizeOf(FileOf(fd)) \/ count = 0 THEN 0
    ELSE Proceed

\* What read_file answers at once, or Proceed.
ReadVerdict(c, fd, count) ==
    IF ~HasLock(LockOf(fd), c) THEN FILE_NOT_OPEN_FOR_READ
    ELSE IF FileOf(fd) \notin DOMAIN metadata THEN UNABLE_TO_STAT_FILE
    ELSE IF file_cursors[fd].offset >= SizeOf(FileOf(fd)) \/ count = 0 THEN 0
    ELSE Proceed

get_new_request_id == request_id + 1

ReadRefused(c, fd, count) ==
    /\ ReadVerdict(c, fd, count) # Proceed
    /\ Answer(c, "read", ReadVerdict(c, fd, count))
    /\ request_id' = get_new_request_id
    /\ UNCHANGED <<barista_up, fileMeta, fds, up_nodes, file_locks, maps,
                   requests, network, machines, content>>

\* All pieces are sent, the cursor moves on, and the request waits for as many
\* answers as were sent.
ReadSent(c, fd, count) ==
    LET file == FileOf(fd)
        id == get_new_request_id
        offset == file_cursors[fd].offset
        spans == Spans(StripeSize, ChunkSize, offset, count)
        Step(h, s) == ReadSpan(h, id, file, s)
    IN  /\ ReadVerdict(c, fd, count) = Proceed
        /\ \E fate \in Fates :
            LET h == FoldLeft(Step, Start(fate), spans)
            IN  \/ /\ h.ok
                   /\ Sent(h)
                   /\ request_id' = id
                   /\ file_cursors' \in
                        SetCursor(file_cursors, c, fd, offset + count)
                   /\ active_reads' =
                        Add(active_reads, id,
                            [client |-> c, file |-> file, fd |-> fd,
                             expected |-> h.chunks, received |-> 0,
                             packets |-> EmptyMap,
                             want |-> Slice(content[file], offset, count)])
                   /\ UNCHANGED <<fileMeta, last_fd, file_locks, active_writes,
                                  active_deletes, machines, reply, content>>
                \/ ~h.ok /\ Crash

\* A descriptor that cannot be one fails the assertion fd > 0.
read_file(c, fd, count) ==
    /\ request_id < MaxRequests
    /\ \/ fd > 0 /\ (ReadRefused(c, fd, count) \/ ReadSent(c, fd, count))
       \/ fd <= 0 /\ Crash

\* check_read_complete on the request r: when all answers are there, they are
\* joined in the order of the packet map and sent.
ReadComplete(id, r) ==
    IF r.expected # 0 /\ r.expected = r.received
    THEN LET order == InOrder(r.packets)
             data == FlattenSeq([i \in DOMAIN order |-> r.packets[order[i]]])
         IN  /\ reply' = [to |-> r.client, op |-> "read", result |-> Len(data),
                          data |-> data, info |-> <<>>]
             /\ active_reads' = Drop(active_reads, id)
    ELSE /\ active_reads' = Add(active_reads, id, r)
         /\ UNCHANGED reply

\* Barista takes the first message of n's connection.
Take(n, op) == /\ barista_up
               /\ n \in connected
               /\ from_node[n] # <<>>
               /\ Head(from_node[n]).op = op

Taken(n) == /\ from_node' = [from_node EXCEPT ![n] = Tail(@)]
            /\ UNCHANGED <<connected, to_node>>

\* The handlers assert that the request of an answer exists: see
\* NoOrphanResponse.
read_response_handler(n) ==
    /\ Take(n, "read")
    /\ LET m == Head(from_node[n])
       IN  /\ m.id \in DOMAIN active_reads
           /\ ReadComplete(m.id,
                 [active_reads[m.id] EXCEPT
                    !.received = @ + 1,
                    !.packets = Put(@, m.chunk, m.data)])
    /\ Taken(n)
    /\ UNCHANGED <<barista_up, fileMeta, fds, request_id, up_nodes,
                   file_locks, maps, active_writes, active_deletes,
                   machines, content>>

-------------------------------------------------------------------------------
(* Writing *)

\* What write_file answers at once, or Proceed.
WriteVerdict(c, fd, count) ==
    IF ~HasExclusive(LockOf(fd), c) THEN FILE_NOT_OPEN_FOR_WRITE
    ELSE IF FileOf(fd) \notin DOMAIN metadata THEN UNABLE_TO_STAT_FILE
    ELSE IF count = 0 THEN 0
    ELSE Proceed

WriteRefused(c, fd, count) ==
    /\ WriteVerdict(c, fd, count) # Proceed
    /\ Answer(c, "write", WriteVerdict(c, fd, count))
    /\ request_id' = request_id + 2
    /\ UNCHANGED <<barista_up, fileMeta, fds, up_nodes, file_locks, maps,
                   requests, network, machines, content>>

\* The metadata after update_file_size; a write only adds.
update_file_size(file, size_delta) ==
    [metadata EXCEPT ![file].size = @ + size_delta]

\* All pieces are sent to both nodes; the size of the file grows by the count,
\* wherever the bytes went, and the cursor follows.
WriteSent(c, fd, count) ==
    LET file == FileOf(fd)
        id == get_new_request_id
        offset == file_cursors[fd].offset
        spans == Spans(StripeSize, ChunkSize, offset, count)
        Step(h, s) == WriteSpan(h, id, id + 1, file, s)
    IN  /\ WriteVerdict(c, fd, count) = Proceed
        /\ SizeOf(file) + count <= MaxSize
        /\ \E fate \in Fates :
            LET h == FoldLeft(Step, Start(fate), spans)
            IN  \/ /\ h.ok
                   /\ Sent(h)
                   /\ request_id' = id + 1
                   /\ metadata' = update_file_size(file, count)
                   /\ file_cursors' =
                        IF file_cursors[fd].client = c
                        THEN [file_cursors EXCEPT ![fd].offset = @ + count]
                        ELSE file_cursors
                   /\ active_writes' =
                        Add(active_writes, id,
                            [replica |-> id + 1, client |-> c, file |-> file,
                             fd |-> fd, offset |-> offset, asked |-> count,
                             expected |-> h.chunks, received |-> 0,
                             replica_expected |-> h.replicas,
                             replica_received |-> 0, count |-> 0])
                   /\ content' = [content EXCEPT ![file] =
                                    Overlay(@, offset, Buffer(id, count))]
                   /\ UNCHANGED <<pathname_to_file_id, next_file_id, last_fd,
                                  file_locks, active_reads, active_deletes,
                                  machines, reply>>
                \/ ~h.ok /\ Crash

write_file(c, fd, count) ==
    /\ request_id + 1 < MaxRequests
    /\ \/ fd > 0 /\ (WriteRefused(c, fd, count) \/ WriteSent(c, fd, count))
       \/ fd <= 0 /\ Crash

\* Mistakes: a write that is answered once `done' says so, without its
\* replicas, or never.
WriteCompleteWhen(done, id, w) ==
    IF done THEN /\ Answer(w.client, "write", w.count)
                 /\ active_writes' = Drop(active_writes, id)
            ELSE /\ active_writes' = Add(active_writes, id, w)
                 /\ UNCHANGED reply

WriteCompletePrimaries(id, w) ==
    WriteCompleteWhen(w.expected = w.received, id, w)

WriteCompleteNever(id, w) ==
    WriteCompleteWhen(w.expected < w.received, id, w)

\* check_write_complete: the answer is sent when the chunks and the replicas
\* have all been answered; its count is that of the primaries.
WriteComplete(id, w) ==
    IF /\ w.expected # 0
       /\ w.expected = w.received
       /\ w.replica_expected = w.replica_received
    THEN /\ Answer(w.client, "write", w.count)
         /\ active_writes' = Drop(active_writes, id)
    ELSE /\ active_writes' = Add(active_writes, id, w)
         /\ UNCHANGED reply

\* write_request_lookups: the request an answer's id belongs to, as the id of
\* a primary chunk or of a replica.
WriteLookup(i) == {id \in DOMAIN active_writes :
                        i \in {id, active_writes[id].replica}}

\* A mistake: a failed chunk counts for one byte like any other.
CountAnyway(id, m) == [active_writes[id] EXCEPT !.received = @ + 1,
                                                !.count = @ + (IF m.count < 0 THEN 1 ELSE m.count)]

\* A primary's answer: one more received, its count added.
CountPrimary(id, m) == [active_writes[id] EXCEPT !.received = @ + 1,
                                                 !.count = @ + m.count]

write_response_handler(n) ==
    /\ Take(n, "write")
    /\ LET m == Head(from_node[n])
       IN  \E id \in WriteLookup(m.id) :
              WriteComplete(id,
                  IF m.id = id
                  THEN CountPrimary(id, m)
                  ELSE [active_writes[id] EXCEPT !.replica_received = @ + 1])
    /\ Taken(n)
    /\ UNCHANGED <<barista_up, fileMeta, fds, request_id, up_nodes,
                   file_locks, maps, active_reads, active_deletes,
                   machines, content>>

-------------------------------------------------------------------------------
(* Deleting *)

DeleteVerdict(c, path) ==
    IF path \notin DOMAIN pathname_to_file_id THEN FILE_NOT_FOUND
    ELSE IF ~CanGetExclusive(file_locks[pathname_to_file_id[path]], c)
    THEN FILE_IN_USE
    ELSE Proceed

DeleteRefused(c, path) ==
    /\ DeleteVerdict(c, path) # Proceed
    /\ Answer(c, "delete", DeleteVerdict(c, path))
    /\ request_id' = get_new_request_id
    /\ UNCHANGED <<barista_up, fileMeta, fds, up_nodes, file_locks, maps,
                   requests, network, machines, content>>

\* get_all_chunks: the keys of chunk_to_node with this file, in map order.
AllChunks(file) ==
    Sorted({k \in DOMAIN chunk_to_node : k[1] = file})

\* The file is locked, its chunks are deleted where their nodes are up, and
\* the request waits for the answers.  With no chunk sent it waits for ever:
\* check_delete_complete returns when none is expected.
DeleteSent(c, path) ==
    LET file == pathname_to_file_id[path]
        id == get_new_request_id
        Step(h, ch) == DeleteOne(h, id, ch)
    IN  /\ DeleteVerdict(c, path) = Proceed
        /\ \E fate \in Fates :
            LET h == FoldLeft(Step, Start(fate), AllChunks(file))
            IN  \/ /\ h.ok
                   /\ Sent(h)
                   /\ request_id' = id
                   /\ file_locks' = [file_locks EXCEPT
                                        ![file] = GetExclusive(@, c)]
                   /\ active_deletes' =
                        Add(active_deletes, id,
                            [client |-> c, file |-> file,
                             expected |-> h.chunks, received |-> 0])
                   /\ UNCHANGED <<fileMeta, fds, active_reads, active_writes,
                                  machines, reply, content>>
                \/ ~h.ok /\ Crash

delete_file(c, path) == /\ request_id < MaxRequests
                        /\ DeleteRefused(c, path) \/ DeleteSent(c, path)

delete_file_contents(file) ==
    /\ pathname_to_file_id' =
          IF file \in DOMAIN metadata
          THEN Drop(pathname_to_file_id, metadata[file].path)
          ELSE pathname_to_file_id
    /\ metadata' = Drop(metadata, file)

\* check_delete_complete: answer, forget the file and
\* release its lock.
DeleteComplete(id, d) ==
    IF d.expected # 0 /\ d.expected = d.received
    THEN /\ Answer(d.client, "delete", 0)
         /\ delete_file_contents(d.file)
         /\ content' = Drop(content, d.file)
         /\ file_locks' = Released(d.file, d.client)
         /\ active_deletes' = Drop(active_deletes, id)
    ELSE /\ active_deletes' = Add(active_deletes, id, d)
         /\ UNCHANGED <<reply, pathname_to_file_id, metadata, content,
                        file_locks>>

delete_response_handler(n) ==
    /\ Take(n, "delete")
    /\ LET m == Head(from_node[n])
       IN  /\ m.id \in DOMAIN active_deletes
           /\ DeleteComplete(m.id, [active_deletes[m.id] EXCEPT
                                        !.received = @ + 1])
    /\ Taken(n)
    /\ UNCHANGED <<barista_up, next_file_id, fds, request_id, up_nodes, maps,
                   active_reads, active_writes, machines>>

-------------------------------------------------------------------------------
(* Where a file is stored *)

Entry(ch) == [chunk |-> ch[3], node |-> Get(chunk_to_node, ch),
              replica |-> IF Has(chunk_to_replica_node, ch)
                          THEN Get(chunk_to_replica_node, ch) ELSE 0]

\* process_file_storage_stat: the chunks of the file in map order, a new group
\* where the stripe id goes up.
StorageInfo(file) ==
    LET Listed(groups, ch) ==
            IF groups = <<>> \/ ch[2] > Last(groups).stripe
            THEN Append(groups, [stripe |-> ch[2], chunks |-> <<Entry(ch)>>])
            ELSE [groups EXCEPT ![Len(groups)].chunks = Append(@, Entry(ch))]
    IN  FoldLeft(Listed, <<>>, AllChunks(file))

\* The text names the file by its id.
file_storage_stat(c, path) ==
    /\ \/ /\ path \notin DOMAIN pathname_to_file_id
          /\ Answer(c, "stat", FILE_NOT_FOUND)
       \/ /\ path \in DOMAIN pathname_to_file_id
          /\ LET file == pathname_to_file_id[path]
             IN  reply' = [to |-> c, op |-> "stat", result |-> file,
                           data |-> <<>>, info |-> StorageInfo(file)]
    /\ UNCHANGED <<barista_up, fileMeta, fds, request_id, up_nodes, file_locks,
                   maps, requests, network, machines, content>>

-------------------------------------------------------------------------------
(* The nodes *)

\* A node's chunks and its answer after the request m.  A read of a chunk it
\* lacks answers no bytes; a delete always answers.
Carried(stored, m) ==
    LET old == IF m.chunk \in DOMAIN stored THEN stored[m.chunk] ELSE <<>>
    IN  CASE m.op = "read" -> stored
          [] m.op = "write" -> Add(stored, m.chunk, Overlay(old, m.offset, m.data))
          [] m.op = "delete" -> Drop(stored, m.chunk)

Response(stored, m) ==
    [op |-> m.op, id |-> m.id, chunk |-> m.chunk, count |-> m.count,
     data |-> IF m.op = "read" /\ m.chunk \in DOMAIN stored
              THEN Slice(stored[m.chunk], m.offset, m.count) ELSE <<>>]

\* What stored becomes when the chunks H are anything: of one length, and of
\* bytes that are not theirs.
Spoilt(stored, H, len) ==
    [k \in DOMAIN stored \cup H |->
        IF k \in H THEN [i \in 1 .. len |-> Junk] ELSE stored[k]]

\* handleMessageFromServer: the node carries out its next request and answers
\* it.  A write that must grow its chunk and finds no room leaves the chunk as
\* it was and answers -1 for the count.  A node that has been started again
\* takes the whole data file for free (EspressoRestart), so that a write there
\* may go over any other chunk it has.
Espresso(n) ==
    /\ n \in alive
    /\ to_node[n] # <<>>
    /\ LET m == Head(to_node[n])
           Respond(a) == from_node' = [from_node EXCEPT ![n] = Append(@, a)]
       IN  \/ /\ store' = [store EXCEPT ![n] = Carried(@, m)]
              /\ Respond(Response(store[n], m))
              /\ UNCHANGED full
           \/ /\ m.op = "write" /\ n \in returned
              /\ \E H \in SUBSET (DOMAIN store[n] \ {m.chunk}), len \in 0 .. ChunkSize :
                    store' = [store EXCEPT ![n] = Spoilt(Carried(@, m), H, len)]
              /\ Respond(Response(store[n], m))
              /\ UNCHANGED full
           \/ /\ m.op = "write" /\ deaths + full < MaxFaults
              /\ m.chunk \in DOMAIN store[n] =>
                    m.offset + m.count > Len(store[n][m.chunk])
              /\ full' = full + 1
              /\ Respond([Response(store[n], m) EXCEPT !.count = -1])
              /\ UNCHANGED store
    /\ erased' = IF Head(to_node[n]).op = "delete"
                 THEN [erased EXCEPT ![n] = @ \cup {Head(to_node[n]).chunk}]
                 ELSE erased
    /\ to_node' = [to_node EXCEPT ![n] = Tail(@)]
    /\ UNCHANGED <<barista_up, fileMeta, fds, request_id, up_nodes, file_locks,
                   maps, requests, connected, alive, deaths, returned, ended,
                   reply, content>>

\* A node's process ends.  What it had not read is lost; what it had answered
\* is delivered, or lost too when the connection is reset.
NodeDies(n) ==
    /\ n \in alive
    /\ deaths + full < MaxFaults
    /\ alive' = alive \ {n}
    /\ deaths' = deaths + 1
    /\ to_node' = [to_node EXCEPT ![n] = <<>>]
    /\ \E kept \in {from_node[n], <<>>} :
            from_node' = [from_node EXCEPT ![n] = kept]
    /\ UNCHANGED <<barista_up, fileMeta, fds, request_id, up_nodes, file_locks,
                   maps, requests, connected, store, full, returned, erased,
                   ended, reply, content>>

\* clientDisconnected for a node's connection.
NodeGone(n) ==
    /\ barista_up
    /\ n \in connected \ alive
    /\ from_node[n] = <<>>
    /\ connected' = connected \ {n}
    /\ up_nodes' = set_node_down(up_nodes, n)
    /\ UNCHANGED <<barista_up, fileMeta, fds, request_id, file_locks, maps,
                   requests, to_node, from_node, machines, reply, content>>

\* The chunks a restart of n may lose or bring back: those it was told to
\* delete, and, after an earlier restart, all it has.
AtRisk(n) == erased[n] \cup (IF n \in returned THEN DOMAIN store[n] ELSE {})

\* The node is started again and registers (addEspressoNode), after Barista
\* has seen the old connection end.  It has the chunks its files hold, deleted
\* ones among them (EspressoRestart).
NodeReturns(n) ==
    /\ barista_up
    /\ n \notin alive \cup connected
    /\ alive' = alive \cup {n}
    /\ connected' = connected \cup {n}
    /\ up_nodes' = set_node_up(up_nodes, n)
    /\ returned' = returned \cup {n}
    /\ \E H \in SUBSET AtRisk(n), len \in 0 .. ChunkSize :
            store' = [store EXCEPT ![n] = Spoilt(@, H, len)]
    /\ UNCHANGED <<barista_up, fileMeta, fds, request_id, file_locks, maps,
                   requests, to_node, from_node, deaths, full, erased, ended,
                   reply, content>>

\* clientDisconnected for a client: its connection goes from m_decafs_clients,
\* and its locks, descriptors and requests stay.  An answer to it is lost.
ClientEnds(c) ==
    /\ barista_up
    /\ c \notin ended
    /\ c \in Enders
    /\ ended' = ended \cup {c}
    /\ UNCHANGED <<barista_up, fileMeta, fds, request_id, up_nodes, file_locks,
                   maps, requests, network, alive, store, deaths, full,
                   returned, erased, reply, content>>

-------------------------------------------------------------------------------
(* The system *)

\* Barista has started and all four nodes have registered.
Init == /\ barista_up = TRUE
        /\ pathname_to_file_id = EmptyMap
        /\ metadata = EmptyMap
        /\ next_file_id = 0
        /\ file_cursors = EmptyMap
        /\ last_fd = 0
        /\ request_id = 0
        /\ up_nodes = Nodes
        /\ file_locks = [f \in FileIds |-> NoLock]
        /\ chunk_to_node = EmptyMap
        /\ chunk_to_replica_node = EmptyMap
        /\ active_reads = EmptyMap
        /\ active_writes = EmptyMap
        /\ active_deletes = EmptyMap
        /\ connected = Nodes
        /\ alive = Nodes
        /\ store = [n \in Nodes |-> EmptyMap]
        /\ to_node = [n \in Nodes |-> <<>>]
        /\ from_node = [n \in Nodes |-> <<>>]
        /\ deaths = 0
        /\ full = 0
        /\ returned = {}
        /\ erased = [n \in Nodes |-> {}]
        /\ ended = {}
        /\ reply = [to |-> NoProc, op |-> "none", result |-> 0,
                    data |-> <<>>, info |-> <<>>]
        /\ content = EmptyMap

\* handleMessageFromClient for a client's call.
ClientCall(c) ==
    /\ barista_up
    /\ c \notin ended
    /\ ~Waiting(c)
    /\ \/ \E path \in Paths, flags \in OpenFlags : open_file(c, path, flags)
       \/ \E path \in Paths : delete_file(c, path)
       \/ \E path \in StatPaths : file_storage_stat(c, path)
       \/ \E fd \in CallFds :
            \/ close_file(c, fd)
            \/ \E count \in Counts : \/ read_file(c, fd, count)
                                     \/ write_file(c, fd, count)
            \/ \E s \in Seeks : file_seek(c, fd, s[1], s[2])

\* handleMessageFromClient for a node's answer.
NodeAnswer(n) == \/ read_response_handler(n)
                 \/ write_response_handler(n)
                 \/ delete_response_handler(n)

Next == \/ \E c \in Procs : ClientCall(c) \/ ClientEnds(c)
        \/ \E n \in Nodes : \/ NodeAnswer(n)
                            \/ Espresso(n)
                            \/ NodeDies(n)
                            \/ NodeGone(n)
                            \/ NodeReturns(n)

Spec == Init /\ [][Next]_vars

\* The select loop serves every connection that has a message, and a node
\* works off its connection while it runs.
Fairness == \A n \in Nodes : WF_vars(NodeAnswer(n)) /\ WF_vars(Espresso(n))

FairSpec == Spec /\ Fairness

-------------------------------------------------------------------------------
(* Properties *)

\* The type invariant: maps from ids in their ranges, bounded counters,
\* well-formed locks and cursors.
TypeOK ==
    /\ barista_up \in BOOLEAN
    /\ DOMAIN pathname_to_file_id \subseteq Paths
    /\ DOMAIN metadata \subseteq 1 .. next_file_id
    /\ \A f \in DOMAIN metadata : metadata[f].size \in 0 .. MaxSize
    /\ next_file_id \in 0 .. MaxFiles
    /\ last_fd \in 0 .. MaxFds
    /\ request_id \in 0 .. MaxRequests
    /\ DOMAIN file_cursors \subseteq 1 .. last_fd
    /\ \A fd \in DOMAIN file_cursors :
          file_cursors[fd] \in [client : Procs, file : FileIds, offset : Nat]
    /\ file_locks \in [FileIds -> LockRecords]
    /\ DOMAIN chunk_to_node \cup DOMAIN chunk_to_replica_node \subseteq Universe
    /\ \A k \in DOMAIN chunk_to_node : chunk_to_node[k] \in Primaries
    /\ \A k \in DOMAIN chunk_to_replica_node :
          chunk_to_replica_node[k] \in Replicas
    /\ up_nodes \subseteq Nodes /\ connected \subseteq Nodes
    /\ alive \subseteq Nodes

\* Number of messages of request id on the four connections.
Count(q, id) == Cardinality({i \in DOMAIN q : q[i].id = id})

Total(wires, id) == Count(wires[1], id) + Count(wires[2], id)
                    + Count(wires[3], id) + Count(wires[4], id)

InFlight(id) == Total(to_node, id) + Total(from_node, id)

\* Barista has the request that a message of this kind and id is of.
Known(op, id) == CASE op = "read" -> id \in DOMAIN active_reads
                   [] op = "write" -> WriteLookup(id) # {}
                   [] op = "delete" -> id \in DOMAIN active_deletes

\* No more messages of request id are under way than it waits for.
Accounted(id, missing) == /\ InFlight(id) <= missing
                          /\ deaths = 0 => InFlight(id) = missing

\* Every chunk request on the wire, and every answer to one, belongs to a
\* request Barista still has, so no handler's assertion fails; and a request
\* waits for no fewer answers than are under way, so none is answered early
\* and its id reused by a late answer.  While no node has died, it waits for
\* exactly those.
NoOrphanResponse ==
    barista_up =>
        /\ \A n \in Nodes : \A q \in {to_node[n], from_node[n]} :
             \A i \in DOMAIN q : Known(q[i].op, q[i].id)
        /\ \A id \in DOMAIN active_reads : LET r == active_reads[id] IN
             Accounted(id, r.expected - r.received)
        /\ \A id \in DOMAIN active_writes : LET w == active_writes[id] IN
             /\ Accounted(id, w.expected - w.received)
             /\ Accounted(w.replica, w.replica_expected - w.replica_received)
        /\ \A id \in DOMAIN active_deletes : LET d == active_deletes[id] IN
             Accounted(id, d.expected - d.received)

\* A read is answered with the bytes the file held at the cursor when the read
\* began, in order, whichever order the nodes answered in, and if a node has
\* died, from the replicas.  It is said until a node is started again, since
\* that one's new chunks go over its old ones, and of files whose every byte was
\* written: a chunk nobody wrote ends the pieces of its stripe, and bytes nobody
\* wrote may be missing.  After a second death a replica may be where the map
\* does not say, and a write that found no room is not what the file should
\* hold.
ReadCorrect ==
    [][\A id \in DOMAIN active_reads \ DOMAIN active_reads' :
        LET r == active_reads[id]
        IN  /\ deaths <= 1 /\ returned = {}
            /\ full = 0
            /\ Junk \notin ToSet(content[r.file])
            => reply'.data = r.want]_vars

\* Where byte k of a file lives.
PlaceOf(file, k) ==
    LET r == k % StripeSize
    IN  [chunk |-> <<file, k \div StripeSize + 1, r \div ChunkSize + 1>>,
         offset |-> r % ChunkSize]

StoredAt(n, file, k) ==
    LET p == PlaceOf(file, k)
    IN  /\ p.chunk \in DOMAIN store[n]
        /\ p.offset < Len(store[n][p.chunk])
        /\ store[n][p.chunk][p.offset + 1] = content[file][k + 1]

Busy(file) ==
    \/ \E id \in DOMAIN active_writes : active_writes[id].file = file
    \/ \E id \in DOMAIN active_deletes : active_deletes[id].file = file

\* Once a write has been answered, each byte of the file is at its place on
\* the node of its chunk and on the node of its replica: the answer is not
\* sent before both copies are stored, and later writes of other requests do
\* not disturb them.  It is said of executions in which no node has died or
\* found no room.
AnsweredDataStoredTwice ==
    barista_up /\ deaths = 0 /\ full = 0 => \A file \in DOMAIN content :
        ~Busy(file) => \A k \in 0 .. Len(content[file]) - 1 :
            content[file][k + 1] # Junk =>
                LET ch == PlaceOf(file, k).chunk
                IN  /\ Has(chunk_to_node, ch)
                    /\ StoredAt(Get(chunk_to_node, ch), file, k)
                    /\ Has(chunk_to_replica_node, ch)
                    /\ StoredAt(Get(chunk_to_replica_node, ch), file, k)

\* The copies a storage stat lists: stripe, chunk and node.
Copies(groups) ==
    UNION {UNION {{<<g.stripe, e.chunk, e.node>>, <<g.stripe, e.chunk, e.replica>>} :
                    e \in ToSet(g.chunks)} : g \in ToSet(groups)}

\* What a storage stat says of a file on which no write or delete is under way
\* is what the nodes have: it lists under its stripe every chunk that some node
\* stores, with exactly the nodes that store it.
StorageStatTrue ==
    [][reply'.op = "stat" /\ reply' # reply /\ deaths = 0 /\ full = 0 =>
        LET file == reply'.result
        IN  ~Busy(file) =>
                Copies(reply'.info) =
                    UNION {{<<k[2], k[3], n>> :
                              k \in {x \in DOMAIN store[n] : x[1] = file}} :
                                n \in Nodes}]_vars

\* When the delete of a file has been answered, nothing of it is left: no
\* node stores a chunk of a file that has no metadata, and the chunk maps do
\* not name one.
NothingLeftOfDeletedFiles ==
    LET gone == FileIds \ DOMAIN metadata
    IN  barista_up =>
        /\ \A n \in Nodes : \A k \in DOMAIN store[n] : k[1] \notin gone
        /\ \A k \in DOMAIN chunk_to_node \cup DOMAIN chunk_to_replica_node :
              k[1] \notin gone

\* The files clients have requests under way on, with who.
UnderWay ==
    LET Of(active) == {[client |-> active[i].client, file |-> active[i].file] :
                          i \in DOMAIN active}
    IN  Of(active_reads) \cup Of(active_writes) \cup Of(active_deletes)

\* A client with a request under way has its file to itself: the lock taken
\* when the file was opened still covers the request when its answers come in,
\* many steps after the handler that checked the lock.  It is said of clients
\* that are users of their own: a user's client that gives a file back erases
\* the locks of that user's other clients, whatever they have under way.
RequestsIsolated ==
    \A a, b \in UnderWay : a.file = b.file => a.client = b.client

\* A delete of which no chunk was sent: check_delete_complete never answers it,
\* and its lock is held for ever (DeleteAnswered, below).
Stuck(d) == d.expected = 0

\* A lock on a file will be given back: its holder has a descriptor of the file
\* to close, or has a delete of it under way with an answer of a node on the
\* wire, the last of which releases the lock.  No sequence of opens, refusals,
\* closes and answered deletes leaves a lock behind.  Three cases are left out:
\* a delete that is stuck; the answers a node that died took with it; and a
\* client that ended, whose descriptors are kept and never closed.
LocksHaveUsers ==
    barista_up /\ deaths = 0 =>
        \A file \in FileIds, c \in Procs : HasLock(file_locks[file], c) =>
            \/ \E fd \in DOMAIN file_cursors :
                  file_cursors[fd].client = c /\ file_cursors[fd].file = file
            \/ \E id \in DOMAIN active_deletes :
                  LET d == active_deletes[id]
                  IN  /\ d.client = c /\ d.file = file
                      /\ InFlight(id) > 0 \/ Stuck(d)

\* When a write is answered with the count the client asked for, every byte of
\* it is stored on the primary node of its chunk, although some node may have
\* found its disk full: the -1 of a failed chunk write cannot hide in the sum
\* the answers are added up to.  It is said until a node is started again: there
\* the second chunk of a write may go over the first.
FullCountMeansStored ==
    [][\A id \in DOMAIN active_writes \ DOMAIN active_writes' :
        LET w == active_writes[id]
        IN  reply'.result = w.asked /\ returned = {} =>
                \A k \in w.offset .. w.offset + w.asked - 1 :
                    LET ch == PlaceOf(w.file, k).chunk
                    IN  StoredAt(Get(chunk_to_node, ch), w.file, k)]_vars

Expected(c) ==
    \/ \E i \in DOMAIN active_reads :
          active_reads[i].client = c /\ active_reads[i].expected > 0
    \/ \E i \in DOMAIN active_writes : active_writes[i].client = c
    \/ \E i \in DOMAIN active_deletes :
          active_deletes[i].client = c /\ active_deletes[i].expected > 0

\* While no node dies, a client whose request waits for at least one node is
\* answered.
RequestsAnswered == \A c \in Procs : Expected(c) ~> ~Waiting(c)

-------------------------------------------------------------------------------
(* What the documentation says, and the code does not do *)

\* delete_file's comment: it returns success or failure.  So a client that
\* asks for a delete is answered.
DeleteAnswered ==
    \A c \in Procs : (\E i \in DOMAIN active_deletes :
                        active_deletes[i].client = c) ~> ~Waiting(c)

\* process_write_stripe's comment: when the write to a node fails, the node is
\* set down and the write tried again.  So a handler survives the loss of a
\* node, at least once Barista has noticed it: every connection it has is to
\* a node that runs.
SurvivesKnownLoss ==
    [][barista_up /\ connected \subseteq alive => barista_up']_vars
===============================================================================
