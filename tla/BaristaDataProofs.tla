-------------------------- MODULE BaristaDataProofs --------------------------
(***************************************************************************)
(* Barista's files while no node fails, for any clients, paths and bounds: *)
(* nothing left of a deleted file, each byte of an answered write on the   *)
(* two nodes of its chunk, and a read answered with what the file held.    *)
(***************************************************************************)
EXTENDS BaristaCoreProofs

-------------------------------------------------------------------------------
(* Nothing is left of deleted files *)

\* A delete of the chunk is on the connection to the node.
DeleteBehind(w, n, k) == \E id : On(w, n, DeleteMsg(id, k))

\* Both maps name the same chunks, of files that exist.
MapsAgree ==
    /\ DOMAIN chunk_to_replica_node = DOMAIN chunk_to_node
    /\ \A k \in DOMAIN chunk_to_node : k[1] \in DOMAIN metadata

\* A file whose delete is under way exists, and the maps have forgotten it.
DeletesClear ==
    \A id \in DOMAIN active_deletes :
        /\ active_deletes[id].file \in DOMAIN metadata
        /\ \A k \in DOMAIN chunk_to_node : k[1] # active_deletes[id].file

\* A chunk on a node is in the maps, or its delete is on the way.
CopiesFound ==
    \A n \in Nodes : \A k \in DOMAIN store[n] :
        \/ Entered(chunk_to_node, chunk_to_replica_node, n, k)
        \/ DeleteBehind(to_node, n, k)

\* So is a chunk that is on its way to a node.
WritesEntered ==
    \A n \in Nodes : \A m : On(to_node, n, m) /\ m.op = "write" =>
        Entered(chunk_to_node, chunk_to_replica_node, n, m.chunk)

\* Messages are about chunks of their request's file.
FilesOfMessages ==
    \A n \in Nodes : \A m : On(to_node, n, m) =>
        /\ m.op = "write" => \A id \in WriteLookup(m.id) :
                                active_writes[id].file = m.chunk[1]
        /\ m.op = "delete" /\ m.id \in DOMAIN active_deletes =>
              active_deletes[m.id].file = m.chunk[1]

Traced == /\ MapsAgree
          /\ DeletesClear
          /\ CopiesFound
          /\ WritesEntered
          /\ FilesOfMessages

LeftInv == /\ DOMAIN store = Nodes
           /\ barista_up /\ deaths = 0 => AllUp /\ Traced

\* It says more than NothingLeftOfDeletedFiles.
LEMMA TracedLeavesNothing ==
    NetInv /\ LeftInv => (deaths = 0 => NothingLeftOfDeletedFiles)
<1> SUFFICES ASSUME NetInv, LeftInv, deaths = 0, barista_up
             PROVE  NothingLeftOfDeletedFiles
  BY DEF NothingLeftOfDeletedFiles
<1>1. Traced /\ AllKnown
  BY DEF LeftInv, NetInv
<1>2. \A k \in DOMAIN chunk_to_node \cup DOMAIN chunk_to_replica_node :
          k[1] \in DOMAIN metadata
  BY <1>1 DEF Traced, MapsAgree
<1>3. ASSUME NEW n \in Nodes, NEW k \in DOMAIN store[n] PROVE k[1] \in DOMAIN metadata
  <2>1. CASE Entered(chunk_to_node, chunk_to_replica_node, n, k)
    BY <1>2, <2>1 DEF Entered
  <2>2. CASE DeleteBehind(to_node, n, k)
    <3>1. PICK id : On(to_node, n, DeleteMsg(id, k))
      BY <2>2 DEF DeleteBehind
    <3> DEFINE m == DeleteMsg(id, k)
    <3>2. m.op = "delete" /\ m.id = id /\ m.chunk = k
      BY DEF DeleteMsg
    <3> HIDE DEF m
    <3>3. OnWire("delete", id)
      BY <3>1, <3>2 DEF On, OnWire, m
    <3>4. id \in DOMAIN active_deletes
      BY <1>1, <3>3 DEF AllKnown, Known
    <3>5. active_deletes[id].file = k[1]
      BY <1>1, <3>1, <3>2, <3>4 DEF Traced, FilesOfMessages, m
    <3> QED BY <1>1, <3>4, <3>5 DEF Traced, DeletesClear
  <2> QED BY <1>1, <2>1, <2>2 DEF Traced, CopiesFound
<1> QED BY <1>2, <1>3 DEF NothingLeftOfDeletedFiles

\* Requests that stay what they are.
SameRequests ==
    /\ Follows(active_deletes', active_deletes)
    /\ \A i \in DOMAIN active_writes' :
          /\ i \in DOMAIN active_writes
          /\ active_writes'[i].file = active_writes[i].file
          /\ active_writes'[i].replica = active_writes[i].replica

\* Steps that send nothing and end no delete.
LEMMA QuietTraced ==
    ASSUME Traced, UNCHANGED <<maps, to_node, store>>, SameRequests,
           DOMAIN metadata \subseteq DOMAIN metadata'
    PROVE  Traced'
<1>1. MapsAgree'
  BY DEF Traced, MapsAgree, maps
<1>2. DeletesClear'
  BY DEF Traced, DeletesClear, maps, SameRequests, Follows
<1>3. CopiesFound' /\ WritesEntered'
  BY DEF Traced, CopiesFound, WritesEntered, maps
<1>4. FilesOfMessages'
  <2>1. \A x : \A id \in WriteLookup(x)' : id \in WriteLookup(x)
            /\ active_writes'[id].file = active_writes[id].file
    BY DEF SameRequests, WriteLookup
  <2> QED BY <2>1 DEF Traced, FilesOfMessages, SameRequests, Follows
<1> QED BY <1>1, <1>2, <1>3, <1>4 DEF Traced

\* A message that is taken off leaves the others.
LEMMA BeheadOn ==
    ASSUME NEW w, Wires(w), NEW n \in Nodes, w[n] # <<>>, NEW v, v = Behead(w, n)
    PROVE  /\ \A k \in Nodes : \A x : On(v, k, x) => On(w, k, x)
           /\ \A k \in Nodes : \A x : On(w, k, x) =>
                 On(v, k, x) \/ (k = n /\ x = Head(w[n]))
           /\ On(w, n, Head(w[n]))
<1> DEFINE q == Tail(w[n])
           len == Len(w[n])
<1>1. /\ \A k \in Nodes : v[k] = IF k = n THEN q ELSE w[k]
  BY DEF Behead, Wires
<1>2. /\ len \in Nat \ {0} /\ DOMAIN w[n] = 1 .. len
      /\ DOMAIN q = 1 .. len - 1 /\ Head(w[n]) = w[n][1]
      /\ \A i \in DOMAIN q : q[i] = w[n][i + 1]
  BY TailListed DEF Wires
<1> HIDE DEF q, len
<1>3. \A i \in DOMAIN q : \E j \in DOMAIN w[n] : w[n][j] = q[i]
  <2> TAKE i \in DOMAIN q
  <2>1. i + 1 \in DOMAIN w[n]
    BY <1>2
  <2> QED BY <1>2, <2>1
<1>4. \A j \in DOMAIN w[n] : w[n][j] = Head(w[n]) \/ \E i \in DOMAIN q : q[i] = w[n][j]
  <2> TAKE j \in DOMAIN w[n]
  <2>1. CASE j = 1
    BY <1>2, <2>1
  <2>2. CASE j # 1
    <3>1. j - 1 \in DOMAIN q /\ (j - 1) + 1 = j
      BY <1>2, <2>2
    <3>2. q[j - 1] = w[n][(j - 1) + 1]
      BY <1>2, <3>1
    <3> QED BY <3>1, <3>2
  <2> QED BY <2>1, <2>2
<1>5. 1 \in DOMAIN w[n]
  BY <1>2
<1>6. ASSUME NEW k \in Nodes, NEW x, On(v, k, x) PROVE On(w, k, x)
  BY <1>1, <1>3, <1>6 DEF On
<1>7. ASSUME NEW k \in Nodes, NEW x, On(w, k, x)
      PROVE  On(v, k, x) \/ (k = n /\ x = Head(w[n]))
  BY <1>1, <1>4, <1>7 DEF On
<1> QED BY <1>2, <1>5, <1>6, <1>7 DEF On

\* The operation of a message on the way to a node.
LEMMA OpOn ==
    ASSUME NetInv, barista_up, NEW n \in Nodes, NEW m, On(to_node, n, m)
    PROVE  OnWire(m.op, m.id) /\ m.op \in Ops /\ Known(m.op, m.id)
<1>1. OnWire(m.op, m.id)
  BY DEF On, OnWire
<1> QED BY <1>1 DEF NetInv, AllKnown

\* A node carries out a request: what it stores is in the maps, and what it
\* drops needs no delete any more.
LEMMA EspressoTraced ==
    ASSUME NetInv, LeftInv, barista_up, Traced, NEW n \in Nodes, Espresso(n),
           returned = {}
    PROVE  Traced'
<1> DEFINE m == Head(to_node[n])
<1>1. /\ to_node[n] # <<>> /\ to_node' = Behead(to_node, n)
      /\ UNCHANGED <<metadata, active_deletes, active_writes, chunk_to_node,
                     chunk_to_replica_node>>
      /\ \/ store' = [store EXCEPT ![n] = Carried(@, m)]
         \/ UNCHANGED store /\ m.op = "write"
  BY DEF Espresso, Behead, fileMeta, requests, maps
<1>2. Wires(to_node)
  BY DEF NetInv
<1>3. /\ \A k \in Nodes : \A x : On(to_node', k, x) => On(to_node, k, x)
      /\ \A k \in Nodes : \A x : On(to_node, k, x) =>
            On(to_node', k, x) \/ (k = n /\ x = m)
      /\ On(to_node, n, m)
  BY <1>1, <1>2, BeheadOn
<1> HIDE DEF m
<1>4. m.op \in Ops
  BY <1>3, OpOn
<1>5. MapsAgree' /\ DeletesClear'
  BY <1>1 DEF Traced, MapsAgree, DeletesClear
<1>6. WritesEntered'
  BY <1>1, <1>3 DEF Traced, WritesEntered
<1>7. FilesOfMessages'
  BY <1>1, <1>3 DEF Traced, FilesOfMessages, WriteLookup
<1>8. CopiesFound'
  <2> SUFFICES ASSUME NEW j \in Nodes, NEW k \in DOMAIN store'[j]
               PROVE  \/ Entered(chunk_to_node, chunk_to_replica_node, j, k)
                      \/ DeleteBehind(to_node', j, k)
    BY <1>1 DEF CopiesFound
  <2>1. ASSUME NEW id, On(to_node, j, DeleteMsg(id, k)),
               j # n \/ DeleteMsg(id, k) # m
        PROVE  DeleteBehind(to_node', j, k)
    BY <1>3, <2>1 DEF DeleteBehind
  <2>2. \A id : DeleteMsg(id, k).op = "delete" /\ DeleteMsg(id, k).chunk = k
    BY DEF DeleteMsg
  <2>3. CASE UNCHANGED store /\ m.op = "write"
    <3>1. \A id : DeleteMsg(id, k) # m
      BY <2>2, <2>3
    <3> QED BY <2>1, <2>3, <3>1 DEF Traced, CopiesFound, DeleteBehind
  <2>4. CASE store' = [store EXCEPT ![n] = Carried(@, m)]
    <3>1. j # n => store'[j] = store[j]
      BY <2>4 DEF LeftInv
    <3>2. store'[n] = Carried(store[n], m)
      BY <2>4 DEF LeftInv
    <3>3. CASE j # n
      BY <2>1, <3>1, <3>3 DEF Traced, CopiesFound, DeleteBehind
    <3>4. CASE j = n /\ m.op = "read"
      <4>1. k \in DOMAIN store[j] /\ \A id : DeleteMsg(id, k) # m
        BY <2>2, <3>2, <3>4 DEF Carried
      <4> QED BY <2>1, <4>1 DEF Traced, CopiesFound, DeleteBehind
    <3>5. CASE j = n /\ m.op = "write"
      <4>1. k \in DOMAIN store[j] \/ k = m.chunk
        BY <3>2, <3>5 DEF Carried, Add
      <4>2. \A id : DeleteMsg(id, k) # m
        BY <2>2, <3>5
      <4>3. CASE k = m.chunk
        BY <1>3, <3>5, <4>3 DEF Traced, WritesEntered
      <4>4. CASE k \in DOMAIN store[j]
        BY <2>1, <4>2, <4>4 DEF Traced, CopiesFound, DeleteBehind
      <4> QED BY <4>1, <4>3, <4>4
    <3>6. CASE j = n /\ m.op = "delete"
      <4>1. k \in DOMAIN store[j] /\ k # m.chunk
        BY <3>2, <3>6 DEF Carried, Drop
      <4>2. \A id : DeleteMsg(id, k) # m
        BY <2>2, <4>1
      <4> QED BY <2>1, <4>1, <4>2 DEF Traced, CopiesFound, DeleteBehind
    <3> QED BY <1>4, <3>3, <3>4, <3>5, <3>6 DEF Ops
  <2> QED BY <1>1, <2>3, <2>4
<1> QED BY <1>5, <1>6, <1>7, <1>8 DEF Traced

\* An answer to a read or a write.
LEMMA AnswerTraced ==
    ASSUME UsersInv, NetInv, Traced, NEW n \in Nodes,
           read_response_handler(n) \/ write_response_handler(n)
    PROVE  Traced'
<1> DEFINE m == Head(from_node[n])
<1>1. UNCHANGED <<maps, to_node, store, metadata, active_deletes>>
  BY DEF read_response_handler, write_response_handler, Taken, machines, fileMeta
<1>2. SameRequests
  <2>1. CASE read_response_handler(n)
    BY <1>1, <2>1 DEF read_response_handler, SameRequests, Follows
  <2>2. CASE write_response_handler(n)
    <3> DEFINE Updated(id) == IF m.id = id THEN CountPrimary(id, m)
                              ELSE [active_writes[id] EXCEPT !.replica_received = @ + 1]
    <3>1. PICK id \in DOMAIN active_writes : WriteComplete(id, Updated(id))
      BY <2>2 DEF write_response_handler, WriteLookup
    <3>2. /\ Updated(id).replica = active_writes[id].replica
          /\ Updated(id).file = active_writes[id].file
      <4>1. {"file", "replica"} \subseteq DOMAIN active_writes[id]
        BY <3>1 DEF UsersInv, AllOwned, Owned, NetInv, RequestsGood, WaitsTwice
      <4>2. CASE m.id = id
        BY <4>1, <4>2 DEF CountPrimary
      <4>3. CASE m.id # id
        BY <4>1, <4>3
      <4> QED BY <4>2, <4>3
    <3> HIDE DEF Updated, m
    <3> QED BY <1>1, <3>1, <3>2 DEF WriteComplete, SameRequests, Follows, Add, Drop
  <2> QED BY <2>1, <2>2
<1> QED BY <1>1, <1>2, QuietTraced

\* An answer to a delete: with the last the file goes, of which nothing is left
\* in the maps, and no other delete is of it.
LEMMA DeleteAnswerTraced ==
    ASSUME IsolationInv, RequestsIsolated, Traced, NEW n \in Nodes,
           delete_response_handler(n)
    PROVE  Traced'
<1> DEFINE m == Head(from_node[n])
           d == [active_deletes[m.id] EXCEPT !.received = @ + 1]
<1>1. /\ UNCHANGED <<maps, to_node, store, active_writes>>
      /\ m.id \in DOMAIN active_deletes /\ DeleteComplete(m.id, d)
  BY DEF delete_response_handler, Taken, machines
<1>2. d.client = active_deletes[m.id].client /\ d.file = active_deletes[m.id].file
  BY <1>1 DEF IsolationInv, UsersInv, AllOwned, Owned
<1> HIDE DEF m, d
<1>3. CASE UNCHANGED metadata /\ active_deletes' = Add(active_deletes, m.id, d)
  <2>1. SameRequests
    BY <1>1, <1>2, <1>3 DEF SameRequests, Follows, Add
  <2> QED BY <1>1, <1>3, <2>1, QuietTraced
<1>4. CASE /\ metadata' = Drop(metadata, d.file)
           /\ active_deletes' = Drop(active_deletes, m.id)
  <2>1. \A id \in DOMAIN active_deletes :
            id # m.id => active_deletes[id].file # d.file
    <3> SUFFICES ASSUME NEW id \in DOMAIN active_deletes, active_deletes[id].file = d.file
                 PROVE  id = m.id
      OBVIOUS
    <3> DEFINE a == [client |-> active_deletes[id].client,
                     file |-> active_deletes[id].file]
               b == [client |-> active_deletes[m.id].client,
                     file |-> active_deletes[m.id].file]
    <3>1. a \in UnderWay /\ b \in UnderWay
      BY <1>1 DEF UnderWay
    <3>2. a.client = b.client
      BY <1>2, <3>1 DEF RequestsIsolated
    <3> QED BY <1>1, <3>2 DEF IsolationInv, OneEach, Single
  <2>2. SameRequests
    BY <1>1, <1>4 DEF SameRequests, Follows, Drop
  <2>3. MapsAgree'
    BY <1>1, <1>2, <1>4 DEF Traced, MapsAgree, DeletesClear, maps, Drop
  <2>4. DeletesClear'
    BY <1>1, <1>4, <2>1 DEF Traced, DeletesClear, maps, Drop
  <2>5. CopiesFound' /\ WritesEntered'
    BY <1>1 DEF Traced, CopiesFound, WritesEntered, maps
  <2>6. FilesOfMessages'
    <3>1. \A x : \A id \in WriteLookup(x)' : id \in WriteLookup(x)
              /\ active_writes'[id].file = active_writes[id].file
      BY <1>1 DEF WriteLookup
    <3> QED BY <1>1, <2>2, <3>1 DEF Traced, FilesOfMessages, SameRequests, Follows
  <2> QED BY <2>3, <2>4, <2>5, <2>6 DEF Traced
<1> QED BY <1>1, <1>3, <1>4 DEF DeleteComplete, delete_file_contents

\* What the loops begin with.
LEMMA StartCalm ==
    ASSUME AllUp, NetInv, MapsInv, NEW fate
    PROVE  LET b == Start(fate)
           IN  /\ Calm(b) /\ Kept(b, b)
               /\ b.c2n = chunk_to_node /\ b.c2r = chunk_to_replica_node
               /\ b.out = to_node
  BY DEF AllUp, NetInv, MapsInv, Start, Calm, Kept, Fields

\* No message on the way has an id that is not given out.
LEMMA FreshOn ==
    ASSUME UsersInv, NetInv, barista_up, NEW x \in Nat, x > request_id,
           NEW n \in Nodes, NEW m, On(to_node, n, m)
    PROVE  m.id # x
<1>1. InFlight(x) = 0
  BY FreshIds
<1>2. \A op : ~OnWire(op, x)
  BY <1>1, InFlightNat DEF NetInv
<1>3. OnWire(m.op, m.id)
  BY DEF On, OnWire
<1> QED BY <1>2, <1>3

\* A read leaves the maps and adds reads to the connections.
LEMMA ReadSentOn ==
    ASSUME NetInv, MapsInv, AllUp, NEW c, NEW fd, NEW count \in Nat,
           ReadSent(c, fd, count), ~Crash, file_cursors[fd].offset \in Nat
    PROVE  /\ UNCHANGED <<chunk_to_node, chunk_to_replica_node, connected, alive,
                          store, metadata, active_writes, active_deletes, content>>
           /\ up_nodes' = Nodes
           /\ \A k \in Nodes : \A x : On(to_node, k, x) => On(to_node', k, x)
           /\ \A k \in Nodes : \A x : On(to_node', k, x) =>
                 On(to_node, k, x) \/ x.op = "read"
<1> DEFINE id == request_id + 1
           b == request_id + 2
           file == FileOf(fd)
           seq == Spans(StripeSize, ChunkSize, file_cursors[fd].offset, count)
           L(fate) == FoldLeft(LAMBDA h, s : ReadSpan(h, id, file, s), Start(fate), seq)
<1>1. PICK fate \in Fates : LET h == L(fate) IN
          /\ Sent(h)
          /\ UNCHANGED <<fileMeta, active_writes, active_deletes, machines, content>>
  BY DEF ReadSent, get_new_request_id
<1>2. L(fate) = ReadLoop!Loop(id, b, file, Start(fate), seq)
  BY DEF ReadLoop!Loop, ReadTurn, FoldLeft, ReadLoop!FoldLeft,
     MapThenFoldSet, ReadLoop!MapThenFoldSet, Max, ReadLoop!Max
<1>3. PICK n \in Nat : DOMAIN seq = 1 .. n
  <2>1. StripeSize \in Nat /\ StripeSize # 0 /\ ChunkSize \in Nat /\ ChunkSize # 0
    BY SizesAssumption
  <2> DEFINE G == GoodSpans(StripeSize, ChunkSize, file_cursors[fd].offset, count)
  <2>2. seq \in Seq(G)
    BY <2>1, SpansRun
  <2> HIDE DEF G, seq
  <2> QED BY <2>2
<1> DEFINE h == L(fate)
           base == Start(fate)
<1> HIDE DEF L, seq, id, b, file
<1>4. /\ Calm(base) /\ Kept(base, base)
      /\ base.c2n = chunk_to_node /\ base.c2r = chunk_to_replica_node
      /\ base.out = to_node
  BY StartCalm
<1> HIDE DEF base
<1>5. ReadOn(base, base)
  BY <1>4 DEF ReadOn
<1>6. ReadOn(h, base)
  BY <1>2, <1>3, <1>5, CalmReadLoop DEF base
<1> HIDE DEF h
<1>7. /\ to_node' = h.out /\ up_nodes' = h.up
      /\ chunk_to_node' = h.c2n /\ chunk_to_replica_node' = h.c2r
      /\ UNCHANGED <<connected, alive, store, metadata, active_writes, active_deletes,
                     content>>
  BY <1>1 DEF Sent, machines, fileMeta, h
<1>8. /\ UNCHANGED <<chunk_to_node, chunk_to_replica_node>> /\ up_nodes' = Nodes
      /\ \A k \in Nodes : \A x : On(to_node, k, x) => On(to_node', k, x)
      /\ \A k \in Nodes : \A x : On(to_node', k, x) => On(to_node, k, x) \/ x.op = "read"
  BY <1>4, <1>6, <1>7 DEF ReadOn, Calm, Kept
<1> QED BY <1>7, <1>8

\* A read.
LEMMA ReadTraced ==
    ASSUME NetInv, MapsInv, AllUp, Traced, NEW c, NEW fd, NEW count \in Nat,
           ReadSent(c, fd, count), ~Crash, file_cursors[fd].offset \in Nat
    PROVE  AllUp' /\ Traced'
<1>1. /\ UNCHANGED <<chunk_to_node, chunk_to_replica_node, connected, alive,
                     store, metadata, active_writes, active_deletes>>
      /\ up_nodes' = Nodes
      /\ \A k \in Nodes : \A x : On(to_node, k, x) => On(to_node', k, x)
      /\ \A k \in Nodes : \A x : On(to_node', k, x) =>
            On(to_node, k, x) \/ x.op = "read"
  BY ReadSentOn
<1>2. AllUp'
  BY <1>1 DEF AllUp
<1>3. MapsAgree' /\ DeletesClear'
  BY <1>1 DEF Traced, MapsAgree, DeletesClear
<1>4. CopiesFound' /\ WritesEntered'
  BY <1>1 DEF Traced, CopiesFound, WritesEntered, DeleteBehind
<1>5. FilesOfMessages'
  <2>1. \A x : WriteLookup(x)' = WriteLookup(x)
    BY <1>1 DEF WriteLookup
  <2> QED BY <1>1, <2>1 DEF Traced, FilesOfMessages
<1> QED BY <1>2, <1>3, <1>4, <1>5 DEF Traced

\* A write: its pieces are on their way to the nodes the maps name for their
\* chunks, and the maps keep what they had.
LEMMA WriteSentOn ==
    ASSUME KeysDiffer, UsersInv, Sizes, NetInv, MapsInv, MapsAgree, AllUp, NEW c,
           NEW fd, NEW count \in Nat, WriteSent(c, fd, count), ~Crash
    PROVE  LET id == request_id + 1
               file == FileOf(fd)
               offset == file_cursors[fd].offset
               seq == Spans(StripeSize, ChunkSize, offset, count)
           IN  /\ file \in DOMAIN metadata
               /\ UNCHANGED <<connected, alive, store, active_deletes>>
               /\ DOMAIN metadata' = DOMAIN metadata
               /\ \E r : /\ r.client = c /\ r.file = file /\ r.replica = id + 1
                         /\ active_writes' = Add(active_writes, id, r)
               /\ up_nodes' = Nodes
               /\ DOMAIN chunk_to_replica_node' = DOMAIN chunk_to_node'
               /\ \A k \in DOMAIN chunk_to_node :
                     /\ k \in DOMAIN chunk_to_node'
                     /\ chunk_to_node'[k] = chunk_to_node[k]
                     /\ chunk_to_replica_node'[k] = chunk_to_replica_node[k]
               /\ \A k \in DOMAIN chunk_to_node' : k \in DOMAIN chunk_to_node \/ k[1] = file
               /\ \A k \in Nodes : \A x : On(to_node, k, x) => On(to_node', k, x)
               /\ \A k \in Nodes : \A x : On(to_node', k, x) =>
                     \/ On(to_node, k, x)
                     \/ /\ x.op = "write" /\ x.id \in {id, id + 1} /\ x.chunk[1] = file
                        /\ Entered(chunk_to_node', chunk_to_replica_node', k, x.chunk)
               /\ content' = [content EXCEPT ![file] = Overlay(@, offset, Buffer(id, count))]
               /\ \A k \in Nodes : \A x : On(to_node', k, x) =>
                     On(to_node, k, x) \/ \E i \in DOMAIN seq : IsPiece(x, id, file, seq[i])
               /\ \A i \in DOMAIN seq :
                     LET ch == <<file, seq[i].stripe, seq[i].chunk>>
                     IN  /\ ch \in DOMAIN chunk_to_node'
                         /\ \A n \in Nodes :
                               Entered(chunk_to_node', chunk_to_replica_node', n, ch) =>
                                  \E x : On(to_node', n, x) /\ IsPiece(x, id, file, seq[i])
<1> DEFINE id == request_id + 1
           file == FileOf(fd)
           offset == file_cursors[fd].offset
           seq == Spans(StripeSize, ChunkSize, offset, count)
           L(fate) == FoldLeft(LAMBDA h, s : WriteSpan(h, id, id + 1, file, s),
                               Start(fate), seq)
<1>1. PICK fate \in Fates : LET h == L(fate) IN
          /\ Sent(h) /\ UNCHANGED machines
          /\ metadata' = update_file_size(file, count)
          /\ active_writes' = Add(active_writes, id, WriteRequest(c, fd, count, h))
          /\ content' = [content EXCEPT ![file] = Overlay(@, offset, Buffer(id, count))]
          /\ UNCHANGED active_deletes
  BY DEF WriteSent, WriteRequest, get_new_request_id
<1>2. L(fate) = WriteLoop!Loop(id, id + 1, file, Start(fate), seq)
  BY DEF WriteLoop!Loop, WriteTurn, FoldLeft, WriteLoop!FoldLeft,
     MapThenFoldSet, WriteLoop!MapThenFoldSet, Max, WriteLoop!Max
<1>3. file \in DOMAIN metadata
  BY WriteSpans
<1>4. PICK n \in Nat : /\ DOMAIN seq = 1 .. n
                       /\ \A i \in 1 .. n :
                             <<file, seq[i].stripe, seq[i].chunk>> \in Universe
  BY WriteSpans
<1> DEFINE h == L(fate)
           base == Start(fate)
           r == WriteRequest(c, fd, count, h)
<1>5. r.client = c /\ r.file = file /\ r.replica = id + 1
  BY DEF WriteRequest, get_new_request_id
<1> HIDE DEF L, seq, file, r, offset
<1>6. /\ Calm(base) /\ Kept(base, base)
      /\ base.c2n = chunk_to_node /\ base.c2r = chunk_to_replica_node
      /\ base.out = to_node
  BY StartCalm
<1> HIDE DEF base
<1>7. WroteOn(base, base, id, id + 1, file)
  BY <1>6 DEF WroteOn, MapsAgree
<1>8. WroteOn(h, base, id, id + 1, file) /\ Handed(h, base, id, file, seq, n)
  <2> HIDE DEF id
  <2>1. LET g == WriteLoop!Loop(id, id + 1, file, base, seq)
        IN  WroteOn(g, base, id, id + 1, file) /\ Handed(g, base, id, file, seq, n)
    BY <1>4, <1>7, CalmWriteLoop
  <2> QED BY <1>2, <2>1 DEF base
<1> HIDE DEF h
<1>9. /\ to_node' = h.out /\ up_nodes' = h.up
      /\ chunk_to_node' = h.c2n /\ chunk_to_replica_node' = h.c2r
      /\ UNCHANGED <<connected, alive, store, active_deletes>>
      /\ active_writes' = Add(active_writes, id, r)
      /\ content' = [content EXCEPT ![file] = Overlay(@, offset, Buffer(id, count))]
      /\ DOMAIN metadata' = DOMAIN metadata
  BY <1>1 DEF Sent, machines, h, r, update_file_size
<1>10. /\ up_nodes' = Nodes
       /\ DOMAIN chunk_to_replica_node' = DOMAIN chunk_to_node'
       /\ \A k \in DOMAIN chunk_to_node :
             /\ k \in DOMAIN chunk_to_node'
             /\ chunk_to_node'[k] = chunk_to_node[k]
             /\ chunk_to_replica_node'[k] = chunk_to_replica_node[k]
       /\ \A k \in DOMAIN chunk_to_node' : k \in DOMAIN chunk_to_node \/ k[1] = file
       /\ \A k \in Nodes : \A x : On(to_node, k, x) => On(to_node', k, x)
  BY <1>6, <1>8, <1>9 DEF WroteOn, Calm, Kept
<1>11. \A k \in Nodes : \A x : On(to_node', k, x) =>
          \/ On(to_node, k, x)
          \/ /\ x.op = "write" /\ x.id \in {id, id + 1} /\ x.chunk[1] = file
             /\ Entered(chunk_to_node', chunk_to_replica_node', k, x.chunk)
  BY <1>6, <1>8, <1>9 DEF WroteOn
<1>12. /\ \A k \in Nodes : \A x : On(to_node', k, x) =>
             On(to_node, k, x) \/ \E i \in DOMAIN seq : IsPiece(x, id, file, seq[i])
       /\ \A i \in DOMAIN seq :
             LET ch == <<file, seq[i].stripe, seq[i].chunk>>
             IN  /\ ch \in DOMAIN chunk_to_node'
                 /\ \A j \in Nodes :
                       Entered(chunk_to_node', chunk_to_replica_node', j, ch) =>
                          \E x : On(to_node', j, x) /\ IsPiece(x, id, file, seq[i])
  BY <1>4, <1>6, <1>8, <1>9 DEF Handed
<1> QED BY <1>3, <1>5, <1>9, <1>10, <1>11, <1>12 DEF file, seq, offset

\* The chunks a write sends are in the maps when it sends them, and nobody is
\* deleting their file.
LEMMA WriteTraced ==
    ASSUME KeysDiffer, UsersInv, Sizes, NetInv, MapsInv, barista_up, AllUp, Traced,
           RequestsIsolated', NEW c, ~Waiting(c), NEW fd, NEW count \in Nat,
           WriteSent(c, fd, count), ~Crash
    PROVE  AllUp' /\ Traced'
<1> DEFINE id == request_id + 1
           file == FileOf(fd)
<1>1. /\ file \in DOMAIN metadata
      /\ UNCHANGED <<connected, alive, store, active_deletes>>
      /\ DOMAIN metadata' = DOMAIN metadata
      /\ \E r : /\ r.client = c /\ r.file = file /\ r.replica = id + 1
                /\ active_writes' = Add(active_writes, id, r)
      /\ up_nodes' = Nodes
      /\ DOMAIN chunk_to_replica_node' = DOMAIN chunk_to_node'
      /\ \A k \in DOMAIN chunk_to_node :
            /\ k \in DOMAIN chunk_to_node'
            /\ chunk_to_node'[k] = chunk_to_node[k]
            /\ chunk_to_replica_node'[k] = chunk_to_replica_node[k]
      /\ \A k \in DOMAIN chunk_to_node' : k \in DOMAIN chunk_to_node \/ k[1] = file
      /\ \A k \in Nodes : \A x : On(to_node, k, x) => On(to_node', k, x)
      /\ \A k \in Nodes : \A x : On(to_node', k, x) =>
            \/ On(to_node, k, x)
            \/ /\ x.op = "write" /\ x.id \in {id, id + 1} /\ x.chunk[1] = file
               /\ Entered(chunk_to_node', chunk_to_replica_node', k, x.chunk)
  BY WriteSentOn DEF Traced
<1>2. PICK r : /\ r.client = c /\ r.file = file /\ r.replica = id + 1
               /\ active_writes' = Add(active_writes, id, r)
  BY <1>1
<1> HIDE DEF file
<1>3. \A n, k : Entered(chunk_to_node, chunk_to_replica_node, n, k) =>
                   Entered(chunk_to_node', chunk_to_replica_node', n, k)
  BY <1>1 DEF Entered, Traced, MapsAgree
<1>4. AllUp'
  BY <1>1 DEF AllUp
<1>5. MapsAgree'
  BY <1>1 DEF Traced, MapsAgree
<1>6. DeletesClear'
  <2> SUFFICES ASSUME NEW i \in DOMAIN active_deletes
               PROVE  active_deletes[i].file # file
    BY <1>1 DEF Traced, DeletesClear
  <2> SUFFICES ASSUME active_deletes[i].file = file PROVE FALSE
    OBVIOUS
  <2> DEFINE a == [client |-> active_deletes[i].client, file |-> file]
             b == [client |-> c, file |-> file]
  <2>1. id \in DOMAIN active_writes' /\ active_writes'[id] = r
    BY <1>2 DEF Add
  <2>2. b = [client |-> active_writes'[id].client, file |-> active_writes'[id].file]
    BY <1>2, <2>1
  <2>3. b \in UnderWay'
    BY <2>1, <2>2 DEF UnderWay
  <2>4. a \in UnderWay'
    BY <1>1 DEF UnderWay
  <2>5. active_deletes[i].client = c
    BY <2>3, <2>4 DEF RequestsIsolated
  <2> QED BY <2>5 DEF Waiting
<1>7. CopiesFound'
  BY <1>1, <1>3 DEF Traced, CopiesFound, DeleteBehind
<1>8. WritesEntered'
  BY <1>1, <1>3 DEF Traced, WritesEntered
<1>9. FilesOfMessages'
  <2>1. request_id \in Nat /\ Apart /\ DOMAIN active_writes \subseteq 1 .. request_id
    BY DEF UsersInv, Numbers, NetInv, RequestsGood
  <2>2. ASSUME NEW k \in Nodes, NEW m, On(to_node, k, m)
        PROVE  m.id # id /\ m.id # id + 1
    <3>1. /\ id \in Nat /\ id > request_id
          /\ id + 1 \in Nat /\ id + 1 > request_id
      BY <2>1
    <3> QED BY <2>2, <3>1, FreshOn
  <2>3. \A i \in DOMAIN active_writes : i \notin {id, id + 1}
            /\ active_writes[i].replica \notin {id, id + 1}
    <3> TAKE i \in DOMAIN active_writes
    <3>1. i \in 1 .. request_id /\ active_writes[i].replica = i + 1
          /\ i + 1 <= request_id
      BY <2>1 DEF Apart
    <3> QED BY <2>1, <3>1
  <2> HIDE DEF id
  <2>4. \A x : WriteLookup(x)' =
            WriteLookup(x) \cup (IF x \in {id, id + 1} THEN {id} ELSE {})
    <3>1. /\ DOMAIN active_writes' = DOMAIN active_writes \cup {id}
          /\ active_writes'[id].replica = id + 1
          /\ \A i \in DOMAIN active_writes : active_writes'[i] = active_writes[i]
      BY <1>2, <2>3 DEF Add
    <3> QED BY <2>3, <3>1 DEF WriteLookup
  <2>5. \A x \in {id, id + 1} : WriteLookup(x) = {}
    BY <2>3 DEF WriteLookup
  <2>6. active_writes'[id].file = file
        /\ \A i \in DOMAIN active_writes : active_writes'[i].file = active_writes[i].file
    BY <1>2, <2>3 DEF Add
  <2>7. ASSUME NEW k \in Nodes, NEW m, On(to_node', k, m), m.op = "write",
               NEW i \in WriteLookup(m.id)'
        PROVE  active_writes'[i].file = m.chunk[1]
    <3>1. CASE On(to_node, k, m)
      <4>1. i \in WriteLookup(m.id)
        BY <2>2, <2>4, <2>7, <3>1
      <4> QED BY <2>6, <2>7, <3>1, <4>1 DEF Traced, FilesOfMessages, WriteLookup
    <3>2. CASE m.id \in {id, id + 1} /\ m.chunk[1] = file
      BY <2>4, <2>5, <2>6, <2>7, <3>2
    <3> QED BY <1>1, <2>7, <3>1, <3>2
  <2>8. ASSUME NEW k \in Nodes, NEW m, On(to_node', k, m), m.op = "delete",
               m.id \in DOMAIN active_deletes
        PROVE  active_deletes[m.id].file = m.chunk[1]
    BY <1>1, <2>8 DEF Traced, FilesOfMessages
  <2> QED BY <1>1, <2>7, <2>8 DEF FilesOfMessages
<1> QED BY <1>4, <1>5, <1>6, <1>7, <1>8, <1>9 DEF Traced

\* A delete: every chunk of the file leaves the maps with a delete on its way to
\* both nodes.
LEMMA DeleteSentOn ==
    ASSUME KeysDiffer, Sizes, NetInv, MapsInv, MapsAgree, AllUp, NEW c, NEW path,
           DeleteSent(c, path), ~Crash
    PROVE  LET id == request_id + 1
               file == pathname_to_file_id[path]
           IN  /\ file \in DOMAIN metadata
               /\ UNCHANGED <<connected, alive, store, metadata, active_writes, content>>
               /\ \E r : /\ r.client = c /\ r.file = file
                         /\ active_deletes' = Add(active_deletes, id, r)
               /\ up_nodes' = Nodes
               /\ DOMAIN chunk_to_replica_node' = DOMAIN chunk_to_node'
               /\ \A k \in DOMAIN chunk_to_node' :
                     /\ k \in DOMAIN chunk_to_node /\ k[1] # file
                     /\ chunk_to_node'[k] = chunk_to_node[k]
                     /\ chunk_to_replica_node'[k] = chunk_to_replica_node[k]
               /\ \A k \in DOMAIN chunk_to_node \ DOMAIN chunk_to_node' :
                     /\ k[1] = file
                     /\ On(to_node', chunk_to_node[k], DeleteMsg(id, k))
                     /\ On(to_node', chunk_to_replica_node[k], DeleteMsg(id, k))
               /\ \A k \in Nodes : \A x : On(to_node, k, x) => On(to_node', k, x)
               /\ \A k \in Nodes : \A x : On(to_node', k, x) =>
                     On(to_node, k, x) \/ \E ch : x = DeleteMsg(id, ch) /\ ch[1] = file
<1> DEFINE id == request_id + 1
           b == request_id + 2
           file == pathname_to_file_id[path]
           S == {k \in DOMAIN chunk_to_node : k[1] = file}
           seq == AllChunks(file)
           L(fate) == FoldLeft(LAMBDA h, ch : DeleteOne(h, id, ch), Start(fate), seq)
<1>1. PICK fate \in Fates : LET h == L(fate) IN
          /\ Sent(h) /\ UNCHANGED <<machines, fileMeta, active_writes, content>>
          /\ active_deletes' = Add(active_deletes, id, DeleteRequest(c, path, h))
  BY DEF DeleteSent, DeleteRequest, get_new_request_id
<1>2. L(fate) = DeleteLoop!Loop(id, b, 0, Start(fate), seq)
  BY DEF DeleteLoop!Loop, DeleteTurn, FoldLeft, DeleteLoop!FoldLeft,
     MapThenFoldSet, DeleteLoop!MapThenFoldSet, Max, DeleteLoop!Max
<1>3. file \in DOMAIN metadata
  <2>1. path \in DOMAIN pathname_to_file_id
    <3>1. DeleteVerdict(c, path) = Proceed
      BY DEF DeleteSent
    <3> QED BY <3>1 DEF DeleteVerdict, Proceed, FILE_NOT_FOUND
  <2> QED BY <2>1 DEF Sizes, PathsGood
<1>4. PICK n \in Nat : /\ DOMAIN seq = 1 .. n
                       /\ \A i \in 1 .. n : seq[i] \in Universe /\ seq[i][1] = file
                       /\ \A k \in S : \E i \in 1 .. n : seq[i] = k
  <2>1. S \subseteq DOMAIN chunk_to_node /\ DOMAIN chunk_to_node \subseteq Universe
    BY DEF MapsInv, GoodMaps
  <2>2. IsFiniteSet(S) /\ S \subseteq Universe
    BY <2>1, FS_Subset DEF NetInv
  <2>3. \A k \in S : k[1] = file /\ k \in Universe
    BY <2>1
  <2>4. seq = Sorted(S)
    BY DEF AllChunks
  <2> HIDE DEF S, seq
  <2>5. /\ Cardinality(S) \in Nat /\ DOMAIN seq = 1 .. Cardinality(S)
        /\ \A i \in DOMAIN seq : seq[i] \in S
        /\ \A k \in S : \E i \in DOMAIN seq : seq[i] = k
    BY <2>2, <2>4, SortedAll
  <2> QED BY <2>3, <2>5
<1> DEFINE h == L(fate)
           base == Start(fate)
           r == DeleteRequest(c, path, h)
<1>0. r.client = c /\ r.file = file
  BY DEF DeleteRequest
<1> HIDE DEF L, seq, file, r, b
<1>5. /\ Calm(base) /\ Kept(base, base)
      /\ base.c2n = chunk_to_node /\ base.c2r = chunk_to_replica_node
      /\ base.out = to_node
  BY StartCalm
<1> HIDE DEF base
<1>6. GoodMaps(base.c2n, base.c2r) /\ DOMAIN base.c2r = DOMAIN base.c2n
  BY <1>5 DEF MapsInv, MapsAgree
<1>7. DeletedOn(base, base, id, file)
  BY <1>5, <1>6 DEF DeletedOn
<1>8. DeletedOn(h, base, id, file) /\ \A i \in 1 .. n : seq[i] \notin DOMAIN h.c2n
  <2> HIDE DEF id
  <2>1. LET g == DeleteLoop!Loop(id, b, 0, base, seq)
        IN  DeletedOn(g, base, id, file) /\ \A i \in 1 .. n : seq[i] \notin DOMAIN g.c2n
    BY <1>4, <1>6, <1>7, CalmDeleteLoop
  <2> QED BY <1>2, <2>1 DEF base
<1> HIDE DEF h
<1>9. /\ to_node' = h.out /\ up_nodes' = h.up
      /\ chunk_to_node' = h.c2n /\ chunk_to_replica_node' = h.c2r
      /\ UNCHANGED <<connected, alive, store, metadata, active_writes, content>>
      /\ active_deletes' = Add(active_deletes, id, r)
  BY <1>1 DEF Sent, machines, fileMeta, h, r
<1>10. /\ up_nodes' = Nodes
       /\ DOMAIN chunk_to_replica_node' = DOMAIN chunk_to_node'
       /\ \A k \in DOMAIN chunk_to_node' :
             k \in DOMAIN chunk_to_node /\ chunk_to_node'[k] = chunk_to_node[k]
             /\ chunk_to_replica_node'[k] = chunk_to_replica_node[k]
       /\ \A k \in DOMAIN chunk_to_node \ DOMAIN chunk_to_node' :
             /\ k[1] = file
             /\ On(to_node', chunk_to_node[k], DeleteMsg(id, k))
             /\ On(to_node', chunk_to_replica_node[k], DeleteMsg(id, k))
       /\ \A k \in Nodes : \A x : On(to_node, k, x) => On(to_node', k, x)
  BY <1>5, <1>8, <1>9 DEF DeletedOn, Calm, Kept
<1>11. \A k \in Nodes : \A x : On(to_node', k, x) =>
            On(to_node, k, x) \/ \E ch : x = DeleteMsg(id, ch) /\ ch[1] = file
  BY <1>5, <1>8, <1>9 DEF DeletedOn
<1>12. \A k \in DOMAIN chunk_to_node' : k[1] # file
  <2> SUFFICES ASSUME NEW k \in DOMAIN chunk_to_node', k[1] = file PROVE FALSE
    OBVIOUS
  <2>1. k \in S
    BY <1>10
  <2>2. PICK i \in 1 .. n : seq[i] = k
    BY <1>4, <2>1
  <2> QED BY <1>8, <1>9, <2>2
<1> QED BY <1>0, <1>3, <1>9, <1>10, <1>11, <1>12 DEF file

\* No write of the file is on its way.
LEMMA DeleteTraced ==
    ASSUME KeysDiffer, UsersInv, Sizes, NetInv, MapsInv, barista_up, AllUp, Traced,
           RequestsIsolated', NEW c, ~Waiting(c), NEW path, DeleteSent(c, path),
           ~Crash
    PROVE  AllUp' /\ Traced'
<1> DEFINE id == request_id + 1
           file == pathname_to_file_id[path]
<1>1. /\ file \in DOMAIN metadata
      /\ UNCHANGED <<connected, alive, store, metadata, active_writes, content>>
      /\ \E r : /\ r.client = c /\ r.file = file
                /\ active_deletes' = Add(active_deletes, id, r)
      /\ up_nodes' = Nodes
      /\ DOMAIN chunk_to_replica_node' = DOMAIN chunk_to_node'
      /\ \A k \in DOMAIN chunk_to_node' :
            /\ k \in DOMAIN chunk_to_node /\ k[1] # file
            /\ chunk_to_node'[k] = chunk_to_node[k]
            /\ chunk_to_replica_node'[k] = chunk_to_replica_node[k]
      /\ \A k \in DOMAIN chunk_to_node \ DOMAIN chunk_to_node' :
            /\ k[1] = file
            /\ On(to_node', chunk_to_node[k], DeleteMsg(id, k))
            /\ On(to_node', chunk_to_replica_node[k], DeleteMsg(id, k))
      /\ \A k \in Nodes : \A x : On(to_node, k, x) => On(to_node', k, x)
      /\ \A k \in Nodes : \A x : On(to_node', k, x) =>
            On(to_node, k, x) \/ \E ch : x = DeleteMsg(id, ch) /\ ch[1] = file
  BY DeleteSentOn DEF Traced
<1>2. PICK r : /\ r.client = c /\ r.file = file
               /\ active_deletes' = Add(active_deletes, id, r)
  BY <1>1
<1> HIDE DEF file
<1>3. AllUp'
  BY <1>1 DEF AllUp
<1>4. MapsAgree'
  BY <1>1 DEF Traced, MapsAgree
<1>5. DeletesClear'
  <2>1. DOMAIN active_deletes' = DOMAIN active_deletes \cup {id}
        /\ active_deletes'[id].file = file
        /\ \A i \in DOMAIN active_deletes : i # id => active_deletes'[i] = active_deletes[i]
    BY <1>2 DEF Add
  <2> HIDE DEF id
  <2> QED BY <1>1, <2>1 DEF Traced, DeletesClear
<1>6. CopiesFound'
  <2> SUFFICES ASSUME NEW j \in Nodes, NEW k \in DOMAIN store[j]
               PROVE  \/ Entered(chunk_to_node', chunk_to_replica_node', j, k)
                      \/ DeleteBehind(to_node', j, k)
    BY <1>1 DEF CopiesFound
  <2>1. CASE DeleteBehind(to_node, j, k)
    BY <1>1, <2>1 DEF DeleteBehind
  <2>2. CASE Entered(chunk_to_node, chunk_to_replica_node, j, k)
    <3>1. k \in DOMAIN chunk_to_node /\ k \in DOMAIN chunk_to_replica_node
          /\ (chunk_to_node[k] = j \/ chunk_to_replica_node[k] = j)
      BY <2>2 DEF Entered, Traced, MapsAgree
    <3>2. CASE k \in DOMAIN chunk_to_node'
      BY <1>1, <3>1, <3>2 DEF Entered
    <3>3. CASE k \notin DOMAIN chunk_to_node'
      <4>1. On(to_node', j, DeleteMsg(id, k))
        BY <1>1, <3>1, <3>3
      <4> QED BY <4>1 DEF DeleteBehind
    <3> QED BY <3>2, <3>3
  <2> QED BY <2>1, <2>2 DEF Traced, CopiesFound
<1>7. \A ch : DeleteMsg(id, ch).op = "delete" /\ DeleteMsg(id, ch).id = id
               /\ DeleteMsg(id, ch).chunk = ch
  BY DEF DeleteMsg
<1>8. ASSUME NEW i \in DOMAIN active_writes, active_writes[i].file = file PROVE FALSE
  <2> DEFINE x == [client |-> active_writes[i].client, file |-> file]
             y == [client |-> c, file |-> file]
  <2>1. id \in DOMAIN active_deletes' /\ active_deletes'[id] = r
    BY <1>2 DEF Add
  <2>2. y = [client |-> active_deletes'[id].client, file |-> active_deletes'[id].file]
    BY <1>2, <2>1
  <2>3. y \in UnderWay'
    BY <2>1, <2>2 DEF UnderWay
  <2>4. x \in UnderWay'
    BY <1>1, <1>8 DEF UnderWay
  <2>5. active_writes[i].client = c
    BY <2>3, <2>4 DEF RequestsIsolated
  <2> QED BY <2>5 DEF Waiting
<1>9. WritesEntered'
  <2> SUFFICES ASSUME NEW j \in Nodes, NEW m, On(to_node', j, m), m.op = "write"
               PROVE  Entered(chunk_to_node', chunk_to_replica_node', j, m.chunk)
    BY DEF WritesEntered
  <2>1. On(to_node, j, m)
    BY <1>1, <1>7
  <2>2. Entered(chunk_to_node, chunk_to_replica_node, j, m.chunk)
    BY <2>1 DEF Traced, WritesEntered
  <2>3. m.chunk[1] # file
    <3>1. WriteLookup(m.id) # {}
      <4>1. Known("write", m.id)
        BY <2>1, OpOn
      <4> QED BY <4>1 DEF Known
    <3>2. PICK i \in DOMAIN active_writes : active_writes[i].file = m.chunk[1]
      BY <2>1, <3>1 DEF Traced, FilesOfMessages, WriteLookup
    <3> QED BY <1>8, <3>2
  <2>4. m.chunk \in DOMAIN chunk_to_node /\ m.chunk \in DOMAIN chunk_to_node'
    BY <1>1, <2>2, <2>3 DEF Entered, Traced, MapsAgree
  <2> QED BY <1>1, <2>2, <2>4 DEF Entered
<1>10. FilesOfMessages'
  <2>1. request_id \in Nat
    BY DEF UsersInv, Numbers
  <2>2. ASSUME NEW k \in Nodes, NEW m, On(to_node, k, m) PROVE m.id # id
    <3>1. id \in Nat /\ id > request_id
      BY <2>1
    <3> QED BY <2>2, <3>1, FreshOn
  <2> HIDE DEF id
  <2>3. /\ active_deletes'[id].file = file
        /\ \A i \in DOMAIN active_deletes' : i # id =>
              i \in DOMAIN active_deletes /\ active_deletes'[i] = active_deletes[i]
    BY <1>2 DEF Add
  <2>4. \A x : WriteLookup(x)' = WriteLookup(x)
    BY <1>1 DEF WriteLookup
  <2>5. ASSUME NEW k \in Nodes, NEW m, On(to_node', k, m), m.op = "write",
               NEW i \in WriteLookup(m.id)'
        PROVE  active_writes'[i].file = m.chunk[1]
    <3>1. On(to_node, k, m)
      BY <1>1, <1>7, <2>5
    <3> QED BY <1>1, <2>4, <2>5, <3>1 DEF Traced, FilesOfMessages
  <2>6. ASSUME NEW k \in Nodes, NEW m, On(to_node', k, m), m.op = "delete",
               m.id \in DOMAIN active_deletes'
        PROVE  active_deletes'[m.id].file = m.chunk[1]
    <3>1. CASE On(to_node, k, m)
      BY <2>2, <2>3, <2>6, <3>1 DEF Traced, FilesOfMessages
    <3>2. CASE \E ch : m = DeleteMsg(id, ch) /\ ch[1] = file
      BY <1>7, <2>3, <3>2
    <3> QED BY <1>1, <2>6, <3>1, <3>2
  <2> QED BY <2>5, <2>6 DEF FilesOfMessages
<1> QED BY <1>3, <1>4, <1>5, <1>6, <1>9, <1>10 DEF Traced

\* Steps of a client.
LEMMA CallTraced ==
    ASSUME KeysDiffer, UsersInv, Sizes, NetInv, MapsInv, AllUp, Traced,
           RequestsIsolated', barista_up', NEW c \in Procs, ClientCall(c)
    PROVE  AllUp' /\ Traced'
<1>0. barista_up /\ ~Waiting(c) /\ ~Crash
  BY DEF ClientCall, Crash
<1>1. ASSUME UNCHANGED <<up_nodes, maps, requests, network, machines>>,
             DOMAIN metadata \subseteq DOMAIN metadata'
      PROVE  AllUp' /\ Traced'
  <2>1. SameRequests
    BY <1>1 DEF requests, SameRequests, Follows
  <2>2. AllUp'
    BY <1>1 DEF AllUp, network, machines
  <2> QED BY <1>1, <2>1, <2>2, QuietTraced DEF network, machines
<1>2. ASSUME NEW path, file_storage_stat(c, path) PROVE AllUp' /\ Traced'
  BY <1>1, <1>2 DEF file_storage_stat, fileMeta
<1>3. ASSUME NEW path, NEW flags, open_file(c, path, flags) PROVE AllUp' /\ Traced'
  <2>1. DOMAIN metadata \subseteq DOMAIN metadata'
    BY <1>3 DEF open_file, OpenMissing, OpenInUse, OpenExisting, OpenNew, add_file,
       Add, fileMeta
  <2> QED BY <1>1, <1>3, <2>1 DEF open_file
<1>4. ASSUME NEW fd, close_file(c, fd) PROVE AllUp' /\ Traced'
  BY <1>1, <1>4 DEF close_file, fileMeta
<1>5. ASSUME NEW fd, NEW whence, NEW o, file_seek(c, fd, whence, o)
      PROVE  AllUp' /\ Traced'
  BY <1>1, <1>5 DEF file_seek, fileMeta
<1>6. ASSUME NEW path, delete_file(c, path) PROVE AllUp' /\ Traced'
  <2>1. CASE DeleteRefused(c, path)
    BY <1>1, <2>1 DEF DeleteRefused, fileMeta
  <2>2. CASE DeleteSent(c, path)
    BY <1>0, <2>2, DeleteTraced
  <2> QED BY <1>6, <2>1, <2>2 DEF delete_file
<1>7. ASSUME NEW fd, NEW count \in Nat, read_file(c, fd, count) PROVE AllUp' /\ Traced'
  <2>1. CASE ReadRefused(c, fd, count)
    BY <1>1, <2>1 DEF ReadRefused, fileMeta
  <2>2. CASE ReadSent(c, fd, count)
    <3>1. ReadVerdict(c, fd, count) = Proceed
      BY <2>2 DEF ReadSent
    <3>2. FileOf(fd) \in DOMAIN metadata
      BY <3>1 DEF ReadVerdict, Proceed, FILE_NOT_OPEN_FOR_READ, UNABLE_TO_STAT_FILE
    <3>3. FileOf(fd) # 0
      BY <3>2 DEF Sizes, FilesGood
    <3>4. fd \in DOMAIN file_cursors
      BY <3>3 DEF FileOf
    <3>5. file_cursors[fd].offset \in Nat
      BY <3>4 DEF Sizes, CursorsGood
    <3> QED BY <1>0, <2>2, <3>5, ReadTraced
  <2> QED BY <1>0, <1>7, <2>1, <2>2 DEF read_file
<1>8. ASSUME NEW fd, NEW count \in Nat, write_file(c, fd, count) PROVE AllUp' /\ Traced'
  <2>1. CASE WriteRefused(c, fd, count)
    BY <1>1, <2>1 DEF WriteRefused, fileMeta
  <2>2. CASE WriteSent(c, fd, count)
    BY <1>0, <2>2, WriteTraced
  <2> QED BY <1>0, <1>8, <2>1, <2>2 DEF write_file
<1>9. Counts \subseteq Nat
  BY SizesAssumption
<1> QED BY <1>2, <1>3, <1>4, <1>5, <1>6, <1>7, <1>8, <1>9 DEF ClientCall

\* A client's call is carried out by Barista alone.
LEMMA CallMachines ==
    ASSUME NEW c, ClientCall(c)
    PROVE  UNCHANGED machines
<1>1. ASSUME Crash PROVE UNCHANGED machines
  BY <1>1 DEF Crash
<1>2. ASSUME NEW path, file_storage_stat(c, path) PROVE UNCHANGED machines
  BY <1>2 DEF file_storage_stat
<1>3. ASSUME NEW path, NEW flags, open_file(c, path, flags) PROVE UNCHANGED machines
  BY <1>3 DEF open_file
<1>4. ASSUME NEW fd, close_file(c, fd) PROVE UNCHANGED machines
  BY <1>4 DEF close_file
<1>5. ASSUME NEW fd, NEW whence, NEW o, file_seek(c, fd, whence, o)
      PROVE  UNCHANGED machines
  BY <1>5 DEF file_seek
<1>6. ASSUME NEW path, delete_file(c, path) PROVE UNCHANGED machines
  BY <1>1, <1>6 DEF delete_file, DeleteRefused, DeleteSent
<1>7. ASSUME NEW fd, NEW count, read_file(c, fd, count) PROVE UNCHANGED machines
  BY <1>1, <1>7 DEF read_file, ReadRefused, ReadSent
<1>8. ASSUME NEW fd, NEW count, write_file(c, fd, count) PROVE UNCHANGED machines
  BY <1>1, <1>8 DEF write_file, WriteRefused, WriteSent
<1> QED BY <1>2, <1>3, <1>4, <1>5, <1>6, <1>7, <1>8 DEF ClientCall

\* Every step keeps the invariant, until a node dies.
LEMMA NextLeft ==
    ASSUME KeysDiffer
    PROVE  /\ UsersInv /\ Sizes /\ NetInv /\ MapsInv /\ IsolationInv
           /\ RequestsIsolated /\ RequestsIsolated' /\ LeftInv /\ [Next]_vars
           => LeftInv'
<1> SUFFICES ASSUME UsersInv, Sizes, NetInv, MapsInv, IsolationInv, RequestsIsolated,
                    RequestsIsolated', LeftInv, [Next]_vars
             PROVE  LeftInv'
  OBVIOUS
<1>1. DOMAIN store' = Nodes
  <2>1. CASE UNCHANGED store
    BY <2>1 DEF LeftInv
  <2>2. ASSUME NEW n \in Nodes, Espresso(n) PROVE DOMAIN store' = Nodes
    BY <2>2 DEF Espresso, LeftInv
  <2>3. ASSUME NEW c \in Procs, ClientCall(c) \/ ClientEnds(c) PROVE UNCHANGED store
    BY <2>3, CallMachines DEF ClientEnds, machines
  <2>4. ASSUME NEW n \in Nodes, NodeAnswer(n) \/ NodeDies(n) \/ NodeGone(n)
        PROVE  UNCHANGED store
    BY <2>4 DEF NodeAnswer, read_response_handler, write_response_handler,
       delete_response_handler, NodeDies, NodeGone, machines
  <2>5. ASSUME NEW n \in Nodes, NodeReturns(n) PROVE DOMAIN store' = Nodes
    BY <2>5 DEF NodeReturns, LeftInv
  <2> QED BY <2>1, <2>2, <2>3, <2>4, <2>5 DEF Next, vars, machines
<1> SUFFICES ASSUME barista_up', deaths' = 0 PROVE AllUp' /\ Traced'
  BY <1>1 DEF LeftInv
<1>2. ASSUME AllUp, Traced, UNCHANGED <<up_nodes, connected, alive, maps, to_node, store,
             metadata, active_writes, active_deletes>>
      PROVE  AllUp' /\ Traced'
  <2>1. SameRequests
    BY <1>2 DEF SameRequests, Follows
  <2> QED BY <1>2, <2>1, QuietTraced DEF AllUp
<1>3. CASE UNCHANGED vars
  BY <1>2, <1>3 DEF vars, LeftInv, network, machines, fileMeta, requests
<1>4. ASSUME NEW c \in Procs, ClientCall(c) PROVE AllUp' /\ Traced'
  <2>1. barista_up
    BY <1>4 DEF ClientCall
  <2>2. UNCHANGED deaths
    BY <1>4, CallMachines DEF machines
  <2> QED BY <1>4, <2>1, <2>2, CallTraced DEF LeftInv
<1>5. ASSUME NEW c \in Procs, ClientEnds(c) PROVE AllUp' /\ Traced'
  BY <1>2, <1>5 DEF ClientEnds, LeftInv, network, fileMeta, requests
<1>6. ASSUME NEW n \in Nodes, NodeAnswer(n) PROVE AllUp' /\ Traced'
  <2>1. barista_up /\ UNCHANGED <<up_nodes, connected, alive, deaths>>
    BY <1>6 DEF NodeAnswer, read_response_handler, write_response_handler,
       delete_response_handler, Take, Taken, machines
  <2>2. AllUp' /\ Traced
    BY <2>1 DEF LeftInv, AllUp
  <2> QED BY <1>6, <2>2, AnswerTraced, DeleteAnswerTraced DEF NodeAnswer
<1>7. ASSUME NEW n \in Nodes, Espresso(n) PROVE AllUp' /\ Traced'
  <2>1. UNCHANGED <<barista_up, up_nodes, connected, alive, deaths>>
    BY <1>7 DEF Espresso
  <2>2. AllUp' /\ Traced /\ barista_up /\ returned = {}
    BY <2>1 DEF LeftInv, AllUp, NetInv, Linked
  <2> QED BY <1>7, <2>2, EspressoTraced
<1>8. ASSUME NEW n \in Nodes, NodeDies(n) PROVE FALSE
  <2>1. deaths \in Nat /\ deaths' = deaths + 1
    BY <1>8 DEF NodeDies, NetInv, Linked
  <2> QED BY <2>1
<1>9. ASSUME NEW n \in Nodes, NodeGone(n) \/ NodeReturns(n) PROVE FALSE
  <2>1. barista_up /\ UNCHANGED deaths
    BY <1>9 DEF NodeGone, NodeReturns, machines
  <2>2. AllUp
    BY <2>1 DEF LeftInv
  <2> QED BY <1>9, <2>2 DEF NodeGone, NodeReturns, AllUp
<1> QED BY <1>3, <1>4, <1>5, <1>6, <1>7, <1>8, <1>9 DEF Next

\* No message is on its way in the beginning, and nothing is stored.
LEMMA InitLeft == Init => LeftInv
<1> SUFFICES ASSUME Init PROVE LeftInv
  OBVIOUS
<1>1. \A n \in Nodes : \A m : ~On(to_node, n, m)
  BY DEF Init, On
<1>2. DOMAIN store = Nodes /\ \A n \in Nodes : DOMAIN store[n] = {}
  BY DEF Init, EmptyMap
<1>3. AllUp /\ MapsAgree /\ DeletesClear
  BY DEF Init, AllUp, MapsAgree, DeletesClear, EmptyMap
<1>4. CopiesFound /\ WritesEntered /\ FilesOfMessages
  BY <1>1, <1>2 DEF CopiesFound, WritesEntered, FilesOfMessages
<1> QED BY <1>2, <1>3, <1>4 DEF LeftInv, Traced

\* While all nodes run, whatever a disk has no room for, nothing is left of a
\* file whose delete has been answered: no node stores a chunk of it and the maps
\* name none.  For clients that are users of their own, and files whose chunks
\* are different keys to Barista's maps.
THEOREM DeletesLeaveNothing ==
    ASSUME OneClientPerUser, KeysDiffer
    PROVE  Spec => [](deaths = 0 => NothingLeftOfDeletedFiles)
<1>1. Init => MapsInv
  BY DEF Init, MapsInv, GoodMaps, EmptyMap
<1>2. Init => LeftInv
  BY InitLeft
<1>3. Spec => [](UsersInv /\ Sizes /\ NetInv)
  BY NetInvariance
<1>4. UsersInv /\ Sizes /\ NetInv /\ MapsInv /\ [Next]_vars => MapsInv'
  BY NextMaps
<1>5. Spec => []IsolationInv
  BY IsolationInvariance
<1>8. Spec => []RequestsIsolated
  BY RequestsHaveTheirFiles
<1>6. /\ UsersInv /\ Sizes /\ NetInv /\ MapsInv /\ IsolationInv
      /\ RequestsIsolated /\ RequestsIsolated' /\ LeftInv /\ [Next]_vars
      => LeftInv'
  BY NextLeft
<1>7. NetInv /\ LeftInv => (deaths = 0 => NothingLeftOfDeletedFiles)
  BY TracedLeavesNothing
<1> QED BY <1>1, <1>2, <1>3, <1>4, <1>5, <1>6, <1>7, <1>8, PTL DEF Spec

-------------------------------------------------------------------------------
(* What the nodes store *)

\* Sequences of which only the elements are known.
LEMMA ListedFunction ==
    ASSUME NEW len \in Nat, NEW q, DOMAIN q = 1 .. len, q = [i \in 1 .. len |-> q[i]]
    PROVE  Listed(q) /\ Len(q) = len
<1> DEFINE S == {q[i] : i \in 1 .. len}
<1>1. q \in [1 .. len -> S]
  OBVIOUS
<1>2. q \in Seq(S)
  BY <1>1
<1> HIDE DEF S
<1> QED BY <1>2 DEF Listed

\* The indices of such a sequence.
LEMMA ListedIs ==
    ASSUME NEW q, Listed(q)
    PROVE  Len(q) \in Nat /\ DOMAIN q = 1 .. Len(q)
  BY DEF Listed

\* A chunk after a write: its old bytes, and the written ones in their place.
LEMMA OverlayListed ==
    ASSUME NEW s, Listed(s), NEW offset \in Nat, NEW data, Listed(data)
    PROVE  LET o == Overlay(s, offset, data)
           IN  /\ Listed(o)
               /\ Len(o) >= Len(s) /\ Len(o) >= offset + Len(data)
               /\ Len(o) = Len(s) \/ Len(o) = offset + Len(data)
               /\ \A i \in 1 .. Len(o) :
                     o[i] = IF offset < i /\ i <= offset + Len(data) THEN data[i - offset]
                            ELSE IF i <= Len(s) THEN s[i]
                            ELSE Junk
<1> DEFINE n == Len(data)
           len == IF offset + n <= Len(s) THEN Len(s) ELSE offset + n
           E(i) == IF offset < i /\ i <= offset + n THEN data[i - offset]
                   ELSE IF i <= Len(s) THEN s[i]
                   ELSE Junk
           o == Overlay(s, offset, data)
<1>1. n \in Nat /\ Len(s) \in Nat
  BY ListedIs
<1>2. len \in Nat /\ len >= Len(s) /\ len >= offset + n /\ (len = Len(s) \/ len = offset + n)
  <2> HIDE DEF n
  <2> QED BY <1>1
<1>3. o = [i \in 1 .. len |-> E(i)]
  BY DEF Overlay
<1> HIDE DEF len, n, o, E
<1>4. DOMAIN o = 1 .. len /\ \A i \in 1 .. len : o[i] = E(i)
  BY <1>3
<1>5. o = [i \in 1 .. len |-> o[i]]
  BY <1>3, <1>4
<1>6. Listed(o) /\ Len(o) = len
  BY <1>2, <1>4, <1>5, ListedFunction
<1> QED BY <1>2, <1>4, <1>6 DEF o, E, n

\* The write m has byte k of the file.
Covers(m, f, k) ==
    LET p == PlaceOf(f, k)
    IN  /\ m.op = "write" /\ m.chunk = p.chunk
        /\ m.offset <= p.offset /\ p.offset < m.offset + Len(m.data)

ByteIn(m, f, k) == m.data[PlaceOf(f, k).offset - m.offset + 1]

\* Node n has byte k of the file, or will have.
Due(n, f, k) == \/ StoredAt(n, f, k)
                \/ \E m : On(to_node, n, m) /\ Covers(m, f, k)

Deleting == {active_deletes[id].file : id \in DOMAIN active_deletes}

Bytes(f) == 0 .. Len(content[f]) - 1

\* The writes on their way have the bytes the files should hold.
WritesTrue ==
    \A n \in Nodes : \A m : On(to_node, n, m) /\ m.op = "write" =>
        /\ m.offset \in Nat /\ Listed(m.data)
        /\ \A f \in DOMAIN content : \A k \in Bytes(f) :
              Covers(m, f, k) => ByteIn(m, f, k) = content[f][k + 1]

\* Every byte that was written is on its two nodes or on its way there.
CopiesDue ==
    \A f \in DOMAIN content \ Deleting : \A k \in Bytes(f) :
        content[f][k + 1] # Junk =>
            LET ch == PlaceOf(f, k).chunk
            IN  /\ ch \in DOMAIN chunk_to_node
                /\ \A n \in Nodes :
                      Entered(chunk_to_node, chunk_to_replica_node, n, ch) => Due(n, f, k)

StoresListed == \A n \in Nodes : \A ch \in DOMAIN store[n] : Listed(store[n][ch])

ContentListed == /\ DOMAIN content = DOMAIN metadata
                 /\ \A f \in DOMAIN content : Listed(content[f])

DataInv == /\ full \in Nat
           /\ ContentListed
           /\ barista_up /\ deaths = 0 /\ full = 0 =>
                 StoresListed /\ WritesTrue /\ CopiesDue

\* When nothing of a file is under way, what is due is there.
LEMMA DataStored ==
    KeysDiffer /\ NetInv /\ MapsInv /\ LeftInv /\ DataInv => AnsweredDataStoredTwice
<1> SUFFICES ASSUME KeysDiffer, NetInv, MapsInv, LeftInv, DataInv, barista_up,
                    deaths = 0, full = 0, NEW f \in DOMAIN content, ~Busy(f),
                    NEW k \in Bytes(f), content[f][k + 1] # Junk
             PROVE  LET ch == PlaceOf(f, k).chunk
                    IN  /\ Has(chunk_to_node, ch)
                        /\ StoredAt(Get(chunk_to_node, ch), f, k)
                        /\ Has(chunk_to_replica_node, ch)
                        /\ StoredAt(Get(chunk_to_replica_node, ch), f, k)
  BY DEF AnsweredDataStoredTwice, Bytes
<1> DEFINE ch == PlaceOf(f, k).chunk
<1>1. Traced /\ CopiesDue
  BY DEF LeftInv, DataInv
<1>2. f \notin Deleting
  BY DEF Busy, Deleting
<1>3. /\ ch \in DOMAIN chunk_to_node
      /\ \A n \in Nodes :
            Entered(chunk_to_node, chunk_to_replica_node, n, ch) => Due(n, f, k)
  BY <1>1, <1>2 DEF CopiesDue
<1>4. ch[1] = f
  BY DEF PlaceOf
<1> HIDE DEF ch
<1>5. ASSUME NEW n \in Nodes, Due(n, f, k) PROVE StoredAt(n, f, k)
  <2> SUFFICES ASSUME NEW m, On(to_node, n, m), Covers(m, f, k) PROVE FALSE
    BY <1>5 DEF Due
  <2>1. m.op = "write" /\ m.chunk = ch
    BY DEF Covers, ch
  <2>2. WriteLookup(m.id) # {}
    <3>1. Known("write", m.id)
      BY <2>1, OpOn
    <3> QED BY <3>1 DEF Known
  <2>3. PICK i \in DOMAIN active_writes : active_writes[i].file = f
    BY <1>1, <1>4, <2>1, <2>2 DEF Traced, FilesOfMessages, WriteLookup
  <2> QED BY <2>3 DEF Busy
<1>6. /\ chunk_to_node[ch] \in Nodes /\ chunk_to_replica_node[ch] \in Nodes
      /\ ch \in DOMAIN chunk_to_replica_node /\ ch \in Universe
  BY <1>1, <1>3 DEF MapsInv, GoodMaps, Nodes, Traced, MapsAgree
<1>7. /\ Has(chunk_to_node, ch) /\ Get(chunk_to_node, ch) = chunk_to_node[ch]
  BY <1>3, <1>6, MapAsFunction DEF MapsInv, GoodMaps
<1>8. /\ Has(chunk_to_replica_node, ch)
      /\ Get(chunk_to_replica_node, ch) = chunk_to_replica_node[ch]
  BY <1>6, MapAsFunction DEF MapsInv, GoodMaps
<1> QED BY <1>3, <1>5, <1>6, <1>7, <1>8 DEF ch, Entered

\* Steps that leave messages and stores: files may be added, empty, and go.
LEMMA QuietData ==
    ASSUME WritesTrue, CopiesDue, StoresListed, UNCHANGED <<maps, to_node, store>>,
           \A f \in DOMAIN content' :
              \/ content'[f] = <<>>
              \/ /\ f \in DOMAIN content /\ content'[f] = content[f]
                 /\ f \in Deleting => f \in Deleting'
    PROVE  WritesTrue' /\ CopiesDue' /\ StoresListed'
<1>1. \A f \in DOMAIN content' : \A k \in Bytes(f)' :
          /\ f \in DOMAIN content /\ content'[f] = content[f] /\ k \in Bytes(f)
          /\ f \in Deleting => f \in Deleting'
  BY DEF Bytes
<1>2. WritesTrue'
  BY <1>1 DEF WritesTrue
<1>3. CopiesDue'
  <2> SUFFICES ASSUME NEW f \in DOMAIN content' \ Deleting', NEW k \in Bytes(f)',
                      content'[f][k + 1] # Junk
               PROVE  LET ch == PlaceOf(f, k).chunk
                      IN  /\ ch \in DOMAIN chunk_to_node'
                          /\ \A n \in Nodes :
                                Entered(chunk_to_node', chunk_to_replica_node', n, ch)
                                => Due(n, f, k)'
    BY DEF CopiesDue
  <2>1. /\ f \in DOMAIN content \ Deleting /\ k \in Bytes(f)
        /\ content'[f] = content[f]
    BY <1>1
  <2>2. \A n : Due(n, f, k) => Due(n, f, k)'
    BY <2>1 DEF Due, StoredAt
  <2> QED BY <2>1, <2>2 DEF CopiesDue, maps
<1>4. StoresListed'
  BY DEF StoresListed
<1> QED BY <1>2, <1>3, <1>4

\* A node carries out a request.
LEMMA EspressoData ==
    ASSUME NetInv, LeftInv, barista_up, Traced, WritesTrue, CopiesDue, StoresListed,
           NEW n \in Nodes, Espresso(n), returned = {}, full \in Nat, full = 0, full' = 0
    PROVE  WritesTrue' /\ CopiesDue' /\ StoresListed'
<1> DEFINE m == Head(to_node[n])
           old == IF m.chunk \in DOMAIN store[n] THEN store[n][m.chunk] ELSE <<>>
<1>1. /\ to_node[n] # <<>> /\ to_node' = Behead(to_node, n)
      /\ UNCHANGED <<content, active_deletes, chunk_to_node, chunk_to_replica_node>>
      /\ store' = [store EXCEPT ![n] = Carried(@, m)]
  BY DEF Espresso, Behead, requests, maps
<1>2. Wires(to_node)
  BY DEF NetInv
<1>3. /\ \A k \in Nodes : \A x : On(to_node', k, x) => On(to_node, k, x)
      /\ \A k \in Nodes : \A x : On(to_node, k, x) =>
            On(to_node', k, x) \/ (k = n /\ x = m)
      /\ On(to_node, n, m)
  BY <1>1, <1>2, BeheadOn
<1>4. m.op \in Ops
  BY <1>3, OpOn
<1>5. m.op = "write" => m.offset \in Nat /\ Listed(m.data)
  BY <1>3 DEF WritesTrue
<1>6. Listed(old)
  <2>1. Listed(<<>>)
    BY DEF Listed
  <2> QED BY <2>1 DEF StoresListed
<1> HIDE DEF m, old
<1>7. /\ \A j \in Nodes : j # n => store'[j] = store[j]
      /\ m.op = "read" => store'[n] = store[n]
      /\ m.op = "write" =>
            store'[n] = Add(store[n], m.chunk, Overlay(old, m.offset, m.data))
      /\ m.op = "delete" => store'[n] = Drop(store[n], m.chunk)
  BY <1>1 DEF LeftInv, Carried, old
<1>8. WritesTrue'
  BY <1>1, <1>3 DEF WritesTrue, Bytes
<1>9. StoresListed'
  <2>1. CASE m.op = "read"
    BY <1>7, <2>1 DEF StoresListed
  <2>2. CASE m.op = "delete"
    BY <1>7, <2>2 DEF StoresListed, Drop
  <2>3. CASE m.op = "write"
    <3>1. Listed(Overlay(old, m.offset, m.data))
      BY <1>5, <1>6, <2>3, OverlayListed
    <3> QED BY <1>7, <2>3, <3>1 DEF StoresListed, Add
  <2> QED BY <1>4, <2>1, <2>2, <2>3 DEF Ops
<1>10. ASSUME NEW j \in Nodes, NEW f \in DOMAIN content \ Deleting, NEW k \in Bytes(f),
              Due(j, f, k)
       PROVE  Due(j, f, k)'
  <2> DEFINE p == PlaceOf(f, k)
             b == content[f][k + 1]
  <2>0. p.chunk[1] = f /\ p.offset \in Nat
    <3>1. k \in Nat /\ StripeSize \in Nat \ {0} /\ ChunkSize \in Nat \ {0}
      <4>1. k \in Nat
        BY DEF Bytes
      <4> QED BY <4>1, SizesAssumption
    <3>2. k % StripeSize \in Nat
      BY <3>1
    <3> DEFINE r == k % StripeSize
    <3> HIDE DEF r
    <3>3. r % ChunkSize \in Nat
      BY <3>1, <3>2 DEF r
    <3> QED BY <3>3 DEF PlaceOf, r
  <2>1. CASE \E x : On(to_node', j, x) /\ Covers(x, f, k)
    BY <2>1 DEF Due, Covers
  <2>2. CASE j # n /\ StoredAt(j, f, k)
    <3>1. StoredAt(j, f, k)'
      BY <1>1, <1>7, <2>2 DEF StoredAt
    <3> QED BY <3>1 DEF Due
  <2>3. CASE j = n /\ m.op = "write" /\ m.chunk = p.chunk
             /\ (StoredAt(j, f, k) \/ Covers(m, f, k))
    <3> DEFINE o == Overlay(old, m.offset, m.data)
    <3>1. store'[n][p.chunk] = o /\ p.chunk \in DOMAIN store'[n]
      BY <1>7, <2>3 DEF Add
    <3>2. /\ Len(o) \in Nat /\ Len(o) >= Len(old) /\ Len(o) >= m.offset + Len(m.data)
          /\ \A i \in 1 .. Len(o) :
                o[i] = IF m.offset < i /\ i <= m.offset + Len(m.data)
                       THEN m.data[i - m.offset]
                       ELSE IF i <= Len(old) THEN old[i] ELSE Junk
      BY <1>5, <1>6, <2>3, OverlayListed, ListedIs
    <3>3. m.offset \in Nat /\ Len(m.data) \in Nat /\ Len(old) \in Nat
      BY <1>5, <1>6, <2>3, ListedIs
    <3>4. Covers(m, f, k) <=> m.offset <= p.offset /\ p.offset < m.offset + Len(m.data)
      BY <2>3 DEF Covers
    <3>5. Covers(m, f, k) => m.data[p.offset - m.offset + 1] = b
      BY <1>3, <2>3 DEF WritesTrue, ByteIn
    <3>6. StoredAt(j, f, k) => p.offset < Len(old) /\ old[p.offset + 1] = b
      BY <2>3 DEF StoredAt, old
    <3> HIDE DEF o, p, b
    <3>7. p.offset < Len(o) /\ o[p.offset + 1] = b
      <4> DEFINE i == p.offset + 1
      <4>1. i \in Nat /\ i - m.offset = p.offset - m.offset + 1
        BY <2>0, <3>3
      <4>2. CASE Covers(m, f, k)
        <5>1. i \in 1 .. Len(o) /\ m.offset < i /\ i <= m.offset + Len(m.data)
          BY <2>0, <3>2, <3>3, <3>4, <4>2
        <5>2. o[i] = m.data[i - m.offset]
          BY <3>2, <5>1
        <5> QED BY <2>0, <3>2, <3>5, <4>1, <4>2, <5>1, <5>2
      <4>3. CASE ~Covers(m, f, k)
        <5>1. p.offset < Len(old) /\ old[i] = b
          BY <2>3, <3>6, <4>3
        <5>2. i \in 1 .. Len(o) /\ i <= Len(old)
              /\ ~(m.offset < i /\ i <= m.offset + Len(m.data))
          BY <2>0, <3>2, <3>3, <3>4, <4>3, <5>1
        <5>3. o[i] = old[i]
          BY <3>2, <5>2
        <5> QED BY <2>0, <3>2, <3>3, <5>1, <5>2, <5>3
      <4> QED BY <4>2, <4>3
    <3>8. StoredAt(j, f, k)'
      BY <1>1, <2>3, <3>1, <3>7 DEF StoredAt, p, b
    <3> QED BY <3>8 DEF Due
  <2>4. CASE j = n /\ StoredAt(j, f, k) /\ m.chunk # p.chunk
    <3>1. p.chunk \in DOMAIN store'[n] /\ store'[n][p.chunk] = store[n][p.chunk]
      <4>1. p.chunk \in DOMAIN store[n]
        BY <2>4 DEF StoredAt
      <4> QED BY <1>4, <1>7, <2>4, <4>1 DEF Ops, Add, Drop
    <3>2. StoredAt(j, f, k)'
      BY <1>1, <2>4, <3>1 DEF StoredAt
    <3> QED BY <3>2 DEF Due
  <2>5. CASE j = n /\ StoredAt(j, f, k) /\ m.op = "read"
    <3>1. StoredAt(j, f, k)'
      BY <1>1, <1>7, <2>5 DEF StoredAt
    <3> QED BY <3>1 DEF Due
  <2>6. ~(m.op = "delete" /\ m.chunk = p.chunk)
    <3> SUFFICES ASSUME m.op = "delete", m.chunk = p.chunk PROVE FALSE
      OBVIOUS
    <3>1. m.id \in DOMAIN active_deletes
      BY <1>3, OpOn DEF Known
    <3>2. active_deletes[m.id].file = f
      BY <1>3, <2>0, <3>1 DEF Traced, FilesOfMessages
    <3> QED BY <3>1, <3>2 DEF Deleting
  <2>7. StoredAt(j, f, k) \/ \E x : On(to_node, j, x) /\ Covers(x, f, k)
    BY <1>10 DEF Due
  <2>8. (\E x : On(to_node, j, x) /\ Covers(x, f, k)) =>
            \/ \E x : On(to_node', j, x) /\ Covers(x, f, k)
            \/ j = n /\ Covers(m, f, k)
    BY <1>3
  <2>9. Covers(m, f, k) => m.op = "write" /\ m.chunk = p.chunk
    BY DEF Covers
  <2> HIDE DEF p
  <2> QED BY <1>4, <2>1, <2>2, <2>3, <2>4, <2>5, <2>6, <2>7, <2>8, <2>9 DEF Ops
<1>11. CopiesDue'
  <2>1. DOMAIN content' \ Deleting' = DOMAIN content \ Deleting
        /\ \A f : Bytes(f)' = Bytes(f)
    BY <1>1 DEF Deleting, Bytes
  <2> QED BY <1>1, <1>10, <2>1 DEF CopiesDue
<1> QED BY <1>8, <1>9, <1>11

\* Handlers that send no write and leave the files: what they forget is of files
\* that are being deleted.
LEMMA SendsData ==
    ASSUME WritesTrue, CopiesDue, StoresListed, UNCHANGED <<content, store>>,
           \A n \in Nodes : \A m : On(to_node, n, m) => On(to_node', n, m),
           \A n \in Nodes : \A m :
              On(to_node', n, m) /\ m.op = "write" => On(to_node, n, m),
           \A f : f \in Deleting => f \in Deleting',
           \A ch \in DOMAIN chunk_to_node :
              ch \in DOMAIN chunk_to_node' \/ ch[1] \in Deleting',
           \A n, ch : Entered(chunk_to_node', chunk_to_replica_node', n, ch) =>
                         Entered(chunk_to_node, chunk_to_replica_node, n, ch)
    PROVE  WritesTrue' /\ CopiesDue' /\ StoresListed'
<1>1. WritesTrue'
  BY DEF WritesTrue, Bytes
<1>2. StoresListed'
  BY DEF StoresListed
<1>3. ASSUME NEW f \in DOMAIN content' \ Deleting', NEW k \in Bytes(f)',
             content'[f][k + 1] # Junk
      PROVE  LET ch == PlaceOf(f, k).chunk
             IN  /\ ch \in DOMAIN chunk_to_node'
                 /\ \A n \in Nodes :
                       Entered(chunk_to_node', chunk_to_replica_node', n, ch)
                       => Due(n, f, k)'
  <2> DEFINE ch == PlaceOf(f, k).chunk
  <2>1. /\ f \in DOMAIN content \ Deleting /\ k \in Bytes(f)
        /\ content[f][k + 1] # Junk
    BY <1>3 DEF Bytes
  <2>2. ch[1] = f
    BY DEF PlaceOf
  <2>3. /\ ch \in DOMAIN chunk_to_node
        /\ \A n \in Nodes :
              Entered(chunk_to_node, chunk_to_replica_node, n, ch) => Due(n, f, k)
    BY <2>1 DEF CopiesDue
  <2> HIDE DEF ch
  <2>4. \A n \in Nodes : Due(n, f, k) => Due(n, f, k)'
    BY DEF Due, StoredAt
  <2>5. /\ ch \in DOMAIN chunk_to_node'
        /\ \A n \in Nodes :
              Entered(chunk_to_node', chunk_to_replica_node', n, ch) => Due(n, f, k)'
    BY <1>3, <2>2, <2>3, <2>4
  <2> QED BY <2>5 DEF ch
<1>4. CopiesDue'
  BY <1>3 DEF CopiesDue
<1> QED BY <1>1, <1>2, <1>4

\* A read.
LEMMA ReadData ==
    ASSUME NetInv, MapsInv, AllUp, NEW c, NEW fd, NEW count \in Nat,
           ReadSent(c, fd, count), ~Crash, file_cursors[fd].offset \in Nat,
           WritesTrue, CopiesDue, StoresListed
    PROVE  WritesTrue' /\ CopiesDue' /\ StoresListed'
<1>1. /\ UNCHANGED <<chunk_to_node, chunk_to_replica_node, store, active_deletes,
                     content>>
      /\ \A k \in Nodes : \A x : On(to_node, k, x) => On(to_node', k, x)
      /\ \A k \in Nodes : \A x : On(to_node', k, x) =>
            On(to_node, k, x) \/ x.op = "read"
  BY ReadSentOn
<1>2. Deleting' = Deleting
  BY <1>1 DEF Deleting
<1> QED BY <1>1, <1>2, SendsData

\* A delete: nothing is said any more of its file.
LEMMA DeleteData ==
    ASSUME KeysDiffer, UsersInv, Sizes, NetInv, MapsInv, MapsAgree, AllUp, NEW c,
           NEW path, DeleteSent(c, path), ~Crash,
           WritesTrue, CopiesDue, StoresListed
    PROVE  WritesTrue' /\ CopiesDue' /\ StoresListed'
<1> DEFINE id == request_id + 1
           file == pathname_to_file_id[path]
<1>1. /\ UNCHANGED <<store, content>>
      /\ \E r : r.file = file /\ active_deletes' = Add(active_deletes, id, r)
      /\ DOMAIN chunk_to_replica_node' = DOMAIN chunk_to_node'
      /\ \A k \in DOMAIN chunk_to_node' :
            /\ k \in DOMAIN chunk_to_node
            /\ chunk_to_node'[k] = chunk_to_node[k]
            /\ chunk_to_replica_node'[k] = chunk_to_replica_node[k]
      /\ \A k \in DOMAIN chunk_to_node \ DOMAIN chunk_to_node' : k[1] = file
      /\ \A k \in Nodes : \A x : On(to_node, k, x) => On(to_node', k, x)
      /\ \A k \in Nodes : \A x : On(to_node', k, x) =>
            On(to_node, k, x) \/ \E ch : x = DeleteMsg(id, ch) /\ ch[1] = file
  BY DeleteSentOn
<1>2. PICK r : r.file = file /\ active_deletes' = Add(active_deletes, id, r)
  BY <1>1
<1>3. id \notin DOMAIN active_deletes
  <2>1. request_id \in Nat /\ DOMAIN active_deletes \subseteq 1 .. request_id
    BY DEF UsersInv, Numbers
  <2> QED BY <2>1
<1> HIDE DEF id, file
<1>4. (\A f : f \in Deleting => f \in Deleting') /\ file \in Deleting'
  BY <1>2, <1>3 DEF Deleting, Add
<1>5. \A n, ch : Entered(chunk_to_node', chunk_to_replica_node', n, ch) =>
                    Entered(chunk_to_node, chunk_to_replica_node, n, ch)
  BY <1>1 DEF Entered, MapsAgree
<1>6. \A n \in Nodes : \A m :
          On(to_node', n, m) /\ m.op = "write" => On(to_node, n, m)
  BY <1>1 DEF DeleteMsg
<1>7. \A ch \in DOMAIN chunk_to_node :
          ch \in DOMAIN chunk_to_node' \/ ch[1] \in Deleting'
  BY <1>1, <1>4
<1> QED BY <1>1, <1>4, <1>5, <1>6, <1>7, SendsData

\* A piece of a buffer.
LEMMA PieceData ==
    ASSUME NEW id, NEW from \in Nat, NEW count \in Nat
    PROVE  LET d == SubSeq(Buffer(id, from + count), from + 1, from + count)
           IN  /\ Listed(d) /\ Len(d) = count
               /\ \A j \in 1 .. count : d[j] = <<id, from + j>>
<1> DEFINE n == from + count
           b == Buffer(id, n)
           d == SubSeq(b, from + 1, n)
           T == {b[i] : i \in 1 .. n}
<1>1. n \in Nat /\ from <= n
  OBVIOUS
<1>2. b = [i \in 1 .. n |-> <<id, i>>]
  BY DEF Buffer
<1> HIDE DEF b
<1>3. b \in [1 .. n -> T] /\ \A i \in 1 .. n : b[i] = <<id, i>>
  BY <1>2
<1> HIDE DEF n, T
<1>4. b \in Seq(T) /\ Len(b) = n
  BY <1>1, <1>3
<1>5. from + 1 \in 1 .. n + 1 /\ n \in from .. Len(b)
  BY <1>1, <1>4
<1>6. d \in Seq(T)
  BY <1>1, <1>4, <1>5
<1>7. Len(d) = count /\ \A j \in 1 .. count : d[j] = b[from + j]
  <2>1. from + 1 \in Int /\ n \in Int /\ n - (from + 1) + 1 = count /\ count \in Nat
    BY <1>1 DEF n
  <2>2. Len(d) = count
    BY <1>1, <1>4, <1>5, <2>1
  <2>3. ASSUME NEW j \in 1 .. count PROVE d[j] = b[from + j]
    <3>1. (from + 1) + j - 1 = from + j
      OBVIOUS
    <3>2. d[j] = b[(from + 1) + j - 1]
      BY <1>1, <1>4, <1>5, <2>1
    <3> QED BY <3>1, <3>2
  <2> QED BY <2>2, <2>3
<1>8. \A j \in 1 .. count : from + j \in 1 .. n
  BY DEF n
<1> HIDE DEF d
<1>9. Listed(d) /\ Len(d) = count /\ \A j \in 1 .. count : d[j] = <<id, from + j>>
  BY <1>3, <1>6, <1>7, <1>8 DEF Listed
<1> QED BY <1>9 DEF d, b, n

\* The message x has the bytes of the write of total bytes at o that its piece s
\* is of, and no others.
Brings(x, id, file, o, total, s) ==
    /\ x.op = "write" /\ x.chunk[1] = file
    /\ x.offset \in Nat /\ Listed(x.data)
    /\ \A k \in Nat : Covers(x, file, k) =>
          /\ o <= k /\ k < o + total
          /\ ByteIn(x, file, k) = <<id, k - o + 1>>
    /\ \A d \in 0 .. s.count - 1 : Covers(x, file, o + s.from + d)

\* The messages of a write do.
LEMMA PieceBytes ==
    ASSUME NEW id, NEW file, NEW o \in Nat, NEW total \in Nat,
           NEW s \in GoodSpans(StripeSize, ChunkSize, o, total),
           NEW x, IsPiece(x, id, file, s)
    PROVE  Brings(x, id, file, o, total, s)
<1>1. /\ StripeSize \in Nat /\ StripeSize # 0 /\ ChunkSize \in Nat /\ ChunkSize # 0
  BY SizesAssumption
<1>2. /\ s.from \in Nat /\ s.count \in Nat /\ s.offset \in Nat
      /\ s.from + s.count <= total
  BY DEF GoodSpans
<1>3. /\ x.op = "write" /\ x.chunk = <<file, s.stripe, s.chunk>>
      /\ x.offset = s.offset
      /\ Listed(x.data) /\ Len(x.data) = s.count
      /\ \A j \in 1 .. s.count : x.data[j] = <<id, s.from + j>>
  <2> DEFINE from == s.from
             count == s.count
             d == SubSeq(Buffer(id, from + count), from + 1, from + count)
  <2>1. x.data = d
    BY DEF IsPiece
  <2> HIDE DEF from, count
  <2>2. Listed(d) /\ Len(d) = count /\ \A j \in 1 .. count : d[j] = <<id, from + j>>
    BY <1>2, PieceData DEF from, count
  <2> HIDE DEF d
  <2> QED BY <2>1, <2>2 DEF IsPiece, from, count
<1>4. ASSUME NEW k \in Nat, Covers(x, file, k)
      PROVE  /\ o <= k /\ k < o + total
             /\ ByteIn(x, file, k) = <<id, k - o + 1>>
  <2> DEFINE e == (k % StripeSize) % ChunkSize
  <2>1. /\ k \div StripeSize + 1 = s.stripe
        /\ (k % StripeSize) \div ChunkSize + 1 = s.chunk
        /\ s.offset <= e /\ e < s.offset + s.count
    BY <1>3, <1>4 DEF Covers, PlaceOf
  <2>2. k = o + s.from + (e - s.offset)
    BY <1>1, <2>1, PlaceInSpan
  <2>3. e \in Nat
    <3> DEFINE r == k % StripeSize
    <3>1. r \in Nat
      BY <1>1
    <3> HIDE DEF r
    <3>2. r % ChunkSize \in Nat
      BY <1>1, <3>1
    <3> QED BY <3>2 DEF r
  <2>4. ByteIn(x, file, k) = x.data[e - s.offset + 1]
    BY <1>3 DEF ByteIn, PlaceOf
  <2> HIDE DEF e
  <2>5. /\ e - s.offset + 1 \in 1 .. s.count
        /\ s.from + (e - s.offset + 1) = k - o + 1
        /\ o <= k /\ k < o + total
    BY <1>2, <2>1, <2>2, <2>3
  <2> QED BY <1>3, <2>4, <2>5
<1>5. ASSUME NEW d \in 0 .. s.count - 1 PROVE Covers(x, file, o + s.from + d)
  <2> DEFINE k == o + s.from + d
  <2>1. Place(StripeSize, ChunkSize, k) = <<s.stripe, s.chunk, s.offset + d>>
    BY <1>1, SpanByte
  <2> HIDE DEF k
  <2>2. /\ PlaceOf(file, k).chunk = <<file, s.stripe, s.chunk>>
        /\ PlaceOf(file, k).offset = s.offset + d
    BY <2>1 DEF Place, PlaceOf
  <2>3. s.offset <= s.offset + d /\ s.offset + d < s.offset + s.count
    BY <1>2
  <2> QED BY <1>3, <2>2, <2>3 DEF Covers, k
<1> QED BY <1>2, <1>3, <1>4, <1>5 DEF Brings

\* A write: every byte it asks for is on its way to both nodes of its chunk, and
\* no other write of the file is on its way that could bring an older one.
LEMMA WriteData ==
    ASSUME KeysDiffer, UsersInv, Sizes, NetInv, MapsInv, barista_up, AllUp, Traced,
           RequestsIsolated', NEW c, ~Waiting(c), NEW fd, NEW count \in Nat,
           WriteSent(c, fd, count), ~Crash, file_cursors[fd].offset \in Nat,
           WritesTrue, CopiesDue, StoresListed, Listed(content[FileOf(fd)])
    PROVE  WritesTrue' /\ CopiesDue' /\ StoresListed'
<1>0. PICK file : file = FileOf(fd)
  OBVIOUS
<1> DEFINE id == request_id + 1
           o == file_cursors[fd].offset
           seq == Spans(StripeSize, ChunkSize, o, count)
           G == GoodSpans(StripeSize, ChunkSize, o, count)
           old == content[file]
           new == Overlay(old, o, Buffer(id, count))
<1>1. /\ UNCHANGED <<store, active_deletes>>
      /\ \E r : /\ r.client = c /\ r.file = file
                /\ active_writes' = Add(active_writes, id, r)
      /\ DOMAIN chunk_to_replica_node' = DOMAIN chunk_to_node'
      /\ \A k \in DOMAIN chunk_to_node :
            /\ k \in DOMAIN chunk_to_node'
            /\ chunk_to_node'[k] = chunk_to_node[k]
            /\ chunk_to_replica_node'[k] = chunk_to_replica_node[k]
      /\ \A k \in Nodes : \A x : On(to_node, k, x) => On(to_node', k, x)
      /\ content' = [content EXCEPT ![file] = new]
      /\ \A k \in Nodes : \A x : On(to_node', k, x) =>
            On(to_node, k, x) \/ \E i \in DOMAIN seq : IsPiece(x, id, file, seq[i])
      /\ \A i \in DOMAIN seq :
            LET ch == <<file, seq[i].stripe, seq[i].chunk>>
            IN  /\ ch \in DOMAIN chunk_to_node'
                /\ \A n \in Nodes :
                      Entered(chunk_to_node', chunk_to_replica_node', n, ch) =>
                         \E x : On(to_node', n, x) /\ IsPiece(x, id, file, seq[i])
  BY <1>0, WriteSentOn DEF Traced
<1>2. /\ seq \in Seq(G) /\ Tiles(seq, 0, count)
      /\ StripeSize \in Nat /\ StripeSize # 0 /\ ChunkSize \in Nat /\ ChunkSize # 0
  BY SizesAssumption, SpansRun
<1>3. \A i \in DOMAIN seq : seq[i] \in G
  <2> HIDE DEF seq, G
  <2> QED BY <1>2
<1>4. \A x \in G : x.from \in Nat /\ x.count \in Nat
  BY DEF GoodSpans
<1>5. /\ o \in Nat
      /\ \A i \in DOMAIN seq : \A x : IsPiece(x, id, file, seq[i]) =>
            Brings(x, id, file, o, count, seq[i])
  <2> HIDE DEF seq, id
  <2> QED BY <1>3, PieceBytes
<1>6. /\ Listed(new) /\ Len(new) \in Nat /\ Len(old) \in Nat
      /\ \A k \in 0 .. Len(new) - 1 :
            /\ o <= k /\ k < o + count => new[k + 1] = <<id, k - o + 1>>
            /\ ~(o <= k /\ k < o + count) =>
                  new[k + 1] = IF k + 1 <= Len(old) THEN old[k + 1] ELSE Junk
  <2> DEFINE b == Buffer(id, count)
  <2>1. Listed(b) /\ Len(b) = count /\ \A i \in 1 .. count : b[i] = <<id, i>>
    <3> DEFINE d == SubSeq(Buffer(id, 0 + count), 0 + 1, 0 + count)
    <3>1. DOMAIN b = 1 .. count /\ b = [i \in 1 .. count |-> b[i]]
          /\ \A i \in 1 .. count : b[i] = <<id, i>>
      BY DEF Buffer
    <3> HIDE DEF b
    <3> QED BY <3>1, ListedFunction
  <2>2. Listed(old) /\ o \in Nat
    BY <1>0
  <2> HIDE DEF b, old, o
  <2>3. /\ Listed(new)
        /\ \A i \in 1 .. Len(new) :
              new[i] = IF o < i /\ i <= o + Len(b) THEN b[i - o]
                       ELSE IF i <= Len(old) THEN old[i]
                       ELSE Junk
    BY <2>1, <2>2, OverlayListed DEF b
  <2> HIDE DEF new
  <2>4. Len(new) \in Nat /\ Len(old) \in Nat
    BY <2>2, <2>3, ListedIs
  <2>5. ASSUME NEW k \in 0 .. Len(new) - 1
        PROVE  /\ o <= k /\ k < o + count => new[k + 1] = <<id, k - o + 1>>
               /\ ~(o <= k /\ k < o + count) =>
                     new[k + 1] = IF k + 1 <= Len(old) THEN old[k + 1] ELSE Junk
    <3> DEFINE i == k + 1
    <3>1. i \in 1 .. Len(new)
          /\ (o <= k /\ k < o + count <=> o < i /\ i <= o + count)
          /\ i - o = k - o + 1
      BY <2>2, <2>4
    <3>2. o < i /\ i <= o + count => i - o \in 1 .. count
      BY <2>2, <3>1
    <3> HIDE DEF i
    <3>3. /\ o < i /\ i <= o + count => new[i] = <<id, i - o>>
          /\ ~(o < i /\ i <= o + count) =>
                new[i] = IF i <= Len(old) THEN old[i] ELSE Junk
      BY <2>1, <2>3, <3>1, <3>2
    <3> QED BY <3>1, <3>3 DEF i
  <2> QED BY <2>3, <2>4, <2>5
<1>7. ASSUME NEW n \in Nodes, NEW m, On(to_node, n, m), m.op = "write", m.chunk[1] = file
      PROVE  FALSE
  <2>1. WriteLookup(m.id) # {}
    <3>1. Known("write", m.id)
      BY <1>7, OpOn
    <3> QED BY <3>1 DEF Known
  <2>2. PICK i \in DOMAIN active_writes : active_writes[i].file = file
    BY <1>7, <2>1 DEF Traced, FilesOfMessages, WriteLookup
  <2>3. PICK r : r.client = c /\ r.file = file /\ active_writes' = Add(active_writes, id, r)
    BY <1>1
  <2>4. i # id
    <3>1. request_id \in Nat /\ i \in 1 .. request_id
      BY DEF UsersInv, Numbers
    <3> QED BY <3>1
  <2> HIDE DEF id
  <2>5. /\ i \in DOMAIN active_writes' /\ active_writes'[i] = active_writes[i]
        /\ id \in DOMAIN active_writes' /\ active_writes'[id] = r
    BY <2>3, <2>4 DEF Add
  <2> DEFINE x == [client |-> active_writes[i].client, file |-> file]
             y == [client |-> c, file |-> file]
  <2>6. x \in UnderWay' /\ y \in UnderWay'
    BY <2>2, <2>3, <2>5 DEF UnderWay
  <2>7. active_writes[i].client = c
    BY <2>6 DEF RequestsIsolated
  <2> QED BY <2>7 DEF Waiting
<1> HIDE DEF id, o, seq, G, old, new
<1>8. /\ DOMAIN content' = DOMAIN content
      /\ \A f \in DOMAIN content : content'[f] = IF f = file THEN new ELSE content[f]
  BY <1>1
<1>9. \A f \in DOMAIN content : \A k :
          /\ f # file => (k \in Bytes(f)' <=> k \in Bytes(f))
          /\ f = file => (k \in Bytes(f)' <=> k \in 0 .. Len(new) - 1)
          /\ f = file => (k \in Bytes(f) <=> k \in 0 .. Len(old) - 1)
  BY <1>8 DEF Bytes, old
<1>10. \A m, f, k : Covers(m, f, k) => m.op = "write" /\ m.chunk[1] = f
  BY DEF Covers, PlaceOf
<1>11. WritesTrue'
  <2> SUFFICES ASSUME NEW n \in Nodes, NEW m, On(to_node', n, m), m.op = "write"
               PROVE  /\ m.offset \in Nat /\ Listed(m.data)
                      /\ \A f \in DOMAIN content' : \A k \in Bytes(f)' :
                            Covers(m, f, k) => ByteIn(m, f, k) = content'[f][k + 1]
    BY DEF WritesTrue
  <2>1. CASE On(to_node, n, m)
    <3>1. /\ m.offset \in Nat /\ Listed(m.data)
          /\ \A f \in DOMAIN content : \A k \in Bytes(f) :
                Covers(m, f, k) => ByteIn(m, f, k) = content[f][k + 1]
      BY <2>1 DEF WritesTrue
    <3>2. m.chunk[1] # file
      BY <1>7, <2>1
    <3> QED BY <1>8, <1>9, <1>10, <3>1, <3>2
  <2>2. ASSUME NEW i \in DOMAIN seq, IsPiece(m, id, file, seq[i])
        PROVE  /\ m.offset \in Nat /\ Listed(m.data)
               /\ \A f \in DOMAIN content' : \A k \in Bytes(f)' :
                     Covers(m, f, k) => ByteIn(m, f, k) = content'[f][k + 1]
    <3>1. /\ m.chunk[1] = file /\ m.offset \in Nat /\ Listed(m.data)
          /\ \A k \in Nat : Covers(m, file, k) =>
                /\ o <= k /\ k < o + count
                /\ ByteIn(m, file, k) = <<id, k - o + 1>>
      BY <1>5, <2>2 DEF Brings
    <3>2. ASSUME file \in DOMAIN content, NEW k \in Bytes(file)', Covers(m, file, k)
          PROVE  ByteIn(m, file, k) = content'[file][k + 1]
      <4>1. k \in 0 .. Len(new) - 1 /\ content'[file] = new
        BY <1>8, <1>9, <3>2
      <4>2. k \in Nat
        BY <4>1, <1>6
      <4> QED BY <1>6, <3>1, <3>2, <4>1, <4>2
    <3> QED BY <1>8, <1>10, <3>1, <3>2
  <2> QED BY <1>1, <2>1, <2>2
<1>12. StoresListed'
  BY <1>1 DEF StoresListed
<1>13. \A n, ch : ch \in DOMAIN chunk_to_node =>
           (Entered(chunk_to_node', chunk_to_replica_node', n, ch) <=>
            Entered(chunk_to_node, chunk_to_replica_node, n, ch))
  BY <1>1 DEF Entered, Traced, MapsAgree
<1>14. ASSUME NEW f \in DOMAIN content \ Deleting, NEW k \in Bytes(f),
              content[f][k + 1] # Junk, content'[f][k + 1] = content[f][k + 1]
       PROVE  LET ch == PlaceOf(f, k).chunk
              IN  /\ ch \in DOMAIN chunk_to_node'
                  /\ \A n \in Nodes :
                        Entered(chunk_to_node', chunk_to_replica_node', n, ch)
                        => Due(n, f, k)'
  <2> DEFINE ch == PlaceOf(f, k).chunk
  <2>1. /\ ch \in DOMAIN chunk_to_node
        /\ \A n \in Nodes :
              Entered(chunk_to_node, chunk_to_replica_node, n, ch) => Due(n, f, k)
    BY <1>14 DEF CopiesDue
  <2>2. \A n \in Nodes : Due(n, f, k) => Due(n, f, k)'
    BY <1>1, <1>14 DEF Due, StoredAt
  <2> HIDE DEF ch
  <2>3. /\ ch \in DOMAIN chunk_to_node'
        /\ \A n \in Nodes :
              Entered(chunk_to_node', chunk_to_replica_node', n, ch) => Due(n, f, k)'
    BY <1>1, <1>13, <2>1, <2>2
  <2> QED BY <2>3 DEF ch
<1>15. ASSUME NEW k \in Nat, o <= k, k < o + count
       PROVE  LET ch == PlaceOf(file, k).chunk
              IN  /\ ch \in DOMAIN chunk_to_node'
                  /\ \A n \in Nodes :
                        Entered(chunk_to_node', chunk_to_replica_node', n, ch)
                        => Due(n, file, k)'
  <2> DEFINE p == k - o
             ch == PlaceOf(file, k).chunk
  <2>1. p \in 0 .. count - 1 /\ k = o + p
    BY <1>5, <1>15
  <2> HIDE DEF p
  <2>2. PICK i \in DOMAIN seq : seq[i].from <= p /\ p < seq[i].from + seq[i].count
    BY <1>2, <1>4, <2>1, TilesCover
  <2> DEFINE s == seq[i]
             d == p - s.from
  <2>3. s \in G /\ s.from \in Nat /\ s.count \in Nat
    BY <1>3, <1>4
  <2>4. d \in 0 .. s.count - 1 /\ k = o + s.from + d
    <3> DEFINE from == s.from
               n == s.count
    <3>1. from \in Nat /\ n \in Nat /\ from <= p /\ p < from + n
      BY <2>2, <2>3
    <3> HIDE DEF from, n, s
    <3>2. p - from \in 0 .. n - 1 /\ k = o + from + (p - from)
      BY <1>5, <2>1, <3>1
    <3> QED BY <3>2 DEF from, n
  <2>5. ch = <<file, s.stripe, s.chunk>>
    <3>1. Place(StripeSize, ChunkSize, k) = <<s.stripe, s.chunk, s.offset + d>>
      <4> HIDE DEF d, s
      <4>1. s \in GoodSpans(StripeSize, ChunkSize, o, count)
        BY <2>3 DEF G
      <4> QED BY <1>2, <1>5, <2>4, <4>1, SpanByte
    <3> HIDE DEF s, d
    <3> QED BY <3>1 DEF Place, PlaceOf
  <2>6. /\ ch \in DOMAIN chunk_to_node'
        /\ \A n \in Nodes :
              Entered(chunk_to_node', chunk_to_replica_node', n, ch) =>
                 \E x : On(to_node', n, x) /\ IsPiece(x, id, file, s)
    BY <1>1, <2>5
  <2>7. \A x : IsPiece(x, id, file, s) => Covers(x, file, k)
    BY <1>5, <2>4 DEF Brings
  <2> HIDE DEF ch, s
  <2>8. /\ ch \in DOMAIN chunk_to_node'
        /\ \A n \in Nodes :
              Entered(chunk_to_node', chunk_to_replica_node', n, ch) => Due(n, file, k)'
    BY <2>6, <2>7 DEF Due, Covers, PlaceOf
  <2> QED BY <2>8 DEF ch
<1>16. CopiesDue'
  <2> SUFFICES ASSUME NEW f \in DOMAIN content' \ Deleting', NEW k \in Bytes(f)',
                      content'[f][k + 1] # Junk
               PROVE  LET ch == PlaceOf(f, k).chunk
                      IN  /\ ch \in DOMAIN chunk_to_node'
                          /\ \A n \in Nodes :
                                Entered(chunk_to_node', chunk_to_replica_node', n, ch)
                                => Due(n, f, k)'
    BY DEF CopiesDue
  <2>1. f \in DOMAIN content \ Deleting
    BY <1>1, <1>8 DEF Deleting
  <2>2. CASE f # file
    BY <1>8, <1>9, <1>14, <2>1, <2>2
  <2>3. CASE f = file /\ o <= k /\ k < o + count
    <3>1. k \in Nat
      BY <1>6, <1>9, <2>1, <2>3
    <3> QED BY <1>15, <2>3, <3>1
  <2>4. CASE f = file /\ ~(o <= k /\ k < o + count)
    <3>1. k \in 0 .. Len(new) - 1 /\ content'[f] = new
      BY <1>8, <1>9, <2>1, <2>4
    <3>2. k + 1 <= Len(old) /\ content'[f][k + 1] = old[k + 1]
      BY <1>6, <2>4, <3>1
    <3>3. k \in Bytes(f) /\ content[f] = old
      <4>1. k \in 0 .. Len(old) - 1
        BY <1>6, <3>1, <3>2
      <4> QED BY <1>9, <2>1, <2>4, <4>1 DEF old
    <3> QED BY <1>14, <2>1, <3>2, <3>3
  <2> QED BY <2>2, <2>3, <2>4
<1> QED BY <1>11, <1>12, <1>16

\* A read or write that is sent has a file and a position.
LEMMA SentCursor ==
    ASSUME Sizes, NEW c, NEW fd, NEW count, ReadSent(c, fd, count) \/ WriteSent(c, fd, count)
    PROVE  FileOf(fd) \in DOMAIN metadata /\ file_cursors[fd].offset \in Nat
<1>1. FileOf(fd) \in DOMAIN metadata
  <2>1. CASE ReadSent(c, fd, count)
    <3>1. ReadVerdict(c, fd, count) = Proceed
      BY <2>1 DEF ReadSent
    <3> QED BY <3>1 DEF ReadVerdict, Proceed, FILE_NOT_OPEN_FOR_READ, UNABLE_TO_STAT_FILE
  <2>2. CASE WriteSent(c, fd, count)
    <3>1. WriteVerdict(c, fd, count) = Proceed
      BY <2>2 DEF WriteSent
    <3> QED BY <3>1 DEF WriteVerdict, Proceed, FILE_NOT_OPEN_FOR_WRITE, UNABLE_TO_STAT_FILE
  <2> QED BY <2>1, <2>2
<1>2. fd \in DOMAIN file_cursors
  BY <1>1 DEF Sizes, FilesGood, FileOf
<1> QED BY <1>1, <1>2 DEF Sizes, CursorsGood

\* Steps of a client.
LEMMA CallData ==
    ASSUME KeysDiffer, UsersInv, Sizes, NetInv, MapsInv, AllUp, Traced,
           RequestsIsolated', barista_up', NEW c \in Procs, ClientCall(c),
           ContentListed, WritesTrue, CopiesDue, StoresListed
    PROVE  WritesTrue' /\ CopiesDue' /\ StoresListed'
<1>0. barista_up /\ ~Waiting(c) /\ ~Crash
  BY DEF ClientCall, Crash
<1>1. ASSUME UNCHANGED <<maps, requests, network, machines>>,
             \A f \in DOMAIN content' :
                content'[f] = <<>> \/ (f \in DOMAIN content /\ content'[f] = content[f])
      PROVE  WritesTrue' /\ CopiesDue' /\ StoresListed'
  <2>1. Deleting' = Deleting
    BY <1>1 DEF Deleting, requests
  <2> QED BY <1>1, <2>1, QuietData DEF network, machines
<1>2. ASSUME UNCHANGED <<maps, requests, network, machines, content>>
      PROVE  WritesTrue' /\ CopiesDue' /\ StoresListed'
  BY <1>1, <1>2
<1>3. ASSUME NEW path, file_storage_stat(c, path)
      PROVE  WritesTrue' /\ CopiesDue' /\ StoresListed'
  BY <1>2, <1>3 DEF file_storage_stat
<1>4. ASSUME NEW path, NEW flags, open_file(c, path, flags)
      PROVE  WritesTrue' /\ CopiesDue' /\ StoresListed'
  <2>1. UNCHANGED content \/ content' = Add(content, get_new_file_id, <<>>)
    BY <1>4 DEF open_file, OpenMissing, OpenInUse, OpenExisting, OpenNew
  <2>2. \A f \in DOMAIN content' :
            content'[f] = <<>> \/ (f \in DOMAIN content /\ content'[f] = content[f])
    BY <2>1 DEF Add
  <2>3. UNCHANGED <<maps, requests, network, machines>>
    BY <1>4 DEF open_file
  <2> QED BY <1>1, <2>2, <2>3
<1>5. ASSUME NEW fd, close_file(c, fd)
      PROVE  WritesTrue' /\ CopiesDue' /\ StoresListed'
  BY <1>2, <1>5 DEF close_file
<1>6. ASSUME NEW fd, NEW whence, NEW o, file_seek(c, fd, whence, o)
      PROVE  WritesTrue' /\ CopiesDue' /\ StoresListed'
  BY <1>2, <1>6 DEF file_seek
<1>7. ASSUME NEW path, delete_file(c, path)
      PROVE  WritesTrue' /\ CopiesDue' /\ StoresListed'
  <2>1. CASE DeleteRefused(c, path)
    BY <1>2, <2>1 DEF DeleteRefused
  <2>2. CASE DeleteSent(c, path)
    BY <1>0, <2>2, DeleteData DEF Traced
  <2> QED BY <1>7, <2>1, <2>2 DEF delete_file
<1>8. ASSUME NEW fd, NEW count \in Nat, read_file(c, fd, count)
      PROVE  WritesTrue' /\ CopiesDue' /\ StoresListed'
  <2>1. CASE ReadRefused(c, fd, count)
    BY <1>2, <2>1 DEF ReadRefused
  <2>2. CASE ReadSent(c, fd, count)
    <3>1. file_cursors[fd].offset \in Nat
      BY <2>2, SentCursor
    <3> QED BY <1>0, <2>2, <3>1, ReadData
  <2> QED BY <1>0, <1>8, <2>1, <2>2 DEF read_file
<1>9. ASSUME NEW fd, NEW count \in Nat, write_file(c, fd, count)
      PROVE  WritesTrue' /\ CopiesDue' /\ StoresListed'
  <2>1. CASE WriteRefused(c, fd, count)
    BY <1>2, <2>1 DEF WriteRefused
  <2>2. CASE WriteSent(c, fd, count)
    <3>1. FileOf(fd) \in DOMAIN metadata /\ file_cursors[fd].offset \in Nat
      BY <2>2, SentCursor
    <3>2. Listed(content[FileOf(fd)])
      BY <3>1 DEF ContentListed
    <3> QED BY <1>0, <2>2, <3>1, <3>2, WriteData
  <2> QED BY <1>0, <1>9, <2>1, <2>2 DEF write_file
<1>10. Counts \subseteq Nat
  BY SizesAssumption
<1> QED BY <1>3, <1>4, <1>5, <1>6, <1>7, <1>8, <1>9, <1>10 DEF ClientCall

\* Answers of nodes.
LEMMA AnswerData ==
    ASSUME UsersInv, NEW n \in Nodes, NodeAnswer(n),
           WritesTrue, CopiesDue, StoresListed
    PROVE  WritesTrue' /\ CopiesDue' /\ StoresListed'
<1>1. CASE read_response_handler(n) \/ write_response_handler(n)
  <2>1. UNCHANGED <<maps, to_node, store, content, active_deletes>>
    BY <1>1 DEF read_response_handler, write_response_handler, Taken, machines
  <2>2. Deleting' = Deleting
    BY <2>1 DEF Deleting
  <2> QED BY <2>1, <2>2, QuietData
<1>2. CASE delete_response_handler(n)
  <2> DEFINE m == Head(from_node[n])
             d == [active_deletes[m.id] EXCEPT !.received = @ + 1]
  <2>1. /\ UNCHANGED <<maps, to_node, store>>
        /\ m.id \in DOMAIN active_deletes /\ DeleteComplete(m.id, d)
    BY <1>2 DEF delete_response_handler, Taken, machines
  <2>2. d.file = active_deletes[m.id].file
    BY <2>1 DEF UsersInv, AllOwned, Owned
  <2> HIDE DEF m, d
  <2>3. \/ UNCHANGED content /\ active_deletes' = Add(active_deletes, m.id, d)
        \/ /\ content' = Drop(content, d.file)
           /\ active_deletes' = Drop(active_deletes, m.id)
    BY <2>1 DEF DeleteComplete
  <2>4. \A f \in DOMAIN content' :
            /\ f \in DOMAIN content /\ content'[f] = content[f]
            /\ f \in Deleting => f \in Deleting'
    <3>1. CASE UNCHANGED content /\ active_deletes' = Add(active_deletes, m.id, d)
      BY <2>1, <2>2, <3>1 DEF Deleting, Add
    <3>2. CASE /\ content' = Drop(content, d.file)
               /\ active_deletes' = Drop(active_deletes, m.id)
      BY <2>1, <2>2, <3>2 DEF Deleting, Drop
    <3> QED BY <2>3, <3>1, <3>2
  <2> QED BY <2>1, <2>4, QuietData
<1> QED BY <1>1, <1>2 DEF NodeAnswer

\* What a client may do to the files.
LEMMA CallContent ==
    ASSUME Sizes, NEW c, ClientCall(c), ContentListed
    PROVE  ContentListed'
<1>1. ASSUME UNCHANGED <<content, metadata>> PROVE ContentListed'
  BY <1>1 DEF ContentListed
<1>2. ASSUME Crash PROVE ContentListed'
  BY <1>1, <1>2 DEF Crash, fileMeta
<1>3. ASSUME NEW path, file_storage_stat(c, path) PROVE ContentListed'
  BY <1>1, <1>3 DEF file_storage_stat, fileMeta
<1>4. ASSUME NEW path, NEW flags, open_file(c, path, flags) PROVE ContentListed'
  <2>1. CASE UNCHANGED <<fileMeta, content>>
    BY <1>1, <2>1 DEF fileMeta
  <2>2. CASE OpenNew(c, path, flags)
    <3>1. /\ content' = Add(content, get_new_file_id, <<>>)
          /\ DOMAIN metadata' = DOMAIN metadata \cup {get_new_file_id}
      BY <2>2 DEF OpenNew, add_file, Add
    <3>2. Listed(<<>>)
      BY DEF Listed
    <3> QED BY <3>1, <3>2 DEF ContentListed, Add
  <2> QED BY <1>4, <2>1, <2>2 DEF open_file, OpenMissing, OpenInUse, OpenExisting
<1>5. ASSUME NEW fd, close_file(c, fd) PROVE ContentListed'
  BY <1>1, <1>5 DEF close_file, fileMeta
<1>6. ASSUME NEW fd, NEW whence, NEW o, file_seek(c, fd, whence, o) PROVE ContentListed'
  BY <1>1, <1>6 DEF file_seek, fileMeta
<1>7. ASSUME NEW path, delete_file(c, path) PROVE ContentListed'
  BY <1>1, <1>2, <1>7 DEF delete_file, DeleteRefused, DeleteSent, fileMeta
<1>8. ASSUME NEW fd, NEW count, read_file(c, fd, count) PROVE ContentListed'
  BY <1>1, <1>2, <1>8 DEF read_file, ReadRefused, ReadSent, fileMeta
<1>9. ASSUME NEW fd, NEW count \in Nat, write_file(c, fd, count) PROVE ContentListed'
  <2>1. CASE WriteRefused(c, fd, count)
    BY <1>1, <2>1 DEF WriteRefused, fileMeta
  <2>2. CASE WriteSent(c, fd, count) /\ ~Crash
    <3> DEFINE file == FileOf(fd)
               o == file_cursors[fd].offset
               b == Buffer(get_new_request_id, count)
    <3>1. file \in DOMAIN metadata /\ o \in Nat
      BY <2>2, SentCursor
    <3>2. /\ content' = [content EXCEPT ![file] = Overlay(@, o, b)]
          /\ DOMAIN metadata' = DOMAIN metadata
      BY <2>2 DEF WriteSent, update_file_size
    <3>3. Listed(b)
      <4>1. DOMAIN b = 1 .. count /\ b = [i \in 1 .. count |-> b[i]]
        BY DEF Buffer
      <4> HIDE DEF b
      <4> QED BY <4>1, ListedFunction
    <3> HIDE DEF file, o, b
    <3>4. Listed(content[file])
      BY <3>1 DEF ContentListed
    <3>5. Listed(Overlay(content[file], o, b))
      BY <3>1, <3>3, <3>4, OverlayListed
    <3> QED BY <3>2, <3>5 DEF ContentListed
  <2> QED BY <1>2, <1>9, <2>1, <2>2 DEF write_file
<1>10. Counts \subseteq Nat
  BY SizesAssumption
<1> QED BY <1>3, <1>4, <1>5, <1>6, <1>7, <1>8, <1>9, <1>10 DEF ClientCall

\* Every step keeps the invariant, until a node dies or a write finds no room.
LEMMA NextData ==
    ASSUME KeysDiffer
    PROVE  /\ UsersInv /\ Sizes /\ NetInv /\ MapsInv /\ RequestsIsolated' /\ LeftInv
           /\ DataInv /\ [Next]_vars
           => DataInv'
<1> SUFFICES ASSUME UsersInv, Sizes, NetInv, MapsInv, RequestsIsolated', LeftInv,
                    DataInv, [Next]_vars
             PROVE  DataInv'
  OBVIOUS
<1> DEFINE Kind == WritesTrue /\ CopiesDue /\ StoresListed
<1>0. full \in Nat /\ ContentListed
  BY DEF DataInv
<1>1. CASE UNCHANGED vars
  <2>1. UNCHANGED <<barista_up, maps, to_node, store, content, metadata, active_deletes,
                    deaths, full>>
    BY <1>1 DEF vars, network, machines, fileMeta, requests
  <2>2. Deleting' = Deleting /\ ContentListed'
    BY <1>0, <2>1 DEF Deleting, ContentListed
  <2> QED BY <1>0, <2>1, <2>2, QuietData DEF DataInv
<1>2. ASSUME NEW c \in Procs, ClientCall(c) PROVE DataInv'
  <2>1. barista_up /\ UNCHANGED <<deaths, full>>
    BY <1>2, CallMachines DEF ClientCall, machines
  <2>2. ContentListed'
    BY <1>0, <1>2, CallContent
  <2>3. ASSUME barista_up', deaths = 0, full = 0 PROVE Kind'
    <3>1. Kind /\ AllUp /\ Traced
      BY <2>1, <2>3 DEF DataInv, LeftInv
    <3> QED BY <1>0, <1>2, <2>3, <3>1, CallData
  <2> QED BY <1>0, <2>1, <2>2, <2>3 DEF DataInv
<1>3. ASSUME NEW c \in Procs, ClientEnds(c) PROVE DataInv'
  <2>1. UNCHANGED <<barista_up, maps, to_node, store, content, metadata, active_deletes,
                    deaths, full>>
    BY <1>3 DEF ClientEnds, network, fileMeta, requests
  <2>2. Deleting' = Deleting /\ ContentListed'
    BY <1>0, <2>1 DEF Deleting, ContentListed
  <2> QED BY <1>0, <2>1, <2>2, QuietData DEF DataInv
<1>4. ASSUME NEW n \in Nodes, NodeAnswer(n) PROVE DataInv'
  <2>1. UNCHANGED <<deaths, full, barista_up>>
    BY <1>4 DEF NodeAnswer, read_response_handler, write_response_handler,
       delete_response_handler, machines
  <2>2. ContentListed'
    <3>1. CASE UNCHANGED <<content, metadata>>
      BY <1>0, <3>1 DEF ContentListed
    <3>2. ASSUME NEW f, content' = Drop(content, f), metadata' = Drop(metadata, f)
          PROVE  ContentListed'
      BY <1>0, <3>2 DEF ContentListed, Drop
    <3> QED BY <1>4, <3>1, <3>2 DEF NodeAnswer, read_response_handler,
            write_response_handler, delete_response_handler, DeleteComplete,
            delete_file_contents, fileMeta
  <2> QED BY <1>0, <1>4, <2>1, <2>2, AnswerData DEF DataInv
<1>5. ASSUME NEW n \in Nodes, Espresso(n) PROVE DataInv'
  <2>1. UNCHANGED <<barista_up, deaths, content, metadata>>
    BY <1>5 DEF Espresso, fileMeta
  <2>2. ContentListed'
    BY <1>0, <2>1 DEF ContentListed
  <2>3. full' \in Nat /\ (full' = 0 => full = 0)
    BY <1>0, <1>5 DEF Espresso
  <2>4. ASSUME barista_up, deaths = 0, full' = 0 PROVE Kind'
    <3>1. full = 0 /\ Kind /\ Traced /\ returned = {}
      BY <2>3, <2>4 DEF DataInv, LeftInv, NetInv, Linked
    <3> QED BY <1>0, <1>5, <2>4, <3>1, EspressoData
  <2> QED BY <2>1, <2>2, <2>3, <2>4 DEF DataInv
<1>6. ASSUME NEW n \in Nodes, NodeDies(n) PROVE DataInv'
  <2>1. deaths' # 0
    <3>1. deaths \in Nat /\ deaths' = deaths + 1
      BY <1>6 DEF NodeDies, NetInv, Linked
    <3> QED BY <3>1
  <2>2. UNCHANGED <<full, content, metadata>>
    BY <1>6 DEF NodeDies, fileMeta
  <2> QED BY <1>0, <2>1, <2>2 DEF DataInv, ContentListed
<1>7. ASSUME NEW n \in Nodes, NodeGone(n) \/ NodeReturns(n) PROVE DataInv'
  <2>1. /\ barista_up
        /\ UNCHANGED <<barista_up, deaths, full, content, metadata>>
    BY <1>7 DEF NodeGone, NodeReturns, machines, fileMeta
  <2>2. deaths # 0
    <3> SUFFICES ASSUME deaths = 0 PROVE FALSE
      OBVIOUS
    <3>1. AllUp
      BY <2>1 DEF LeftInv
    <3> QED BY <1>7, <3>1 DEF NodeGone, NodeReturns, AllUp
  <2> QED BY <1>0, <2>1, <2>2 DEF DataInv, ContentListed
<1> QED BY <1>1, <1>2, <1>3, <1>4, <1>5, <1>6, <1>7 DEF Next

\* What is said of the stored bytes holds in the beginning.
LEMMA InitData == Init => DataInv
<1> SUFFICES ASSUME Init PROVE DataInv
  OBVIOUS
<1>1. DOMAIN content = {} /\ DOMAIN metadata = {} /\ full = 0
  BY DEF Init, EmptyMap
<1>2. \A n \in Nodes : \A m : ~On(to_node, n, m)
  BY DEF Init, On
<1>3. StoresListed
  BY DEF Init, StoresListed, EmptyMap
<1>4. WritesTrue /\ CopiesDue
  BY <1>1, <1>2 DEF WritesTrue, CopiesDue
<1> QED BY <1>1, <1>3, <1>4 DEF DataInv, ContentListed

\* Once a write has been answered, every byte of it is on the node of its chunk
\* and on the node of its replica, until a later write or a delete of the file
\* begins, while no node has died and no disk was full: whatever the order in
\* which the four nodes carry out what other requests sent.  For clients that
\* are users of their own, and files whose chunks are different keys to
\* Barista's maps.
THEOREM WritesAreStoredTwice ==
    ASSUME OneClientPerUser, KeysDiffer
    PROVE  Spec => []AnsweredDataStoredTwice
<1>1. Init => MapsInv
  BY DEF Init, MapsInv, GoodMaps, EmptyMap
<1>2. Init => LeftInv
  BY InitLeft
<1>3. Init => DataInv
  BY InitData
<1>4. Spec => [](UsersInv /\ Sizes /\ NetInv)
  BY NetInvariance
<1>5. Spec => []IsolationInv
  BY IsolationInvariance
<1>6. Spec => []RequestsIsolated
  BY RequestsHaveTheirFiles
<1>7. UsersInv /\ Sizes /\ NetInv /\ MapsInv /\ [Next]_vars => MapsInv'
  BY NextMaps
<1>8. /\ UsersInv /\ Sizes /\ NetInv /\ MapsInv /\ IsolationInv
      /\ RequestsIsolated /\ RequestsIsolated' /\ LeftInv /\ [Next]_vars
      => LeftInv'
  BY NextLeft
<1>9. /\ UsersInv /\ Sizes /\ NetInv /\ MapsInv /\ RequestsIsolated' /\ LeftInv
      /\ DataInv /\ [Next]_vars
      => DataInv'
  BY NextData
<1>10. NetInv /\ MapsInv /\ LeftInv /\ DataInv => AnsweredDataStoredTwice
  BY DataStored
<1> QED BY <1>1, <1>2, <1>3, <1>4, <1>5, <1>6, <1>7, <1>8, <1>9, <1>10, PTL DEF Spec

-------------------------------------------------------------------------------
(* What a read is answered *)

PieceChunk(file, s) == <<file, s.stripe, s.chunk>>

\* The piece s is asked of its chunk's primary, by the message x on k's connection.
IsAsked(c2n, id, file, s, k, x) ==
    /\ PieceChunk(file, s) \in DOMAIN c2n
    /\ k = c2n[PieceChunk(file, s)]
    /\ x = ReadMsg(id, file, s)

\* Some piece of the stripe of the i-th, not behind it, lies in a chunk that does
\* not exist.
Broken(c2n, file, q, i) ==
    \E j \in 1 .. i : /\ q[j].stripe = q[i].stripe
                      /\ PieceChunk(file, q[j]) \notin DOMAIN c2n

\* The first n pieces of q are asked for, unless their stripe is broken.
AskedOn(g, base, id, file, q, n) ==
    /\ ReadOn(g, base)
    /\ \A k \in Nodes : \A x : On(g.out, k, x) =>
          On(base.out, k, x) \/ \E i \in 1 .. n : IsAsked(base.c2n, id, file, q[i], k, x)
    /\ \A i \in 1 .. n :
          \/ \E k \in Nodes : \E x : On(g.out, k, x) /\ IsAsked(base.c2n, id, file, q[i], k, x)
          \/ Broken(base.c2n, file, q, i)
    /\ \A s \in g.broken : \E j \in 1 .. n :
          q[j].stripe = s /\ PieceChunk(file, q[j]) \notin DOMAIN base.c2n

\* One more piece.
LEMMA AskedOnMore ==
    ASSUME AllUp, NEW h, NEW base, NEW id, NEW file, NEW q, NEW n \in Nat,
           AskedOn(h, base, id, file, q, n),
           \A x \in Universe : SameKey(x, PieceChunk(file, q[n + 1]))
                                  => x = PieceChunk(file, q[n + 1])
    PROVE  AskedOn(ReadSpan(h, id, file, q[n + 1]), base, id, file, q, n + 1)
<1> DEFINE s == q[n + 1]
           ch == PieceChunk(file, s)
           g == ReadSpan(h, id, file, s)
           m == ReadMsg(id, file, s)
           c2n == base.c2n
<1>1. /\ ReadOn(h, base) /\ Calm(h) /\ h.c2n = c2n
      /\ DOMAIN c2n \subseteq Universe
  BY DEF AskedOn, ReadOn, Calm, GoodMaps
<1>2. AskedOne(g, h, id, file, s)
  BY <1>1, ReadTurnDoes
<1>3. ReadOn(g, base)
  BY <1>1, CalmRead
<1>4. /\ Has(c2n, ch) <=> ch \in DOMAIN c2n
      /\ ch \in DOMAIN c2n => Get(c2n, ch) = c2n[ch]
  <2>1. \A x \in DOMAIN c2n : SameKey(x, ch) <=> x = ch
    BY <1>1, KeysAssumption DEF SameKey, StrictWeakOrder
  <2> HIDE DEF ch, c2n
  <2>2. Has(c2n, ch) <=> ch \in DOMAIN c2n
    BY <2>1 DEF Has
  <2>3. ch \in DOMAIN c2n => KeyFor(c2n, ch) = ch
    BY <2>1 DEF KeyFor
  <2> QED BY <2>2, <2>3 DEF Get
<1>5. /\ n + 1 \in 1 .. n + 1 /\ \A i \in 1 .. n : i \in 1 .. n + 1
      /\ \A i \in 1 .. n + 1 : i \in 1 .. n \/ i = n + 1
      /\ \A i \in 1 .. n + 1 : \A j \in 1 .. i : j \in 1 .. n + 1
  OBVIOUS
<1>6. /\ \A k \in Nodes : \A x : On(h.out, k, x) =>
            On(base.out, k, x) \/ \E i \in 1 .. n : IsAsked(c2n, id, file, q[i], k, x)
      /\ \A i \in 1 .. n :
            \/ \E k \in Nodes : \E x : On(h.out, k, x) /\ IsAsked(c2n, id, file, q[i], k, x)
            \/ Broken(c2n, file, q, i)
      /\ \A t \in h.broken : \E j \in 1 .. n :
            q[j].stripe = t /\ PieceChunk(file, q[j]) \notin DOMAIN c2n
  BY DEF AskedOn
<1>7. \/ s.stripe \in h.broken /\ g.out = h.out /\ g.broken = h.broken
      \/ /\ ch \notin DOMAIN c2n
         /\ g.broken = h.broken \cup {s.stripe} /\ g.out = h.out
      \/ /\ ch \in DOMAIN c2n /\ g.broken = h.broken /\ c2n[ch] \in Nodes
         /\ \A k \in Nodes : \A x : On(g.out, k, x) <=>
               On(h.out, k, x) \/ (k = c2n[ch] /\ x = m)
  BY <1>1, <1>2, <1>4 DEF AskedOne, PieceChunk
<1> HIDE DEF g, c2n, m
<1>8. CASE s.stripe \in h.broken /\ g.out = h.out /\ g.broken = h.broken
  <2>1. Broken(c2n, file, q, n + 1)
    BY <1>5, <1>6, <1>8 DEF Broken
  <2> HIDE DEF s
  <2> QED BY <1>3, <1>5, <1>6, <1>8, <2>1 DEF AskedOn, g, s, c2n
<1>9. CASE /\ ch \notin DOMAIN c2n
           /\ g.broken = h.broken \cup {s.stripe} /\ g.out = h.out
  <2>1. Broken(c2n, file, q, n + 1)
    BY <1>5, <1>9 DEF Broken
  <2> QED BY <1>3, <1>5, <1>6, <1>9, <2>1 DEF AskedOn, g, s, c2n
<1>10. CASE /\ ch \in DOMAIN c2n /\ g.broken = h.broken /\ c2n[ch] \in Nodes
            /\ \A k \in Nodes : \A x : On(g.out, k, x) <=>
                  On(h.out, k, x) \/ (k = c2n[ch] /\ x = m)
  <2>1. IsAsked(c2n, id, file, q[n + 1], c2n[ch], m) /\ On(g.out, c2n[ch], m)
    BY <1>10 DEF IsAsked, m
  <2>2. \A k \in Nodes : \A x : k = c2n[ch] /\ x = m
           => IsAsked(c2n, id, file, q[n + 1], k, x)
    BY <2>1
  <2> HIDE DEF ch
  <2> QED BY <1>3, <1>5, <1>6, <1>10, <2>1, <2>2 DEF AskedOn, g, s, c2n
<1> QED BY <1>7, <1>8, <1>9, <1>10

\* By induction over the turns.
LEMMA AskedLoop ==
    ASSUME AllUp, NEW id, NEW b, NEW file, NEW base, NEW n \in Nat, NEW q,
           DOMAIN q = 1 .. n, ReadOn(base, base), base.broken = {},
           \A i \in 1 .. n : \A x \in Universe :
              SameKey(x, PieceChunk(file, q[i])) => x = PieceChunk(file, q[i])
    PROVE  AskedOn(ReadLoop!Loop(id, b, file, base, q), base, id, file, q, n)
<1>1. PICK h : ReadLoop!Turns(h, id, b, file, base, n, q)
  BY ReadLoop!LoopTurns
<1>2. /\ h[0] = base
      /\ \A i \in 1 .. n : h[i] = ReadTurn(id, b, file, h[i - 1], q[i])
      /\ h[n] = ReadLoop!Loop(id, b, file, base, q)
  BY <1>1 DEF ReadLoop!Turns
<1> DEFINE T == {k \in Nat : k <= n => AskedOn(h[k], base, id, file, q, k)}
<1>3. 0 \in T
  <2>1. AskedOn(base, base, id, file, q, 0)
    BY DEF AskedOn
  <2> QED BY <1>2, <2>1
<1>4. ASSUME NEW k \in Nat, k \in T PROVE k + 1 \in T
  <2> SUFFICES ASSUME k + 1 <= n PROVE AskedOn(h[k + 1], base, id, file, q, k + 1)
    OBVIOUS
  <2>1. k + 1 \in 1 .. n /\ k + 1 - 1 = k /\ AskedOn(h[k], base, id, file, q, k)
    BY <1>4
  <2>2. h[k + 1] = ReadSpan(h[k], id, file, q[k + 1])
    BY <1>2, <2>1 DEF ReadTurn
  <2>3. AskedOn(ReadSpan(h[k], id, file, q[k + 1]), base, id, file, q, k + 1)
    BY <2>1, AskedOnMore
  <2> QED BY <2>2, <2>3
<1>5. n \in T
  <2> HIDE DEF T
  <2> QED BY <1>3, <1>4, ReadLoop!NatSet
<1> QED BY <1>2, <1>5

\* No chunk that a read within the bounds asks for is the same key of a std::map
\* as another chunk.
KeysDifferInReads ==
    \A file \in FileIds, o \in 0 .. MaxSize - 1, count \in Counts :
        LET q == Spans(StripeSize, ChunkSize, o, count)
        IN  \A i \in DOMAIN q : \A x \in Universe :
                SameKey(x, PieceChunk(file, q[i])) => x = PieceChunk(file, q[i])

\* What read request id puts on the connections, for the pieces q of file.
Asks(id, file, q) ==
    /\ \A k \in Nodes : \A x : On(to_node, k, x) => On(to_node', k, x)
    /\ \A k \in Nodes : \A x : On(to_node', k, x) =>
          \/ On(to_node, k, x)
          \/ \E i \in DOMAIN q : IsAsked(chunk_to_node, id, file, q[i], k, x)
    /\ \A i \in DOMAIN q :
          \/ \E k \in Nodes : \E x : /\ On(to_node', k, x)
                                     /\ IsAsked(chunk_to_node, id, file, q[i], k, x)
          \/ Broken(chunk_to_node, file, q, i)

\* The request that a read starts.
NewRead(id, file, o, count) ==
    /\ o \in 0 .. MaxSize - 1 /\ file \in FileIds /\ file \in DOMAIN metadata
    /\ \E r : /\ {"packets", "want"} \subseteq DOMAIN r
              /\ r.file = file /\ r.packets = EmptyMap
              /\ r.want = Slice(content[file], o, count)
              /\ active_reads' = Add(active_reads, id, r)

\* A read asks for the pieces of its range.
LEMMA ReadSentAsks ==
    ASSUME KeysDifferInReads, UsersInv, Sizes, NetInv, MapsInv, AllUp, NEW c, NEW fd,
           NEW count \in Counts, ReadSent(c, fd, count), ~Crash
    PROVE  LET id == request_id + 1
               file == FileOf(fd)
               o == file_cursors[fd].offset
           IN  /\ NewRead(id, file, o, count)
               /\ Asks(id, file, Spans(StripeSize, ChunkSize, o, count))
<1> DEFINE id == request_id + 1
           b == request_id + 2
           file == FileOf(fd)
           o == file_cursors[fd].offset
           seq == Spans(StripeSize, ChunkSize, o, count)
           L(fate) == FoldLeft(LAMBDA h, s : ReadSpan(h, id, file, s), Start(fate), seq)
           r(h) == [client |-> c, file |-> file, fd |-> fd,
                    expected |-> h.chunks, received |-> 0,
                    packets |-> EmptyMap,
                    want |-> Slice(content[file], o, count)]
<1>1. PICK fate \in Fates : LET h == L(fate) IN
          Sent(h) /\ active_reads' = Add(active_reads, id, r(h))
  BY DEF ReadSent, get_new_request_id
<1>2. L(fate) = ReadLoop!Loop(id, b, file, Start(fate), seq)
  BY DEF ReadLoop!Loop, ReadTurn, FoldLeft, ReadLoop!FoldLeft,
     MapThenFoldSet, ReadLoop!MapThenFoldSet, Max, ReadLoop!Max
<1>3. file \in DOMAIN metadata /\ o \in Nat /\ count \in Nat
  BY SentCursor, SizesAssumption
<1>4. o \in 0 .. MaxSize - 1 /\ file \in FileIds
  <2>1. ReadVerdict(c, fd, count) = Proceed
    BY DEF ReadSent
  <2>2. ~(o >= SizeOf(file))
    BY <2>1 DEF ReadVerdict, Proceed, FILE_NOT_OPEN_FOR_READ, UNABLE_TO_STAT_FILE
  <2>3. SizeOf(file) \in 0 .. MaxSize /\ MaxSize \in Nat
    BY <1>3, SizesAssumption DEF Sizes, FilesGood, SizeOf
  <2>4. file \in FileIds
    BY <1>3, SizesAssumption DEF UsersInv, Files, FileIds, Sizes, FilesGood
  <2> HIDE DEF o, file
  <2> QED BY <1>3, <2>2, <2>3, <2>4
<1>5. PICK n \in Nat : DOMAIN seq = 1 .. n
  <2>1. StripeSize \in Nat /\ StripeSize # 0 /\ ChunkSize \in Nat /\ ChunkSize # 0
    BY SizesAssumption
  <2> DEFINE G == GoodSpans(StripeSize, ChunkSize, o, count)
  <2> HIDE DEF o
  <2>2. seq \in Seq(G)
    BY <1>3, <2>1, SpansRun
  <2> HIDE DEF G, seq
  <2> QED BY <2>2
<1>6. \A i \in 1 .. n : \A x \in Universe :
          SameKey(x, PieceChunk(file, seq[i])) => x = PieceChunk(file, seq[i])
  <2> HIDE DEF o, file
  <2> QED BY <1>4, <1>5 DEF KeysDifferInReads
<1>7. NewRead(id, file, o, count)
  <2> DEFINE h == L(fate)
  <2> HIDE DEF o, file, L, id
  <2>1. /\ {"packets", "want"} \subseteq DOMAIN r(h)
        /\ r(h).file = file /\ r(h).packets = EmptyMap
        /\ r(h).want = Slice(content[file], o, count)
        /\ active_reads' = Add(active_reads, id, r(h))
    BY <1>1
  <2> HIDE DEF r, h
  <2> QED BY <1>3, <1>4, <2>1 DEF NewRead
<1> DEFINE h == L(fate)
           base == Start(fate)
<1> HIDE DEF L, seq, id, b, file, o
<1>8. /\ Calm(base) /\ Kept(base, base)
      /\ base.c2n = chunk_to_node /\ base.c2r = chunk_to_replica_node
      /\ base.out = to_node /\ base.broken = {}
  BY StartCalm DEF Start
<1> HIDE DEF base
<1>9. ReadOn(base, base)
  BY <1>8 DEF ReadOn
<1>10. AskedOn(h, base, id, file, seq, n)
  BY <1>2, <1>5, <1>6, <1>8, <1>9, AskedLoop DEF base
<1> HIDE DEF h
<1>11. to_node' = h.out
  BY <1>1 DEF Sent, h
<1>12. Asks(id, file, seq)
  BY <1>5, <1>8, <1>10, <1>11 DEF AskedOn, ReadOn, Kept, Asks
<1> QED BY <1>7, <1>12 DEF id, file, o, seq

\* What a read's packets hold: each is the part of the file s that one of the
\* pieces q asks for.
IsPart(ch, d, file, s, o, x) ==
    ch = PieceChunk(file, x) /\ d = Cut(s, o + x.from, x.count)

\* There is one for each piece that does not lie behind the end of s.
AllParts(packets, file, s, o, q) ==
    /\ IsFiniteSet(DOMAIN packets) /\ DOMAIN packets \subseteq Universe
    /\ \A ch \in DOMAIN packets : \E i \in DOMAIN q :
          IsPart(ch, packets[ch], file, s, o, q[i])
    /\ \A i \in DOMAIN q : \/ PieceChunk(file, q[i]) \in DOMAIN packets
                           \/ Len(s) <= o + q[i].from

\* A read's packets, joined in the order of their map.
PacketsInOrder(packets) ==
    LET order == InOrder(packets)
    IN  FlattenSeq([i \in DOMAIN order |-> packets[order[i]]])

\* Joined in the order of their map they are what was asked for, if those that are
\* missing lie behind the end of the file.
LEMMA PacketsJoined ==
    ASSUME KeysDiffer, NEW file, NEW o \in Nat, NEW total \in Nat, NEW s, Listed(s),
           NEW q, q = Spans(StripeSize, ChunkSize, o, total),
           NEW packets, AllParts(packets, file, s, o, q)
    PROVE  PacketsInOrder(packets) = Cut(s, o, total)
<1>0. /\ IsFiniteSet(DOMAIN packets) /\ DOMAIN packets \subseteq Universe
      /\ \A ch \in DOMAIN packets : \E i \in DOMAIN q :
            IsPart(ch, packets[ch], file, s, o, q[i])
      /\ \A i \in DOMAIN q : \/ PieceChunk(file, q[i]) \in DOMAIN packets
                             \/ Len(s) <= o + q[i].from
  BY DEF AllParts
<1> DEFINE order == InOrder(packets)
           n == Cardinality(DOMAIN packets)
           G == GoodSpans(StripeSize, ChunkSize, o, total)
<1>1. /\ n \in Nat /\ DOMAIN order = 1 .. n
      /\ \A i \in 1 .. n : order[i] \in DOMAIN packets
      /\ \A k \in DOMAIN packets : \E i \in 1 .. n : order[i] = k
      /\ \A i, j \in 1 .. n : i < j => ChunkLess(order[i], order[j])
  BY <1>0, SortedAll DEF InOrder
<1>2. q \in Seq(G) /\ Tiles(q, 0, total) /\ KeysRise(q)
  BY SizesAssumption, SpansRun
<1>3. \A x \in G : x.from \in Nat /\ x.count \in Nat
  BY DEF GoodSpans
<1> HIDE DEF order, n, G
<1>4. PICK p \in [1 .. n -> DOMAIN q] :
          \A a \in 1 .. n : IsPart(order[a], packets[order[a]], file, s, o, q[p[a]])
  <2>1. \A a \in 1 .. n : \E i \in DOMAIN q :
            IsPart(order[a], packets[order[a]], file, s, o, q[i])
    BY <1>0, <1>1
  <2> DEFINE p == [a \in 1 .. n |-> CHOOSE i \in DOMAIN q :
                      IsPart(order[a], packets[order[a]], file, s, o, q[i])]
  <2>2. p \in [1 .. n -> DOMAIN q]
    BY <2>1
  <2>3. \A a \in 1 .. n : IsPart(order[a], packets[order[a]], file, s, o, q[p[a]])
    BY <2>1
  <2> QED BY <2>2, <2>3
<1>5. DOMAIN q = 1 .. Len(q) /\ Len(q) \in Nat
  BY <1>2
<1>6. \A i, j \in DOMAIN q : i < j \/ i = j \/ j < i
  BY <1>5
<1>7. \A i \in DOMAIN q : /\ q[i].stripe \in Nat /\ q[i].chunk \in Nat
  BY <1>2, <1>5 DEF G, GoodSpans
<1>8. \A i, j \in DOMAIN q : i < j => PieceChunk(file, q[i]) # PieceChunk(file, q[j])
  BY <1>2, <1>7 DEF KeysRise, PieceChunk
<1>9. ASSUME NEW a \in 1 .. n, NEW b \in 1 .. n, a < b PROVE p[a] < p[b]
  <2> DEFINE x == order[a]
             y == order[b]
  <2>1. /\ p[a] \in DOMAIN q /\ p[b] \in DOMAIN q
        /\ x = PieceChunk(file, q[p[a]]) /\ y = PieceChunk(file, q[p[b]])
        /\ x \in Universe /\ y \in Universe /\ ChunkLess(x, y)
    BY <1>0, <1>1, <1>4, <1>9 DEF IsPart
  <2>2. p[a] # p[b]
    <3> SUFFICES ASSUME p[a] = p[b] PROVE FALSE
      OBVIOUS
    <3>1. x = y
      BY <2>1
    <3> HIDE DEF x, y
    <3> QED BY <2>1, <3>1, KeysAssumption DEF StrictWeakOrder
  <2>3. ~(p[b] < p[a])
    <3> SUFFICES ASSUME p[b] < p[a] PROVE FALSE
      OBVIOUS
    <3>1. \/ y[2] < x[2]
          \/ y[2] = x[2] /\ y[3] < x[3]
      BY <1>2, <2>1 DEF KeysRise, PieceChunk
    <3>2. y[1] = x[1]
      BY <2>1 DEF PieceChunk
    <3> HIDE DEF x, y
    <3> QED BY <2>1, <3>1, <3>2, EarlierIsLess
  <2> QED BY <1>6, <2>1, <2>2, <2>3
<1>10. \A i \in DOMAIN q : (\E a \in 1 .. n : p[a] = i) \/ Len(s) <= o + q[i].from
  <2> SUFFICES ASSUME NEW i \in DOMAIN q, PieceChunk(file, q[i]) \in DOMAIN packets
               PROVE  \E a \in 1 .. n : p[a] = i
    BY <1>0
  <2>1. PICK a \in 1 .. n : order[a] = PieceChunk(file, q[i])
    BY <1>1
  <2>2. p[a] \in DOMAIN q /\ PieceChunk(file, q[p[a]]) = PieceChunk(file, q[i])
    BY <1>4, <2>1 DEF IsPart
  <2> QED BY <1>6, <1>8, <2>2
<1> DEFINE parts == [i \in DOMAIN order |-> packets[order[i]]]
<1>11. parts = [a \in 1 .. n |-> Cut(s, o + q[p[a]].from, q[p[a]].count)]
  BY <1>1, <1>4 DEF IsPart
<1>12. PICK B : s \in Seq(B)
  BY DEF Listed
<1> HIDE DEF parts
<1>13. PartsOf(parts, n, s, o, q)
  BY <1>4, <1>9, <1>10, <1>11 DEF PartsOf
<1>14. FlattenSeq(parts) = Cut(s, o, total)
  BY SMTT(40), <1>1, <1>2, <1>3, <1>12, <1>13, PiecesJoined
<1> QED BY <1>14 DEF parts, order, PacketsInOrder

\* Where the first e bytes of a chunk end in its file.
Ends(ch, e) == (ch[2] - 1) * StripeSize + (ch[3] - 1) * ChunkSize + e

\* No node stores more of a chunk than the file has, and no write on its way
\* brings more.
StoresWithin ==
    \A n \in Nodes : \A ch \in DOMAIN store[n] : ch[1] \in DOMAIN content =>
        Ends(ch, Len(store[n][ch])) \in 0 .. Len(content[ch[1]])

WritesWithin ==
    \A n \in Nodes : \A m : On(to_node, n, m) /\ m.op = "write" /\ m.chunk[1] \in DOMAIN content =>
        Ends(m.chunk, m.offset + Len(m.data)) \in 0 .. Len(content[m.chunk[1]])

WithinInv == barista_up /\ deaths = 0 /\ full = 0 => StoresWithin /\ WritesWithin

\* Nothing is stored of the file, nor on its way to be.
Unwritten(f) ==
    \A n \in Nodes : /\ \A ch \in DOMAIN store[n] : ch[1] # f
                     /\ \A m : On(to_node, n, m) /\ m.op = "write" => m.chunk[1] # f

\* Steps that store nothing, send no write and leave the files, but for new ones.
LEMMA QuietWithin ==
    ASSUME StoresWithin, WritesWithin, UNCHANGED store,
           \A n \in Nodes : \A m :
              On(to_node', n, m) /\ m.op = "write" => On(to_node, n, m),
           \A f \in DOMAIN content' :
              \/ f \in DOMAIN content /\ content'[f] = content[f]
              \/ Unwritten(f)
    PROVE  StoresWithin' /\ WritesWithin'
<1>1. StoresWithin'
  <2> SUFFICES ASSUME NEW n \in Nodes, NEW ch \in DOMAIN store'[n],
                      ch[1] \in DOMAIN content'
               PROVE  Ends(ch, Len(store'[n][ch])) \in 0 .. Len(content'[ch[1]])
    BY DEF StoresWithin, Ends
  <2>1. ch[1] \in DOMAIN content /\ content'[ch[1]] = content[ch[1]]
    BY DEF Unwritten
  <2> QED BY <2>1 DEF StoresWithin
<1>2. WritesWithin'
  <2> SUFFICES ASSUME NEW n \in Nodes, NEW m, On(to_node', n, m), m.op = "write",
                      m.chunk[1] \in DOMAIN content'
               PROVE  Ends(m.chunk, m.offset + Len(m.data)) \in 0 .. Len(content'[m.chunk[1]])
    BY DEF WritesWithin, Ends
  <2>1. /\ m.chunk[1] \in DOMAIN content /\ content'[m.chunk[1]] = content[m.chunk[1]]
        /\ On(to_node, n, m)
    BY DEF Unwritten
  <2> QED BY <2>1 DEF WritesWithin
<1> QED BY <1>1, <1>2

\* A node carries out a request.
LEMMA EspressoWithin ==
    ASSUME NetInv, LeftInv, barista_up, WritesTrue, StoresListed, StoresWithin,
           WritesWithin, NEW n \in Nodes, Espresso(n), returned = {}, full \in Nat,
           full = 0, full' = 0
    PROVE  StoresWithin' /\ WritesWithin'
<1> DEFINE m == Head(to_node[n])
           old == IF m.chunk \in DOMAIN store[n] THEN store[n][m.chunk] ELSE <<>>
<1>1. /\ to_node[n] # <<>> /\ to_node' = Behead(to_node, n) /\ UNCHANGED content
      /\ store' = [store EXCEPT ![n] = Carried(@, m)]
  BY DEF Espresso, Behead
<1>2. /\ \A k \in Nodes : \A x : On(to_node', k, x) => On(to_node, k, x)
      /\ On(to_node, n, m)
  BY <1>1, BeheadOn DEF NetInv
<1>3. m.op \in Ops
  BY <1>2, OpOn
<1>4. WritesWithin'
  BY <1>1, <1>2 DEF WritesWithin, Ends
<1>5. m.op = "write" => m.offset \in Nat /\ Listed(m.data)
  BY <1>2 DEF WritesTrue
<1>6. Listed(old)
  <2>1. Listed(<<>>)
    BY DEF Listed
  <2> QED BY <2>1 DEF StoresListed
<1> HIDE DEF m, old
<1>7. /\ \A j \in Nodes : j # n => store'[j] = store[j]
      /\ m.op = "read" => store'[n] = store[n]
      /\ m.op = "write" =>
            store'[n] = Add(store[n], m.chunk, Overlay(old, m.offset, m.data))
      /\ m.op = "delete" => store'[n] = Drop(store[n], m.chunk)
  BY <1>1 DEF LeftInv, Carried, old
<1>8. ASSUME NEW j \in Nodes, NEW ch \in DOMAIN store'[j], ch[1] \in DOMAIN content
      PROVE  Ends(ch, Len(store'[j][ch])) \in 0 .. Len(content[ch[1]])
  <2>1. CASE ch \in DOMAIN store[j] /\ store'[j][ch] = store[j][ch]
    BY <1>8, <2>1 DEF StoresWithin
  <2>2. CASE j = n /\ m.op = "write" /\ ch = m.chunk
    <3> DEFINE o == Overlay(old, m.offset, m.data)
               e == m.offset + Len(m.data)
    <3>1. store'[j][ch] = o
      BY <1>7, <2>2 DEF Add
    <3>2. Len(o) >= Len(old) /\ Len(o) >= e /\ (Len(o) = Len(old) \/ Len(o) = e)
          /\ Len(o) \in Nat
      BY <1>5, <1>6, <2>2, OverlayListed, ListedIs
    <3>3. Ends(ch, e) \in 0 .. Len(content[ch[1]])
      BY <1>2, <1>8, <2>2 DEF WritesWithin
    <3>4. e \in Nat
      BY <1>5, <2>2, ListedIs
    <3> HIDE DEF o, e
    <3>5. CASE Len(o) = e
      BY <3>1, <3>3, <3>5
    <3>6. CASE Len(o) = Len(old) /\ ch \in DOMAIN store[n]
      BY <1>8, <2>2, <3>1, <3>6 DEF StoresWithin, old
    <3>7. CASE Len(o) = Len(old) /\ ch \notin DOMAIN store[n]
      <4>1. Len(old) = 0
        BY <2>2, <3>7 DEF old
      <4>2. Len(o) = e
        BY <3>2, <3>4, <3>7, <4>1
      <4> QED BY <3>5, <4>2
    <3> QED BY <3>2, <3>5, <3>6, <3>7
  <2>3. \/ ch \in DOMAIN store[j] /\ store'[j][ch] = store[j][ch]
        \/ j = n /\ m.op = "write" /\ ch = m.chunk
    BY <1>3, <1>7 DEF Ops, Add, Drop
  <2> QED BY <2>1, <2>2, <2>3
<1>9. StoresWithin'
  BY <1>1, <1>8 DEF StoresWithin, Ends
<1> QED BY <1>4, <1>9

\* The messages of a write end where the file does, or before.
LEMMA PieceEnds ==
    ASSUME NEW id, NEW file, NEW o \in Nat, NEW total \in Nat,
           NEW s \in GoodSpans(StripeSize, ChunkSize, o, total),
           NEW x, IsPiece(x, id, file, s)
    PROVE  x.chunk[1] = file /\ Ends(x.chunk, x.offset + Len(x.data)) \in 0 .. o + total
<1>1. /\ s.from \in Nat /\ s.count \in Nat /\ s.offset \in Nat
      /\ s.stripe \in Nat /\ s.chunk \in Nat
      /\ s.from + s.count <= total
      /\ (s.stripe - 1) * StripeSize + (s.chunk - 1) * ChunkSize + s.offset = o + s.from
  BY DEF GoodSpans
<1>2. Len(x.data) = s.count
  <2> DEFINE from == s.from
             count == s.count
             d == SubSeq(Buffer(id, from + count), from + 1, from + count)
  <2>1. x.data = d
    BY DEF IsPiece
  <2> HIDE DEF from, count
  <2>2. Len(d) = count
    BY <1>1, PieceData DEF from, count
  <2> HIDE DEF d
  <2> QED BY <2>1, <2>2 DEF count
<1>3. x.chunk = <<file, s.stripe, s.chunk>> /\ x.offset = s.offset
  BY DEF IsPiece
<1> DEFINE a == (s.stripe - 1) * StripeSize
           b == (s.chunk - 1) * ChunkSize
<1>4. Ends(x.chunk, x.offset + Len(x.data)) = a + b + (s.offset + s.count)
  BY <1>2, <1>3 DEF Ends
<1>5. a \in Int /\ b \in Int /\ a + b + s.offset = o + s.from
  BY <1>1, SizesAssumption
<1> HIDE DEF a, b
<1>6. a + b + (s.offset + s.count) = o + s.from + s.count
  BY <1>1, <1>5
<1>7. o + s.from + s.count \in 0 .. o + total
  BY <1>1
<1> QED BY <1>3, <1>4, <1>6, <1>7

\* A write makes its file as long as its messages reach.
LEMMA WriteWithin ==
    ASSUME KeysDiffer, UsersInv, Sizes, NetInv, MapsInv, AllUp, Traced, NEW c, NEW fd,
           NEW count \in Nat, WriteSent(c, fd, count), ~Crash,
           ContentListed, StoresWithin, WritesWithin
    PROVE  StoresWithin' /\ WritesWithin'
<1>0. PICK file, o, id : /\ file = FileOf(fd) /\ o = file_cursors[fd].offset
                         /\ id = request_id + 1
  OBVIOUS
<1> DEFINE seq == Spans(StripeSize, ChunkSize, o, count)
           G == GoodSpans(StripeSize, ChunkSize, o, count)
           old == content[file]
           b == Buffer(id, count)
           new == Overlay(old, o, b)
<1>1. /\ UNCHANGED store
      /\ content' = [content EXCEPT ![file] = new]
      /\ \A k \in Nodes : \A x : On(to_node', k, x) =>
            On(to_node, k, x) \/ \E i \in DOMAIN seq : IsPiece(x, id, file, seq[i])
  BY <1>0, WriteSentOn DEF Traced
<1>2. file \in DOMAIN content /\ o \in Nat /\ Listed(old)
  BY <1>0, SentCursor DEF ContentListed
<1>3. Listed(b) /\ Len(b) = count
  <2>1. DOMAIN b = 1 .. count /\ b = [i \in 1 .. count |-> b[i]]
    BY DEF Buffer
  <2> HIDE DEF b
  <2> QED BY <2>1, ListedFunction
<1>4. \A i \in DOMAIN seq : seq[i] \in G
  <2>1. seq \in Seq(G)
    BY <1>2, SizesAssumption, SpansRun
  <2> HIDE DEF seq, G
  <2> QED BY <2>1
<1> HIDE DEF b, seq
<1>5. /\ Len(new) \in Nat /\ Len(old) \in Nat
      /\ Len(new) >= Len(old) /\ Len(new) >= o + count
  BY <1>2, <1>3, OverlayListed, ListedIs
<1> HIDE DEF new, old
<1>6. /\ DOMAIN content' = DOMAIN content
      /\ \A f \in DOMAIN content : f # file => content'[f] = content[f]
      /\ content'[file] = new /\ content[file] = old
  BY <1>1, <1>2 DEF old
<1>7. \A f \in DOMAIN content : 0 .. Len(content[f]) \subseteq 0 .. Len(content'[f])
  <2>1. 0 .. Len(old) \subseteq 0 .. Len(new)
    BY <1>5
  <2> QED BY <1>6, <2>1
<1>8. StoresWithin'
  BY <1>1, <1>6, <1>7 DEF StoresWithin, Ends
<1>9. ASSUME NEW n \in Nodes, NEW m, On(to_node', n, m), m.op = "write",
             m.chunk[1] \in DOMAIN content'
      PROVE  Ends(m.chunk, m.offset + Len(m.data)) \in 0 .. Len(content'[m.chunk[1]])
  <2>1. CASE On(to_node, n, m)
    <3>1. Ends(m.chunk, m.offset + Len(m.data)) \in 0 .. Len(content[m.chunk[1]])
      BY <1>6, <1>9, <2>1 DEF WritesWithin
    <3> QED BY <1>6, <1>7, <1>9, <3>1
  <2>2. ASSUME NEW i \in DOMAIN seq, IsPiece(m, id, file, seq[i])
        PROVE  Ends(m.chunk, m.offset + Len(m.data)) \in 0 .. Len(content'[m.chunk[1]])
    <3>1. m.chunk[1] = file /\ Ends(m.chunk, m.offset + Len(m.data)) \in 0 .. o + count
      BY <1>2, <1>4, <2>2, PieceEnds
    <3>2. 0 .. o + count \subseteq 0 .. Len(new)
      BY <1>2, <1>5
    <3> QED BY <1>6, <3>1, <3>2
  <2> QED BY <1>1, <1>9, <2>1, <2>2
<1>10. WritesWithin'
  BY <1>9 DEF WritesWithin, Ends
<1> QED BY <1>8, <1>10

\* Calls that send nothing: no file is changed, but one may be added.
QuietCall ==
    /\ UNCHANGED <<requests, to_node, from_node, store>>
    /\ \/ UNCHANGED content
       \/ next_file_id < MaxFiles /\ content' = Add(content, get_new_file_id, <<>>)

\* What a client may ask for.
LEMMA CallKinds ==
    ASSUME NEW c, ClientCall(c)
    PROVE  \/ QuietCall
           \/ \E fd : \E count \in Counts : ReadSent(c, fd, count)
           \/ \E fd : \E count \in Counts : WriteSent(c, fd, count)
           \/ \E path : DeleteSent(c, path)
<1>1. ASSUME NEW path, file_storage_stat(c, path) PROVE QuietCall
  BY <1>1 DEF file_storage_stat, QuietCall, network, machines
<1>2. ASSUME NEW path, NEW flags, open_file(c, path, flags) PROVE QuietCall
  BY <1>2 DEF open_file, OpenMissing, OpenInUse, OpenExisting, OpenNew, QuietCall,
     network, machines
<1>3. ASSUME NEW fd, close_file(c, fd) PROVE QuietCall
  BY <1>3 DEF close_file, QuietCall, network, machines
<1>4. ASSUME NEW fd, NEW whence, NEW o, file_seek(c, fd, whence, o) PROVE QuietCall
  BY <1>4 DEF file_seek, QuietCall, network, machines
<1>5. ASSUME NEW path, delete_file(c, path)
      PROVE  QuietCall \/ DeleteSent(c, path)
  BY <1>5 DEF delete_file, DeleteRefused, QuietCall, network, machines
<1>6. ASSUME NEW fd, NEW count, read_file(c, fd, count)
      PROVE  QuietCall \/ ReadSent(c, fd, count)
  BY <1>6 DEF read_file, ReadRefused, QuietCall, Crash, network, machines
<1>7. ASSUME NEW fd, NEW count, write_file(c, fd, count)
      PROVE  QuietCall \/ WriteSent(c, fd, count)
  BY <1>7 DEF write_file, WriteRefused, QuietCall, Crash, network, machines
<1> QED BY <1>1, <1>2, <1>3, <1>4, <1>5, <1>6, <1>7 DEF ClientCall

\* Nothing is stored of a file that is added.
LEMMA FreshFile ==
    ASSUME UsersInv, Sizes, NetInv, LeftInv, ContentListed, barista_up, deaths = 0,
           next_file_id < MaxFiles
    PROVE  Unwritten(get_new_file_id) /\ get_new_file_id \notin DOMAIN content
<1> DEFINE f == next_file_id + 1
<1>1. f \in FileIds /\ f \notin DOMAIN metadata
  <2>1. /\ next_file_id \in Nat /\ MaxFiles \in Nat
        /\ DOMAIN metadata \subseteq 1 .. next_file_id
    BY SizesAssumption DEF UsersInv, Files, Sizes, FilesGood
  <2> QED BY <2>1 DEF FileIds
<1> HIDE DEF f
<1>2. NothingLeftOfDeletedFiles
  BY TracedLeavesNothing
<1>3. /\ \A n \in Nodes : \A ch \in DOMAIN store[n] : ch[1] # f
      /\ \A ch \in DOMAIN chunk_to_node \cup DOMAIN chunk_to_replica_node : ch[1] # f
  BY <1>1, <1>2 DEF NothingLeftOfDeletedFiles
<1>4. \A n \in Nodes : \A m : On(to_node, n, m) /\ m.op = "write" => m.chunk[1] # f
  BY <1>3 DEF LeftInv, Traced, WritesEntered, Entered
<1> QED BY <1>1, <1>3, <1>4 DEF Unwritten, ContentListed, f, get_new_file_id

\* A file that is added, or none.
LEMMA AddedFile ==
    ASSUME UsersInv, Sizes, NetInv, LeftInv, ContentListed, barista_up, deaths = 0,
           QuietCall
    PROVE  /\ \A f \in DOMAIN content' :
                 \/ f \in DOMAIN content /\ content'[f] = content[f]
                 \/ Unwritten(f)
           /\ \A f \in DOMAIN content :
                 f \in DOMAIN content' /\ content'[f] = content[f]
<1>1. CASE UNCHANGED content
  BY <1>1
<1>2. CASE next_file_id < MaxFiles /\ content' = Add(content, get_new_file_id, <<>>)
  <2>1. Unwritten(get_new_file_id) /\ get_new_file_id \notin DOMAIN content
    BY <1>2, FreshFile
  <2> DEFINE g == get_new_file_id
  <2> HIDE DEF g
  <2>2. /\ DOMAIN content' = DOMAIN content \cup {g}
        /\ \A f \in DOMAIN content : f # g => content'[f] = content[f]
    BY <1>2 DEF Add, g
  <2> QED BY <2>1, <2>2 DEF g
<1> QED BY <1>1, <1>2 DEF QuietCall

\* Steps of a client.
LEMMA CallWithin ==
    ASSUME KeysDiffer, UsersInv, Sizes, NetInv, MapsInv, LeftInv, ContentListed,
           StoresWithin, WritesWithin, barista_up, barista_up', deaths = 0,
           NEW c, ClientCall(c)
    PROVE  StoresWithin' /\ WritesWithin'
<1>0. AllUp /\ Traced /\ ~Crash
  BY DEF LeftInv, Crash
<1>1. CASE QuietCall
  <2>1. UNCHANGED <<store, to_node>>
    BY <1>1 DEF QuietCall
  <2> QED BY <1>1, <2>1, AddedFile, QuietWithin
<1>2. ASSUME NEW fd, NEW count \in Counts, ReadSent(c, fd, count)
      PROVE  StoresWithin' /\ WritesWithin'
  <2>1. count \in Nat /\ file_cursors[fd].offset \in Nat
    BY <1>2, SizesAssumption, SentCursor
  <2>2. /\ UNCHANGED <<store, content>>
        /\ \A k \in Nodes : \A x : On(to_node', k, x) => On(to_node, k, x) \/ x.op = "read"
    BY <1>0, <1>2, <2>1, ReadSentOn
  <2> QED BY <2>2, QuietWithin
<1>3. ASSUME NEW fd, NEW count \in Counts, WriteSent(c, fd, count)
      PROVE  StoresWithin' /\ WritesWithin'
  <2>1. count \in Nat
    BY SizesAssumption
  <2> QED BY <1>0, <1>3, <2>1, WriteWithin
<1>4. ASSUME NEW path, DeleteSent(c, path) PROVE StoresWithin' /\ WritesWithin'
  <2>1. /\ UNCHANGED <<store, content>>
        /\ \A k \in Nodes : \A x : On(to_node', k, x) =>
              On(to_node, k, x) \/ \E ch : x = DeleteMsg(request_id + 1, ch)
    BY <1>0, <1>4, DeleteSentOn DEF Traced
  <2>2. \A id, ch : DeleteMsg(id, ch).op = "delete"
    BY DEF DeleteMsg
  <2> QED BY <2>1, <2>2, QuietWithin
<1> QED BY <1>1, <1>2, <1>3, <1>4, CallKinds

\* Every step keeps the chunks within their files.
LEMMA NextWithin ==
    ASSUME KeysDiffer
    PROVE  /\ UsersInv /\ Sizes /\ NetInv /\ MapsInv /\ LeftInv /\ DataInv /\ WithinInv
           /\ [Next]_vars
           => WithinInv'
<1> SUFFICES ASSUME UsersInv, Sizes, NetInv, MapsInv, LeftInv, DataInv, WithinInv,
                    [Next]_vars
             PROVE  WithinInv'
  OBVIOUS
<1> DEFINE Kind == StoresWithin /\ WritesWithin
<1>0. full \in Nat /\ ContentListed
  BY DEF DataInv
<1> SUFFICES ASSUME barista_up', deaths' = 0, full' = 0 PROVE Kind'
  BY DEF WithinInv
<1>1. ASSUME UNCHANGED <<barista_up, deaths, full, to_node, store>>,
             \A f \in DOMAIN content' : f \in DOMAIN content /\ content'[f] = content[f]
      PROVE  Kind'
  <2>1. Kind
    BY <1>1 DEF WithinInv
  <2> QED BY <1>1, <2>1, QuietWithin
<1>2. CASE UNCHANGED vars
  BY <1>1, <1>2 DEF vars, network, machines
<1>3. ASSUME NEW c \in Procs, ClientCall(c) PROVE Kind'
  <2>1. barista_up /\ UNCHANGED <<deaths, full>>
    BY <1>3, CallMachines DEF ClientCall, machines
  <2>2. Kind
    BY <2>1 DEF WithinInv
  <2> QED BY <1>0, <1>3, <2>1, <2>2, CallWithin
<1>4. ASSUME NEW c \in Procs, ClientEnds(c) PROVE Kind'
  BY <1>1, <1>4 DEF ClientEnds, network
<1>5. ASSUME NEW n \in Nodes, NodeAnswer(n) PROVE Kind'
  <2>1. /\ UNCHANGED <<barista_up, deaths, full, to_node, store>>
        /\ UNCHANGED content \/ \E f : content' = Drop(content, f)
    BY <1>5 DEF NodeAnswer, read_response_handler, write_response_handler,
       delete_response_handler, DeleteComplete, machines, Taken
  <2>2. \A f \in DOMAIN content' : f \in DOMAIN content /\ content'[f] = content[f]
    BY <2>1 DEF Drop
  <2> QED BY <1>1, <2>1, <2>2
<1>6. ASSUME NEW n \in Nodes, Espresso(n) PROVE Kind'
  <2>1. UNCHANGED <<barista_up, deaths>>
    BY <1>6 DEF Espresso
  <2>2. full = 0
    BY <1>0, <1>6 DEF Espresso
  <2>3. Kind /\ WritesTrue /\ StoresListed /\ returned = {}
    BY <2>1, <2>2 DEF WithinInv, DataInv, NetInv, Linked
  <2> QED BY <1>0, <1>6, <2>1, <2>2, <2>3, EspressoWithin
<1>7. ASSUME NEW n \in Nodes, NodeDies(n) PROVE FALSE
  <2>1. deaths \in Nat /\ deaths' = deaths + 1
    BY <1>7 DEF NodeDies, NetInv, Linked
  <2> QED BY <2>1
<1>8. ASSUME NEW n \in Nodes, NodeGone(n) \/ NodeReturns(n) PROVE FALSE
  <2>1. barista_up /\ UNCHANGED deaths
    BY <1>8 DEF NodeGone, NodeReturns, machines
  <2>2. AllUp
    BY <2>1 DEF LeftInv
  <2> QED BY <1>8, <2>2 DEF NodeGone, NodeReturns, AllUp
<1> QED BY <1>2, <1>3, <1>4, <1>5, <1>6, <1>7, <1>8 DEF Next

LEMMA InitWithin == Init => WithinInv
<1> SUFFICES ASSUME Init PROVE WithinInv
  OBVIOUS
<1>1. \A n \in Nodes : \A m : ~On(to_node, n, m)
  BY DEF Init, On
<1>2. \A n \in Nodes : DOMAIN store[n] = {}
  BY DEF Init, EmptyMap
<1> QED BY <1>1, <1>2 DEF WithinInv, StoresWithin, WritesWithin

\* The request has the bytes d of the chunk ch, or a node has sent them, or will
\* when it comes to what it was asked.
Offers(id, ch, d) ==
    \/ ch \in DOMAIN active_reads[id].packets /\ d = active_reads[id].packets[ch]
    \/ \E n \in Nodes : \E x : /\ On(from_node, n, x) /\ x.op = "read" /\ x.id = id
                               /\ ch = x.chunk /\ d = x.data
    \/ \E n \in Nodes : \E x : /\ On(to_node, n, x) /\ x.op = "read" /\ x.id = id
                               /\ ch = x.chunk /\ d = Response(store[n], x).data

\* What the request waits for is what it wants: total bytes of the file s at o.
\* Each piece is offered, if the file reaches as far, and nothing else is.
Promised(id, file, want, s, o, total) ==
    LET q == Spans(StripeSize, ChunkSize, o, total)
    IN  /\ want = Cut(s, o, total)
        /\ \A ch, d : Offers(id, ch, d) =>
              \E i \in DOMAIN q : IsPart(ch, d, file, s, o, q[i])
        /\ \A i \in DOMAIN q :
              Len(s) <= o + q[i].from \/ \E d : Offers(id, PieceChunk(file, q[i]), d)

ReadTrue(id) ==
    LET r == active_reads[id]
    IN  /\ r.file \in DOMAIN content
        /\ {"packets", "want"} \subseteq DOMAIN r /\ IsFiniteSet(DOMAIN r.packets)
        /\ \A ch, d : Offers(id, ch, d) => ch \in Universe /\ ch[1] = r.file
        /\ Junk \notin ToSet(content[r.file]) =>
              \E o, total \in Nat :
                 Promised(id, r.file, r.want, content[r.file], o, total)

ReadInv == barista_up /\ deaths = 0 /\ full = 0 =>
               \A id \in DOMAIN active_reads : ReadTrue(id)

\* It stays true while the file stays and the offers do, whatever a chunk of which
\* two were made.
LEMMA OffersKept ==
    ASSUME NEW id, ReadTrue(id),
           active_reads'[id].file = active_reads[id].file,
           active_reads'[id].want = active_reads[id].want,
           {"packets", "want"} \subseteq DOMAIN active_reads'[id],
           IsFiniteSet(DOMAIN active_reads'[id].packets),
           active_reads[id].file \in DOMAIN content',
           content'[active_reads[id].file] = content[active_reads[id].file],
           \A ch, d : Offers(id, ch, d)' => Offers(id, ch, d),
           \A ch, d : Offers(id, ch, d) => \E e : Offers(id, ch, e)'
    PROVE  ReadTrue(id)'
<1>0. PICK file, want, s : /\ file = active_reads[id].file /\ want = active_reads[id].want
                           /\ s = content[file]
  OBVIOUS
<1>1. /\ active_reads'[id].file = file /\ active_reads'[id].want = want
      /\ content'[file] = s /\ file \in DOMAIN content'
  BY <1>0
<1>2. /\ \A ch, d : Offers(id, ch, d) => ch \in Universe /\ ch[1] = file
      /\ Junk \notin ToSet(s) =>
            \E o, total \in Nat : Promised(id, file, want, s, o, total)
  BY <1>0 DEF ReadTrue
<1>3. ASSUME NEW o \in Nat, NEW total \in Nat, Promised(id, file, want, s, o, total)
      PROVE  Promised(id, file, want, s, o, total)'
  BY <1>3 DEF Promised
<1> HIDE DEF Offers, Promised
<1> QED BY <1>1, <1>2, <1>3 DEF ReadTrue

\* A file that is being read is neither written nor deleted.
LEMMA ReadAlone ==
    ASSUME IsolationInv, RequestsIsolated, NEW id \in DOMAIN active_reads
    PROVE  /\ \A i \in DOMAIN active_writes : active_writes[i].file # active_reads[id].file
           /\ \A i \in DOMAIN active_deletes : active_deletes[i].file # active_reads[id].file
<1> DEFINE Mine(a, i) == [client |-> a[i].client, file |-> a[i].file]
<1>1. Mine(active_reads, id) \in UnderWay
  BY DEF UnderWay
<1>2. ASSUME NEW i \in DOMAIN active_writes, active_writes[i].file = active_reads[id].file
      PROVE  FALSE
  <2>1. Mine(active_writes, i) \in UnderWay
    BY DEF UnderWay
  <2>2. active_writes[i].client = active_reads[id].client
    BY <1>1, <1>2, <2>1 DEF RequestsIsolated
  <2> QED BY <2>2 DEF IsolationInv, OneEach, NoneShared
<1>3. ASSUME NEW i \in DOMAIN active_deletes, active_deletes[i].file = active_reads[id].file
      PROVE  FALSE
  <2>1. Mine(active_deletes, i) \in UnderWay
    BY DEF UnderWay
  <2>2. active_deletes[i].client = active_reads[id].client
    BY <1>1, <1>3, <2>1 DEF RequestsIsolated
  <2> QED BY <2>2 DEF IsolationInv, OneEach, NoneShared
<1> QED BY <1>2, <1>3

\* Steps that store nothing and move no message of the read.
LEMMA StillRead ==
    ASSUME NEW id, ReadTrue(id), UNCHANGED store, active_reads'[id] = active_reads[id],
           \A n \in Nodes : \A x : x.op = "read" /\ x.id = id =>
              /\ On(to_node', n, x) <=> On(to_node, n, x)
              /\ On(from_node', n, x) <=> On(from_node, n, x),
           active_reads[id].file \in DOMAIN content',
           content'[active_reads[id].file] = content[active_reads[id].file]
    PROVE  ReadTrue(id)'
<1>1. \A ch, d : Offers(id, ch, d)' <=> Offers(id, ch, d)
  BY DEF Offers
<1>2. /\ {"packets", "want"} \subseteq DOMAIN active_reads'[id]
      /\ IsFiniteSet(DOMAIN active_reads'[id].packets)
  BY DEF ReadTrue
<1> QED BY <1>1, <1>2, OffersKept

\* A node carries out a request: a read's answer is what it was going to be, and
\* nothing else is of the file of a read.
LEMMA EspressoRead ==
    ASSUME NetInv, LeftInv, IsolationInv, RequestsIsolated, Traced, barista_up,
           NEW n \in Nodes, Espresso(n), returned = {}, full \in Nat, full = 0, full' = 0,
           NEW id \in DOMAIN active_reads, ReadTrue(id)
    PROVE  ReadTrue(id)'
<1> DEFINE m == Head(to_node[n])
           a == Response(store[n], m)
<1>1. /\ to_node[n] # <<>> /\ to_node' = Behead(to_node, n)
      /\ UNCHANGED <<content, active_reads>>
      /\ store' = [store EXCEPT ![n] = Carried(@, m)]
      /\ from_node' = [from_node EXCEPT ![n] = Append(@, a)]
  BY DEF Espresso, Behead, requests
<1>2. /\ \A k \in Nodes : \A x : On(to_node', k, x) => On(to_node, k, x)
      /\ \A k \in Nodes : \A x : On(to_node, k, x) =>
            On(to_node', k, x) \/ (k = n /\ x = m)
      /\ On(to_node, n, m)
  BY <1>1, BeheadOn DEF NetInv
<1>3. m.op \in Ops /\ Known(m.op, m.id)
  BY <1>2, OpOn
<1>4. a.op = m.op /\ a.id = m.id /\ a.chunk = m.chunk
  BY DEF Response
<1> HIDE DEF m
<1>5. \A k \in Nodes : \A x : On(from_node', k, x) <=> On(from_node, k, x) \/ (k = n /\ x = a)
  <2> DEFINE q == from_node[n]
             v == Append(q, a)
  <2>1. Listed(q)
    BY DEF NetInv, Wires
  <2> HIDE DEF q, a
  <2>2. /\ Len(q) \in Nat /\ DOMAIN q = 1 .. Len(q)
        /\ DOMAIN v = 1 .. Len(q) + 1 /\ v[Len(q) + 1] = a
        /\ \A i \in DOMAIN q : v[i] = q[i]
    BY <2>1, AppendListed
  <2> HIDE DEF v
  <2>3. DOMAIN v = DOMAIN q \cup {Len(q) + 1}
    BY <2>2
  <2>4. \A x : (\E i \in DOMAIN v : v[i] = x) <=> (\E i \in DOMAIN q : q[i] = x) \/ x = a
    BY <2>2, <2>3
  <2>5. from_node'[n] = v /\ \A k \in Nodes : k # n => from_node'[k] = from_node[k]
    BY <1>1 DEF v, q, NetInv, Wires
  <2> QED BY <2>4, <2>5 DEF On, q
<1> HIDE DEF a
<1>6. /\ \A j \in Nodes : j # n => store'[j] = store[j]
      /\ m.op = "read" => store'[n] = store[n]
      /\ m.op = "write" => \E o : store'[n] = Add(store[n], m.chunk, o)
      /\ m.op = "delete" => store'[n] = Drop(store[n], m.chunk)
  BY <1>1 DEF LeftInv, Carried
<1>7. m.op # "read" => m.chunk[1] # active_reads[id].file
  <2>1. CASE m.op = "write"
    <3>1. PICK i : i \in WriteLookup(m.id)
      BY <1>3, <2>1 DEF Known
    <3>2. i \in DOMAIN active_writes /\ active_writes[i].file = m.chunk[1]
      BY <1>2, <2>1, <3>1 DEF Traced, FilesOfMessages, WriteLookup
    <3> QED BY <3>2, ReadAlone
  <2>2. CASE m.op = "delete"
    <3>1. m.id \in DOMAIN active_deletes
      BY <1>3, <2>2 DEF Known
    <3>2. active_deletes[m.id].file = m.chunk[1]
      BY <1>2, <2>2, <3>1 DEF Traced, FilesOfMessages
    <3> QED BY <3>1, <3>2, ReadAlone
  <2> QED BY <1>3, <2>1, <2>2 DEF Ops
<1>8. ASSUME NEW j \in Nodes, NEW x, On(to_node, j, x), x.op = "read", x.id = id
      PROVE  Response(store'[j], x) = Response(store[j], x)
  <2>1. x.chunk[1] = active_reads[id].file
    <3>1. Offers(id, x.chunk, Response(store[j], x).data)
      BY <1>8 DEF Offers
    <3> QED BY <3>1 DEF ReadTrue
  <2>2. CASE store'[j] = store[j]
    BY <2>2
  <2>3. CASE j = n /\ m.op # "read"
    <3>1. x.chunk # m.chunk
      BY <1>7, <2>1, <2>3
    <3>2. /\ x.chunk \in DOMAIN store'[j] <=> x.chunk \in DOMAIN store[j]
          /\ x.chunk \in DOMAIN store[j] => store'[j][x.chunk] = store[j][x.chunk]
      BY <1>3, <1>6, <2>3, <3>1 DEF Ops, Add, Drop
    <3> QED BY <3>2 DEF Response
  <2> QED BY <1>6, <2>2, <2>3
<1>9. ASSUME NEW ch, NEW d, Offers(id, ch, d)' PROVE Offers(id, ch, d)
  <2>1. CASE ch \in DOMAIN active_reads[id].packets /\ d = active_reads[id].packets[ch]
    BY <2>1 DEF Offers
  <2>2. ASSUME NEW k \in Nodes, NEW x, On(from_node', k, x), x.op = "read", x.id = id,
               ch = x.chunk, d = x.data
        PROVE  Offers(id, ch, d)
    <3>1. CASE On(from_node, k, x)
      BY <2>2, <3>1 DEF Offers
    <3>2. CASE k = n /\ x = a
      <4>1. On(to_node, n, m) /\ m.op = "read" /\ m.id = id /\ ch = m.chunk
            /\ d = Response(store[n], m).data
        BY <1>2, <1>4, <2>2, <3>2 DEF a
      <4> QED BY <4>1 DEF Offers
    <3> QED BY <1>5, <2>2, <3>1, <3>2
  <2>3. ASSUME NEW k \in Nodes, NEW x, On(to_node', k, x), x.op = "read", x.id = id,
               ch = x.chunk, d = Response(store'[k], x).data
        PROVE  Offers(id, ch, d)
    <3>1. On(to_node, k, x) /\ d = Response(store[k], x).data
      BY <1>2, <1>8, <2>3
    <3> QED BY <2>3, <3>1 DEF Offers
  <2> QED BY <1>1, <1>9, <2>1, <2>2, <2>3 DEF Offers
<1>10. ASSUME NEW ch, NEW d, Offers(id, ch, d) PROVE Offers(id, ch, d)'
  <2>1. CASE ch \in DOMAIN active_reads[id].packets /\ d = active_reads[id].packets[ch]
    BY <1>1, <2>1 DEF Offers
  <2>2. ASSUME NEW k \in Nodes, NEW x, On(from_node, k, x), x.op = "read", x.id = id,
               ch = x.chunk, d = x.data
        PROVE  Offers(id, ch, d)'
    BY <1>5, <2>2 DEF Offers
  <2>3. ASSUME NEW k \in Nodes, NEW x, On(to_node, k, x), x.op = "read", x.id = id,
               ch = x.chunk, d = Response(store[k], x).data
        PROVE  Offers(id, ch, d)'
    <3>1. CASE On(to_node', k, x)
      <4>1. d = Response(store'[k], x).data
        BY <1>8, <2>3
      <4> QED BY <2>3, <3>1, <4>1 DEF Offers
    <3>2. CASE k = n /\ x = m
      <4>1. On(from_node', n, a) /\ a.op = "read" /\ a.id = id /\ ch = a.chunk /\ d = a.data
        BY <1>4, <1>5, <2>3, <3>2 DEF a
      <4> QED BY <4>1 DEF Offers
    <3> QED BY <1>2, <2>3, <3>1, <3>2
  <2> QED BY <1>10, <2>1, <2>2, <2>3 DEF Offers
<1>11. /\ {"packets", "want"} \subseteq DOMAIN active_reads'[id]
       /\ IsFiniteSet(DOMAIN active_reads'[id].packets)
       /\ active_reads[id].file \in DOMAIN content'
  BY <1>1 DEF ReadTrue
<1> QED BY <1>1, <1>9, <1>10, <1>11, OffersKept

\* w is the function m with v for k.
IsWith(w, m, k, v) ==
    /\ DOMAIN w = DOMAIN m \cup {k} /\ w[k] = v
    /\ \A x \in DOMAIN m : x # k => w[x] = m[x]

\* m[k] = v is the assignment to a function.
LEMMA PutAsFunction ==
    ASSUME KeysDiffer, NEW m, DOMAIN m \subseteq Universe, NEW k \in Universe, NEW v
    PROVE  IsWith(Put(m, k, v), m, k, v)
<1>1. \A x \in Universe : SameKey(x, k) <=> x = k
  BY KeysAssumption DEF KeysDiffer, SameKey, StrictWeakOrder
<1>2. (IF Has(m, k) THEN KeyFor(m, k) ELSE k) = k
  BY <1>1 DEF Has, KeyFor
<1> QED BY <1>2 DEF Put, IsWith

\* A read with one more packet.
Received(id, m) == [active_reads[id] EXCEPT !.received = @ + 1,
                                            !.packets = Put(@, m.chunk, m.data)]

\* An answer to a read: its packet is one of those that were offered.
LEMMA PacketTaken ==
    ASSUME KeysDiffer, NetInv, NEW n \in Nodes, read_response_handler(n), NEW m,
           m = Head(from_node[n]), NEW p, p = active_reads[m.id].packets, ReadTrue(m.id)
    PROVE  /\ m.op = "read" /\ m.id \in DOMAIN active_reads
           /\ ReadComplete(m.id, Received(m.id, m))
           /\ UNCHANGED <<to_node, store, content, barista_up>>
           /\ \A k \in Nodes : \A x : On(from_node', k, x) => On(from_node, k, x)
           /\ \A k \in Nodes : \A x : On(from_node, k, x) =>
                 On(from_node', k, x) \/ (k = n /\ x = m)
           /\ Offers(m.id, m.chunk, m.data)
           /\ LET r == Received(m.id, m)
              IN  /\ {"packets", "want"} \subseteq DOMAIN r
                  /\ r.file = active_reads[m.id].file /\ r.want = active_reads[m.id].want
                  /\ DOMAIN r.packets = DOMAIN p \cup {m.chunk}
                  /\ DOMAIN r.packets \subseteq Universe /\ IsFiniteSet(DOMAIN r.packets)
                  /\ r.packets[m.chunk] = m.data
                  /\ \A ch \in DOMAIN p : ch # m.chunk => r.packets[ch] = p[ch]
<1>1. /\ m.op = "read" /\ m.id \in DOMAIN active_reads /\ from_node[n] # <<>>
      /\ ReadComplete(m.id, Received(m.id, m))
      /\ UNCHANGED <<to_node, store, content, barista_up>>
      /\ from_node' = Behead(from_node, n)
  BY DEF read_response_handler, Take, Taken, machines, Behead, Received
<1>2. /\ \A k \in Nodes : \A x : On(from_node', k, x) => On(from_node, k, x)
      /\ \A k \in Nodes : \A x : On(from_node, k, x) =>
            On(from_node', k, x) \/ (k = n /\ x = m)
      /\ On(from_node, n, m)
  BY <1>1, BeheadOn DEF NetInv
<1>3. Offers(m.id, m.chunk, m.data)
  BY <1>1, <1>2 DEF Offers
<1>4. m.chunk \in Universe
  BY <1>3 DEF ReadTrue
<1>5. DOMAIN p \subseteq Universe
  <2>1. \A ch \in DOMAIN p : Offers(m.id, ch, p[ch])
    BY DEF Offers
  <2> QED BY <2>1 DEF ReadTrue
<1> DEFINE v == Put(p, m.chunk, m.data)
<1>6. /\ DOMAIN v = DOMAIN p \cup {m.chunk} /\ v[m.chunk] = m.data
      /\ \A ch \in DOMAIN p : ch # m.chunk => v[ch] = p[ch]
  <2>1. IsWith(Put(p, m.chunk, m.data), p, m.chunk, m.data)
    BY <1>4, <1>5, PutAsFunction
  <2> QED BY <2>1 DEF IsWith
<1>7. IsFiniteSet(DOMAIN v)
  <2>1. IsFiniteSet(DOMAIN p)
    BY DEF ReadTrue
  <2> HIDE DEF v
  <2>2. IsFiniteSet(DOMAIN p \cup {m.chunk})
    BY <2>1, FS_AddElement
  <2> QED BY <1>6, <2>2
<1> HIDE DEF v
<1>8. LET r == Received(m.id, m)
      IN  /\ {"packets", "want"} \subseteq DOMAIN r
          /\ r.file = active_reads[m.id].file /\ r.want = active_reads[m.id].want
          /\ r.packets = v
  <2>1. {"packets", "want"} \subseteq DOMAIN active_reads[m.id]
    BY DEF ReadTrue
  <2>2. "received" \in DOMAIN active_reads[m.id]
    BY <1>1 DEF NetInv, RequestsGood, Waits
  <2>3. Received(m.id, m).packets = v
    BY <2>1, <2>2 DEF Received, v
  <2>4. Received(m.id, m).want = active_reads[m.id].want
    BY <2>1, <2>2 DEF Received
  <2>5. Received(m.id, m).file = active_reads[m.id].file
        /\ DOMAIN Received(m.id, m) = DOMAIN active_reads[m.id]
    BY <2>1, <2>2 DEF Received
  <2> QED BY <2>1, <2>3, <2>4, <2>5
<1> DEFINE r == Received(m.id, m)
<1> HIDE DEF r
<1>9. /\ DOMAIN r.packets = DOMAIN p \cup {m.chunk}
      /\ DOMAIN r.packets \subseteq Universe /\ IsFiniteSet(DOMAIN r.packets)
      /\ r.packets[m.chunk] = m.data
      /\ \A ch \in DOMAIN p : ch # m.chunk => r.packets[ch] = p[ch]
  BY <1>4, <1>5, <1>6, <1>7, <1>8 DEF r
<1> QED BY <1>1, <1>2, <1>3, <1>8, <1>9 DEF r

\* A read that has not got all its answers, and the reads that others wait for.
LEMMA AnswerRead ==
    ASSUME KeysDiffer, NetInv, NEW n \in Nodes, read_response_handler(n),
           \A id \in DOMAIN active_reads : ReadTrue(id), NEW id \in DOMAIN active_reads'
    PROVE  ReadTrue(id)'
<1>0. PICK m, p : m = Head(from_node[n]) /\ p = active_reads[m.id].packets
  OBVIOUS
<1> DEFINE r == Received(m.id, m)
<1>1. m.id \in DOMAIN active_reads
  BY <1>0 DEF read_response_handler
<1>2. /\ m.op = "read"
      /\ ReadComplete(m.id, r)
      /\ UNCHANGED <<to_node, store, content>>
      /\ \A k \in Nodes : \A x : On(from_node', k, x) => On(from_node, k, x)
      /\ \A k \in Nodes : \A x : On(from_node, k, x) =>
            On(from_node', k, x) \/ (k = n /\ x = m)
      /\ Offers(m.id, m.chunk, m.data)
      /\ {"packets", "want"} \subseteq DOMAIN r
      /\ r.file = active_reads[m.id].file /\ r.want = active_reads[m.id].want
      /\ DOMAIN r.packets = DOMAIN p \cup {m.chunk}
      /\ IsFiniteSet(DOMAIN r.packets)
      /\ r.packets[m.chunk] = m.data
      /\ \A ch \in DOMAIN p : ch # m.chunk => r.packets[ch] = p[ch]
  BY <1>0, <1>1, PacketTaken
<1> HIDE DEF r
<1>3. \/ active_reads' = Drop(active_reads, m.id)
      \/ active_reads' = Add(active_reads, m.id, r)
  BY <1>2 DEF ReadComplete
<1>4. CASE id # m.id
  <2>1. id \in DOMAIN active_reads /\ active_reads'[id] = active_reads[id]
    BY <1>3, <1>4 DEF Drop, Add
  <2>2. /\ active_reads[id].file \in DOMAIN content'
        /\ content'[active_reads[id].file] = content[active_reads[id].file]
    BY <1>2, <2>1 DEF ReadTrue
  <2>3. \A k \in Nodes : \A x : x.op = "read" /\ x.id = id =>
              /\ On(to_node', k, x) <=> On(to_node, k, x)
              /\ On(from_node', k, x) <=> On(from_node, k, x)
    BY <1>2, <1>4
  <2> QED BY <1>2, <2>1, <2>2, <2>3, StillRead
<1>5. CASE id = m.id
  <2>1. active_reads'[id] = r
    BY <1>1, <1>3, <1>5 DEF Drop, Add
  <2>2. ASSUME NEW ch, NEW d, Offers(id, ch, d)' PROVE Offers(id, ch, d)
    <3>1. CASE ch \in DOMAIN r.packets /\ d = r.packets[ch]
      <4>1. CASE ch = m.chunk
        BY <1>2, <1>5, <3>1, <4>1
      <4>2. CASE ch # m.chunk
        BY <1>0, <1>2, <1>5, <3>1, <4>2 DEF Offers
      <4> QED BY <4>1, <4>2
    <3>2. CASE ~(ch \in DOMAIN r.packets /\ d = r.packets[ch])
      BY <1>2, <2>1, <2>2, <3>2 DEF Offers
    <3> QED BY <3>1, <3>2
  <2>3. ASSUME NEW ch, NEW d, Offers(id, ch, d) PROVE \E e : Offers(id, ch, e)'
    <3>1. CASE ch \in DOMAIN r.packets
      <4>0. PICK e : e = r.packets[ch]
        OBVIOUS
      <4>1. Offers(id, ch, e)'
        BY <2>1, <3>1, <4>0 DEF Offers
      <4> QED BY <4>1
    <3>2. CASE ch \notin DOMAIN r.packets
      <4>1. ch \notin DOMAIN active_reads[id].packets /\ ch # m.chunk
        BY <1>0, <1>2, <1>5, <3>2
      <4>2. Offers(id, ch, d)'
        BY <1>2, <2>3, <4>1 DEF Offers
      <4> QED BY <4>2
    <3> QED BY <3>1, <3>2
  <2>4. /\ ReadTrue(id)
        /\ active_reads[id].file \in DOMAIN content'
        /\ content'[active_reads[id].file] = content[active_reads[id].file]
    BY <1>1, <1>2, <1>5 DEF ReadTrue
  <2> QED BY <1>2, <1>5, <2>1, <2>2, <2>3, <2>4, OffersKept
<1> QED BY <1>4, <1>5

\* When all answers to a read are there, what it has is what it wants.
LEMMA ReadAnswered ==
    ASSUME KeysDiffer, NetInv, NetInv', ContentListed, NEW n \in Nodes,
           read_response_handler(n), \A id \in DOMAIN active_reads : ReadTrue(id),
           NEW id \in DOMAIN active_reads, id \notin DOMAIN active_reads',
           Junk \notin ToSet(content[active_reads[id].file])
    PROVE  reply'.data = active_reads[id].want
<1>0. PICK m, p, file, s, want :
          /\ m = Head(from_node[n]) /\ p = active_reads[m.id].packets
          /\ file = active_reads[id].file /\ s = content[file]
          /\ want = active_reads[id].want
  OBVIOUS
<1> DEFINE r == Received(m.id, m)
           order == InOrder(r.packets)
           data == FlattenSeq([i \in DOMAIN order |-> r.packets[order[i]]])
<1>1. m.id \in DOMAIN active_reads /\ barista_up
  BY <1>0 DEF read_response_handler, Take
<1>2. /\ m.op = "read"
      /\ ReadComplete(m.id, r)
      /\ UNCHANGED <<to_node, barista_up>>
      /\ \A k \in Nodes : \A x : On(from_node, k, x) =>
            On(from_node', k, x) \/ (k = n /\ x = m)
      /\ Offers(m.id, m.chunk, m.data)
      /\ DOMAIN r.packets = DOMAIN p \cup {m.chunk}
      /\ DOMAIN r.packets \subseteq Universe /\ IsFiniteSet(DOMAIN r.packets)
      /\ r.packets[m.chunk] = m.data
      /\ \A ch \in DOMAIN p : ch # m.chunk => r.packets[ch] = p[ch]
  <2>1. ReadTrue(m.id)
    BY <1>1
  <2> HIDE DEF r
  <2> QED BY SMTT(60), <1>0, <2>1, PacketTaken DEF r
<1>3. id = m.id /\ reply'.data = data
  <2>1. \/ active_reads' = Drop(active_reads, m.id) /\ reply'.data = data
        \/ active_reads' = Add(active_reads, m.id, r)
    <3> HIDE DEF r
    <3> QED BY <1>2 DEF ReadComplete
  <2> HIDE DEF r, data
  <2> QED BY <2>1 DEF Drop, Add
<1> HIDE DEF r
<1>4. \A k \in Nodes : \A x : x.op = "read" /\ x.id = id =>
          ~On(to_node', k, x) /\ ~On(from_node', k, x)
  <2>1. ASSUME NEW k \in Nodes, NEW x, x.op = "read", x.id = id,
               On(to_node', k, x) \/ On(from_node', k, x)
        PROVE  FALSE
    <3>1. OnWire("read", id)'
      BY <2>1 DEF On, OnWire
    <3>2. Known("read", id)'
      BY <1>1, <1>2, <3>1 DEF NetInv, AllKnown
    <3> QED BY <3>2 DEF Known
  <2> QED BY <2>1
<1>5. /\ \A ch \in DOMAIN r.packets : Offers(id, ch, r.packets[ch])
      /\ \A ch, d : Offers(id, ch, d) => ch \in DOMAIN r.packets
  <2>1. ASSUME NEW ch \in DOMAIN r.packets PROVE Offers(id, ch, r.packets[ch])
    <3>1. CASE ch = m.chunk
      BY <1>2, <1>3, <3>1
    <3>2. CASE ch # m.chunk
      <4>1. ch \in DOMAIN p /\ r.packets[ch] = p[ch]
        BY <1>2, <3>2
      <4> QED BY <1>0, <1>3, <4>1 DEF Offers
    <3> QED BY <3>1, <3>2
  <2>2. ASSUME NEW ch, NEW d, Offers(id, ch, d) PROVE ch \in DOMAIN r.packets
    BY <1>0, <1>2, <1>3, <1>4, <2>2 DEF Offers
  <2> QED BY <2>1, <2>2
<1>6. /\ Listed(s)
      /\ \E o, total \in Nat : Promised(id, file, want, s, o, total)
  <2>1. ReadTrue(id)
    OBVIOUS
  <2> HIDE DEF Promised
  <2> QED BY <1>0, <2>1 DEF ReadTrue, ContentListed
<1>7. PICK o \in Nat, total \in Nat : Promised(id, file, want, s, o, total)
  BY <1>6
<1> DEFINE q == Spans(StripeSize, ChunkSize, o, total)
<1>8. /\ want = Cut(s, o, total)
      /\ \A ch \in DOMAIN r.packets : \E i \in DOMAIN q :
            IsPart(ch, r.packets[ch], file, s, o, q[i])
      /\ \A i \in DOMAIN q : \/ PieceChunk(file, q[i]) \in DOMAIN r.packets
                             \/ Len(s) <= o + q[i].from
  <2> HIDE DEF Offers, IsPart
  <2> QED BY <1>5, <1>7 DEF Promised
<1>9. data = Cut(s, o, total)
  <2>1. PICK v : v = r.packets
    OBVIOUS
  <2>2. AllParts(v, file, s, o, q)
    BY <1>2, <1>8, <2>1 DEF AllParts
  <2>3. PacketsInOrder(v) = Cut(s, o, total)
    BY SMTT(40), <1>6, <2>2, PacketsJoined
  <2>4. PacketsInOrder(v) = data
    BY <2>1 DEF PacketsInOrder
  <2> QED BY <2>3, <2>4
<1> QED BY <1>0, <1>3, <1>8, <1>9

\* Answers to other requests: none of them is of a read's file.
LEMMA OtherAnswer ==
    ASSUME NetInv, IsolationInv, RequestsIsolated, NEW n \in Nodes,
           write_response_handler(n) \/ delete_response_handler(n),
           NEW id \in DOMAIN active_reads, ReadTrue(id)
    PROVE  ReadTrue(id)'
<1>0. PICK m : m = Head(from_node[n])
  OBVIOUS
<1>1. /\ m.op # "read" /\ from_node[n] # <<>> /\ from_node' = Behead(from_node, n)
      /\ UNCHANGED <<to_node, store, active_reads>>
      /\ \/ UNCHANGED content
         \/ m.id \in DOMAIN active_deletes /\ content' = Drop(content, active_deletes[m.id].file)
  <2>1. CASE write_response_handler(n)
    BY <1>0, <2>1 DEF write_response_handler, Take, Taken, machines, Behead
  <2>2. CASE delete_response_handler(n)
    <3>1. m.id \in DOMAIN active_deletes
      BY <1>0, <2>2 DEF delete_response_handler
    <3>2. "received" \in DOMAIN active_deletes[m.id]
      BY <3>1 DEF NetInv, RequestsGood, Waits
    <3> DEFINE d == [active_deletes[m.id] EXCEPT !.received = @ + 1]
    <3>3. d.file = active_deletes[m.id].file
      BY <3>2
    <3>4. DeleteComplete(m.id, d)
      BY <1>0, <2>2 DEF delete_response_handler
    <3> HIDE DEF d
    <3>5. UNCHANGED content \/ content' = Drop(content, d.file)
      BY <3>4 DEF DeleteComplete
    <3> QED BY <1>0, <2>2, <3>1, <3>3, <3>5 DEF delete_response_handler, Take, Taken,
            machines, Behead
  <2> QED BY <2>1, <2>2
<1>2. /\ \A k \in Nodes : \A x : On(from_node', k, x) => On(from_node, k, x)
      /\ \A k \in Nodes : \A x : On(from_node, k, x) =>
            On(from_node', k, x) \/ (k = n /\ x = m)
  BY <1>0, <1>1, BeheadOn DEF NetInv
<1>3. /\ active_reads[id].file \in DOMAIN content'
      /\ content'[active_reads[id].file] = content[active_reads[id].file]
  <2>1. active_reads[id].file \in DOMAIN content
    BY DEF ReadTrue
  <2>2. m.id \in DOMAIN active_deletes => active_deletes[m.id].file # active_reads[id].file
    BY ReadAlone
  <2> QED BY <1>1, <2>1, <2>2 DEF Drop
<1>4. \A k \in Nodes : \A x : x.op = "read" /\ x.id = id =>
          /\ On(to_node', k, x) <=> On(to_node, k, x)
          /\ On(from_node', k, x) <=> On(from_node, k, x)
  BY <1>1, <1>2
<1> QED BY <1>1, <1>3, <1>4, StillRead

\* A call that sends nothing.
LEMMA QuietRead ==
    ASSUME UsersInv, Sizes, NetInv, LeftInv, ContentListed, barista_up, deaths = 0,
           QuietCall, NEW id \in DOMAIN active_reads, ReadTrue(id)
    PROVE  ReadTrue(id)'
<1>1. UNCHANGED <<active_reads, to_node, from_node, store>>
  BY DEF QuietCall, requests
<1>2. /\ active_reads[id].file \in DOMAIN content'
      /\ content'[active_reads[id].file] = content[active_reads[id].file]
  BY AddedFile DEF ReadTrue
<1> QED BY <1>1, <1>2, StillRead

\* A file that is being read is not worked on otherwise, after a step.
LEMMA AloneAfter ==
    ASSUME IsolationInv', RequestsIsolated', NEW id \in DOMAIN active_reads'
    PROVE  /\ \A i \in DOMAIN active_writes' : active_writes'[i].file # active_reads'[id].file
           /\ \A i \in DOMAIN active_deletes' : active_deletes'[i].file # active_reads'[id].file
<1> DEFINE Mine(a, i) == [client |-> a[i].client, file |-> a[i].file]
<1>0. /\ NoneShared(active_reads', active_writes')
      /\ NoneShared(active_reads', active_deletes')
  BY DEF IsolationInv, OneEach, NoneShared
<1>1. Mine(active_reads', id) \in UnderWay'
  BY DEF UnderWay
<1>2. ASSUME NEW i \in DOMAIN active_writes', active_writes'[i].file = active_reads'[id].file
      PROVE  FALSE
  <2>1. Mine(active_writes', i) \in UnderWay'
    BY DEF UnderWay
  <2>2. active_writes'[i].client = active_reads'[id].client
    BY <1>1, <1>2, <2>1 DEF RequestsIsolated
  <2> QED BY <1>0, <2>2 DEF NoneShared
<1>3. ASSUME NEW i \in DOMAIN active_deletes', active_deletes'[i].file = active_reads'[id].file
      PROVE  FALSE
  <2>1. Mine(active_deletes', i) \in UnderWay'
    BY DEF UnderWay
  <2>2. active_deletes'[i].client = active_reads'[id].client
    BY <1>1, <1>3, <2>1 DEF RequestsIsolated
  <2> QED BY <1>0, <2>2 DEF NoneShared
<1> QED BY <1>2, <1>3

\* A write, which is not of a read's file, is told apart by its messages.
LEMMA WriteRead ==
    ASSUME KeysDiffer, UsersInv, Sizes, NetInv, MapsInv, AllUp, Traced, NEW c, NEW fd,
           NEW count \in Nat, WriteSent(c, fd, count), ~Crash,
           IsolationInv', RequestsIsolated',
           NEW id \in DOMAIN active_reads, ReadTrue(id)
    PROVE  ReadTrue(id)'
<1>0. PICK w, file : w = request_id + 1 /\ file = FileOf(fd)
  OBVIOUS
<1>1. /\ UNCHANGED store
      /\ file \in DOMAIN metadata
      /\ \E s : content' = [content EXCEPT ![file] = s]
      /\ \E r : r.file = file /\ active_writes' = Add(active_writes, w, r)
      /\ \A k \in Nodes : \A x : On(to_node, k, x) => On(to_node', k, x)
      /\ \A k \in Nodes : \A x : On(to_node', k, x) => On(to_node, k, x) \/ x.op = "write"
  BY <1>0, WriteSentOn DEF Traced
<1>2. UNCHANGED <<active_reads, from_node>>
  BY DEF WriteSent, Sent
<1>3. active_reads[id].file # file
  <2>1. w \in DOMAIN active_writes' /\ active_writes'[w].file = file
    BY <1>1 DEF Add
  <2>2. PICK f : f = active_reads[id].file
    OBVIOUS
  <2>3. id \in DOMAIN active_reads' /\ active_reads'[id].file = f
    BY <1>2, <2>2
  <2>4. active_writes'[w].file # f
    BY <2>1, <2>3, AloneAfter
  <2> QED BY <2>1, <2>2, <2>4
<1>4. /\ active_reads[id].file \in DOMAIN content'
      /\ content'[active_reads[id].file] = content[active_reads[id].file]
  BY <1>1, <1>3 DEF ReadTrue
<1>5. \A k \in Nodes : \A x : x.op = "read" /\ x.id = id =>
          /\ On(to_node', k, x) <=> On(to_node, k, x)
          /\ On(from_node', k, x) <=> On(from_node, k, x)
  BY <1>1, <1>2
<1> QED BY <1>1, <1>2, <1>4, <1>5, StillRead

\* A delete changes no file before it is answered.
LEMMA DeleteRead ==
    ASSUME KeysDiffer, Sizes, NetInv, MapsInv, AllUp, Traced, NEW c, NEW path,
           DeleteSent(c, path), ~Crash, NEW id \in DOMAIN active_reads, ReadTrue(id)
    PROVE  ReadTrue(id)'
<1>1. /\ UNCHANGED <<store, content>>
      /\ \A k \in Nodes : \A x : On(to_node, k, x) => On(to_node', k, x)
      /\ \A k \in Nodes : \A x : On(to_node', k, x) =>
            On(to_node, k, x) \/ \E ch : x = DeleteMsg(request_id + 1, ch)
  BY DeleteSentOn DEF Traced
<1>2. UNCHANGED <<active_reads, from_node>>
  BY DEF DeleteSent, Sent
<1>3. \A i, ch : DeleteMsg(i, ch).op = "delete"
  BY DEF DeleteMsg
<1>4. \A k \in Nodes : \A x : x.op = "read" /\ x.id = id =>
          /\ On(to_node', k, x) <=> On(to_node, k, x)
          /\ On(from_node', k, x) <=> On(from_node, k, x)
  BY <1>1, <1>2, <1>3
<1>5. active_reads[id].file \in DOMAIN content
  BY DEF ReadTrue
<1> QED BY <1>1, <1>2, <1>4, <1>5, StillRead

\* Another read: its messages have its own id.
LEMMA OtherRead ==
    ASSUME KeysDifferInReads, UsersInv, Sizes, NetInv, MapsInv, AllUp, NEW c, NEW fd,
           NEW count \in Counts, ReadSent(c, fd, count), ~Crash,
           NEW id \in DOMAIN active_reads, ReadTrue(id)
    PROVE  ReadTrue(id)'
<1>0. PICK new, file, o, q :
          /\ new = request_id + 1 /\ file = FileOf(fd) /\ o = file_cursors[fd].offset
          /\ q = Spans(StripeSize, ChunkSize, o, count)
  OBVIOUS
<1>1. NewRead(new, file, o, count) /\ Asks(new, file, q)
  BY <1>0, ReadSentAsks
<1>2. id # new
  <2>1. id \in 1 .. request_id /\ request_id \in Nat
    BY DEF UsersInv, Numbers
  <2> QED BY <1>0, <2>1
<1>3. active_reads'[id] = active_reads[id]
  BY <1>1, <1>2 DEF NewRead, Add
<1>4. UNCHANGED from_node
  BY DEF ReadSent, Sent
<1>5. UNCHANGED <<store, content>>
  <2>1. count \in Nat /\ file_cursors[fd].offset \in Nat
    BY SizesAssumption, SentCursor
  <2> QED BY <2>1, ReadSentOn
<1>6. \A k \in Nodes : \A x : x.op = "read" /\ x.id = id =>
          /\ On(to_node', k, x) <=> On(to_node, k, x)
          /\ On(from_node', k, x) <=> On(from_node, k, x)
  BY <1>1, <1>2, <1>4 DEF Asks, IsAsked, ReadMsg
<1>7. active_reads[id].file \in DOMAIN content
  BY DEF ReadTrue
<1> QED BY <1>3, <1>5, <1>6, <1>7, StillRead

\* Every byte the file has in the chunk is on the node.
Whole(file, n, ch) ==
    \A k \in Bytes(file) : PlaceOf(file, k).chunk = ch => StoredAt(n, file, k)

\* A node that has all of the file's chunk answers a piece with the file's bytes.
LEMMA PieceStored ==
    ASSUME StoresWithin, StoresListed, ContentListed, NEW file \in DOMAIN content,
           NEW o \in Nat, NEW total \in Nat,
           NEW s \in GoodSpans(StripeSize, ChunkSize, o, total),
           NEW n \in Nodes, Whole(file, n, PieceChunk(file, s)), NEW id
    PROVE  Response(store[n], ReadMsg(id, file, s)).data
               = Cut(content[file], o + s.from, s.count)
<1> DEFINE ch == PieceChunk(file, s)
           x == ReadMsg(id, file, s)
           b == o + s.from
           a == s.offset
<1>0. PICK f : f = content[file]
  OBVIOUS
<1>1. /\ StripeSize \in Nat /\ StripeSize # 0 /\ ChunkSize \in Nat /\ ChunkSize # 0
  BY SizesAssumption
<1>2. /\ s.from \in Nat /\ s.count \in Nat /\ a \in Nat
      /\ s.stripe \in Nat \ {0} /\ s.chunk \in Nat \ {0}
      /\ (s.stripe - 1) * StripeSize + (s.chunk - 1) * ChunkSize + a = b
  BY DEF GoodSpans
<1>3. b \in Nat
  BY <1>2
<1>4. PICK B : f \in Seq(B)
  BY <1>0 DEF ContentListed, Listed
<1>5. Len(f) \in Nat /\ DOMAIN f = 1 .. Len(f)
  BY <1>4
<1>6. \A k \in Nat : k < Len(f) => k \in Bytes(file)
  BY <1>0, <1>5 DEF Bytes
<1>7. x.op = "read" /\ x.chunk = ch /\ x.offset = a /\ x.count = s.count
  BY DEF ReadMsg, PieceChunk
<1>8. CASE ch \in DOMAIN store[n]
  <2>1. PICK t : t = store[n][ch]
    OBVIOUS
  <2>2. PICK D : t \in Seq(D)
    BY <1>8, <2>1 DEF StoresListed, Listed
  <2>3. Response(store[n], x).data = Cut(t, a, s.count)
    BY <1>7, <1>8, <2>1 DEF Response, Slice, Smaller, Cut
  <2>4. Len(t) - a <= Len(f) - b
    <3> DEFINE u == (s.stripe - 1) * StripeSize
               v == (s.chunk - 1) * ChunkSize
    <3>1. ch[1] = file /\ ch[2] = s.stripe /\ ch[3] = s.chunk
      BY DEF PieceChunk
    <3>2. Ends(ch, Len(t)) \in 0 .. Len(f)
      <4> HIDE DEF ch
      <4> QED BY <1>0, <1>8, <2>1, <3>1 DEF StoresWithin
    <3>3. Ends(ch, Len(t)) = u + v + Len(t)
      BY <3>1 DEF Ends
    <3>4. u \in Int /\ v \in Int /\ u + v + a = b
      BY <1>1, <1>2
    <3>5. Len(t) \in Nat
      BY <2>2
    <3> HIDE DEF u, v, b, a
    <3> QED BY <1>2, <1>3, <1>5, <3>2, <3>3, <3>4, <3>5
  <2>5. ASSUME NEW d \in 0 .. s.count - 1, b + d < Len(f)
        PROVE  a + d < Len(t) /\ t[a + d + 1] = f[b + d + 1]
    <3> DEFINE k == b + d
    <3>1. k \in Nat /\ k \in Bytes(file)
      <4>1. k \in Nat
        BY <1>3
      <4> QED BY <1>6, <2>5, <4>1
    <3>2. Place(StripeSize, ChunkSize, k) = <<s.stripe, s.chunk, a + d>>
      BY <1>1, SpanByte
    <3>3. PlaceOf(file, k).chunk = ch /\ PlaceOf(file, k).offset = a + d
      <4> HIDE DEF k, a
      <4> QED BY <3>2 DEF Place, PlaceOf, PieceChunk
    <3>4. StoredAt(n, file, k)
      <4> HIDE DEF k, ch
      <4> QED BY <3>1, <3>3 DEF Whole, ch
    <3> HIDE DEF ch, a, b
    <3> QED BY <1>0, <2>1, <3>3, <3>4 DEF StoredAt
  <2>6. Cut(t, a, s.count) = Cut(f, b, s.count)
    <3> HIDE DEF a, b
    <3>1. HoldsSame(t, a, f, b, s.count)
      BY <2>4, <2>5 DEF HoldsSame
    <3> QED BY SMTT(30), <1>2, <1>3, <1>4, <2>2, <3>1, CutsAgree
  <2> QED BY <1>0, <2>3, <2>6
<1>9. CASE ch \notin DOMAIN store[n]
  <2>1. Response(store[n], x).data = <<>>
    BY <1>7, <1>9 DEF Response
  <2>2. Len(f) <= b
    <3>1. PICK k \in Nat : /\ k <= o + s.from
                           /\ k \div StripeSize + 1 = s.stripe
                           /\ (k % StripeSize) \div ChunkSize + 1 = s.chunk
      BY <1>1, PieceTouched
    <3>2. PlaceOf(file, k).chunk = ch
      BY <3>1 DEF PlaceOf, PieceChunk
    <3>3. SUFFICES ASSUME ~(Len(f) <= b) PROVE FALSE
      OBVIOUS
    <3>4. k < Len(f)
      BY <1>3, <1>5, <3>1, <3>3
    <3>5. StoredAt(n, file, k)
      BY <1>6, <3>2, <3>4 DEF Whole
    <3> QED BY <1>9, <3>2, <3>5 DEF StoredAt
  <2>3. Cut(f, b, s.count) = <<>>
    BY <1>2, <1>3, <1>4, <2>2, CutBeyond
  <2> QED BY <1>0, <2>1, <2>3
<1> QED BY <1>8, <1>9

\* A file without holes on which nothing is under way is on its chunks' nodes.
LEMMA FileWhole ==
    ASSUME KeysDiffer, NetInv, MapsInv, LeftInv, DataInv, barista_up, deaths = 0,
           full = 0, NEW file \in DOMAIN content, ~Busy(file),
           Junk \notin ToSet(content[file])
    PROVE  /\ \A k \in Bytes(file) : PlaceOf(file, k).chunk \in DOMAIN chunk_to_node
           /\ \A ch \in DOMAIN chunk_to_node : Whole(file, chunk_to_node[ch], ch)
<1>1. CopiesDue /\ AnsweredDataStoredTwice /\ ContentListed
  BY DataStored DEF DataInv
<1>2. \A k \in Bytes(file) : content[file][k + 1] # Junk
  <2>1. PICK f : f = content[file]
    OBVIOUS
  <2>2. Len(f) \in Nat /\ DOMAIN f = 1 .. Len(f)
    BY <1>1, <2>1 DEF ContentListed, Listed
  <2>3. \A i \in DOMAIN f : f[i] # Junk
    BY <2>1 DEF ToSet
  <2>4. \A k \in 0 .. Len(f) - 1 : k + 1 \in DOMAIN f
    BY <2>2
  <2> QED BY <2>1, <2>3, <2>4 DEF Bytes
<1>3. file \notin Deleting
  BY DEF Busy, Deleting
<1>4. \A k \in Bytes(file) : PlaceOf(file, k).chunk \in DOMAIN chunk_to_node
  BY <1>1, <1>2, <1>3 DEF CopiesDue
<1>5. DOMAIN chunk_to_node \subseteq Universe
  BY DEF MapsInv, GoodMaps
<1>6. ASSUME NEW k \in Bytes(file)
      PROVE  StoredAt(chunk_to_node[PlaceOf(file, k).chunk], file, k)
  <2>1. PICK ch : ch = PlaceOf(file, k).chunk
    OBVIOUS
  <2>2. ch \in DOMAIN chunk_to_node
    BY <1>4, <2>1
  <2>3. Get(chunk_to_node, ch) = chunk_to_node[ch]
    BY <1>5, <2>2, MapAsFunction
  <2>4. StoredAt(Get(chunk_to_node, ch), file, k)
    BY <1>1, <1>2, <2>1 DEF AnsweredDataStoredTwice, Bytes
  <2> QED BY <2>1, <2>3, <2>4
<1> QED BY <1>4, <1>6 DEF Whole

\* What a new read is offered: the answers to what it asked for.
Answers(ch, d, new, file, q) ==
    \E i \in DOMAIN q :
        /\ ch = PieceChunk(file, q[i]) /\ ch \in DOMAIN chunk_to_node
        /\ d = Response(store[chunk_to_node[ch]], ReadMsg(new, file, q[i])).data

LEMMA NewOffers ==
    ASSUME UsersInv, NetInv, barista_up, NEW new, new = request_id + 1, NEW file, NEW o,
           NEW count, NEW q, NewRead(new, file, o, count), Asks(new, file, q),
           UNCHANGED <<store, from_node>>, NEW ch, NEW d, Offers(new, ch, d)'
    PROVE  Answers(ch, d, new, file, q)
<1>1. DOMAIN active_reads'[new].packets = {}
  BY DEF NewRead, Add, EmptyMap
<1>2. \A k \in Nodes : \A x : x.op = "read" /\ x.id = new =>
          ~On(to_node, k, x) /\ ~On(from_node, k, x)
  <2>1. ASSUME NEW k \in Nodes, NEW x, x.op = "read", x.id = new,
               On(to_node, k, x) \/ On(from_node, k, x)
        PROVE  FALSE
    <3>1. OnWire("read", new)
      BY <2>1 DEF On, OnWire
    <3>2. new \in DOMAIN active_reads
      BY <3>1 DEF NetInv, AllKnown, Known
    <3>3. new \in 1 .. request_id /\ request_id \in Nat
      BY <3>2 DEF UsersInv, Numbers
    <3> QED BY <3>3
  <2> QED BY <2>1
<1>3. PICK k \in Nodes : \E x : /\ On(to_node', k, x) /\ x.op = "read" /\ x.id = new
                                /\ ch = x.chunk /\ d = Response(store'[k], x).data
  BY <1>1, <1>2 DEF Offers
<1>4. PICK x : /\ On(to_node', k, x) /\ x.op = "read" /\ x.id = new
               /\ ch = x.chunk /\ d = Response(store'[k], x).data
  BY <1>3
<1>5. PICK i \in DOMAIN q : IsAsked(chunk_to_node, new, file, q[i], k, x)
  BY <1>2, <1>4 DEF Asks
<1> QED BY <1>4, <1>5 DEF Answers, IsAsked, ReadMsg, PieceChunk

\* A read that is sent is promised the file as it is.
LEMMA NewPromise ==
    ASSUME KeysDiffer, UsersInv, NetInv, MapsInv, LeftInv, DataInv, WithinInv, barista_up,
           deaths = 0, full = 0, NEW new, new = request_id + 1, NEW file, NEW o \in Nat,
           NEW count \in Nat, NEW q, q = Spans(StripeSize, ChunkSize, o, count),
           NewRead(new, file, o, count), Asks(new, file, q),
           UNCHANGED <<store, from_node>>, ~Busy(file),
           NEW s, s = content[file], Junk \notin ToSet(s)
    PROVE  Promised(new, file, Cut(s, o, count), s, o, count)'
<1> DEFINE G == GoodSpans(StripeSize, ChunkSize, o, count)
<1>1. file \in DOMAIN content
  BY DEF NewRead, DataInv, ContentListed
<1>2. /\ \A k \in Bytes(file) : PlaceOf(file, k).chunk \in DOMAIN chunk_to_node
      /\ \A ch \in DOMAIN chunk_to_node : Whole(file, chunk_to_node[ch], ch)
  BY <1>1, FileWhole
<1>3. StoresWithin /\ StoresListed /\ ContentListed
  BY DEF DataInv, WithinInv
<1>4. /\ StripeSize \in Nat /\ StripeSize # 0 /\ ChunkSize \in Nat /\ ChunkSize # 0
  BY SizesAssumption
<1>5. q \in Seq(G) /\ Tiles(q, 0, count)
  BY <1>4, SpansRun
<1>6. /\ DOMAIN q = 1 .. Len(q) /\ Len(q) \in Nat
      /\ \A i \in DOMAIN q : q[i] \in G
  <2> HIDE DEF G
  <2> QED BY <1>5
<1>7. \A x \in G : x.from \in Nat /\ x.count \in Nat
  BY DEF GoodSpans
<1>8. \A ch \in DOMAIN chunk_to_node : chunk_to_node[ch] \in Nodes
  BY DEF MapsInv, GoodMaps, Nodes
<1>9. ASSUME NEW ch, NEW d, Offers(new, ch, d)'
      PROVE  \E i \in DOMAIN q : IsPart(ch, d, file, s, o, q[i])
  <2>1. PICK i \in DOMAIN q :
            /\ ch = PieceChunk(file, q[i]) /\ ch \in DOMAIN chunk_to_node
            /\ d = Response(store[chunk_to_node[ch]], ReadMsg(new, file, q[i])).data
    BY <1>9, NewOffers DEF Answers
  <2>2. PICK n : n = chunk_to_node[ch]
    OBVIOUS
  <2>3. n \in Nodes /\ Whole(file, n, PieceChunk(file, q[i]))
    BY <1>2, <1>8, <2>1, <2>2
  <2>4. Response(store[n], ReadMsg(new, file, q[i])).data
            = Cut(content[file], o + q[i].from, q[i].count)
    <3> QED BY <1>1, <1>3, <1>6, <2>3, PieceStored
  <2> QED BY <2>1, <2>2, <2>4 DEF IsPart
<1>10. ASSUME NEW i \in DOMAIN q, PieceChunk(file, q[i]) \notin DOMAIN chunk_to_node
       PROVE  Len(s) <= o + q[i].from
  <2>1. Len(s) \in Nat /\ q[i] \in G /\ q[i].from \in Nat
    BY <1>1, <1>3, <1>6, <1>7, ListedIs DEF ContentListed
  <2>2. PICK k \in Nat : /\ k <= o + q[i].from
                         /\ k \div StripeSize + 1 = q[i].stripe
                         /\ (k % StripeSize) \div ChunkSize + 1 = q[i].chunk
    <3>1. PICK x \in G : x = q[i]
      BY <2>1
    <3>2. \E k \in Nat : /\ k <= o + x.from
                         /\ k \div StripeSize + 1 = x.stripe
                         /\ (k % StripeSize) \div ChunkSize + 1 = x.chunk
      BY <1>4, PieceTouched
    <3> QED BY <3>1, <3>2
  <2>3. PlaceOf(file, k).chunk = PieceChunk(file, q[i])
    BY <2>2 DEF PlaceOf, PieceChunk
  <2>4. k \notin Bytes(file)
    BY <1>2, <1>10, <2>3
  <2>5. ~(k < Len(s))
    BY <2>1, <2>4 DEF Bytes
  <2> QED BY <2>1, <2>2, <2>5
<1>11. ASSUME NEW i \in DOMAIN q
       PROVE  Len(s) <= o + q[i].from \/ \E d : Offers(new, PieceChunk(file, q[i]), d)'
  <2>1. CASE Broken(chunk_to_node, file, q, i)
    <3>1. PICK j \in 1 .. i : PieceChunk(file, q[j]) \notin DOMAIN chunk_to_node
      BY <2>1 DEF Broken
    <3>2. j \in DOMAIN q /\ (j = i \/ j < i)
      BY <1>6
    <3>3. Len(s) <= o + q[j].from
      BY <1>10, <3>1, <3>2
    <3>4. q[j].from <= q[i].from
      <4>1. CASE j < i
        <5>1. q[j].from + q[j].count <= q[i].from
          <6> HIDE DEF G
          <6> QED BY <1>5, <1>7, <3>2, <4>1, TilesRise
        <5> QED BY <1>6, <1>7, <3>2, <5>1
      <4>2. CASE j = i
        BY <1>6, <1>7, <4>2
      <4> QED BY <3>2, <4>1, <4>2
    <3>5. Len(s) \in Nat /\ q[i].from \in Nat /\ q[j].from \in Nat
      BY <1>1, <1>3, <1>6, <1>7, <3>2, ListedIs DEF ContentListed
    <3> QED BY <3>3, <3>4, <3>5
  <2>2. ASSUME NEW k \in Nodes, NEW x, On(to_node', k, x),
               IsAsked(chunk_to_node, new, file, q[i], k, x)
        PROVE  \E d : Offers(new, PieceChunk(file, q[i]), d)'
    <3>1. x.op = "read" /\ x.id = new /\ x.chunk = PieceChunk(file, q[i])
      BY <2>2 DEF IsAsked, ReadMsg, PieceChunk
    <3>2. PICK d : d = Response(store[k], x).data
      OBVIOUS
    <3>3. d = Response(store'[k], x).data
      BY <3>2
    <3>4. Offers(new, x.chunk, d)'
      BY <2>2, <3>1, <3>3 DEF Offers
    <3> QED BY <3>1, <3>4
  <2> QED BY <2>1, <2>2 DEF Asks
<1> QED BY <1>9, <1>11 DEF Promised

\* So a read that is sent begins well.
LEMMA ReadBegins ==
    ASSUME KeysDiffer, KeysDifferInReads, UsersInv, Sizes, NetInv, MapsInv, LeftInv,
           DataInv, WithinInv, IsolationInv', RequestsIsolated', barista_up, deaths = 0,
           full = 0, NEW c, NEW fd, NEW count \in Counts, ReadSent(c, fd, count), ~Crash,
           NEW new, new = request_id + 1
    PROVE  new \in DOMAIN active_reads' /\ ReadTrue(new)'
<1>0. PICK file, o, q, s :
          /\ file = FileOf(fd) /\ o = file_cursors[fd].offset
          /\ q = Spans(StripeSize, ChunkSize, o, count) /\ s = content[file]
  OBVIOUS
<1>1. NewRead(new, file, o, count) /\ Asks(new, file, q)
  BY <1>0, ReadSentAsks DEF LeftInv
<1>2. count \in Nat /\ o \in Nat
  BY <1>0, SizesAssumption, SentCursor
<1>3. /\ UNCHANGED <<store, content, from_node>>
      /\ active_writes' = active_writes /\ active_deletes' = active_deletes
  <2>1. UNCHANGED <<store, content, active_writes, active_deletes>>
    BY <1>0, <1>2, ReadSentOn DEF LeftInv
  <2> QED BY <2>1 DEF ReadSent, Sent
<1>4. PICK r : /\ active_reads' = Add(active_reads, new, r)
               /\ {"packets", "want"} \subseteq DOMAIN r
               /\ r.file = file /\ r.packets = EmptyMap /\ r.want = Slice(s, o, count)
  BY <1>0, <1>1 DEF NewRead
<1>5. new \in DOMAIN active_reads' /\ active_reads'[new] = r
  BY <1>4 DEF Add
<1>6. ~Busy(file)
  BY <1>3, <1>4, <1>5, AloneAfter DEF Busy
<1>7. file \in DOMAIN content' /\ content'[file] = s
  BY <1>0, <1>1, <1>3 DEF NewRead, DataInv, ContentListed
<1>8. IsFiniteSet(DOMAIN r.packets)
  <2>1. DOMAIN r.packets = {}
    BY <1>4 DEF EmptyMap
  <2> QED BY <2>1, FS_EmptySet
<1>9. ASSUME NEW ch, NEW d, Offers(new, ch, d)' PROVE ch \in Universe /\ ch[1] = file
  <2>1. Answers(ch, d, new, file, q)
    BY <1>0, <1>1, <1>3, <1>9, NewOffers
  <2>2. DOMAIN chunk_to_node \subseteq Universe
    BY DEF MapsInv, GoodMaps
  <2> QED BY <2>1, <2>2 DEF Answers, PieceChunk
<1>10. ASSUME Junk \notin ToSet(s)
       PROVE  Promised(new, file, r.want, s, o, count)'
  <2>1. Promised(new, file, Cut(s, o, count), s, o, count)'
    BY <1>0, <1>1, <1>2, <1>3, <1>6, <1>10, NewPromise
  <2>2. r.want = Cut(s, o, count)
    BY <1>4 DEF Slice, Smaller, Cut
  <2> QED BY <2>1, <2>2
<1> HIDE DEF Promised
<1>11. ReadTrue(new)'
  BY <1>2, <1>4, <1>5, <1>7, <1>8, <1>9, <1>10 DEF ReadTrue
<1> QED BY <1>5, <1>11

\* Calls of clients.
LEMMA CallReads ==
    ASSUME KeysDiffer, KeysDifferInReads, UsersInv, Sizes, NetInv, MapsInv, LeftInv,
           DataInv, WithinInv, IsolationInv', RequestsIsolated', barista_up, barista_up',
           deaths = 0, full = 0, NEW c, ClientCall(c),
           \A id \in DOMAIN active_reads : ReadTrue(id), NEW id \in DOMAIN active_reads'
    PROVE  ReadTrue(id)'
<1>0. AllUp /\ Traced /\ ContentListed /\ ~Crash
  BY DEF LeftInv, DataInv, Crash
<1>1. CASE QuietCall
  <2>1. id \in DOMAIN active_reads
    BY <1>1 DEF QuietCall, requests
  <2> QED BY <1>0, <1>1, <2>1, QuietRead
<1>2. ASSUME NEW fd, NEW count \in Counts, ReadSent(c, fd, count) PROVE ReadTrue(id)'
  <2>0. PICK new : new = request_id + 1
    OBVIOUS
  <2>1. \E r : active_reads' = Add(active_reads, new, r)
    BY <1>0, <1>2, <2>0, ReadSentAsks DEF NewRead
  <2>2. CASE id = new
    BY <1>0, <1>2, <2>0, <2>2, ReadBegins
  <2>3. CASE id # new
    <3>1. id \in DOMAIN active_reads
      BY <2>1, <2>3 DEF Add
    <3> QED BY <1>0, <1>2, <3>1, OtherRead
  <2> QED BY <2>2, <2>3
<1>3. ASSUME NEW fd, NEW count \in Counts, WriteSent(c, fd, count) PROVE ReadTrue(id)'
  <2>1. count \in Nat
    BY SizesAssumption
  <2>2. id \in DOMAIN active_reads
    BY <1>0, <1>3 DEF WriteSent
  <2> QED BY <1>0, <1>3, <2>1, <2>2, WriteRead
<1>4. ASSUME NEW path, DeleteSent(c, path) PROVE ReadTrue(id)'
  <2>1. id \in DOMAIN active_reads
    BY <1>0, <1>4 DEF DeleteSent
  <2> QED BY <1>0, <1>4, <2>1, DeleteRead
<1> QED BY <1>1, <1>2, <1>3, <1>4, CallKinds

\* Every step keeps what is said of the reads.
LEMMA NextReads ==
    ASSUME KeysDiffer, KeysDifferInReads
    PROVE  /\ UsersInv /\ Sizes /\ NetInv /\ MapsInv /\ IsolationInv /\ RequestsIsolated
           /\ IsolationInv' /\ RequestsIsolated' /\ LeftInv /\ DataInv /\ WithinInv
           /\ ReadInv /\ [Next]_vars
           => ReadInv'
<1> SUFFICES ASSUME UsersInv, Sizes, NetInv, MapsInv, IsolationInv, RequestsIsolated,
                    IsolationInv', RequestsIsolated', LeftInv, DataInv, WithinInv,
                    ReadInv, [Next]_vars, barista_up', deaths' = 0, full' = 0,
                    NEW id \in DOMAIN active_reads'
             PROVE  ReadTrue(id)'
  BY DEF ReadInv
<1>0. full \in Nat
  BY DEF DataInv
<1>1. ASSUME UNCHANGED <<barista_up, deaths, full, active_reads, to_node, from_node,
                         store, content>>
      PROVE  ReadTrue(id)'
  <2>1. id \in DOMAIN active_reads /\ ReadTrue(id)
    BY <1>1 DEF ReadInv
  <2>2. active_reads[id].file \in DOMAIN content
    BY <2>1 DEF ReadTrue
  <2> QED BY <1>1, <2>1, <2>2, StillRead
<1>2. CASE UNCHANGED vars
  BY <1>1, <1>2 DEF vars, network, machines, requests
<1>3. ASSUME NEW c \in Procs, ClientCall(c) PROVE ReadTrue(id)'
  <2>1. barista_up /\ UNCHANGED <<deaths, full>>
    BY <1>3, CallMachines DEF ClientCall, machines
  <2>2. \A i \in DOMAIN active_reads : ReadTrue(i)
    BY <2>1 DEF ReadInv
  <2> QED BY <1>3, <2>1, <2>2, CallReads
<1>4. ASSUME NEW c \in Procs, ClientEnds(c) PROVE ReadTrue(id)'
  BY <1>1, <1>4 DEF ClientEnds, network, requests
<1>5. ASSUME NEW n \in Nodes, NodeAnswer(n) PROVE ReadTrue(id)'
  <2>1. UNCHANGED <<barista_up, deaths, full>>
    BY <1>5 DEF NodeAnswer, read_response_handler, write_response_handler,
       delete_response_handler, machines
  <2>2. \A i \in DOMAIN active_reads : ReadTrue(i)
    BY <2>1 DEF ReadInv
  <2>3. CASE read_response_handler(n)
    BY <2>2, <2>3, AnswerRead
  <2>4. CASE write_response_handler(n) \/ delete_response_handler(n)
    <3>1. id \in DOMAIN active_reads
      BY <2>4 DEF write_response_handler, delete_response_handler
    <3> QED BY <2>2, <2>4, <3>1, OtherAnswer
  <2> QED BY <1>5, <2>3, <2>4 DEF NodeAnswer
<1>6. ASSUME NEW n \in Nodes, Espresso(n) PROVE ReadTrue(id)'
  <2>1. UNCHANGED <<barista_up, deaths, active_reads>>
    BY <1>6 DEF Espresso, requests
  <2>2. full = 0
    BY <1>0, <1>6 DEF Espresso
  <2>3. id \in DOMAIN active_reads /\ ReadTrue(id) /\ Traced /\ returned = {}
    BY <2>1, <2>2 DEF ReadInv, LeftInv, NetInv, Linked
  <2> QED BY <1>0, <1>6, <2>1, <2>2, <2>3, EspressoRead
<1>7. ASSUME NEW n \in Nodes, NodeDies(n) PROVE FALSE
  <2>1. deaths \in Nat /\ deaths' = deaths + 1
    BY <1>7 DEF NodeDies, NetInv, Linked
  <2> QED BY <2>1
<1>8. ASSUME NEW n \in Nodes, NodeGone(n) \/ NodeReturns(n) PROVE FALSE
  <2>1. barista_up /\ UNCHANGED deaths
    BY <1>8 DEF NodeGone, NodeReturns, machines
  <2>2. AllUp
    BY <2>1 DEF LeftInv
  <2> QED BY <1>8, <2>2 DEF NodeGone, NodeReturns, AllUp
<1> QED BY <1>2, <1>3, <1>4, <1>5, <1>6, <1>7, <1>8 DEF Next

\* Only the handler of read answers ends a read.
LEMMA ReadEnds ==
    ASSUME [Next]_vars, NEW id \in DOMAIN active_reads, id \notin DOMAIN active_reads'
    PROVE  \E n \in Nodes : read_response_handler(n)
<1>1. ASSUME UNCHANGED active_reads PROVE FALSE
  BY <1>1
<1>2. CASE UNCHANGED vars
  BY <1>1, <1>2 DEF vars, requests
<1>3. ASSUME Crash PROVE FALSE
  BY <1>1, <1>3 DEF Crash, requests
<1>4. ASSUME NEW c \in Procs, ClientCall(c) PROVE FALSE
  <2>1. CASE QuietCall
    BY <1>1, <2>1 DEF QuietCall, requests
  <2>2. ASSUME NEW fd, NEW count, ReadSent(c, fd, count), ~Crash PROVE FALSE
    <3>1. \E h : ReadStarted(c, fd, count, h)
      BY <2>2, ReadSentDoes
    <3> QED BY <3>1 DEF ReadStarted, Add
  <2>3. ASSUME NEW fd, NEW count, WriteSent(c, fd, count), ~Crash PROVE FALSE
    BY <1>1, <2>3 DEF WriteSent
  <2>4. ASSUME NEW path, DeleteSent(c, path), ~Crash PROVE FALSE
    BY <1>1, <2>4 DEF DeleteSent
  <2> QED BY <1>3, <1>4, <2>1, <2>2, <2>3, <2>4, CallKinds
<1>5. ASSUME NEW n \in Nodes, write_response_handler(n) \/ delete_response_handler(n)
      PROVE  FALSE
  BY <1>1, <1>5 DEF write_response_handler, delete_response_handler
<1>6. ASSUME NEW n \in Nodes, \/ Espresso(n) \/ NodeDies(n) \/ NodeGone(n) \/ NodeReturns(n)
      PROVE  FALSE
  BY <1>1, <1>6 DEF Espresso, NodeDies, NodeGone, NodeReturns, requests
<1>7. ASSUME NEW c \in Procs, ClientEnds(c) PROVE FALSE
  BY <1>1, <1>7 DEF ClientEnds, requests
<1> QED BY <1>2, <1>4, <1>5, <1>6, <1>7 DEF Next, NodeAnswer

\* There is no read in the beginning.
LEMMA InitReads == Init => ReadInv
  BY DEF Init, EmptyMap, ReadInv

\* A step that answers a read answers it with what it wanted.
ReadsTrue ==
    \A id \in DOMAIN active_reads \ DOMAIN active_reads' :
        /\ deaths = 0 /\ full = 0
        /\ Junk \notin ToSet(content[active_reads[id].file])
        => reply'.data = active_reads[id].want

LEMMA AnswersTrue ==
    ASSUME KeysDiffer, NetInv, NetInv', DataInv, ReadInv, [Next]_vars
    PROVE  ReadsTrue
<1> SUFFICES ASSUME NEW id \in DOMAIN active_reads, id \notin DOMAIN active_reads',
                    deaths = 0, full = 0,
                    Junk \notin ToSet(content[active_reads[id].file])
             PROVE  reply'.data = active_reads[id].want
  BY DEF ReadsTrue
<1>1. PICK n \in Nodes : read_response_handler(n)
  BY ReadEnds
<1>2. \A i \in DOMAIN active_reads : ReadTrue(i)
  BY <1>1 DEF read_response_handler, Take, ReadInv
<1>3. ContentListed
  BY DEF DataInv
<1> QED BY <1>1, <1>2, <1>3, ReadAnswered

\* Before the first fault a read is answered with the bytes the file held at the
\* cursor when the read began, joined in order, in whatever order the two
\* primaries answered, and whatever other clients had sent meanwhile; of a file
\* without holes.  For clients that are users of their own, and chunks that are
\* different keys to Barista's maps, those that a read asks for in vain included.
THEOREM ReadsBeforeFaults ==
    ASSUME OneClientPerUser, KeysDiffer, KeysDifferInReads
    PROVE  Spec => [][ReadsTrue]_vars
<1>1. Init => MapsInv
  BY DEF Init, MapsInv, GoodMaps, EmptyMap
<1>2. Init => LeftInv /\ DataInv /\ WithinInv /\ ReadInv
  BY InitLeft, InitData, InitWithin, InitReads
<1>3. Spec => [](UsersInv /\ Sizes /\ NetInv)
  BY NetInvariance
<1>4. Spec => []IsolationInv
  BY IsolationInvariance
<1>5. Spec => []RequestsIsolated
  BY RequestsHaveTheirFiles
<1>6. UsersInv /\ Sizes /\ NetInv /\ MapsInv /\ [Next]_vars => MapsInv'
  BY NextMaps
<1>7. /\ UsersInv /\ Sizes /\ NetInv /\ MapsInv /\ IsolationInv
      /\ RequestsIsolated /\ RequestsIsolated' /\ LeftInv /\ [Next]_vars
      => LeftInv'
  BY NextLeft
<1>8. /\ UsersInv /\ Sizes /\ NetInv /\ MapsInv /\ RequestsIsolated' /\ LeftInv
      /\ DataInv /\ [Next]_vars
      => DataInv'
  BY NextData
<1>9. /\ UsersInv /\ Sizes /\ NetInv /\ MapsInv /\ LeftInv /\ DataInv /\ WithinInv
      /\ [Next]_vars
      => WithinInv'
  BY NextWithin
<1>10. /\ UsersInv /\ Sizes /\ NetInv /\ MapsInv /\ IsolationInv /\ RequestsIsolated
       /\ IsolationInv' /\ RequestsIsolated' /\ LeftInv /\ DataInv /\ WithinInv
       /\ ReadInv /\ [Next]_vars
       => ReadInv'
  BY NextReads
<1>11. NetInv /\ NetInv' /\ DataInv /\ ReadInv /\ [Next]_vars => ReadsTrue
  BY AnswersTrue
<1> QED BY <1>1, <1>2, <1>3, <1>4, <1>5, <1>6, <1>7, <1>8, <1>9, <1>10, <1>11, PTL DEF Spec

\* No node dies and no disk is full.
NoFaults == deaths = 0 /\ full = 0

\* So where no fault may happen, reads are correct.
THEOREM ReadsAnswerTheFile ==
    ASSUME OneClientPerUser, KeysDiffer, KeysDifferInReads, MaxFaults = 0
    PROVE  Spec => ReadCorrect
<1>1. Init => NoFaults
  BY DEF Init, NoFaults
<1>2. NoFaults /\ [Next]_vars => NoFaults'
  <2> SUFFICES ASSUME NoFaults, [Next]_vars PROVE NoFaults'
    OBVIOUS
  <2>1. ~(deaths + full < MaxFaults)
    BY DEF NoFaults
  <2>2. CASE UNCHANGED vars
    BY <2>2 DEF vars, machines, NoFaults
  <2>3. ASSUME NEW c \in Procs, ClientCall(c) \/ ClientEnds(c) PROVE NoFaults'
    BY <2>3, CallMachines DEF ClientEnds, machines, NoFaults
  <2>4. ASSUME NEW n \in Nodes, NodeAnswer(n) PROVE NoFaults'
    BY <2>4 DEF NodeAnswer, read_response_handler, write_response_handler,
       delete_response_handler, machines, NoFaults
  <2>5. ASSUME NEW n \in Nodes, \/ Espresso(n) \/ NodeDies(n) \/ NodeGone(n) \/ NodeReturns(n)
        PROVE  NoFaults'
    BY <2>1, <2>5 DEF Espresso, NodeDies, NodeGone, NodeReturns, machines, NoFaults
  <2> QED BY <2>2, <2>3, <2>4, <2>5 DEF Next
<1>3. Spec => [][ReadsTrue]_vars
  BY ReadsBeforeFaults
<1> DEFINE Correct ==
        \A id \in DOMAIN active_reads \ DOMAIN active_reads' :
           LET r == active_reads[id]
           IN  /\ deaths <= 1 /\ returned = {}
               /\ full = 0
               /\ Junk \notin ToSet(content[r.file])
               => reply'.data = r.want
<1>4. NoFaults /\ ReadsTrue => Correct
  BY DEF ReadsTrue, NoFaults
<1>5. ReadCorrect <=> [][Correct]_vars
  BY DEF ReadCorrect
<1> HIDE DEF Correct
<1> QED BY <1>1, <1>2, <1>3, <1>4, <1>5, PTL DEF Spec

===============================================================================
