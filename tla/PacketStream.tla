----------------------------- MODULE PacketStream -----------------------------
(***************************************************************************)
(* The packets of Packets.tla on TCP connections: clients and one Espresso *)
(* node, each connected to Barista.  A connection is a stream of bytes in  *)
(* each direction, without the boundaries of the packets: a send copies    *)
(* its bytes to the socket's buffer and blocks while that is full, the     *)
(* network carries segments of at most MSS bytes, and the receiver has its *)
(* own buffer.  All three receivers work alike: they peek at the first     *)
(* word, allocate that many bytes and call recv once.                      *)
(*                                                                         *)
(* When less than the whole packet has arrived, recv returns what there    *)
(* is; the code sees that and goes on with the uninitialized rest of its   *)
(* buffer, and the bytes that arrive later are taken for a new packet.     *)
(* From then on anything may happen: the model notes the direction that    *)
(* was `torn' and stops.                                                   *)
(*                                                                         *)
(* What Barista does with a call is abstracted to any answer it may give,  *)
(* at once or after as many chunk requests as the call has pieces of one   *)
(* byte.                                                                   *)
(***************************************************************************)
EXTENDS Packets, FiniteSets

CONSTANTS
    Clients,        \* DecafsClient processes
    Calls,          \* client -> the calls it makes: records [flag, p]
    Results,        \* results of calls that Barista answers at once
    MSS,            \* largest segment
    Capacities,     \* sizes a socket buffer may have
    MaxCalls,       \* bound on the calls of all clients
    MaxChunks,      \* bound on the chunk requests of one call
    MayFail,        \* the chunk numbers whose reads and writes may fail
    Node, Barista,  \* the two other processes
    None            \* no call, nothing torn

\* A buffer holds at least the packet with which a connection starts.
ASSUME StreamAssumption ==
    /\ {MSS, MaxCalls} \subseteq Nat \ {0}
    /\ MaxChunks \in Nat /\ MaxChunks >= 2
    /\ Capacities \subseteq {n \in Nat : n >= header_size + 4}
    /\ MayFail \subseteq 1 .. MaxChunks
    /\ IsFiniteSet(Clients)
    /\ Node \notin Clients /\ Barista \notin Clients \cup {Node}

\* Ids, results and the sizes of packets fit into their words.
ASSUME WidthAssumption ==
    /\ MaxCalls \in Word32
    /\ file_packet_size + MaxChunks \in Int32
    /\ Results \subseteq Int32

Message(call, flag, p) == [call |-> call, flag |-> flag, p |-> p]

\* The fields of the packets that the methods of DecafsClient build: numbers
\* that fit into the packets' members, at most MaxChunks bytes to read, or to
\* write from a buffer of that size.  An offset is an off_t, which is wider than
\* its word.
CallFields(flag) ==
    CASE flag = "OPEN"    -> [open_flags : Int32, filepath : Strings]
      [] flag = "READ"    -> [fd : Word32, count : 0 .. MaxChunks]
      [] flag = "WRITE"   -> {p \in [fd : Word32, count : 0 .. MaxChunks,
                                     data : Seq(0 .. Radix - 1)] :
                                 Len(p.data) = p.count}
      [] flag = "CLOSE"   -> [fd : Word32]
      [] flag = "LSEEK"   -> [fd : Int32, offset : Int, whence : Int32]
      [] flag = "REMOVE"  -> [filepath : Strings]
      [] flag = "MKDIR"   -> [mode : Word32, filepath : Strings]
      [] flag = "OPENDIR" -> [filepath : Strings]
      [] flag = "FILE_STORAGE_STAT" -> [filepath : Strings]

ASSUME CallsAssumption ==
    \A c \in Clients : \A call \in Calls[c] :
        /\ call.flag \in {"OPEN", "READ", "WRITE", "CLOSE", "LSEEK", "REMOVE",
                          "MKDIR", "OPENDIR", "FILE_STORAGE_STAT"}
        /\ call.p \in CallFields(call.flag)
        /\ Len(Serialized(call.flag, call.p)) \in Int32
        /\ \A k \in 1 .. MaxCalls : Message(k, call.flag, call.p) # None

Ends == Clients \cup {Node}

\* The two directions of each connection, named by the end that is not Barista.
Channels == Ends \X {"up", "down"}

ASSUME NoneAssumption == None \notin Channels

Sender(ch) == IF ch[2] = "up" THEN ch[1] ELSE Barista

VARIABLES
    pending,    \* channel -> bytes a blocked send has still to copy
    wire,       \* channel -> bytes in the sender's buffer
    arrived,    \* channel -> bytes in the receiver's buffer
    flight,     \* channel -> the packets sent and not handled yet, each with
                \* the number of the call it belongs to
    capacity,   \* size of each buffer
    calling,    \* client -> the call it waits in, or None
    active,     \* request id -> Barista's request
    request_id, \* the last request id given out
    calls,      \* number of calls so far
    torn        \* the channel whose receiver got part of a packet, or None

vars == <<pending, wire, arrived, flight, capacity, calling, active,
          request_id, calls, torn>>

Nothing == [x \in {} |-> x]

-------------------------------------------------------------------------------
(* The network *)

Lesser(a, b) == IF a < b THEN a ELSE b

\* A process in a send that has not copied all its bytes does nothing else.
Blocked(proc) == \E ch \in Channels : Sender(ch) = proc /\ pending[ch] # <<>>

\* A mistake: a buffer takes everything.
RoomForAll(held, n) == n

\* How many of n bytes a buffer takes that holds the bytes held.
Room(held, n) == Lesser(n, capacity - Len(held))

\* sendToServer or sendToClient for each of the packets ms, on channel ch.
Send(ch, ms) ==
    LET bytes == FlattenSeq([i \in DOMAIN ms |-> Serialized(ms[i].flag, ms[i].p)])
        n == Room(wire[ch], Len(bytes))
    IN  /\ wire' = [wire EXCEPT ![ch] = @ \o SubSeq(bytes, 1, n)]
        /\ pending' = [pending EXCEPT ![ch] = SubSeq(bytes, n + 1, Len(bytes))]

\* A blocked send copies what its buffer takes.
SendMore(ch) ==
    LET n == Room(wire[ch], Len(pending[ch]))
    IN  /\ torn = None
        /\ pending[ch] # <<>> /\ n > 0
        /\ wire' = [wire EXCEPT ![ch] = @ \o SubSeq(pending[ch], 1, n)]
        /\ pending' = [pending EXCEPT ![ch] = SubSeq(@, n + 1, Len(@))]
        /\ UNCHANGED <<arrived, flight, capacity, calling, active, request_id,
                       calls, torn>>

\* TCP sends a segment: as much as there is, fits and is allowed.
Deliver(ch) ==
    LET n == Room(arrived[ch], Lesser(MSS, Len(wire[ch])))
    IN  /\ torn = None
        /\ n > 0
        /\ arrived' = [arrived EXCEPT ![ch] = @ \o SubSeq(wire[ch], 1, n)]
        /\ wire' = [wire EXCEPT ![ch] = SubSeq(@, n + 1, Len(@))]
        /\ UNCHANGED <<pending, flight, capacity, calling, active, request_id,
                       calls, torn>>

-------------------------------------------------------------------------------
(* Receiving *)

\* select says the channel is readable, and its receiver is not in a send.
Readable(ch, receiver) ==
    /\ torn = None
    /\ ~Blocked(receiver)
    /\ arrived[ch] # <<>>

\* The peeked size is complete, and so is the packet.
Whole(ch) == /\ Len(arrived[ch]) >= 4
             /\ SizeOfPacket(arrived[ch]) <= Len(arrived[ch])

Buffer(ch) == SubSeq(arrived[ch], 1, SizeOfPacket(arrived[ch]))

\* The packet on ch is taken, and the packets ms are sent on channel out.
Handle(ch, out, ms) ==
    /\ arrived' = [arrived EXCEPT ![ch] =
                       SubSeq(@, SizeOfPacket(@) + 1, Len(@))]
    /\ flight' = [flight EXCEPT ![ch] = IF @ = <<>> THEN @ ELSE Tail(@),
                                ![out] = @ \o ms]
    /\ Send(out, ms)

\* recv returned less than the packet.
Tear(ch) ==
    /\ ~Whole(ch)
    /\ torn' = ch
    /\ UNCHANGED <<pending, wire, arrived, flight, capacity, calling, active,
                   request_id, calls>>

-------------------------------------------------------------------------------
(* Clients *)

\* A mistake: a client makes a call while it waits for the answer to another.
CallAnytime(c, call) ==
    /\ torn = None
    /\ ~Blocked(c)
    /\ calls < MaxCalls
    /\ calls' = calls + 1
    /\ calling' = [calling EXCEPT ![c] = Message(calls', call.flag, call.p)]
    /\ flight' = [flight EXCEPT ![<<c, "up">>] = Append(@, calling'[c])]
    /\ Send(<<c, "up">>, <<calling'[c]>>)
    /\ UNCHANGED <<arrived, capacity, active, request_id, torn>>

\* A method of DecafsClient sends its packet and waits in wait_for_packet.
Call(c, call) ==
    /\ torn = None
    /\ calling[c] = None
    /\ ~Blocked(c)
    /\ calls < MaxCalls
    /\ calls' = calls + 1
    /\ calling' = [calling EXCEPT ![c] = Message(calls', call.flag, call.p)]
    /\ flight' = [flight EXCEPT ![<<c, "up">>] = Append(@, calling'[c])]
    /\ Send(<<c, "up">>, <<calling'[c]>>)
    /\ UNCHANGED <<arrived, capacity, active, request_id, torn>>

\* The class a method takes the packet for that it receives, whatever its flag.
ResponseFlag(flag) ==
    CASE flag = "OPEN"    -> "OPEN_RESPONSE"
      [] flag = "READ"    -> "READ_RESPONSE"
      [] flag = "WRITE"   -> "WRITE_RESPONSE"
      [] flag = "CLOSE"   -> "CLOSE_RESPONSE"
      [] flag = "LSEEK"   -> "LSEEK_RESPONSE"
      [] flag = "REMOVE"  -> "REMOVE_RESPONSE"
      [] flag = "FILE_STORAGE_STAT" -> "FILE_STORAGE_STAT_RESPONSE"

\* The method returns what the packet says.
Return(c) ==
    LET ch == <<c, "down">>
    IN  /\ calling[c] # None
        /\ Readable(ch, c)
        /\ \/ /\ Whole(ch)
              /\ Handle(ch, <<c, "up">>, <<>>)
              /\ calling' = [calling EXCEPT ![c] = None]
              /\ UNCHANGED <<capacity, active, request_id, calls, torn>>
           \/ Tear(ch)

-------------------------------------------------------------------------------
(* Barista *)

\* The chunk requests of a call: one for each byte of a read or a write, two
\* for a delete, whose fd is an uninitialized value.
ChunkRequests(call, flag, p, id, junk) ==
    LET Chunk(i, fd, data) == [id |-> id, fd |-> fd, file_id |-> 1,
                               stripe_id |-> 1, chunk_num |-> i, offset |-> 0,
                               count |-> 1, data |-> data]
    IN  CASE flag = "READ" ->
               [i \in 1 .. p.count |->
                   Message(call, "READ_CHUNK", Chunk(i, p.fd, <<>>))]
          [] flag = "WRITE" ->
               [i \in 1 .. p.count |->
                   Message(call, "WRITE_CHUNK", Chunk(i, p.fd, <<p.data[i]>>))]
          [] flag = "REMOVE" ->
               [i \in 1 .. 2 |->
                   Message(call, "DELETE_CHUNK", Chunk(i, junk, <<>>))]

\* An answer without the nodes: send_open_result and the like.
AnswersAtOnce(flag, p, r) ==
    CASE flag \in {"OPEN", "CLOSE", "LSEEK", "REMOVE"} -> [result |-> r]
      [] flag = "READ"  -> [fd |-> 0, result |-> Lesser(r, 0), data |-> <<>>]
      [] flag = "WRITE" -> [fd |-> 0, result |-> Lesser(r, 0)]
      [] flag = "FILE_STORAGE_STAT" -> [result |-> p.filepath]

\* The node has registered, so that Barista sends chunk requests to it.
NodeUp == \A i \in DOMAIN flight[<<Node, "up">>] :
              flight[<<Node, "up">>][i].flag # "ESPRESSO_INIT"

get_new_request_id == request_id + 1

\* handleMessageFromClient on a client's connection: the class is chosen by
\* the flag.  make_dir and open_dir do nothing and answer nothing.
TakeCall(c) ==
    LET ch   == <<c, "up">>
        flag == FlagOf(arrived[ch])
        p    == Deserialized(flag, Buffer(ch))
        call == IF flight[ch] = <<>> THEN 0 ELSE Head(flight[ch]).call
    IN  /\ Readable(ch, Barista)
        /\ \/ /\ Whole(ch)
              /\ flag \in {"DECAFS_CLIENT_INIT", "MKDIR", "OPENDIR"}
              /\ Handle(ch, <<c, "down">>, <<>>)
              /\ UNCHANGED <<capacity, calling, active, request_id, calls, torn>>
           \/ /\ Whole(ch)
              /\ flag \notin {"DECAFS_CLIENT_INIT", "MKDIR", "OPENDIR"}
              /\ \E r \in Results :
                    Handle(ch, <<c, "down">>,
                           <<Message(call, ResponseFlag(flag),
                                     AnswersAtOnce(flag, p, r))>>)
              /\ UNCHANGED <<capacity, calling, active, request_id, calls, torn>>
           \/ /\ Whole(ch)
              /\ flag = "REMOVE" \/ (flag \in {"READ", "WRITE"} /\ p.count > 0)
              /\ NodeUp
              /\ request_id' = get_new_request_id
              /\ \E junk \in {0, Modulus - 1} :
                    Handle(ch, <<Node, "down">>,
                           ChunkRequests(call, flag, p, request_id', junk))
              /\ active' = [i \in DOMAIN active \cup {request_id'} |->
                              IF i # request_id' THEN active[i]
                              ELSE [client |-> c, call |-> call, flag |-> flag,
                                    left |-> IF flag = "REMOVE" THEN 2 ELSE p.count,
                                    sum |-> 0,
                                    data |-> [k \in 1 .. MaxChunks |-> <<>>]]]
              /\ UNCHANGED <<capacity, calling, calls, torn>>
           \/ Tear(ch)

\* The request r after the chunk answer p.
Counted(r, p) ==
    [r EXCEPT !.left = @ - 1, !.sum = @ + p.count,
              !.data = IF p.data = <<>> THEN @
                       ELSE [@ EXCEPT ![p.chunk_num] = p.data]]

\* The answer to the client when all chunks have answered: what they read is
\* joined in the order of the chunks.
Answer(r) ==
    LET data == FlattenSeq(r.data)
    IN  Message(r.call, ResponseFlag(r.flag),
                CASE r.flag = "READ"   -> [fd |-> 1, result |-> Len(data), data |-> data]
                  [] r.flag = "WRITE"  -> [fd |-> 1, result |-> r.sum]
                  [] r.flag = "REMOVE" -> [result |-> 0])

\* A mistake: the request is not tested for being done, and every chunk that
\* answers makes an answer.
AnswerEach(r) == <<Answer(r)>>

\* A mistake: the answer to a request is never sent.
AnswerNever(r) == <<>>

AnswerIfDone(r) == IF r.left = 0 THEN <<Answer(r)>> ELSE <<>>

\* handleMessageFromClient on the node's connection.
TakeAnswer ==
    LET ch   == <<Node, "up">>
        flag == FlagOf(arrived[ch])
        p    == Deserialized(flag, Buffer(ch))
        call == IF flight[ch] = <<>> THEN 0 ELSE Head(flight[ch]).call
    IN  /\ Readable(ch, Barista)
        /\ \/ /\ Whole(ch)
              /\ flag = "ESPRESSO_INIT"
              /\ Handle(ch, <<Node, "down">>, <<>>)
              /\ UNCHANGED <<capacity, calling, active, request_id, calls, torn>>
           \/ /\ Whole(ch)
              /\ flag # "ESPRESSO_INIT"
              /\ p.id \in DOMAIN active
              /\ LET r == Counted(active[p.id], p)
                 IN  /\ Handle(ch, <<r.client, "down">>, AnswerIfDone(r))
                     /\ active' = IF r.left = 0
                                  THEN [i \in DOMAIN active \ {p.id} |-> active[i]]
                                  ELSE [active EXCEPT ![p.id] = r]
              /\ UNCHANGED <<capacity, calling, request_id, calls, torn>>
           \/ Tear(ch)

-------------------------------------------------------------------------------
(* The node *)

\* process_read_packet, process_write_packet and process_delete_packet: the
\* answer has the fields of the request, the count or -1, and the bytes read.
Processed(flag, p) ==
    LET failed == {[p EXCEPT !.data = <<>>, !.count = -1] :
                       i \in MayFail \cap {p.chunk_num}}
    IN  CASE flag = "READ_CHUNK" ->
                {"READ_CHUNK_RESPONSE"} \X
                    ({[p EXCEPT !.data = <<p.chunk_num>>]} \cup failed)
          [] flag = "WRITE_CHUNK" ->
                {"WRITE_CHUNK_RESPONSE"} \X ({[p EXCEPT !.data = <<>>]} \cup failed)
          [] flag = "DELETE_CHUNK" -> {<<"DELETE_CHUNK_RESPONSE", p>>}

\* EspressoClient::handleMessageFromServer.
NodeStep ==
    LET ch   == <<Node, "down">>
        flag == FlagOf(arrived[ch])
        p    == Deserialized(flag, Buffer(ch))
        call == IF flight[ch] = <<>> THEN 0 ELSE Head(flight[ch]).call
    IN  /\ Readable(ch, Node)
        /\ \/ /\ Whole(ch)
              /\ \E a \in Processed(flag, p) :
                    Handle(ch, <<Node, "up">>,
                           <<Message(call, a[1], a[2])>>)
              /\ UNCHANGED <<capacity, calling, active, request_id, calls, torn>>
           \/ Tear(ch)

-------------------------------------------------------------------------------
(* The system *)

\* Every connection has just been made and its first packet, connectionEstablished's,
\* is on its way.
Registration(e) == IF e = Node
                   THEN Message(0, "ESPRESSO_INIT", [node_id |-> 1])
                   ELSE Message(0, "DECAFS_CLIENT_INIT", [user_id |-> 1])

Init ==
    LET first(ch) == ch[2] = "up"
    IN  /\ pending = [ch \in Channels |-> <<>>]
        /\ wire = [ch \in Channels |->
                      IF first(ch) THEN LET m == Registration(ch[1])
                                        IN  Serialized(m.flag, m.p)
                      ELSE <<>>]
        /\ arrived = [ch \in Channels |-> <<>>]
        /\ flight = [ch \in Channels |->
                        IF first(ch) THEN <<Registration(ch[1])>> ELSE <<>>]
        /\ capacity \in Capacities
        /\ calling = [c \in Clients |-> None]
        /\ active = Nothing
        /\ request_id = 0
        /\ calls = 0
        /\ torn = None

Next == \/ \E ch \in Channels : SendMore(ch) \/ Deliver(ch)
        \/ \E c \in Clients : \/ \E call \in Calls[c] : Call(c, call)
                              \/ TakeCall(c)
                              \/ Return(c)
        \/ TakeAnswer
        \/ NodeStep

Spec == Init /\ [][Next]_vars

-------------------------------------------------------------------------------
(* Properties *)

\* Buffers within their capacity, and counters within their bounds.
TypeOK ==
    /\ \A ch \in Channels : /\ Len(wire[ch]) <= capacity
                            /\ Len(arrived[ch]) <= capacity
    /\ \A i \in DOMAIN active : active[i].left \in 1 .. MaxChunks
    /\ torn \in Channels \cup {None}
    /\ calls \in 0 .. MaxCalls /\ request_id \in 0 .. calls

\* The numbers of a packet that its class has room for.
Representable(m) == m.flag = "LSEEK" => m.p.offset \in Int32

\* What the receiver of a packet of this class uses of it: a delete has
\* nothing in fd, offset and count.
Used(flag, p) == IF flag \in {"DELETE_CHUNK", "DELETE_CHUNK_RESPONSE"}
                 THEN <<p.id, p.file_id, p.stripe_id, p.chunk_num>> ELSE p

\* The channels on which the next recv gets a whole packet.
Ready == {ch \in Channels : torn = None /\ Whole(ch)}

\* The class for which the packet on ch is taken: a client does not look at
\* the flag.
TakenFor(ch) == IF ch[1] \in Clients /\ ch[2] = "down" /\ calling[ch[1]] # None
                THEN ResponseFlag(calling[ch[1]].flag) ELSE FlagOf(arrived[ch])

\* Whatever segments carried it, a packet that is received whole is the next
\* one its sender sent, is read as its own class, and every field comes out as
\* it went in, negative results through unsigned words included.
HandledAsSent ==
    \A ch \in Ready :
        /\ flight[ch] # <<>>
        /\ LET m == Head(flight[ch])
           IN  /\ TakenFor(ch) = m.flag
               /\ Representable(m) =>
                     Used(m.flag, Deserialized(m.flag, Buffer(ch))) = Used(m.flag, m.p)

\* An answer is taken for the call it was given to: by Barista, which goes by
\* the request id, though several calls of several clients are active, and by
\* the client, which looks at neither id nor flag.
AnswersOwnCall ==
    \A ch \in Ready :
        LET m == Head(flight[ch])
        IN  /\ ch[2] = "down" /\ ch[1] \in Clients =>
                  calling[ch[1]] # None /\ calling[ch[1]].call = m.call
            /\ ch = <<Node, "up">> /\ m.flag # "ESPRESSO_INIT" =>
                  IdOf(arrived[ch]) \in DOMAIN active
                  /\ active[IdOf(arrived[ch])].call = m.call

\* A client waits for its answer before it sends again, so that a packet on
\* its connection is torn only if it cannot come in one segment: it is longer
\* than one, or longer than what the registration packet leaves of one.
ClientsTornOnlyByLength ==
    torn # None /\ torn[1] \in Clients =>
        \E i \in DOMAIN flight[torn] :
            LET m == flight[torn][i]
            IN  Len(Serialized(m.flag, m.p)) + 16 > Lesser(MSS, capacity)

\* The answers of the node to all chunk requests that can be outstanding fit
\* into the buffers of its connection.
AnswersFit ==
    2 * capacity >= Cardinality(Clients) * MaxChunks * (file_packet_size + 1)

\* The client waits for the answer to a call that Barista answers.
AwaitsAnswer(c) == /\ AnswersFit
                   /\ calling[c] # None
                   /\ calling[c].flag \notin {"MKDIR", "OPENDIR"}

\* A kernel can carry bytes on, or a process has something to read.
Busy ==
    \E ch \in Channels :
        \/ Room(wire[ch], Len(pending[ch])) > 0
        \/ Room(arrived[ch], Len(wire[ch])) > 0
        \/ Readable(ch, IF ch[2] = "up" THEN Barista ELSE ch[1])

\* While a client waits for an answer that Barista gives, something goes on
\* that brings it nearer, if the buffers are large enough and no packet is
\* torn.  With smaller buffers Barista can be blocked in its sends to the node
\* while the node is blocked in its own to Barista, and all calls wait for ever.
NoStandstill ==
    torn = None /\ (\E c \in Clients : AwaitsAnswer(c)) => Busy
===============================================================================
