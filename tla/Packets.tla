------------------------------- MODULE Packets -------------------------------
(***************************************************************************)
(* The packets of network_core and their bytes.  A packet starts with      *)
(* three words: its size, an id and a flag; the words of its class follow, *)
(* then a string with its NUL or the data of a read or a write.  A class   *)
(* has a constructor that lays out the packet and one that reads a buffer; *)
(* here X(p) gives the bytes of the fields p, and XOf(buf) the fields of   *)
(* the bytes buf.                                                          *)
(*                                                                         *)
(* A word is four bytes, the lowest first, and holds a number modulo       *)
(* Modulus, whatever the type it was stored from.  Radix is the number of  *)
(* values of a byte.  A string is a sequence of bytes, none of them 0.     *)
(***************************************************************************)
EXTENDS Integers, Sequences, SequencesExt

CONSTANT Radix          \* 256 in the code

ASSUME RadixAssumption == Radix \in Nat /\ Radix % 2 = 0 /\ Radix > 3

Modulus == Radix * Radix * Radix * Radix

-------------------------------------------------------------------------------
(* Words and bytes *)

Unsigned(v) == v % Modulus

\* A word read into an int32_t.
Signed(w) == IF w < Modulus \div 2 THEN w ELSE w - Modulus

\* The numbers a uint32_t and an int32_t can hold.
Word32 == 0 .. Modulus - 1

Int32 == -(Modulus \div 2) .. Modulus \div 2 - 1

\* The four bytes of a number.
Bytes(v) == LET w == Unsigned(v)
            IN  <<w % Radix, (w \div Radix) % Radix,
                  (w \div (Radix * Radix)) % Radix,
                  w \div (Radix * Radix * Radix)>>

Words(ws) == FlattenSeq([i \in DOMAIN ws |-> Bytes(ws[i])])

CString(s) == Append(s, 0)

\* base[i] of the words that start at byte `at'.
Word(buf, at, i) ==
    LET k == at + 4 * i
    IN  buf[k + 1] + Radix * (buf[k + 2] + Radix * (buf[k + 3] + Radix * buf[k + 4]))

\* Strings that a C string can hold.
Strings == Seq(1 .. Radix - 1)

DataAt(buf, at, count) == SubSeq(buf, at + 1, at + count)

\* The string that starts at byte `at': up to the first NUL.
CStringAt(buf, at) ==
    LET end == CHOOSE n \in 0 .. Len(buf) - at :
                  /\ at + n = Len(buf) \/ buf[at + n + 1] = 0
                  /\ \A k \in 0 .. n - 1 : buf[at + k + 1] # 0
    IN  DataAt(buf, at, end)

-------------------------------------------------------------------------------
(* The header *)

\* enum packet_flags, from 0.
packet_flags ==
    <<"ESPRESSO_INIT", "DECAFS_CLIENT_INIT", "OPEN", "READ", "WRITE", "CLOSE",
      "LSEEK", "REMOVE", "SYNC", "STAT_FS", "MKDIR", "OPENDIR", "READDIR",
      "FILE_STORAGE_STAT", "OPEN_RESPONSE", "READ_RESPONSE", "WRITE_RESPONSE",
      "CLOSE_RESPONSE", "LSEEK_RESPONSE", "REMOVE_RESPONSE", "SYNC_RESPONSE",
      "STAT_FS_RESPONSE", "MKDIR_RESPONSE", "OPENDIR_RESPONSE",
      "READDIR_RESPONSE", "FILE_STORAGE_STAT_RESPONSE", "READ_CHUNK",
      "WRITE_CHUNK", "DELETE_CHUNK", "READ_CHUNK_RESPONSE",
      "WRITE_CHUNK_RESPONSE", "DELETE_CHUNK_RESPONSE">>

header_size == 12

Header(size, id, flag) ==
    Words(<<size, id, CHOOSE i \in 0 .. Len(packet_flags) - 1 :
                          packet_flags[i + 1] = flag>>)

\* Packet: the header, and behind it what the derived class lays out.
Packet(id, flag, body) == Header(header_size + Len(body), id, flag) \o body

SizeOfPacket(buf) == Signed(Word(buf, 0, 0))

IdOf(buf) == Word(buf, 0, 1)

FlagOf(buf) == packet_flags[Word(buf, 0, 2) + 1]

-------------------------------------------------------------------------------
(* FilePacket and FileDataPacket, the bases of the read and write packets *)

file_packet_size == header_size + 24

FilePacket(id, flag, p, data) ==
    Packet(id, flag, Words(<<p.fd, p.file_id, p.stripe_id, p.chunk_num,
                             p.offset, p.count>>) \o data)

FilePacketOf(buf) ==
    LET base(i) == Word(buf, header_size, i)
    IN  [id |-> IdOf(buf), fd |-> base(0), file_id |-> base(1),
         stripe_id |-> base(2), chunk_num |-> base(3), offset |-> base(4),
         count |-> Signed(base(5)), data |-> <<>>]

\* The data goes with the packet if the count is positive.
FileDataPacket(id, flag, p) ==
    FilePacket(id, flag, p,
               IF p.count > 0 THEN SubSeq(p.data, 1, p.count) ELSE <<>>)

\* A mistake: the data is taken from behind the common header.
FileDataPacketOfHeader(buf) ==
    LET p == FilePacketOf(buf)
    IN  IF p.count > 0
        THEN [p EXCEPT !.data = DataAt(buf, header_size, p.count)] ELSE p

FileDataPacketOf(buf) ==
    LET p == FilePacketOf(buf)
    IN  IF p.count > 0
        THEN [p EXCEPT !.data = DataAt(buf, file_packet_size, p.count)] ELSE p

\* The fields of a client's read or write: only the descriptor, the count and
\* the data are used.
ClientFile(fd, count, data) ==
    [fd |-> fd, file_id |-> 0, stripe_id |-> 0, chunk_num |-> 0, offset |-> 0,
     count |-> count, data |-> data]

-------------------------------------------------------------------------------
(* Registration *)

EspressoInit(p) == Packet(0, "ESPRESSO_INIT", Words(<<p.node_id>>))

EspressoInitOf(buf) == [node_id |-> Word(buf, header_size, 0)]

DecafsClientInit(p) == Packet(0, "DECAFS_CLIENT_INIT", Words(<<p.user_id>>))

DecafsClientInitOf(buf) == [user_id |-> Word(buf, header_size, 0)]

-------------------------------------------------------------------------------
(* Barista and the nodes *)

ReadChunkRequest(p) == FilePacket(p.id, "READ_CHUNK", p, <<>>)

ReadChunkRequestOf(buf) == FilePacketOf(buf)

WriteChunkRequest(p) == FileDataPacket(p.id, "WRITE_CHUNK", p)

WriteChunkRequestOf(buf) == FileDataPacketOf(buf)

ReadChunkResponse(p) == FileDataPacket(p.id, "READ_CHUNK_RESPONSE", p)

ReadChunkResponseOf(buf) == FileDataPacketOf(buf)

WriteChunkResponse(p) == FilePacket(p.id, "WRITE_CHUNK_RESPONSE", p, <<>>)

WriteChunkResponseOf(buf) == FilePacketOf(buf)

\* The constructors of the delete packets pass their own fd on, which nothing
\* has set: p.fd is any number.
DeleteChunkRequest(p) ==
    FilePacket(p.id, "DELETE_CHUNK", [p EXCEPT !.offset = -1, !.count = -1], <<>>)

DeleteChunkRequestOf(buf) == FilePacketOf(buf)

DeleteChunkResponse(p) ==
    FilePacket(p.id, "DELETE_CHUNK_RESPONSE",
               [p EXCEPT !.offset = -1, !.count = -1], <<>>)

DeleteChunkResponseOf(buf) == FilePacketOf(buf)

-------------------------------------------------------------------------------
(* Clients' calls and the answers to them *)

OpenPacket(p) == Packet(0, "OPEN", Words(<<p.open_flags>>) \o CString(p.filepath))

OpenPacketOf(buf) == [open_flags |-> Signed(Word(buf, header_size, 0)),
                      filepath |-> CStringAt(buf, header_size + 4)]

\* The response is an unsigned member that open() returns as an int.
OpenPacketResponse(p) == Packet(0, "OPEN_RESPONSE", Words(<<p.result>>))

OpenPacketResponseOf(buf) == [result |-> Signed(Word(buf, header_size, 0))]

ReadRequest(p) == FilePacket(0, "READ", ClientFile(p.fd, p.count, <<>>), <<>>)

ReadRequestOf(buf) == LET p == FilePacketOf(buf)
                      IN  [fd |-> p.fd, count |-> p.count]

ReadResponsePacket(p) ==
    FileDataPacket(0, "READ_RESPONSE", ClientFile(p.fd, p.result, p.data))

ReadResponsePacketOf(buf) ==
    LET p == FileDataPacketOf(buf)
    IN  [fd |-> p.fd, result |-> p.count, data |-> p.data]

WritePacket(p) == FileDataPacket(0, "WRITE", ClientFile(p.fd, p.count, p.data))

WritePacketOf(buf) == LET p == FileDataPacketOf(buf)
                      IN  [fd |-> p.fd, count |-> p.count, data |-> p.data]

WriteResponsePacket(p) ==
    FilePacket(0, "WRITE_RESPONSE", ClientFile(p.fd, p.result, <<>>), <<>>)

WriteResponsePacketOf(buf) == LET p == FilePacketOf(buf)
                              IN  [fd |-> p.fd, result |-> p.count]

ClosePacket(p) == Packet(0, "CLOSE", Words(<<p.fd>>))

ClosePacketOf(buf) == [fd |-> Word(buf, header_size, 0)]

CloseResponsePacket(p) == Packet(0, "CLOSE_RESPONSE", Words(<<p.result>>))

CloseResponsePacketOf(buf) == [result |-> Signed(Word(buf, header_size, 0))]

\* The caller's off_t is cut to an int32_t.
LseekPacket(p) == Packet(0, "LSEEK", Words(<<p.fd, p.offset, p.whence>>))

LseekPacketOf(buf) == [fd |-> Signed(Word(buf, header_size, 0)),
                       offset |-> Signed(Word(buf, header_size, 1)),
                       whence |-> Signed(Word(buf, header_size, 2))]

LseekResponsePacket(p) == Packet(0, "LSEEK_RESPONSE", Words(<<p.result>>))

LseekResponsePacketOf(buf) == [result |-> Signed(Word(buf, header_size, 0))]

RemovePacket(p) == Packet(0, "REMOVE", CString(p.filepath))

RemovePacketOf(buf) == [filepath |-> CStringAt(buf, header_size)]

RemoveResponsePacket(p) == Packet(0, "REMOVE_RESPONSE", Words(<<p.result>>))

RemoveResponsePacketOf(buf) == [result |-> Signed(Word(buf, header_size, 0))]

MkdirPacket(p) == Packet(0, "MKDIR", Words(<<p.mode>>) \o CString(p.filepath))

MkdirPacketOf(buf) == [mode |-> Word(buf, header_size, 0),
                       filepath |-> CStringAt(buf, header_size + 4)]

OpendirPacket(p) == Packet(0, "OPENDIR", CString(p.filepath))

OpendirPacketOf(buf) == [filepath |-> CStringAt(buf, header_size)]

FileStorageStatPacket(p) == Packet(0, "FILE_STORAGE_STAT", CString(p.filepath))

FileStorageStatPacketOf(buf) == [filepath |-> CStringAt(buf, header_size)]

FileStorageStatResponsePacket(p) ==
    Packet(0, "FILE_STORAGE_STAT_RESPONSE", CString(p.result))

FileStorageStatResponsePacketOf(buf) == [result |-> CStringAt(buf, header_size)]

-------------------------------------------------------------------------------
(* All classes *)

\* The bytes of a packet of the class with this flag.
Serialized(flag, p) ==
    CASE flag = "ESPRESSO_INIT"         -> EspressoInit(p)
      [] flag = "DECAFS_CLIENT_INIT"    -> DecafsClientInit(p)
      [] flag = "READ_CHUNK"            -> ReadChunkRequest(p)
      [] flag = "WRITE_CHUNK"           -> WriteChunkRequest(p)
      [] flag = "DELETE_CHUNK"          -> DeleteChunkRequest(p)
      [] flag = "READ_CHUNK_RESPONSE"   -> ReadChunkResponse(p)
      [] flag = "WRITE_CHUNK_RESPONSE"  -> WriteChunkResponse(p)
      [] flag = "DELETE_CHUNK_RESPONSE" -> DeleteChunkResponse(p)
      [] flag = "OPEN"                  -> OpenPacket(p)
      [] flag = "OPEN_RESPONSE"         -> OpenPacketResponse(p)
      [] flag = "READ"                  -> ReadRequest(p)
      [] flag = "READ_RESPONSE"         -> ReadResponsePacket(p)
      [] flag = "WRITE"                 -> WritePacket(p)
      [] flag = "WRITE_RESPONSE"        -> WriteResponsePacket(p)
      [] flag = "CLOSE"                 -> ClosePacket(p)
      [] flag = "CLOSE_RESPONSE"        -> CloseResponsePacket(p)
      [] flag = "LSEEK"                 -> LseekPacket(p)
      [] flag = "LSEEK_RESPONSE"        -> LseekResponsePacket(p)
      [] flag = "REMOVE"                -> RemovePacket(p)
      [] flag = "REMOVE_RESPONSE"       -> RemoveResponsePacket(p)
      [] flag = "MKDIR"                 -> MkdirPacket(p)
      [] flag = "OPENDIR"               -> OpendirPacket(p)
      [] flag = "FILE_STORAGE_STAT"     -> FileStorageStatPacket(p)
      [] flag = "FILE_STORAGE_STAT_RESPONSE" -> FileStorageStatResponsePacket(p)

\* The fields the class with this flag reads from the bytes buf.
Deserialized(flag, buf) ==
    CASE flag = "ESPRESSO_INIT"         -> EspressoInitOf(buf)
      [] flag = "DECAFS_CLIENT_INIT"    -> DecafsClientInitOf(buf)
      [] flag = "READ_CHUNK"            -> ReadChunkRequestOf(buf)
      [] flag = "WRITE_CHUNK"           -> WriteChunkRequestOf(buf)
      [] flag = "DELETE_CHUNK"          -> DeleteChunkRequestOf(buf)
      [] flag = "READ_CHUNK_RESPONSE"   -> ReadChunkResponseOf(buf)
      [] flag = "WRITE_CHUNK_RESPONSE"  -> WriteChunkResponseOf(buf)
      [] flag = "DELETE_CHUNK_RESPONSE" -> DeleteChunkResponseOf(buf)
      [] flag = "OPEN"                  -> OpenPacketOf(buf)
      [] flag = "OPEN_RESPONSE"         -> OpenPacketResponseOf(buf)
      [] flag = "READ"                  -> ReadRequestOf(buf)
      [] flag = "READ_RESPONSE"         -> ReadResponsePacketOf(buf)
      [] flag = "WRITE"                 -> WritePacketOf(buf)
      [] flag = "WRITE_RESPONSE"        -> WriteResponsePacketOf(buf)
      [] flag = "CLOSE"                 -> ClosePacketOf(buf)
      [] flag = "CLOSE_RESPONSE"        -> CloseResponsePacketOf(buf)
      [] flag = "LSEEK"                 -> LseekPacketOf(buf)
      [] flag = "LSEEK_RESPONSE"        -> LseekResponsePacketOf(buf)
      [] flag = "REMOVE"                -> RemovePacketOf(buf)
      [] flag = "REMOVE_RESPONSE"       -> RemoveResponsePacketOf(buf)
      [] flag = "MKDIR"                 -> MkdirPacketOf(buf)
      [] flag = "OPENDIR"               -> OpendirPacketOf(buf)
      [] flag = "FILE_STORAGE_STAT"     -> FileStorageStatPacketOf(buf)
      [] flag = "FILE_STORAGE_STAT_RESPONSE" ->
            FileStorageStatResponsePacketOf(buf)
===============================================================================
