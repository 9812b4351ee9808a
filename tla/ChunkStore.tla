------------------------------ MODULE ChunkStore ------------------------------
(***************************************************************************)
(* What an Espresso node promises Barista about the chunks it stores,      *)
(* without the data file, the address map and the free list: a chunk is a  *)
(* run of bytes; a write puts its bytes at an offset, grows the chunk when *)
(* it must, and leaves every other byte of every chunk alone, or fails and *)
(* changes nothing; a read returns what is there.  The bytes of a gap that *)
(* a write leaves, or of a chunk that an empty write makes, are            *)
(* unspecified; there may even be none, and a read stops at the first that *)
(* is missing, until a write to any chunk has brought them about.  The     *)
(* node may die during a call; what it stores is then what it stored       *)
(* before the call.                                                        *)
(***************************************************************************)
EXTENDS Integers, FiniteSets

CONSTANTS Chunks, Bytes, NoByte, WriteArgs, ReadArgs

VARIABLES content,  \* existing chunk -> its bytes, from 0
          alive,    \* the node runs
          last      \* the reply to the last call

vars == <<content, alive, last>>

Size(c) == IF c \in DOMAIN content
           THEN Cardinality(DOMAIN content[c]) ELSE 0

\* A reply: the call, the count it asked for, the count or -1 it returns and,
\* for a read, the bytes.
Nothing == [i \in {} |-> 0]

Reply(op, asked, result, data) ==
    last' = [op |-> op, asked |-> asked, result |-> result, data |-> data]

Init == /\ content = Nothing
        /\ alive = TRUE
        /\ last = [op |-> "none", asked |-> 0, result |-> 0, data |-> Nothing]

\* The contents chunk c may have after count bytes b are written at offset: a
\* byte that was there stays.
Written(c, offset, count, b) ==
    LET n == IF offset + count > Size(c) THEN offset + count ELSE Size(c)
    IN  {d \in [0 .. n - 1 -> Bytes \cup {NoByte}] :
            /\ \A i \in offset .. offset + count - 1 : d[i] = b
            /\ \A i \in 0 .. Size(c) - 1 :
                  /\ ~(i \in offset .. offset + count - 1)
                  /\ content[c][i] # NoByte
                  => d[i] = content[c][i]}

\* The contents another chunk may have then: missing bytes may have come about.
Kept(c) == {d \in [DOMAIN content[c] -> Bytes \cup {NoByte}] :
                \A i \in DOMAIN content[c] :
                    content[c][i] # NoByte => d[i] = content[c][i]}

Write(c, offset, count, b) ==
    /\ alive
    /\ DOMAIN content' = DOMAIN content \cup {c}
    /\ content' = [x \in DOMAIN content' |-> content'[x]]
    /\ content'[c] \in Written(c, offset, count, b)
    /\ \A x \in DOMAIN content \ {c} : content'[x] \in Kept(x)
    /\ Reply("write", count, count, Nothing)
    /\ UNCHANGED alive

WriteFails(count) ==
    /\ alive
    /\ Reply("write", count, -1, Nothing)
    /\ UNCHANGED <<content, alive>>

\* A read returns the bytes up to the end of the chunk, or up to the first that
\* is missing.
Read(c, offset, count) ==
    /\ alive
    /\ c \in DOMAIN content /\ offset <= Size(c)
    /\ LET n == IF offset + count > Size(c) THEN Size(c) - offset ELSE count
       IN  \E m \in 0 .. n :
              /\ \A i \in offset .. offset + m - 1 : content[c][i] # NoByte
              /\ m < n => content[c][offset + m] = NoByte
              /\ Reply("read", count, m,
                       [i \in 0 .. m - 1 |-> content[c][offset + i]])
    /\ UNCHANGED <<content, alive>>

ReadFails(c, offset, count) ==
    /\ alive
    /\ c \notin DOMAIN content \/ offset > Size(c)
    /\ Reply("read", count, -1, Nothing)
    /\ UNCHANGED <<content, alive>>

Delete(c) ==
    /\ alive
    /\ c \in DOMAIN content
    /\ content' = [x \in DOMAIN content \ {c} |-> content[x]]
    /\ Reply("delete", 0, 0, Nothing)
    /\ UNCHANGED alive

DeleteFails(c) ==
    /\ alive
    /\ c \notin DOMAIN content
    /\ Reply("delete", 0, -1, Nothing)
    /\ UNCHANGED <<content, alive>>

Die == alive' = FALSE /\ UNCHANGED <<content, last>>

Next ==
    \/ \E c \in Chunks, w \in WriteArgs, b \in Bytes : Write(c, w[1], w[2], b)
    \/ \E w \in WriteArgs : WriteFails(w[2])
    \/ \E c \in Chunks, r \in ReadArgs : \/ Read(c, r[1], r[2])
                                         \/ ReadFails(c, r[1], r[2])
    \/ \E c \in Chunks : Delete(c) \/ DeleteFails(c)
    \/ Die

Spec == Init /\ [][Next]_vars
===============================================================================
