---------------------------- MODULE MCPacketStream ----------------------------
(***************************************************************************)
(* Two clients and one node.  A byte has 4 values. A segment holds one   *)
(* chunk packet and part of the next, so requests that follow each other   *)
(* closely are torn; the smaller buffers hold one packet.                  *)
(***************************************************************************)
EXTENDS PacketStream, TLC

MCResults == {-5, 4}

CONSTANTS c1, c2

\* Both may make calls that need the node, and the classes are shared out.
MCCalls ==
    c1 :> {[flag |-> "READ", p |-> [fd |-> 1, count |-> 3]],
           [flag |-> "READ", p |-> [fd |-> 1, count |-> 0]],
           [flag |-> "CLOSE", p |-> [fd |-> 1]],
           [flag |-> "LSEEK", p |-> [fd |-> 1, offset |-> -2, whence |-> 1]],
           [flag |-> "LSEEK", p |-> [fd |-> 1, offset |-> 259, whence |-> 0]]}
    @@
    c2 :> {[flag |-> "READ", p |-> [fd |-> 2, count |-> 3]],
           [flag |-> "WRITE", p |-> [fd |-> 2, count |-> 3, data |-> <<3, 0, 1>>]],
           [flag |-> "REMOVE", p |-> [filepath |-> <<1>>]],
           [flag |-> "OPEN", p |-> [open_flags |-> 2, filepath |-> <<1, 2>>]],
           [flag |-> "MKDIR", p |-> [mode |-> 1, filepath |-> <<1>>]],
           [flag |-> "OPENDIR", p |-> [filepath |-> <<1>>]],
           [flag |-> "FILE_STORAGE_STAT", p |-> [filepath |-> <<1>>]]}
===============================================================================
