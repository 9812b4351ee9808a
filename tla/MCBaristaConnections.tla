------------------------- MODULE MCBaristaConnections -------------------------
(***************************************************************************)
(* One node that may be started twice, and two clients, where the server   *)
(* has descriptors for three connections.                                  *)
(***************************************************************************)
EXTENDS BaristaConnections

\* All are started as node 1.
SameNode == [p \in EspressoClients |-> 1]
===============================================================================
