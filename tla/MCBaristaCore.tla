---------------------------- MODULE MCBaristaCore ----------------------------
(***************************************************************************)
(* Instances of BaristaCore: one or two clients of different users.        *)
(***************************************************************************)
EXTENDS BaristaCore

CONSTANTS p1, p2, u1, u2

OneProc == {p1}
TwoProcs == {p1, p2}
MCUsers == {u1, u2}
OneUserOf == p1 :> u1
TwoUserOf == (p1 :> u1) @@ (p2 :> u2)

ReadOnly  == [rdwr |-> FALSE, append |-> FALSE]
ReadWrite == [rdwr |-> TRUE, append |-> FALSE]
Appending == [rdwr |-> TRUE, append |-> TRUE]

AppendFlags == {ReadOnly, Appending}
WriteFlags == {ReadWrite}

NoSeeks == {}
SomeSeeks == {<<"SEEK_SET", 1>>, <<"SEEK_CUR", 0>>, <<"SEEK_END", 0>>}
===============================================================================
