-------------------------- MODULE MCLockingStrategy --------------------------
(***************************************************************************)
(* Three connections of two users on two files: two processes of one user  *)
(* share, a third of another user competes.                                *)
(***************************************************************************)
EXTENDS LockingStrategy, TLC

CONSTANTS p1, p2, p3, u1, u2

MCProcs == {p1, p2, p3}
MCUsers == {u1, u2}
MCUserOf == (p1 :> u1) @@ (p2 :> u1) @@ (p3 :> u2)
===============================================================================
