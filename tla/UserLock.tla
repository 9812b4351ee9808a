------------------------------- MODULE UserLock -------------------------------
(***************************************************************************)
(* What the locking strategy promises the rest of Barista, without its     *)
(* representation: a file has a set of holders, all of one user.  A        *)
(* process joins the holders of a file when the present ones, if any, are  *)
(* its own user's; a holder leaves alone or ends the hold of its user.     *)
(***************************************************************************)
CONSTANTS Procs, Files, UserOf

VARIABLE holders

Init == holders = [f \in Files |-> {}]

Join(p, f) == /\ \A q \in holders[f] : UserOf[q] = UserOf[p]
              /\ holders' = [holders EXCEPT ![f] = @ \cup {p}]

Leave(p, f) == /\ p \in holders[f]
               /\ holders' = [holders EXCEPT ![f] = @ \ {p}]

EndHold(p, f) == /\ p \in holders[f]
                 /\ holders' = [holders EXCEPT ![f] = {}]

Next == \E p \in Procs, f \in Files :
            Join(p, f) \/ Leave(p, f) \/ EndHold(p, f)

Spec == Init /\ [][Next]_holders
===============================================================================
