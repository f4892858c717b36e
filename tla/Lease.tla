------------------------------- MODULE Lease -------------------------------
(***************************************************************************)
(* What run/run_lock.py promises its callers, without rows, clocks or      *)
(* expiry dates: at any time at most one owner holds the account, a grant  *)
(* is only made when nobody holds it, and every holding comes to an end    *)
(* (the owner gives it back or it runs out) before the next grant.         *)
(* RunLock is shown to implement this specification.                       *)
(***************************************************************************)
CONSTANTS Owner, NoOwner

VARIABLE holder

Init == holder = NoOwner

Grant(o) == holder = NoOwner /\ holder' = o

End == holder # NoOwner /\ holder' = NoOwner

Next == End \/ \E o \in Owner : Grant(o)

Spec == Init /\ [][Next]_holder
=============================================================================
