--------------------------- MODULE ExclusiveLock ---------------------------
(***************************************************************************)
(* What a caller of utils/distributed_lock.py is promised: "Only one       *)
(* worker runs this block at a time."  The block is entered when it is     *)
(* empty and left by whoever is in it, also when its process dies.         *)
(***************************************************************************)
CONSTANT Handles

VARIABLE inside   \* the handles whose caller is in the protected block

Init == inside = {}

Enter(h) == inside = {} /\ inside' = {h}

Leave(h) == inside = {h} /\ inside' = {}

Next == \E h \in Handles : Enter(h) \/ Leave(h)

Spec == Init /\ [][Next]_inside
=============================================================================
