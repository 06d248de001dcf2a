------------------------------ MODULE LoopRecord ------------------------------
(* The life of one Ralph loop as its state file tells it, whoever writes.  *)
EXTENDS Naturals

CONSTANT Limit  \* its maximum of iterations, 0 for none

VARIABLE rec

Absent == [status |-> "none", it |-> 0, owner |-> "nobody", run |-> 0]

Begun == /\ rec.status \in {"none", "completed"} /\ rec'.run > rec.run
         /\ rec'.status = "active" /\ rec'.it = 1

Advanced == /\ rec.status = "active" /\ (Limit = 0 \/ rec.it < Limit)
            /\ rec' = [rec EXCEPT !.it = @ + 1]

Exhausted == /\ rec.status = "active" /\ Limit > 0 /\ rec.it = Limit
             /\ rec' = [rec EXCEPT !.it = @ + 1, !.status = "completed"]

Stopped == rec.status \in {"active", "paused"} /\ rec' = [rec EXCEPT !.status = "completed"]

Paused == rec.status = "active" /\ rec' = [rec EXCEPT !.status = "paused"]

Resumed == /\ rec.status \in {"active", "paused"}
           /\ rec' = [rec EXCEPT !.status = "active", !.owner = rec'.owner]

Removed == rec' = Absent

Next == Begun \/ Advanced \/ Exhausted \/ Stopped \/ Paused \/ Resumed \/ Removed
=============================================================================
