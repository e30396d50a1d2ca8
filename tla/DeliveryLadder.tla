--------------------------- MODULE DeliveryLadder ---------------------------
(* What the ingest transport promises about one accepted body, whichever     *)
(* runtime carries it: the body stands on one rung of the ladder             *)
(* primary -> dead-letter -> quarantine, it may only go down, and it leaves  *)
(* the ladder either because a consumer took responsibility for it ("done")  *)
(* or as evidence retained for the owner ("parked").  It never stands on two *)
(* rungs, never climbs, and never disappears.                                *)
EXTENDS Naturals

CONSTANT Messages   \* the bodies a producer may hand over

VARIABLE place      \* where each body is

Rungs == {"primary", "dead-letter", "quarantine"}
Places == {"none", "done", "parked"} \cup Rungs

Below(rung) == CASE rung = "primary"     -> "dead-letter"
                 [] rung = "dead-letter" -> "quarantine"

Init == place = [m \in Messages |-> "none"]

\* A producer's batch is accepted as a whole.
Accept(batch) ==
    /\ batch # {}
    /\ \A m \in batch : place[m] = "none"
    /\ place' = [m \in Messages |-> IF m \in batch THEN "primary" ELSE place[m]]

Finish(m) ==
    /\ place[m] \in Rungs
    /\ place' = [place EXCEPT ![m] = "done"]

Descend(m) ==
    /\ place[m] \in Rungs \ {"quarantine"}
    /\ place' = [place EXCEPT ![m] = Below(place[m])]

Park(m) ==
    /\ place[m] \in Rungs
    /\ place' = [place EXCEPT ![m] = "parked"]

Next == \/ \E batch \in SUBSET Messages : Accept(batch)
        \/ \E m \in Messages : Finish(m) \/ Descend(m) \/ Park(m)

Spec == Init /\ [][Next]_place
=============================================================================
