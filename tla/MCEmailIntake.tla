---------------------------- MODULE MCEmailIntake ----------------------------
(* One instance of EmailIntake for TLC, explored in two scenarios, as the    *)
(* product of all bounds is too large: "lone" has one delivery and one owner *)
(* request at a time and every fault, "overlap" two of each, an outage and   *)
(* no other fault, and no room for a third copy.                             *)
EXTENDS EmailIntake

CONSTANTS m1, o1, o2, h1, h2

OneMail       == {m1}
OneOwner      == {o1}
TwoOwners     == {o1, o2}
OneDelivery   == {h1}
TwoDeliveries == {h1, h2}

VARIABLE scenario

Lone    == scenario = "lone" /\ owner'[o2] = Idle /\ delivery'[h2] = Idle
Overlap == scenario = "overlap" /\ faults' = 0 /\ copy'[3] = NoCopy

MCInit == Init /\ scenario \in {"lone", "overlap"}
MCNext == Next /\ (Lone \/ Overlap) /\ UNCHANGED scenario
MCSpec == MCInit /\ [][MCNext]_<<vars, scenario>> /\ Fairness
=============================================================================
