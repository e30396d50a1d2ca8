------------------------- MODULE MCLocalIngestQueue -------------------------
(* One instance of LocalIngestQueue for TLC, explored in two scenarios:      *)
(* "leases" has one body, one producer and every fault for two delivery      *)
(* loops, "producers" has three bodies and two producers for one loop and a  *)
(* single fault.                                                             *)
EXTENDS LocalIngestQueue

CONSTANTS m1, m2, m3, h1, h2, h3, h4, h5, h6, w1, w2, p1, p2

ThreeMessages == {m1, m2, m3}
SixHandoffs   == {h1, h2, h3, h4, h5, h6}
TwoWorkers    == {w1, w2}
TwoProducers  == {p1, p2}

\* Two attempts in the first lane and one below keep both the retry and the
\* exhausted branch; in code the limits are 4, 4 and 21.
ShortLadder == [lane \in Lanes |-> IF lane = "primary" THEN 2 ELSE 1]

VARIABLE scenario

Leases    == /\ scenario = "leases"
             /\ offers'[p1] \subseteq {m1} /\ offers'[p2] = {} /\ spent' \subseteq {h1, h2}
Producing == scenario = "producers" /\ work'[w2] = Stopped /\ faults' <= 1

MCInit == Init /\ scenario \in {"leases", "producers"}
MCNext == Next /\ (Leases \/ Producing) /\ UNCHANGED scenario
MCSpec == MCInit /\ [][MCNext]_<<vars, scenario>> /\ Fairness
=============================================================================
