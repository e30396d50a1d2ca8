--------------------------- MODULE MCSourceOutbox ---------------------------
(* Instances of SourceOutbox for TLC, one scenario at a time.  The constants *)
(* of the configuration are those of the scenario "handoff".                 *)
EXTENDS SourceOutbox

CONSTANTS r1, r2, d1, d2,
          Scenarios  \* those to look at, of "handoff" and "capacity"

VARIABLE scenario

TwoRuns   == {r1, r2}
OneDrain  == {d1}
TwoDrains == {d1, d2}
NoRuns    == {}
Second    == {r2}

OneEach == [r \in Runs |-> 1]
TwoAndOne == [r \in Runs |-> IF r = r1 THEN 2 ELSE 1]

InCapacity == scenario = "capacity"

\* "handoff": the run r1 and all drains; the first drain to claim is d1, and no
\* error is taken for a refused hand-off.
Handoff ==
    /\ \A r \in Runs \ {r1} : producer'[r] = "new"
    /\ \A d \in Drains \ {d1} : drain[d1] = Idle /\ drain[d] = Idle => drain'[d] = Idle
    /\ escapes' = 0

\* "capacity": the two runs, one of them partial, compete for room for one, with
\* one drain and one thing that goes wrong: an invocation that ends, or an error
\* that runSource takes for a refused hand-off.
Competition ==
    /\ \A d \in Drains \ {d1} : drain'[d] = Idle
    /\ faults' + escapes' <= 1

MCInit == scenario \in Scenarios /\ Init

MCNext ==
    /\ Next
    /\ UNCHANGED scenario
    /\ IF InCapacity THEN Competition ELSE Handoff

MCSpec == MCInit /\ [][MCNext]_<<vars, scenario>>

\* The fairness of SourceOutbox, in the second scenario.
FairMCSpec ==
    /\ MCSpec
    /\ WF_vars(InCapacity /\ DrainStep(d1))
    /\ \A lane \in Lanes : WF_vars(InCapacity /\ ConsumerStep(lane))
    /\ SF_vars(InCapacity /\ Unrecorded /\ queue' # queue)
    /\ \A r \in Runs : WF_vars(InCapacity /\ LeaseExpires(r))

-----------------------------------------------------------------------------
(* Properties *)

\* Drains, queues and expiring leases settle every activated run
\* (drainSourceIngestOutbox).
ActivatedSettles == InCapacity => Settles
=============================================================================
