----------------------------- MODULE TrackedRun -----------------------------
(* What the ledger promises of a tracked source run, whatever the producers, *)
(* drains, queue copies and consumers do: every item of a queued run gets    *)
(* one outcome, once; the run ends when each has one, and how it ends is     *)
(* decided by the outcomes; after that nothing changes.  Only a run that     *)
(* ended without items of its own may still be failed afterwards.            *)
EXTENDS Naturals

CONSTANTS Runs,
          Size,        \* items of each run
          PartialRuns  \* runs whose collection covered a part of the source

VARIABLES status, outcome

Outcomes == {"ingested", "failed"}
Ended    == {"success", "partial", "failed"}

Verdict(r, got) ==
    LET failures == {i \in DOMAIN got : got[i] = "failed"}
    IN  IF failures = DOMAIN got THEN "failed"
        ELSE IF failures # {} \/ r \in PartialRuns THEN "partial" ELSE "success"

Init ==
    /\ status = [r \in Runs |-> "none"]
    /\ outcome = [r \in Runs |-> [i \in 0..(Size[r] - 1) |-> "none"]]

Begin(r) ==
    /\ status[r] = "none"
    /\ status' = [status EXCEPT ![r] = "running"]
    /\ UNCHANGED outcome

\* The run ends without a hand-off, or hands its items over.
Leave(r) ==
    /\ status[r] = "running"
    /\ \E next \in Ended \cup {"queued"} : status' = [status EXCEPT ![r] = next]
    /\ UNCHANGED outcome

\* A run that handed nothing over is failed after it has ended.
Retract(r) ==
    /\ status[r] \in {"success", "partial"}
    /\ \A i \in DOMAIN outcome[r] : outcome[r][i] = "none"
    /\ status' = [status EXCEPT ![r] = "failed"]
    /\ UNCHANGED outcome

Settle(r, i) ==
    /\ status[r] = "queued"
    /\ outcome[r][i] = "none"
    /\ \E got \in Outcomes : outcome' = [outcome EXCEPT ![r][i] = got]
    /\ UNCHANGED status

End(r) ==
    /\ status[r] = "queued"
    /\ \A i \in DOMAIN outcome[r] : outcome[r][i] # "none"
    /\ status' = [status EXCEPT ![r] = Verdict(r, outcome[r])]
    /\ UNCHANGED outcome

Next == \E r \in Runs : \/ Begin(r) \/ Leave(r) \/ Retract(r) \/ End(r)
                        \/ \E i \in DOMAIN outcome[r] : Settle(r, i)

Spec == Init /\ [][Next]_<<status, outcome>>
=============================================================================
