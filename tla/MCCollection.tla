----------------------------- MODULE MCCollection -----------------------------
(* How a source is collected, one of two ways at a time: by a Companion that *)
(* serves the job (CompanionJob), or in the self-hosted process that may be  *)
(* killed (SourceScheduler).  The state of the other one stays as it is.     *)
EXTENDS MCCompanionJob, LocalSources

VARIABLE scenario

InSources == scenario = "sources"

MCInit ==
    /\ scenario \in {"companion", "sources"}
    /\ Init /\ Sources!Init
    /\ ~InSources => ~adaptive

MCNext ==
    /\ UNCHANGED scenario
    /\ \/ ~InSources /\ Next /\ UNCHANGED sourceVars
       \/ InSources /\ Sources!Next /\ UNCHANGED vars

\* The fairness of both.
MCSpec ==
    /\ MCInit /\ [][MCNext]_<<vars, sourceVars, scenario>>
    /\ \A r \in Runs : WF_vars(~InSources /\ RunSource(r))
    /\ \A p \in Companions : /\ WF_vars(~InSources /\ Companion(p))
                             /\ SF_vars(~InSources /\ Poll(p))
    /\ \A q \in Requests : WF_vars(~InSources /\ Endpoint(q))
    /\ SF_vars(~InSources /\ \E q \in Requests : TakeOver(q))
    /\ WF_vars(~InSources /\ \E m \in queue : Consume(m) \/ Exhaust(m))
    /\ WF_sourceVars(InSources /\ Sources!Restart)
    /\ WF_sourceVars(InSources /\ Sources!Recover)
    /\ \A c \in Sources!Callers : WF_sourceVars(InSources /\ Sources!CallStep(c))
    /\ \A r \in 1..SourceRuns : WF_sourceVars(InSources /\ Sources!OutboxStep(r))
=============================================================================
