----------------------------- MODULE LocalSources -----------------------------
(* The scheduler of the sources (SourceScheduler) under names that leave room *)
(* for a module beside it, and what it promises.                             *)
EXTENDS Naturals

CONSTANTS SourceRuns, SourceKills,
          Unobserved  \* the cadence of a source that has none

VARIABLES process, call, status, outbox, last, elapsed, cadence, adaptive, retired, ripe, stops

sourceVars == <<process, call, status, outbox, last, elapsed, cadence, adaptive, retired, ripe,
                stops>>

Sources == INSTANCE SourceScheduler WITH
    up <- process, run <- status, kills <- stops,
    MaxRuns <- SourceRuns, MaxKills <- SourceKills, None <- Unobserved

-----------------------------------------------------------------------------
(* Properties *)

\* An interrupted due source stays due (recoverInterruptedCollections).
InterruptedDueAgain == Sources!InterruptedDueAgain

\* A restart retires no run of which something is durable
\* (orphanedCollectionPredicate).
NothingDurableRetired == Sources!NothingDurableRetired

\* Every source run ends, whatever the process died at (runSource,
\* recoverInterruptedCollections).
EveryRunEnds == Sources!EveryRunEnds
=============================================================================
