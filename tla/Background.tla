------------------------------ MODULE Background ------------------------------
(* The background work of one deployment: the refresh of the memory graph    *)
(* (MemoryRefresh), the local object store (ObjectStore) and the matches of  *)
(* a mission (MissionMatches).  They share no state; each keeps its own      *)
(* variables, and the properties are what the three modules promise.         *)
EXTENDS Naturals

\* None serves each of the modules that have it.
CONSTANTS Launches, GraphStories, Windows, MaxAtOnce, MaxFaults,
          Ops, Keys, Contents, MaxKills, MaxErrors,
          Rebuilds, MaxUpdates,
          Stories, None

ASSUME WindowsAssumption == Windows \subseteq Nat \ {0}

VARIABLES profile, auto, stored, window, latest, signals, dirty, fresh, graph, row, silent, launch,
          exec, plan, maxStories, up, spent, faults,
          blobs, meta, lock, mutex, op, kills, errors,
          version, relevant, active, ingest, former, matches, rebuild, since, owed, rebuilt

refreshVars == <<profile, auto, stored, window, latest, signals, dirty, fresh, graph, row, silent,
                 launch, exec, plan, maxStories, up, spent, faults>>
storeVars   == <<blobs, meta, lock, mutex, op, kills, errors>>
missionVars == <<version, relevant, active, ingest, former, matches, rebuild, since, owed, rebuilt>>

Refresh  == INSTANCE MemoryRefresh WITH Stories <- GraphStories
Store    == INSTANCE ObjectStore
Missions == INSTANCE MissionMatches

-----------------------------------------------------------------------------
(* Properties *)

\* The memory graph has one writer (reconcileStaleMemoryGraphRun,
\* electMemoryGraphRun).
OneGraphWriter == Refresh!OneGraphWriter

\* A story that keeps standing among the latest gets into the graph
\* (executeMemoryGraphRefresh, epistemicMemoryRefreshIsDue).
EventuallyRemembered == Refresh!EventuallyRemembered

\* Every key of the object store names a blob that exists (put, delete,
\* garbageCollect).
NoDangling == Store!NoDangling

\* The condition of a put still holds when its metadata is written
\* (withStoreLock, tryRecoverStoreLock).
ConditionStillHolds == Store!ConditionStillHolds

\* A committed rebuild leaves the matches of the current definition
\* (replaceMissionStoryMatches).
MatchesCurrent == Missions!MatchesCurrent
=============================================================================
