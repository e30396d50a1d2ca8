----------------------------- MODULE MCBackground -----------------------------
(* Four protocols for TLC, one at a time: the allowance and the start slots  *)
(* of the browser (BrowserBudget) and the three of Background, the graph of  *)
(* the memory in two settings.  The state of the protocols that are not      *)
(* looked at stays as it is.                                                 *)
EXTENDS BrowserBudget, Background

VARIABLE scenario

Scenarios == {"browser", "memory", "ranking", "objects", "missions"}

\* The capacity and the limit of the day are changed together, to half the
\* number of their combinations, and once upwards.
SettingsTied  == (limit = 3) = (interval = 1)
BrowserBounds == SettingsTied' /\ (settings' # settings => limit = highest)

\* Launches and operations are interchangeable: the free one with the smallest
\* name goes first.
FirstFree(l)    == \A k \in 1..l - 1 : ~Refresh!Free(k)
LaunchesInOrder ==
    \A l \in Launches : launch[l] = Refresh!Idle /\ launch'[l] # Refresh!Idle => FirstFree(l)

\* Either overlapping launches and one story, or stories that outrank each other
\* and one launch, which the owner may limit.
OneStory      == CHOOSE s \in GraphStories : TRUE
MemoryBounds  == /\ LaunchesInOrder
                 /\ stored' \subseteq {OneStory} /\ (signals' \subseteq signals \/ stored' # stored)
                 /\ UNCHANGED <<auto, window, maxStories>>
RankingBounds == /\ \A l \in Launches : launch'[l] # Refresh!Idle => l = Min(Launches)
                 /\ Cardinality(signals') <= 1
                 /\ faults' # faults => \E l \in Launches : maxStories'[l] < maxStories[l]

FreeOps    == {o \in Ops : Store!Free(o)}
OpsInOrder == \A o \in FreeOps : op'[o] # Store!Idle => o = Min(FreeOps)

MCInit ==
    /\ scenario \in Scenarios
    /\ Init /\ SettingsTied
    /\ Refresh!Init /\ Store!Init /\ Missions!Init
    /\ scenario # "browser" => /\ interval = 1
                               /\ \A a \in Attempts : attempt[a].kind = "session"
    /\ scenario # "memory" => profile = "selfhost"
    /\ scenario # "ranking" => auto /\ window = Refresh!AllStories

MCNext ==
    /\ UNCHANGED scenario
    /\ \/ /\ scenario = "browser"
          /\ Next /\ BrowserBounds
          /\ UNCHANGED <<refreshVars, storeVars, missionVars>>
       \/ /\ scenario = "memory"
          /\ Refresh!Next /\ MemoryBounds
          /\ UNCHANGED <<vars, storeVars, missionVars>>
       \/ /\ scenario = "ranking"
          /\ Refresh!Next /\ RankingBounds
          /\ UNCHANGED <<vars, storeVars, missionVars>>
       \/ /\ scenario = "objects"
          /\ Store!Next /\ OpsInOrder
          /\ UNCHANGED <<vars, refreshVars, missionVars>>
       \/ /\ scenario = "missions"
          /\ Missions!Next
          /\ UNCHANGED <<vars, refreshVars, storeVars>>

InMemory == scenario \in {"memory", "ranking"}

\* The fairness of MemoryRefresh in its scenarios; a subscript is what the steps
\* of the action always change.
MCSpec ==
    /\ MCInit
    /\ [][MCNext]_<<vars, refreshVars, storeVars, missionVars, scenario>>
    /\ WF_launch(InMemory /\ \E l \in Launches : Refresh!Tick(l) /\ FirstFree(l))
    /\ \A l \in Launches : /\ WF_launch(InMemory /\ Refresh!LaunchStep(l))
                           /\ WF_exec(InMemory /\ Refresh!Exec(l))
                           /\ WF_silent(InMemory /\ Refresh!RecoveryWindowPasses(l))
    /\ WF_fresh(InMemory /\ Refresh!RefreshPeriodPasses)
    /\ WF_spent(InMemory /\ Refresh!NextDay)
    /\ WF_up(InMemory /\ Refresh!Restart)
    /\ WF_up(InMemory /\ Refresh!MarkDirty)
=============================================================================
