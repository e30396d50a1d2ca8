--------------------------- MODULE MissionMatches ---------------------------
(* Which stories match a mission (missions.ts, recordMissionMatch and         *)
(* replaceMissionStoryMatches of db.ts).  The ingest of a story scores it     *)
(* against the missions it has read; an update of a mission starts a rebuild, *)
(* which plans the stories, evaluates them page by page and replaces the      *)
(* matches, except those recorded since its watermark.                        *)
(*                                                                            *)
(* A score is a match or none, and what matches is chosen with the            *)
(* definition.  Times are compared only with watermarks: since[r] holds the   *)
(* matches recorded at or after that of r.  All stories fit the window of a   *)
(* rebuild and a page holds one story.                                        *)
EXTENDS Naturals

CONSTANTS Stories,
          Rebuilds,
          MaxUpdates \* bound: how often the mission is defined

VARIABLES version,  \* updated_at of the mission, 0 before it exists
          relevant, \* stories that match its definition
          active,   \* its status
          ingest,   \* where the ingest of each story is
          former,   \* ghost: versions the ingest of each story has scored against
          matches,  \* mission_story_matches
          rebuild,  \* where each rebuild is, and what it has read
          since, owed, rebuilt

\* owed: an update whose rebuild was not started yet; rebuilt: ghost, the latest
\* version for which a rebuild was asked that has committed.
mission == <<version, relevant, active, owed>>
vars    == <<mission, ingest, former, matches, rebuild, since, rebuilt>>

Idle == [at |-> "idle", asked |-> 0, version |-> 0, mission |-> FALSE, stories |-> FALSE,
         todo |-> {}, found |-> {}]

At(r, at) == rebuild[r].at = at
Fail(r)   == rebuild' = [rebuild EXCEPT ![r] = Idle] /\ since' = [since EXCEPT ![r] = {}]

\* Rebuilds that have taken their watermark.
Marked == {r \in Rebuilds : ~At(r, "idle")}

Init ==
    /\ version = 0 /\ relevant = {} /\ active = FALSE /\ owed = FALSE
    /\ ingest = [s \in Stories |-> "none"] /\ former = [s \in Stories |-> 0]
    /\ matches = {}
    /\ rebuild = [r \in Rebuilds |-> Idle] /\ since = [r \in Rebuilds |-> {}]
    /\ rebuilt = 0

-----------------------------------------------------------------------------
(* upsertMission, and the ingest of a story (matchStoryToMissions) *)

Update ==
    /\ version < MaxUpdates /\ version' = version + 1
    /\ relevant' \in SUBSET Stories /\ active' \in BOOLEAN
    /\ owed' = TRUE
    /\ UNCHANGED <<ingest, former, matches, rebuild, since, rebuilt>>

Store(s) ==
    /\ ingest[s] = "none" /\ ingest' = [ingest EXCEPT ![s] = "stored"]
    /\ UNCHANGED <<mission, former, matches, rebuild, since, rebuilt>>

\* listMissions of the active ones and scoreMissionMatch.
Score(s) ==
    /\ ingest[s] = "stored"
    /\ ingest' = [ingest EXCEPT ![s] = IF active /\ s \in relevant THEN "scored" ELSE "done"]
    /\ former' = [former EXCEPT ![s] = version]
    /\ UNCHANGED <<mission, matches, rebuild, since, rebuilt>>

\* recordMissionMatch takes the time.
Stamp(s) ==
    /\ ingest[s] = "scored" /\ ingest' = [ingest EXCEPT ![s] = "stamped"]
    /\ since' = [r \in Rebuilds |-> IF r \in Marked THEN since[r] \cup {s} ELSE since[r]]
    /\ UNCHANGED <<mission, former, matches, rebuild, rebuilt>>

\* The row keeps the larger score and takes this time.
Record(s) ==
    /\ ingest[s] = "stamped" /\ ingest' = [ingest EXCEPT ![s] = "done"]
    /\ matches' = matches \cup {s}
    /\ UNCHANGED <<mission, former, rebuild, since, rebuilt>>

-----------------------------------------------------------------------------
(* planMissionMatchRebuild, evaluateMissionMatchPage, commitMissionMatchRebuild *)

\* The watermark is taken before anything is read.
Launch(r) ==
    /\ owed /\ owed' = FALSE
    /\ At(r, "idle")
    /\ rebuild' = [rebuild EXCEPT ![r].at = "planning", ![r].asked = version]
    /\ UNCHANGED <<version, relevant, active, ingest, former, matches, since, rebuilt>>

Planning(r, rec) ==
    rebuild' = [rebuild EXCEPT ![r] =
                  IF rec.mission /\ rec.stories THEN [rec EXCEPT !.at = "evaluating"] ELSE rec]

\* The mission and the stories are read in either order.
ReadMission(r) ==
    /\ At(r, "planning") /\ ~rebuild[r].mission
    /\ Planning(r, [rebuild[r] EXCEPT !.mission = TRUE, !.version = version])
    /\ UNCHANGED <<mission, ingest, former, matches, since, rebuilt>>

ReadStories(r) ==
    /\ At(r, "planning") /\ ~rebuild[r].stories
    /\ LET stories == {s \in Stories : ingest[s] # "none"}
       IN Planning(r, [rebuild[r] EXCEPT !.stories = TRUE, !.todo = stories])
    /\ UNCHANGED <<mission, ingest, former, matches, since, rebuilt>>

Unchanged(r) == rebuild[r].version = version

\* A page is evaluated against the mission as it is, if it is the one planned.
Evaluate(r) ==
    /\ At(r, "evaluating")
    /\ \E s \in rebuild[r].todo :
          IF Unchanged(r)
          THEN /\ rebuild' = [rebuild EXCEPT ![r].todo = @ \ {s}, ![r].found = @ \cup (relevant \cap {s})]
               /\ UNCHANGED since
          ELSE Fail(r)
    /\ UNCHANGED <<mission, ingest, former, matches, rebuilt>>

\* Mutant of Kept: the matches are replaced whatever was recorded meanwhile.
KeptNone(r) == {}

\* Rows that a commit neither updates nor deletes.
Kept(r) == matches \cap since[r]

\* One batch; the rows it writes are newer than the watermarks of the others.
Commit(r) ==
    /\ At(r, "evaluating") /\ rebuild[r].todo = {}
    /\ rebuild' = [rebuild EXCEPT ![r] = Idle]
    /\ IF Unchanged(r)
       THEN /\ matches' = Kept(r) \cup rebuild[r].found
            /\ since' = [q \in Rebuilds |->
                           CASE q = r -> {}
                             [] q \in Marked \ {r} -> since[q] \cup (rebuild[r].found \ Kept(r))
                             [] OTHER -> since[q]]
            /\ rebuilt' = IF rebuild[r].asked > rebuilt THEN rebuild[r].asked ELSE rebuilt
       ELSE UNCHANGED <<matches, rebuilt>> /\ since' = [since EXCEPT ![r] = {}]
    /\ UNCHANGED <<mission, ingest, former>>

\* The Workflow or the request gives up.
Abandon(r) ==
    /\ ~At(r, "idle")
    /\ Fail(r)
    /\ UNCHANGED <<mission, ingest, former, matches, rebuilt>>

Next ==
    \/ Update
    \/ \E s \in Stories : Store(s) \/ Score(s) \/ Stamp(s) \/ Record(s)
    \/ \E r \in Rebuilds : \/ Launch(r) \/ ReadMission(r) \/ ReadStories(r)
                           \/ Evaluate(r) \/ Commit(r) \/ Abandon(r)

Spec == Init /\ [][Next]_vars

-----------------------------------------------------------------------------
(* Properties *)

\* Once the rebuild asked for the current definition is committed the matches are
\* those of the definition: a story whose ingest overlapped it is not dropped, and no
\* other is kept but one that its ingest scored against a former definition and
\* recorded after the watermark (replaceMissionStoryMatches).
MatchesCurrent ==
    active /\ rebuilt = version =>
        \A s \in Stories :
            /\ s \in relevant /\ ingest[s] = "done" => s \in matches
            /\ s \in matches \ relevant => former[s] < version
=============================================================================
