----------------------------- MODULE MemoryRefresh -----------------------------
(* The refresh of the memory graph (epistemic-memory.ts, db.ts,                *)
(* local-memory.ts).  A launch elects its run, a row of memory_graph_runs, if  *)
(* no other is active.  On Cloudflare it then creates a Workflow of its own    *)
(* and later launches ask the platform what became of a run that has been      *)
(* silent for six hours; the self-hosted runtime executes the same steps       *)
(* itself and clears up after its predecessor when it starts.                  *)
(*                                                                             *)
(* A launch, its row and its execution share one name; the name serves again   *)
(* when all three have ended.  A step is one database call or one call of the  *)
(* platform.  The graph is the set of stories it has been written from, and a  *)
(* refresh plans only the stories that stand highest, as many as the budget    *)
(* profile allows; how stories are scored is data.                             *)
EXTENDS Naturals, FiniteSets

CONSTANTS Launches,
          Stories,
          None,
          Windows,    \* stories a refresh may plan, by budget profile
          MaxAtOnce,  \* bound: launches in progress at a time
          MaxFaults   \* bound: invocations that die, calls that fail, days whose
                      \* allowance is used up, refreshes of fewer stories that
                      \* the owner asks for

VARIABLES profile,    \* "cloudflare" or "selfhost"
          auto,       \* memory_graph_auto_refresh
          stored,     \* stories that were ingested
          window,     \* what the profile in force allows
          latest,     \* the stories that stand highest, as many as window
          signals,    \* stories whose ingest has yet to raise the flag
          dirty,      \* memory_graph_dirty
          fresh,      \* the last refresh is not memory_graph_refresh_minutes old
          graph,      \* stories the graph was written from
          row,        \* the runs: "queued", "running", "ended"
          silent,     \* runs not updated for MEMORY_RUN_STALE_MS
          launch,     \* where each launch is, and what it has read
          exec,       \* where each execution is
          plan,       \* the stories each execution has planned
          maxStories, \* the number of stories each launch was asked for
          up,         \* the self-hosted process: "down", "recovering", "up"
          spent,      \* the day's allowance is used up
          faults

stories  == <<stored, window, latest>>
domain   == <<stories, signals, dirty, fresh, graph>>
runVars  == <<row, silent>>
execVars == <<exec, plan, maxStories>>
ambient  == <<profile, auto, up, spent, faults>>
vars     == <<domain, runVars, launch, execVars, ambient>>

\* What a launch is asked for if nobody sets a limit.
AllStories == CHOOSE n \in Windows : \A w \in Windows : w <= n

Active(r) == row[r] \in {"queued", "running"}
ActiveRuns == {r \in Launches : Active(r)}

\* The first n of these stories, for some order of them.
First(S, n) ==
    {T \in SUBSET S : IF Cardinality(S) <= n THEN T = S ELSE Cardinality(T) = n}

\* Where an execution that keeps its run is: an instance that is missing and
\* one that has ended ("none") are treated alike.
Working == {"queued", "working", "finalizing", "finishing"}

Idle == [at |-> "idle", run |-> None, status |-> "none"]

\* A launch has found this run and is about to ask or to fail it.
Looked(r) == \E l \in Launches : launch[l].run = r

At(l, at)   == launch[l].at = at
Goto(l, at) == launch' = [launch EXCEPT ![l].at = at]
Return(l)   == launch' = [launch EXCEPT ![l] = Idle]

EndRow(r)  == row' = [row EXCEPT ![r] = "ended"] /\ silent' = silent \ {r}
EndExec(l) == /\ exec' = [exec EXCEPT ![l] = "none"] /\ plan' = [plan EXCEPT ![l] = {}]
              /\ maxStories' = [maxStories EXCEPT ![l] = AllStories]

Fault == faults < MaxFaults /\ faults' = faults + 1

Init ==
    /\ profile \in {"cloudflare", "selfhost"}
    /\ auto \in BOOLEAN
    /\ window \in Windows
    /\ stored = {} /\ latest = {} /\ signals = {} /\ graph = {}
    /\ dirty = TRUE /\ fresh = FALSE
    /\ row = [l \in Launches |-> "ended"] /\ silent = {}
    /\ launch = [l \in Launches |-> Idle]
    /\ exec = [l \in Launches |-> "none"] /\ plan = [l \in Launches |-> {}]
    /\ maxStories = [l \in Launches |-> AllStories]
    /\ up = "up" /\ spent = FALSE /\ faults = 0

-----------------------------------------------------------------------------
(* Ingest, clocks *)

\* ingestMessage stores an item of a new or a known story first, which gives
\* the story its score, and raises the flag last.
Ingest(s) ==
    /\ s \notin signals
    /\ stored' = stored \cup {s} /\ signals' = signals \cup {s}
    /\ latest' \in First(stored', window)
    /\ UNCHANGED <<window, dirty, fresh, graph, runVars, launch, execVars, ambient>>

Signal(s) ==
    /\ s \in signals
    /\ signals' = signals \ {s} /\ dirty' = TRUE
    /\ UNCHANGED <<stories, fresh, graph, runVars, launch, execVars, ambient>>

RefreshPeriodPasses ==
    /\ fresh /\ fresh' = FALSE
    /\ UNCHANGED <<stories, signals, dirty, graph, runVars, launch, execVars, ambient>>

\* Six hours pass; no invocation that launches a refresh takes so long.
RecoveryWindowPasses(r) ==
    /\ Active(r) /\ r \notin silent
    /\ launch[r] = Idle /\ ~Looked(r)
    /\ silent' = silent \cup {r}
    /\ UNCHANGED <<domain, row, launch, execVars, ambient>>

AllowanceUsedUp ==
    /\ ~spent /\ spent' = TRUE
    /\ Fault
    /\ UNCHANGED <<domain, runVars, launch, execVars, profile, auto, up>>

NextDay ==
    /\ spent /\ spent' = FALSE
    /\ UNCHANGED <<domain, runVars, launch, execVars, profile, auto, up, faults>>

\* The owner chooses another budget profile; the order of the stories stays.
SetProfile(w) ==
    /\ w # window /\ window' = w
    /\ latest' \in First(stored, w)
    /\ latest' \subseteq latest \/ latest \subseteq latest'
    /\ UNCHANGED <<stored, signals, dirty, fresh, graph, runVars, launch, execVars, ambient>>

\* The operator switches the scheduled refresh off or on.
SwitchAuto ==
    /\ auto' = ~auto
    /\ UNCHANGED <<domain, runVars, launch, execVars, profile, up, spent, faults>>

-----------------------------------------------------------------------------
(* refreshEpistemicMemory, refreshEpistemicMemoryLocally *)

InProgress == {l \in Launches : launch[l] # Idle}

Free(l) == launch[l] = Idle /\ ~Looked(l) /\ ~Active(l) /\ exec[l] \notin Working

\* LocalMemoryRefresher gives everyone the refresh that is in progress.
Launch(l, n) ==
    /\ Free(l)
    /\ up = "up"
    /\ Cardinality(InProgress) < (IF profile = "selfhost" THEN 1 ELSE MaxAtOnce)
    /\ Goto(l, "look") /\ maxStories' = [maxStories EXCEPT ![l] = n]
    /\ UNCHANGED <<domain, runVars, exec, plan, profile, auto, up, spent>>

\* Mutant of IsDue: a graph that nothing has marked is never refreshed.
IsDueIfDirty == auto /\ dirty

\* epistemicMemoryRefreshIsDue.
IsDue == auto /\ (dirty \/ ~fresh)

\* The schedule, which refreshes if that is due; the owner may ask at any time,
\* and for fewer stories.
Tick(l)    == IsDue /\ Launch(l, AllStories) /\ UNCHANGED faults
Request(l) == \/ Launch(l, AllStories) /\ UNCHANGED faults
              \/ Fault /\ \E n \in 1..AllStories - 1 : Launch(l, n)

\* canSpend.
AskAllowance(l) ==
    IF spent THEN Return(l) ELSE launch' = [launch EXCEPT ![l].at = "elect", ![l].run = None]

\* getActiveMemoryGraphRun; a silent run is reconciled on Cloudflare only.
Look(l) ==
    /\ At(l, "look")
    /\ \/ ActiveRuns = {} /\ AskAllowance(l)
       \/ \E r \in ActiveRuns :
             IF r \in silent /\ profile = "cloudflare"
             THEN launch' = [launch EXCEPT ![l].at = "ask", ![l].run = r]
             ELSE Return(l)
    /\ UNCHANGED <<domain, runVars, execVars, ambient>>

\* Mutant of Ask: an instance that cannot be looked up is taken for missing.
AskOrReplace(l) ==
    /\ At(l, "ask")
    /\ LET r == launch[l].run
       IN \/ /\ Goto(l, IF exec[r] \in Working THEN "idle" ELSE "fail")
             /\ UNCHANGED faults
          \/ Fault /\ Goto(l, "fail")
    /\ UNCHANGED <<domain, runVars, execVars, profile, auto, up, spent>>

\* reconcileStaleMemoryGraphRun asks the platform: an instance that is at work,
\* or that cannot be looked up, keeps its run.
Ask(l) ==
    /\ At(l, "ask")
    /\ \/ /\ IF exec[launch[l].run] \in Working THEN Return(l) ELSE Goto(l, "fail")
          /\ UNCHANGED faults
       \/ Fault /\ Return(l)
    /\ UNCHANGED <<domain, runVars, execVars, profile, auto, up, spent>>

\* failStaleMemoryGraphRun, then getActiveMemoryGraphRun if it was not stale.
FailStale(l) ==
    /\ At(l, "fail")
    /\ LET r == launch[l].run
       IN IF Active(r) /\ r \in silent
          THEN EndRow(r) /\ AskAllowance(l)
          ELSE /\ UNCHANGED runVars
               /\ IF ActiveRuns = {} THEN AskAllowance(l) ELSE Return(l)
    /\ UNCHANGED <<domain, execVars, ambient>>

\* electMemoryGraphRun: the row is inserted if none is active.  The self-hosted
\* runtime goes on to execute it.
Elect(l) ==
    /\ At(l, "elect")
    /\ IF ActiveRuns # {} THEN Return(l) /\ UNCHANGED <<row, exec>>
       ELSE IF profile = "cloudflare"
       THEN row' = [row EXCEPT ![l] = "queued"] /\ Goto(l, "spend") /\ UNCHANGED exec
       ELSE row' = [row EXCEPT ![l] = "running"] /\ Goto(l, "await")
            /\ exec' = [exec EXCEPT ![l] = "queued"]
    /\ UNCHANGED <<domain, silent, plan, maxStories, ambient>>

\* requireBudget: a refusal ends the run, any other error leaves it active.
Spend(l) ==
    /\ At(l, "spend")
    /\ \/ /\ IF spent
             THEN EndRow(l) /\ Return(l)
             ELSE UNCHANGED runVars /\ Goto(l, "create")
          /\ UNCHANGED faults
       \/ Fault /\ Return(l) /\ UNCHANGED runVars
    /\ UNCHANGED <<domain, execVars, profile, auto, up, spent>>

\* MEMORY_WORKFLOW.create may throw, with or without the instance.
Create(l) ==
    /\ At(l, "create")
    /\ \/ /\ exec' = [exec EXCEPT ![l] = "queued"]
          /\ Goto(l, "readRun") /\ UNCHANGED faults
       \/ /\ Fault /\ Return(l)
          /\ exec' \in {exec, [exec EXCEPT ![l] = "queued"]}
    /\ UNCHANGED <<domain, runVars, plan, maxStories, profile, auto, up, spent>>

\* updateMemoryGraphRun reads the row and writes it back later, its status as it
\* was read.
ReadRun(l) ==
    /\ At(l, "readRun")
    /\ launch' = [launch EXCEPT ![l].at = "writeRun", ![l].status = row[l]]
    /\ UNCHANGED <<domain, runVars, execVars, ambient>>

WriteRun(l) ==
    /\ At(l, "writeRun")
    /\ row' = [row EXCEPT ![l] = launch[l].status] /\ silent' = silent \ {l}
    /\ Return(l)
    /\ UNCHANGED <<domain, execVars, ambient>>

\* The self-hosted launch waits for its execution.
Await(l) ==
    /\ At(l, "await") /\ exec[l] \notin Working
    /\ Return(l)
    /\ UNCHANGED <<domain, runVars, execVars, ambient>>

LaunchStep(l) == \/ Look(l) \/ Ask(l) \/ FailStale(l) \/ Elect(l) \/ Spend(l)
                 \/ Create(l) \/ ReadRun(l) \/ WriteRun(l) \/ Await(l)

LaunchDies(l) ==
    /\ profile = "cloudflare" /\ launch[l] # Idle
    /\ Fault
    /\ Return(l)
    /\ UNCHANGED <<domain, runVars, execVars, profile, auto, up, spent>>

-----------------------------------------------------------------------------
(* executeMemoryGraphRefresh *)

\* The first step plans (buildMemoryPlan: the latest stories, bounded by the
\* profile and by maxStories), reserves the writes and marks the run; a refusal
\* ends the run as deferred.
Plan(l) ==
    /\ exec[l] = "queued" /\ up # "down"
    /\ IF spent
       THEN EndRow(l) /\ EndExec(l)
       ELSE /\ row' = [row EXCEPT ![l] = "running"] /\ silent' = silent \ {l}
            /\ exec' = [exec EXCEPT ![l] = "working"]
            /\ \E S \in First(latest, maxStories[l]) : plan' = [plan EXCEPT ![l] = S]
            /\ UNCHANGED maxStories
    /\ UNCHANGED <<domain, launch, ambient>>

\* The steps that write nodes and edges, which upsert.
Work(l) ==
    /\ exec[l] = "working" /\ up # "down"
    /\ graph' = graph \cup plan[l]
    /\ exec' = [exec EXCEPT ![l] = "finalizing"]
    /\ UNCHANGED <<stories, signals, dirty, fresh, runVars, launch, plan, maxStories, ambient>>

\* The flag is cleared, whatever has been ingested since the plan and whatever
\* the plan left out.
Finalize(l) ==
    /\ exec[l] = "finalizing" /\ up # "down"
    /\ dirty' = FALSE /\ fresh' = TRUE
    /\ exec' = [exec EXCEPT ![l] = "finishing"]
    /\ UNCHANGED <<stories, signals, graph, runVars, launch, plan, maxStories, ambient>>

\* finishMemoryGraphRun.
Finish(l) ==
    /\ exec[l] = "finishing" /\ up # "down"
    /\ EndRow(l) /\ EndExec(l)
    /\ UNCHANGED <<domain, launch, ambient>>

\* A step fails for good; the run is finished as failed, if that succeeds.
ExecFails(l) ==
    /\ exec[l] \in Working /\ up # "down"
    /\ Fault
    /\ EndRow(l) \/ UNCHANGED runVars
    /\ EndExec(l)
    /\ UNCHANGED <<domain, launch, profile, auto, up, spent>>

Exec(l) == Plan(l) \/ Work(l) \/ Finalize(l) \/ Finish(l)

-----------------------------------------------------------------------------
(* The self-hosted process *)

Kill ==
    /\ profile = "selfhost" /\ up # "down"
    /\ Fault
    /\ up' = "down"
    /\ launch' = [l \in Launches |-> Idle]
    /\ exec' = [l \in Launches |-> "none"] /\ plan' = [l \in Launches |-> {}]
    /\ maxStories' = [l \in Launches |-> AllStories]
    /\ UNCHANGED <<domain, runVars, profile, auto, spent>>

\* recoverInterruptedSelfhostMemoryRefresh ends the run, then raises the flag.
Restart ==
    /\ up = "down"
    /\ IF ActiveRuns = {} THEN up' = "up" /\ UNCHANGED runVars
       ELSE up' = "recovering" /\ \E r \in ActiveRuns : EndRow(r)
    /\ UNCHANGED <<domain, launch, execVars, profile, auto, spent, faults>>

MarkDirty ==
    /\ up = "recovering" /\ up' = "up"
    /\ dirty' = TRUE
    /\ UNCHANGED <<stories, signals, fresh, graph, runVars, launch, execVars, profile, auto, spent,
                   faults>>

-----------------------------------------------------------------------------
Clocks == RefreshPeriodPasses \/ NextDay \/ \E r \in Launches : RecoveryWindowPasses(r)

Next ==
    \/ \E s \in Stories : Ingest(s) \/ Signal(s)
    \/ Clocks \/ AllowanceUsedUp \/ SwitchAuto \/ \E w \in Windows : SetProfile(w)
    \/ \E l \in Launches : \/ Tick(l) \/ Request(l) \/ LaunchStep(l) \/ LaunchDies(l)
                           \/ Exec(l) \/ ExecFails(l)
    \/ Kill \/ Restart \/ MarkDirty

Spec == Init /\ [][Next]_vars

\* The schedule ticks, invocations, executions and time go on, and a process
\* that was killed is started again.
Fairness ==
    /\ WF_vars(\E l \in Launches : Tick(l))
    /\ \A l \in Launches : WF_vars(LaunchStep(l)) /\ WF_vars(Exec(l))
    /\ \A r \in Launches : WF_vars(RecoveryWindowPasses(r))
    /\ WF_vars(RefreshPeriodPasses) /\ WF_vars(NextDay)
    /\ WF_vars(Restart) /\ WF_vars(MarkDirty)

FairSpec == Spec /\ Fairness

-----------------------------------------------------------------------------
(* Properties *)

\* The graph has one writer: no second execution is started while one may still
\* write, however its launch ended and whatever the platform answers (`a
\* transient control-plane failure must never authorize a duplicate canonical
\* graph writer').
OneGraphWriter == Cardinality({l \in Launches : exec[l] \in Working}) <= 1

\* The self-hosted runtime asks nobody about an active run: one whose execution
\* failed, and could not finish it either, keeps its place until the next start.
Wedged == profile = "selfhost" /\ up = "up" /\ \E r \in ActiveRuns : exec[r] = "none"

\* A story that keeps standing among the latest gets into the graph while the
\* scheduled refresh is on, also one whose signal a refresh has cleared without
\* having planned it, because it was ingested in the meantime or because the
\* owner asked for fewer stories, and however many refreshes were interrupted,
\* refused or left half registered; a wedged run excepted.  A story that others
\* outrank is not written, although its signal is cleared with theirs.
EventuallyRemembered ==
    \A s \in Stories :
        s \in latest ~> s \in graph \/ s \notin latest \/ ~auto \/ Wedged
=============================================================================
