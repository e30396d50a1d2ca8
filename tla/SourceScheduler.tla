---------------------------- MODULE SourceScheduler ----------------------------
(* When a source of the self-hosted runtime is collected (source-scheduler.ts, *)
(* registry.ts, adaptive-cadence.ts, db.ts): the scheduler's tick and requests *)
(* of the owner begin runs of one built-in source, each run ends or is handed  *)
(* to the outbox, and its observation puts the next one off.  The process may  *)
(* be killed at any statement; before it serves again it retires the runs that *)
(* had nothing durable yet and makes their source due.                         *)
(*                                                                             *)
(* Runs are numbered as they begin.  last is the run whose start last_run_at   *)
(* holds, 0 for NULL, and elapsed the latest run whose start is a cadence ago. *)
(* What the outbox does with a staged run is SourceOutbox's; here it activates *)
(* it, settles it or gives it up.  The scheduler's lease is left out: it only  *)
(* keeps apart the ticks of one process, and initialize clears it.             *)
EXTENDS Naturals, FiniteSetsExt

CONSTANTS MaxRuns,   \* bound: runs begun
          MaxKills,  \* bound: how often the process is killed
          None

RunIds  == 1..MaxRuns
Callers == {"tick", "owner"}

VARIABLES up,        \* the process: "down", "starting", "up"
          call,      \* where each invocation of runSource is, and its run
          run,       \* status of each run: "none", "running", "queued", "ended"
          outbox,    \* its header in the outbox: "none", "staging", "ready"
          last, elapsed,
          cadence,   \* next_run_at of source_cadence: None, "later" or "passed"
          adaptive,  \* adaptive_cadence_enabled, and the mode is not fixed
          retired,   \* runs that a restart has retired (localRestartRecovery)
          ripe,      \* ghost: runs that began when the source was due
          kills

ledger == <<run, outbox, last, cadence, retired>>
vars   == <<up, call, ledger, elapsed, adaptive, ripe, kills>>

Idle == [at |-> "idle", run |-> 0]

Begun == {r \in RunIds : run[r] # "none"}

\* dueSources.
Due == IF cadence = None THEN last <= elapsed ELSE cadence = "passed"

Init ==
    /\ up = "down"
    /\ call = [c \in Callers |-> Idle]
    /\ run = [r \in RunIds |-> "none"] /\ outbox = [r \in RunIds |-> "none"]
    /\ last = 0 /\ elapsed = 0 /\ cadence = None
    /\ adaptive \in BOOLEAN
    /\ retired = {} /\ ripe = {}
    /\ kills = 0

-----------------------------------------------------------------------------
(* The process                                                               *)

Kill ==
    /\ up # "down" /\ kills < MaxKills
    /\ up' = "down" /\ kills' = kills + 1
    /\ call' = [c \in Callers |-> Idle]
    /\ UNCHANGED <<ledger, elapsed, adaptive, ripe>>

Restart ==
    /\ up = "down" /\ up' = "starting"
    /\ UNCHANGED <<call, ledger, elapsed, adaptive, ripe, kills>>

\* Mutants of Orphan: a run whose header is in the outbox is an orphan, too;
\* only the latest run is one.
OrphanStaged(r) == run[r] = "running"
OrphanLatest(r) == run[r] = "running" /\ outbox[r] = "none" /\ last = r

\* orphanedCollectionPredicate; a run with receipts is not running any more.
Orphan(r) == run[r] = "running" /\ outbox[r] = "none"

\* Mutant of Restored: last_run_at is left at the start of the orphan.
RestoredToOrphan == last

\* The most recent attempt that last_run_at goes back to: none, whatever the
\* ledger says.  NOT (localRestartRecovery = 1) is NULL for every run whose
\* details lack the key, so that MAX(started_at) ranges over no rows; what the
\* comment at line 68 says of a most recent attempt does not happen.
Restored == 0

\* recoverInterruptedCollections: one batch.
Recover ==
    /\ up = "starting" /\ up' = "up"
    /\ LET orphans == {r \in RunIds : Orphan(r)}
       IN /\ run' = [r \in RunIds |-> IF r \in orphans THEN "ended" ELSE run[r]]
          /\ retired' = retired \cup orphans
          /\ last' = IF orphans = {} THEN last ELSE Restored
    /\ UNCHANGED <<call, outbox, cadence, elapsed, adaptive, ripe, kills>>

\* A cadence passes since every start there was; next_run_at passes.
TimePasses ==
    /\ elapsed' = Max(Begun \cup {0})
    /\ cadence' = IF cadence = "later" THEN "passed" ELSE cadence
    /\ <<elapsed, cadence>>' # <<elapsed, cadence>>
    /\ UNCHANGED <<up, call, run, outbox, last, retired, adaptive, ripe, kills>>

-----------------------------------------------------------------------------
(* runSource                                                                 *)

At(c, places) == up = "up" /\ call[c].at \in places

Goto(c, at) == call' = [call EXCEPT ![c].at = at]
Leave(c)    == call' = [call EXCEPT ![c] = Idle]

\* tick finds the source due.  Other sources are collected before its turn.
Select ==
    /\ At("tick", {"idle"}) /\ Begun # RunIds /\ Due
    /\ Goto("tick", "selected")
    /\ UNCHANGED <<up, ledger, elapsed, adaptive, ripe, kills>>

\* beginSourceRun.  Nothing looks again whether the source is still due.
Begin(c) ==
    /\ At(c, IF c = "tick" THEN {"selected"} ELSE {"idle"}) /\ Begun # RunIds
    /\ LET r == Max(Begun \cup {0}) + 1
       IN /\ run' = [run EXCEPT ![r] = "running"] /\ last' = r
          /\ ripe' = IF Due THEN ripe \cup {r} ELSE ripe
          /\ call' = [call EXCEPT ![c] = [at |-> "collect", run |-> r]]
    /\ UNCHANGED <<up, outbox, cadence, retired, elapsed, adaptive, kills>>

Ended(c) == run' = [run EXCEPT ![call[c].run] = "ended"]

\* finishSourceRun after an empty, partial or failed collection.
Finish(c) ==
    /\ At(c, {"collect", "refused"})
    /\ Ended(c) /\ Goto(c, "observe")
    /\ UNCHANGED <<up, outbox, last, cadence, retired, elapsed, adaptive, ripe, kills>>

\* latestRunGuard.
Latest(r) == last = r /\ r = Max(Begun)

\* finishSourceRun with retryDue, after backpressure or at the subrequest limit:
\* the source is due at once, unless another run has begun since.  The cadence
\* is not observed.
GiveBack(c) ==
    /\ At(c, {"collect", "refused"})
    /\ Ended(c) /\ Leave(c)
    /\ last' = IF Latest(call[c].run) THEN 0 ELSE last
    /\ cadence' = IF Latest(call[c].run) /\ cadence # None THEN "passed" ELSE cadence
    /\ UNCHANGED <<up, outbox, retired, elapsed, adaptive, ripe, kills>>

\* reserveOutboxCapacity inserts the header.
Stage(c) ==
    /\ At(c, {"collect"})
    /\ outbox' = [outbox EXCEPT ![call[c].run] = "staging"] /\ Goto(c, "staging")
    /\ UNCHANGED <<up, run, last, cadence, retired, elapsed, adaptive, ripe, kills>>

\* A chunk is refused: discardUnactivatedStaging takes back the header, unless
\* the sweep or a drain has been there first (Activate has that outcome).
Refuse(c) ==
    /\ At(c, {"staging"}) /\ outbox[call[c].run] = "staging"
    /\ outbox' = [outbox EXCEPT ![call[c].run] = "none"] /\ Goto(c, "refused")
    /\ UNCHANGED <<up, run, last, cadence, retired, elapsed, adaptive, ripe, kills>>

\* The statements of activateOutboxRun act on a header that is staging, only.
Activated(r) ==
    IF run[r] = "running" /\ outbox[r] = "staging"
    THEN /\ run' = [run EXCEPT ![r] = "queued"]
         /\ outbox' = [outbox EXCEPT ![r] = "ready"]
    ELSE UNCHANGED <<run, outbox>>

\* The header is found ready and the cadence is observed; or it is gone, or the
\* outcome is unknown (SourceOutboxActivationUnknownError), and runSource returns.
\* An error of the confirmation itself is left to SourceOutbox.
Activate(c) ==
    /\ At(c, {"staging"})
    /\ \/ /\ Activated(call[c].run) /\ outbox'[call[c].run] = "ready"
          /\ Goto(c, "observe")
       \/ Activated(call[c].run) /\ Leave(c)
       \/ UNCHANGED <<run, outbox>> /\ Leave(c)
    /\ UNCHANGED <<up, last, cadence, retired, elapsed, adaptive, ripe, kills>>

\* observeSourceCadence, whose errors are swallowed.
Observe(c) ==
    /\ At(c, {"observe"})
    /\ cadence' \in {cadence, IF adaptive THEN "later" ELSE cadence}
    /\ Leave(c)
    /\ UNCHANGED <<up, run, outbox, last, retired, elapsed, adaptive, ripe, kills>>

-----------------------------------------------------------------------------
(* The outbox                                                                *)

\* A drain finds a completely staged run and activates it, also beside its
\* producer.
ResumeStaged(r) ==
    /\ up = "up" /\ run[r] = "running" /\ outbox[r] = "staging"
    /\ Activated(r)
    /\ UNCHANGED <<up, call, last, cadence, retired, elapsed, adaptive, ripe, kills>>

\* abandonStaleIncompleteStaging: header and run end in one batch.  Settled: the
\* receipts end the run, and its header is deleted.
EndStaged(r) ==
    /\ up = "up"
    /\ \/ run[r] = "running" /\ outbox[r] = "staging"
       \/ run[r] = "queued"
    /\ run' = [run EXCEPT ![r] = "ended"] /\ outbox' = [outbox EXCEPT ![r] = "none"]
    /\ UNCHANGED <<up, call, last, cadence, retired, elapsed, adaptive, ripe, kills>>

CallStep(c) ==
    \/ Finish(c) \/ GiveBack(c) \/ Stage(c) \/ Refuse(c)
    \/ Activate(c) \/ Observe(c)

OutboxStep(r) == ResumeStaged(r) \/ EndStaged(r)

Next ==
    \/ Kill \/ Restart \/ Recover \/ TimePasses \/ Select
    \/ \E c \in Callers : Begin(c) \/ CallStep(c)
    \/ \E r \in RunIds : OutboxStep(r)

Spec == Init /\ [][Next]_vars

\* The supervisor starts the process again, calls return and the outbox is
\* drained.  No run has to begin.
Fairness ==
    /\ WF_vars(Restart) /\ WF_vars(Recover)
    /\ \A c \in Callers : WF_vars(CallStep(c))
    /\ \A r \in RunIds : WF_vars(OutboxStep(r))

-----------------------------------------------------------------------------
(* Properties                                                                *)

\* The runs since r have all been interrupted before anything was durable.
OnlyInterrupted(r) == \A s \in Begun : s >= r => s \in retired

\* `so the interrupted due source is eligible again': a source that was due stays
\* due over any number of interrupted collections, unless the observation of an
\* earlier one has put it off meanwhile (recoverInterruptedCollections).
InterruptedDueAgain ==
    \A r \in ripe : OnlyInterrupted(r) /\ cadence # "later" => Due

\* A run is retired only if nothing of it is in the outbox, then and later
\* (orphanedCollectionPredicate).
NothingDurableRetired == \A r \in retired : outbox[r] = "none" /\ run[r] = "ended"

\* Every run that has begun ends, also one whose process was killed before its
\* header was in the outbox: there is always a time when none is running, as the
\* runs are numbered up to a bound (recoverInterruptedCollections, runSource).
EveryRunEnds == []<>(\A r \in RunIds : run[r] # "running")
=============================================================================
