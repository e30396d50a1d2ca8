---------------------------- MODULE CompanionJob ----------------------------
(* A collector source from its source run to its settled ledger row:         *)
(* runSource hands the collection to a Companion as a job (src/db.ts,        *)
(* src/sources/registry.ts); a Companion process polls for the job, executes *)
(* it, keeps a successful result in its one-slot outbox and submits it until *)
(* it is acknowledged (driftglass-relay.mjs); the result endpoint            *)
(* (src/collectors.ts) records a dispatch by compare-and-set, sends the      *)
(* items to the queue and completes the job; receipts settle the run.        *)
(*                                                                           *)
(* One step is one statement, one batch, one call of the queue or one        *)
(* message between Companion and server; every other invocation may run      *)
(* between two steps.  A result is known by its fingerprint.  Clocks are     *)
(* abstracted: a lease or a dispatch may be found expired whenever it is     *)
(* looked at.  Recording a receipt and aggregating it is one step here, as   *)
(* the consumer repeats both when it fails between them (SourceOutbox has    *)
(* the two steps).                                                           *)
EXTENDS Integers, FiniteSets, FiniteSetsExt

CONSTANTS Runs,         \* source runs of one collector source, one operation
          Companions,   \* Companion processes of one pairing, one state directory
          Requests,     \* invocations of the result endpoint at the same time
          Prints,       \* fingerprints of the results an execution may return
          Count,        \* items of each result, COMPANION_RESULT_MAX_ITEMS at most
          PartialPrints,\* results whose diagnostics say the collection is partial
          None,
          Overtaking,   \* a job may be claimed before runSource has returned
          MaxFaults     \* bound: crashes, timeouts, lost answers, sends that throw

ASSUME CompanionAssumption ==
    /\ Count \in [Prints -> Nat]
    /\ PartialPrints \subseteq Prints
    /\ None \notin Prints \cup Companions \cup Requests \cup Runs
    /\ Overtaking \in BOOLEAN
    /\ MaxFaults \in Nat
    /\ IsFiniteSet(Runs) /\ IsFiniteSet(Prints)

VARIABLES run,      \* source_runs: status, enqueued_count, collection_partial, accounted
          receipts, \* source_run_ingest_receipts: items with an outcome, and which failed
          health,   \* ghost: times a run's end has been accounted to its source
          runner,   \* where runSource is with the run
          job,      \* collector_jobs: the job created for the run
          slot,     \* the Companion's result outbox on disk
          relay,    \* where each Companion process is
          request,  \* where each invocation of the result endpoint is
          queue,    \* messages in the queue: run, item, fingerprint
          bodies,   \* ghost: messages the queue has ever accepted
          acked,    \* ghost: results a Companion was told are accepted
          attempts, \* dispatch attempts so far: the next attempt id
          faults

ledger == <<run, receipts, health>>
server == <<job, request, attempts>>
local  == <<slot, relay, acked>>
vars   == <<ledger, runner, server, local, queue, bodies, faults>>

Ended    == {"success", "partial", "failed"}
Active   == {"queued", "leased"}
NoResult == [phase |-> "none"]
Idle     == [at |-> "idle"]

Open(r) == run[r].status \in {"running", "queued"} /\ ~run[r].accounted

Init ==
    /\ run = [r \in Runs |-> [status |-> "none", enqueued |-> 0,
                              partial |-> FALSE, accounted |-> FALSE]]
    /\ receipts = [r \in Runs |-> [done |-> {}, failed |-> {}]]
    /\ health = [r \in Runs |-> 0]
    /\ runner = [r \in Runs |-> [at |-> "new", canonical |-> None]]
    /\ job = [r \in Runs |-> [status |-> "none", result |-> NoResult]]
    /\ slot = None
    /\ relay = [p \in Companions |-> Idle]
    /\ request = [q \in Requests |-> Idle]
    /\ queue = {} /\ bodies = {} /\ acked = {}
    /\ attempts = 0 /\ faults = 0

Fault == faults < MaxFaults /\ faults' = faults + 1

-----------------------------------------------------------------------------
(* runSource for a collector source: queueCollectorJob, then the queued row *)

Runner(r, from, to) ==
    /\ runner[r].at = from
    /\ runner' = [runner EXCEPT ![r] = [at |-> to, canonical |-> None]]

BeginRun(r) ==
    /\ Runner(r, "new", "looking")
    /\ run' = [run EXCEPT ![r].status = "running"]
    /\ UNCHANGED <<receipts, health, server, local, queue, bodies, faults>>

\* The job of the source and operation that is queued or leased, or nobody's.
ActiveJobs == {c \in Runs : job[c].status \in Active}

Join(r, c) == runner' = [runner EXCEPT ![r] = [at |-> "joining", canonical |-> c]]

LookForJob(r) ==
    /\ runner[r].at = "looking"
    /\ IF ActiveJobs = {} THEN Runner(r, "looking", "inserting")
                          ELSE \E c \in ActiveJobs : Join(r, c)
    /\ UNCHANGED <<ledger, server, local, queue, bodies, faults>>

\* INSERT OR IGNORE against the unique index over active jobs.
InsertJob(r) ==
    /\ IF ActiveJobs = {}
       THEN /\ Runner(r, "inserting", "handing")
            /\ job' = [job EXCEPT ![r].status = "queued"]
       ELSE Runner(r, "inserting", "raced") /\ UNCHANGED job
    /\ UNCHANGED <<ledger, request, attempts, local, queue, bodies, faults>>

\* The insert was ignored; the job that won may have ended meanwhile.
FindWinner(r) ==
    /\ runner[r].at = "raced"
    /\ IF ActiveJobs = {} THEN Runner(r, "raced", "failing")
                          ELSE \E c \in ActiveJobs : Join(r, c)
    /\ UNCHANGED <<ledger, server, local, queue, bodies, faults>>

\* supersedeCollectorSourceRun.
Superseded(r) ==
    run' = IF Open(r) THEN [run EXCEPT ![r].status = "pending", ![r].enqueued = 0] ELSE run

\* ... after which runSource returns the canonical run.
Supersede(r) ==
    /\ runner[r].at = "joining"
    /\ Superseded(r)
    /\ runner' = [runner EXCEPT ![r].at = "done"]
    /\ UNCHANGED <<receipts, health, server, local, queue, bodies, faults>>

\* finishSourceRun with status queued and no items of its own.
HandedOver(r) ==
    run' = IF Open(r) THEN [run EXCEPT ![r].status = "queued", ![r].enqueued = 0,
                                       ![r].partial = FALSE]
                      ELSE run

HandOver(r) ==
    /\ Runner(r, "handing", "done")
    /\ HandedOver(r)
    /\ UNCHANGED <<receipts, health, server, local, queue, bodies, faults>>

\* A statement of queueCollectorJob or of the hand-over throws, although it may
\* have been committed: the job may be there, the run superseded or queued.
RunThrows(r) ==
    /\ Fault
    /\ \E from \in {"looking", "inserting", "raced", "joining", "handing"} :
        /\ Runner(r, from, "failing")
        /\ \/ UNCHANGED <<run, job>>
           \/ /\ from = "inserting" /\ ActiveJobs = {}
              /\ job' = [job EXCEPT ![r].status = "queued"] /\ UNCHANGED run
           \/ from = "joining" /\ Superseded(r) /\ UNCHANGED job
           \/ from = "handing" /\ HandedOver(r) /\ UNCHANGED job
    /\ UNCHANGED <<receipts, health, request, attempts, local, queue, bodies>>

\* The catch of runSource, when queueCollectorJob found neither a place nor a
\* winner, or something threw: finishSourceRun with status failed asks nothing
\* of the run, and leaves the job as it is.
FailRun(r) ==
    /\ Runner(r, "failing", "done")
    /\ run' = [run EXCEPT ![r].status = "failed", ![r].accounted = TRUE]
    /\ health' = [health EXCEPT ![r] = @ + 1]
    /\ UNCHANGED <<receipts, server, local, queue, bodies, faults>>

-----------------------------------------------------------------------------
(* The Companion: pollOnce, its outbox and its crashes *)

At(p, state) == relay' = [relay EXCEPT ![p] = state]

\* replayPendingResult reads the outbox: a pending result goes first.
ReadOutbox(p) ==
    /\ relay[p].at = "idle"
    /\ At(p, IF slot = None THEN [at |-> "polling"]
                            ELSE [at |-> "submitting", result |-> slot])
    /\ UNCHANGED <<ledger, runner, server, slot, acked, queue, bodies, faults>>

Claimable(r) == job[r].status \in Active /\ (Overtaking \/ runner[r].at = "done")

\* claimCollectorJob: a job in the queue, or one whose lease has expired.  The
\* answer may be lost after the claim.
Poll(p) ==
    /\ relay[p].at = "polling"
    /\ \E r \in Runs :
        /\ Claimable(r)
        /\ job' = [job EXCEPT ![r].status = "leased"]
        /\ \/ At(p, [at |-> "working", run |-> r]) /\ UNCHANGED faults
           \/ At(p, Idle) /\ Fault
    /\ UNCHANGED <<ledger, runner, request, attempts, slot, acked, queue, bodies>>

\* No job is in the queue, and no lease has expired.
PollNothing(p) ==
    /\ relay[p].at = "polling"
    /\ ~\E r \in Runs : Claimable(r) /\ job[r].status = "queued"
    /\ At(p, Idle)
    /\ UNCHANGED <<ledger, runner, server, slot, acked, queue, bodies, faults>>

\* persistResultOutbox: the slot is never overwritten; a result that finds it
\* taken is dropped.
Execute(p) ==
    /\ relay[p].at = "working"
    /\ \E f \in Prints :
        LET result == [run |-> relay[p].run, print |-> f]
        IN IF slot = None
           THEN slot' = result /\ At(p, [at |-> "submitting", result |-> result])
           ELSE UNCHANGED slot /\ At(p, Idle)
    /\ UNCHANGED <<ledger, runner, server, acked, queue, bodies, faults>>

\* Every backend failed: the failure is reported once, and not kept.
ExecuteFails(p) ==
    /\ relay[p].at = "working"
    /\ At(p, [at |-> "submitting", result |-> [run |-> relay[p].run, print |-> None]])
    /\ UNCHANGED <<ledger, runner, server, slot, acked, queue, bodies, faults>>

Arrived(p) == [at |-> "arrived", from |-> p, run |-> relay[p].result.run,
               print |-> relay[p].result.print, seen |-> NoResult, sent |-> 0]

Submit(p) ==
    /\ relay[p].at = "submitting"
    /\ \E q \in Requests :
        /\ request[q].at = "idle"
        /\ request' = [request EXCEPT ![q] = Arrived(p)]
        /\ At(p, [at |-> "waiting", on |-> q, result |-> relay[p].result])
    /\ UNCHANGED <<ledger, runner, job, attempts, slot, acked, queue, bodies, faults>>

\* clearAcknowledgedResultOutbox removes only what was acknowledged.
ClearSlot(p) ==
    /\ relay[p].at = "accepted"
    /\ slot' = IF slot = relay[p].result THEN None ELSE slot
    /\ At(p, Idle)
    /\ UNCHANGED <<ledger, runner, server, acked, queue, bodies, faults>>

\* The request times out, or the process dies: the server works on.
Abandon(p) ==
    /\ relay[p].at # "idle"
    /\ Fault
    /\ At(p, Idle)
    /\ request' = [q \in Requests |->
                    IF request[q].at # "idle" /\ request[q].from = p
                    THEN [request[q] EXCEPT !.from = None] ELSE request[q]]
    /\ UNCHANGED <<ledger, runner, job, attempts, slot, acked, queue, bodies>>

-----------------------------------------------------------------------------
(* The result endpoint of handleCollectorRequest *)

Goto(q, state) == request' = [request EXCEPT ![q].at = state]

Taken(q) == [run |-> request[q].run, print |-> request[q].print]

\* The response reaches the Companion that still waits for it; one that is not
\* an acknowledgement ends its poll.
Answer(q, ok) ==
    LET p    == request[q].from
        told == p # None /\ ok /\ request[q].print # None
    IN /\ request' = [request EXCEPT ![q] = Idle]
       /\ relay' = IF p = None THEN relay
                   ELSE [relay EXCEPT ![p] = IF told THEN [at |-> "accepted", result |-> Taken(q)]
                                                     ELSE Idle]
       /\ acked' = IF told THEN acked \cup {Taken(q)} ELSE acked

\* The result in the request is not the one the record is about.
Differs(q, d) == request[q].print # None /\ d # NoResult /\ d.print # request[q].print

\* Mutant of Course: an intent to send counts as sent.
CourseIntentCounts(q, d) ==
    IF d = NoResult THEN IF request[q].print = None THEN "completing" ELSE "beginning"
    ELSE IF Differs(q, d) /\ d.phase # "retryable" THEN "refused"
    ELSE IF d.phase = "retryable" /\ request[q].print # None THEN "beginning"
    ELSE IF d.phase = "retryable" THEN "refused" ELSE "completing"

\* Where the SELECT of the job sends a request whose job is leased: a new
\* dispatch, the end of one, or a conflict.
Course(q, d) ==
    IF d = NoResult THEN IF request[q].print = None THEN "completing" ELSE "beginning"
    ELSE IF Differs(q, d) /\ d.phase # "retryable" THEN "refused"
    ELSE CASE d.phase = "accepted"    -> "completing"
           [] d.phase = "dispatching" -> "settling"
           [] d.phase = "retryable"   -> IF request[q].print = None THEN "refused" ELSE "beginning"

\* The number of items a request will complete its job with.
Accepted(d) == IF d = NoResult THEN 0 ELSE d.accepted

ReadJob(q) ==
    LET j == job[request[q].run]
        course == Course(q, j.result)
    IN /\ request[q].at = "arrived" /\ j.status = "leased"
       /\ IF course = "refused" THEN Answer(q, FALSE)
          ELSE /\ request' = [request EXCEPT ![q].at = course, ![q].seen = j.result,
                                             ![q].sent = Accepted(j.result)]
               /\ UNCHANGED <<relay, acked>>
       /\ UNCHANGED <<ledger, runner, job, attempts, slot, queue, bodies, faults>>

\* A job that is not leased: a duplicate of what completed it, or a conflict.
ReadEnded(q) ==
    LET j == job[request[q].run]
    IN /\ request[q].at = "arrived" /\ j.status # "leased"
       /\ Answer(q, j.status = "complete" /\ ~Differs(q, j.result))
       /\ UNCHANGED <<ledger, runner, job, attempts, slot, queue, bodies, faults>>

Over(r) == run[r].status \in Ended /\ run[r].accounted

\* settleTerminalSourceRunDispatch reads the run: receipts may have ended it.
SettledRun(q) ==
    LET r == request[q].run
    IN /\ request[q].at \in {"settling", "lost"}
       /\ Over(r)
       /\ request' = [request EXCEPT ![q].at = "marking",
                        ![q].sent = Min({Count[request[q].seen.print], run[r].enqueued})]
       /\ UNCHANGED <<ledger, runner, job, attempts, local, queue, bodies, faults>>

\* It has not ended, and the attempt is not yet late.
InProgress(q) ==
    /\ request[q].at \in {"settling", "lost"}
    /\ ~Over(request[q].run)
    /\ Answer(q, FALSE)
    /\ UNCHANGED <<ledger, runner, job, attempts, slot, queue, bodies, faults>>

\* The request that began the attempt is still at work on it.
AtWork(a) == \E q \in Requests :
    /\ request[q].at \in {"sending", "withdrawing", "revising", "replaying", "accepting"}
    /\ request[q].seen.attempt = a

\* Mutant of TakeOver: an attempt is kept from being repeated for good.
TakeOverNever(q) == FALSE /\ UNCHANGED vars

\* COMPANION_DISPATCH_TAKEOVER_MS have passed since the attempt began; that its
\* request takes longer is a fault.
TakeOver(q) ==
    /\ request[q].at = "settling" /\ request[q].print # None
    /\ ~Over(request[q].run)
    /\ IF AtWork(request[q].seen.attempt) THEN Fault ELSE UNCHANGED faults
    /\ Goto(q, "beginning")
    /\ UNCHANGED <<ledger, runner, job, attempts, local, queue, bodies>>

\* updateCollectorJobDispatch: the compare-and-set on the record that was read.
SetPhase(q, d, phase, sent) ==
    LET r == request[q].run
    IN job' = IF job[r].status = "leased" /\ job[r].result = d
              THEN [job EXCEPT ![r].result = [d EXCEPT !.phase = phase, !.accepted = sent]]
              ELSE job

\* After the compare-and-set, with the record then in the job: an accepted one
\* of the same result is completed, a completed job is acknowledged.
Confirmed(q, d, sent) ==
    LET r == request[q].run
        now == job'[r].result
    IN IF now # NoResult /\ now.print = d.print /\ now.phase = "accepted"
       THEN /\ request' = [request EXCEPT ![q].at = "completing", ![q].sent = sent]
            /\ UNCHANGED <<relay, acked>>
       ELSE Answer(q, job[r].status = "complete")

Mark(q) ==
    LET d == request[q].seen
    IN /\ request[q].at = "marking"
       /\ SetPhase(q, d, "accepted", request[q].sent)
       /\ Confirmed(q, d, Accepted(job'[request[q].run].result))
       /\ UNCHANGED <<ledger, runner, attempts, slot, queue, bodies, faults>>

Attempt(q) == [phase |-> "dispatching", print |-> request[q].print,
               attempt |-> attempts, accepted |-> 0]

\* Mutant of Owned: the record the request has read is not compared.
OwnedUnread(q) ==
    LET r == request[q].run IN job[r].status = "leased" /\ Open(r)

Owned(q) ==
    LET r == request[q].run
    IN job[r].status = "leased" /\ job[r].result = request[q].seen /\ Open(r)

\* beginCollectorJobDispatch: the record and the intent of the run, in a batch.
Begin(q) ==
    LET r == request[q].run
        f == request[q].print
    IN /\ request[q].at = "beginning"
       /\ IF Owned(q)
          THEN /\ job' = [job EXCEPT ![r].result = Attempt(q)]
               /\ run' = [run EXCEPT ![r].status = "queued", ![r].enqueued = Count[f],
                                     ![r].partial = f \in PartialPrints]
               /\ request' = [request EXCEPT
                               ![q].at = IF Count[f] = 0 THEN "accepting" ELSE "sending",
                               ![q].seen = Attempt(q), ![q].sent = 0]
               /\ attempts' = attempts + 1
          ELSE Goto(q, "losing") /\ UNCHANGED <<job, run, attempts>>
       /\ UNCHANGED <<receipts, health, runner, relay, acked, slot, queue, bodies, faults>>

\* The record another request has put there decides.
Lose(q) ==
    LET d == job[request[q].run].result
    IN /\ request[q].at = "losing"
       /\ IF d = NoResult \/ Differs(q, d) \/ d.phase = "retryable" THEN Answer(q, FALSE)
          ELSE /\ request' = [request EXCEPT
                                ![q].at = IF d.phase = "accepted" THEN "completing" ELSE "lost",
                                ![q].seen = d, ![q].sent = d.accepted]
               /\ UNCHANGED <<relay, acked>>
       /\ UNCHANGED <<ledger, runner, job, attempts, slot, queue, bodies, faults>>

Item(q, i) == [run |-> request[q].run, item |-> i, print |-> request[q].print]

Enter(m) == queue' = queue \cup {m} /\ bodies' = bodies \cup {m}

\* One batch of one item.  sent counts the batches that returned.
Send(q) ==
    LET next == request[q].sent + 1
    IN /\ request[q].at = "sending"
       /\ Enter(Item(q, request[q].sent))
       /\ request' = [request EXCEPT ![q].sent = next,
                        ![q].at = IF next = Count[request[q].print] THEN "accepting" ELSE @]
       /\ UNCHANGED <<ledger, runner, job, attempts, local, faults>>

\* The send throws, although the queue may have accepted the batch.
SendThrows(q) ==
    /\ request[q].at = "sending"
    /\ Fault
    /\ UNCHANGED <<queue, bodies>> \/ Enter(Item(q, request[q].sent))
    /\ Goto(q, IF request[q].sent = 0 THEN "withdrawing" ELSE "revising")
    /\ UNCHANGED <<ledger, runner, job, attempts, local>>

\* Nothing was sent, as far as the error says: the dispatch may be retried.
Withdraw(q) ==
    /\ request[q].at = "withdrawing"
    /\ SetPhase(q, request[q].seen, "retryable", 0)
    /\ Answer(q, FALSE)
    /\ UNCHANGED <<ledger, runner, attempts, slot, queue, bodies, faults>>

\* Mutant of Revise: the run keeps counting the items that were not sent.
ReviseNot(q) ==
    /\ request[q].at = "revising"
    /\ Goto(q, "replaying")
    /\ UNCHANGED <<ledger, runner, job, attempts, local, queue, bodies, faults>>

\* reviseSourceRunAfterPartialEnqueue, its UPDATE.
Revise(q) ==
    LET r == request[q].run
    IN /\ request[q].at = "revising"
       /\ run' = IF run[r].status = "queued"
                 THEN [run EXCEPT ![r].enqueued = request[q].sent, ![r].partial = TRUE] ELSE run
       /\ Goto(q, "replaying")
       /\ UNCHANGED <<receipts, health, runner, job, attempts, local, queue, bodies, faults>>

\* The end the aggregation of receipts gives a queued run.
Verdict(r, rc) == IF Cardinality(rc.failed) >= run[r].enqueued THEN "failed"
                  ELSE IF rc.failed # {} \/ run[r].partial THEN "partial" ELSE "success"

\* Mutant of Complete: a run that has ended is aggregated again.
CompleteAgain(r, rc) == run[r].enqueued > 0 /\ Cardinality(rc.done \cup rc.failed) >= run[r].enqueued

\* Every item a queued run counts has a receipt.
Complete(r, rc) == /\ run[r].status = "queued" /\ run[r].enqueued > 0
                   /\ Cardinality(rc.done \cup rc.failed) >= run[r].enqueued

\* The aggregation and the accounting of recordSourceRunIngestOutcome.
Aggregate(r, rc) ==
    IF Complete(r, rc)
    THEN /\ run' = [run EXCEPT ![r].status = Verdict(r, rc), ![r].accounted = TRUE]
         /\ health' = [health EXCEPT ![r] = @ + 1]
    ELSE UNCHANGED <<run, health>>

\* ... and its replay of one receipt that was there already.
Replay(q) ==
    LET r == request[q].run
    IN /\ request[q].at = "replaying"
       /\ Aggregate(r, receipts[r])
       /\ Goto(q, "accepting")
       /\ UNCHANGED <<receipts, runner, job, attempts, local, queue, bodies, faults>>

\* The request's own dispatch becomes accepted, if it is still its own.
Accept(q) ==
    /\ request[q].at = "accepting"
    /\ SetPhase(q, request[q].seen, "accepted", request[q].sent)
    /\ Confirmed(q, request[q].seen, request[q].sent)
    /\ UNCHANGED <<ledger, runner, attempts, slot, queue, bodies, faults>>

\* completeCollectorJob reads the job.
ReadToComplete(q) ==
    LET j == job[request[q].run]
    IN /\ request[q].at = "completing"
       /\ IF j.status # "leased" THEN Answer(q, j.status \in {"complete", "failed"})
          ELSE IF request[q].print = None /\ j.result # NoResult /\ request[q].seen = NoResult
          THEN Answer(q, FALSE)
          ELSE /\ request' = [request EXCEPT ![q].at = "finishing", ![q].seen = j.result]
               /\ UNCHANGED <<relay, acked>>
       /\ UNCHANGED <<ledger, runner, job, attempts, slot, queue, bodies, faults>>

\* ... and its batch.  Without items the run ends here, if it is still open.
\* Whether the batch did anything does not change the answer.
Finish(q) ==
    LET r    == request[q].run
        d    == request[q].seen
        wins == job[r].status = "leased" /\ job[r].result = d
        end  == IF d = NoResult THEN "failed"
                ELSE IF d.print \in PartialPrints THEN "partial" ELSE "success"
    IN /\ request[q].at = "finishing"
       /\ job' = IF ~wins THEN job
                 ELSE IF d = NoResult THEN [job EXCEPT ![r].status = "failed"]
                 ELSE [job EXCEPT ![r].status = "complete", ![r].result.accepted = request[q].sent]
       /\ IF wins /\ request[q].sent = 0 /\ Open(r)
          THEN /\ run' = [run EXCEPT ![r].status = end, ![r].enqueued = 0, ![r].accounted = TRUE]
               /\ health' = [health EXCEPT ![r] = @ + 1]
          ELSE UNCHANGED <<run, health>>
       /\ Answer(q, TRUE)
       /\ UNCHANGED <<receipts, runner, attempts, slot, queue, bodies, faults>>

\* The invocation dies, or a call of it throws: the request is not acknowledged.
RequestEnds(q) ==
    /\ request[q].at # "idle"
    /\ Fault
    /\ Answer(q, FALSE)
    /\ UNCHANGED <<ledger, runner, job, attempts, slot, queue, bodies>>

-----------------------------------------------------------------------------
(* The queue consumers *)

\* A receipt needs a queued run that counts the item.
Receipt(m, kind) ==
    LET rc == receipts[m.run]
    IN IF /\ run[m.run].status = "queued" /\ m.item < run[m.run].enqueued
          /\ m.item \notin rc.done \cup rc.failed
       THEN IF kind = "failed" THEN [rc EXCEPT !.failed = @ \cup {m.item}]
                               ELSE [rc EXCEPT !.done = @ \cup {m.item}]
       ELSE rc

Record(m, kind) ==
    /\ receipts' = [receipts EXCEPT ![m.run] = Receipt(m, kind)]
    /\ Aggregate(m.run, Receipt(m, kind))

Receipted(m) == m.item \in receipts'[m.run].done \cup receipts'[m.run].failed

\* consumePrimaryMessage: acknowledged if the item has a receipt.
Consume(m) ==
    /\ m \in queue
    /\ Record(m, "done")
    /\ queue' = IF Receipted(m) THEN queue \ {m} ELSE queue
    /\ UNCHANGED <<runner, server, local, bodies, faults>>

\* The retries are exhausted: consumeDeadLetterMessage, which keeps the body.
Exhaust(m) ==
    /\ m \in queue
    /\ Record(m, "failed")
    /\ queue' = queue \ {m}
    /\ UNCHANGED <<runner, server, local, bodies, faults>>

-----------------------------------------------------------------------------
RunSource(r) == \/ BeginRun(r) \/ LookForJob(r) \/ InsertJob(r) \/ FindWinner(r)
                \/ Supersede(r) \/ HandOver(r) \/ FailRun(r)

Companion(p) == \/ ReadOutbox(p) \/ Poll(p) \/ PollNothing(p) \/ Execute(p) \/ ExecuteFails(p)
                \/ Submit(p) \/ ClearSlot(p)

Endpoint(q) == \/ ReadJob(q) \/ ReadEnded(q) \/ SettledRun(q) \/ InProgress(q) \/ TakeOver(q) \/ Mark(q) \/ Begin(q) \/ Lose(q)
               \/ Send(q) \/ Withdraw(q) \/ Revise(q) \/ Replay(q) \/ Accept(q)
               \/ ReadToComplete(q) \/ Finish(q)

Next ==
    \/ \E r \in Runs : RunSource(r) \/ RunThrows(r)
    \/ \E p \in Companions : Companion(p) \/ Abandon(p)
    \/ \E q \in Requests : Endpoint(q) \/ SendThrows(q) \/ RequestEnds(q)
    \/ \E m \in queue : Consume(m) \/ Exhaust(m)

Spec == Init /\ [][Next]_vars

\* An invocation of runSource and of the endpoint runs to its end, a Companion
\* polls in a loop, the queue delivers, and no lease or attempt lasts for ever.
FairSpec ==
    /\ Spec
    /\ \A r \in Runs : WF_vars(RunSource(r))
    /\ \A p \in Companions : WF_vars(Companion(p)) /\ SF_vars(Poll(p))
    /\ \A q \in Requests : WF_vars(Endpoint(q))
    /\ SF_vars(\E q \in Requests : TakeOver(q))
    /\ WF_vars(\E m \in queue : Consume(m) \/ Exhaust(m))

-----------------------------------------------------------------------------
(* Properties *)

RunRow   == [status : {"none", "running", "pending", "queued"} \cup Ended,
             enqueued : Nat, partial : BOOLEAN, accounted : BOOLEAN]
Receipts == [done : SUBSET Nat, failed : SUBSET Nat]
Dispatch == [phase : {"dispatching", "accepted", "retryable"}, print : Prints,
             attempt : Nat, accepted : Nat]
JobRow   == [status : {"none", "complete", "failed"} \cup Active,
             result : {NoResult} \cup Dispatch]
Result   == [run : Runs, print : Prints]
Report   == [run : Runs, print : Prints \cup {None}]
Message  == [run : Runs, item : Nat, print : Prints]
Stages   == {"arrived", "beginning", "losing", "lost", "settling", "marking", "sending",
             "withdrawing", "revising", "replaying", "accepting", "completing", "finishing"}
Handling == [at : Stages, from : Companions \cup {None}, run : Runs,
             print : Prints \cup {None}, seen : {NoResult} \cup Dispatch, sent : Nat]
Polling  == {Idle} \cup [at : {"polling"}] \cup [at : {"working"}, run : Runs]
              \cup [at : {"submitting", "accepted"}, result : Report]
              \cup [at : {"waiting"}, on : Requests, result : Report]

TypeOK ==
    /\ run \in [Runs -> RunRow]
    /\ receipts \in [Runs -> Receipts]
    /\ health \in [Runs -> Nat]
    /\ runner \in [Runs -> [at : {"new", "looking", "inserting", "raced", "joining",
                                  "handing", "failing", "done"},
                            canonical : Runs \cup {None}]]
    /\ job \in [Runs -> JobRow]
    /\ slot \in {None} \cup Result
    /\ relay \in [Companions -> Polling]
    /\ request \in [Requests -> Handling \cup {Idle}]
    /\ queue \subseteq bodies /\ bodies \subseteq Message /\ IsFiniteSet(bodies)
    /\ acked \subseteq Result
    /\ attempts \in Nat /\ faults \in 0..MaxFaults

Entered(r) == {m.item : m \in {n \in bodies : n.run = r}}

\* What a Companion was told is accepted is no longer needed at its end: the job
\* is complete, the queue has taken a body for every item the job counts, and
\* for every item of the result unless the run says that it is partial.
AckedIsSent ==
    \A a \in acked :
        LET result == job[a.run].result
        IN /\ job[a.run].status = "complete"
           /\ 0..(result.accepted - 1) \subseteq Entered(a.run)
           /\ run[a.run].partial \/ 0..(Count[result.print] - 1) \subseteq Entered(a.run)

\* A run is accounted to its source once, when it ends, however many requests,
\* receipts and completions race to end it, and whatever throws on the way.
AccountedOnce == \A r \in Runs : health[r] = IF run[r].accounted THEN 1 ELSE 0

\* A run that has been handed over is never orphaned: a job that can still end
\* it is active, or every item it waits for is still in the queue.
NotOrphaned ==
    \A r \in Runs :
        runner[r].at = "done" /\ run[r].status = "queued" =>
            \/ job[r].status \in Active
            \/ /\ run[r].enqueued > 0
               /\ \A i \in 0..(run[r].enqueued - 1) :
                     \/ i \in receipts[r].done \cup receipts[r].failed
                     \/ \E m \in queue : m.run = r /\ m.item = i

\* "A confirmed zero-send": a dispatch that is marked retryable, so that another
\* result may replace it, has put nothing into the queue.
RetryableIsUnsent ==
    \A r \in Runs :
        job[r].result # NoResult /\ job[r].result.phase = "retryable" =>
            ~\E m \in bodies : m.run = r /\ m.print = job[r].result.print

\* The pending result can never be acknowledged: its job has completed with
\* another one, or can neither be dispatched again nor completed.
Stuck ==
    /\ slot # None
    /\ LET j == job[slot.run]
       IN \/ j.status = "failed"
          \/ j.status = "complete" /\ j.result.print # slot.print
          \/ j.status = "leased" /\ ~Open(slot.run)
          \/ j.status = "leased" /\ j.result # NoResult /\ j.result.print # slot.print

\* Every run is served: it ends, or gives way to another run, and its job ends,
\* unless a result that cannot be acknowledged blocks the Companion.
EventuallyServed ==
    \A r \in Runs :
        run[r].status = "running"
            ~> Stuck \/ (run[r].status \in Ended \cup {"pending"} /\ job[r].status \notin Active)
=============================================================================
