# Driftglass in TLA+

Driftglass collects items from configured sources, stores them, groups them into
stories and keeps memories, missions and briefs about them. The same TypeScript
runs as a Cloudflare Worker (D1, R2, Queues, Workflows, one Durable Object) and
as a self-hosted Node process (SQLite, a directory of objects, a queue kept in
the database); a Companion program on the owner's computer collects what only
that computer can reach. This directory holds TLA+ modules for the core logic,
TLC configurations that check them on small instances, and TLAPS proofs. Paths
below are relative to the repository; `src/` is its implementation directory.

## 1. Inventory

### Delivery of collected items

| part | source | state | operations | module |
|---|---|---|---|---|
| Source runner | `src/sources/registry.ts` | none of its own | `runSource`: resume the outbox, check budget and queue health, begin a run, collect, hand off, end | `SourceOutbox`, `SourceScheduler`, `CompanionJob` |
| Producer outbox | `src/source-ingest-outbox.ts` | `source_ingest_outbox_runs`, `_messages`, raw bodies in R2 | stage, activate, drain, maintain stale staging, delete terminal runs | `SourceOutbox` |
| Source-run ledger | `src/db.ts` 178-645 | `source_runs`, `source_run_ingest_receipts`, health of `sources` | begin, finish, give back, record an outcome, account | `SourceOutbox`, `TrackedRun` |
| Queue transport | `wrangler.jsonc`, `src/ingest-queue.ts` | primary, dead-letter and quarantine queue | at-least-once delivery with 3, 3 and 20 retries | `SourceOutbox`, `DeadLetterRecovery` |
| Consumer | `src/ingest-consumer.ts` | none | primary, dead-letter and quarantine consumers | same, `CompanionJob` |
| Item ingestion | `src/ingest.ts`, `src/db.ts` 942-1345 | `items`, `item_ingest_completions`, stories | insert, resume stage by stage under a lease | `ItemIngest` |
| Dead letters | `src/db.ts` 647-880, `src/api.ts` 634-745, `src/quarantine-recovery.ts` | `ingest_dead_letters`, emergency objects in R2 | record, lease for retry, release, complete, dismiss, materialize | `DeadLetterRecovery` |
| Queue health | `src/queue-health.ts` | cached metrics | refuse a send while the transport is not durable | `DeadLetterRecovery` (its two gates) |
| Email intake | `src/email.ts`, `src/db.ts` 3274-3460 | receipts of inbound mail | claim, send, complete, fail | `EmailIntake` |
| Companion jobs | `src/collectors.ts`, `src/db.ts` 2036-2526, `driftglass-relay/driftglass-relay.mjs` | jobs with dispatch identity and lease | queue, supersede, poll, dispatch, claim, complete | `CompanionJob` |
| Companion files | `driftglass-relay/driftglass-relay.mjs` | result slot; journal, credential and configuration of the pairing | persist, recover, submit, clear; pair, doctor, unpair | `RelayOutbox`, `CompanionPairing` |
| Budget governor | `src/budget.ts`, `src/browser-admission.ts`, `src/db.ts` 5143-5220 | daily and monthly counters, start slots | reserve, settle, claim a slot | `BrowserBudget` |

### Self-hosted runtime

| part | source | state | operations | module |
|---|---|---|---|---|
| Ingest queue | `src/runtime/node/durable-ingest-queue.ts` | one SQLite table in three lanes | enqueue, lease, renew, acknowledge, retry, hand off | `LocalIngestQueue`, `DeliveryLadder` |
| Process lock | `src/runtime/node/process-lock.ts` | one file | acquire, clear a stale lock, release | `ProcessLock` |
| Source scheduler | `src/runtime/node/source-scheduler.ts`, `src/adaptive-cadence.ts` | `last_run_at`, `next_run_at`, a lease | find due sources, run, retire interrupted runs | `SourceScheduler` |
| Object store | `src/runtime/node/object-store.ts` | blobs, metadata, a lock directory | put, delete, collect garbage, recover the lock | `ObjectStore` |
| Scheduled intelligence, backup, authority, migrations | `src/runtime/node/*.ts` | files, receipts, occurrences | ticks, snapshot, verify, restore | none |

### Intelligence

| part | source | state | operations | module |
|---|---|---|---|---|
| Epistemic memory | `src/epistemic-memory.ts`, `src/memory-graph.ts` | graph runs, graph, dirty flag | launch, elect, reconcile, execute, recover | `MemoryRefresh` |
| Missions | `src/missions.ts`, `src/mission-*.ts` | missions, matches, workspace mirror | match, update, rebuild, synchronise | `MissionMatches` (the matches) |
| Routines | `src/routine-workflow.ts`, `src/intelligence-routines.ts` | runs and Workflow instances | launch, resume | none |
| Reasoning, packs, briefs, search, HTTP, MCP, rendering, UI | `src/reasoning*.ts`, `src/ai-search.ts`, `src/api.ts`, `src/mcp*.ts`, `public/`, ... | ledgers, indexes, tokens | mostly ranking, text and request handling | none |

### How the parts interact

A source run is staged in the outbox, activated together with its ledger row in
one batch, and sent to the queue by whichever invocation drains the outbox. The
queue delivers each message at least once; the consumer ingests the item and
records a receipt in the ledger; the receipt that completes a run settles the
run's status and the source's health, and a later invocation deletes the outbox
rows. A message that keeps failing moves to the dead-letter queue, whose
consumer stores it in D1 as an incident for the owner, and from there, if D1 is
not available, to the quarantine queue and to R2. On Node the transport is the
SQLite queue, guarded by the process lock. A collector's run is a job instead: a
Companion polls for it, keeps the result on disk, and submits it until the
endpoint, which sends the items itself, acknowledges. A mail is one message under
a receipt that a delivery claims. What is ingested raises the dirty flag of the
memory and is matched with the missions; both are rebuilt in the background while
ingestion goes on.

Hard behaviours: batches of statements that commit although their caller sees
an error; leases that expire under a running holder; sends that are accepted and
reported as failed; duplicates that arrive after a run is settled; two
invocations draining one run; deletion of bodies that a queued message still
needs; values read in one statement and used in another; kills between any two
file-system calls and power failures that lose what was not flushed.

### What makes each part correct

- **Source runner, outbox, ledger, queue, consumer.** No body the queue has not
  settled is ever without an exact copy; the send cursor never passes an unsent
  message; a run whose items were handed off ends once, as its receipts say, and
  changes its source's health once; a failed item stays recoverable; an activated
  run settles.
- **Item ingestion.** A message is answered only when its item is completely
  ingested, whatever died on the way; the recorded stage is never ahead of the work,
  apart from lineage that the owner has switched off; an item is in one story; each
  origin is counted once; a stored item's raw object survives the cleaning of
  duplicates.
- **Self-host queue.** The same contract without a second copy: one live row per
  body, no body lost, demotion only after the attempts of a lane were used, a
  lost lease writes nothing, every body settles.
- **Process lock.** One owner at a time; a dead owner's record does not lock
  everyone out.
- **Scheduler.** A due source whose collection was interrupted is still due;
  what is durable is not retired; every run ends.
- **Companion jobs.** The Companion gives a result up only when the queue has its
  items; a run is counted once and has a job that can end it, until it is served.
- **Companion files.** A result is on disk, whole and with the credential it
  needs, until it is acknowledged; it is replayed before new work is polled; the
  credential on disk is that of the pairing, whatever was interrupted.
- **Dead letters, email.** A body the queue accepted is in a lane, an incident or
  the emergency store until it is an item or dismissed; one claim sends one copy,
  one request retries an incident.
- **Budget governor.** The day's row covers what the browser did and, while the
  limit holds, does not pass it; starts are spaced over the deployment.
- **Memory refresh.** One writer at a time; a story that keeps standing among the
  latest, of which a refresh takes a bounded number, gets into the graph.
- **Object store.** Every key names a blob that exists; a condition still holds
  when its put writes.
- **Missions.** A committed rebuild leaves the matches of the current definition.

The hazards behind these are listed, line by line, in `PROJECT.json`.

## 2. Plan

Written, in this order: `LocalIngestQueue` + `DeliveryLadder`, `ProcessLock`,
`SourceOutbox` + `TrackedRun`, `ItemIngest`, each with an MC module; then
`CompanionJob`, `DeadLetterRecovery` + `EmailIntake`, `RelayOutbox`,
`CompanionPairing`, `MemoryRefresh`, `BrowserBudget`, `ObjectStore`,
`MissionMatches` and `SourceScheduler`; then the proofs, component by component
(section 6). Every component that has a module has theorems.

Small protocols that share no state are checked by one run with a scenario each,
instead of a run each: `MCLocalFiles` (lock, result slot, pairing), `MCCollection`
(Companion job, scheduler), `MCBackground` (browser, memory in two settings,
objects, missions). A scenario fixes the state of the others, and every run stays at
a few hundred thousand states. `LocalFiles` instantiates the slot and the pairing
beside the lock, `Background` the memory, the object store and the missions, and
`LocalSources` the scheduler; the MC modules and the proofs both extend them, so
that they speak of the same properties.

Left, most valuable first:

- theorems: the Companion's files with `doctor` beside the service, as *inspected*
  and *beside* check it;
- `RoutineLaunch` and the synchronisation of the search index (section 8);
- the pure computations: the adaptive interval and the prefix that fits the outbox,
  against reference definitions over bounded inputs.

## 3. The modules and the code

One action is one thing the environment can observe or interrupt: an SQL
statement, a D1 batch (a transaction), a call of the queue, of the platform or of
the file system. Between two of them any other process may act, and the caller
may die. `PROJECT.json` maps every definition to its lines.

**`LocalIngestQueue`** (`src/runtime/node/durable-ingest-queue.ts`). `rows` is
the table, keyed by row id; `work[w]` is delivery loop *w* with its copy of the
row it leased, which may be stale (`leaseNext` selects in one statement and
claims in another); `offers[p]` is a batch that passed the capacity check and is
not inserted yet. Clocks are one bit per row, `due`, set by `Elapse`. The
actions are the methods: `EnqueueCheck`, `EnqueueInsert`, `LeaseSelect`,
`LeaseClaim`, `Renew`, `DeliverHandler`, `DeliverDamaged`, `Ack`, `Retry`,
`Handoff`, `FailWithoutHandoff`; the environment's are `Stall`, `WorkerError`,
`Kill`, `EnqueueAbandon`, `Damage`. `acked` is a ghost.
`DeliveryLadder` is what a reader expects of it: an accepted body is in one
lane, goes down one lane at a time, and is done or parked in the end.

**`ProcessLock`** (`src/runtime/node/process-lock.ts`). `file` is the lock file,
named by the process that created it (its inode, token and body) with a flag for
the record being written; `phase[p]` is the next file-system call of process
*p*, `observed[p]` the record it read, `attempt[p]` the loop counter. A killed
process keeps its file; `PidsRecycled` lets a stranger have its PID.

**`SourceOutbox`** (`src/source-ingest-outbox.ts`, `src/sources/registry.ts`,
`src/ingest-consumer.ts`, `src/db.ts`). `run` and `receipts` are the ledger,
`box` the outbox header with the bodies inserted so far, `raw` the evidence in
R2, `queue` the copies of each message in each lane, `incidents` the dead
letters. `producer[r]` is the position of `runSource`, `drain[d]` that of an
invocation that drains, with the cursor it read; `consumer[lane]` the delivery in
hand. Batches that commit and then throw, sends that are accepted and then
throw, and lost acknowledgements are actions of their own and cost a fault; an
error that `runSource` mistakes for a refusal costs an escape. The batch that ends
an empty collection may throw, too (`FinishThrows`): the catch of `runSource` then
fails the run, whether or not the batch has committed (`FinishUnsent`). `health`
and `sent` are ghosts. The queue service is external and modelled from its use:
it duplicates, delays and reorders, and does not lose.
`TrackedRun` is the contract of the ledger: one outcome per item, a verdict
decided by the outcomes, nothing after that, except that a run that has ended
without an outcome of any item may be taken back and failed (`Retract`), as that
catch does.

**`ItemIngest`** (`src/ingest.ts`, `src/db.ts`, `src/evidence-lineage.ts`,
`src/missions.ts`). The columns of `items` and `item_ingest_completions` are a
variable each (`item`, `origin`, `stage`, `storyId`, `lease`, `expired`); `stories`,
`links`, `lineage`, `matched` and `dirtyFor` are what the stages write. `phase[w]`
is the next statement of call *w* and `msg`, `created`, `chosen` its locals. A
legacy item, older than migration 0020, has no completion row and perhaps a story
and a lineage row (`Init`); `Enroll` gives it the stage it has earned. Each read of
`evidence_lineage_enabled` finds a value of `LineageSettings`: a call that finds it
switched off classifies nothing and goes on (`Classify`), and enrols at stage 2
without a lineage row (`Enroll`); the history `skipped` remembers for which items.
`Break` is the catch of `ingestMessage` or the death of the call; `ExpireLive` lets
the lease run out under its holder and notes in `overrun` when that happens between
the renewal and the story batch. Which story `matchStory` prefers, scores, titles
and lineage relations are data: any story of the item's topic may be chosen.

**`CompanionJob`** (`src/collectors.ts`, `src/db.ts`, `src/sources/registry.ts`,
`driftglass-relay.mjs`). `job` is the row, with the lease and the dispatch (`phase`,
fingerprint, attempt, count); `relay[p]` is a Companion process, `slot` the result
it keeps on disk, `request[q]` an invocation of the result endpoint with what it has
read, `queue` and `bodies` the messages there are and ever were. `Endpoint(q)` is
the handler statement by statement: read, record the dispatch by compare-and-set or
take over an expired one, send batch by batch, accept, complete. `Abandon`,
`RequestEnds` and `SendThrows` are what may go wrong at any of them; `RunThrows`
does the same to `runSource`, whose catch then fails the run and leaves the job as
it is (`FailRun`). A result is known by its fingerprint, its items by numbers.
`Overtaking` lets a Companion claim a job before the `runSource` that queued it has
returned.

**`DeadLetterRecovery`, `EmailIntake`** (`src/ingest-consumer.ts`, `src/db.ts`,
`src/quarantine-recovery.ts`, `src/api.ts`, `src/queue-health.ts`,
`src/email.ts`). Each accepted send is a copy with an identity, its mail, the
claim token it was sent under and its lane; `incident` is the row an exhausted
copy becomes, `object` the emergency copy in R2 while D1 is down, `owner[o]` a
request that retries or dismisses an incident, with the lease token in its hands.
`EmailIntake` adds the receipts (`receipt`) and the deliveries: `Deliver` upserts
the claim, `ReadClaim` reads it back in a second statement, as the code does. An
outage is a state, `OutageEnds` ends it.

**`RelayOutbox`, `CompanionPairing`** (`driftglass-relay.mjs`). The directory is
what the processes see; `disk` is what a power failure may leave of it: a name
whose directory was not flushed may be lost, a file that was not flushed may be
torn. Every process is a program counter over the calls of `persistResultOutbox`,
`recoverResultOutbox`, `clearAcknowledgedResultOutbox`, `pairLocked`,
`recoverPairingJournal`, `savePrivateToken` and `unpairLocked`. The service
manager starts a killed Companion again; lifecycle commands are serialized by
their lock, `doctor` is not.

**`SourceScheduler`** (`src/runtime/node/source-scheduler.ts`,
`src/sources/registry.ts`, `src/adaptive-cadence.ts`, `src/db.ts`). Runs are
numbered as they begin, so that `last` (the run whose start `last_run_at` holds),
`elapsed` (the latest run whose start is a cadence ago) and `cadence`
(`next_run_at`) decide `Due` as `dueSources` does. `call[c]` is the position of
`runSource` called by the tick or by the owner; the tick finds the source due in
one step and begins in another. `Recover` is the startup batch.

**`MemoryRefresh`** (`src/epistemic-memory.ts`, `src/db.ts`,
`src/runtime/node/local-memory.ts`). `launch[l]` is an invocation of
`refreshEpistemicMemory`, `row[l]` its row, `exec[l]` the Workflow or the local
execution, `silent` the rows that were not updated for six hours. A refresh plans
the stories that stand highest, as many as the budget profile (`window`) and its
caller (`maxStories`) allow: `latest` are those within the window, chosen anew at
each ingest, as scores are data. `auto` is the switch of the schedule. The reads of
the active row, of the platform and the writes that follow are separate steps.
`profile` is the runtime; what the two share is written once.

**`BrowserBudget`** (`src/rendering.ts`, `src/budget.ts`,
`src/browser-admission.ts`, `src/db.ts`). `usage` is the day's row, `next` the
next free start, `attempt[a]` the position of a rendering attempt with the day
and the units it reserved, what it was charged and what the browser used.

**`ObjectStore`** (`src/runtime/node/object-store.ts`). `lock` is the lock
directory with its owner record, `mutex` the recovery mutex, `op[o]` the next
file-system call of an operation. A restart has another PID, and a lock may look
stale whenever somebody looks at it.

**`MissionMatches`** (`src/missions.ts`, `src/db.ts`). `version` is the
definition, `ingest[s]` the position of the story's ingest with the version it
scored against, `rebuild[r]` a rebuild with its plan and watermark, `since[r]`
what was recorded after the watermark.

## 4. Runs

| run | instance | shows |
|---|---|---|
| `LocalIngestQueue_delivery` | scenario *leases*: 1 body, 1 producer, 2 loops, attempts 2/1/1, 3 faults; *producers*: 3 bodies, 2 producers, 1 loop, capacity 1, 1 fault | `OneLiveRow`, `NoBodyLost`, `HandoffEarned`, `CapacityOvershootBounded`, `LeaseFenced`, `ImplementsLadder`; `EventuallySettled` under fairness |
| `LocalFiles_recovered` | 3 processes and the lock, at once without a kill (*orderly*) or one after the other with 2 kills (*supervised*); 3 Companions, `doctor`, `unpair` and 2 results, with kills, failed writes or power failures (*service, inspected, outage, offline, unpair*); 2 pairings, `doctor` and `unpair` (*interrupted, powerless, beside*) | `OneOwner`, `Submittable`, `ReplayedFirst`, `CredentialMatchesPairing`; `Recovered`, `EventuallyAcked` under fairness |
| `SourceOutbox_settled` | *handoff*: 1 run of 2 items, 2 drains, 1 fault; *capacity*: 2 runs of 1 item, one partial, room for 1, 1 drain, 1 fault, 1 escape | `KeptUntilSettled`, `EvidenceKept`, `ImplementsContract`; `ActivatedSettles` under fairness (*capacity*) |
| `ItemIngest_resume` | 2 calls, 2 messages with one content, a second legacy item of the topic, lineage on or off at each read, 1 fault, 1 expiry | `StageHonest`, `OneStoryPerItem`, `ReturnsOnlyComplete`, `OriginCountedOnce`, `RawOfItemKept`; `Settles` under fairness |
| `Collection_settled` | *companion*: 2 runs of one source, 1 Companion, 2 requests, results of 2 and 0 items, 1 fault; *sources*: 2 runs of a built-in source, the tick and the owner, 2 kills | `AckedIsSent`, `AccountedOnce`, `NotOrphaned`, `InterruptedDueAgain`, `NothingDurableRetired`; `EventuallyServed`, `EveryRunEnds` under fairness |
| `EmailIntake_recovered` | 1 mail, up to 3 copies; *lone*: 1 delivery and 1 owner request at a time, 1 fault, 1 outage; *overlap*: 2 of each, 1 outage | `NothingLost`, `OneSender`; `EventuallyIngested` under fairness |
| `Background_settled` | *browser*: 2 attempts, 2 limits, 2 intervals, a day that ends; *memory*: 1 story, 3 launches, 1 fault, both runtimes; *ranking*: 2 stories, windows of 1 and 2, 1 launch, an owner who asks for less, the schedule switched; *objects*: 3 operations on 1 key, 2 kills, 1 error; *missions*: 1 story, 2 definitions, 2 rebuilds | `LedgerSound`, `SlotsSpaced`, `OneGraphWriter`, `NoDangling`, `ConditionStillHolds`, `MatchesCurrent`; `EventuallyRemembered` under fairness |
| `ProcessLock_contended` | 3 processes at once, 1 kill | violates `OneOwner` |
| `RelayOutbox_unpaired` | a Companion that runs, and `unpair`; no fault | violates `CredentialOutlivesResult` |
| `SourceOutbox_escape` | 1 run of 1 item, 1 escape | violates `ExactBodyKept` |
| `CompanionJob_withdrawn` | 1 run, 2 requests, 1 fault | violates `RetryableIsUnsent` |
| `EmailIntake_overtaken` | 1 mail, 2 deliveries, 1 fault | violates `ReturnedIsSent` |

Some properties have parts: `KeptUntilSettled` has `CursorCovered`,
`FailedRecoverable`, `AccountedOnce` (of the outbox) and, until an error was taken
for a refusal, `ExactBodyKept` (the finding says why); `EvidenceKept` has
`NothingLost` and `RawKept`; `Submittable`, `CredentialMatchesPairing` and
`Recovered` have the two parts their comments name. `ImplementsContract` likewise
asks for a step of `TrackedRun` as long as there was no such error. The type
invariants are not checked by a run of their own: they are proved (section 6).

*Why the bounds are enough.* Every hazard here is a race of two: two loops and one
row, two drains and one run, two calls and one item, two requests and one job, two
deliveries of one mail, two claimants of one stale file (the third process of the
lock is the dead owner, the third operation of the object store the one that waits,
the third launch of the memory the one after a stale run). Two attempts in the first
lane keep both branches of the attempt check; the shorter lanes only save states.
Three faults in *leases* let a stall, a kill and a thrown statement meet in one
behaviour; elsewhere one fault beside two overlapping actors reaches the
interleavings the hazards name, and two kills an interrupted recovery. Batches of
one message with runs of two put a cursor strictly inside a run; a result of two
items and one of none have a first batch, a later one and nothing to send. Two
contents of one topic let an item be matched to a story it did not create. Two
stories and windows of one and two let each outrank the other and a refresh leave
one out. Three copies of a mail are the original, the retry of its incident and a
second claim. Two runs of a source are enough for two interrupted ones in a row, in
one process or across a restart. Deadlock is not checked where everything may be
settled and the system rests; `ProcessLock` has an explicit `Finished`. Every
property of a passing run is also shown to fail for a small mutation of the code's
model (`PROJECT.json`, `mutants`).

*Constraints that are environment.* Each scenario names in a comment what it
leaves out. `MaxContenders` and the scenarios *orderly* and *supervised* say how
many processes acquire the lock at once: with one, kills are allowed; with more,
none: exactly the conditions under which the lock holds (sections 6, 7).
`ReplayedFirst` leaves out *inspected*, where `doctor` moves the result between
the two looks of a Companion that starts (section 7). *memory* keeps the
schedule on and the window fixed, which *ranking* changes; `unpair` runs beside no
service that is alive (`ServiceStopped`), which is the finding. In *memory* and
*objects* equal actors go in the order of their names. `Overtaking` is `FALSE`
(section 7).

*Exceptions stated in the properties.* `EventuallyIngested` excepts a claim whose
delivery died before its send (`Stranded`) and a copy that carries an old token
(`Dropped`); `Recovered` excepts an empty lock file, a lock whose owner's PID is in
use, and a journal beside the configuration of another pairing;
`EventuallyServed` excepts a run that is `Stuck` by the finding;
`EventuallyRemembered` a self-hosted process that is `Wedged`, a story that others
have outranked, and a schedule that is switched off;
`AccountedOnce` of the outbox a run that handed off nothing and whose last batch
threw; `StageHonest` the lineage of an item for which a call found it switched off;
`OneStoryPerItem` an item that was `overrun`; `MatchesCurrent` a match that was
scored against a former definition and recorded after the watermark;
`InterruptedDueAgain` a source that an observation has put off. Each of them is
in section 7.

## 5. Fairness

- `LocalIngestQueue`: weak fairness of each loop, because the runtime polls and
  restarts a loop that died, and of the passing of time for each row. Producers,
  faults and the outside of the loop promise nothing. Attempts are counted at
  the claim, so no stronger assumption is needed.
- `ProcessLock`: weak fairness of a process's own next call.
- `RelayOutbox`: weak fairness of each process and of the restart of the Companion
  (systemd, launchd); strong fairness of the acknowledgement, for a Worker that is
  asked again and again. `CompanionPairing`: weak fairness of each command's next
  call, and that the owner of an interrupted pairing asks `doctor` in the end.
- `SourceOutbox`: weak fairness of the drains (the five-minute schedule), of the
  consumer of each lane and of lease expiry; strong fairness of the retry that
  moves a message to the dead-letter queue, which stands for `max_retries`
  (three) in `wrangler.jsonc`. Producers and maintenance are not fair.
- `ItemIngest`: weak fairness of the delivery of each unacknowledged message, of
  each call's next step and of the expiry of a lease nobody renews. Faults are
  bounded, so the queue's own retry limit is never what decides.
- `CompanionJob`: weak fairness of `runSource`, of the Companion's loop, of the
  endpoint and of the consumer; strong fairness of a poll, which other jobs may
  interrupt, and of the takeover of a dispatch that is over its minute.
- `SourceScheduler`: weak fairness of the restart and its recovery, of the steps
  of `runSource` and of the outbox, whose own liveness is `ActivatedSettles`.
  No run has to begin.
- `EmailIntake`: weak fairness of the end of the outage, of each copy's consumer
  and of invocations; strong fairness of the owner's retry of what is open, of
  the lease it needs, and of the mail server, which repeats a mail until a
  delivery has returned.
- `MemoryRefresh`: weak fairness of the tick, of launches and executions, of
  time (six hours, the refresh period, the next day), and of the restart. Ingest,
  the owner and the settings promise nothing; how often the owner asks for less is
  bounded with the faults, as an owner who never stopped could clear the flag for ever.

## 6. Proofs

Every theorem holds for every value of the constants that satisfies the named
assumptions of the module; these state types, that the null values are not
members, and that a set whose cardinality is taken is finite (in the code each of
them is: rows of a table, callers of a process, attempts of a deployment). The
theorems are about `Spec`, that is `Init` and `Next` without fairness, of the
module and not of the scenario. The bounds on faults, kills, copies and clocks
are constants like the others: a theorem holds for each of their values.

Every proof has the same form. An inductive invariant is defined first, and was
checked by TLC on small instances before it was proved; one lemma per kind of
step shows that it is kept; the theorems are its consequences, combined with
`Spec` by PTL. Where a step touches one element of a function, a lemma says once
what is left of the others. Induction over a set or a number, which the library
states with an operator as a parameter, is done by a least counterexample
(`LeastElement`, from `NatLessThanWellFounded` and `WFMin`): the least set size,
copy or index at which the claim fails.

**`LocalIngestQueueProofs`** proves `TypeCorrect`, `NeverForked` (`OneLiveRow`),
`NeverLost` (`NoBodyLost`), `LadderEarned` (`HandoffEarned`), `Lease_Fenced`
(`LeaseFenced`), `LadderImplemented` (`ImplementsLadder`) and `Overshoot_Bounded`
(`CapacityOvershootBounded`). None of them is inductive alone. `IInv` adds that
rows carry accepted bodies under ids that are spent (`RowsKnown`), that a waiting
batch is new (`OffersFresh`) and `CopyAgrees`: a loop's copy of a row may be
stale, but its lane is right and its attempt count is never above the row's. That
is why the limit, which the code checks against the copy, cannot demote a body
early. The steps are first classified by what they do to the table (kept,
inserted, released, finished, handed off), so that each invariant is shown once
per class and not once per action. The fence follows from the token comparison
in each statement that writes a leased row. The refinement maps a body to the
lane of its live row, to *done* or to *parked*; that it has at most one live row
makes the mapping a function, and each class of steps is one step of
`DeliveryLadder` or none. The capacity bound needs that a waiting batch is no
larger than a request may be; a hand-off puts one live row in the place of
another, and an insertion moves what was waiting into the table. A
check bounds the live rows together with the checker's own batch by the capacity,
and each other producer waits with one batch at most.

**`LocalFilesProofs`** has the three protocols on files. Of `ProcessLock` it proves
`TypeCorrect` and `Serialized`: `OneOwner` if
`MaxKills = 0` or `MaxContenders <= 1`. `IInv` says that the file is that of the
process in an owning phase (`OwnersOwn`), that a claimant unlinks only the
record of a dead owner, and, under each proviso, why no second claimant can
do so after the first: nobody is dead, or nobody else is there. The run
`ProcessLock_contended` shows that the proviso cannot be dropped.

Of `RelayOutbox` it proves `ResultSubmittable` (`Submittable`) and
`ReplayedBeforePoll` (`ReplayedFirst`), of `CompanionPairing` `CredentialKept`
(`CredentialMatchesPairing`), with two hypotheses that the scenarios *service*,
*outage*, *unpair*, *interrupted* and *powerless* have as well. One is in the
specification, `OutboxAlone` and `PairingAlone`: `Next` with one living process of
the Companion at a time (`OneAtATime`, `OneCommand`), any number of them one after
the other; `unpair` finds the service stopped (`ServiceStopped` is `TRUE` in
`LocalFiles`). The other is about the faults: any number of kills and failed calls
(`OutboxOutages = 0`), or any number of power failures (`OnlyOutages`), not both.
Neither is for the sake of the proof: with both kinds of fault, or with two
processes, TLC violates the properties (section 7).

- `OutboxInv`. `Knows` says what a process knows of the directory at each of its
  calls: what it has read is what there is, a temporary file is its own or a
  dead one's, and past the recovery the slot is empty or the result in its hands.
  `Kept` says of the files that whatever was offered and not acknowledged is in the
  slot, whole, and that no pairing is given up while something is there.
  `Durable` says what a power failure would leave: the flushed names are those in
  memory except at the calls of `Unflushed`, between a change and its flush, and what
  was offered is in the slot of both.
- `PairingInv`. `Accounted` is the property with its explanation made
  independent of who runs: a configuration has its credential or was retired, and a
  credential has its configuration, or its journal, with the inode recorded once it
  is linked. `Sees` says what a command knows at each call; the heart of it is
  the removal of the journal, which is reached only with the configuration written or
  with no credential left. `Names` is `Accounted` for every combination of what is in
  memory and what was flushed, since a power failure chooses between them name by
  name; `Waits` says which flush is due at which call. That the journal with the
  inode is flushed before the link (`LinkEarly` is the mutant) is what keeps `Names`.
  Most steps write no name, they flush some or take some away: `Shed` proves the
  invariant for all of these at once.

**`ItemIngestProofs`** proves `TypeCorrect`, `Honest` (`StageHonest`), `OneStory`
(`OneStoryPerItem`), `AnswersComplete` (`ReturnsOnlyComplete`), `CountedOnce`
(`OriginCountedOnce`) and `RawKept` (`RawOfItemKept`). The lease protects only
the writes of the completion row; lineage, mission and memory writes go
through without it. `StageHonest` is therefore preserved by a call that has lost
its lease only because what it writes agrees with what the new holder wrote.
`IInv` says so: `Behind` ties a call's position to the row (past the story batch
its story is the row's story, for good) and holds with or without the lease;
`Held` says that a holder at the batch finds stage 0; `Linked` says that a call
at the batch holds a valid lease unless it was overrun, and that its story is
then the only one the item can have. What `StageHonest` says of lineage is exact: from
stage 2 on a missing row means that some call found lineage switched off, whoever
had the lease then. `Counted` ties the row's origin to the
reports made and to be made. The proof has one lemma per conjunct and in it one
step per action; `ResumeFacts`, `EnrollFacts` and `LeaveFacts` say once what the
three larger actions write.

**`SourceOutboxProofs`** proves `TypeCorrect`, `Kept_Until_Settled`
(`KeptUntilSettled`), `Evidence_Kept` (`EvidenceKept`), `LedgerImplements`
(`ImplementsContract`) and, if `MaxEscapes = 0`, `LedgerImplementsOutright`: `Spec
=> Contract!Spec`, the whole specification of `TrackedRun`. The invariant has four
parts besides the types. `Lifecycle` ties the ledger row, the outbox header, the raw
evidence and the position of the producer of one run together; it is there that *an
escape* matters: `Faithful` (a failing producer has activated nothing, an activated
run stays until all its items have an outcome) holds only while no error was taken
for a refusal. `Covered` says that what lies before a drain's position was sent,
also when another drain has moved the cursor since it read it: a stale cursor is
never ahead of what was sent. `Delivered` says that only what was sent is queued,
delivered or settled. `Unstaged` says that a run which ended without a hand-off, and
may be counted a second time, has sent nothing and is in no drain's hands. Of the
refinement, the hard step is the receipt: the one that completes the run ends it in
the same transaction, and nothing after it may change the row. The catch that fails
a run already ended is `Retract`, since such a run has no outcome.

**`CompanionJobProofs`** proves `TypeCorrect` and, if `~Overtaking`, `Accounted_Once`
(`AccountedOnce`), `Acked_Is_Sent` (`AckedIsSent`) and `Not_Orphaned`
(`NotOrphaned`). `Accounted_Once` needs the hypothesis because the catch of `runSource`
asks nothing of the run: one that a Companion has completed by then would be
counted again (section 7). A request of the endpoint works
with a dispatch record that it read some statements ago. `Follow` says what
remains true of it: an attempt number is older than the next one, what the
request counts as sent is in the queue, and if the record is still the one it
read, the result is wholly sent when it is to be accepted. `JobSide` says it of
the record (what it counts as accepted is in the queue) and `RunSide` of the run.
`Grows` gives what any step keeps: bodies, attempts and decisions only grow, and a
record changes only to a new attempt or to the end of one. The hypothesis cannot
be dropped from this argument either: a Companion that overtakes `runSource` has its
count overwritten (section 7). `Not_Orphaned` has a second hypothesis, on the steps:
`Spec /\ [][Timely]_vars`, where `Timely` says that a request revises the count of its
run only while its dispatch is still the job's. It excludes one step, the stale
revision of section 7, which the code does not exclude; reaching it takes
two faults, a send that throws and a request overtaken at work. `WaitInv` says what a
run in the queue waits for: `WaitSide`, that a run whose job has ended or is decided has
an outcome or a message for every item that it counts, and counts one if the result has
one; `Waits`, what a request knows of the count while the dispatch is its own, and that
what it has sent is awaited; `OneEach`, that a dispatch is one request's. A message
leaves the queue with a receipt as long as its run counts it, which is why a count that
grows under a request's feet would break it.

**`EmailIntakeProofs`** proves `TypeCorrect`, `Nothing_Lost` (`NothingLost`) and
`One_Sender` (`OneSender`) of the composition of `EmailIntake` and
`DeadLetterRecovery`. `NothingLost` is not inductive, as a retry clears the body of
an incident; `Answered` is: a copy is an item, dismissed, still in a lane or held
as a body, *or a later copy carries its mail*. The last copy of a mail has no
later one, so that what answers for it is what `NothingLost` asks for. `Claims`
says that a claim token is one delivery's and on no copy before that delivery
sends. `Leases` says that the holder of an incident's lease is one of its senders
and that each other sender has cost a fault, which bounds them by the faults.

**`BrowserBudgetProofs`** proves `Ledger_Sound` (`LedgerSound`) and `Slots_Spaced`
(`SlotsSpaced`). The ledger's invariant, `Backed`, is about a sum: what all attempts
that reserved on a day may still settle for (the reservation while they run, what
was used afterwards) is covered by the day's row, and the row never passes the
highest limit. `SumFunction` of the community modules is a fold; the lemmas on it
(it exists, it adds up, it changes by one summand when one value changes) are
shown here by least counterexample, which is why `Attempts` is finite. Slots are
spaced because the next free start is beyond every slot given out (`Ordered`).

**`BackgroundProofs`** has four small protocols.

- `No_Dangling` (`NoDangling`) and `Condition_Holds` (`ConditionStillHolds`) of
  `ObjectStore`. `OneHolder`: one operation has the lock, and the lock is in the
  state that its position says. `OneMender`: one operation recovers, and the lock
  it renames is a dead one's; it is the recovery mutex that makes the second
  inspection final. `StillSo`: what the holder has read is still so. They assume that
  `None` is not a record.
- `Matches_Current` (`MatchesCurrent`) of `MissionMatches`. A rebuild that has read the
  stories has each relevant one in its plan, in what it found, or recorded after
  its watermark (`StampedCovered`, `DoneCovered`), and of two rebuilds the one asked
  for earlier has the earlier watermark (`Watermarks`): a commit therefore drops
  nothing it should keep. `NoneForeign` gives the other half.
- `One_Graph_Writer` (`OneGraphWriter`) of `MemoryRefresh`. `OneOwner`: of all launches
  that were elected and executions that run there is one, and its row is active. A
  status that was read before and is written back can leave a second active row,
  but never a second owner, because an owner keeps its row
  active, an election asks for a moment without active rows, and a silent run is
  failed only after the platform has said that it does not execute it.
- `Nothing_Durable_Retired` and `Interrupted_Due_Again` of `SourceScheduler`. Runs begun
  are numbered without a gap (`Numbered`); a call works on a run that was not
  retired (`CallsSound`); if the latest run is retired, `last_run_at` is back at zero
  (`RetiredSound`), whatever was retired before it.

*Only model-checked:*

- all liveness, which needs `ENABLED`;
- `NotOrphaned` of `CompanionJob` without `Timely`, with one fault. It is no theorem
  of `Spec`: with three faults and three items TLC finds a run that stays queued for
  ever (section 7);
- `Submittable` and `CredentialMatchesPairing` with two processes at once: `doctor`
  beside the service (*inspected*), two Companions without a Worker (*offline*),
  `doctor` beside a pairing with one interruption (*beside*). The theorems above are
  for one process at a time; of the bare `Spec` of those modules the properties
  do not hold (section 7);
- what the violation runs show.

## 7. What the checks found

### Where the code and what is said of it disagree

Each is a run that expects a violation; `PROJECT.json` quotes the lines.

- **`ProcessLock_contended`.** Clearing a stale lock compares the record and unlinks
  the path in two calls (`process-lock.ts:97`). Two claimants that found the same
  dead owner may both become owners: the second one unlinks the first one's new
  lock. It takes a crash and two processes started at once.
- **`SourceOutbox_escape`.** The read that confirms an activation is outside the
  block that reports an unknown outcome (`source-ingest-outbox.ts:468`). When it
  throws, `runSource` ends as failed a run that is active, receipts are refused,
  and maintenance deletes bodies the queue has not settled. A message that was
  sent is not lost (`NothingLost`); what was not sent yet is given up.
- **`CompanionJob_withdrawn`.** A send that throws marks the dispatch `retryable`
  although the queue may have the batch (`collectors.ts:441`). When the receipts of
  those items end the run, every replay is refused and the Companion keeps its
  result, and polls nothing else, for good (`Stuck`).
- **`EmailIntake_overtaken`.** The claim of a mail is written and read in two
  statements (`db.ts:3351`). A delivery that fails in between makes another one
  return as a duplicate of a mail that nobody sent. `Stranded` is a claim of a
  delivery that died, `Dropped` a copy sent under a token the receipt has given up:
  neither becomes an item by itself.
- **`RelayOutbox_unpaired`.** `unpair` looks at the result slot before it stops the
  service (`driftglass-relay.mjs:3751`, `3758`), so that a result may be stored
  in between and lose the credential it needs.

### Other observations

They concern states that the modules exclude or the properties except, or code
that has no module.

*Scheduler.* In `recoverInterruptedCollections`, `NOT (json_valid(d) AND
json_extract(d, '$.localRestartRecovery') = 1)` is `NULL`, not true, for details
without that key, which are those of every run that was not retired. `MAX` ranges
over no row and `last_run_at` always becomes `NULL`; the comment
(`source-scheduler.ts:68`) wants the most recent attempt that was not an orphan,
and the test of it (`runtime-node-selfhost-recovery.test.mjs:333`) uses a source
that has none. `Restored` says what the statement does: a source interrupted
when it was not due is due at once. A tick reads the due sources, collects others,
and does not look again: a source that its owner has run meanwhile is collected
twice.

*Ledger.* `finishSourceRun` with a terminal status asks nothing of the row
(`db.ts:262`). If the batch that ends a collection of nothing commits and its caller
sees an error (`registry.ts:403`), the catch of `runSource` ends the run again, as
failed (`registry.ts:450`): a success becomes a failure, and the health of the
source changes twice. `AccountedOnce` confines it to such a run, and `Retract` is
its step in the contract. If the statement is that of the hand-over to a Companion,
the run is failed while its job stays active; the Companion's result for it is
refused (`Stuck`), and with `Overtaking` a run completed meanwhile is counted twice.

*Delivery.* On Workers an invocation killed between `beginSourceRun` and the
outbox header leaves its row running; only the self-hosted restart retires such
rows. The batch that creates and links a story guards its last statement, only,
with the lease (`db.ts:1341`; `overrun` in `ItemIngest`), and two items of a topic
ingested at once become two stories (`ingest.ts:72`). The dead-letter consumer
accounts an item before it stores its body as an incident (`ingest-consumer.ts:157`,
`168`); if it dies in between, the copy in the dead-letter queue may be the last one.
`enqueueIngestMessages` deletes the raw objects of a batch whose send threw,
although the queue may have accepted it (`ingest-queue.ts:624`). Failed rows of the
self-hosted queue are never collected (`durable-ingest-queue.ts:509`).

*Process lock.* A lock torn between its creation and the write of its record is
refused for good (`process-lock.ts:48`, `113`), and so is one whose owner's PID
belongs to another process (line 82). `Recovered` leaves both out.

*Companion files.* A write of a result that fails leaves a temporary file of a living
process that blocks the Companion until its restart (`driftglass-relay.mjs:700`,
`709`). A kill between the write and the flush of that file and then a power
failure can leave a torn slot, which is why no scenario has both. `doctor` may move
the result while a Companion that starts lists the directory (576, scenario
*inspected*), or while an acknowledged slot is cleared (737-749). In a pairing, a
kill before the directory is flushed, a commit by `doctor` and a power failure could
together leave a stray credential; *beside* allows one interruption. The removal
of the configuration by `unpair` is not flushed, so that a power failure may put the
former configuration beside a new journal, which recovery refuses
(`InterruptedResolved` excepts it).

*Companion jobs.* With `Overtaking` a Companion may claim and end a job before the
`runSource` that queued it (`registry.ts:67`) has written its own end of the run
(`registry.ts:403`), and `NotOrphaned` is violated. It is violated without
overtaking, too, once three things go wrong: a request sends two of three items, its
next send throws, and before it revises the count it is taken over after a minute
(`collector-results.ts:12`); the second one sends one item, throws, revises the run
to one item, accepts and completes the job; the receipt of the item beyond that
count is refused; then the first one revises (`collectors.ts:463`), and as the
statement asks for no more than a queued run (`db.ts:607`), the run waits for two
items, one of which has no receipt and no message any more. A second Companion that
holds another result for a job that was dispatched gets 409 at every replay.

*Email.* A copy under an old token is retried, exhausted and offered to the owner,
whose retry keeps the token; only dismissal ends it. Deliveries and the health gate
share the metrics of the primary backlog, which the module counts among the sends
that throw.

*Memory.* A refresh clears the dirty flag although it has planned only the latest
40, 80 or 90 stories (`epistemic-memory.ts:151`), or as many as the owner asked for:
a story that others outrank is not written until it rises again.
`EventuallyRemembered` excepts it; without the exception TLC finds it violated.
`updateMemoryGraphRun` writes back what it read and may set a finished run to queued
again; six hours later the run is taken for stale and reported as failed. `Wedged`:
a self-hosted execution that ended with an error which it could not record keeps its
key, and no launch starts until the process does. `OneGraphWriter` assumes that no
launch takes six hours.

*Browser budget.* `LedgerSound` assumes that a browser call uses no more than was
reserved for it. A settlement that fails keeps the whole reservation.

*Object store.* A lock directory without a readable owner, and an abandoned recovery
mutex (the latter by design), are refused for good. After a kill puts fail for up to
30 s, as a waiter gives up after 5 s and a lock is stale after 30 s. A release that
fails leaves the lock to a living process. A blob that exists already is not flushed
again by the put that names it.

*Missions.* A match scored against a former definition and recorded after the
rebuild's watermark survives the rebuild. A rebuild planned for an older definition
may commit beside a newer one, whose own rebuild heals it; if the request dies
between the two statements, none is started. Two updates in one millisecond are
excluded.

## 8. What is not modelled

*Abstracted everywhere.* Wording, formats, digests, similarity and score computations;
clock values, of which the modules keep what has passed; sizes, of which they keep
what fits. D1 and R2 execute a call or fail; a batch is atomic and may commit and
throw. The exception is `Damage` in `LocalIngestQueue`, a row that cannot be parsed.

*Of the modelled parts.* `SourceOutbox` takes the ingest of an item as one step, of
which `ItemIngest` has the inside, and a collection as given; fitting it to bytes
and chunks is not modelled. `ItemIngest` leaves out `backfillEvidenceLineage`
(`evidence-lineage.ts:140`), which later classifies linked items without a lineage
row. Of `reviseSourceRunAfterPartialEnqueue` there is what `CompanionJob` needs.
`SourceScheduler` leaves out its lease, the order of several due sources, the
arithmetic of the adaptive interval and a `finishSourceRun` that fails without a
kill. `CompanionJob` counts how often a run was accounted, not the failures that
spare the source's health, and leaves out a catch whose own `finishSourceRun`
throws, the legacy attachment of a job without a dispatch, heartbeats, the workspace
mirror and the execution of an operation. `EmailIntake` leaves out mails without a
Message-ID. `CompanionPairing` keeps the credential in a private file, not in a
keychain. `MemoryRefresh` leaves out nodes, edges, weights, the pruning of the graph
and, of a plan, all but its stories. `BrowserBudget` leaves out the monthly counters
and screenshots, which are the same statements. `ObjectStore` leaves out reads,
flushes and staged temporaries; a `get` beside a deletion and a collection is among
them. `MissionMatches` leaves out the window of 500 stories.

*Parts without a module.* `PROJECT.json` gives the reason for each. Read for hazards,
and left for later, were:

- **Routines** (`intelligence-routines.ts` 288-366, `routine-workflow.ts` 358-560).
  A launch creates a row, creates a Workflow and writes back what it has read; the
  write can set a finished run to queued, and the routine is then not due again. A
  death between row and Workflow leaves it queued for ever, too. Two launchers may
  start two runs.
- **Search index** (`ai-search.ts` 437-930). An accelerator that is rebuilt from the
  database: records of which a replacement failed, or of a page that died, stay old
  until a later cycle.
- **Mission Computer** (`mission-computer.ts` 648-925). Files are written one by one
  and the marker last; two commits that overlap look at the marker before they
  write. The next synchronisation heals mixed files.
- **Research results and reasoning runs** (`research-results.ts` 129-208,
  `reasoning-ledger.ts`). Confirmation, rejection and completion read a status and
  write in later statements; two that overlap are not kept apart.
- **Backup, restore, authority, migrations.** One process, under the process lock,
  with digests checked at both ends.

Liveness stays with TLC, as does what recursive definitions compute: the prover has
neither `ENABLED` nor induction over data.
