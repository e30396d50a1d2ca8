---------------------------- MODULE SourceOutbox ----------------------------
(* A tracked source run from collection to its settled ledger row: the       *)
(* producer that stages the exact queue bodies and activates them            *)
(* (src/source-ingest-outbox.ts, src/sources/registry.ts), the drains that   *)
(* send them under a lease, the at-least-once queue with its dead-letter     *)
(* queue, and the consumers (src/ingest-consumer.ts) whose receipts settle   *)
(* the run and its source's health (src/db.ts).                              *)
(*                                                                           *)
(* One step is one statement, one batch (D1 runs a batch as a transaction)   *)
(* or one call of the queue; any other invocation may run between two steps, *)
(* and an invocation may end at any of them.  Clocks are abstracted: a lease *)
(* or a staging may be found expired whenever it is looked at.  Bytes are    *)
(* counted in messages.  Ingesting an item is one step with the receipt of   *)
(* its outcome; "ingested" stands for the outcomes inserted and duplicate.   *)
EXTENDS Integers, FiniteSets, Functions, FiniteSetsExt

CONSTANTS Runs,         \* source runs of one source
          Size,         \* messages of each run, SOURCE_OUTBOX_MAX_RUN_MESSAGES at most
          PartialRuns,  \* runs whose collection is partial
          Drains,       \* invocations that may drain at the same time
          None,
          BatchMax,     \* INGEST_QUEUE_BATCH_MAX_MESSAGES
          ActiveMax,    \* SOURCE_OUTBOX_MAX_ACTIVE_MESSAGES
          MaxFaults,    \* bound: invocations that end early, statements that throw
          MaxEscapes    \* bound: errors that runSource takes for a refused hand-off

ASSUME OutboxAssumption ==
    /\ Size \in [Runs -> Nat \ {0}]
    /\ IsFiniteSet(Runs)
    /\ None \notin Drains
    /\ BatchMax \in Nat \ {0} /\ ActiveMax \in Nat
    /\ MaxFaults \in Nat /\ MaxEscapes \in Nat

Items(r) == 0..(Size[r] - 1)
Messages == UNION {{r} \X Items(r) : r \in Runs}
Lanes    == {"primary", "dead-letter"}

VARIABLES run,       \* source_runs: status, enqueued_count, terminal_accounted_at
          receipts,  \* source_run_ingest_receipts: the outcome of each item
          health,    \* ghost: changes of the source's health a run has made
          box,       \* source_ingest_outbox_runs with its messages, or NoBox
          raw,       \* raw evidence of the run is in R2
          producer,  \* where runSource is with the run
          drain,     \* where each drain is, and what it has read
          queue,     \* copies of each message in each lane
          sent,      \* ghost: messages the queue has ever accepted
          consumer,  \* the delivery each lane's consumer works on
          incidents, \* messages kept in ingest_dead_letters
          faults, escapes

ledger    == <<run, receipts, health>>
transport == <<queue, sent, consumer, incidents>>
bounds    == <<faults, escapes>>
vars      == <<ledger, box, raw, producer, drain, transport, bounds>>

Outcomes == {"ingested", "failed"}
Ended    == {"success", "partial", "failed"}

NoBox == [state |-> "none"]
Header == [state : {"staging", "ready", "abandoned"}, bodies : SUBSET Nat, next : Nat,
           lease : Drains \cup {None}, due : BOOLEAN]

Idle == [phase |-> "idle"]

Complete(r) == box[r].state # "none" /\ box[r].bodies = Items(r)
IsReady(r)  == box[r].state = "ready"
Open(r)     == run[r].status \in {"running", "queued"} /\ ~run[r].accounted

RunRow   == [status : {"none", "running", "queued"} \cup Ended, enqueued : Nat,
             accounted : BOOLEAN]
Delivery == [phase : {"recording", "accounting", "keeping", "acking"}, message : Messages]

\* What a drain knows: the run and where it reads on, then the batch it chose.
Reading == [phase : {"claimed", "selecting"}, run : Runs, next : Nat]
Batch   == [phase : {"sending", "checkpointing"}, run : Runs, next : Nat,
            send : SUBSET Nat, through : Int]

\* The type invariant (source_runs, source_ingest_outbox_runs and what the
\* invocations hold).
TypeOK ==
    /\ run \in [Runs -> RunRow]
    /\ receipts = [r \in Runs |-> receipts[r]]
    /\ \A r \in Runs : receipts[r] \in [Items(r) -> Outcomes \cup {"none"}]
    /\ health \in [Runs -> Nat]
    /\ box \in [Runs -> Header \cup {NoBox}]
    /\ \A r \in Runs : box[r] # NoBox => box[r].bodies \subseteq Items(r)
    /\ raw \in [Runs -> BOOLEAN]
    /\ producer \in [Runs -> {"new", "collecting", "unfinished", "staging", "discarding",
                              "activating", "confirming", "failing", "done"}]
    /\ drain \in [Drains -> Reading \cup Batch \cup {Idle}]
    /\ \A d \in Drains : drain[d].phase \in {"sending", "checkpointing"} =>
                           /\ drain[d].send \subseteq Items(drain[d].run)
                           /\ drain[d].through >= -1
    /\ queue \in [Lanes -> [Messages -> Nat]]
    /\ sent \subseteq Messages
    /\ consumer \in [Lanes -> Delivery \cup {Idle}]
    /\ incidents \subseteq Messages
    /\ faults \in 0..MaxFaults /\ escapes \in 0..MaxEscapes

Init ==
    /\ run = [r \in Runs |-> [status |-> "none", enqueued |-> 0, accounted |-> FALSE]]
    /\ receipts = [r \in Runs |-> [i \in Items(r) |-> "none"]]
    /\ health = [r \in Runs |-> 0]
    /\ box = [r \in Runs |-> NoBox]
    /\ raw = [r \in Runs |-> FALSE]
    /\ producer = [r \in Runs |-> "new"]
    /\ drain = [d \in Drains |-> Idle]
    /\ queue = [lane \in Lanes |-> [m \in Messages |-> 0]]
    /\ sent = {}
    /\ consumer = [lane \in Lanes |-> Idle]
    /\ incidents = {}
    /\ faults = 0
    /\ escapes = 0

Fault  == faults < MaxFaults /\ faults' = faults + 1 /\ UNCHANGED escapes
Escape == escapes < MaxEscapes /\ escapes' = escapes + 1 /\ UNCHANGED faults

-----------------------------------------------------------------------------
(* The producer: runSource and enqueueTrackedSourceRun *)

Step(r, from, to) == producer[r] = from /\ producer' = [producer EXCEPT ![r] = to]

\* finishSourceRun with a terminal status: it has no guard on what the row is.
Finish(r, status, enqueued, affectsHealth) ==
    /\ run' = [run EXCEPT ![r] = [status |-> status, accounted |-> TRUE,
                                  enqueued |-> enqueued]]
    /\ health' = [health EXCEPT ![r] = IF affectsHealth THEN @ + 1 ELSE @]
    /\ UNCHANGED receipts

Begin(r) ==
    /\ Step(r, "new", "collecting")
    /\ run' = [run EXCEPT ![r].status = "running"]
    /\ UNCHANGED <<receipts, health, box, raw, drain, transport, bounds>>

FinishEmpty(r) == Finish(r, IF r \in PartialRuns THEN "partial" ELSE "success", 0, TRUE)

\* The catch block of runSource, when the sender was not started: most errors are
\* the source's fault.
FailUnsent(r) ==
    \E affectsHealth \in BOOLEAN : Finish(r, "failed", run[r].enqueued, affectsHealth)

\* Collection throws, or finds nothing: the run ends without a hand-off.
CollectNothing(r) ==
    /\ Step(r, "collecting", "done")
    /\ FailUnsent(r) \/ FinishEmpty(r)
    /\ UNCHANGED <<box, raw, drain, transport, bounds>>

\* The batch that ends a collection of nothing throws, and may have committed.
FinishThrows(r) ==
    /\ Fault
    /\ Step(r, "collecting", "unfinished")
    /\ UNCHANGED ledger \/ FinishEmpty(r)
    /\ UNCHANGED <<box, raw, drain, transport>>

\* ... and the catch block fails the run, whether or not it has ended.
FinishUnsent(r) ==
    /\ Step(r, "unfinished", "done")
    /\ FailUnsent(r)
    /\ UNCHANGED <<box, raw, drain, transport, bounds>>

ActiveMessages ==
    MapThenSumSet(LAMBDA r : Size[r], {r \in Runs : box[r].state \in {"staging", "ready"}})

Staging == [state |-> "staging", bodies |-> {}, next |-> 0, lease |-> None, due |-> FALSE]

\* prepareIngestEntries stores the raw bodies; insertOutboxHeader reserves the
\* capacity in the same statement that counts it.  A refusal removes the raw
\* bodies again.
Reserve(r) ==
    /\ producer[r] = "collecting"
    /\ IF ActiveMessages + Size[r] <= ActiveMax
       THEN /\ Step(r, "collecting", "staging")
            /\ box' = [box EXCEPT ![r] = Staging]
            /\ raw' = [raw EXCEPT ![r] = TRUE]
       ELSE Step(r, "collecting", "failing") /\ UNCHANGED <<box, raw>>
    /\ UNCHANGED <<ledger, drain, transport, bounds>>

\* A preflight or the header statement throws, the latter perhaps although it
\* committed: the raw bodies are removed as if there were no header.
ReserveThrows(r) ==
    /\ Fault
    /\ Step(r, "collecting", "failing")
    /\ \/ UNCHANGED box
       \/ /\ ActiveMessages + Size[r] <= ActiveMax
          /\ box' = [box EXCEPT ![r] = Staging]
    /\ UNCHANGED <<ledger, raw, drain, transport>>

\* insertMessageChunk: the next chunk of bodies.
InsertChunk(r) ==
    \E last \in Items(r) :
        /\ box[r].bodies \subseteq 0..last /\ 0..last # box[r].bodies
        /\ box' = [box EXCEPT ![r].bodies = 0..last]

\* The chunks need the header (a foreign key), in whatever state it is; what
\* reaches an abandoned one is swept with it.
Stage(r) ==
    /\ producer[r] = "staging"
    /\ IF box[r] = NoBox
       THEN Step(r, "staging", "discarding") /\ UNCHANGED box
       ELSE /\ InsertChunk(r)
            /\ producer' = IF box'[r].bodies = Items(r)
                           THEN [producer EXCEPT ![r] = "activating"] ELSE producer
    /\ UNCHANGED <<ledger, raw, drain, transport, bounds>>

\* The budget refuses the messages, or a chunk throws and may have committed.
StageThrows(r) ==
    /\ Fault
    /\ Step(r, "staging", "discarding")
    /\ UNCHANGED box \/ (box[r] # NoBox /\ InsertChunk(r))
    /\ UNCHANGED <<ledger, raw, drain, transport>>

\* Mutant of Discard: the raw bodies go whether or not the header went.
DiscardRawAnyway(r) ==
    /\ raw' = [raw EXCEPT ![r] = FALSE]
    /\ IF box[r].state = "staging"
       THEN Step(r, "discarding", "failing") /\ box' = [box EXCEPT ![r] = NoBox]
       ELSE Step(r, "discarding", "done") /\ UNCHANGED box
    /\ UNCHANGED <<ledger, drain, transport, bounds>>

\* discardUnactivatedStaging.  If another invocation activated or abandoned the
\* staging, the producer leaves the run to the outbox.
Discard(r) ==
    /\ IF box[r].state = "staging"
       THEN /\ Step(r, "discarding", "failing")
            /\ box' = [box EXCEPT ![r] = NoBox]
            /\ raw' = [raw EXCEPT ![r] = FALSE]
       ELSE Step(r, "discarding", "done") /\ UNCHANGED <<box, raw>>
    /\ UNCHANGED <<ledger, drain, transport, bounds>>

\* The batch of activateOutboxRun: header first, ledger row if that is ready.
ActivateBatch(r) ==
    LET ready == IsReady(r) \/ (box[r].state = "staging" /\ Complete(r) /\ Open(r))
    IN /\ box' = IF ready THEN [box EXCEPT ![r].state = "ready"] ELSE box
       /\ run' = IF ready /\ Open(r)
                 THEN [run EXCEPT ![r].status = "queued", ![r].enqueued = Size[r]]
                 ELSE run
       /\ UNCHANGED <<receipts, health>>

\* activateOutboxRun by the producer; a body set that does not verify leaves
\* the run to the outbox, like every other unknown outcome.
Activate(r) ==
    /\ IF Complete(r)
       THEN Step(r, "activating", "confirming") /\ ActivateBatch(r)
       ELSE Step(r, "activating", "done") /\ UNCHANGED <<box, ledger>>
    /\ UNCHANGED <<raw, drain, transport, bounds>>

\* The read that confirms the activation; what follows is a drain.
Confirm(r) ==
    /\ Step(r, "confirming", "done")
    /\ UNCHANGED <<ledger, box, raw, drain, transport, bounds>>

\* The reads of activateOutboxRun and the DELETE of the discard are outside the
\* block that reports an unknown activation: their errors fail the run.
HandoffThrows(r) ==
    /\ Escape
    /\ \E from \in {"activating", "confirming", "discarding"} : Step(r, from, "failing")
    /\ UNCHANGED <<ledger, box, raw, drain, transport>>

\* The catch block of runSource, once the sender had been started.
FinishFailed(r) ==
    /\ Step(r, "failing", "done")
    /\ Finish(r, "failed", 0, FALSE)
    /\ UNCHANGED <<box, raw, drain, transport, bounds>>

\* The invocation ends: killed, or its batch threw with an unknown outcome.
ProducerEnds(r) ==
    /\ Fault
    /\ \E from \in {"collecting", "unfinished", "staging", "discarding", "activating",
                    "confirming", "failing"} : Step(r, from, "done")
    /\ UNCHANGED <<ledger, box, raw, drain, transport>>

-----------------------------------------------------------------------------
(* Maintenance, by any invocation *)

\* resumeCompleteStaging
Resume(r) ==
    /\ box[r].state = "staging" /\ Complete(r) /\ Open(r)
    /\ ActivateBatch(r)
    /\ UNCHANGED <<raw, producer, drain, transport, bounds>>

\* abandonStaleIncompleteStaging, the batch: any staging older than its TTL.
Abandon(r) ==
    /\ box[r].state = "staging"
    /\ box' = [box EXCEPT ![r].state = "abandoned", ![r].lease = None]
    /\ run' = IF run[r].status = "running" /\ ~run[r].accounted
              THEN [run EXCEPT ![r].status = "failed", ![r].accounted = TRUE] ELSE run
    /\ UNCHANGED <<receipts, health, raw, producer, drain, transport, bounds>>

\* ... and the clean-up of one abandoned run: raw bodies, messages, header.
CleanBodies(r) ==
    /\ box[r].state = "abandoned" /\ box[r].bodies # {}
    /\ box' = [box EXCEPT ![r].bodies = {}]
    /\ raw' = [raw EXCEPT ![r] = FALSE]
    /\ UNCHANGED <<ledger, producer, drain, transport, bounds>>

CleanHeader(r) ==
    /\ box[r].state = "abandoned" /\ box[r].bodies = {}
    /\ box' = [box EXCEPT ![r] = NoBox]
    /\ UNCHANGED <<ledger, raw, producer, drain, transport, bounds>>

\* Mutant of DeleteTerminal: the hand-off, not the ledger, retires the bodies.
DeleteHandedOff(r) ==
    /\ IsReady(r) /\ box[r].next = Size[r]
    /\ box' = [box EXCEPT ![r] = NoBox]
    /\ UNCHANGED <<ledger, raw, producer, drain, transport, bounds>>

\* deleteOneTerminalTrackedSourceOutboxRun, and the consumers' clean-up.
DeleteTerminal(r) ==
    /\ IsReady(r) /\ run[r].accounted
    /\ box' = [box EXCEPT ![r] = NoBox]
    /\ UNCHANGED <<ledger, raw, producer, drain, transport, bounds>>

LeaseExpires(r) ==
    /\ IsReady(r) /\ box[r].lease # None /\ ~box[r].due
    /\ box' = [box EXCEPT ![r].due = TRUE]
    /\ UNCHANGED <<ledger, raw, producer, drain, transport, bounds>>

-----------------------------------------------------------------------------
(* The drains: drainTrackedSourceOutbox *)

Become(d, state) == drain' = [drain EXCEPT ![d] = state]

\* Mutant of Claim: a lease, expired or not, keeps the run from being claimed.
ClaimUnleased(d, r) ==
    /\ drain[d] = Idle /\ IsReady(r) /\ box[r].next < Size[r] /\ ~run[r].accounted
    /\ box[r].lease = None
    /\ box' = [box EXCEPT ![r].lease = d, ![r].due = FALSE]
    /\ Become(d, [phase |-> "claimed", run |-> r, next |-> box[r].next])
    /\ UNCHANGED <<ledger, raw, producer, transport, bounds>>

\* claimReadyRun: one UPDATE that picks a run and puts the drain's token on it.
Claim(d, r) ==
    /\ drain[d] = Idle /\ IsReady(r) /\ box[r].next < Size[r] /\ ~run[r].accounted
    /\ box[r].lease = None \/ box[r].due
    /\ box' = [box EXCEPT ![r].lease = d, ![r].due = FALSE]
    /\ Become(d, [phase |-> "claimed", run |-> r, next |-> box[r].next])
    /\ UNCHANGED <<ledger, raw, producer, transport, bounds>>

\* releaseClaim: the lease goes if it is still this drain's.
ReleaseClaim(d) ==
    LET r == drain[d].run
    IN /\ box' = IF IsReady(r) /\ box[r].lease = d
                 THEN [box EXCEPT ![r].lease = None, ![r].due = FALSE] ELSE box
       /\ Become(d, Idle)
       /\ UNCHANGED <<ledger, raw, producer, transport>>

\* The durability preflight refuses: nothing was sent.
Refuse(d) == drain[d].phase = "claimed" /\ Fault /\ ReleaseClaim(d)

\* The invocation has sent its maxBatches.
Release(d) == drain[d].phase = "selecting" /\ ReleaseClaim(d) /\ UNCHANGED bounds

Unsettled(r, from) == {i \in Items(r) : i >= from /\ receipts[r][i] = "none"}

\* Mutant of BatchRange: the range extends over the bodies that did not fit.
RangeToEnd(r, from) ==
    [send |-> {i \in Unsettled(r, from) :
                 Cardinality({j \in Unsettled(r, from) : j < i}) < BatchMax},
     through |-> Size[r] - 1]

\* The bodies of the next batch, and the last index the batch accounts for:
\* settled items are passed over, the first body that does not fit ends it.
BatchRange(r, from) ==
    LET fits == {i \in Unsettled(r, from) :
                   Cardinality({j \in Unsettled(r, from) : j < i}) < BatchMax}
        rest == Unsettled(r, from) \ fits
    IN [send |-> fits, through |-> IF rest = {} THEN Size[r] - 1 ELSE Min(rest) - 1]

\* The read of bodies and receipts.  If the body set is gone, the drain ends
\* and keeps its lease.
Select(d) ==
    LET r == drain[d].run
        range == BatchRange(r, drain[d].next)
    IN /\ drain[d].phase \in {"claimed", "selecting"}
       /\ IF IsReady(r)
          THEN Become(d, [phase |-> IF range.send = {} THEN "checkpointing" ELSE "sending",
                          run |-> r, next |-> drain[d].next,
                          send |-> range.send, through |-> range.through])
          ELSE Become(d, Idle)
       /\ UNCHANGED <<ledger, box, raw, producer, transport, bounds>>

\* INGEST_QUEUE.sendBatch
SendBatch(d) ==
    LET batch == {drain[d].run} \X drain[d].send
    IN /\ queue' = [queue EXCEPT !["primary"] =
                      [m \in Messages |-> IF m \in batch THEN @[m] + 1 ELSE @[m]]]
       /\ sent' = sent \cup batch
       /\ UNCHANGED <<ledger, box, raw, producer, consumer, incidents>>

Send(d) ==
    /\ drain[d].phase = "sending"
    /\ SendBatch(d)
    /\ Become(d, [drain[d] EXCEPT !.phase = "checkpointing"])
    /\ UNCHANGED bounds

\* sendBatch throws although the queue took the batch.
SendThrows(d) == drain[d].phase = "sending" /\ Fault /\ SendBatch(d) /\ Become(d, Idle)

Advanced(cursor, through) == IF through + 1 > cursor THEN through + 1 ELSE cursor

\* checkpointRange, whoever holds the lease by now.
Checkpoint(d) ==
    LET r == drain[d].run
        through == drain[d].through
    IN /\ drain[d].phase = "checkpointing"
       /\ box' = IF IsReady(r)
                 THEN [box EXCEPT ![r].next = Advanced(@, through)] ELSE box
       /\ IF through + 1 < Size[r]
          THEN Become(d, [phase |-> "selecting", run |-> r, next |-> through + 1])
          ELSE Become(d, Idle)
       /\ UNCHANGED <<ledger, raw, producer, transport, bounds>>

\* The invocation is killed, or a statement throws: the lease stays.
DrainEnds(d) ==
    /\ drain[d] # Idle /\ Fault /\ Become(d, Idle)
    /\ UNCHANGED <<ledger, box, raw, producer, transport>>

-----------------------------------------------------------------------------
(* The queue and its consumers: one delivery per lane (max_concurrency 1,    *)
(* batches of one).  A copy leaves its lane when it is acknowledged, or when *)
(* a failed delivery was the last one that max_retries allows.               *)

Working(lane, phase) == consumer[lane].phase = phase
Turn(lane, phase) == consumer' = [consumer EXCEPT ![lane].phase = phase]

Deliver(lane, m) ==
    /\ consumer[lane] = Idle /\ queue[lane][m] > 0
    /\ consumer' = [consumer EXCEPT ![lane] = [phase |-> "recording", message |-> m]]
    /\ UNCHANGED <<ledger, box, raw, producer, drain, queue, sent, incidents, bounds>>

\* Mutant of KeptOutcome: INSERT OR REPLACE.
NewOutcome(old, new) == new

\* INSERT OR IGNORE
KeptOutcome(old, new) == IF old = "none" THEN new ELSE old

\* The receipt of recordSourceRunIngestOutcome; the primary consumer has
\* ingested the item by then.
Receipt(lane) ==
    LET r == consumer[lane].message[1]
        i == consumer[lane].message[2]
        outcome == IF lane = "primary" THEN "ingested" ELSE "failed"
    IN /\ Working(lane, "recording")
       /\ receipts' = IF run[r].status = "queued" /\ i < run[r].enqueued
                      THEN [receipts EXCEPT ![r][i] = KeptOutcome(@, outcome)] ELSE receipts
       /\ Turn(lane, "accounting")
       /\ UNCHANGED <<run, health, box, raw, producer, drain, queue, sent, incidents, bounds>>

Count(r, outcomes) == Cardinality({i \in Items(r) : receipts[r][i] \in outcomes})

Verdict(r) ==
    CASE Count(r, {"failed"}) >= run[r].enqueued -> "failed"
      [] OTHER -> IF Count(r, {"failed"}) > 0 \/ r \in PartialRuns THEN "partial" ELSE "success"

Settled(r) == run[r].enqueued > 0 /\ Count(r, Outcomes) >= run[r].enqueued

\* Mutant of Accounts: every delivery to an ended run is accounted.
AccountsAgain(r, status) == status \in Ended

Accounts(r, status) == status \in Ended /\ ~run[r].accounted

\* The batch of recordSourceRunIngestOutcome: status, the source's health, the
\* accounting mark.
Account(lane) ==
    LET r == consumer[lane].message[1]
        status == IF run[r].status = "queued" /\ Settled(r) THEN Verdict(r) ELSE run[r].status
    IN /\ Working(lane, "accounting")
       /\ run' = [run EXCEPT ![r].status = status, ![r].accounted = @ \/ Accounts(r, status)]
       /\ health' = [health EXCEPT ![r] = IF Accounts(r, status) THEN @ + 1 ELSE @]
       /\ Turn(lane, IF lane = "primary" THEN "acking" ELSE "keeping")
       /\ UNCHANGED <<receipts, box, raw, producer, drain, queue, sent, incidents, bounds>>

\* Mutant of Kept: an item with a receipt is not kept for recovery.
KeptUnreceipted(m) == IF receipts[m[1]][m[2]] = "none" THEN {m} ELSE {}

Kept(m) == {m}

\* persistRecoverableDeadLetter
Keep ==
    /\ Working("dead-letter", "keeping")
    /\ incidents' = incidents \cup Kept(consumer["dead-letter"].message)
    /\ Turn("dead-letter", "acking")
    /\ UNCHANGED <<ledger, box, raw, producer, drain, queue, sent, bounds>>

\* message.retry(): the same lane again, or the dead-letter queue.  The last
\* lane keeps its copy.
Retry(lane) ==
    LET m == consumer[lane].message
    IN /\ consumer' = [consumer EXCEPT ![lane] = Idle]
       /\ \/ UNCHANGED queue
          \/ /\ lane = "primary"
             /\ queue' = [queue EXCEPT !["primary"][m] = @ - 1, !["dead-letter"][m] = @ + 1]
       /\ UNCHANGED <<ledger, box, raw, producer, drain, sent, incidents>>

\* Mutant of Handled: a delivery that did not throw is acknowledged.
HandledAnyway(lane, m) == TRUE

Handled(lane, m) == lane = "dead-letter" \/ receipts[m[1]][m[2]] # "none"

\* The primary consumer acknowledges an item that has a receipt, and retries
\* any other; the dead-letter consumer has kept the body and acknowledges.
Ack(lane) ==
    LET m == consumer[lane].message
    IN /\ Working(lane, "acking")
       /\ Handled(lane, m)
       /\ consumer' = [consumer EXCEPT ![lane] = Idle]
       /\ queue' = [queue EXCEPT ![lane][m] = @ - 1]
       /\ UNCHANGED <<ledger, box, raw, producer, drain, sent, incidents, bounds>>

Unrecorded ==
    LET m == consumer["primary"].message
    IN /\ Working("primary", "acking")
       /\ ~Handled("primary", m)
       /\ Retry("primary")
       /\ UNCHANGED bounds

\* The consumer throws or is killed at any point, also when the
\* acknowledgement is lost.
ConsumerEnds(lane) == consumer[lane] # Idle /\ Fault /\ Retry(lane)

-----------------------------------------------------------------------------
Produce(r) ==
    \/ Begin(r) \/ CollectNothing(r) \/ FinishThrows(r) \/ FinishUnsent(r)
    \/ Reserve(r) \/ ReserveThrows(r) \/ Stage(r) \/ StageThrows(r) \/ Discard(r) \/ Activate(r) \/ Confirm(r)
    \/ HandoffThrows(r) \/ FinishFailed(r) \/ ProducerEnds(r)

Maintain(r) ==
    Resume(r) \/ Abandon(r) \/ CleanBodies(r) \/ CleanHeader(r) \/ DeleteTerminal(r)

DrainStep(d) ==
    \/ \E r \in Runs : Claim(d, r)
    \/ Release(d) \/ Select(d) \/ Send(d) \/ Checkpoint(d)

DrainFails(d) == Refuse(d) \/ SendThrows(d) \/ DrainEnds(d)

ConsumerStep(lane) ==
    \/ \E m \in Messages : Deliver(lane, m)
    \/ Receipt(lane) \/ Account(lane) \/ Ack(lane)
    \/ lane = "dead-letter" /\ Keep
    \/ lane = "primary" /\ Unrecorded

Next ==
    \/ \E r \in Runs : Produce(r) \/ Maintain(r) \/ LeaseExpires(r)
    \/ \E d \in Drains : DrainStep(d) \/ DrainFails(d)
    \/ \E lane \in Lanes : ConsumerStep(lane) \/ ConsumerEnds(lane)

Spec == Init /\ [][Next]_vars

\* The five-minute schedule drains again and again, the queue delivers what it
\* holds, no message is retried for ever (max_retries), and time passes.
\* Producers and maintenance promise nothing.
Fairness ==
    /\ \A d \in Drains : WF_vars(DrainStep(d))
    /\ \A lane \in Lanes : WF_vars(ConsumerStep(lane))
    /\ SF_vars(Unrecorded /\ queue' # queue)
    /\ \A r \in Runs : WF_vars(LeaseExpires(r))

FairSpec == Spec /\ Fairness

-----------------------------------------------------------------------------
(* Properties *)

\* Whatever the queue has taken and the ledger has not settled can be sent
\* again from the outbox, body for body: no producer, sweeper, late drain or
\* clean-up retires a body before its item has a receipt.
ExactBodyKept ==
    \A m \in sent : receipts[m[1]][m[2]] = "none" =>
                      IsReady(m[1]) /\ m[2] \in box[m[1]].bodies

\* The cursor of a ready run never passes a message that was not handed to the
\* queue, although drains that lost their lease go on to write it.
CursorCovered ==
    \A r \in Runs : IsReady(r) => \A i \in Items(r) : i < box[r].next => <<r, i>> \in sent

\* Only a run that has ended changes its source's health, and one whose items were
\* handed off changes it exactly once, however many deliveries and crashes settle
\* it.  No run changes it more than once but one that had nothing to hand off and
\* whose last batch threw after it had committed: the catch block counts that run
\* again, as failed.
AccountedOnce ==
    \A r \in Runs :
        /\ health[r] > 0 => run[r].accounted
        /\ run[r].accounted /\ run[r].enqueued > 0 => health[r] = 1
        /\ health[r] > 1 => /\ health[r] = 2 /\ faults > 0
                           /\ run[r].status = "failed" /\ run[r].enqueued = 0
                           /\ ~\E m \in sent : m[1] = r

\* The raw evidence a queued message refers to exists while the run is open.
RawKept == \A r \in Runs : IsReady(r) /\ ~run[r].accounted => raw[r]

\* A failed item stays recoverable, whatever happens to its body in the outbox:
\* kept as an incident, or about to be delivered again by the dead-letter queue.
FailedRecoverable ==
    \A m \in Messages : receipts[m[1]][m[2]] = "failed" =>
                          m \in incidents \/ queue["dead-letter"][m] > 0

\* Even when a run was failed by mistake and its bodies are gone, a message the
\* queue took is settled, kept as an incident, or still queued.
NothingLost ==
    \A m \in sent :
        \/ receipts[m[1]][m[2]] # "none"
        \/ m \in incidents
        \/ \E lane \in Lanes : queue[lane][m] > 0

\* A message stays in the outbox until it is sent, whichever drain writes the
\* cursor (checkpointRange), and, as long as no error is taken for a refusal,
\* until it is settled; a failed item stays recoverable
\* (deleteOneTerminalTrackedSourceOutboxRun, consumeDeadLetterMessage).  Settling
\* changes the health of the source once (recordSourceRunIngestOutcome); a run that
\* sent nothing changes it twice at most (runSource).
KeptUntilSettled ==
    /\ CursorCovered
    /\ escapes = 0 => ExactBodyKept
    /\ FailedRecoverable
    /\ AccountedOnce

\* What the queue took is settled, kept or queued, even when a run was failed by
\* mistake, and no clean-up takes the raw evidence of an open run
\* (consumePrimaryMessage, discardUnactivatedStaging, abandonStaleIncompleteStaging).
EvidenceKept == NothingLost /\ RawKept

\* A run that was activated is settled.
Settles == \A r \in Runs : IsReady(r) ~> run[r].accounted

statuses == [r \in Runs |-> run[r].status]

Contract == INSTANCE TrackedRun WITH status <- statuses, outcome <- receipts

\* The ledger behaves as the abstract run does, for as long as no error of the
\* hand-off was taken for a refusal (source_runs, source_run_ingest_receipts).
ImplementsContract ==
    /\ Contract!Init
    /\ [][escapes' = 0 => [Contract!Next]_<<statuses, receipts>>]_vars
=============================================================================
