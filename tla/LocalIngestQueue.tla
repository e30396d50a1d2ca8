-------------------------- MODULE LocalIngestQueue --------------------------
(* The SQLite ingest queue of the self-hosted runtime                        *)
(* (src/runtime/node/durable-ingest-queue.ts): three lanes of rows, leases   *)
(* with tokens, acknowledgement, retry with back-off, and the hand-off of an *)
(* exhausted row to the next lane.                                           *)
(*                                                                           *)
(* Every SQL statement, or batch of statements, is one step; between two of  *)
(* them any other worker or producer may run and the process may be killed.  *)
(* Clock times are abstracted to one bit per row: `due' says that            *)
(* available_at (of a pending row) or lease_expires_at (of a leased row) has *)
(* passed.  The order of rows inside a lane is abstracted away.              *)
EXTENDS Naturals, FiniteSets

CONSTANTS Messages,     \* ids of the rows producers insert (one UUID per body)
          HandoffIds,   \* UUIDs left for the rows a hand-off inserts
          Workers,      \* delivery loops; one per process that opened the data
          Producers,    \* callers of enqueue that may run at the same time
          MaxAttempts,  \* LANE_MAX_ATTEMPTS
          MaxBatch,     \* INGEST_QUEUE_BATCH_MAX_MESSAGES
          Capacity,     \* ACTIVE_CAPACITY_MESSAGES
          MaxFaults     \* bound: kills, statement errors, stalls, damaged bodies

Lanes == {"primary", "dead-letter", "quarantine"}

ASSUME QueueAssumption ==
    /\ Messages \cap HandoffIds = {}
    /\ IsFiniteSet(Messages) /\ IsFiniteSet(HandoffIds)
    /\ IsFiniteSet(Producers) /\ Producers # {}
    /\ MaxAttempts \in [Lanes -> Nat \ {0}]
    /\ MaxBatch \in Nat
    /\ Capacity \in Nat
    /\ MaxFaults \in Nat

RowIds == Messages \cup HandoffIds

\* Mutant of NextLane: an exhausted row skips the dead-letter lane.
NextLaneSkips == [lane \in {"primary", "dead-letter"} |-> "quarantine"]

NextLane == [lane \in {"primary", "dead-letter"} |->
                IF lane = "primary" THEN "dead-letter" ELSE "quarantine"]

\* leaseNext serves the lanes in this order: ORDER BY CASE lane ...
LaneRank == [lane \in Lanes |-> CASE lane = "quarantine"  -> 0
                                  [] lane = "dead-letter" -> 1
                                  [] lane = "primary"     -> 2]

VARIABLES rows,      \* the table: RowIds -> row, or Absent
          accepted,  \* messages whose insert committed
          spent,     \* hand-off ids that were inserted
          offers,    \* per producer: the batch that passed the capacity check
          work,      \* per worker: its phase and its copy of the leased row
          acked,     \* ghost: messages some row of which was completed
          faults     \* how many faults have happened

vars == <<rows, accepted, spent, offers, work, acked, faults>>

Statuses == {"pending", "leased", "complete", "failed"}
NoToken  == <<>>
Tokens   == {NoToken} \cup (Workers \X (Nat \ {0}))
Absent   == [status |-> "absent"]

\* A row: `message' is the body it carries, `parent' is the row whose hand-off
\* inserted it (the handoff_key is `${parent}:${lane}`; a producer's row has
\* none and names itself), `sound' is the stored size and SHA-256 check.
Row == [status : Statuses, message : Messages, lane : Lanes, attempts : Nat,
        token : Tokens, due : BOOLEAN, parent : RowIds, sound : BOOLEAN]

Live == {r \in RowIds : rows[r].status \in {"pending", "leased"}}
Present == {r \in RowIds : rows[r].status # "absent"}

\* Mutant of Claimable: the rows of loops that died are never claimed again.
ClaimablePendingOnly == {r \in Live : rows[r].due /\ rows[r].status = "pending"}

Claimable == {r \in Live : rows[r].due}

\* Mutant of Holds: the guard compares the status only, not the token.
HoldsAnyLease(w) == rows[work[w].row].status = "leased"

\* The lease a worker holds is the one the row still carries.
Holds(w) == LET r == work[w].row
            IN  /\ rows[r].status = "leased"
                /\ rows[r].token = work[w].token

Stopped == [phase |-> "stopped"]
Idle    == [phase |-> "idle"]

\* What the loop knows of the row it works on: the columns the SELECT read,
\* the attempt number, the token, and whether a renewal found the lease gone.
Delivery == [phase : {"selected", "delivering", "acking", "retrying"},
             row : RowIds, message : Messages, lane : Lanes, sound : BOOLEAN,
             attempts : Nat \ {0}, token : Tokens, lost : BOOLEAN]

-----------------------------------------------------------------------------
Init ==
    /\ rows = [r \in RowIds |-> Absent]
    /\ accepted = {}
    /\ spent = {}
    /\ offers = [p \in Producers |-> {}]
    /\ work = [w \in Workers |-> Stopped]
    /\ acked = {}
    /\ faults = 0

-----------------------------------------------------------------------------
(* Producers *)

\* Mutant of EnqueueCheck: leased rows are not counted as active.
EnqueueCheckPendingOnly(p, batch) ==
    /\ offers[p] = {}
    /\ batch # {} /\ Cardinality(batch) <= MaxBatch
    /\ batch \cap accepted = {}
    /\ \A q \in Producers : batch \cap offers[q] = {}
    /\ Cardinality({r \in Live : rows[r].status = "pending"}) + Cardinality(batch)
          <= Capacity
    /\ offers' = [offers EXCEPT ![p] = batch]
    /\ UNCHANGED <<rows, accepted, spent, work, acked, faults>>

\* enqueue, up to the capacity check: the batch is validated and the active
\* rows are counted.  The insert is a later statement.
EnqueueCheck(p, batch) ==
    /\ offers[p] = {}
    /\ batch # {} /\ Cardinality(batch) <= MaxBatch
    /\ batch \cap accepted = {}
    /\ \A q \in Producers : batch \cap offers[q] = {}
    /\ Cardinality(Live) + Cardinality(batch) <= Capacity
    /\ offers' = [offers EXCEPT ![p] = batch]
    /\ UNCHANGED <<rows, accepted, spent, work, acked, faults>>

NewRow(message, lane, parent, sound) ==
    [status |-> "pending", message |-> message, lane |-> lane, attempts |-> 0,
     token |-> NoToken, due |-> TRUE, parent |-> parent, sound |-> sound]

\* enqueue, the batch of inserts: all rows or none.  Only INGEST_QUEUE is ever
\* sent to, so a producer's rows start in the primary lane.
EnqueueInsert(p) ==
    /\ offers[p] # {}
    /\ rows' = [r \in RowIds |-> IF r \in offers[p]
                                 THEN NewRow(r, "primary", r, TRUE)
                                 ELSE rows[r]]
    /\ accepted' = accepted \cup offers[p]
    /\ offers' = [offers EXCEPT ![p] = {}]
    /\ UNCHANGED <<spent, work, acked, faults>>

-----------------------------------------------------------------------------
(* The delivery loop *)

Start(w) ==
    /\ work[w] = Stopped
    /\ work' = [work EXCEPT ![w] = Idle]
    /\ UNCHANGED <<rows, accepted, spent, offers, acked, faults>>

\* close: the loop ends after the delivery in flight; bounded like the faults.
Close(w) ==
    /\ work[w] = Idle
    /\ faults < MaxFaults
    /\ faults' = faults + 1
    /\ work' = [work EXCEPT ![w] = Stopped]
    /\ UNCHANGED <<rows, accepted, spent, offers, acked>>

\* What the claim writes into a row ...
Claimed(row, token) ==
    [row EXCEPT !.status = "leased", !.due = FALSE, !.attempts = row.attempts + 1,
                !.token = token]

\* Mutant of Released: the statement clears the lease but keeps the status.
ReleasedKeepsStatus(row, status) == [row EXCEPT !.token = NoToken, !.due = FALSE]

\* ... and what every statement that gives the lease up writes.
Released(row, status) ==
    [row EXCEPT !.status = status, !.token = NoToken, !.due = FALSE]

\* leaseNext, the SELECT: a due row of the first lane that has one.  The copy
\* the worker goes on with counts attempts from what it read here.
LeaseSelect(w, r) ==
    /\ work[w] = Idle
    /\ r \in Claimable
    /\ \A s \in Claimable : LaneRank[rows[r].lane] <= LaneRank[rows[s].lane]
    /\ work' = [work EXCEPT ![w] =
                  [phase |-> "selected", row |-> r,
                   message |-> rows[r].message, lane |-> rows[r].lane,
                   sound |-> rows[r].sound, attempts |-> rows[r].attempts + 1,
                   token |-> NoToken, lost |-> FALSE]]
    /\ UNCHANGED <<rows, accepted, spent, offers, acked, faults>>

\* leaseNext, the UPDATE that claims the row if it still may be claimed.  The
\* token is a random UUID; the pair of worker and attempt is as fresh.
LeaseClaim(w) ==
    LET r == work[w].row
    IN /\ work[w].phase = "selected"
       /\ IF r \in Claimable
          THEN LET token == <<w, rows[r].attempts + 1>>
               IN /\ rows' = [rows EXCEPT ![r] = Claimed(rows[r], token)]
                  /\ work' = [work EXCEPT ![w] =
                                [@ EXCEPT !.phase = "delivering", !.token = token]]
          ELSE /\ work' = [work EXCEPT ![w] = Idle]
               /\ UNCHANGED rows
       /\ UNCHANGED <<accepted, spent, offers, acked, faults>>

\* deliver on a body that fails its size or digest check: failWithoutHandoff.
DeliverDamaged(w) ==
    LET r == work[w].row
    IN /\ work[w].phase = "delivering"
       /\ ~work[w].sound
       /\ rows' = IF Holds(w) THEN [rows EXCEPT ![r] = Released(rows[r], "failed")] ELSE rows
       /\ work' = [work EXCEPT ![w] = Idle]
       /\ UNCHANGED <<accepted, spent, offers, acked, faults>>

\* The interval timer: extend the lease, or remember that it is gone.
Renew(w) ==
    LET r == work[w].row
    IN /\ work[w].phase = "delivering"
       /\ work[w].sound
       /\ IF Holds(w)
          THEN rows[r].due /\ rows' = [rows EXCEPT ![r].due = FALSE] /\ UNCHANGED work
          ELSE ~work[w].lost /\ work' = [work EXCEPT ![w].lost = TRUE] /\ UNCHANGED rows
       /\ UNCHANGED <<accepted, spent, offers, acked, faults>>

\* handleIngestQueueBatch returns with an acknowledgement, or asks for a retry
\* or throws; after a failed renewal neither outcome is written.
DeliverHandler(w) ==
    /\ work[w].phase = "delivering"
    /\ work[w].sound
    /\ \E outcome \in {"acking", "retrying"} :
          work' = [work EXCEPT ![w] = IF @.lost THEN Idle
                                      ELSE [@ EXCEPT !.phase = outcome]]
    /\ UNCHANGED <<rows, accepted, spent, offers, acked, faults>>

\* ack, then gcCompleted: some rows completed more than a day ago go away.
Ack(w) ==
    LET r == work[w].row
        old == {s \in RowIds : rows[s].status = "complete"}
    IN /\ work[w].phase = "acking"
       /\ IF Holds(w)
          THEN /\ \E gone \in SUBSET old :
                     rows' = [s \in RowIds |->
                                IF s \in gone THEN Absent
                                ELSE IF s = r THEN Released(rows[r], "complete")
                                ELSE rows[s]]
               /\ acked' = acked \cup {rows[r].message}
          ELSE UNCHANGED <<rows, acked>>
       /\ work' = [work EXCEPT ![w] = Idle]
       /\ UNCHANGED <<accepted, spent, offers, faults>>

\* Mutant of Exhausted: one attempt too early.
ExhaustedEarly(w) == work[w].attempts + 1 >= MaxAttempts[work[w].lane]

Exhausted(w) == work[w].attempts >= MaxAttempts[work[w].lane]

\* retryOrHandoff below the limit: pending again, after a back-off.
Retry(w) ==
    LET r == work[w].row
    IN /\ work[w].phase = "retrying"
       /\ ~Exhausted(w)
       /\ rows' = IF Holds(w) THEN [rows EXCEPT ![r] = Released(rows[r], "pending")] ELSE rows
       /\ work' = [work EXCEPT ![w] = Idle]
       /\ UNCHANGED <<accepted, spent, offers, acked, faults>>

\* Mutant of HandoffKeyTaken: the key names the lane but not the row.
HandoffKeyLaneOnly(r, lane) ==
    \E s \in Present \ {r} : rows[s].parent # s /\ rows[s].lane = lane

HandoffKeyTaken(r, lane) ==
    \E s \in Present \ {r} : rows[s].parent = r /\ rows[s].lane = lane

\* retryOrHandoff at the limit with a lane below: one batch copies the body
\* into that lane (ON CONFLICT(handoff_key) DO NOTHING) and fails the row.
Handoff(w) ==
    LET r    == work[w].row
        lane == NextLane[work[w].lane]
        new  == CHOOSE id \in HandoffIds \ spent : TRUE
        copy == NewRow(rows[r].message, lane, r, rows[r].sound)
    IN /\ work[w].phase = "retrying"
       /\ Exhausted(w)
       /\ work[w].lane # "quarantine"
       /\ IF ~Holds(w)
          THEN UNCHANGED <<rows, spent>>
          ELSE IF HandoffKeyTaken(r, lane)
          THEN rows' = [rows EXCEPT ![r] = Released(rows[r], "failed")] /\ UNCHANGED spent
          ELSE /\ spent # HandoffIds
               /\ rows' = [rows EXCEPT ![r] = Released(rows[r], "failed"), ![new] = copy]
               /\ spent' = spent \cup {new}
       /\ work' = [work EXCEPT ![w] = Idle]
       /\ UNCHANGED <<accepted, offers, acked, faults>>

\* retryOrHandoff at the limit of the last lane: the body stays as evidence.
FailWithoutHandoff(w) ==
    LET r == work[w].row
    IN /\ work[w].phase = "retrying"
       /\ Exhausted(w)
       /\ work[w].lane = "quarantine"
       /\ rows' = IF Holds(w) THEN [rows EXCEPT ![r] = Released(rows[r], "failed")] ELSE rows
       /\ work' = [work EXCEPT ![w] = Idle]
       /\ UNCHANGED <<accepted, spent, offers, acked, faults>>

-----------------------------------------------------------------------------
(* Time and faults *)

Working == {w \in Workers : work[w].phase \notin {"stopped", "idle"}}

\* A back-off ends, or the lease of a delivery that no longer runs expires.
Elapse(r) ==
    /\ r \in Live \ Claimable
    /\ ~\E w \in Working : work[w].row = r /\ Holds(w)
    /\ rows' = [rows EXCEPT ![r].due = TRUE]
    /\ UNCHANGED <<accepted, spent, offers, work, acked, faults>>

\* The lease of a running delivery expires: the loop stalled past leaseMs.
Stall(w) ==
    /\ w \in Working
    /\ Holds(w)
    /\ faults < MaxFaults
    /\ faults' = faults + 1
    /\ rows' = [rows EXCEPT ![work[w].row].due = TRUE]
    /\ UNCHANGED <<accepted, spent, offers, work, acked>>

\* A statement of the loop throws: drainOnce rejects and runLoop goes on.
WorkerError(w) ==
    /\ w \in Working
    /\ faults < MaxFaults
    /\ faults' = faults + 1
    /\ work' = [work EXCEPT ![w] = Idle]
    /\ UNCHANGED <<rows, accepted, spent, offers, acked>>

\* The process is killed: its loop stops and what it held in memory is gone.
Kill(w) ==
    /\ work[w] # Stopped
    /\ faults < MaxFaults
    /\ faults' = faults + 1
    /\ work' = [work EXCEPT ![w] = Stopped]
    /\ UNCHANGED <<rows, accepted, spent, offers, acked>>

\* A producer is killed, or its insert throws, between check and insert.
EnqueueAbandon(p) ==
    /\ offers[p] # {}
    /\ faults < MaxFaults
    /\ faults' = faults + 1
    /\ offers' = [offers EXCEPT ![p] = {}]
    /\ UNCHANGED <<rows, accepted, spent, work, acked>>

\* Storage damages a stored body.
Damage(r) ==
    /\ r \in Live
    /\ rows[r].sound
    /\ faults < MaxFaults
    /\ faults' = faults + 1
    /\ rows' = [rows EXCEPT ![r].sound = FALSE]
    /\ UNCHANGED <<accepted, spent, offers, work, acked>>

-----------------------------------------------------------------------------
Deliver(w) == DeliverDamaged(w) \/ DeliverHandler(w)

Settle(w) == Ack(w) \/ Retry(w) \/ Handoff(w) \/ FailWithoutHandoff(w)

WorkerStep(w) == \/ Start(w)
                 \/ \E r \in RowIds : LeaseSelect(w, r)
                 \/ LeaseClaim(w)
                 \/ Deliver(w)
                 \/ Settle(w)

Next ==
    \/ \E p \in Producers : \/ \E batch \in SUBSET Messages : EnqueueCheck(p, batch)
                            \/ EnqueueInsert(p)
                            \/ EnqueueAbandon(p)
    \/ \E w \in Workers : \/ WorkerStep(w)
                          \/ Renew(w)
                          \/ Close(w)
                          \/ Stall(w)
                          \/ WorkerError(w)
                          \/ Kill(w)
    \/ \E r \in RowIds : Elapse(r) \/ Damage(r)

Spec == Init /\ [][Next]_vars

\* The runtime restarts a dead loop and the loop polls; clocks advance.
Fairness == /\ \A w \in Workers : WF_vars(WorkerStep(w))
            /\ \A r \in RowIds : WF_vars(Elapse(r))

FairSpec == Spec /\ Fairness

-----------------------------------------------------------------------------
(* Properties *)

TypeOK ==
    /\ rows \in [RowIds -> Row \cup {Absent}]
    /\ accepted \subseteq Messages
    /\ spent \subseteq HandoffIds
    /\ offers \in [Producers -> SUBSET Messages]
    /\ work \in [Workers -> Delivery \cup {Idle, Stopped}]
    /\ acked \subseteq Messages
    /\ faults \in 0..MaxFaults

\* The body is kept as evidence: its row failed below the last lane's limit
\* only because the stored body is damaged.
Parked(m) == \E r \in Present : /\ rows[r].message = m
                                /\ rows[r].status = "failed"
                                /\ rows[r].lane = "quarantine" \/ ~rows[r].sound

\* A hand-off never forks a body: whatever the workers, expired leases and
\* kills, at most one row of a message is pending or leased, so that no body is
\* delivered from two lanes at once (retryOrHandoff's guarded batch).
OneLiveRow ==
    \A r, s \in Live : rows[r].message = rows[s].message => r = s

\* An accepted body is always somewhere: deliverable, completed, or kept as a
\* failed row.  `Producer acknowledgement happens only after an atomic SQLite
\* commit'; no kill or lost lease between two statements may drop it.
NoBodyLost ==
    \A m \in accepted : \/ \E r \in Live : rows[r].message = m
                        \/ m \in acked
                        \/ Parked(m)

\* Nothing reaches a failure lane before its row used up the lane above: the
\* parent is a failed row of the lane above that was claimed MaxAttempts times.
HandoffEarned ==
    \A r \in Present : rows[r].parent # r =>
        LET p == rows[rows[r].parent]
        IN /\ p.status = "failed"
           /\ p.message = rows[r].message
           /\ p.lane # "quarantine" /\ NextLane[p.lane] = rows[r].lane
           /\ p.attempts >= MaxAttempts[p.lane]

\* The capacity check and the insert are two statements, so producers that pass
\* the check together exceed the capacity together; with n of them by at most
\* n - 1 batches, and a hand-off never adds to it.  One producer cannot.
CapacityOvershootBounded ==
    Cardinality(Live) + Cardinality(UNION {offers[p] : p \in Producers})
        <= Capacity + (Cardinality(Producers) - 1) * MaxBatch

\* A worker changes a leased row only while the row carries its token: a row
\* leaves its lease through the holder, or is claimed anew after it expired.
LeaseFenced ==
    [][\A r \in Present :
          rows[r].status = "leased" /\ rows'[r].token # rows[r].token =>
             \/ rows[r].due /\ rows'[r].status = "leased"
                            /\ rows'[r].attempts = rows[r].attempts + 1
             \/ \E w \in Workers : /\ work[w] # work'[w]
                                   /\ work[w].phase \in {"delivering", "acking", "retrying"}
                                   /\ work[w].row = r
                                   /\ work[w].token = rows[r].token]_vars

\* Every accepted body is eventually settled: a finite number of faults cannot
\* keep it circling, because attempts are counted when the lease is taken.
EventuallySettled ==
    \A m \in Messages : m \in accepted ~> (m \in acked \/ Parked(m))

-----------------------------------------------------------------------------
(* The queue implements the ladder. *)

PlaceOf(m) ==
    IF m \notin accepted THEN "none"
    ELSE IF \E r \in Live : rows[r].message = m
         THEN rows[CHOOSE r \in Live : rows[r].message = m].lane
    ELSE IF m \in acked THEN "done" ELSE "parked"

places == [m \in Messages |-> PlaceOf(m)]

Ladder == INSTANCE DeliveryLadder WITH place <- places

\* Each statement of the queue is one step of the ladder or none.
ImplementsLadder == Ladder!Spec
=============================================================================
