----------------------- MODULE LocalIngestQueueProofs -----------------------
(* Proofs about LocalIngestQueue, for any number of messages, workers,       *)
(* producers, attempts and faults.                                           *)
EXTENDS LocalIngestQueue, FiniteSetTheorems, TLAPS

-----------------------------------------------------------------------------
(* What the row-writing helpers write. *)

LEMMA NewRowFacts ==
    ASSUME NEW m \in Messages, NEW lane \in Lanes, NEW parent \in RowIds,
           NEW sound \in BOOLEAN
    PROVE  LET row == NewRow(m, lane, parent, sound)
           IN  /\ row \in Row
               /\ row.status = "pending" /\ row.message = m /\ row.lane = lane
               /\ row.parent = parent /\ row.sound = sound
BY DEF NewRow, Row, Statuses, Tokens, NoToken

LEMMA ClaimedFacts ==
    ASSUME NEW row \in Row, NEW token \in Tokens
    PROVE  LET new == Claimed(row, token)
           IN  /\ new \in Row
               /\ new.status = "leased" /\ new.attempts = row.attempts + 1
               /\ new.message = row.message /\ new.lane = row.lane
               /\ new.parent = row.parent /\ new.sound = row.sound
<1> DEFINE n == row.attempts + 1
<1>1. n \in Nat
    BY DEF Row
<1> HIDE DEF n
<1>2. [row EXCEPT !.status = "leased", !.due = FALSE, !.attempts = n, !.token = token]
         \in Row
    BY <1>1 DEF Row, Statuses
<1>3. Claimed(row, token)
        = [row EXCEPT !.status = "leased", !.due = FALSE, !.attempts = n, !.token = token]
    BY DEF Claimed, n
<1>4. QED
    BY <1>2, <1>3 DEF Row, n

LEMMA ReleasedFacts ==
    ASSUME NEW row \in Row, NEW status \in Statuses
    PROVE  LET new == Released(row, status)
           IN  /\ new \in Row
               /\ new.status = status /\ new.attempts = row.attempts
               /\ new.message = row.message /\ new.lane = row.lane
               /\ new.parent = row.parent /\ new.sound = row.sound
BY DEF Released, Row, Tokens, NoToken

LEMMA DueFacts ==
    ASSUME NEW row \in Row, NEW due \in BOOLEAN
    PROVE  LET new == [row EXCEPT !.due = due]
           IN  /\ new \in Row
               /\ new.status = row.status /\ new.attempts = row.attempts
               /\ new.message = row.message /\ new.lane = row.lane
               /\ new.parent = row.parent /\ new.sound = row.sound
BY DEF Row

LEMMA DamagedFacts ==
    ASSUME NEW row \in Row
    PROVE  LET new == [row EXCEPT !.sound = FALSE]
           IN  /\ new \in Row
               /\ new.status = row.status /\ new.attempts = row.attempts
               /\ new.message = row.message /\ new.lane = row.lane
               /\ new.parent = row.parent /\ new.sound = FALSE
BY DEF Row

LEMMA PresentRow ==
    ASSUME TypeOK, NEW r \in RowIds, rows[r].status # "absent"
    PROVE  rows[r] \in Row
BY DEF TypeOK, Absent

LEMMA WorkPhase ==
    ASSUME TypeOK, NEW w \in Workers,
           work[w].phase \in {"selected", "delivering", "acking", "retrying"}
    PROVE  work[w] \in Delivery /\ w \in Working
BY DEF TypeOK, Idle, Stopped, Working

LEMMA WorkingCopy ==
    ASSUME TypeOK, NEW w \in Working
    PROVE  w \in Workers /\ work[w] \in Delivery
BY DEF TypeOK, Idle, Stopped, Working

LEMMA HeldRow ==
    ASSUME TypeOK, NEW w \in Workers, work[w] \in Delivery, Holds(w)
    PROVE  work[w].row \in Live /\ rows[work[w].row] \in Row
BY PresentRow DEF Holds, Delivery, Live

-----------------------------------------------------------------------------
(* Type correctness. *)

LEMMA TypeInit == Init => TypeOK
BY QueueAssumption DEF Init, TypeOK, Absent, Stopped, Idle

LEMMA WriteRow ==
    ASSUME TypeOK, NEW r \in RowIds, NEW row \in Row
    PROVE  [rows EXCEPT ![r] = row] \in [RowIds -> Row \cup {Absent}]
BY DEF TypeOK

LEMMA WriteWork ==
    ASSUME TypeOK, NEW w \in Workers, NEW copy \in Delivery \cup {Idle, Stopped}
    PROVE  [work EXCEPT ![w] = copy] \in [Workers -> Delivery \cup {Idle, Stopped}]
BY DEF TypeOK

LEMMA TypeProducer ==
    ASSUME TypeOK, NEW p \in Producers,
           \/ \E batch \in SUBSET Messages : EnqueueCheck(p, batch)
           \/ EnqueueInsert(p)
           \/ EnqueueAbandon(p)
    PROVE  TypeOK'
<1>1. CASE \E batch \in SUBSET Messages : EnqueueCheck(p, batch)
    BY <1>1 DEF EnqueueCheck, TypeOK
<1>2. CASE EnqueueInsert(p)
    <2>1. offers[p] \subseteq Messages
        BY DEF TypeOK
    <2>2. \A r \in offers[p] : NewRow(r, "primary", r, TRUE) \in Row
        BY <2>1, NewRowFacts DEF Lanes, RowIds
    <2>3. QED
        BY <1>2, <2>1, <2>2 DEF EnqueueInsert, TypeOK
<1>3. CASE EnqueueAbandon(p)
    BY <1>3, QueueAssumption DEF EnqueueAbandon, TypeOK
<1>4. QED
    BY <1>1, <1>2, <1>3

LEMMA TypeLease ==
    ASSUME TypeOK, NEW w \in Workers,
           \/ Start(w)
           \/ Close(w)
           \/ \E r \in RowIds : LeaseSelect(w, r)
           \/ LeaseClaim(w)
    PROVE  TypeOK'
<1>1. CASE Start(w) \/ Close(w)
    BY <1>1, QueueAssumption DEF Start, Close, TypeOK
<1>2. ASSUME NEW r \in RowIds, LeaseSelect(w, r) PROVE TypeOK'
    <2>1. rows[r] \in Row
        BY <1>2, PresentRow DEF LeaseSelect, Claimable, Live
    <2>2. work'[w] \in Delivery
        BY <1>2, <2>1 DEF LeaseSelect, Delivery, Row, Tokens, TypeOK
    <2>3. QED
        BY <1>2, <2>2 DEF LeaseSelect, TypeOK
<1>3. CASE LeaseClaim(w)
    <2>1. work[w] \in Delivery
        BY <1>3, WorkPhase DEF LeaseClaim
    <2>2. CASE work[w].row \notin Claimable
        BY <1>3, <2>2 DEF LeaseClaim, TypeOK
    <2>3. CASE work[w].row \in Claimable
        <3> DEFINE r == work[w].row
                   token == <<w, rows[r].attempts + 1>>
                   copy == [work[w] EXCEPT !.phase = "delivering", !.token = token]
        <3>1. r \in RowIds /\ rows[r] \in Row
            BY <2>3, PresentRow DEF Claimable, Live
        <3>2. token \in Tokens
            BY <3>1 DEF Tokens, Row
        <3>3. /\ rows' = [rows EXCEPT ![r] = Claimed(rows[r], token)]
              /\ work' = [work EXCEPT ![w] = copy]
              /\ UNCHANGED <<accepted, spent, offers, acked, faults>>
            BY <1>3, <2>3 DEF LeaseClaim
        <3>4. Claimed(rows[r], token) \in Row
            BY <3>1, <3>2, ClaimedFacts
        <3> HIDE DEF token
        <3>5. copy \in Delivery
            BY <2>1, <3>2 DEF Delivery
        <3> HIDE DEF copy
        <3>6. QED
            BY <3>1, <3>3, <3>4, <3>5, WriteRow, WriteWork DEF TypeOK
    <2>4. QED
        BY <2>2, <2>3
<1>4. QED
    BY <1>1, <1>2, <1>3

LEMMA TypeDelivery ==
    ASSUME TypeOK, NEW w \in Workers,
           Deliver(w) \/ Renew(w) \/ Settle(w)
    PROVE  TypeOK'
<1> DEFINE r == work[w].row
<1>1. work[w] \in Delivery
    BY WorkPhase DEF Deliver, DeliverDamaged, DeliverHandler, Renew, Settle,
                     Ack, Retry, Handoff, FailWithoutHandoff
<1>2. Holds(w) => r \in RowIds /\ rows[r] \in Row
    BY <1>1, HeldRow DEF Live
<1>3. Holds(w) => \A status \in Statuses : Released(rows[r], status) \in Row
    BY <1>2, ReleasedFacts
<1>4. [work EXCEPT ![w] = Idle] \in [Workers -> Delivery \cup {Idle, Stopped}]
    BY WriteWork
<1>5. CASE DeliverDamaged(w)
    BY <1>5, <1>2, <1>3, <1>4, WriteRow DEF DeliverDamaged, TypeOK, Statuses
<1>6. CASE DeliverHandler(w)
    BY <1>6, <1>1, <1>4 DEF DeliverHandler, TypeOK, Delivery
<1>7. CASE Renew(w)
    <2>1. CASE Holds(w)
        <3>1. [rows EXCEPT ![r].due = FALSE] \in [RowIds -> Row \cup {Absent}]
            BY <2>1, <1>2, DueFacts, WriteRow
        <3>2. QED
            BY <1>7, <2>1, <3>1 DEF Renew, TypeOK
    <2>2. CASE ~Holds(w)
        <3>1. [work EXCEPT ![w].lost = TRUE] \in [Workers -> Delivery \cup {Idle, Stopped}]
            BY <1>1 DEF TypeOK, Delivery
        <3>2. QED
            BY <1>7, <2>2, <3>1 DEF Renew, TypeOK
    <2>3. QED
        BY <2>1, <2>2
<1>8. CASE Ack(w)
    <2>1. Holds(w) => rows[r].message \in Messages
        BY <1>2 DEF Row
    <2>2. QED
        BY <1>8, <1>3, <1>4, <2>1 DEF Ack, TypeOK, Statuses
<1>9. CASE Retry(w)
    BY <1>9, <1>2, <1>3, <1>4, WriteRow DEF Retry, TypeOK, Statuses
<1>10. CASE Handoff(w)
    <2> DEFINE new == CHOOSE id \in HandoffIds \ spent : TRUE
               copy == NewRow(rows[r].message, NextLane[work[w].lane], r, rows[r].sound)
    <2>1. Holds(w) => copy \in Row
        <3>1. NextLane[work[w].lane] \in Lanes
            BY <1>10, <1>1 DEF Handoff, NextLane, Lanes, Delivery
        <3>2. QED
            BY <1>2, <3>1, NewRowFacts DEF Row
    <2>2. spent # HandoffIds => new \in HandoffIds \ spent
        BY DEF TypeOK
    <2>3. QED
        BY <1>10, <1>3, <1>4, <2>1, <2>2 DEF Handoff, TypeOK, Statuses
<1>11. CASE FailWithoutHandoff(w)
    BY <1>11, <1>2, <1>3, <1>4, WriteRow DEF FailWithoutHandoff, TypeOK, Statuses
<1>12. QED
    BY <1>5, <1>6, <1>7, <1>8, <1>9, <1>10, <1>11 DEF Deliver, Settle

LEMMA TypeFault ==
    ASSUME TypeOK,
           \/ \E w \in Workers : Stall(w) \/ WorkerError(w) \/ Kill(w)
           \/ \E r \in RowIds : Elapse(r) \/ Damage(r)
    PROVE  TypeOK'
<1>1. ASSUME NEW w \in Workers, Stall(w) PROVE TypeOK'
    <2>1. work[w].row \in RowIds /\ rows[work[w].row] \in Row
        BY <1>1, WorkingCopy, HeldRow DEF Stall, Live
    <2>2. rows' \in [RowIds -> Row \cup {Absent}]
        BY <1>1, <2>1, DueFacts, WriteRow DEF Stall
    <2>3. QED
        BY <1>1, <2>2, QueueAssumption DEF Stall, TypeOK
<1>2. ASSUME NEW w \in Workers, WorkerError(w) \/ Kill(w) PROVE TypeOK'
    BY <1>2, QueueAssumption DEF WorkerError, Kill, TypeOK
<1>3. ASSUME NEW r \in RowIds, Elapse(r) \/ Damage(r) PROVE TypeOK'
    <2>1. rows[r] \in Row
        BY <1>3, PresentRow DEF Elapse, Damage, Live
    <2>2. CASE Elapse(r)
        <3>1. rows' \in [RowIds -> Row \cup {Absent}]
            BY <2>1, <2>2, DueFacts, WriteRow DEF Elapse
        <3>2. QED
            BY <2>2, <3>1 DEF Elapse, TypeOK
    <2>3. CASE Damage(r)
        <3>1. rows' \in [RowIds -> Row \cup {Absent}]
            BY <2>1, <2>3, DamagedFacts, WriteRow DEF Damage
        <3>2. QED
            BY <2>3, <3>1, QueueAssumption DEF Damage, TypeOK
    <2>4. QED
        BY <1>3, <2>2, <2>3
<1>4. QED
    BY <1>1, <1>2, <1>3

LEMMA TypeStep == TypeOK /\ [Next]_vars => TypeOK'
<1> SUFFICES ASSUME TypeOK, [Next]_vars PROVE TypeOK'
    OBVIOUS
<1>1. CASE UNCHANGED vars
    BY <1>1 DEF TypeOK, vars
<1>2. CASE Next
    BY <1>2, TypeProducer, TypeLease, TypeDelivery, TypeFault
       DEF Next, WorkerStep
<1>3. QED
    BY <1>1, <1>2

\* The queue's variables keep their types: in particular every row is Absent or
\* a full row, and each loop is stopped, idle or working on one row.
THEOREM TypeCorrect == Spec => []TypeOK
BY TypeInit, TypeStep, PTL DEF Spec

-----------------------------------------------------------------------------
(* The strengthened invariant. *)

\* Rows carry accepted bodies under ids that are never inserted again.
RowsKnown ==
    \A r \in Present : rows[r].message \in accepted /\ r \in accepted \cup spent

\* A batch waiting for its insert is new, and offered once.
OffersFresh ==
    \A p \in Producers : /\ offers[p] \cap accepted = {}
                         /\ \A q \in Producers \ {p} : offers[p] \cap offers[q] = {}

\* A loop's copy of a row agrees with the row as long as it is in the table;
\* the copy's attempt number is at most the one the claim will write.
CopyAgrees ==
    \A w \in Working :
        LET r == work[w].row
        IN /\ r \in accepted \cup spent
           /\ r \in Present =>
                /\ work[w].lane = rows[r].lane
                /\ (~work[w].sound => ~rows[r].sound)
                /\ (work[w].phase = "selected" => work[w].attempts <= rows[r].attempts + 1)
                /\ (work[w].phase # "selected" => work[w].attempts <= rows[r].attempts)

IInv == /\ TypeOK
        /\ RowsKnown
        /\ OffersFresh
        /\ CopyAgrees
        /\ OneLiveRow
        /\ HandoffEarned
        /\ NoBodyLost

-----------------------------------------------------------------------------
(* The five ways a step treats the table.  Classifying the steps once keeps  *)
(* the proof of each table invariant independent of the actions.             *)

TableKept == UNCHANGED <<rows, accepted, spent, acked>>

RowsInserted ==
    \E S \in SUBSET Messages :
        /\ S \cap accepted = {}
        /\ rows' = [r \in RowIds |-> IF r \in S THEN NewRow(r, "primary", r, TRUE)
                                               ELSE rows[r]]
        /\ accepted' = accepted \cup S
        /\ UNCHANGED <<spent, acked>>

RowRewritten ==
    \E r \in Live, row \in Row :
        /\ rows' = [rows EXCEPT ![r] = row]
        /\ row.message = rows[r].message /\ row.lane = rows[r].lane
        /\ row.parent = rows[r].parent /\ row.attempts >= rows[r].attempts
        /\ row.sound => rows[r].sound
        /\ \/ row.status \in {"pending", "leased"}
           \/ row.status = "failed" /\ (row.lane = "quarantine" \/ ~row.sound)
        /\ UNCHANGED <<accepted, spent, acked>>

RowCompleted ==
    \E r \in Live, gone \in SUBSET RowIds, row \in Row :
        /\ \A s \in gone : rows[s].status = "complete"
        /\ row.status = "complete" /\ row.attempts = rows[r].attempts
        /\ row.message = rows[r].message /\ row.lane = rows[r].lane
        /\ row.parent = rows[r].parent /\ row.sound = rows[r].sound
        /\ rows' = [s \in RowIds |-> IF s \in gone THEN Absent
                                     ELSE IF s = r THEN row ELSE rows[s]]
        /\ acked' = acked \cup {rows[r].message}
        /\ UNCHANGED <<accepted, spent>>

RowHandedOff ==
    \E r \in Live, new \in HandoffIds \ spent, row \in Row, copy \in Row :
        /\ row.status = "failed" /\ row.attempts = rows[r].attempts
        /\ row.message = rows[r].message /\ row.lane = rows[r].lane
        /\ row.parent = rows[r].parent /\ row.sound = rows[r].sound
        /\ row.lane # "quarantine" /\ row.attempts >= MaxAttempts[row.lane]
        /\ copy.status = "pending" /\ copy.message = rows[r].message
        /\ copy.lane = NextLane[row.lane] /\ copy.parent = r
        /\ rows' = [rows EXCEPT ![r] = row, ![new] = copy]
        /\ spent' = spent \cup {new}
        /\ UNCHANGED <<accepted, acked>>

TableStep == TableKept \/ RowsInserted \/ RowRewritten \/ RowCompleted \/ RowHandedOff

LEMMA InsertStep ==
    ASSUME IInv, NEW p \in Producers, EnqueueInsert(p)
    PROVE  RowsInserted
BY DEF IInv, TypeOK, OffersFresh, EnqueueInsert, RowsInserted

LEMMA ClaimStep ==
    ASSUME IInv, NEW w \in Workers, LeaseClaim(w)
    PROVE  TableKept \/ RowRewritten
<1> DEFINE r == work[w].row
           token == <<w, rows[r].attempts + 1>>
<1>1. CASE r \notin Claimable
    BY <1>1 DEF LeaseClaim, TableKept
<1>2. CASE r \in Claimable
    <2>1. r \in Live /\ r \in RowIds /\ rows[r] \in Row
        BY <1>2, PresentRow DEF Claimable, Live, IInv
    <2>2. token \in Tokens /\ rows[r].attempts \in Nat
        BY <2>1 DEF Tokens, Row
    <2>3. /\ rows' = [rows EXCEPT ![r] = Claimed(rows[r], token)]
          /\ UNCHANGED <<accepted, spent, acked>>
        BY <1>2 DEF LeaseClaim
    <2> DEFINE row == Claimed(rows[r], token)
    <2> HIDE DEF token
    <2>4. /\ row \in Row /\ row.status = "leased" /\ row.attempts = rows[r].attempts + 1
          /\ row.message = rows[r].message /\ row.lane = rows[r].lane
          /\ row.parent = rows[r].parent /\ row.sound = rows[r].sound
        BY <2>1, <2>2, ClaimedFacts
    <2> HIDE DEF row
    <2>5. row.attempts >= rows[r].attempts
        BY <2>2, <2>4
    <2>6. rows' = [rows EXCEPT ![r] = row]
        BY <2>3 DEF row
    <2>7. RowRewritten
        BY <2>1, <2>3, <2>4, <2>5, <2>6 DEF RowRewritten
    <2>8. QED
        BY <2>7
<1>3. QED
    BY <1>1, <1>2

LEMMA DeliveryStep ==
    ASSUME IInv, NEW w \in Workers, Deliver(w) \/ Renew(w) \/ Settle(w)
    PROVE  TableStep
<1> DEFINE r == work[w].row
<1>1. work[w] \in Delivery /\ w \in Working
    BY WorkPhase DEF Deliver, DeliverDamaged, DeliverHandler, Renew, Settle,
                     Ack, Retry, Handoff, FailWithoutHandoff, IInv
<1>2. CASE ~Holds(w)
    BY <1>2 DEF Deliver, DeliverDamaged, DeliverHandler, Renew, Settle, Ack, Retry,
                Handoff, FailWithoutHandoff, TableStep, TableKept
<1>3. CASE Holds(w)
    <2>1. r \in Live /\ rows[r] \in Row /\ r \in Present /\ r \in RowIds
        BY <1>1, <1>3, HeldRow DEF IInv, Live, Present
    <2>2. /\ work[w].lane = rows[r].lane
          /\ (~work[w].sound => ~rows[r].sound)
          /\ (work[w].phase # "selected" => work[w].attempts <= rows[r].attempts)
        BY <1>1, <2>1 DEF IInv, CopyAgrees
    <2>3. rows[r].attempts \in Nat /\ rows[r].attempts >= rows[r].attempts
        BY <2>1 DEF Row
    <2>4. CASE DeliverDamaged(w)
        BY <1>3, <2>1, <2>2, <2>3, <2>4, ReleasedFacts
           DEF DeliverDamaged, TableStep, RowRewritten, Statuses
    <2>5. CASE DeliverHandler(w)
        BY <2>5 DEF DeliverHandler, TableStep, TableKept
    <2>6. CASE Renew(w)
        <3>1. rows[r].status \in {"pending", "leased"}
            BY <2>1 DEF Live
        <3>2. QED
            BY <1>3, <2>1, <2>3, <2>6, <3>1, DueFacts, ZenonT(60) DEF Renew, TableStep, RowRewritten
    <2>7. CASE Ack(w)
        <3> DEFINE row == Released(rows[r], "complete")
        <3>1. PICK gone \in SUBSET {s \in RowIds : rows[s].status = "complete"} :
                 rows' = [s \in RowIds |-> IF s \in gone THEN Absent
                                          ELSE IF s = r THEN row ELSE rows[s]]
            BY <1>3, <2>7 DEF Ack
        <3>2. acked' = acked \cup {rows[r].message} /\ UNCHANGED <<accepted, spent>>
            BY <1>3, <2>7 DEF Ack
        <3>3. /\ row \in Row /\ row.status = "complete" /\ row.attempts = rows[r].attempts
              /\ row.message = rows[r].message /\ row.lane = rows[r].lane
              /\ row.parent = rows[r].parent /\ row.sound = rows[r].sound
            BY <2>1, ReleasedFacts DEF Statuses
        <3> HIDE DEF row
        <3>4. RowCompleted
            BY <2>1, <3>1, <3>2, <3>3 DEF RowCompleted
        <3>5. QED
            BY <3>4 DEF TableStep
    <2>8. CASE Retry(w)
        BY <1>3, <2>1, <2>3, <2>8, ReleasedFacts
           DEF Retry, TableStep, RowRewritten, Statuses
    <2>9. CASE Handoff(w)
        <3> DEFINE lane == NextLane[work[w].lane]
                   new  == CHOOSE id \in HandoffIds \ spent : TRUE
                   row  == Released(rows[r], "failed")
                   copy == NewRow(rows[r].message, lane, r, rows[r].sound)
        <3>1. ~HandoffKeyTaken(r, lane)
            BY <2>1 DEF IInv, HandoffEarned, HandoffKeyTaken, Live
        <3>2. /\ spent # HandoffIds
              /\ rows' = [rows EXCEPT ![r] = row, ![new] = copy]
              /\ spent' = spent \cup {new}
              /\ UNCHANGED <<accepted, acked>>
            BY <1>3, <2>9, <3>1 DEF Handoff
        <3>3. new \in HandoffIds \ spent
            BY <3>2 DEF IInv, TypeOK
        <3>4. /\ row \in Row /\ row.status = "failed" /\ row.attempts = rows[r].attempts
              /\ row.message = rows[r].message /\ row.lane = rows[r].lane
              /\ row.parent = rows[r].parent /\ row.sound = rows[r].sound
            BY <2>1, ReleasedFacts DEF Statuses
        <3>5. work[w].lane # "quarantine" /\ lane \in Lanes
            BY <2>9, <1>1 DEF Handoff, NextLane, Lanes, Delivery
        <3>6. /\ copy \in Row /\ copy.status = "pending" /\ copy.lane = lane
              /\ copy.message = rows[r].message /\ copy.parent = r
            BY <2>1, <3>5, NewRowFacts DEF Row
        <3>7. row.attempts >= MaxAttempts[row.lane]
            <4>1. /\ work[w].attempts >= MaxAttempts[work[w].lane]
                  /\ work[w].attempts <= rows[r].attempts
                BY <2>9, <2>2 DEF Handoff, Exhausted
            <4>2. work[w].attempts \in Nat /\ MaxAttempts[work[w].lane] \in Nat
                BY <1>1, QueueAssumption DEF Delivery
            <4>3. QED
                BY <4>1, <4>2, <2>2, <2>3, <3>4
        <3> HIDE DEF new, row, copy, lane
        <3>8. row.lane # "quarantine" /\ copy.lane = NextLane[row.lane]
            BY <2>2, <3>4, <3>5, <3>6 DEF lane
        <3>9. RowHandedOff
            BY <2>1, <3>2, <3>3, <3>4, <3>6, <3>7, <3>8 DEF RowHandedOff
        <3>10. QED
            BY <3>9 DEF TableStep
    <2>10. CASE FailWithoutHandoff(w)
        <3> DEFINE row == Released(rows[r], "failed")
        <3>1. /\ rows' = [rows EXCEPT ![r] = row] /\ UNCHANGED <<accepted, spent, acked>>
              /\ work[w].lane = "quarantine"
            BY <1>3, <2>10 DEF FailWithoutHandoff
        <3>2. /\ row \in Row /\ row.status = "failed" /\ row.attempts = rows[r].attempts
              /\ row.message = rows[r].message /\ row.lane = rows[r].lane
              /\ row.parent = rows[r].parent /\ row.sound = rows[r].sound
            BY <2>1, ReleasedFacts DEF Statuses
        <3> HIDE DEF row
        <3>3. RowRewritten
            BY <2>1, <2>2, <2>3, <3>1, <3>2 DEF RowRewritten
        <3>4. QED
            BY <3>3 DEF TableStep
    <2>11. QED
        BY <2>4, <2>5, <2>6, <2>7, <2>8, <2>9, <2>10 DEF Deliver, Settle
<1>4. QED
    BY <1>2, <1>3

LEMMA FaultStep ==
    ASSUME IInv,
           \/ \E w \in Workers : Stall(w)
           \/ \E r \in RowIds : Elapse(r) \/ Damage(r)
    PROVE  RowRewritten
<1>1. ASSUME NEW r \in Live, NEW due \in BOOLEAN,
             rows' = [rows EXCEPT ![r].due = due],
             UNCHANGED <<accepted, spent, acked>>
      PROVE  RowRewritten
    <2>1. r \in RowIds /\ rows[r] \in Row /\ rows[r].status \in {"pending", "leased"}
        BY PresentRow DEF Live, IInv
    <2>2. rows[r].attempts >= rows[r].attempts
        BY <2>1 DEF Row
    <2>3. QED
        BY <1>1, <2>1, <2>2, DueFacts, ZenonT(60) DEF RowRewritten
<1>2. ASSUME NEW w \in Workers, Stall(w) PROVE RowRewritten
    BY <1>1, <1>2, WorkingCopy, HeldRow DEF Stall, IInv
<1>3. ASSUME NEW r \in RowIds, Elapse(r) PROVE RowRewritten
    BY <1>1, <1>3 DEF Elapse
<1>4. ASSUME NEW r \in RowIds, Damage(r) PROVE RowRewritten
    <2>1. r \in RowIds /\ rows[r] \in Row /\ rows[r].status \in {"pending", "leased"}
        BY <1>4, PresentRow DEF Damage, Live, IInv
    <2>2. rows[r].attempts >= rows[r].attempts
        BY <2>1 DEF Row
    <2>3. QED
        BY <1>4, <2>1, <2>2, DamagedFacts DEF Damage, RowRewritten
<1>5. QED
    BY <1>2, <1>3, <1>4

LEMMA StepKinds == IInv /\ [Next]_vars => TableStep
<1> SUFFICES ASSUME IInv, [Next]_vars PROVE TableStep
    OBVIOUS
<1>1. CASE UNCHANGED vars
    BY <1>1 DEF vars, TableStep, TableKept
<1>2. ASSUME NEW p \in Producers,
             \/ \E batch \in SUBSET Messages : EnqueueCheck(p, batch)
             \/ EnqueueInsert(p)
             \/ EnqueueAbandon(p)
      PROVE  TableStep
    BY <1>2, InsertStep DEF EnqueueCheck, EnqueueAbandon, TableStep, TableKept
<1>3. ASSUME NEW w \in Workers,
             \/ Start(w) \/ Close(w) \/ WorkerError(w) \/ Kill(w)
             \/ \E r \in RowIds : LeaseSelect(w, r)
      PROVE  TableStep
    BY <1>3 DEF Start, Close, WorkerError, Kill, LeaseSelect, TableStep, TableKept
<1>4. QED
    BY <1>1, <1>2, <1>3, ClaimStep, DeliveryStep, FaultStep
       DEF Next, WorkerStep, TableStep

-----------------------------------------------------------------------------
(* Each kind of step preserves the table invariants. *)

TableInv == RowsKnown /\ OneLiveRow /\ HandoffEarned /\ NoBodyLost

LEMMA KeptTable ==
    ASSUME IInv, TableKept PROVE TableInv'
BY DEF IInv, TableKept, TableInv, RowsKnown, OneLiveRow, HandoffEarned, NoBodyLost,
       Parked, Live, Present

LEMMA InsertTable ==
    ASSUME IInv, RowsInserted PROVE TableInv'
<1>1. PICK S \in SUBSET Messages :
        /\ S \cap accepted = {}
        /\ rows' = [r \in RowIds |-> IF r \in S THEN NewRow(r, "primary", r, TRUE)
                                               ELSE rows[r]]
        /\ accepted' = accepted \cup S
        /\ UNCHANGED <<spent, acked>>
    BY DEF RowsInserted
<1>2. \A r \in S : /\ r \in RowIds /\ r \notin Present
                   /\ rows'[r].status = "pending" /\ rows'[r].message = r
                   /\ rows'[r].lane = "primary" /\ rows'[r].parent = r
    <2>1. SUFFICES ASSUME NEW r \in S
                   PROVE  /\ r \in RowIds /\ r \notin Present
                          /\ rows'[r].status = "pending" /\ rows'[r].message = r
                          /\ rows'[r].lane = "primary" /\ rows'[r].parent = r
        OBVIOUS
    <2>2. r \in Messages /\ r \in RowIds /\ r \notin HandoffIds /\ r \notin accepted
        BY <1>1, QueueAssumption DEF RowIds
    <2>3. r \notin Present
        BY <2>2 DEF IInv, TypeOK, RowsKnown
    <2>4. rows'[r] = NewRow(r, "primary", r, TRUE)
        BY <1>1, <2>2
    <2>5. QED
        BY <2>2, <2>3, <2>4 DEF NewRow
<1>3. \A r \in RowIds \ S : rows'[r] = rows[r]
    BY <1>1
<1>4. Live' = Live \cup S /\ Present' = Present \cup S
    <2>1. \A r \in RowIds : r \in Live' <=> r \in Live \cup S
        BY <1>2, <1>3 DEF Live
    <2>2. \A r \in RowIds : r \in Present' <=> r \in Present \cup S
        BY <1>2, <1>3 DEF Present
    <2>3. Live' \subseteq RowIds /\ Present' \subseteq RowIds /\ S \subseteq RowIds
        BY <1>2 DEF Live, Present
    <2>4. Live \subseteq RowIds /\ Present \subseteq RowIds
        BY DEF Live, Present
    <2>5. QED
        BY <2>1, <2>2, <2>3, <2>4
<1>5. \A r \in Present : rows'[r] = rows[r]
    BY <1>2, <1>3 DEF Present
<1>6. Live \subseteq Present /\ Present \subseteq RowIds
    BY DEF Live, Present
<1>7. \A r \in Present : rows[r] \in Row
    BY PresentRow DEF Present, IInv
<1> HIDE DEF Live, Present
<1>8. RowsKnown'
    <2>1. \A r \in Present' : rows'[r].message \in accepted' /\ r \in accepted' \cup spent'
        <3>1. ASSUME NEW r \in S
              PROVE  rows'[r].message \in accepted' /\ r \in accepted' \cup spent'
            BY <1>1, <1>2
        <3>2. ASSUME NEW r \in Present
              PROVE  rows'[r].message \in accepted' /\ r \in accepted' \cup spent'
            <4>1. rows[r].message \in accepted /\ r \in accepted \cup spent
                BY <3>2 DEF IInv, RowsKnown
            <4>2. rows'[r] = rows[r]
                BY <1>5, <3>2
            <4>3. accepted' = accepted \cup S /\ spent' = spent
                BY <1>1
            <4>4. QED
                BY <4>1, <4>2, <4>3
        <3>3. QED
            BY <1>4, <3>1, <3>2
    <2>2. QED
        BY <2>1 DEF RowsKnown
<1>9. OneLiveRow'
    <2>1. \A r \in Live : rows'[r] = rows[r] /\ rows[r].message \in accepted
        BY <1>5, <1>6 DEF IInv, RowsKnown
    <2>2. \A r \in S : rows'[r].message = r /\ r \notin accepted
        BY <1>1, <1>2
    <2>3. \A r, s \in Live \cup S : rows'[r].message = rows'[s].message => r = s
        BY <2>1, <2>2 DEF IInv, OneLiveRow
    <2>4. QED
        BY <1>4, <2>3 DEF OneLiveRow
<1>10. HandoffEarned'
    <2>1. SUFFICES ASSUME NEW r \in Present', rows'[r].parent # r
                   PROVE  LET p == rows'[rows'[r].parent]
                          IN /\ p.status = "failed"
                             /\ p.message = rows'[r].message
                             /\ p.lane # "quarantine" /\ NextLane[p.lane] = rows'[r].lane
                             /\ p.attempts >= MaxAttempts[p.lane]
        BY DEF HandoffEarned
    <2>2. r \in Present /\ rows'[r] = rows[r]
        BY <1>2, <1>4, <1>5, <2>1
    <2>3. rows[r].parent \in RowIds /\ rows[rows[r].parent].status = "failed"
        BY <1>7, <2>1, <2>2 DEF IInv, HandoffEarned, Row
    <2>4. rows'[rows[r].parent] = rows[rows[r].parent]
        BY <1>5, <2>3 DEF Present
    <2>5. QED
        BY <2>1, <2>2, <2>4 DEF IInv, HandoffEarned
<1>11. NoBodyLost'
    <2>1. SUFFICES ASSUME NEW m \in accepted'
                   PROVE  (\E r \in Live' : rows'[r].message = m) \/ m \in acked' \/ Parked(m)'
        BY DEF NoBodyLost
    <2>2. CASE m \in S
        BY <1>2, <1>4, <2>2
    <2>3. CASE m \in accepted
        <3>1. CASE \E r \in Live : rows[r].message = m
            BY <1>4, <1>5, <1>6, <3>1
        <3>2. CASE m \in acked
            BY <1>1, <3>2
        <3>3. CASE Parked(m)
            BY <1>4, <1>5, <3>3 DEF Parked
        <3>4. QED
            BY <2>3, <3>1, <3>2, <3>3 DEF IInv, NoBodyLost
    <2>4. QED
        BY <1>1, <2>1, <2>2, <2>3
<1>12. QED
    BY <1>8, <1>9, <1>10, <1>11 DEF TableInv

LEMMA RewriteTable ==
    ASSUME IInv, RowRewritten PROVE TableInv'
<1>1. PICK r \in Live, row \in Row :
        /\ rows' = [rows EXCEPT ![r] = row]
        /\ row.message = rows[r].message /\ row.lane = rows[r].lane
        /\ row.parent = rows[r].parent /\ row.attempts >= rows[r].attempts
        /\ row.sound => rows[r].sound
        /\ \/ row.status \in {"pending", "leased"}
           \/ row.status = "failed" /\ (row.lane = "quarantine" \/ ~row.sound)
        /\ UNCHANGED <<accepted, spent, acked>>
    BY DEF RowRewritten
<1>2. r \in RowIds /\ r \in Present /\ rows[r].status \in {"pending", "leased"}
    BY DEF Live, Present
<1>3. rows'[r] = row /\ \A s \in RowIds \ {r} : rows'[s] = rows[s]
    BY <1>1, <1>2 DEF IInv, TypeOK
<1>4. Present' = Present /\ Live' \subseteq Live
    BY <1>1, <1>2, <1>3 DEF Live, Present
<1>5. \A s \in Present : rows[s] \in Row /\ s \in RowIds
    BY PresentRow DEF Present, IInv
<1>6. \A s \in Present : /\ rows'[s].message = rows[s].message
                         /\ rows'[s].lane = rows[s].lane
                         /\ rows'[s].parent = rows[s].parent
    BY <1>1, <1>3, <1>5
<1>7. RowsKnown'
    BY <1>1, <1>4, <1>6 DEF IInv, RowsKnown
<1>8. OneLiveRow'
    BY <1>4, <1>6 DEF IInv, OneLiveRow, Live, Present
<1>9. HandoffEarned'
    <2>1. ASSUME NEW s \in Present, rows[s].parent # s
          PROVE  rows[s].parent \in RowIds \ {r}
        BY <1>2, <1>5, <2>1 DEF IInv, HandoffEarned, Row
    <2>2. QED
        BY <1>3, <1>4, <1>6, <2>1 DEF IInv, HandoffEarned
<1>10. NoBodyLost'
    <2>1. SUFFICES ASSUME NEW m \in accepted
                   PROVE  (\E s \in Live' : rows'[s].message = m) \/ m \in acked' \/ Parked(m)'
        BY <1>1 DEF NoBodyLost
    <2>2. CASE rows[r].message = m
        <3>1. CASE row.status \in {"pending", "leased"}
            BY <1>1, <1>2, <1>3, <2>2, <3>1 DEF Live
        <3>2. CASE row.status = "failed" /\ (row.lane = "quarantine" \/ ~row.sound)
            BY <1>1, <1>2, <1>3, <1>4, <2>2, <3>2 DEF Parked
        <3>3. QED
            BY <1>1, <3>1, <3>2
    <2>3. CASE rows[r].message # m
        <3>1. \A s \in Present \ {r} : rows'[s] = rows[s]
            BY <1>3, <1>5
        <3>2. CASE \E s \in Live : rows[s].message = m
            BY <1>3, <2>3, <3>2 DEF Live
        <3>3. CASE m \in acked
            BY <1>1, <3>3
        <3>4. CASE Parked(m)
            BY <1>2, <1>4, <3>1, <3>4 DEF Parked
        <3>5. QED
            BY <3>2, <3>3, <3>4 DEF IInv, NoBodyLost
    <2>4. QED
        BY <2>2, <2>3
<1>11. QED
    BY <1>7, <1>8, <1>9, <1>10 DEF TableInv

LEMMA CompleteTable ==
    ASSUME IInv, RowCompleted PROVE TableInv'
<1>1. PICK r \in Live, gone \in SUBSET RowIds, row \in Row :
        /\ \A s \in gone : rows[s].status = "complete"
        /\ row.status = "complete" /\ row.attempts = rows[r].attempts
        /\ row.message = rows[r].message /\ row.lane = rows[r].lane
        /\ row.parent = rows[r].parent /\ row.sound = rows[r].sound
        /\ rows' = [s \in RowIds |-> IF s \in gone THEN Absent
                                     ELSE IF s = r THEN row ELSE rows[s]]
        /\ acked' = acked \cup {rows[r].message}
        /\ UNCHANGED <<accepted, spent>>
    BY DEF RowCompleted
<1>2. r \in RowIds /\ r \in Present /\ rows[r].status \in {"pending", "leased"}
      /\ r \notin gone
    BY <1>1 DEF Live, Present
<1>3. /\ rows'[r] = row
      /\ \A s \in RowIds \ (gone \cup {r}) : rows'[s] = rows[s]
      /\ \A s \in gone : rows'[s] = Absent
    BY <1>1, <1>2
<1>4. /\ acked' = acked \cup {rows[r].message} /\ accepted' = accepted /\ spent' = spent
    BY <1>1
<1>5. Present' = Present \ gone /\ Live' = Live \ {r}
    <2>1. \A s \in RowIds : s \in Present' <=> s \in Present \ gone
        BY <1>1, <1>2, <1>3 DEF Present, Absent
    <2>2. \A s \in RowIds : s \in Live' <=> s \in Live \ {r}
        BY <1>1, <1>2, <1>3 DEF Live, Absent
    <2>3. QED
        BY <2>1, <2>2 DEF Present, Live
<1>6. \A s \in Present' : /\ s \in Present /\ s \in RowIds
                          /\ rows'[s].message = rows[s].message
                          /\ rows'[s].lane = rows[s].lane
                          /\ rows'[s].parent = rows[s].parent
    BY <1>1, <1>2, <1>3, <1>5 DEF Present
<1>7. \A s \in RowIds : rows[s].status = "failed" => rows'[s] = rows[s] /\ s \in Present'
    BY <1>1, <1>2, <1>3, <1>5 DEF Present
<1>8. \A s \in Present : rows[s] \in Row /\ s \in RowIds
    BY PresentRow DEF Present, IInv
<1>9. \A s \in Live' : s \in Live /\ s \in Present /\ rows'[s] = rows[s]
    BY <1>1, <1>3, <1>5 DEF Live, Present
<1> HIDE DEF Live, Present
<1>10. RowsKnown'
    BY <1>4, <1>6 DEF IInv, RowsKnown
<1>11. OneLiveRow'
    BY <1>9 DEF IInv, OneLiveRow
<1>12. HandoffEarned'
    <2>1. ASSUME NEW s \in Present', rows'[s].parent # s
          PROVE  /\ rows[s].parent \in RowIds
                 /\ rows[rows[s].parent].status = "failed"
                 /\ rows'[rows'[s].parent] = rows[rows[s].parent]
        BY <1>6, <1>7, <1>8, <2>1 DEF IInv, HandoffEarned, Row
    <2>2. QED
        BY <1>6, <2>1 DEF IInv, HandoffEarned
<1>13. NoBodyLost'
    <2>1. SUFFICES ASSUME NEW m \in accepted
                   PROVE  (\E s \in Live' : rows'[s].message = m) \/ m \in acked' \/ Parked(m)'
        BY <1>4 DEF NoBodyLost
    <2>2. CASE \E s \in Live : rows[s].message = m
        BY <1>3, <1>4, <1>5, <1>9, <2>2
    <2>3. CASE m \in acked
        BY <1>4, <2>3
    <2>4. CASE Parked(m)
        <3>1. \A s \in Present : rows[s].status = "failed" =>
                  s \in Present' /\ rows'[s] = rows[s]
            BY <1>7, <1>8
        <3>2. QED
            BY <2>4, <3>1 DEF Parked
    <2>5. QED
        BY <2>2, <2>3, <2>4 DEF IInv, NoBodyLost
<1>14. QED
    BY <1>10, <1>11, <1>12, <1>13 DEF TableInv

LEMMA HandoffTable ==
    ASSUME IInv, RowHandedOff PROVE TableInv'
<1>1. PICK r \in Live, new \in HandoffIds \ spent, row \in Row, copy \in Row :
        /\ row.status = "failed" /\ row.attempts = rows[r].attempts
        /\ row.message = rows[r].message /\ row.lane = rows[r].lane
        /\ row.parent = rows[r].parent /\ row.sound = rows[r].sound
        /\ row.lane # "quarantine" /\ row.attempts >= MaxAttempts[row.lane]
        /\ copy.status = "pending" /\ copy.message = rows[r].message
        /\ copy.lane = NextLane[row.lane] /\ copy.parent = r
        /\ rows' = [rows EXCEPT ![r] = row, ![new] = copy]
        /\ spent' = spent \cup {new}
        /\ UNCHANGED <<accepted, acked>>
    BY DEF RowHandedOff
<1>2. r \in RowIds /\ r \in Present /\ rows[r].status \in {"pending", "leased"}
    BY DEF Live, Present
<1>3. new \in RowIds /\ new \notin Present /\ new # r
    BY <1>1, <1>2, QueueAssumption DEF RowIds, IInv, RowsKnown, TypeOK
<1>4. /\ rows'[r] = row /\ rows'[new] = copy
      /\ \A s \in RowIds \ {r, new} : rows'[s] = rows[s]
    BY <1>1, <1>2, <1>3 DEF IInv, TypeOK
<1>5. accepted' = accepted /\ acked' = acked /\ spent' = spent \cup {new}
    BY <1>1
<1>6. Present' = Present \cup {new} /\ Live' = (Live \ {r}) \cup {new}
    <2>1. \A s \in RowIds : s \in Present' <=> s \in Present \cup {new}
        BY <1>1, <1>2, <1>3, <1>4, ZenonT(60) DEF Present
    <2>2. \A s \in RowIds : s \in Live' <=> s \in (Live \ {r}) \cup {new}
        BY <1>1, <1>2, <1>3, <1>4 DEF Live
    <2>3. QED
        BY <1>3, <2>1, <2>2 DEF Present, Live
<1>7. \A s \in Present : rows[s] \in Row /\ s \in RowIds /\ s # new
    BY <1>3, PresentRow DEF Present, IInv
<1>8. \A s \in Present : /\ rows'[s].message = rows[s].message
                         /\ rows'[s].lane = rows[s].lane
                         /\ rows'[s].parent = rows[s].parent
                         /\ rows'[s].attempts = rows[s].attempts
                         /\ rows[s].status = "failed" => rows'[s] = rows[s]
    BY <1>1, <1>2, <1>4, <1>7
<1>9. Live \subseteq Present
    BY DEF Live, Present
<1> HIDE DEF Live, Present
<1>10. RowsKnown'
    <2>1. rows'[new].message \in accepted
        BY <1>1, <1>2, <1>4 DEF IInv, RowsKnown
    <2>2. \A s \in Present : rows'[s].message \in accepted /\ s \in accepted \cup spent
        BY <1>8 DEF IInv, RowsKnown
    <2>3. QED
        BY <1>5, <1>6, <2>1, <2>2 DEF RowsKnown
<1>11. OneLiveRow'
    <2>1. \A s \in Live \ {r} : /\ rows'[s].message = rows[s].message
                               /\ rows[s].message # rows[r].message
        BY <1>8, <1>9 DEF IInv, OneLiveRow
    <2>2. rows'[new].message = rows[r].message
        BY <1>1, <1>4
    <2>3. QED
        BY <1>6, <2>1, <2>2 DEF IInv, OneLiveRow
<1>12. HandoffEarned'
    <2>1. ASSUME NEW s \in Present, rows[s].parent # s
          PROVE  /\ rows[s].parent \in Present
                 /\ rows'[rows'[s].parent] = rows[rows[s].parent]
        <3>1. rows[s].parent \in RowIds /\ rows[rows[s].parent].status = "failed"
            BY <1>7, <2>1 DEF IInv, HandoffEarned, Row
        <3>2. rows[s].parent \in Present
            BY <3>1 DEF Present
        <3>3. QED
            BY <1>8, <3>1, <3>2
    <2>2. rows'[new].parent = r /\ rows'[new].message = rows'[r].message
          /\ rows'[new].lane = NextLane[rows'[r].lane]
        BY <1>1, <1>4
    <2>3. /\ rows'[r].status = "failed" /\ rows'[r].lane # "quarantine"
          /\ rows'[r].attempts >= MaxAttempts[rows'[r].lane]
        BY <1>1, <1>4
    <2>4. ASSUME NEW s \in Present', rows'[s].parent # s
          PROVE  LET p == rows'[rows'[s].parent]
                 IN /\ p.status = "failed"
                    /\ p.message = rows'[s].message
                    /\ p.lane # "quarantine" /\ NextLane[p.lane] = rows'[s].lane
                    /\ p.attempts >= MaxAttempts[p.lane]
        <3>1. CASE s = new
            BY <2>2, <2>3, <3>1
        <3>2. CASE s \in Present
            BY <1>8, <2>1, <2>4, <3>2 DEF IInv, HandoffEarned
        <3>3. QED
            BY <1>6, <3>1, <3>2
    <2>5. QED
        BY <2>4 DEF HandoffEarned
<1>13. NoBodyLost'
    <2>1. SUFFICES ASSUME NEW m \in accepted
                   PROVE  (\E s \in Live' : rows'[s].message = m) \/ m \in acked' \/ Parked(m)'
        BY <1>5 DEF NoBodyLost
    <2>2. CASE \E s \in Live : rows[s].message = m
        <3>1. PICK s \in Live : rows[s].message = m
            BY <2>2
        <3>2. CASE s = r
            BY <1>1, <1>4, <1>6, <3>1, <3>2
        <3>3. CASE s # r
            BY <1>6, <1>8, <1>9, <3>1, <3>3
        <3>4. QED
            BY <3>2, <3>3
    <2>3. CASE m \in acked
        BY <1>5, <2>3
    <2>4. CASE Parked(m)
        BY <1>6, <1>8, <2>4 DEF Parked
    <2>5. QED
        BY <2>2, <2>3, <2>4 DEF IInv, NoBodyLost
<1>14. QED
    BY <1>10, <1>11, <1>12, <1>13 DEF TableInv

LEMMA TableInvStep == IInv /\ [Next]_vars => TableInv'
BY StepKinds, KeptTable, InsertTable, RewriteTable, CompleteTable, HandoffTable
   DEF TableStep

-----------------------------------------------------------------------------
(* The producers' batches and the loops' copies. *)

LEMMA OffersStep == IInv /\ [Next]_vars => OffersFresh'
<1> SUFFICES ASSUME IInv, [Next]_vars PROVE OffersFresh'
    OBVIOUS
<1> USE DEF IInv, OffersFresh
<1>1. ASSUME NEW p \in Producers, NEW batch \in SUBSET Messages, EnqueueCheck(p, batch)
      PROVE  OffersFresh'
    <2>1. /\ accepted' = accepted
          /\ offers'[p] = batch
          /\ \A q \in Producers \ {p} : offers'[q] = offers[q]
        BY <1>1 DEF EnqueueCheck, TypeOK
    <2>2. batch \cap accepted = {} /\ \A q \in Producers : batch \cap offers[q] = {}
        BY <1>1 DEF EnqueueCheck
    <2>3. QED
        BY <2>1, <2>2
<1>2. ASSUME NEW p \in Producers, EnqueueInsert(p) PROVE OffersFresh'
    <2>1. /\ accepted' = accepted \cup offers[p]
          /\ offers'[p] = {}
          /\ \A q \in Producers \ {p} : offers'[q] = offers[q]
        BY <1>2 DEF EnqueueInsert, TypeOK
    <2>2. QED
        BY <2>1
<1>3. ASSUME NEW p \in Producers, EnqueueAbandon(p) PROVE OffersFresh'
    <2>1. /\ accepted' = accepted
          /\ offers'[p] = {}
          /\ \A q \in Producers \ {p} : offers'[q] = offers[q]
        BY <1>3 DEF EnqueueAbandon, TypeOK
    <2>2. QED
        BY <2>1
<1>4. CASE UNCHANGED <<accepted, offers>>
    BY <1>4
<1>5. ASSUME NEW w \in Workers,
             WorkerStep(w) \/ Renew(w) \/ Close(w) \/ Stall(w) \/ WorkerError(w) \/ Kill(w)
      PROVE  UNCHANGED <<accepted, offers>>
    BY <1>5 DEF WorkerStep, Start, Close, LeaseSelect, LeaseClaim, Deliver, DeliverDamaged,
                DeliverHandler, Renew, Settle, Ack, Retry, Handoff, FailWithoutHandoff,
                Stall, WorkerError, Kill
<1>6. ASSUME NEW r \in RowIds, Elapse(r) \/ Damage(r)
      PROVE  UNCHANGED <<accepted, offers>>
    BY <1>6 DEF Elapse, Damage
<1>7. CASE UNCHANGED vars
    BY <1>4, <1>7 DEF vars
<1>8. QED
    BY <1>1, <1>2, <1>3, <1>4, <1>5, <1>6, <1>7 DEF Next

\* What a step does to a row that was once inserted: it stays what it is, its
\* attempts only grow and a damaged body stays damaged; a row that left the
\* table does not come back.
RowsMonotone ==
    /\ accepted \subseteq accepted' /\ spent \subseteq spent'
    /\ \A r \in accepted \cup spent :
          r \in Present' => /\ r \in Present
                            /\ rows'[r].lane = rows[r].lane
                            /\ rows'[r].attempts >= rows[r].attempts
                            /\ (~rows[r].sound => ~rows'[r].sound)

LEMMA Monotone == IInv /\ [Next]_vars => RowsMonotone
<1> SUFFICES ASSUME IInv, [Next]_vars PROVE RowsMonotone
    OBVIOUS
<1>1. \A r \in Present : r \in RowIds /\ rows[r] \in Row /\ rows[r].attempts \in Nat
    BY PresentRow DEF Present, Row, IInv
<1>2. \A r \in accepted \cup spent : r \in RowIds
    BY DEF IInv, TypeOK, RowIds
<1>3. CASE TableKept
    BY <1>1, <1>3 DEF TableKept, RowsMonotone, Present
<1>4. CASE RowsInserted
    <2>1. PICK S \in SUBSET Messages :
            /\ S \cap accepted = {}
            /\ rows' = [r \in RowIds |-> IF r \in S THEN NewRow(r, "primary", r, TRUE)
                                                   ELSE rows[r]]
            /\ accepted' = accepted \cup S
            /\ UNCHANGED <<spent, acked>>
        BY <1>4 DEF RowsInserted
    <2>2. accepted' = accepted \cup S /\ spent' = spent
        BY <2>1
    <2>3. \A r \in accepted \cup spent : r \notin S
        BY <2>1, QueueAssumption DEF IInv, TypeOK
    <2>4. \A r \in accepted \cup spent : rows'[r] = rows[r]
        BY <1>2, <2>1, <2>3
    <2>5. \A r \in accepted \cup spent : r \in Present' => r \in Present
        BY <1>2, <2>4 DEF Present
    <2>6. QED
        BY <1>1, <2>2, <2>4, <2>5 DEF RowsMonotone
<1>5. CASE RowRewritten
    <2>1. PICK r \in Live, row \in Row :
            /\ rows' = [rows EXCEPT ![r] = row]
            /\ row.lane = rows[r].lane
            /\ row.attempts >= rows[r].attempts
            /\ row.sound => rows[r].sound
            /\ UNCHANGED <<accepted, spent>>
        BY <1>5 DEF RowRewritten
    <2>2. r \in Present /\ r \in RowIds
        BY DEF Live, Present
    <2>3. rows'[r] = row /\ \A s \in RowIds \ {r} : rows'[s] = rows[s]
        BY <2>1, <2>2 DEF IInv, TypeOK
    <2>4. \A s \in RowIds : s \in Present' => s \in Present
        BY <2>2, <2>3 DEF Present
    <2>5. accepted' = accepted /\ spent' = spent
        BY <2>1
    <2>6. QED
        BY <1>1, <1>2, <2>1, <2>3, <2>4, <2>5 DEF RowsMonotone
<1>6. CASE RowCompleted
    <2>1. PICK r \in Live, gone \in SUBSET RowIds, row \in Row :
            /\ row.attempts = rows[r].attempts /\ row.lane = rows[r].lane
            /\ row.sound = rows[r].sound
            /\ rows' = [s \in RowIds |-> IF s \in gone THEN Absent
                                         ELSE IF s = r THEN row ELSE rows[s]]
            /\ UNCHANGED <<accepted, spent>>
        BY <1>6 DEF RowCompleted
    <2>2. r \in Present /\ r \in RowIds
        BY DEF Live, Present
    <2>3. \A s \in RowIds : \/ rows'[s] = Absent
                            \/ s = r /\ rows'[s] = row
                            \/ rows'[s] = rows[s]
        BY <2>1
    <2>4. \A s \in RowIds : s \in Present' => /\ s \in Present
                                              /\ (s = r /\ rows'[s] = row) \/ rows'[s] = rows[s]
        BY <2>2, <2>3 DEF Present, Absent
    <2>5. accepted' = accepted /\ spent' = spent
        BY <2>1
    <2>6. \A s \in accepted \cup spent : s \in Present' =>
              rows'[s].lane = rows[s].lane /\ rows'[s].attempts >= rows[s].attempts
        BY <1>1, <1>2, <2>1, <2>4
    <2>7. \A s \in accepted \cup spent : s \in Present' => rows'[s].sound = rows[s].sound
        BY <1>2, <2>1, <2>4
    <2>8. \A s \in accepted \cup spent : s \in Present' => s \in Present
        BY <1>2, <2>4
    <2>9. QED
        BY <2>5, <2>6, <2>7, <2>8 DEF RowsMonotone
<1>7. CASE RowHandedOff
    <2>1. PICK r \in Live, new \in HandoffIds \ spent, row \in Row, copy \in Row :
            /\ row.status = "failed" /\ row.attempts = rows[r].attempts
            /\ row.message = rows[r].message /\ row.lane = rows[r].lane
            /\ row.parent = rows[r].parent /\ row.sound = rows[r].sound
            /\ row.lane # "quarantine" /\ row.attempts >= MaxAttempts[row.lane]
            /\ copy.status = "pending" /\ copy.message = rows[r].message
            /\ copy.lane = NextLane[row.lane] /\ copy.parent = r
            /\ rows' = [rows EXCEPT ![r] = row, ![new] = copy]
            /\ spent' = spent \cup {new}
            /\ UNCHANGED <<accepted, acked>>
        BY <1>7 DEF RowHandedOff
    <2>2. r \in Present /\ r \in RowIds
        BY DEF Live, Present
    <2>3. \A s \in accepted \cup spent : s # new
        BY QueueAssumption DEF IInv, TypeOK
    <2>4. \A s \in accepted \cup spent : (s = r /\ rows'[s] = row) \/ rows'[s] = rows[s]
        BY <1>2, <2>1, <2>3 DEF IInv, TypeOK
    <2>5. \A s \in accepted \cup spent : s \in Present' => s \in Present
        BY <1>2, <2>2, <2>4 DEF Present
    <2>6. accepted' = accepted /\ spent' = spent \cup {new}
        BY <2>1
    <2>7. \A s \in accepted \cup spent : s \in Present' =>
              rows'[s].lane = rows[s].lane /\ rows'[s].attempts >= rows[s].attempts
        <3>1. row.lane = rows[r].lane /\ row.attempts = rows[r].attempts
            BY <2>1
        <3>2. \A s \in accepted \cup spent : rows'[s].lane = rows[s].lane
                                           /\ rows'[s].attempts = rows[s].attempts
            BY <2>4, <3>1
        <3>3. \A s \in accepted \cup spent : s \in Present' => rows[s].attempts \in Nat
            BY <1>1, <2>5
        <3>4. QED
            BY <3>2, <3>3
    <2>8. \A s \in accepted \cup spent : rows'[s].sound = rows[s].sound
        <3>1. row.sound = rows[r].sound
            BY <2>1
        <3>2. QED
            BY <2>4, <3>1
    <2>9. QED
        BY <2>5, <2>6, <2>7, <2>8 DEF RowsMonotone
<1>8. QED
    BY <1>3, <1>4, <1>5, <1>6, <1>7, StepKinds DEF TableStep

\* The copy of one loop, the body of CopyAgrees.
CopyOf(w) ==
    LET r == work[w].row
    IN /\ r \in accepted \cup spent
       /\ r \in Present =>
            /\ work[w].lane = rows[r].lane
            /\ (~work[w].sound => ~rows[r].sound)
            /\ (work[w].phase = "selected" => work[w].attempts <= rows[r].attempts + 1)
            /\ (work[w].phase # "selected" => work[w].attempts <= rows[r].attempts)

LEMMA RowKept ==
    ASSUME RowsMonotone, NEW x \in accepted \cup spent, x \in Present'
    PROVE  /\ x \in Present
           /\ rows'[x].lane = rows[x].lane
           /\ rows'[x].attempts >= rows[x].attempts
           /\ (~rows[x].sound => ~rows'[x].sound)
BY DEF RowsMonotone

LEMMA CopyKept ==
    ASSUME IInv, RowsMonotone, TypeOK', NEW w \in Working,
           work'[w].row = work[w].row, work'[w].lane = work[w].lane,
           work'[w].sound = work[w].sound, work'[w].attempts = work[w].attempts,
           work'[w].phase = "selected" <=> work[w].phase = "selected"
    PROVE  CopyOf(w)'
<1> DEFINE r == work[w].row
<1>1. CopyOf(w)
    BY DEF IInv, CopyAgrees, CopyOf
<1>2. r \in accepted \cup spent
    BY <1>1 DEF CopyOf
<1>6. r \in accepted' \cup spent' /\ work'[w].row = r
    BY <1>2 DEF RowsMonotone
<1>3. CASE r \in Present'
    <2>1. /\ r \in Present
          /\ rows'[r].lane = rows[r].lane
          /\ rows'[r].attempts >= rows[r].attempts
          /\ (~rows[r].sound => ~rows'[r].sound)
        BY <1>2, <1>3, RowKept
    <2>2. rows[r].attempts \in Nat /\ rows'[r].attempts \in Nat /\ work[w].attempts \in Nat
        <3>1. rows[r] \in Row
            BY <2>1, PresentRow DEF Present, IInv
        <3>2. rows'[r] \in Row
            BY <1>3 DEF Present, TypeOK, Absent
        <3>3. QED
            BY <3>1, <3>2, WorkingCopy DEF Row, Delivery, IInv
    <2>3. /\ work[w].lane = rows[r].lane
          /\ (~work[w].sound => ~rows[r].sound)
          /\ (work[w].phase = "selected" => work[w].attempts <= rows[r].attempts + 1)
          /\ (work[w].phase # "selected" => work[w].attempts <= rows[r].attempts)
        BY <1>1, <2>1 DEF CopyOf
    <2>4. /\ (work[w].phase = "selected" => work[w].attempts <= rows'[r].attempts + 1)
          /\ (work[w].phase # "selected" => work[w].attempts <= rows'[r].attempts)
        BY <2>1, <2>2, <2>3
    <2>5. ~work[w].sound => ~rows'[r].sound
        BY <2>1, <2>3
    <2>6. QED
        BY <1>6, <2>1, <2>3, <2>4, <2>5 DEF CopyOf
<1>4. CASE r \notin Present'
    BY <1>6, <1>4 DEF CopyOf
<1>5. QED
    BY <1>3, <1>4

\* A step that leaves the loops' copies as they are, up to leaving one of them
\* idle or stopped, keeps what the copies say.
CopiesKept ==
    \A w \in Working' : /\ w \in Working
                        /\ work'[w].row = work[w].row /\ work'[w].lane = work[w].lane
                        /\ work'[w].sound = work[w].sound
                        /\ work'[w].attempts = work[w].attempts
                        /\ work'[w].phase = "selected" <=> work[w].phase = "selected"

LEMMA KeptCopies ==
    ASSUME IInv, RowsMonotone, TypeOK', CopiesKept
    PROVE  CopyAgrees'
<1>1. \A w \in Working' : CopyOf(w)'
    BY CopyKept DEF CopiesKept
<1>2. QED
    BY <1>1 DEF CopyAgrees, CopyOf

LEMMA CopyStep == IInv /\ [Next]_vars => CopyAgrees'
<1> SUFFICES ASSUME IInv, [Next]_vars PROVE CopyAgrees'
    OBVIOUS
<1>1. RowsMonotone /\ TypeOK /\ TypeOK'
    BY Monotone, TypeStep DEF IInv
<1>2. ASSUME CopiesKept PROVE CopyAgrees'
    BY <1>1, <1>2, KeptCopies
<1>3. CASE UNCHANGED work
    BY <1>2, <1>3 DEF CopiesKept, Working
<1>4. ASSUME NEW w \in Workers, NEW r \in RowIds, LeaseSelect(w, r)
      PROVE  CopyAgrees'
    <2>1. /\ r \in Present
          /\ UNCHANGED <<rows, accepted, spent>>
          /\ \A v \in Workers \ {w} : work'[v] = work[v]
          /\ work'[w].row = r /\ work'[w].lane = rows[r].lane
          /\ work'[w].sound = rows[r].sound
          /\ work'[w].attempts = rows[r].attempts + 1
          /\ work'[w].phase = "selected"
        BY <1>1, <1>4 DEF LeaseSelect, Claimable, Live, Present, TypeOK
    <2>2. r \in accepted' \cup spent'
        BY <2>1 DEF IInv, RowsKnown
    <2>3. CopyOf(w)'
        <3>1. rows[r].attempts \in Nat
            BY <1>1, <2>1, PresentRow DEF Present, Row
        <3>2. /\ work'[w].lane = rows'[r].lane
              /\ work'[w].attempts <= rows'[r].attempts + 1
            BY <2>1, <3>1
        <3>3. ~work'[w].sound => ~rows'[r].sound
            BY <2>1
        <3>4. QED
            BY <2>1, <2>2, <3>2, <3>3 DEF CopyOf
    <2>4. ASSUME NEW v \in Working', v # w PROVE CopyOf(v)'
        <3>1. v \in Working /\ work'[v] = work[v]
            BY <2>1, <2>4 DEF Working
        <3>2. QED
            BY <1>1, <3>1, CopyKept
    <2>5. QED
        BY <2>3, <2>4 DEF CopyAgrees, CopyOf
<1>5. ASSUME NEW w \in Workers, LeaseClaim(w), work[w].row \in Claimable
      PROVE  CopyAgrees'
    <2> DEFINE r == work[w].row
    <2>1. w \in Working /\ work[w].phase = "selected"
        BY <1>5 DEF LeaseClaim, Working
    <2>2. r \in Present /\ r \in RowIds /\ rows[r] \in Row
        BY <1>1, <1>5, PresentRow DEF Claimable, Live, Present
    <2>3. rows' = [rows EXCEPT ![r] = Claimed(rows[r], <<w, rows[r].attempts + 1>>)]
        BY <1>5 DEF LeaseClaim
    <2>4. rows'[r] = Claimed(rows[r], <<w, rows[r].attempts + 1>>)
        BY <1>1, <2>2, <2>3 DEF TypeOK
    <2>5. /\ rows'[r].attempts = rows[r].attempts + 1
          /\ rows'[r].lane = rows[r].lane /\ rows'[r].sound = rows[r].sound
        BY <2>2, <2>4 DEF Claimed, Row
    <2>6. work' = [work EXCEPT ![w] = [@ EXCEPT !.phase = "delivering",
                                                !.token = <<w, rows[r].attempts + 1>>]]
        BY <1>5 DEF LeaseClaim
    <2>7. /\ work'[w].row = r /\ work'[w].lane = work[w].lane
          /\ work'[w].sound = work[w].sound
          /\ work'[w].attempts = work[w].attempts
          /\ work'[w].phase = "delivering"
        BY <1>1, <2>1, <2>6, WorkingCopy DEF TypeOK, Delivery
    <2>8. \A v \in Workers \ {w} : work'[v] = work[v]
        BY <1>1, <2>6 DEF TypeOK
    <2>9. /\ r \in accepted \cup spent /\ work[w].lane = rows[r].lane
          /\ (~work[w].sound => ~rows[r].sound)
          /\ work[w].attempts <= rows[r].attempts + 1
        BY <2>1, <2>2 DEF IInv, CopyAgrees
    <2>10. UNCHANGED <<accepted, spent>>
        BY <1>5 DEF LeaseClaim
    <2>11. CopyOf(w)'
        <3> HIDE DEF r
        <3>1. r \in accepted' \cup spent'
            BY <2>9, <2>10
        <3>2. work'[w].attempts <= rows'[r].attempts
            BY <2>5, <2>7, <2>9
        <3>3. ~work'[w].sound => ~rows'[r].sound
            BY <2>5, <2>7, <2>9
        <3>4. work'[w].lane = rows'[r].lane
            BY <2>5, <2>7, <2>9
        <3>5. QED
            BY <2>7, <3>1, <3>2, <3>3, <3>4 DEF CopyOf
    <2>12. ASSUME NEW v \in Working', v # w PROVE CopyOf(v)'
        <3>1. v \in Working /\ work'[v] = work[v]
            BY <2>8, <2>12 DEF Working
        <3>2. QED
            BY <1>1, <3>1, CopyKept
    <2>13. QED
        BY <2>11, <2>12 DEF CopyAgrees, CopyOf
<1>6. ASSUME NEW w \in Workers, work' = [work EXCEPT ![w] = Idle]
      PROVE  CopyAgrees'
    <2>1. work'[w] = Idle /\ \A v \in Workers \ {w} : work'[v] = work[v]
        BY <1>1, <1>6 DEF TypeOK
    <2>2. QED
        BY <1>2, <2>1 DEF CopiesKept, Working, Idle
<1>7. ASSUME NEW w \in Workers, work' = [work EXCEPT ![w] = Stopped]
      PROVE  CopyAgrees'
    <2>1. work'[w] = Stopped /\ \A v \in Workers \ {w} : work'[v] = work[v]
        BY <1>1, <1>7 DEF TypeOK
    <2>2. QED
        BY <1>2, <2>1 DEF CopiesKept, Working, Stopped
<1>8. ASSUME NEW w \in Workers, work[w].phase = "delivering",
             NEW outcome \in {"acking", "retrying"},
             work' = [work EXCEPT ![w] = [@ EXCEPT !.phase = outcome]]
      PROVE  CopyAgrees'
    <2>1. w \in Working /\ work[w] \in Delivery
        BY <1>1, <1>8, WorkingCopy DEF Working
    <2>2. /\ work'[w].row = work[w].row /\ work'[w].lane = work[w].lane
          /\ work'[w].sound = work[w].sound
          /\ work'[w].attempts = work[w].attempts /\ work'[w].phase = outcome
          /\ \A v \in Workers \ {w} : work'[v] = work[v]
        BY <1>1, <1>8, <2>1 DEF TypeOK, Delivery
    <2>3. QED
        BY <1>2, <1>8, <2>1, <2>2 DEF CopiesKept, Working
<1>9. ASSUME NEW w \in Workers, work[w].phase = "delivering",
             work' = [work EXCEPT ![w].lost = TRUE]
      PROVE  CopyAgrees'
    <2>1. w \in Working /\ work[w] \in Delivery
        BY <1>1, <1>9, WorkingCopy DEF Working
    <2>2. /\ work'[w].row = work[w].row /\ work'[w].lane = work[w].lane
          /\ work'[w].sound = work[w].sound
          /\ work'[w].attempts = work[w].attempts /\ work'[w].phase = work[w].phase
          /\ \A v \in Workers \ {w} : work'[v] = work[v]
        BY <1>1, <1>9, <2>1 DEF TypeOK, Delivery
    <2>3. QED
        BY <1>2, <1>9, <2>1, <2>2 DEF CopiesKept, Working
<1>10. ASSUME NEW w \in Workers,
              WorkerStep(w) \/ Renew(w) \/ Close(w) \/ Stall(w) \/ WorkerError(w) \/ Kill(w)
       PROVE  CopyAgrees'
    <2>1. CASE \E r \in RowIds : LeaseSelect(w, r)
        BY <1>4, <2>1
    <2>2. CASE LeaseClaim(w)
        BY <1>5, <1>6, <2>2 DEF LeaseClaim
    <2>3. CASE DeliverHandler(w)
        BY <1>6, <1>8, <2>3 DEF DeliverHandler
    <2>4. CASE Renew(w)
        BY <1>3, <1>9, <2>4 DEF Renew
    <2>5. CASE Start(w) \/ DeliverDamaged(w) \/ Settle(w) \/ WorkerError(w)
        BY <1>6, <2>5 DEF Start, DeliverDamaged, Settle, Ack, Retry, Handoff,
                          FailWithoutHandoff, WorkerError
    <2>6. CASE Close(w) \/ Kill(w)
        BY <1>7, <2>6 DEF Close, Kill
    <2>7. CASE Stall(w)
        BY <1>3, <2>7 DEF Stall
    <2>8. QED
        BY <1>10, <2>1, <2>2, <2>3, <2>4, <2>5, <2>6, <2>7 DEF WorkerStep, Deliver
<1>11. ASSUME NEW p \in Producers,
              \/ \E batch \in SUBSET Messages : EnqueueCheck(p, batch)
              \/ EnqueueInsert(p) \/ EnqueueAbandon(p)
       PROVE  UNCHANGED work
    BY <1>11 DEF EnqueueCheck, EnqueueInsert, EnqueueAbandon
<1>12. ASSUME NEW r \in RowIds, Elapse(r) \/ Damage(r)
       PROVE  UNCHANGED work
    BY <1>12 DEF Elapse, Damage
<1>13. CASE UNCHANGED vars
    BY <1>3, <1>13 DEF vars
<1>14. QED
    BY <1>3, <1>10, <1>11, <1>12, <1>13 DEF Next

-----------------------------------------------------------------------------
(* The invariant and its theorems. *)

LEMMA InvInit == Init => IInv
<1> SUFFICES ASSUME Init PROVE IInv
    OBVIOUS
<1>1. Present = {} /\ Live = {} /\ Working = {} /\ accepted = {}
    BY DEF Init, Present, Live, Working, Absent, Stopped
<1>2. \A p \in Producers : offers[p] = {}
    BY DEF Init
<1>3. QED
    BY <1>1, <1>2, TypeInit DEF IInv, RowsKnown, OffersFresh, CopyAgrees, OneLiveRow,
                                HandoffEarned, NoBodyLost

LEMMA InvStep == IInv /\ [Next]_vars => IInv'
<1> SUFFICES ASSUME IInv, [Next]_vars PROVE IInv'
    OBVIOUS
<1>1. TypeOK' /\ TableInv' /\ OffersFresh' /\ CopyAgrees'
    BY TypeStep, TableInvStep, OffersStep, CopyStep DEF IInv
<1>2. QED
    BY <1>1 DEF IInv, TableInv

\* The invariant holds in every reachable state, for any number of loops,
\* producers and bodies.
THEOREM Inductive == Spec => []IInv
<1>1. Init => IInv
    BY InvInit
<1>2. IInv /\ [Next]_vars => IInv'
    BY InvStep
<1>3. QED
    BY <1>1, <1>2, PTL DEF Spec

\* retryOrHandoff never forks a body into two deliverable rows.
THEOREM NeverForked == Spec => []OneLiveRow
<1>1. IInv => OneLiveRow
    BY DEF IInv
<1>2. QED
    BY <1>1, Inductive, PTL

\* No statement, lost lease or kill between two statements drops a body that
\* a producer was told is stored.
THEOREM NeverLost == Spec => []NoBodyLost
<1>1. IInv => NoBodyLost
    BY DEF IInv
<1>2. QED
    BY <1>1, Inductive, PTL

\* A row in a failure lane comes from a row of the lane above that was leased
\* as often as that lane allows, whatever the stale copies said.
THEOREM LadderEarned == Spec => []HandoffEarned
<1>1. IInv => HandoffEarned
    BY DEF IInv
<1>2. QED
    BY <1>1, Inductive, PTL

-----------------------------------------------------------------------------
(* The lease fence. *)

\* What one step may do to the token of the leased row r: the body of
\* LeaseFenced.
Fenced(r) ==
    rows[r].status = "leased" /\ rows'[r].token # rows[r].token =>
       \/ rows[r].due /\ rows'[r].status = "leased"
                      /\ rows'[r].attempts = rows[r].attempts + 1
       \/ \E w \in Workers : /\ work[w] # work'[w]
                             /\ work[w].phase \in {"delivering", "acking", "retrying"}
                             /\ work[w].row = r
                             /\ work[w].token = rows[r].token

\* A loop that still holds the row it works on may give the lease up.
LEMMA HolderFenced ==
    ASSUME TypeOK, NEW w \in Workers, Holds(w), work' = [work EXCEPT ![w] = Idle],
           work[w].phase \in {"delivering", "acking", "retrying"}
    PROVE  Fenced(work[w].row)
<1>1. work'[w] = Idle /\ work[w] # Idle
    BY DEF TypeOK, Idle
<1>2. QED
    BY <1>1 DEF Fenced, Holds

\* A step that leaves a row's token alone is fenced.
LEMMA UntouchedFenced ==
    ASSUME NEW r, rows'[r] = rows[r] \/ rows'[r].token = rows[r].token
    PROVE  Fenced(r)
BY DEF Fenced

LEMMA DueFenced ==
    ASSUME TypeOK, NEW x \in Live, NEW r \in Present,
           \/ \E due \in BOOLEAN : rows' = [rows EXCEPT ![x].due = due]
           \/ rows' = [rows EXCEPT ![x].sound = FALSE]
    PROVE  Fenced(r)
<1>1. x \in RowIds /\ rows[x] \in Row /\ r \in RowIds
    BY PresentRow DEF Live, Present
<1>2. rows'[r] = rows[r] \/ rows'[r].token = rows[r].token
    BY <1>1 DEF TypeOK, Row
<1>3. QED
    BY <1>2, UntouchedFenced

LEMMA WriteFenced ==
    ASSUME TypeOK, NEW w \in Workers, NEW r \in Present,
           DeliverDamaged(w) \/ Retry(w) \/ FailWithoutHandoff(w)
    PROVE  Fenced(r)
<1> DEFINE x == work[w].row
<1>1. /\ work' = [work EXCEPT ![w] = Idle]
      /\ work[w].phase \in {"delivering", "acking", "retrying"}
      /\ IF Holds(w) THEN \E row : rows' = [rows EXCEPT ![x] = row] ELSE rows' = rows
    BY DEF DeliverDamaged, Retry, FailWithoutHandoff
<1>2. CASE Holds(w) /\ r = x
    BY <1>1, <1>2, HolderFenced
<1>3. CASE Holds(w) /\ r # x
    <2>1. rows'[r] = rows[r]
        BY <1>1, <1>3 DEF TypeOK, Present
    <2>2. QED
        BY <2>1, UntouchedFenced
<1>4. CASE ~Holds(w)
    BY <1>1, <1>4, UntouchedFenced
<1>5. QED
    BY <1>2, <1>3, <1>4

LEMMA AckFenced ==
    ASSUME TypeOK, NEW w \in Workers, NEW r \in Present, Ack(w)
    PROVE  Fenced(r)
<1>1. /\ work' = [work EXCEPT ![w] = Idle]
      /\ work[w].phase \in {"delivering", "acking", "retrying"}
    BY DEF Ack
<1>2. CASE Holds(w) /\ r = work[w].row
    BY <1>1, <1>2, HolderFenced
<1>3. CASE Holds(w) /\ r # work[w].row /\ rows[r].status = "leased"
    <2>1. rows'[r] = rows[r]
        BY <1>3 DEF Ack, Present
    <2>2. QED
        BY <2>1, UntouchedFenced
<1>4. CASE ~Holds(w)
    BY <1>4, UntouchedFenced DEF Ack
<1>5. CASE rows[r].status # "leased"
    BY <1>5 DEF Fenced
<1>6. QED
    BY <1>2, <1>3, <1>4, <1>5

LEMMA HandoffFenced ==
    ASSUME IInv, NEW w \in Workers, NEW r \in Present, Handoff(w)
    PROVE  Fenced(r)
<1> DEFINE x == work[w].row
           new == CHOOSE id \in HandoffIds \ spent : TRUE
<1>1. /\ work' = [work EXCEPT ![w] = Idle]
      /\ work[w].phase \in {"delivering", "acking", "retrying"}
    BY DEF Handoff
<1>2. CASE Holds(w) /\ r = x
    BY <1>1, <1>2, HolderFenced DEF IInv
<1>3. CASE Holds(w) /\ r # x
    <2>1. \/ \E row : rows' = [rows EXCEPT ![x] = row]
          \/ spent # HandoffIds /\ \E row, copy : rows' = [rows EXCEPT ![x] = row, ![new] = copy]
        BY <1>3 DEF Handoff
    <2>2. spent # HandoffIds => r # new
        <3>1. spent # HandoffIds => new \in HandoffIds \ spent
            BY DEF IInv, TypeOK
        <3>2. r \in accepted \cup spent /\ accepted \cap HandoffIds = {}
            BY QueueAssumption DEF IInv, TypeOK, RowsKnown
        <3>3. QED
            BY <3>1, <3>2
    <2> HIDE DEF new, x
    <2>3. rows'[r] = rows[r]
        BY <1>3, <2>1, <2>2 DEF IInv, TypeOK, Present
    <2>4. QED
        BY <2>3, UntouchedFenced
<1>4. CASE ~Holds(w)
    BY <1>4, UntouchedFenced DEF Handoff
<1>5. QED
    BY <1>2, <1>3, <1>4

LEMMA ClaimFenced ==
    ASSUME TypeOK, NEW w \in Workers, NEW r \in Present, LeaseClaim(w)
    PROVE  Fenced(r)
<1> DEFINE x == work[w].row
           token == <<w, rows[x].attempts + 1>>
<1>1. CASE x \notin Claimable
    BY <1>1, UntouchedFenced DEF LeaseClaim
<1>2. CASE x \in Claimable
    <2>1. x \in RowIds /\ rows[x] \in Row /\ rows[x].due
        BY <1>2, PresentRow DEF Claimable, Live
    <2>2. rows' = [rows EXCEPT ![x] = Claimed(rows[x], token)]
        BY <1>2 DEF LeaseClaim
    <2>3. CASE r = x
        <3>1. rows'[r] = Claimed(rows[x], token)
            BY <2>1, <2>2, <2>3 DEF TypeOK
        <3>2. token \in Tokens
            BY <2>1 DEF Tokens, Row
        <3> HIDE DEF token
        <3>3. rows'[r].status = "leased" /\ rows'[r].attempts = rows[x].attempts + 1
            BY <2>1, <3>1, <3>2, ClaimedFacts
        <3>4. QED
            BY <2>1, <2>3, <3>3 DEF Fenced
    <2>4. CASE r # x
        BY <2>2, <2>4, UntouchedFenced DEF TypeOK, Present
    <2>5. QED
        BY <2>3, <2>4
<1>3. QED
    BY <1>1, <1>2

LEMMA InsertFenced ==
    ASSUME IInv, NEW p \in Producers, NEW r \in Present, EnqueueInsert(p)
    PROVE  Fenced(r)
<1>1. r \in accepted \cup spent /\ r \in RowIds
    BY DEF IInv, RowsKnown, Present
<1>2. offers[p] \subseteq Messages /\ offers[p] \cap accepted = {}
    BY DEF IInv, TypeOK, OffersFresh
<1>3. r \notin offers[p]
    BY <1>1, <1>2, QueueAssumption DEF IInv, TypeOK
<1>4. rows'[r] = rows[r]
    BY <1>1, <1>3 DEF EnqueueInsert
<1>5. QED
    BY <1>4, UntouchedFenced

LEMMA FenceStep ==
    ASSUME IInv, Next, NEW r \in Present
    PROVE  Fenced(r)
<1>t. TypeOK
    BY DEF IInv
<1>1. CASE UNCHANGED rows
    BY <1>1, UntouchedFenced
<1>2. ASSUME NEW p \in Producers,
             \/ \E batch \in SUBSET Messages : EnqueueCheck(p, batch)
             \/ EnqueueInsert(p) \/ EnqueueAbandon(p)
      PROVE  Fenced(r)
    BY <1>1, <1>2, InsertFenced DEF EnqueueCheck, EnqueueAbandon
<1>3. ASSUME NEW w \in Workers, Renew(w) PROVE Fenced(r)
    <2>1. CASE Holds(w)
        <3>1. work[w].row \in Live
            BY <1>t, <1>3, <2>1, WorkPhase, HeldRow DEF Renew
        <3>2. QED
            BY <1>t, <1>3, <2>1, <3>1, DueFenced DEF Renew
    <2>2. CASE ~Holds(w)
        BY <1>1, <1>3, <2>2 DEF Renew
    <2>3. QED
        BY <2>1, <2>2
<1>4. ASSUME NEW w \in Workers, Stall(w) PROVE Fenced(r)
    <2>1. work[w].row \in Live
        BY <1>t, <1>4, WorkingCopy, HeldRow DEF Stall
    <2>2. QED
        BY <1>t, <1>4, <2>1, DueFenced DEF Stall
<1>5. ASSUME NEW x \in RowIds, Elapse(x) \/ Damage(x) PROVE Fenced(r)
    BY <1>t, <1>5, DueFenced DEF Elapse, Damage
<1>6. ASSUME NEW w \in Workers,
             \/ Start(w) \/ Close(w) \/ DeliverHandler(w) \/ WorkerError(w) \/ Kill(w)
             \/ \E x \in RowIds : LeaseSelect(w, x)
      PROVE  Fenced(r)
    BY <1>1, <1>6 DEF Start, Close, DeliverHandler, WorkerError, Kill, LeaseSelect
<1>7. QED
    BY <1>t, <1>2, <1>3, <1>4, <1>5, <1>6, ClaimFenced, WriteFenced, AckFenced, HandoffFenced
       DEF Next, WorkerStep, Deliver, Settle

\* A loop changes the token of a leased row only while the row carries the
\* loop's own, or claims it anew once the lease is due: a delivery that lost its
\* lease writes nothing (ack, retryOrHandoff, failWithoutHandoff, renew).
THEOREM Lease_Fenced == Spec => LeaseFenced
<1>1. IInv /\ [Next]_vars => [\A r \in Present : Fenced(r)]_vars
    BY FenceStep
<1>2. QED
    BY <1>1, Inductive, PTL DEF Spec, LeaseFenced, Fenced

-----------------------------------------------------------------------------
(* The queue implements the delivery ladder. *)

\* Where a body is, without the choice of its row.
Placed(m) ==
    /\ m \notin accepted => PlaceOf(m) = "none"
    /\ m \in accepted =>
         /\ \A r \in Live : rows[r].message = m => PlaceOf(m) = rows[r].lane
         /\ (\A r \in Live : rows[r].message # m) =>
               PlaceOf(m) = IF m \in acked THEN "done" ELSE "parked"

PlacesKnown == \A m \in Messages : Placed(m)

LEMMA PlaceFacts == OneLiveRow => PlacesKnown
<1> SUFFICES ASSUME OneLiveRow, NEW m \in Messages PROVE Placed(m)
    BY DEF PlacesKnown
<1>1. ASSUME m \in accepted, NEW r \in Live, rows[r].message = m
      PROVE  PlaceOf(m) = rows[r].lane
    <2>1. (CHOOSE s \in Live : rows[s].message = m) = r
        BY <1>1 DEF OneLiveRow
    <2>2. QED
        BY <1>1, <2>1 DEF PlaceOf
<1>2. QED
    BY <1>1 DEF PlaceOf, Placed

LEMMA PlaceFactsNext == OneLiveRow' => PlacesKnown'
BY PlaceFacts, PTL

LEMMA LadderAccept ==
    ASSUME NEW S \in SUBSET Messages, S # {},
           \A m \in S : PlaceOf(m) = "none",
           \A m \in Messages : PlaceOf(m)' = IF m \in S THEN "primary" ELSE PlaceOf(m)
    PROVE  Ladder!Next
<1>1. /\ \A m \in S : places[m] = "none"
      /\ places' = [m \in Messages |-> IF m \in S THEN "primary" ELSE places[m]]
    BY DEF places
<1>2. Ladder!Accept(S)
    BY <1>1 DEF Ladder!Accept
<1>3. QED
    BY <1>2 DEF Ladder!Next

LEMMA LadderMove ==
    ASSUME NEW m \in Messages, PlaceOf(m) \in Lanes,
           \/ PlaceOf(m)' \in {"done", "parked"}
           \/ PlaceOf(m) # "quarantine" /\ PlaceOf(m)' = NextLane[PlaceOf(m)],
           \A n \in Messages \ {m} : PlaceOf(n)' = PlaceOf(n)
    PROVE  Ladder!Next
<1>1. places[m] \in Ladder!Rungs
    BY DEF places, Ladder!Rungs, Lanes
<1>2. places' = [places EXCEPT ![m] = PlaceOf(m)']
    BY DEF places
<1>3. CASE PlaceOf(m)' = "done"
    BY <1>1, <1>2, <1>3 DEF Ladder!Next, Ladder!Finish
<1>4. CASE PlaceOf(m)' = "parked"
    BY <1>1, <1>2, <1>4 DEF Ladder!Next, Ladder!Park
<1>5. CASE PlaceOf(m) # "quarantine" /\ PlaceOf(m)' = NextLane[PlaceOf(m)]
    <2>1. places[m] # "quarantine" /\ Ladder!Below(places[m]) = PlaceOf(m)'
        BY <1>5 DEF places, Lanes, NextLane, Ladder!Below
    <2>2. QED
        BY <1>1, <1>2, <2>1 DEF Ladder!Next, Ladder!Descend
<1>6. QED
    BY <1>3, <1>4, <1>5

\* A message whose live rows and mark a step leaves alone keeps its place.
LEMMA PlaceKept ==
    ASSUME PlacesKnown, PlacesKnown', NEW m \in Messages,
           m \in accepted' <=> m \in accepted,
           m \in acked' <=> m \in acked,
           \A r \in Live : rows[r].message = m =>
              r \in Live' /\ rows'[r].message = m /\ rows'[r].lane = rows[r].lane,
           \A r \in Live' : rows'[r].message = m => r \in Live /\ rows[r].message = m
    PROVE  PlaceOf(m)' = PlaceOf(m)
<1>1. Placed(m) /\ Placed(m)'
    BY DEF PlacesKnown
<1>2. CASE m \notin accepted
    BY <1>1, <1>2 DEF Placed
<1>3. CASE m \in accepted /\ \E r \in Live : rows[r].message = m
    BY <1>1, <1>3 DEF Placed
<1>4. CASE m \in accepted /\ \A r \in Live : rows[r].message # m
    <2>1. \A r \in Live' : rows'[r].message # m
        BY <1>4
    <2>2. PlaceOf(m) = (IF m \in acked THEN "done" ELSE "parked")
        BY <1>1, <1>4 DEF Placed
    <2>3. PlaceOf(m)' = (IF m \in acked' THEN "done" ELSE "parked")
        BY <1>1, <1>4, <2>1 DEF Placed
    <2>4. QED
        BY <2>2, <2>3
<1>5. QED
    BY <1>2, <1>3, <1>4

LEMMA LadderInsert ==
    ASSUME IInv, PlacesKnown, PlacesKnown', RowsInserted
    PROVE  [Ladder!Next]_places
<1>1. PICK S \in SUBSET Messages :
        /\ S \cap accepted = {}
        /\ rows' = [r \in RowIds |-> IF r \in S THEN NewRow(r, "primary", r, TRUE)
                                               ELSE rows[r]]
        /\ accepted' = accepted \cup S
        /\ UNCHANGED <<spent, acked>>
    BY DEF RowsInserted
<1>2. \A r \in S : /\ r \in RowIds /\ r \notin Present
                   /\ rows'[r].status = "pending" /\ rows'[r].message = r
                   /\ rows'[r].lane = "primary"
    <2>1. SUFFICES ASSUME NEW r \in S
                   PROVE  /\ r \in RowIds /\ r \notin Present
                          /\ rows'[r].status = "pending" /\ rows'[r].message = r
                          /\ rows'[r].lane = "primary"
        OBVIOUS
    <2>2. r \in RowIds /\ r \notin HandoffIds /\ r \notin accepted
        BY <1>1, QueueAssumption DEF RowIds
    <2>3. r \notin Present
        BY <2>2 DEF IInv, TypeOK, RowsKnown
    <2>4. rows'[r] = NewRow(r, "primary", r, TRUE)
        BY <1>1, <2>2
    <2>5. QED
        BY <2>2, <2>3, <2>4 DEF NewRow
<1>3. \A r \in RowIds \ S : rows'[r] = rows[r]
    BY <1>1
<1>4. \A m \in S : PlaceOf(m) = "none" /\ PlaceOf(m)' = "primary"
    <2>1. SUFFICES ASSUME NEW m \in S PROVE PlaceOf(m) = "none" /\ PlaceOf(m)' = "primary"
        OBVIOUS
    <2>2. Placed(m) /\ Placed(m)' /\ m \notin accepted /\ m \in accepted'
        BY <1>1 DEF PlacesKnown
    <2>3. m \in Live' /\ rows'[m].message = m /\ rows'[m].lane = "primary"
        BY <1>2 DEF Live
    <2>4. QED
        BY <2>2, <2>3 DEF Placed
<1>5. \A m \in Messages \ S : PlaceOf(m)' = PlaceOf(m)
    <2>1. SUFFICES ASSUME NEW m \in Messages \ S PROVE PlaceOf(m)' = PlaceOf(m)
        OBVIOUS
    <2>2. \A r \in Live : r \notin S /\ r \in Live' /\ rows'[r] = rows[r]
        BY <1>2, <1>3 DEF Live, Present
    <2>3. \A r \in Live' : rows'[r].message = m => r \in Live /\ rows[r].message = m
        BY <1>2, <1>3 DEF Live
    <2>4. QED
        BY <1>1, <2>2, <2>3, PlaceKept
<1>6. CASE S = {}
    BY <1>5, <1>6 DEF places
<1>7. CASE S # {}
    <2>1. \A m \in Messages : PlaceOf(m)' = IF m \in S THEN "primary" ELSE PlaceOf(m)
        BY <1>4, <1>5
    <2>2. QED
        BY <1>4, <1>7, <2>1, LadderAccept
<1>8. QED
    BY <1>6, <1>7

LEMMA LadderRewrite ==
    ASSUME IInv, PlacesKnown, PlacesKnown', RowRewritten
    PROVE  [Ladder!Next]_places
<1>1. PICK r \in Live, row \in Row :
        /\ rows' = [rows EXCEPT ![r] = row]
        /\ row.message = rows[r].message /\ row.lane = rows[r].lane
        /\ \/ row.status \in {"pending", "leased"}
           \/ row.status = "failed" /\ (row.lane = "quarantine" \/ ~row.sound)
        /\ UNCHANGED <<accepted, spent, acked>>
    BY DEF RowRewritten
<1>2. r \in RowIds /\ r \in Present /\ rows[r] \in Row /\ rows[r].message \in Messages
    BY PresentRow DEF Live, Present, IInv, Row
<1>3. rows'[r] = row /\ \A s \in RowIds \ {r} : rows'[s] = rows[s]
    BY <1>1, <1>2 DEF IInv, TypeOK
<1>4. \A s \in Live \ {r} : s \in Live' /\ rows'[s] = rows[s]
    BY <1>3 DEF Live
<1>5. \A s \in Live' : s \in Live /\ rows'[s].message = rows[s].message
    BY <1>1, <1>3 DEF Live
<1>m. PICK m \in Messages : m = rows[r].message
    BY <1>2
<1>6. \A n \in Messages \ {m} : PlaceOf(n)' = PlaceOf(n)
    <2>1. SUFFICES ASSUME NEW n \in Messages \ {m} PROVE PlaceOf(n)' = PlaceOf(n)
        OBVIOUS
    <2>2. \A s \in Live : rows[s].message = n =>
             s \in Live' /\ rows'[s].message = n /\ rows'[s].lane = rows[s].lane
        BY <1>m, <1>4, <2>1
    <2>3. \A s \in Live' : rows'[s].message = n => s \in Live /\ rows[s].message = n
        BY <1>m, <1>5
    <2>4. QED
        BY <1>m, <1>1, <2>2, <2>3, PlaceKept
<1>7. m \in accepted /\ m \in accepted' /\ Placed(m) /\ Placed(m)'
    BY <1>m, <1>1, <1>2 DEF IInv, RowsKnown, PlacesKnown
<1>8. PlaceOf(m) = rows[r].lane /\ PlaceOf(m) \in Lanes
    BY <1>m, <1>2, <1>7 DEF Placed, Row
<1>9. CASE row.status \in {"pending", "leased"}
    <2>1. r \in Live' /\ rows'[r].message = m /\ rows'[r].lane = rows[r].lane
        BY <1>m, <1>1, <1>2, <1>3, <1>9 DEF Live
    <2>2. PlaceOf(m)' = PlaceOf(m)
        BY <1>m, <1>7, <1>8, <2>1 DEF Placed
    <2>3. QED
        BY <1>m, <1>6, <2>2 DEF places
<1>10. CASE row.status = "failed"
    <2>1. \A s \in Live' : rows'[s].message # m
        <3>1. ASSUME NEW s \in Live', rows'[s].message = m PROVE s = r
            BY <1>m, <1>5, <3>1 DEF IInv, OneLiveRow
        <3>2. r \notin Live'
            BY <1>m, <1>3, <1>10 DEF Live
        <3>3. QED
            BY <1>m, <3>1, <3>2
    <2>2. PlaceOf(m)' \in {"done", "parked"}
        BY <1>m, <1>7, <2>1 DEF Placed
    <2>3. Ladder!Next
        BY <1>m, <1>2, <1>6, <1>8, <2>2, LadderMove
    <2>4. QED
        BY <1>m, <2>3
<1>11. QED
    BY <1>m, <1>1, <1>9, <1>10

LEMMA LadderComplete ==
    ASSUME IInv, PlacesKnown, PlacesKnown', RowCompleted
    PROVE  [Ladder!Next]_places
<1>1. PICK r \in Live, gone \in SUBSET RowIds, row \in Row :
        /\ \A s \in gone : rows[s].status = "complete"
        /\ row.status = "complete"
        /\ rows' = [s \in RowIds |-> IF s \in gone THEN Absent
                                     ELSE IF s = r THEN row ELSE rows[s]]
        /\ acked' = acked \cup {rows[r].message}
        /\ UNCHANGED <<accepted, spent>>
    BY DEF RowCompleted
<1>2. /\ r \in RowIds /\ r \in Present /\ rows[r] \in Row
      /\ rows[r].message \in Messages /\ r \notin gone
    BY <1>1, PresentRow DEF Live, Present, IInv, Row
<1>3. Live' = Live \ {r} /\ \A s \in Live \ {r} : rows'[s] = rows[s]
    <2>1. \A s \in Live : s \notin gone
        BY <1>1 DEF Live
    <2>2. \A s \in RowIds : s \in Live' <=> s \in Live \ {r}
        BY <1>1, <1>2 DEF Live, Absent
    <2>3. QED
        BY <1>1, <2>1, <2>2 DEF Live
<1>m. PICK m \in Messages : m = rows[r].message
    BY <1>2
<1>4. \A n \in Messages \ {m} : PlaceOf(n)' = PlaceOf(n)
    <2>1. SUFFICES ASSUME NEW n \in Messages \ {m} PROVE PlaceOf(n)' = PlaceOf(n)
        OBVIOUS
    <2>2. \A s \in Live : rows[s].message = n => s \in Live' /\ rows'[s] = rows[s]
        BY <1>m, <1>3, <2>1
    <2>3. \A s \in Live' : s \in Live /\ rows'[s] = rows[s]
        BY <1>m, <1>3
    <2>4. QED
        BY <1>m, <1>1, <2>1, <2>2, <2>3, PlaceKept
<1>5. m \in accepted /\ m \in accepted' /\ Placed(m) /\ Placed(m)'
    BY <1>m, <1>1, <1>2 DEF IInv, RowsKnown, PlacesKnown
<1>6. PlaceOf(m) = rows[r].lane /\ PlaceOf(m) \in Lanes
    BY <1>m, <1>2, <1>5 DEF Placed, Row
<1>7. \A s \in Live' : rows'[s].message # m
    BY <1>m, <1>3 DEF IInv, OneLiveRow
<1>8. PlaceOf(m)' = "done"
    BY <1>m, <1>1, <1>5, <1>7 DEF Placed
<1>9. QED
    BY <1>m, <1>2, <1>4, <1>6, <1>8, LadderMove

LEMMA LadderHandoff ==
    ASSUME IInv, PlacesKnown, PlacesKnown', RowHandedOff
    PROVE  [Ladder!Next]_places
<1>1. PICK r \in Live, new \in HandoffIds \ spent, row \in Row, copy \in Row :
        /\ row.status = "failed" /\ row.attempts = rows[r].attempts
        /\ row.message = rows[r].message /\ row.lane = rows[r].lane
        /\ row.parent = rows[r].parent /\ row.sound = rows[r].sound
        /\ row.lane # "quarantine" /\ row.attempts >= MaxAttempts[row.lane]
        /\ copy.status = "pending" /\ copy.message = rows[r].message
        /\ copy.lane = NextLane[row.lane] /\ copy.parent = r
        /\ rows' = [rows EXCEPT ![r] = row, ![new] = copy]
        /\ spent' = spent \cup {new}
        /\ UNCHANGED <<accepted, acked>>
    BY DEF RowHandedOff
<1>2. r \in RowIds /\ r \in Present /\ rows[r] \in Row /\ rows[r].message \in Messages
    BY PresentRow DEF Live, Present, IInv, Row
<1>3. new \in RowIds /\ new \notin Present /\ new # r
    BY <1>1, <1>2, QueueAssumption DEF RowIds, IInv, RowsKnown, TypeOK
<1>4. /\ rows'[r] = row /\ rows'[new] = copy
      /\ \A s \in RowIds \ {r, new} : rows'[s] = rows[s]
    BY <1>1, <1>2, <1>3 DEF IInv, TypeOK
<1>5. /\ Live' = (Live \ {r}) \cup {new}
      /\ \A s \in Live \ {r} : rows'[s] = rows[s] /\ s # new
    <2>1. \A s \in RowIds : s \in Live' <=> s \in (Live \ {r}) \cup {new}
        BY <1>1, <1>2, <1>3, <1>4, ZenonT(60) DEF Live, Present
    <2>2. QED
        BY <1>3, <1>4, <2>1 DEF Live, Present
<1>m. PICK m \in Messages : m = rows[r].message
    BY <1>2
<1>6. \A n \in Messages \ {m} : PlaceOf(n)' = PlaceOf(n)
    <2>1. SUFFICES ASSUME NEW n \in Messages \ {m} PROVE PlaceOf(n)' = PlaceOf(n)
        OBVIOUS
    <2>2. \A s \in Live : rows[s].message = n => s \in Live' /\ rows'[s] = rows[s]
        BY <1>m, <1>5, <2>1
    <2>3. ASSUME NEW s \in Live', rows'[s].message = n
          PROVE  s \in Live /\ rows[s].message = n
        <3>1. s # new
            BY <1>m, <1>1, <1>4, <2>1, <2>3
        <3>2. s \in Live \ {r}
            BY <1>5, <3>1
        <3>3. QED
            BY <1>5, <2>3, <3>2
    <2>4. QED
        BY <1>m, <1>1, <2>2, <2>3, PlaceKept
<1>7. m \in accepted /\ m \in accepted' /\ Placed(m) /\ Placed(m)'
    BY <1>m, <1>1, <1>2 DEF IInv, RowsKnown, PlacesKnown
<1>8. PlaceOf(m) = rows[r].lane /\ PlaceOf(m) \in Lanes
    BY <1>m, <1>2, <1>7 DEF Placed, Row
<1>9. PlaceOf(m)' = NextLane[rows[r].lane]
    <2>1. new \in Live' /\ rows'[new].message = m /\ rows'[new].lane = NextLane[rows[r].lane]
        BY <1>m, <1>1, <1>4, <1>5
    <2>2. QED
        BY <1>7, <2>1 DEF Placed
<1>10. QED
    BY <1>m, <1>1, <1>2, <1>6, <1>8, <1>9, LadderMove

LEMMA LadderStep == IInv /\ IInv' /\ [Next]_vars => [Ladder!Next]_places
<1> SUFFICES ASSUME IInv, IInv', [Next]_vars PROVE [Ladder!Next]_places
    OBVIOUS
<1>1. PlacesKnown /\ PlacesKnown'
    BY PlaceFacts, PlaceFactsNext DEF IInv
<1>2. CASE TableKept
    <2>1. \A m \in Messages : PlaceOf(m)' = PlaceOf(m)
        BY <1>1, <1>2, PlaceKept DEF TableKept, Live
    <2>2. QED
        BY <2>1 DEF places
<1>3. QED
    BY <1>1, <1>2, StepKinds, LadderInsert, LadderRewrite, LadderComplete, LadderHandoff
       DEF TableStep

LEMMA LadderInit == Init => Ladder!Init
BY DEF Init, Ladder!Init, places, PlaceOf

\* Every statement of producers and loops is a step of the delivery ladder or
\* none: a body goes down one lane at a time, leaves it once, and never climbs,
\* forks or disappears (enqueue, ack, retryOrHandoff, failWithoutHandoff).
THEOREM LadderImplemented == Spec => ImplementsLadder
<1>1. Init => Ladder!Init
    BY LadderInit
<1>2. IInv /\ IInv' /\ [Next]_vars => [Ladder!Next]_places
    BY LadderStep
<1>3. QED
    BY <1>1, <1>2, Inductive, PTL DEF Spec, ImplementsLadder, Ladder!Spec

-----------------------------------------------------------------------------
(* The capacity that producers may exceed together. *)

\* A set of natural numbers has a least element.
LEMMA LeastElement ==
    ASSUME NEW S \in SUBSET Nat, S # {}
    PROVE  \E x \in S : \A y \in S : x <= y
<1> DEFINE R == OpToRel(<, Nat)
<1>1. IsWellFoundedOn(R, Nat)
    BY NatLessThanWellFounded
<1>2. \A x, y \in Nat : x < y => <<x, y>> \in R
    BY DEF OpToRel
<1> HIDE DEF R
<1>3. PICK x \in S : \A y \in S : <<y, x>> \notin R
    BY <1>1, WFMin
<1>4. ASSUME NEW y \in S PROVE x <= y
    <2>1. x \in Nat /\ y \in Nat /\ ~(y < x)
        BY <1>2, <1>3
    <2>2. QED
        BY <2>1
<1>5. QED
    BY <1>4

LEMMA UnionSize ==
    ASSUME NEW A, NEW B, IsFiniteSet(A), IsFiniteSet(B)
    PROVE  /\ Cardinality(A) \in Nat /\ Cardinality(B) \in Nat
           /\ IsFiniteSet(A \cup B) /\ Cardinality(A \cup B) \in Nat
           /\ Cardinality(A \cup B) <= Cardinality(A) + Cardinality(B)
           /\ A \cap B = {} => Cardinality(A \cup B) = Cardinality(A) + Cardinality(B)
<1>1. /\ IsFiniteSet(A \cup B)
      /\ Cardinality(A \cup B) = Cardinality(A) + Cardinality(B) - Cardinality(A \cap B)
    BY FS_Union
<1>2. IsFiniteSet(A \cap B)
    BY FS_Intersection
<1>3. /\ Cardinality(A) \in Nat /\ Cardinality(B) \in Nat
      /\ Cardinality(A \cap B) \in Nat /\ Cardinality(A \cup B) \in Nat
    BY <1>1, <1>2, FS_CardinalityType
<1>4. A \cap B = {} => Cardinality(A \cap B) = 0
    BY FS_EmptySet
<1>5. QED
    BY <1>1, <1>3, <1>4

\* A union of finite sets, each of at most k elements.
LEMMA UnionBound ==
    ASSUME NEW T, IsFiniteSet(T), NEW f, NEW k \in Nat,
           \A q \in T : IsFiniteSet(f[q]) /\ Cardinality(f[q]) <= k
    PROVE  LET all == UNION {f[q] : q \in T}
           IN  IsFiniteSet(all) /\ Cardinality(all) <= Cardinality(T) * k
<1> DEFINE All(U)  == UNION {f[q] : q \in U}
           Good(U) == IsFiniteSet(All(U)) /\ Cardinality(All(U)) <= Cardinality(U) * k
           Sizes   == {Cardinality(U) : U \in {V \in SUBSET T : ~Good(V)}}
<1>1. \A U \in SUBSET T : IsFiniteSet(U) /\ Cardinality(U) \in Nat
    BY FS_Subset, FS_CardinalityType
<1>2. Good({})
    <2>1. All({}) = {}
        OBVIOUS
    <2>2. Cardinality({}) = 0 /\ IsFiniteSet({})
        BY FS_EmptySet
    <2>3. Cardinality({}) * k = 0
        BY <2>2
    <2> HIDE DEF All
    <2>4. IsFiniteSet(All({})) /\ Cardinality(All({})) = 0
        BY <2>1, <2>2
    <2>5. QED
        BY <2>3, <2>4
<1>3. ASSUME NEW U \in SUBSET T, NEW q \in U, Good(U \ {q}) PROVE Good(U)
    <2> DEFINE V == U \ {q}
    <2>1. V \in SUBSET T /\ Cardinality(V) = Cardinality(U) - 1
        BY <1>1, FS_RemoveElement
    <2>2. All(U) = All(V) \cup f[q]
        OBVIOUS
    <2>3. /\ IsFiniteSet(All(V)) /\ Cardinality(All(V)) <= Cardinality(V) * k
          /\ IsFiniteSet(f[q]) /\ Cardinality(f[q]) <= k
        BY <1>3
    <2> HIDE DEF All, V
    <2>4. /\ IsFiniteSet(All(U)) /\ Cardinality(All(U)) \in Nat
          /\ Cardinality(All(V)) \in Nat /\ Cardinality(f[q]) \in Nat
          /\ Cardinality(All(U)) <= Cardinality(All(V)) + Cardinality(f[q])
        BY <2>2, <2>3, UnionSize
    <2>5. Cardinality(U) \in Nat /\ Cardinality(V) * k + k = Cardinality(U) * k
        <3>1. \A n, j \in Int : (n - 1) * j + j = n * j
            OBVIOUS
        <3>2. QED
            BY <1>1, <2>1, <3>1
    <2>6. Cardinality(V) * k \in Int /\ Cardinality(U) * k \in Int
        BY <1>1, <2>1
    <2>7. Cardinality(All(U)) <= Cardinality(U) * k
        <3>1. \A a, b, c, x, y \in Int : a <= b + c /\ b <= x /\ c <= k /\ x + k = y => a <= y
            OBVIOUS
        <3>2. QED
            BY <2>3, <2>4, <2>5, <2>6, <3>1
    <2>8. QED
        BY <2>4, <2>7
<1>4. Sizes = {}
    <2>1. SUFFICES ASSUME Sizes # {} PROVE FALSE
        OBVIOUS
    <2>2. Sizes \in SUBSET Nat
        BY <1>1
    <2>3. PICK n \in Sizes : \A j \in Sizes : n <= j
        BY <2>1, <2>2, LeastElement
    <2>4. PICK U \in SUBSET T : ~Good(U) /\ Cardinality(U) = n
        OBVIOUS
    <2>5. PICK q \in U : TRUE
        BY <1>2, <2>4
    <2>6. U \ {q} \in SUBSET T /\ ~Good(U \ {q})
        BY <1>3, <2>4
    <2>7. Cardinality(U \ {q}) \in Sizes
        BY <2>6
    <2>8. Cardinality(U \ {q}) = Cardinality(U) - 1
        BY <1>1, FS_RemoveElement
    <2>9. n \in Nat /\ n <= n - 1
        BY <2>2, <2>3, <2>4, <2>7, <2>8
    <2>10. QED
        BY <2>9
<1>5. Good(T)
    BY <1>4
<1>6. QED
    BY <1>5

Waiting == UNION {offers[p] : p \in Producers}

\* The bound with what it rests on: no batch is larger than a request allows.
Bounded ==
    /\ \A p \in Producers : Cardinality(offers[p]) <= MaxBatch
    /\ CapacityOvershootBounded

LEMMA FiniteFacts ==
    ASSUME TypeOK
    PROVE  /\ IsFiniteSet(Live) /\ Cardinality(Live) \in Nat
           /\ IsFiniteSet(Waiting) /\ Cardinality(Waiting) \in Nat
           /\ \A p \in Producers : IsFiniteSet(offers[p]) /\ Cardinality(offers[p]) \in Nat
           /\ Cardinality(Producers) \in Nat /\ Cardinality(Producers) >= 1
<1>1. IsFiniteSet(RowIds) /\ Live \subseteq RowIds
    BY QueueAssumption, FS_Union DEF RowIds, Live
<1>2. Waiting \subseteq Messages /\ \A p \in Producers : offers[p] \subseteq Messages
    BY DEF TypeOK, Waiting
<1>3. /\ IsFiniteSet(Live) /\ IsFiniteSet(Waiting)
      /\ \A p \in Producers : IsFiniteSet(offers[p])
    BY <1>1, <1>2, QueueAssumption, FS_Subset
<1>4. Cardinality(Producers) \in Nat /\ Cardinality(Producers) # 0
    BY QueueAssumption, FS_CardinalityType, FS_EmptySet
<1>5. QED
    BY <1>3, <1>4, FS_CardinalityType

LEMMA FiniteNext == TypeOK' => /\ IsFiniteSet(Live') /\ Cardinality(Live') \in Nat
                              /\ IsFiniteSet(Waiting') /\ Cardinality(Waiting') \in Nat
<1> SUFFICES ASSUME TypeOK'
             PROVE  /\ IsFiniteSet(Live') /\ Cardinality(Live') \in Nat
                    /\ IsFiniteSet(Waiting') /\ Cardinality(Waiting') \in Nat
    OBVIOUS
<1>1. IsFiniteSet(RowIds) /\ Live' \subseteq RowIds
    BY QueueAssumption, FS_Union DEF RowIds, Live
<1>2. Waiting' \subseteq Messages
    BY DEF TypeOK, Waiting
<1>3. IsFiniteSet(Live') /\ IsFiniteSet(Waiting')
    BY <1>1, <1>2, QueueAssumption, FS_Subset
<1>4. QED
    BY <1>3, FS_CardinalityType

\* The batch that passes the check finds the other producers' batches waiting.
LEMMA CheckBounded ==
    ASSUME IInv, IInv', Bounded, NEW p \in Producers, NEW batch \in SUBSET Messages,
           EnqueueCheck(p, batch)
    PROVE  Bounded'
<1> DEFINE others == Producers \ {p}
           rest   == UNION {offers[q] : q \in others}
           n      == Cardinality(Producers)
<1>t. TypeOK /\ TypeOK'
    BY DEF IInv
<1>1. /\ offers'[p] = batch /\ \A q \in others : offers'[q] = offers[q]
      /\ Live' = Live
      /\ Cardinality(batch) <= MaxBatch
      /\ Cardinality(Live) + Cardinality(batch) <= Capacity
    BY <1>t DEF EnqueueCheck, TypeOK, Live
<1>2. Waiting' = rest \cup batch
    BY <1>1 DEF Waiting
<1>3. IsFiniteSet(others) /\ Cardinality(others) = n - 1
    BY QueueAssumption, FS_RemoveElement
<1>4. IsFiniteSet(rest) /\ Cardinality(rest) <= Cardinality(others) * MaxBatch
    <2>1. \A q \in others : IsFiniteSet(offers[q]) /\ Cardinality(offers[q]) <= MaxBatch
        BY <1>t, FiniteFacts DEF Bounded
    <2> HIDE DEF others
    <2>2. MaxBatch \in Nat
        BY QueueAssumption
    <2>3. QED
        BY <1>3, <2>1, <2>2, UnionBound
<1>5. IsFiniteSet(batch)
    BY QueueAssumption, FS_Subset
<1> HIDE DEF rest, others
<1>6. /\ Cardinality(rest) \in Nat /\ Cardinality(batch) \in Nat
      /\ Cardinality(Waiting') \in Nat
      /\ Cardinality(Waiting') <= Cardinality(rest) + Cardinality(batch)
    BY <1>2, <1>4, <1>5, UnionSize
<1>7. n \in Nat /\ Cardinality(Live) \in Nat /\ (n - 1) * MaxBatch \in Int /\ Capacity \in Int
    BY <1>t, FiniteFacts, QueueAssumption
<1> HIDE DEF n
<1>8. Cardinality(Live') + Cardinality(Waiting') <= Capacity + (n - 1) * MaxBatch
    <2> DEFINE k == (n - 1) * MaxBatch
    <2>1. Cardinality(rest) <= k /\ k \in Int
        BY <1>3, <1>4, <1>7
    <2> HIDE DEF k
    <2>2. Cardinality(Live) + Cardinality(Waiting') <= Capacity + k
        BY <1>1, <1>6, <1>7, <2>1
    <2>3. QED
        BY <1>1, <2>2 DEF k
<1>9. \A q \in Producers : Cardinality(offers'[q]) <= MaxBatch
    BY <1>1 DEF Bounded, others
<1>10. QED
    BY <1>8, <1>9 DEF Bounded, CapacityOvershootBounded, Waiting, n

\* The insert moves a batch from the waiting ones to the live rows.
LEMMA InsertBounded ==
    ASSUME IInv, IInv', Bounded, NEW p \in Producers, EnqueueInsert(p)
    PROVE  Bounded'
<1> DEFINE S == offers[p]
<1>t. TypeOK /\ TypeOK'
    BY DEF IInv
<1>1. /\ offers'[p] = {} /\ \A q \in Producers \ {p} : offers'[q] = offers[q]
      /\ rows' = [r \in RowIds |-> IF r \in S THEN NewRow(r, "primary", r, TRUE) ELSE rows[r]]
    BY <1>t DEF EnqueueInsert, TypeOK
<1>2. S \subseteq Messages /\ S \cap accepted = {}
    BY DEF IInv, TypeOK, OffersFresh
<1>3. Live' \subseteq Live \cup S
    <2>1. ASSUME NEW r \in Live', r \notin S PROVE r \in Live
        BY <1>1, <2>1 DEF Live
    <2>2. QED
        BY <2>1
<1>4. Waiting' \cap S = {} /\ Waiting = Waiting' \cup S
    <2>1. Waiting = Waiting' \cup S
        BY <1>1 DEF Waiting
    <2>2. \A q \in Producers : offers'[q] \cap S = {}
        BY <1>1 DEF IInv, OffersFresh
    <2>3. QED
        BY <2>1, <2>2 DEF Waiting
<1>5. /\ IsFiniteSet(Live) /\ Cardinality(Live) \in Nat /\ IsFiniteSet(S)
      /\ Cardinality(S) \in Nat
    BY <1>t, FiniteFacts
<1>6. /\ IsFiniteSet(Live') /\ Cardinality(Live') \in Nat
      /\ IsFiniteSet(Waiting') /\ Cardinality(Waiting') \in Nat
    BY <1>t, FiniteNext
<1>7. Cardinality(Live') <= Cardinality(Live) + Cardinality(S)
    <2>1. /\ IsFiniteSet(Live \cup S) /\ Cardinality(Live \cup S) \in Nat
          /\ Cardinality(Live \cup S) <= Cardinality(Live) + Cardinality(S)
        BY <1>5, UnionSize
    <2>2. Cardinality(Live') <= Cardinality(Live \cup S)
        BY <1>3, <2>1, FS_Subset
    <2>3. QED
        BY <1>5, <1>6, <2>1, <2>2
<1>8. Cardinality(Waiting) = Cardinality(Waiting') + Cardinality(S)
    BY <1>4, <1>5, <1>6, UnionSize
<1>9. Cardinality(Live') + Cardinality(Waiting') <= Cardinality(Live) + Cardinality(Waiting)
    BY <1>5, <1>6, <1>7, <1>8
<1>10. \A q \in Producers : Cardinality(offers'[q]) <= MaxBatch
    BY <1>1, FS_EmptySet, QueueAssumption DEF Bounded
<1>11. QED
    <2> DEFINE bound == Capacity + (Cardinality(Producers) - 1) * MaxBatch
    <2>1. bound \in Int /\ Cardinality(Waiting) \in Nat
        BY <1>t, FiniteFacts, QueueAssumption
    <2>2. Cardinality(Live) + Cardinality(Waiting) <= bound
        BY DEF Bounded, CapacityOvershootBounded, Waiting
    <2> HIDE DEF bound
    <2>3. Cardinality(Live') + Cardinality(Waiting') <= bound
        BY <1>5, <1>6, <1>9, <2>1, <2>2
    <2>4. QED
        BY <1>10, <2>3 DEF Bounded, CapacityOvershootBounded, Waiting, bound

\* Any other step leaves the waiting batches alone or drops one, and no more
\* rows are live after it.
LEMMA SmallerBounded ==
    ASSUME IInv, IInv', Bounded,
           \A p \in Producers : offers'[p] = offers[p] \/ offers'[p] = {},
           Cardinality(Live') <= Cardinality(Live)
    PROVE  Bounded'
<1>t. TypeOK /\ TypeOK'
    BY DEF IInv
<1>1. Waiting' \subseteq Waiting
    BY DEF Waiting
<1>2. /\ Cardinality(Live) \in Nat /\ Cardinality(Waiting) \in Nat /\ IsFiniteSet(Waiting)
      /\ Cardinality(Live') \in Nat /\ Cardinality(Waiting') \in Nat
    BY <1>t, FiniteFacts, FiniteNext
<1>3. Cardinality(Waiting') <= Cardinality(Waiting)
    BY <1>1, <1>2, FS_Subset
<1>4. \A q \in Producers : Cardinality(offers'[q]) <= MaxBatch
    BY FS_EmptySet, QueueAssumption DEF Bounded
<1> DEFINE bound == Capacity + (Cardinality(Producers) - 1) * MaxBatch
<1>5. bound \in Int
    BY <1>t, FiniteFacts, QueueAssumption
<1>6. Cardinality(Live) + Cardinality(Waiting) <= bound
    BY DEF Bounded, CapacityOvershootBounded, Waiting
<1> HIDE DEF bound
<1>7. Cardinality(Live') + Cardinality(Waiting') <= bound
    BY <1>2, <1>3, <1>5, <1>6
<1>8. QED
    BY <1>4, <1>7 DEF Bounded, CapacityOvershootBounded, Waiting, bound

\* A step that inserts no producer's rows has as many live rows as before, or
\* fewer: a hand-off replaces one.
LEMMA LiveShrinks ==
    ASSUME IInv, TableKept \/ RowRewritten \/ RowCompleted \/ RowHandedOff
    PROVE  Cardinality(Live') <= Cardinality(Live)
<1>t. IsFiniteSet(Live) /\ Cardinality(Live) \in Nat
    BY FiniteFacts DEF IInv
<1>1. ASSUME Live' \subseteq Live PROVE Cardinality(Live') <= Cardinality(Live)
    BY <1>t, <1>1, FS_Subset
<1>2. CASE TableKept
    BY <1>1, <1>2 DEF TableKept, Live
<1>3. CASE RowRewritten
    <2>1. PICK r \in Live, row \in Row : rows' = [rows EXCEPT ![r] = row]
        BY <1>3 DEF RowRewritten
    <2>2. \A s \in RowIds \ {r} : rows'[s] = rows[s]
        BY <2>1 DEF IInv, TypeOK
    <2>3. Live' \subseteq Live
        BY <2>2 DEF Live
    <2>4. QED
        BY <1>1, <2>3
<1>4. CASE RowCompleted
    <2>1. PICK r \in Live, gone \in SUBSET RowIds, row \in Row :
             rows' = [s \in RowIds |-> IF s \in gone THEN Absent
                                       ELSE IF s = r THEN row ELSE rows[s]]
        BY <1>4 DEF RowCompleted
    <2>2. Live' \subseteq Live
        BY <2>1 DEF Live, Absent
    <2>3. QED
        BY <1>1, <2>2
<1>5. CASE RowHandedOff
    <2>1. PICK r \in Live, new \in HandoffIds \ spent, row \in Row, copy \in Row :
            /\ row.status = "failed" /\ row.attempts = rows[r].attempts
            /\ row.message = rows[r].message /\ row.lane = rows[r].lane
            /\ row.parent = rows[r].parent /\ row.sound = rows[r].sound
            /\ row.lane # "quarantine" /\ row.attempts >= MaxAttempts[row.lane]
            /\ copy.status = "pending" /\ copy.message = rows[r].message
            /\ copy.lane = NextLane[row.lane] /\ copy.parent = r
            /\ rows' = [rows EXCEPT ![r] = row, ![new] = copy]
            /\ spent' = spent \cup {new}
            /\ UNCHANGED <<accepted, acked>>
        BY <1>5 DEF RowHandedOff
    <2>2. r \in Present /\ r \in RowIds
        BY DEF Live, Present
    <2>3. new # r /\ new \in RowIds
        BY <2>1, <2>2, QueueAssumption DEF RowIds, IInv, RowsKnown, TypeOK
    <2>4. rows'[r] = row /\ \A s \in RowIds \ {r, new} : rows'[s] = rows[s]
        BY <2>1, <2>2, <2>3 DEF IInv, TypeOK
    <2>5. Live' \subseteq (Live \ {r}) \cup {new}
        BY <2>1, <2>4 DEF Live
    <2>6. /\ IsFiniteSet(Live \ {r}) /\ Cardinality(Live \ {r}) = Cardinality(Live) - 1
        BY <1>t, <2>1, FS_RemoveElement
    <2>7. /\ IsFiniteSet((Live \ {r}) \cup {new})
          /\ \/ Cardinality((Live \ {r}) \cup {new}) = Cardinality(Live \ {r}) + 1
             \/ Cardinality((Live \ {r}) \cup {new}) = Cardinality(Live \ {r})
        BY <2>6, FS_AddElement
    <2>8. Cardinality(Live') <= Cardinality((Live \ {r}) \cup {new}) /\ IsFiniteSet(Live')
        BY <2>5, <2>7, FS_Subset
    <2>9. Cardinality(Live') \in Nat
        BY <2>8, FS_CardinalityType
    <2>10. QED
        BY <1>t, <2>6, <2>7, <2>8, <2>9
<1>6. QED
    BY <1>2, <1>3, <1>4, <1>5

LEMMA BoundedStep == IInv /\ IInv' /\ Bounded /\ [Next]_vars => Bounded'
<1> SUFFICES ASSUME IInv, IInv', Bounded, [Next]_vars PROVE Bounded'
    OBVIOUS
<1>1. ASSUME NEW p \in Producers, EnqueueAbandon(p) PROVE Bounded'
    <2>1. \A q \in Producers : offers'[q] = offers[q] \/ offers'[q] = {}
        BY <1>1 DEF EnqueueAbandon, IInv, TypeOK
    <2>2. TableKept
        BY <1>1 DEF EnqueueAbandon, TableKept
    <2>3. QED
        BY <2>1, <2>2, LiveShrinks, SmallerBounded
<1>2. ASSUME UNCHANGED offers, TableKept \/ RowRewritten \/ RowCompleted \/ RowHandedOff
      PROVE  Bounded'
    BY <1>2, LiveShrinks, SmallerBounded
<1>3. CASE UNCHANGED vars
    BY <1>2, <1>3 DEF vars, TableKept
<1>4. ASSUME NEW w \in Workers,
             WorkerStep(w) \/ Renew(w) \/ Close(w) \/ Stall(w) \/ WorkerError(w) \/ Kill(w)
      PROVE  Bounded'
    <2>1. UNCHANGED <<offers, accepted>>
        BY <1>4 DEF WorkerStep, Start, Close, LeaseSelect, LeaseClaim, Deliver, DeliverDamaged,
                    DeliverHandler, Renew, Settle, Ack, Retry, Handoff, FailWithoutHandoff,
                    Stall, WorkerError, Kill
    <2>2. TableStep
        BY StepKinds
    <2>3. RowsInserted => TableKept
        BY <2>1 DEF RowsInserted, TableKept, IInv, TypeOK
    <2>4. QED
        BY <1>2, <2>1, <2>2, <2>3 DEF TableStep
<1>5. ASSUME NEW r \in RowIds, Elapse(r) \/ Damage(r) PROVE Bounded'
    BY <1>2, <1>5, FaultStep DEF Elapse, Damage
<1>6. QED
    BY <1>1, <1>3, <1>4, <1>5, CheckBounded, InsertBounded DEF Next

LEMMA BoundedInit == Init => Bounded
<1> SUFFICES ASSUME Init PROVE Bounded
    OBVIOUS
<1>1. Live = {} /\ Waiting = {} /\ \A p \in Producers : offers[p] = {}
    BY DEF Init, Live, Waiting, Absent
<1>2. Cardinality({}) = 0 /\ MaxBatch \in Nat /\ Capacity \in Nat
    BY FS_EmptySet, QueueAssumption
<1>3. Cardinality(Producers) - 1 \in Nat
    BY FiniteFacts, TypeInit
<1>4. (Cardinality(Producers) - 1) * MaxBatch \in Nat
    BY <1>2, <1>3
<1>5. Cardinality(Live) + Cardinality(Waiting) = 0
    BY <1>1, <1>2
<1>6. \A p \in Producers : Cardinality(offers[p]) <= MaxBatch
    BY <1>1, <1>2
<1> DEFINE over == (Cardinality(Producers) - 1) * MaxBatch
<1>7. over \in Nat
    BY <1>4
<1> HIDE DEF over
<1>8. Cardinality(Live) + Cardinality(Waiting) <= Capacity + over
    BY <1>2, <1>5, <1>7
<1>9. QED
    BY <1>6, <1>8 DEF Bounded, CapacityOvershootBounded, Waiting, over

\* Producers that pass the capacity check together exceed the capacity by at
\* most one batch for each of the others, and no hand-off adds to it (enqueue).
THEOREM Overshoot_Bounded == Spec => []CapacityOvershootBounded
<1>1. Init => Bounded
    BY BoundedInit
<1>2. IInv /\ IInv' /\ Bounded /\ [Next]_vars => Bounded'
    BY BoundedStep
<1>3. Bounded => CapacityOvershootBounded
    BY DEF Bounded
<1>4. QED
    BY <1>1, <1>2, <1>3, Inductive, PTL DEF Spec
=============================================================================
