-------------------------- MODULE SourceOutboxProofs --------------------------
(* Proofs about SourceOutbox, for any number of runs, drains, messages,      *)
(* faults and mistaken refusals.                                             *)
EXTENDS SourceOutbox, FiniteSetTheorems, TLAPS

-----------------------------------------------------------------------------
(* Items, messages and the fields of an outbox row. *)

LEMMA ItemFacts ==
    ASSUME NEW r \in Runs
    PROVE  /\ Size[r] \in Nat /\ Size[r] > 0
           /\ Items(r) \subseteq Nat /\ 0 \in Items(r)
           /\ IsFiniteSet(Items(r)) /\ Cardinality(Items(r)) = Size[r]
<1>1. Size[r] \in Nat /\ Size[r] > 0
    BY OutboxAssumption
<1>2. 0 \in Int /\ Size[r] - 1 \in Int /\ ~(0 > Size[r] - 1) /\ (Size[r] - 1) - 0 + 1 = Size[r]
    BY <1>1
<1>3. IsFiniteSet(Items(r)) /\ Cardinality(Items(r)) = (Size[r] - 1) - 0 + 1
    BY <1>2, FS_Interval, Zenon DEF Items
<1>4. QED
    BY <1>1, <1>2, <1>3 DEF Items

LEMMA MessageFacts ==
    /\ \A m \in Messages : m = <<m[1], m[2]>> /\ m[1] \in Runs /\ m[2] \in Items(m[1])
    /\ \A r \in Runs : \A i \in Items(r) : <<r, i>> \in Messages
BY DEF Messages

LEMMA RunBatch ==
    ASSUME NEW r \in Runs, NEW S, S \subseteq Items(r)
    PROVE  {r} \X S \subseteq Messages
<1>1. ASSUME NEW x \in {r} \X S PROVE x \in {r} \X Items(r)
    BY <1>1
<1>2. QED
    BY <1>1 DEF Messages

LEMMA NoBoxFacts == NoBox.state = "none" /\ NoBox \notin Header
<1>1. \A h \in Header : h.state # "none"
    BY DEF Header
<1>2. QED
    BY <1>1 DEF NoBox

LEMMA BoxFacts ==
    ASSUME TypeOK, NEW r \in Runs, box[r] # NoBox
    PROVE  /\ box[r] \in Header
           /\ box[r].state \in {"staging", "ready", "abandoned"}
           /\ box[r].bodies \subseteq Items(r)
           /\ box[r].next \in Nat /\ box[r].lease \in Drains \cup {None}
BY DEF TypeOK, Header

LEMMA HeaderEdit ==
    ASSUME NEW h \in Header
    PROVE  /\ \A s \in {"staging", "ready", "abandoned"} : [h EXCEPT !.state = s] \in Header
           /\ \A b \in SUBSET Nat : [h EXCEPT !.bodies = b] \in Header
           /\ \A n \in Nat : [h EXCEPT !.next = n] \in Header
           /\ \A due \in BOOLEAN : [h EXCEPT !.due = due] \in Header
           /\ [h EXCEPT !.state = "abandoned", !.lease = None] \in Header
           /\ \A d \in Drains \cup {None} : [h EXCEPT !.lease = d, !.due = FALSE] \in Header
BY DEF Header

LEMMA HeaderMoved ==
    ASSUME NEW h \in Header, NEW s \in {"staging", "ready", "abandoned"}
    PROVE  /\ [h EXCEPT !.state = s] \in Header
           /\ [h EXCEPT !.state = s].state = s
           /\ [h EXCEPT !.state = s].bodies = h.bodies
BY DEF Header

LEMMA HeaderFilled ==
    ASSUME NEW h \in Header, NEW b \in SUBSET Nat
    PROVE  /\ [h EXCEPT !.bodies = b] \in Header
           /\ [h EXCEPT !.bodies = b].bodies = b
           /\ [h EXCEPT !.bodies = b].state = h.state
BY DEF Header

LEMMA HeaderDropped ==
    ASSUME NEW h \in Header
    PROVE  /\ [h EXCEPT !.state = "abandoned", !.lease = None] \in Header
           /\ [h EXCEPT !.state = "abandoned", !.lease = None].bodies = h.bodies
BY DEF Header

LEMMA HeaderLeased ==
    ASSUME NEW h \in Header, NEW d \in Drains \cup {None}
    PROVE  /\ [h EXCEPT !.lease = d, !.due = FALSE] \in Header
           /\ [h EXCEPT !.lease = d, !.due = FALSE].state = h.state
           /\ [h EXCEPT !.lease = d, !.due = FALSE].bodies = h.bodies
BY DEF Header

LEMMA StagingFacts == Staging \in Header /\ Staging.bodies = {} /\ Staging.state = "staging"
BY DEF Staging, Header

LEMMA IdleFacts ==
    /\ Idle \notin Reading \cup Batch /\ Idle \notin Delivery
    /\ Idle.phase = "idle"
<1>1. \A w \in Reading \cup Batch : w.phase # "idle"
    BY DEF Reading, Batch
<1>2. \A c \in Delivery : c.phase # "idle"
    BY DEF Delivery
<1>3. QED
    BY <1>1, <1>2 DEF Idle

\* A set of natural numbers has a least element, and Min picks it.
LEMMA LeastElement ==
    ASSUME NEW S \in SUBSET Nat, S # {}
    PROVE  \E x \in S : \A y \in S : x <= y
<1> DEFINE R == OpToRel(<, Nat)
<1>1. IsWellFoundedOn(R, Nat)
    BY NatLessThanWellFounded
<1>2. \A x, y \in Nat : x < y => <<x, y>> \in R
    BY DEF OpToRel
<1> HIDE DEF R
<1>3. PICK x \in S : \A y \in S : <<y, x>> \notin R
    BY <1>1, WFMin
<1>4. ASSUME NEW y \in S PROVE x <= y
  <2>1. x \in Nat /\ y \in Nat /\ ~(y < x)
      BY <1>2, <1>3
  <2>2. QED
      BY <2>1
<1>5. QED
    BY <1>4

LEMMA MinFacts ==
    ASSUME NEW S \in SUBSET Nat, S # {}
    PROVE  Min(S) \in S /\ \A y \in S : Min(S) <= y
BY LeastElement DEF Min

\* What a batch leaves out up to its end has an outcome.
LEMMA BatchFacts ==
    ASSUME NEW r \in Runs, NEW from \in Nat
    PROVE  LET range == BatchRange(r, from)
           IN  /\ range.send \subseteq Items(r)
               /\ range.through \in Int /\ range.through >= -1
               /\ \A i \in Items(r) : from <= i /\ i <= range.through =>
                     i \in range.send \/ receipts[r][i] # "none"
<1> DEFINE fits == {i \in Unsettled(r, from) :
                      Cardinality({j \in Unsettled(r, from) : j < i}) < BatchMax}
           rest == Unsettled(r, from) \ fits
           range == BatchRange(r, from)
<1>1. Unsettled(r, from) \subseteq Items(r) /\ Items(r) \subseteq Nat
    BY ItemFacts DEF Unsettled
<1>2. fits \subseteq Items(r) /\ rest \in SUBSET Nat
    BY <1>1
<1>3. /\ range.send = fits
      /\ range.through = IF rest = {} THEN Size[r] - 1 ELSE Min(rest) - 1
    BY DEF BatchRange
<1>4. \A i \in Items(r) : from <= i =>
         i \in fits \/ i \in rest \/ receipts[r][i] # "none"
    BY ItemFacts DEF Unsettled
<1> HIDE DEF fits, rest, range
<1>5. CASE rest = {}
    BY <1>2, <1>3, <1>4, <1>5, ItemFacts DEF range
<1>6. CASE rest # {}
  <2>1. Min(rest) \in Nat /\ \A i \in rest : Min(rest) <= i
      BY <1>2, <1>6, MinFacts
  <2>2. \A i \in rest : i \in Nat /\ ~(i <= Min(rest) - 1)
      BY <1>2, <2>1
  <2>3. range.through = Min(rest) - 1
      BY <1>3, <1>6
  <2>4. range.through \in Int /\ range.through >= -1
      BY <2>1, <2>3
  <2>5. \A i \in Items(r) : from <= i /\ i <= range.through =>
           i \in range.send \/ receipts[r][i] # "none"
      BY <1>3, <1>4, <2>2, <2>3
  <2>6. QED
      BY <1>2, <1>3, <2>4, <2>5 DEF range
<1>7. QED
    BY <1>5, <1>6
-----------------------------------------------------------------------------
(* The inductive invariant. *)

\* Where a run is, seen from its ledger row: an ended row is an accounted one, a
\* row is queued with all its items, and its source's health follows the mark; a
\* run that changed it twice has no header and never will.
RowFollowsRun(r) ==
    /\ run[r].accounted <=> run[r].status \in Ended
    /\ run[r].status \in {"none", "running"} => run[r].enqueued = 0
    /\ run[r].status = "queued" => run[r].enqueued = Size[r]
    /\ run[r].enqueued \in {0, Size[r]}
    /\ health[r] <= 2
    /\ health[r] > 0 => run[r].accounted
    /\ run[r].accounted /\ run[r].enqueued > 0 => health[r] = 1
    /\ health[r] = 2 => run[r].status = "failed" /\ producer[r] = "done" /\ box[r] = NoBox

\* A ready run has its bodies, and while it is open its row is queued and its
\* raw evidence is there; a staging without raw evidence is never filled.
BoxFollowsRun(r) ==
    /\ IsReady(r) => box[r].bodies = Items(r)
    /\ IsReady(r) => run[r].status \in Ended \cup {"queued"}
    /\ IsReady(r) /\ ~run[r].accounted => raw[r]
    /\ box[r].state = "staging" =>
          raw[r] \/ (box[r].bodies = {} /\ producer[r] \in {"failing", "done"})

\* What the producer of a run knows of the row and the staging.
ProducerFollowsRun(r) ==
    /\ producer[r] = "new" => run[r].status = "none" /\ box[r] = NoBox
    /\ producer[r] = "collecting" => run[r].status = "running" /\ box[r] = NoBox
    /\ producer[r] = "unfinished" =>
          /\ run[r].status \in {"running", "success", "partial"}
          /\ run[r].enqueued = 0 /\ box[r] = NoBox
    /\ box[r].state = "staging" /\ producer[r] \in {"staging", "discarding", "activating",
                                                    "confirming"}
          => run[r].status = "running"

\* As long as no error was taken for a refusal, a producer that fails its run has
\* activated nothing, an activated run stays in the outbox until each of its
\* items has an outcome, and it is accounted only then.
Faithful(r) ==
    /\ producer[r] = "failing" =>
          /\ run[r].status \in {"running", "failed"} /\ run[r].enqueued = 0
          /\ ~IsReady(r)
          /\ box[r].state = "staging" => box[r].bodies # Items(r)
    /\ IsReady(r) => run[r].enqueued = Size[r]
    /\ run[r].enqueued > 0 /\ (run[r].accounted \/ ~IsReady(r)) =>
          \A i \in Items(r) : receipts[r][i] # "none"

Life(r) ==
    /\ RowFollowsRun(r) /\ BoxFollowsRun(r) /\ ProducerFollowsRun(r)
    /\ escapes = 0 => Faithful(r)

Lifecycle == \A r \in Runs : Life(r)

\* What a run has not staged no drain has, and the queue neither; a run is only
\* failed after its end when the batch that ended it threw.
Early == {"new", "collecting", "unfinished"}

Untouched(r) ==
    /\ producer[r] \in Early \/ health[r] > 1 =>
          /\ \A m \in sent : m[1] # r
          /\ \A d \in Drains : drain[d] # Idle => drain[d].run # r
    /\ producer[r] = "unfinished" \/ health[r] > 1 => faults > 0

Unstaged == \A r \in Runs : Untouched(r)

\* Only activated runs are drained and sent.
OnlyActivated ==
    escapes = 0 =>
        /\ \A m \in sent : run[m[1]].enqueued > 0
        /\ \A d \in Drains : drain[d] # Idle => run[drain[d].run].enqueued > 0

\* What lies before the position of a drain was sent; what lies before the end
\* of its batch was sent or is about to be.
SentBelow(r, n) == \A i \in Items(r) : i < n => <<r, i>> \in sent

DrainCovered(d) ==
    /\ drain[d] # Idle => SentBelow(drain[d].run, drain[d].next)
    /\ drain[d].phase = "sending" =>
          \A i \in Items(drain[d].run) :
              i <= drain[d].through => i \in drain[d].send \/ <<drain[d].run, i>> \in sent
    /\ drain[d].phase = "checkpointing" => SentBelow(drain[d].run, drain[d].through + 1)

Covered ==
    /\ CursorCovered
    /\ \A r \in Runs : box[r].state = "staging" => box[r].next = 0
    /\ \A d \in Drains : DrainCovered(d)

\* Only what was sent is queued, delivered and settled; a delivery is a copy
\* that is still in its lane, and what the dead-letter consumer acknowledges is
\* kept.
DeliveryFollowsQueue(lane) ==
    /\ \A m \in Messages : queue[lane][m] > 0 => m \in sent
    /\ consumer[lane] # Idle => queue[lane][consumer[lane].message] > 0

Delivered ==
    /\ \A lane \in Lanes : DeliveryFollowsQueue(lane)
    /\ \A m \in Messages : receipts[m[1]][m[2]] # "none" => m \in sent
    /\ consumer["dead-letter"].phase = "acking" => consumer["dead-letter"].message \in incidents

IInv ==
    /\ TypeOK /\ Lifecycle /\ Unstaged /\ OnlyActivated /\ Covered /\ Delivered
    /\ FailedRecoverable /\ NothingLost

-----------------------------------------------------------------------------
(* The type invariant. *)

LEMMA InitTyped == Init => TypeOK
<1> SUFFICES ASSUME Init PROVE TypeOK
    OBVIOUS
<1>1. run \in [Runs -> RunRow] /\ receipts \in [Runs -> UNION {[Items(r) -> {"none"}] : r \in Runs}]
    BY DEF Init, RunRow
<1>2. \A r \in Runs : receipts[r] \in [Items(r) -> Outcomes \cup {"none"}]
    BY DEF Init, Outcomes
<1>3. 0 \in 0..MaxFaults /\ 0 \in 0..MaxEscapes
    BY OutboxAssumption
<1>4. drain \in [Drains -> Reading \cup Batch \cup {Idle}]
    BY DEF Init
<1>5. \A d \in Drains : drain[d].phase \notin {"sending", "checkpointing"}
    BY IdleFacts DEF Init
<1>6. QED
    BY <1>1, <1>2, <1>3, <1>4, <1>5 DEF Init, TypeOK, Lanes

\* InsertChunk leaves a longer prefix of the bodies.
LEMMA ChunkFacts ==
    ASSUME TypeOK, NEW r \in Runs, box[r] # NoBox, InsertChunk(r)
    PROVE  \E b \in SUBSET Items(r) :
              /\ b # {} /\ box[r].bodies # Items(r)
              /\ box' = [box EXCEPT ![r] = [box[r] EXCEPT !.bodies = b]]
<1>1. PICK last \in Items(r) :
          /\ box[r].bodies \subseteq 0..last /\ 0..last # box[r].bodies
          /\ box' = [box EXCEPT ![r].bodies = 0..last]
    BY DEF InsertChunk
<1>2. 0..last \in SUBSET Items(r) /\ 0 \in 0..last
    BY ItemFacts DEF Items
<1>3. box[r].bodies # Items(r)
    BY <1>1, <1>2
<1>4. QED
    BY <1>1, <1>2, <1>3

LEMMA BoxStaysTyped ==
    ASSUME TypeOK, NEW r \in Runs, NEW b \in Header \cup {NoBox},
           b # NoBox => b.bodies \subseteq Items(r), box' = [box EXCEPT ![r] = b]
    PROVE  /\ box' \in [Runs -> Header \cup {NoBox}]
           /\ \A q \in Runs : box'[q] # NoBox => box'[q].bodies \subseteq Items(q)
BY DEF TypeOK

LEMMA RowEdit ==
    ASSUME NEW row \in RunRow, NEW n \in Nat
    PROVE  [row EXCEPT !.status = "queued", !.enqueued = n] \in RunRow
BY DEF RunRow

LEMMA RowBegun ==
    ASSUME NEW row \in RunRow
    PROVE  [row EXCEPT !.status = "running"] \in RunRow
BY DEF RunRow

\* The steps that leave the drains and the queue alone.
LEMMA ProducerTyped ==
    ASSUME TypeOK, NEW r \in Runs, Produce(r)
    PROVE  TypeOK'
<1> DEFINE BoxTyped == /\ box' \in [Runs -> Header \cup {NoBox}]
                       /\ \A q \in Runs : box'[q] # NoBox => box'[q].bodies \subseteq Items(q)
<1>u. UNCHANGED box => BoxTyped
    BY DEF TypeOK
<1>f. Fault => faults' \in 0..MaxFaults /\ escapes' \in 0..MaxEscapes
    BY OutboxAssumption DEF Fault, TypeOK
<1>e. Escape => faults' \in 0..MaxFaults /\ escapes' \in 0..MaxEscapes
    BY OutboxAssumption DEF Escape, TypeOK
<1>c. ASSUME InsertChunk(r), box[r] # NoBox PROVE BoxTyped
  <2>1. PICK b \in SUBSET Items(r) : box' = [box EXCEPT ![r] = [box[r] EXCEPT !.bodies = b]]
      BY <1>c, ChunkFacts
  <2>2. b \in SUBSET Nat
      BY ItemFacts
  <2>3. box[r] \in Header
      BY <1>c, BoxFacts
  <2>4. [box[r] EXCEPT !.bodies = b] \in Header /\ [box[r] EXCEPT !.bodies = b].bodies = b
      BY <2>2, <2>3, HeaderEdit DEF Header
  <2>5. QED
      BY <2>1, <2>4, BoxStaysTyped
<1>s. box' = [box EXCEPT ![r] = Staging] => BoxTyped
    BY BoxStaysTyped, StagingFacts
<1>n. box' = [box EXCEPT ![r] = NoBox] => BoxTyped
    BY BoxStaysTyped
<1>a. ASSUME ActivateBatch(r) PROVE BoxTyped /\ run' \in [Runs -> RunRow]
  <2>r. run' \in [Runs -> RunRow]
    <3>1. [run[r] EXCEPT !.status = "queued", !.enqueued = Size[r]] \in RunRow
        BY ItemFacts, RowEdit DEF TypeOK
    <3>2. run' = run \/ run' = [run EXCEPT ![r] = [run[r] EXCEPT !.status = "queued",
                                                             !.enqueued = Size[r]]]
        BY <1>a DEF ActivateBatch
    <3>3. QED
        BY <3>1, <3>2 DEF TypeOK
  <2>1. CASE box' = box
      BY <2>1, <2>r, <1>u
  <2>2. CASE box' # box
    <3>1. /\ box[r] # NoBox
          /\ box' = [box EXCEPT ![r] = [box[r] EXCEPT !.state = "ready"]]
        BY <1>a, <2>2, NoBoxFacts DEF ActivateBatch, IsReady
    <3>2. /\ [box[r] EXCEPT !.state = "ready"] \in Header
          /\ [box[r] EXCEPT !.state = "ready"].bodies = box[r].bodies
        BY <3>1, BoxFacts, HeaderMoved
    <3>3. QED
        BY <2>r, <3>1, <3>2, BoxFacts, BoxStaysTyped
  <2>3. QED
      BY <2>1, <2>2
<1> HIDE DEF BoxTyped
<1>1. ASSUME NEW status \in Ended, NEW n \in Nat, NEW hit \in BOOLEAN,
             Finish(r, status, n, hit)
      PROVE  run' \in [Runs -> RunRow] /\ health' \in [Runs -> Nat] /\ UNCHANGED receipts
    BY <1>1 DEF Finish, RunRow, TypeOK
<1>w. ASSUME FailUnsent(r) \/ FinishEmpty(r)
      PROVE  run' \in [Runs -> RunRow] /\ health' \in [Runs -> Nat] /\ UNCHANGED receipts
  <2>1. run[r].enqueued \in Nat
      BY DEF TypeOK, RunRow
  <2>2. QED
      BY <1>1, <1>w, <2>1 DEF FailUnsent, FinishEmpty, Ended
<1>2. CASE Begin(r)
  <2>1. [run[r] EXCEPT !.status = "running"] \in RunRow
      BY RowBegun DEF TypeOK
  <2>2. run' = [run EXCEPT ![r] = [run[r] EXCEPT !.status = "running"]]
      BY <1>2 DEF Begin
  <2>3. run' \in [Runs -> RunRow]
      BY <2>1, <2>2 DEF TypeOK
  <2>4. QED
      BY <1>2, <1>u, <2>3 DEF Begin, Step, TypeOK, transport, bounds, BoxTyped
<1>3. CASE CollectNothing(r)
    BY <1>3, <1>u, <1>w DEF CollectNothing, Step, TypeOK, transport, bounds, BoxTyped
<1>14. CASE FinishThrows(r)
    BY <1>14, <1>u, <1>w, <1>f DEF FinishThrows, Step, TypeOK, ledger, transport, BoxTyped
<1>15. CASE FinishUnsent(r)
    BY <1>15, <1>u, <1>w DEF FinishUnsent, Step, TypeOK, transport, bounds, BoxTyped
<1>4. CASE Reserve(r)
    BY <1>4, <1>u, <1>s DEF Reserve, Step, TypeOK, ledger, transport, bounds, BoxTyped
<1>5. CASE ReserveThrows(r)
    BY <1>5, <1>u, <1>s, <1>f DEF ReserveThrows, Step, TypeOK, ledger, transport, BoxTyped
<1>6. CASE Stage(r)
    BY <1>6, <1>u, <1>c DEF Stage, Step, TypeOK, ledger, transport, bounds, BoxTyped
<1>7. CASE StageThrows(r)
    BY <1>7, <1>u, <1>c, <1>f DEF StageThrows, Step, TypeOK, ledger, transport, BoxTyped
<1>8. CASE Discard(r)
    BY <1>8, <1>u, <1>n DEF Discard, Step, TypeOK, ledger, transport, bounds, BoxTyped
<1>9. CASE Activate(r)
  <2>1. CASE Complete(r)
      BY <1>9, <2>1, <1>a DEF Activate, ActivateBatch, Step, TypeOK, transport, bounds, BoxTyped
  <2>2. CASE ~Complete(r)
      BY <1>9, <2>2, <1>u DEF Activate, Step, TypeOK, ledger, transport, bounds, BoxTyped
  <2>3. QED
      BY <2>1, <2>2
<1>10. CASE Confirm(r)
    BY <1>10, <1>u DEF Confirm, Step, TypeOK, ledger, transport, bounds, BoxTyped
<1>11. CASE HandoffThrows(r)
    BY <1>11, <1>u, <1>e DEF HandoffThrows, Step, TypeOK, ledger, transport, BoxTyped
<1>12. CASE FinishFailed(r)
  <2>1. run' \in [Runs -> RunRow] /\ health' \in [Runs -> Nat] /\ UNCHANGED receipts
      BY <1>1, <1>12 DEF FinishFailed, Ended
  <2>2. QED
      BY <1>12, <1>u, <2>1 DEF FinishFailed, Step, TypeOK, transport, bounds, BoxTyped
<1>13. CASE ProducerEnds(r)
    BY <1>13, <1>u, <1>f DEF ProducerEnds, Step, TypeOK, ledger, transport, BoxTyped
<1>16. QED
    BY <1>2, <1>3, <1>4, <1>5, <1>6, <1>7, <1>8, <1>9, <1>10, <1>11, <1>12, <1>13, <1>14, <1>15
       DEF Produce

LEMMA MaintenanceTyped ==
    ASSUME TypeOK, NEW r \in Runs, Maintain(r) \/ LeaseExpires(r)
    PROVE  TypeOK'
<1> DEFINE BoxTyped == /\ box' \in [Runs -> Header \cup {NoBox}]
                       /\ \A q \in Runs : box'[q] # NoBox => box'[q].bodies \subseteq Items(q)
<1>1. ASSUME NEW h \in Header, h.bodies \subseteq Items(r), box' = [box EXCEPT ![r] = h]
      PROVE  BoxTyped
    BY <1>1, BoxStaysTyped
<1>2. box' = [box EXCEPT ![r] = NoBox] => BoxTyped
    BY BoxStaysTyped
<1>3. box[r] # NoBox => box[r] \in Header /\ box[r].bodies \subseteq Items(r)
    BY BoxFacts
<1> HIDE DEF BoxTyped
<1>4. CASE Resume(r)
  <2>1. box[r] # NoBox /\ box' = [box EXCEPT ![r] = [box[r] EXCEPT !.state = "ready"]]
      BY <1>4, NoBoxFacts DEF Resume, ActivateBatch
  <2>2. BoxTyped
    <3>1. /\ [box[r] EXCEPT !.state = "ready"] \in Header
          /\ [box[r] EXCEPT !.state = "ready"].bodies = box[r].bodies
        BY <1>3, <2>1, HeaderEdit DEF Header
    <3>2. QED
        BY <1>1, <1>3, <2>1, <3>1
  <2>3. run' \in [Runs -> RunRow]
    <3>1. [run[r] EXCEPT !.status = "queued", !.enqueued = Size[r]] \in RunRow
        BY ItemFacts, RowEdit DEF TypeOK
    <3>2. run' = [run EXCEPT ![r] = [run[r] EXCEPT !.status = "queued", !.enqueued = Size[r]]]
        BY <1>4 DEF Resume, ActivateBatch
    <3>3. QED
        BY <3>1, <3>2 DEF TypeOK
  <2>4. QED
      BY <1>4, <2>2, <2>3 DEF Resume, ActivateBatch, TypeOK, transport, bounds, BoxTyped
<1>5. CASE Abandon(r)
  <2>1. box[r] \in Header /\ box[r].bodies \subseteq Items(r)
      BY <1>3, <1>5, NoBoxFacts DEF Abandon
  <2>2. box' = [box EXCEPT ![r] = [box[r] EXCEPT !.state = "abandoned", !.lease = None]]
      BY <1>5 DEF Abandon
  <2>3. /\ [box[r] EXCEPT !.state = "abandoned", !.lease = None] \in Header
        /\ [box[r] EXCEPT !.state = "abandoned", !.lease = None].bodies = box[r].bodies
      BY <2>1, HeaderDropped
  <2>4. BoxTyped
      BY <1>1, <2>1, <2>2, <2>3
  <2>5. run' \in [Runs -> RunRow]
    <3>1. /\ run[r] \in RunRow
          /\ run' = run \/ run' = [run EXCEPT ![r] = [run[r] EXCEPT !.status = "failed",
                                                             !.accounted = TRUE]]
        BY <1>5 DEF Abandon, TypeOK
    <3>2. [run[r] EXCEPT !.status = "failed", !.accounted = TRUE] \in RunRow
        BY <3>1 DEF RunRow, Ended
    <3>3. QED
        BY <3>1, <3>2 DEF TypeOK
  <2>6. QED
      BY <1>5, <2>4, <2>5 DEF Abandon, TypeOK, transport, bounds, BoxTyped
<1>6. CASE CleanBodies(r)
  <2>1. /\ box[r] \in Header
        /\ box' = [box EXCEPT ![r] = [box[r] EXCEPT !.bodies = {}]]
      BY <1>3, <1>6, NoBoxFacts DEF CleanBodies
  <2>2. [box[r] EXCEPT !.bodies = {}] \in Header /\ [box[r] EXCEPT !.bodies = {}].bodies = {}
      BY <2>1, HeaderEdit DEF Header
  <2>3. BoxTyped
      BY <1>1, <2>1, <2>2
  <2>4. QED
      BY <1>6, <2>3 DEF CleanBodies, TypeOK, ledger, transport, bounds, BoxTyped
<1>7. CASE CleanHeader(r)
    BY <1>7, <1>2 DEF CleanHeader, TypeOK, ledger, transport, bounds, BoxTyped
<1>8. CASE DeleteTerminal(r)
    BY <1>8, <1>2 DEF DeleteTerminal, TypeOK, ledger, transport, bounds, BoxTyped
<1>9. CASE LeaseExpires(r)
  <2>1. /\ box[r] \in Header
        /\ box' = [box EXCEPT ![r] = [box[r] EXCEPT !.due = TRUE]]
      BY <1>3, <1>9, NoBoxFacts DEF LeaseExpires, IsReady
  <2>2. /\ [box[r] EXCEPT !.due = TRUE] \in Header
        /\ [box[r] EXCEPT !.due = TRUE].bodies = box[r].bodies
      BY <2>1, HeaderEdit DEF Header
  <2>3. BoxTyped
      BY <1>1, <1>3, <2>1, <2>2, NoBoxFacts
  <2>4. QED
      BY <1>9, <2>3 DEF LeaseExpires, TypeOK, ledger, transport, bounds, BoxTyped
<1>10. QED
    BY <1>4, <1>5, <1>6, <1>7, <1>8, <1>9 DEF Maintain

\* What a drain that is not idle holds.
LEMMA DrainFacts ==
    ASSUME TypeOK, NEW d \in Drains
    PROVE  /\ drain[d] # Idle => drain[d].run \in Runs /\ drain[d].next \in Nat
           /\ drain[d].phase \in {"claimed", "selecting"} =>
                 drain[d] \in Reading
           /\ drain[d].phase \in {"sending", "checkpointing"} =>
                 /\ drain[d] \in Batch /\ drain[d].through \in Int
                 /\ drain[d].send \subseteq Items(drain[d].run)
                 /\ drain[d].through + 1 \in Nat
           /\ drain[d] # Idle <=> drain[d].phase # "idle"
<1>1. drain[d] \in Reading \cup Batch \cup {Idle}
    BY DEF TypeOK
<1>2. /\ \A w \in Reading : /\ w.run \in Runs /\ w.next \in Nat
                            /\ w.phase \in {"claimed", "selecting"}
      /\ \A w \in Batch : /\ w.run \in Runs /\ w.next \in Nat /\ w.through \in Int
                          /\ w.phase \in {"sending", "checkpointing"}
    BY DEF Reading, Batch
<1>3. drain[d].phase \in {"sending", "checkpointing"} =>
         drain[d].send \subseteq Items(drain[d].run) /\ drain[d].through >= -1
    BY DEF TypeOK
<1>4. QED
    BY <1>1, <1>2, <1>3, IdleFacts

LEMMA DrainStaysTyped ==
    ASSUME TypeOK, NEW d \in Drains, NEW w \in Reading \cup Batch \cup {Idle}, Become(d, w),
           w.phase \in {"sending", "checkpointing"} =>
              w.send \subseteq Items(w.run) /\ w.through >= -1
    PROVE  /\ drain' \in [Drains -> Reading \cup Batch \cup {Idle}]
           /\ \A e \in Drains : drain'[e].phase \in {"sending", "checkpointing"} =>
                 /\ drain'[e].send \subseteq Items(drain'[e].run)
                 /\ drain'[e].through >= -1
BY DEF TypeOK, Become

LEMMA DrainTyped ==
    ASSUME TypeOK, NEW d \in Drains, DrainStep(d) \/ DrainFails(d)
    PROVE  TypeOK'
<1> DEFINE BoxTyped == /\ box' \in [Runs -> Header \cup {NoBox}]
                       /\ \A q \in Runs : box'[q] # NoBox => box'[q].bodies \subseteq Items(q)
           DrainOK == /\ drain' \in [Drains -> Reading \cup Batch \cup {Idle}]
                      /\ \A e \in Drains : drain'[e].phase \in {"sending", "checkpointing"} =>
                            /\ drain'[e].send \subseteq Items(drain'[e].run)
                            /\ drain'[e].through >= -1
<1>1. ASSUME NEW r \in Runs, NEW h \in Header, h.bodies \subseteq Items(r),
             box' = [box EXCEPT ![r] = h]
      PROVE  BoxTyped
    BY <1>1, BoxStaysTyped
<1>2. UNCHANGED box => BoxTyped
    BY DEF TypeOK
<1>3. Become(d, Idle) => DrainOK
    BY DrainStaysTyped, IdleFacts
<1>4. Fault => faults' \in 0..MaxFaults /\ escapes' \in 0..MaxEscapes
    BY OutboxAssumption DEF Fault, TypeOK
<1>5. ASSUME drain[d] # Idle, drain[d].send \subseteq Items(drain[d].run), SendBatch(d)
      PROVE  /\ queue' \in [Lanes -> [Messages -> Nat]] /\ sent' \subseteq Messages
  <2> DEFINE batch == {drain[d].run} \X drain[d].send
  <2>1. drain[d].run \in Runs
      BY <1>5, DrainFacts
  <2>2. batch \subseteq Messages
      BY <1>5, <2>1, RunBatch
  <2> HIDE DEF batch
  <2>3. /\ queue' = [queue EXCEPT !["primary"] =
                       [m \in Messages |-> IF m \in batch THEN queue["primary"][m] + 1
                                           ELSE queue["primary"][m]]]
        /\ sent' = sent \cup batch
      BY <1>5 DEF SendBatch, batch
  <2>4. [m \in Messages |-> IF m \in batch THEN queue["primary"][m] + 1
                            ELSE queue["primary"][m]] \in [Messages -> Nat]
      BY DEF TypeOK, Lanes
  <2>5. QED
      BY <2>2, <2>3, <2>4 DEF TypeOK
<1> HIDE DEF BoxTyped, DrainOK
<1>6. ASSUME NEW r \in Runs, Claim(d, r)
      PROVE  TypeOK'
  <2>1. box[r] \in Header /\ box[r].bodies \subseteq Items(r) /\ box[r].next \in Nat
      BY <1>6, BoxFacts, NoBoxFacts DEF Claim, IsReady
  <2>2. box' = [box EXCEPT ![r] = [box[r] EXCEPT !.lease = d, !.due = FALSE]]
      BY <1>6 DEF Claim
  <2>3. /\ [box[r] EXCEPT !.lease = d, !.due = FALSE] \in Header
        /\ [box[r] EXCEPT !.lease = d, !.due = FALSE].bodies = box[r].bodies
      BY <2>1, HeaderEdit DEF Header
  <2>4. BoxTyped
      BY <1>1, <2>1, <2>2, <2>3
  <2>5. [phase |-> "claimed", run |-> r, next |-> box[r].next] \in Reading
      BY <2>1 DEF Reading
  <2>6. DrainOK
      BY <1>6, <2>5, DrainStaysTyped DEF Claim, DrainOK
  <2>7. QED
      BY <1>6, <2>4, <2>6 DEF Claim, TypeOK, ledger, transport, bounds, BoxTyped, DrainOK
<1>7. ASSUME drain[d] # Idle, ReleaseClaim(d)
      PROVE  BoxTyped /\ DrainOK
  <2> DEFINE r == drain[d].run
  <2>1. r \in Runs
      BY <1>7, DrainFacts
  <2>2. CASE IsReady(r) /\ box[r].lease = d
    <3>1. box[r] \in Header /\ box[r].bodies \subseteq Items(r)
        BY <2>1, <2>2, BoxFacts, NoBoxFacts DEF IsReady
    <3>2. box' = [box EXCEPT ![r] = [box[r] EXCEPT !.lease = None, !.due = FALSE]]
        BY <1>7, <2>2 DEF ReleaseClaim
    <3>3. /\ [box[r] EXCEPT !.lease = None, !.due = FALSE] \in Header
          /\ [box[r] EXCEPT !.lease = None, !.due = FALSE].bodies = box[r].bodies
        BY <3>1, HeaderEdit DEF Header
    <3>4. QED
        BY <1>1, <1>3, <1>7, <2>1, <3>1, <3>2, <3>3 DEF ReleaseClaim
  <2>3. CASE ~(IsReady(r) /\ box[r].lease = d)
      BY <1>2, <1>3, <1>7, <2>3 DEF ReleaseClaim
  <2>4. QED
      BY <2>2, <2>3
<1>8. CASE Refuse(d)
  <2>1. BoxTyped /\ DrainOK
      BY <1>7, <1>8, DrainFacts DEF Refuse
  <2>2. QED
      BY <1>4, <1>8, <2>1 DEF Refuse, ReleaseClaim, TypeOK, ledger, transport, BoxTyped, DrainOK
<1>9. CASE Release(d)
  <2>1. BoxTyped /\ DrainOK
      BY <1>7, <1>9, DrainFacts DEF Release
  <2>2. QED
      BY <1>9, <2>1 DEF Release, ReleaseClaim, TypeOK, ledger, transport, bounds, BoxTyped, DrainOK
<1>10. CASE Select(d)
  <2> DEFINE r == drain[d].run
             range == BatchRange(r, drain[d].next)
             w == [phase |-> IF range.send = {} THEN "checkpointing" ELSE "sending",
                   run |-> r, next |-> drain[d].next,
                   send |-> range.send, through |-> range.through]
  <2>1. r \in Runs /\ drain[d].next \in Nat
      BY <1>10, DrainFacts DEF Select
  <2>2. /\ range.send \subseteq Items(r) /\ range.send \in SUBSET Nat
        /\ range.through \in Int /\ range.through >= -1
      BY <2>1, BatchFacts, ItemFacts
  <2>3. Become(d, w) \/ Become(d, Idle)
      BY <1>10 DEF Select
  <2> HIDE DEF range
  <2>4. w \in Batch /\ w.send = range.send /\ w.run = r /\ w.through = range.through
      BY <2>1, <2>2 DEF Batch
  <2>5. DrainOK
      BY <1>3, <2>2, <2>3, <2>4, DrainStaysTyped DEF DrainOK
  <2>6. QED
      BY <1>2, <1>10, <2>5 DEF Select, TypeOK, ledger, transport, bounds, BoxTyped, DrainOK
<1>11. CASE Send(d)
  <2>1. drain[d] \in Batch /\ drain[d] # Idle /\ drain[d].through >= -1
      BY <1>11, DrainFacts, IdleFacts DEF Send, TypeOK
  <2>2. /\ queue' \in [Lanes -> [Messages -> Nat]] /\ sent' \subseteq Messages
        /\ drain[d].send \subseteq Items(drain[d].run)
      BY <1>5, <1>11, <2>1, DrainFacts DEF Send
  <2>3. /\ [drain[d] EXCEPT !.phase = "checkpointing"] \in Batch
        /\ [drain[d] EXCEPT !.phase = "checkpointing"].send = drain[d].send
        /\ [drain[d] EXCEPT !.phase = "checkpointing"].run = drain[d].run
        /\ [drain[d] EXCEPT !.phase = "checkpointing"].through = drain[d].through
      BY <2>1 DEF Batch
  <2>4. DrainOK
      BY <1>11, <2>1, <2>2, <2>3, DrainStaysTyped DEF Send, DrainOK
  <2>5. QED
      BY <1>2, <1>11, <2>2, <2>4
         DEF Send, SendBatch, TypeOK, ledger, transport, bounds, BoxTyped, DrainOK
<1>12. CASE SendThrows(d)
  <2>1. queue' \in [Lanes -> [Messages -> Nat]] /\ sent' \subseteq Messages
      BY <1>5, <1>12, DrainFacts DEF SendThrows
  <2>2. DrainOK
      BY <1>3, <1>12 DEF SendThrows
  <2>3. QED
      BY <1>2, <1>4, <1>12, <2>1, <2>2
         DEF SendThrows, SendBatch, TypeOK, ledger, transport, BoxTyped, DrainOK
<1>13. CASE Checkpoint(d)
  <2> DEFINE r == drain[d].run
             through == drain[d].through
             n == Advanced(box[r].next, through)
  <2>1. r \in Runs /\ through + 1 \in Nat
      BY <1>13, DrainFacts DEF Checkpoint
  <2>2. BoxTyped
    <3>1. CASE IsReady(r)
      <4>1. box[r] \in Header /\ box[r].bodies \subseteq Items(r) /\ box[r].next \in Nat
          BY <2>1, <3>1, BoxFacts, NoBoxFacts DEF IsReady
      <4>2. n \in Nat
          BY <2>1, <4>1 DEF Advanced
      <4>3. box' = [box EXCEPT ![r] = [box[r] EXCEPT !.next = n]]
          BY <1>13, <3>1 DEF Checkpoint
      <4> HIDE DEF n
      <4>4. /\ [box[r] EXCEPT !.next = n] \in Header
            /\ [box[r] EXCEPT !.next = n].bodies = box[r].bodies
          BY <4>1, <4>2, HeaderEdit DEF Header
      <4>5. QED
          BY <1>1, <2>1, <4>1, <4>3, <4>4
    <3>2. CASE ~IsReady(r)
        BY <1>2, <1>13, <3>2 DEF Checkpoint
    <3>3. QED
        BY <3>1, <3>2
  <2>3. [phase |-> "selecting", run |-> r, next |-> through + 1] \in Reading
      BY <2>1 DEF Reading
  <2>4. /\ Become(d, [phase |-> "selecting", run |-> r, next |-> through + 1])
           \/ Become(d, Idle)
      BY <1>13 DEF Checkpoint
  <2>5. DrainOK
      BY <1>3, <2>3, <2>4, DrainStaysTyped DEF DrainOK
  <2>6. QED
      BY <1>13, <2>2, <2>5 DEF Checkpoint, TypeOK, ledger, transport, bounds, BoxTyped, DrainOK
<1>14. CASE DrainEnds(d)
    BY <1>2, <1>3, <1>4, <1>14 DEF DrainEnds, TypeOK, ledger, transport, BoxTyped, DrainOK
<1>15. QED
    BY <1>6, <1>8, <1>9, <1>10, <1>11, <1>12, <1>13, <1>14 DEF DrainStep, DrainFails

\* What a consumer that is not idle holds.
LEMMA ConsumerFacts ==
    ASSUME TypeOK, NEW lane \in Lanes
    PROVE  /\ consumer[lane] # Idle <=> consumer[lane].phase # "idle"
           /\ consumer[lane] # Idle =>
                 /\ consumer[lane] \in Delivery
                 /\ consumer[lane].message \in Messages
                 /\ consumer[lane].message[1] \in Runs
                 /\ consumer[lane].message[2] \in Items(consumer[lane].message[1])
<1>1. consumer[lane] \in Delivery \cup {Idle}
    BY DEF TypeOK
<1>2. \A c \in Delivery : c.phase # "idle" /\ c.message \in Messages
    BY DEF Delivery
<1>3. QED
    BY <1>1, <1>2, IdleFacts, MessageFacts

\* Turn changes the phase of a consumer and nothing else.
LEMMA TurnFacts ==
    ASSUME TypeOK, NEW lane \in Lanes, consumer[lane] # Idle,
           NEW phase \in {"recording", "accounting", "keeping", "acking"}, Turn(lane, phase)
    PROVE  /\ consumer' \in [Lanes -> Delivery \cup {Idle}]
           /\ consumer'[lane].phase = phase
           /\ consumer'[lane].message = consumer[lane].message
           /\ \A other \in Lanes \ {lane} : consumer'[other] = consumer[other]
<1>1. consumer[lane] \in Delivery
    BY ConsumerFacts
<1>2. /\ [consumer[lane] EXCEPT !.phase = phase] \in Delivery
      /\ [consumer[lane] EXCEPT !.phase = phase].phase = phase
      /\ [consumer[lane] EXCEPT !.phase = phase].message = consumer[lane].message
    BY <1>1 DEF Delivery
<1>3. consumer' = [consumer EXCEPT ![lane] = [consumer[lane] EXCEPT !.phase = phase]]
    BY DEF Turn
<1>4. QED
    BY <1>2, <1>3 DEF TypeOK

LEMMA ConsumerTyped ==
    ASSUME TypeOK, NEW lane \in Lanes, ConsumerStep(lane) \/ ConsumerEnds(lane),
           DeliveryFollowsQueue(lane)
    PROVE  TypeOK'
<1> DEFINE c == consumer[lane]
           m == c.message
<1>1. /\ c # Idle <=> c.phase # "idle"
      /\ c # Idle => m \in Messages /\ m[1] \in Runs /\ m[2] \in Items(m[1])
      /\ c # Idle => queue[lane][m] \in Nat /\ queue[lane][m] > 0
    BY ConsumerFacts DEF DeliveryFollowsQueue, TypeOK
<1>2. ASSUME Retry(lane), c # Idle
      PROVE  /\ consumer' \in [Lanes -> Delivery \cup {Idle}]
             /\ queue' \in [Lanes -> [Messages -> Nat]]
  <2>1. consumer' \in [Lanes -> Delivery \cup {Idle}]
      BY <1>2 DEF Retry, TypeOK
  <2>2. CASE UNCHANGED queue
      BY <2>1, <2>2 DEF TypeOK
  <2>3. CASE /\ lane = "primary"
             /\ queue' = [queue EXCEPT !["primary"][m] = @ - 1, !["dead-letter"][m] = @ + 1]
    <3>1. /\ queue["primary"] \in [Messages -> Nat] /\ queue["dead-letter"] \in [Messages -> Nat]
          /\ queue["primary"][m] - 1 \in Nat /\ queue["dead-letter"][m] + 1 \in Nat
        BY <1>1, <1>2, <2>3 DEF TypeOK, Lanes
    <3>2. queue' = [queue EXCEPT
                      !["primary"] = [queue["primary"] EXCEPT ![m] = queue["primary"][m] - 1],
                      !["dead-letter"] = [queue["dead-letter"] EXCEPT
                                            ![m] = queue["dead-letter"][m] + 1]]
        BY <2>3 DEF TypeOK, Lanes
    <3>3. /\ [queue["primary"] EXCEPT ![m] = queue["primary"][m] - 1] \in [Messages -> Nat]
          /\ [queue["dead-letter"] EXCEPT ![m] = queue["dead-letter"][m] + 1]
                \in [Messages -> Nat]
        BY <3>1
    <3>4. QED
        BY <2>1, <3>2, <3>3 DEF TypeOK, Lanes
  <2>4. QED
      BY <1>2, <2>2, <2>3 DEF Retry
<1>3. ASSUME NEW n \in Messages, Deliver(lane, n)
      PROVE  TypeOK'
  <2>1. [phase |-> "recording", message |-> n] \in Delivery
      BY DEF Delivery
  <2>2. QED
      BY <1>3, <2>1 DEF Deliver, TypeOK, ledger, bounds
<1>4. CASE Receipt(lane)
  <2>1. c # Idle /\ Turn(lane, "accounting")
      BY <1>1, <1>4 DEF Receipt, Working
  <2>2. consumer' \in [Lanes -> Delivery \cup {Idle}]
      BY <2>1, TurnFacts
  <2>3. PICK outcome \in Outcomes \cup {"none"} :
            receipts' = receipts \/ receipts' = [receipts EXCEPT ![m[1]][m[2]] = outcome]
    <3>1. receipts[m[1]][m[2]] \in Outcomes \cup {"none"}
        BY <1>1, <2>1 DEF TypeOK
    <3>2. QED
        BY <1>4, <3>1 DEF Receipt, KeptOutcome, Outcomes
  <2>4. /\ receipts' = [r \in Runs |-> receipts'[r]]
        /\ \A r \in Runs : receipts'[r] \in [Items(r) -> Outcomes \cup {"none"}]
    <3>1. /\ m[1] \in Runs /\ receipts[m[1]] \in [Items(m[1]) -> Outcomes \cup {"none"}]
          /\ [receipts[m[1]] EXCEPT ![m[2]] = outcome] \in [Items(m[1]) -> Outcomes \cup {"none"}]
        BY <1>1, <2>1 DEF TypeOK
    <3>2. CASE receipts' = receipts
        BY <3>2 DEF TypeOK
    <3>3. CASE receipts' = [receipts EXCEPT ![m[1]][m[2]] = outcome]
      <4>1. receipts' = [receipts EXCEPT ![m[1]] = [receipts[m[1]] EXCEPT ![m[2]] = outcome]]
          BY <3>3
      <4> HIDE DEF m
      <4>2. QED
          BY <3>1, <4>1 DEF TypeOK
    <3>4. QED
        BY <2>3, <3>2, <3>3
  <2>5. QED
      BY <1>4, <2>2, <2>4 DEF Receipt, TypeOK, bounds
<1>5. CASE Account(lane)
  <2> DEFINE r == m[1]
             status == IF run[r].status = "queued" /\ Settled(r) THEN Verdict(r)
                       ELSE run[r].status
  <2>1. c # Idle
      BY <1>1, <1>5 DEF Account, Working
  <2>2. consumer' \in [Lanes -> Delivery \cup {Idle}]
      BY <1>5, <2>1, TurnFacts DEF Account
  <2>3. r \in Runs /\ run[r] \in RunRow
      BY <1>1, <2>1 DEF TypeOK
  <2>4. Verdict(r) \in Ended
      BY DEF Verdict, Ended
  <2>5. status \in {"none", "running", "queued"} \cup Ended
      BY <2>3, <2>4 DEF RunRow
  <2>6. /\ run' = [run EXCEPT ![r].status = status, ![r].accounted = @ \/ Accounts(r, status)]
        /\ health' = [health EXCEPT ![r] = IF Accounts(r, status) THEN @ + 1 ELSE @]
      BY <1>5 DEF Account
  <2> HIDE DEF status
  <2>7. Accounts(r, status) \in BOOLEAN
      BY DEF Accounts
  <2>8. (run[r].accounted \/ Accounts(r, status)) \in BOOLEAN
      BY <2>3, <2>7 DEF RunRow
  <2>9. [run[r] EXCEPT !.status = status,
                       !.accounted = run[r].accounted \/ Accounts(r, status)] \in RunRow
      BY <2>3, <2>5, <2>8 DEF RunRow
  <2>10. run' \in [Runs -> RunRow]
      BY <2>3, <2>6, <2>9 DEF TypeOK
  <2>11. health' \in [Runs -> Nat]
      BY <2>3, <2>6 DEF TypeOK
  <2>12. QED
      BY <1>5, <2>2, <2>10, <2>11 DEF Account, TypeOK, bounds
<1>6. CASE Ack(lane)
  <2>1. c # Idle
      BY <1>1, <1>6 DEF Ack, Working
  <2>2. queue[lane] \in [Messages -> Nat] /\ queue[lane][m] - 1 \in Nat
      BY <1>1, <2>1 DEF TypeOK
  <2>3. queue' = [queue EXCEPT ![lane] = [queue[lane] EXCEPT ![m] = queue[lane][m] - 1]]
      BY <1>6 DEF Ack
  <2>4. queue' \in [Lanes -> [Messages -> Nat]]
      BY <2>2, <2>3 DEF TypeOK
  <2>5. QED
      BY <1>6, <2>4 DEF Ack, TypeOK, ledger, bounds
<1>7. CASE lane = "dead-letter" /\ Keep
  <2>1. c # Idle
      BY <1>1, <1>7 DEF Keep, Working
  <2>2. consumer' \in [Lanes -> Delivery \cup {Idle}]
      BY <1>7, <2>1, TurnFacts DEF Keep
  <2>3. incidents' \subseteq Messages
      BY <1>1, <1>7, <2>1 DEF Keep, Kept, TypeOK
  <2>4. QED
      BY <1>7, <2>2, <2>3 DEF Keep, TypeOK, ledger, bounds
<1>8. CASE lane = "primary" /\ Unrecorded
  <2>1. c # Idle
      BY <1>1, <1>8 DEF Unrecorded, Working
  <2>2. QED
      BY <1>2, <1>8, <2>1 DEF Unrecorded, Retry, TypeOK, ledger, bounds
<1>9. CASE ConsumerEnds(lane)
  <2>1. faults' \in 0..MaxFaults /\ escapes' \in 0..MaxEscapes
      BY <1>9, OutboxAssumption DEF ConsumerEnds, Fault, TypeOK
  <2>2. QED
      BY <1>2, <1>9, <2>1 DEF ConsumerEnds, Retry, TypeOK, ledger
<1>10. QED
    BY <1>3, <1>4, <1>5, <1>6, <1>7, <1>8, <1>9 DEF ConsumerStep

-----------------------------------------------------------------------------
(* The life of a run. *)

\* What a step does not touch stays as it is: leases and cursors do not matter,
\* and outcomes are only added.
LEMMA LifeFrame ==
    ASSUME NEW q \in Runs, Life(q), escapes' = 0 => escapes = 0,
           run'[q] = run[q], health'[q] = health[q], raw'[q] = raw[q],
           producer'[q] = producer[q], box'[q] = NoBox <=> box[q] = NoBox,
           box'[q].state = box[q].state, box'[q].bodies = box[q].bodies,
           \A i \in Items(q) : receipts[q][i] # "none" => receipts'[q][i] # "none"
    PROVE  Life(q)'
BY DEF Life, RowFollowsRun, BoxFollowsRun, ProducerFollowsRun, Faithful, IsReady

LEMMA ProducerFrame ==
    ASSUME TypeOK, NEW r \in Runs, Produce(r), NEW q \in Runs, q # r
    PROVE  /\ run'[q] = run[q] /\ receipts'[q] = receipts[q] /\ health'[q] = health[q]
           /\ box'[q] = box[q] /\ raw'[q] = raw[q] /\ producer'[q] = producer[q]
           /\ escapes' = 0 => escapes = 0
<1>1. escapes \in Nat
    BY DEF TypeOK
<1>2. CASE Begin(r) \/ FinishFailed(r)
    BY <1>2 DEF TypeOK, Begin, FinishFailed, Finish, Step, bounds
<1>8. CASE CollectNothing(r) \/ FinishThrows(r) \/ FinishUnsent(r)
    BY <1>8 DEF TypeOK, CollectNothing, FinishThrows, FinishUnsent, FailUnsent, FinishEmpty,
                Finish, Step, Fault, ledger, bounds
<1>3. CASE Reserve(r) \/ ReserveThrows(r) \/ Discard(r)
    BY <1>3 DEF TypeOK, Reserve, ReserveThrows, Discard, Step, Fault, ledger, bounds
<1>4. CASE Stage(r) \/ StageThrows(r)
    BY <1>4 DEF TypeOK, Stage, StageThrows, InsertChunk, Step, Fault, ledger, bounds
<1>5. CASE Activate(r)
    BY <1>5 DEF TypeOK, Activate, ActivateBatch, Step, ledger, bounds
<1>6. CASE Confirm(r) \/ HandoffThrows(r) \/ ProducerEnds(r)
    BY <1>1, <1>6
       DEF TypeOK, Confirm, HandoffThrows, ProducerEnds, Step, Fault, Escape, ledger, bounds
<1>7. QED
    BY <1>2, <1>3, <1>4, <1>5, <1>6, <1>8 DEF Produce

\* What the batch of activateOutboxRun comes to: nothing, the activation of a
\* complete staging whose row is open, or a header that is ready already.
Activation(r) ==
    /\ UNCHANGED <<receipts, health>>
    /\ \/ /\ UNCHANGED <<run, box>>
          /\ ~IsReady(r) /\ ~(box[r].state = "staging" /\ Complete(r) /\ Open(r))
       \/ /\ box'[r].state = "ready" /\ box'[r].bodies = box[r].bodies /\ box'[r] # NoBox
          /\ run'[r].status = "queued" /\ run'[r].enqueued = Size[r]
          /\ run'[r].accounted = run[r].accounted /\ Open(r)
          /\ IsReady(r) \/ (box[r].state = "staging" /\ Complete(r))
       \/ /\ run' = run /\ ~Open(r) /\ IsReady(r)
          /\ box'[r].state = "ready" /\ box'[r].bodies = box[r].bodies /\ box'[r] # NoBox

LEMMA ActivationFacts ==
    ASSUME TypeOK, NEW r \in Runs, ActivateBatch(r)
    PROVE  Activation(r)
<1> DEFINE ready == IsReady(r) \/ (box[r].state = "staging" /\ Complete(r) /\ Open(r))
<1>1. /\ box' = IF ready THEN [box EXCEPT ![r] = [box[r] EXCEPT !.state = "ready"]] ELSE box
      /\ run' = IF ready /\ Open(r)
                THEN [run EXCEPT ![r] = [run[r] EXCEPT !.status = "queued", !.enqueued = Size[r]]]
                ELSE run
      /\ UNCHANGED <<receipts, health>>
    BY DEF ActivateBatch
<1>2. CASE ready
  <2>1. box[r] # NoBox /\ box[r] \in Header /\ r \in DOMAIN box
      BY <1>2, NoBoxFacts, BoxFacts DEF IsReady, TypeOK
  <2>2. /\ [box[r] EXCEPT !.state = "ready"] \in Header
        /\ [box[r] EXCEPT !.state = "ready"].state = "ready"
        /\ [box[r] EXCEPT !.state = "ready"].bodies = box[r].bodies
      BY <2>1, HeaderMoved
  <2>3. box'[r].state = "ready" /\ box'[r].bodies = box[r].bodies /\ box'[r] # NoBox
      BY <1>1, <1>2, <2>1, <2>2, NoBoxFacts
  <2>4. CASE Open(r)
    <3>1. run[r] \in RunRow /\ r \in DOMAIN run
        BY DEF TypeOK
    <3>2. /\ [run[r] EXCEPT !.status = "queued", !.enqueued = Size[r]].status = "queued"
          /\ [run[r] EXCEPT !.status = "queued", !.enqueued = Size[r]].enqueued = Size[r]
          /\ [run[r] EXCEPT !.status = "queued", !.enqueued = Size[r]].accounted
                = run[r].accounted
        BY <3>1 DEF RunRow
    <3>3. run'[r] = [run[r] EXCEPT !.status = "queued", !.enqueued = Size[r]]
        BY <1>1, <1>2, <2>4, <3>1
    <3>4. QED
        BY <1>1, <1>2, <2>3, <2>4, <3>2, <3>3 DEF Activation
  <2>5. CASE ~Open(r)
      BY <1>1, <1>2, <2>3, <2>5 DEF Activation
  <2>6. QED
      BY <2>4, <2>5
<1>3. CASE ~ready
    BY <1>1, <1>3 DEF Activation
<1>4. QED
    BY <1>2, <1>3

LEMMA ProducerLife ==
    ASSUME TypeOK, Lifecycle, NEW r \in Runs, Produce(r)
    PROVE  Lifecycle'
<1> USE DEF Life, RowFollowsRun, BoxFollowsRun, ProducerFollowsRun, Faithful, IsReady
<1>t. /\ run[r].status \in {"none", "running", "queued"} \cup Ended /\ run[r].enqueued \in Nat
      /\ run[r].accounted \in BOOLEAN /\ health[r] \in Nat /\ escapes \in Nat
      /\ box[r] = NoBox \/ (box[r] \in Header /\ box[r].bodies \subseteq Items(r))
      /\ r \in DOMAIN run /\ r \in DOMAIN box /\ r \in DOMAIN raw /\ r \in DOMAIN producer
      /\ r \in DOMAIN health
    BY BoxFacts DEF TypeOK, RunRow
<1>i. Size[r] \in Nat /\ Size[r] > 0 /\ Items(r) # {}
    BY ItemFacts
<1>n. NoBox.state = "none"
    BY NoBoxFacts
<1>l. Life(r)
    BY DEF Lifecycle
<1>q. ASSUME NEW q \in Runs, q # r PROVE Life(q)'
  <2>1. /\ run'[q] = run[q] /\ receipts'[q] = receipts[q] /\ health'[q] = health[q]
        /\ box'[q] = box[q] /\ raw'[q] = raw[q] /\ producer'[q] = producer[q]
        /\ escapes' = 0 => escapes = 0
      BY <1>q, ProducerFrame
  <2>2. QED
      BY <2>1, LifeFrame DEF Lifecycle
<1> SUFFICES Life(r)'
    BY <1>q DEF Lifecycle
<1>b. ASSUME box[r] # NoBox, NEW b \in SUBSET Nat,
             box' = [box EXCEPT ![r] = [box[r] EXCEPT !.bodies = b]]
      PROVE  box'[r].bodies = b /\ box'[r].state = box[r].state /\ box'[r] # NoBox
  <2>1. box[r] \in Header /\ r \in DOMAIN box
      BY <1>b, <1>t
  <2>2. /\ [box[r] EXCEPT !.bodies = b] \in Header
        /\ [box[r] EXCEPT !.bodies = b].bodies = b
        /\ [box[r] EXCEPT !.bodies = b].state = box[r].state
      BY <2>1, HeaderFilled
  <2>3. QED
      BY <1>b, <2>1, <2>2, NoBoxFacts
<1>c. ASSUME box[r] # NoBox, InsertChunk(r)
      PROVE  /\ box'[r].state = box[r].state /\ box[r].bodies # Items(r)
             /\ box'[r].bodies # {} /\ box'[r] # NoBox
  <2>1. PICK b \in SUBSET Items(r) :
            /\ b # {} /\ box[r].bodies # Items(r)
            /\ box' = [box EXCEPT ![r] = [box[r] EXCEPT !.bodies = b]]
      BY <1>c, ChunkFacts
  <2>2. b \in SUBSET Nat
      BY ItemFacts
  <2>3. QED
      BY <1>b, <1>c, <2>1, <2>2
<1>a. ActivateBatch(r) => Activation(r)
    BY ActivationFacts
<1>2. CASE Begin(r)
  <2>1. run'[r] = [run[r] EXCEPT !.status = "running"] /\ run[r] \in RunRow
      BY <1>2 DEF Begin, TypeOK
  <2>2. /\ run'[r].status = "running" /\ run'[r].enqueued = run[r].enqueued
        /\ run'[r].accounted = run[r].accounted
      BY <2>1 DEF RunRow
  <2>3. QED
      BY <1>2, <2>2, <1>t, <1>l, <1>n DEF Begin, Step, transport, bounds, Ended
<1>3. CASE CollectNothing(r)
    BY <1>3, <1>t, <1>l, <1>n
       DEF CollectNothing, FailUnsent, FinishEmpty, Step, Finish, transport, bounds, Ended
<1>14. CASE FinishThrows(r)
    BY <1>14, <1>t, <1>l, <1>n
       DEF FinishThrows, FinishEmpty, Fault, Step, Finish, ledger, transport, Ended
<1>15. CASE FinishUnsent(r)
    BY <1>15, <1>t, <1>l, <1>n
       DEF FinishUnsent, FailUnsent, Step, Finish, transport, bounds, Ended
<1>4. CASE Reserve(r)
    BY <1>4, <1>t, <1>l, <1>n, StagingFacts
       DEF Reserve, Step, ledger, transport, bounds, Ended
<1>5. CASE ReserveThrows(r)
    BY <1>5, <1>t, <1>l, <1>n, <1>i, StagingFacts
       DEF ReserveThrows, Fault, Step, ledger, transport, Ended
<1>6. CASE Stage(r)
  <2>1. CASE box[r] = NoBox
      BY <1>6, <2>1, <1>t, <1>l, <1>n DEF Stage, Step, ledger, transport, bounds, Ended
  <2>2. CASE box[r] # NoBox
      BY <1>6, <2>2, <1>c, <1>t, <1>l DEF Stage, Step, ledger, transport, bounds, Ended
  <2>3. QED
      BY <2>1, <2>2
<1>7. CASE StageThrows(r)
  <2>1. CASE UNCHANGED box
      BY <1>7, <2>1, <1>t, <1>l, <1>n DEF StageThrows, Fault, Step, ledger, transport, Ended
  <2>2. CASE box[r] # NoBox /\ InsertChunk(r)
      BY <1>7, <2>2, <1>c, <1>t, <1>l DEF StageThrows, Fault, Step, ledger, transport, Ended
  <2>3. QED
      BY <1>7, <2>1, <2>2 DEF StageThrows
<1>8. CASE Discard(r)
    BY <1>8, <1>t, <1>l, <1>n DEF Discard, Step, ledger, transport, bounds, Ended
<1>9. CASE Activate(r)
  <2>1. CASE Complete(r)
      BY <1>9, <2>1, <1>a, <1>t, <1>i, <1>l
         DEF Activate, Activation, Step, Open, Complete, transport, bounds, Ended
  <2>2. CASE ~Complete(r)
      BY <1>9, <2>2, <1>t, <1>l DEF Activate, Step, ledger, transport, bounds, Ended
  <2>3. QED
      BY <2>1, <2>2
<1>10. CASE Confirm(r)
    BY <1>10, <1>t, <1>l DEF Confirm, Step, ledger, transport, bounds, Ended
<1>11. CASE HandoffThrows(r)
    BY <1>11, <1>t, <1>l DEF HandoffThrows, Escape, Step, ledger, transport, Ended
<1>12. CASE FinishFailed(r)
    BY <1>12, <1>t, <1>l, <1>n DEF FinishFailed, Step, Finish, transport, bounds, Ended
<1>13. CASE ProducerEnds(r)
    BY <1>13, <1>t, <1>l DEF ProducerEnds, Fault, Step, ledger, transport, Ended
<1>16. QED
    BY <1>2, <1>3, <1>4, <1>5, <1>6, <1>7, <1>8, <1>9, <1>10, <1>11, <1>12, <1>13, <1>14, <1>15
       DEF Produce

LEMMA MaintenanceLife ==
    ASSUME TypeOK, Lifecycle, NEW r \in Runs, Maintain(r) \/ LeaseExpires(r)
    PROVE  Lifecycle'
<1> USE DEF Life, RowFollowsRun, BoxFollowsRun, ProducerFollowsRun, Faithful, IsReady
<1>t. /\ run[r].status \in {"none", "running", "queued"} \cup Ended /\ run[r].enqueued \in Nat
      /\ run[r].accounted \in BOOLEAN /\ health[r] \in Nat /\ escapes \in Nat
      /\ box[r] # NoBox => box[r] \in Header /\ box[r].bodies \subseteq Items(r)
      /\ r \in DOMAIN run /\ r \in DOMAIN box /\ r \in DOMAIN raw /\ run[r] \in RunRow
    BY BoxFacts DEF TypeOK, RunRow
<1>i. Size[r] \in Nat /\ Size[r] > 0 /\ Items(r) # {}
    BY ItemFacts
<1>n. NoBox.state = "none"
    BY NoBoxFacts
<1>l. Life(r)
    BY DEF Lifecycle
<1>q. ASSUME NEW q \in Runs, q # r PROVE Life(q)'
  <2>1. /\ run'[q] = run[q] /\ receipts' = receipts /\ health'[q] = health[q]
        /\ box'[q] = box[q] /\ raw'[q] = raw[q] /\ producer'[q] = producer[q]
        /\ escapes' = escapes
      BY <1>q DEF Maintain, Resume, ActivateBatch, Abandon, CleanBodies, CleanHeader,
                  DeleteTerminal, LeaseExpires, TypeOK, ledger, bounds
  <2>2. QED
      BY <2>1, LifeFrame DEF Lifecycle
<1> SUFFICES Life(r)'
    BY <1>q DEF Lifecycle
<1>a. ActivateBatch(r) => Activation(r)
    BY ActivationFacts
<1>1. CASE Resume(r)
  <2>1. /\ box[r].state = "staging" /\ box[r].bodies = Items(r)
        /\ Open(r) /\ Activation(r) /\ UNCHANGED <<raw, producer, escapes>>
      BY <1>1, <1>a DEF Resume, Complete, bounds
  <2>2. /\ box'[r].state = "ready" /\ box'[r].bodies = Items(r) /\ box'[r] # NoBox
        /\ run'[r].status = "queued" /\ run'[r].enqueued = Size[r]
        /\ run'[r].accounted = run[r].accounted /\ UNCHANGED <<receipts, health>>
      BY <1>t, <1>i, <2>1 DEF Activation, Complete
  <2>3. QED
      BY <1>t, <1>i, <1>l, <1>n, <2>1, <2>2 DEF Open, Ended
<1>2. CASE Abandon(r)
  <2>1. box[r] # NoBox /\ box[r] \in Header
      BY <1>2, <1>t, <1>n DEF Abandon
  <2>2. /\ [box[r] EXCEPT !.state = "abandoned", !.lease = None] \in Header
        /\ [box[r] EXCEPT !.state = "abandoned", !.lease = None].state = "abandoned"
      BY <2>1, HeaderEdit DEF Header
  <2>3. box'[r].state = "abandoned" /\ box'[r] # NoBox
      BY <1>2, <1>t, <2>2, NoBoxFacts DEF Abandon
  <2>4. CASE run[r].status = "running" /\ ~run[r].accounted
    <3>1. run'[r] = [run[r] EXCEPT !.status = "failed", !.accounted = TRUE]
        BY <1>2, <1>t, <2>4 DEF Abandon
    <3>2. /\ run'[r].status = "failed" /\ run'[r].accounted
          /\ run'[r].enqueued = run[r].enqueued
        BY <1>t, <3>1 DEF RunRow
    <3>3. QED
        BY <1>2, <1>t, <1>i, <1>l, <1>n, <2>3, <2>4, <3>2 DEF Abandon, bounds, Ended
  <2>5. CASE ~(run[r].status = "running" /\ ~run[r].accounted)
      BY <1>2, <1>t, <1>l, <1>n, <2>3, <2>5 DEF Abandon, bounds, Ended
  <2>6. QED
      BY <2>4, <2>5
<1>3. CASE CleanBodies(r)
  <2>1. box[r] # NoBox /\ box[r] \in Header
      BY <1>3, <1>t, <1>n DEF CleanBodies
  <2>2. /\ [box[r] EXCEPT !.bodies = {}] \in Header
        /\ [box[r] EXCEPT !.bodies = {}].state = box[r].state
      BY <2>1, HeaderFilled
  <2>3. box'[r].state = "abandoned" /\ box'[r] # NoBox
      BY <1>3, <1>t, <2>2, NoBoxFacts DEF CleanBodies
  <2>4. QED
      BY <1>3, <1>t, <1>l, <2>1, <2>3 DEF CleanBodies, ledger, bounds, Ended
<1>4. CASE CleanHeader(r)
    BY <1>4, <1>t, <1>l, <1>n DEF CleanHeader, ledger, bounds, Ended
<1>5. CASE DeleteTerminal(r)
    BY <1>5, <1>t, <1>i, <1>l, <1>n DEF DeleteTerminal, ledger, bounds, Ended
<1>6. CASE LeaseExpires(r)
  <2>1. box[r] # NoBox /\ box[r] \in Header
      BY <1>6, <1>t, <1>n DEF LeaseExpires
  <2>2. /\ [box[r] EXCEPT !.due = TRUE] \in Header
        /\ [box[r] EXCEPT !.due = TRUE].state = box[r].state
        /\ [box[r] EXCEPT !.due = TRUE].bodies = box[r].bodies
      BY <2>1, HeaderEdit DEF Header
  <2>3. /\ box'[r].state = box[r].state /\ box'[r].bodies = box[r].bodies /\ box'[r] # NoBox
      BY <1>6, <1>t, <2>2, NoBoxFacts DEF LeaseExpires
  <2>4. QED
      BY <1>6, <1>l, <2>1, <2>3, LifeFrame DEF LeaseExpires, ledger, bounds
<1>7. QED
    BY <1>1, <1>2, <1>3, <1>4, <1>5, <1>6 DEF Maintain

\* A drain changes leases and cursors; it neither makes nor ends a header.
LEMMA DrainKeepsBoxes ==
    ASSUME TypeOK, NEW d \in Drains, DrainStep(d) \/ DrainFails(d)
    PROVE  /\ \A q \in Runs : /\ box'[q].state = box[q].state /\ box'[q].bodies = box[q].bodies
                              /\ box'[q] = NoBox <=> box[q] = NoBox
           /\ UNCHANGED <<ledger, raw, producer, escapes, consumer, incidents>>
<1>1. ASSUME NEW r \in Runs, box[r] # NoBox,
             \/ box' = [box EXCEPT ![r].lease = d, ![r].due = FALSE]
             \/ box' = [box EXCEPT ![r].lease = None, ![r].due = FALSE]
             \/ \E n \in Nat : box' = [box EXCEPT ![r].next = n]
      PROVE  \A q \in Runs : /\ box'[q].state = box[q].state /\ box'[q].bodies = box[q].bodies
                             /\ box'[q] = NoBox <=> box[q] = NoBox
  <2>1. box[r] \in Header /\ r \in DOMAIN box
      BY <1>1, BoxFacts DEF TypeOK
  <2>2. PICK h \in Header : /\ h.state = box[r].state /\ h.bodies = box[r].bodies
                            /\ box' = [box EXCEPT ![r] = h]
    <3>1. CASE box' = [box EXCEPT ![r].lease = d, ![r].due = FALSE]
      <4>1. /\ [box[r] EXCEPT !.lease = d, !.due = FALSE] \in Header
            /\ [box[r] EXCEPT !.lease = d, !.due = FALSE].state = box[r].state
            /\ [box[r] EXCEPT !.lease = d, !.due = FALSE].bodies = box[r].bodies
          BY <2>1, HeaderLeased
      <4>2. box' = [box EXCEPT ![r] = [box[r] EXCEPT !.lease = d, !.due = FALSE]]
          BY <3>1
      <4>3. QED
          BY <4>1, <4>2
    <3>2. CASE box' = [box EXCEPT ![r].lease = None, ![r].due = FALSE]
      <4>1. /\ [box[r] EXCEPT !.lease = None, !.due = FALSE] \in Header
            /\ [box[r] EXCEPT !.lease = None, !.due = FALSE].state = box[r].state
            /\ [box[r] EXCEPT !.lease = None, !.due = FALSE].bodies = box[r].bodies
          BY <2>1, HeaderLeased
      <4>2. box' = [box EXCEPT ![r] = [box[r] EXCEPT !.lease = None, !.due = FALSE]]
          BY <3>2
      <4>3. QED
          BY <4>1, <4>2
    <3>3. CASE \E n \in Nat : box' = [box EXCEPT ![r].next = n]
      <4>1. PICK n \in Nat : box' = [box EXCEPT ![r] = [box[r] EXCEPT !.next = n]]
          BY <3>3
      <4>2. /\ [box[r] EXCEPT !.next = n] \in Header
            /\ [box[r] EXCEPT !.next = n].state = box[r].state
            /\ [box[r] EXCEPT !.next = n].bodies = box[r].bodies
          BY <2>1, HeaderEdit DEF Header
      <4>3. QED
          BY <4>1, <4>2
    <3>4. QED
        BY <1>1, <3>1, <3>2, <3>3
  <2>3. QED
      BY <2>1, <2>2, NoBoxFacts
<1>2. ASSUME UNCHANGED box
      PROVE  \A q \in Runs : /\ box'[q].state = box[q].state /\ box'[q].bodies = box[q].bodies
                             /\ box'[q] = NoBox <=> box[q] = NoBox
    BY <1>2
<1>3. ASSUME NEW r \in Runs, Claim(d, r) PROVE box[r] # NoBox
    BY <1>3, NoBoxFacts DEF Claim, IsReady
<1>4. CASE \E r \in Runs : Claim(d, r)
    BY <1>1, <1>3, <1>4 DEF Claim, ledger, transport, bounds
<1>5. CASE Refuse(d) \/ Release(d)
  <2>1. drain[d].run \in Runs
      BY <1>5, DrainFacts, IdleFacts DEF Refuse, Release
  <2>2. IsReady(drain[d].run) => box[drain[d].run] # NoBox
      BY NoBoxFacts DEF IsReady
  <2>3. QED
      BY <1>1, <1>2, <1>5, <2>1, <2>2
         DEF Refuse, Release, ReleaseClaim, Fault, ledger, transport, bounds
<1>6. CASE Select(d) \/ Send(d) \/ SendThrows(d) \/ DrainEnds(d)
    BY <1>2, <1>6
       DEF Select, Send, SendBatch, SendThrows, DrainEnds, Fault, ledger, transport, bounds
<1>7. CASE Checkpoint(d)
  <2> DEFINE r == drain[d].run
             n == Advanced(box[r].next, drain[d].through)
  <2>1. r \in Runs /\ drain[d].through + 1 \in Nat
      BY <1>7, DrainFacts, IdleFacts DEF Checkpoint
  <2>2. IsReady(r) => box[r] # NoBox /\ n \in Nat
      BY <2>1, BoxFacts, NoBoxFacts DEF IsReady, Advanced
  <2>3. IF IsReady(r) THEN box' = [box EXCEPT ![r].next = n] ELSE UNCHANGED box
      BY <1>7 DEF Checkpoint
  <2>4. UNCHANGED <<ledger, raw, producer, escapes, consumer, incidents>>
      BY <1>7 DEF Checkpoint, transport, bounds
  <2> HIDE DEF n, r
  <2>5. QED
      BY <1>1, <1>2, <2>1, <2>2, <2>3, <2>4
<1>8. QED
    BY <1>4, <1>5, <1>6, <1>7 DEF DrainStep, DrainFails

LEMMA DrainLife ==
    ASSUME TypeOK, Lifecycle, NEW d \in Drains, DrainStep(d) \/ DrainFails(d)
    PROVE  Lifecycle'
BY DrainKeepsBoxes, LifeFrame DEF Lifecycle, ledger

\* Enough receipts are receipts of all items.
LEMMA SettledFacts ==
    ASSUME NEW r \in Runs, run[r].enqueued = Size[r], Settled(r)
    PROVE  \A i \in Items(r) : receipts[r][i] \in Outcomes
<1> DEFINE S == {i \in Items(r) : receipts[r][i] \in Outcomes}
<1>1. IsFiniteSet(Items(r)) /\ Cardinality(Items(r)) = Size[r] /\ Size[r] \in Nat
    BY ItemFacts
<1>2. S \in SUBSET Items(r)
    OBVIOUS
<1>3. Cardinality(S) >= Size[r]
    BY DEF Settled, Count
<1> HIDE DEF S
<1>4. Cardinality(S) <= Size[r] /\ (Size[r] = Cardinality(S) => Items(r) = S)
    BY <1>1, <1>2, FS_Subset
<1>5. Cardinality(S) \in Nat
    BY <1>1, <1>2, FS_Subset, FS_CardinalityType
<1>6. QED
    BY <1>1, <1>3, <1>4, <1>5 DEF S

\* The batch of recordSourceRunIngestOutcome at the row it settles.
LEMMA AccountFacts ==
    ASSUME TypeOK, NEW lane \in Lanes, Account(lane)
    PROVE  LET r == consumer[lane].message[1]
           IN  /\ r \in Runs /\ consumer[lane] # Idle
               /\ run'[r].status = IF run[r].status = "queued" /\ Settled(r) THEN Verdict(r)
                                   ELSE run[r].status
               /\ run'[r].enqueued = run[r].enqueued
               /\ run'[r].accounted <=> run[r].accounted \/ run'[r].status \in Ended
               /\ health'[r] = IF run'[r].status \in Ended /\ ~run[r].accounted
                               THEN health[r] + 1 ELSE health[r]
               /\ \A q \in Runs \ {r} : run'[q] = run[q] /\ health'[q] = health[q]
               /\ UNCHANGED <<receipts, box, raw, producer, escapes>>
<1> DEFINE r == consumer[lane].message[1]
           status == IF run[r].status = "queued" /\ Settled(r) THEN Verdict(r)
                     ELSE run[r].status
           mark == run[r].accounted \/ Accounts(r, status)
<1>1. consumer[lane] # Idle /\ r \in Runs
    BY ConsumerFacts DEF Account, Working
<1>2. run[r] \in RunRow /\ r \in DOMAIN run /\ r \in DOMAIN health
    BY <1>1 DEF TypeOK
<1>3. /\ run' = [run EXCEPT ![r] = [run[r] EXCEPT !.status = status, !.accounted = mark]]
      /\ health' = [health EXCEPT ![r] = IF Accounts(r, status) THEN health[r] + 1 ELSE health[r]]
      /\ UNCHANGED <<receipts, box, raw, producer, escapes>>
    BY DEF Account, bounds
<1> HIDE DEF status, mark
<1>4. /\ [run[r] EXCEPT !.status = status, !.accounted = mark].status = status
      /\ [run[r] EXCEPT !.status = status, !.accounted = mark].accounted = mark
      /\ [run[r] EXCEPT !.status = status, !.accounted = mark].enqueued = run[r].enqueued
    BY <1>2 DEF RunRow
<1>5. /\ run'[r].status = status /\ run'[r].accounted = mark
      /\ run'[r].enqueued = run[r].enqueued
    BY <1>2, <1>3, <1>4
<1>6. /\ health'[r] = IF Accounts(r, status) THEN health[r] + 1 ELSE health[r]
      /\ \A q \in Runs \ {r} : run'[q] = run[q] /\ health'[q] = health[q]
    BY <1>2, <1>3
<1>7. run[r].accounted \in BOOLEAN
    BY <1>2 DEF RunRow
<1>8. QED
    BY <1>1, <1>3, <1>5, <1>6, <1>7 DEF status, mark, Accounts

\* Receipts are only added.
LEMMA ReceiptFacts ==
    ASSUME TypeOK, NEW lane \in Lanes, Receipt(lane)
    PROVE  LET m == consumer[lane].message
               outcome == IF lane = "primary" THEN "ingested" ELSE "failed"
           IN  /\ m \in Messages /\ m[1] \in Runs /\ m[2] \in Items(m[1])
               /\ consumer[lane] # Idle
               /\ \/ receipts' = receipts
                  \/ /\ run[m[1]].status = "queued" /\ receipts[m[1]][m[2]] = "none"
                     /\ receipts' = [receipts EXCEPT ![m[1]][m[2]] = outcome]
                     /\ receipts'[m[1]] = [receipts[m[1]] EXCEPT ![m[2]] = outcome]
                     /\ \A q \in Runs : \A i \in Items(q) :
                           receipts'[q][i] = IF q = m[1] /\ i = m[2] THEN outcome
                                             ELSE receipts[q][i]
<1> DEFINE m == consumer[lane].message
           outcome == IF lane = "primary" THEN "ingested" ELSE "failed"
<1>1. consumer[lane] # Idle /\ m \in Messages /\ m[1] \in Runs /\ m[2] \in Items(m[1])
    BY ConsumerFacts DEF Receipt, Working
<1>2. \/ receipts' = receipts
      \/ /\ run[m[1]].status = "queued"
         /\ receipts' = [receipts EXCEPT ![m[1]][m[2]] =
                           KeptOutcome(receipts[m[1]][m[2]], outcome)]
    BY DEF Receipt
<1>3. /\ receipts = [q \in Runs |-> receipts[q]]
      /\ \A q \in Runs : receipts[q] \in [Items(q) -> Outcomes \cup {"none"}]
    BY DEF TypeOK
<1>4. CASE receipts[m[1]][m[2]] # "none"
  <2>1. KeptOutcome(receipts[m[1]][m[2]], outcome) = receipts[m[1]][m[2]]
      BY <1>4 DEF KeptOutcome
  <2>2. \/ receipts' = receipts
        \/ receipts' = [receipts EXCEPT ![m[1]] =
                          [receipts[m[1]] EXCEPT ![m[2]] = receipts[m[1]][m[2]]]]
      BY <1>2, <2>1
  <2>3. receipts[m[1]] \in [Items(m[1]) -> Outcomes \cup {"none"}]
      BY <1>1, <1>3
  <2>4. receipts[m[1]] = [receipts[m[1]] EXCEPT ![m[2]] = receipts[m[1]][m[2]]]
      BY <2>3
  <2>5. [receipts EXCEPT ![m[1]] = receipts[m[1]]] = receipts
      BY <1>1, <1>3
  <2>6. receipts' = receipts
      BY <2>2, <2>4, <2>5
  <2>7. QED
      BY <1>1, <2>6
<1>5. CASE receipts[m[1]][m[2]] = "none"
  <2>1. KeptOutcome(receipts[m[1]][m[2]], outcome) = outcome
      BY <1>5 DEF KeptOutcome
  <2>2. CASE receipts' = receipts
      BY <1>1, <2>2
  <2>3. CASE /\ run[m[1]].status = "queued"
             /\ receipts' = [receipts EXCEPT ![m[1]][m[2]] = outcome]
    <3>1. receipts' = [receipts EXCEPT ![m[1]] = [receipts[m[1]] EXCEPT ![m[2]] = outcome]]
        BY <2>3
    <3> HIDE DEF outcome
    <3>2. receipts'[m[1]] = [receipts[m[1]] EXCEPT ![m[2]] = outcome]
        BY <1>1, <1>3, <3>1
    <3>3. \A q \in Runs : \A i \in Items(q) :
             receipts'[q][i] = IF q = m[1] /\ i = m[2] THEN outcome ELSE receipts[q][i]
        BY <1>1, <1>3, <3>1, <3>2
    <3>4. QED
        BY <1>1, <1>5, <2>3, <3>2, <3>3 DEF outcome
  <2>4. QED
      BY <1>2, <2>1, <2>2, <2>3
<1>6. QED
    BY <1>4, <1>5

LEMMA ConsumerLife ==
    ASSUME TypeOK, Lifecycle, NEW lane \in Lanes, ConsumerStep(lane) \/ ConsumerEnds(lane)
    PROVE  Lifecycle'
<1>1. CASE Receipt(lane)
  <2>1. UNCHANGED <<run, health, box, raw, producer, escapes>>
      BY <1>1 DEF Receipt, bounds
  <2> DEFINE m == consumer[lane].message
             outcome == IF lane = "primary" THEN "ingested" ELSE "failed"
  <2>2. \/ receipts' = receipts
        \/ \A q \in Runs : \A i \in Items(q) :
              receipts'[q][i] = IF q = m[1] /\ i = m[2] THEN outcome ELSE receipts[q][i]
      BY <1>1, ReceiptFacts, Zenon
  <2>3. \A q \in Runs : \A i \in Items(q) :
           receipts[q][i] # "none" => receipts'[q][i] # "none"
      BY <2>2
  <2>4. QED
      BY <2>1, <2>3, LifeFrame DEF Lifecycle
<1>2. CASE Account(lane)
  <2>0. PICK r \in Runs : r = consumer[lane].message[1]
      BY <1>2, AccountFacts
  <2>1. ASSUME NEW q \in Runs, q # r PROVE Life(q)'
    <3>1. /\ run'[q] = run[q] /\ health'[q] = health[q]
          /\ UNCHANGED <<receipts, box, raw, producer, escapes>>
        BY <1>2, <2>0, <2>1, AccountFacts
    <3>2. QED
        BY <2>1, <3>1, LifeFrame DEF Lifecycle
  <2>2. /\ r \in Runs
        /\ run'[r].status = IF run[r].status = "queued" /\ Settled(r) THEN Verdict(r)
                            ELSE run[r].status
        /\ run'[r].enqueued = run[r].enqueued
        /\ run'[r].accounted <=> run[r].accounted \/ run'[r].status \in Ended
        /\ health'[r] = IF run'[r].status \in Ended /\ ~run[r].accounted
                        THEN health[r] + 1 ELSE health[r]
        /\ UNCHANGED <<receipts, box, raw, producer, escapes>>
      BY <1>2, <2>0, AccountFacts
  <2>3. Life(r)'
    <3>1. Life(r) /\ Size[r] \in Nat /\ Size[r] > 0
        BY <2>2, ItemFacts DEF Lifecycle
    <3>2. health[r] \in Nat /\ run[r].status \in {"none", "running", "queued"} \cup Ended
        BY <2>2 DEF TypeOK, RunRow
    <3>3. CASE run[r].status = "queued" /\ Settled(r)
      <4>1. run[r].enqueued = Size[r]
          BY <3>1, <3>3 DEF Life, RowFollowsRun
      <4>2. \A i \in Items(r) : receipts[r][i] # "none"
          BY <2>2, <3>3, <4>1, SettledFacts DEF Outcomes
      <4>3. run'[r].status \in Ended
          BY <2>2, <3>3 DEF Verdict, Ended
      <4>4. QED
          BY <2>2, <3>1, <3>2, <3>3, <4>1, <4>2, <4>3
             DEF Ended, Life, RowFollowsRun, BoxFollowsRun, ProducerFollowsRun, Faithful, IsReady
    <3>4. CASE ~(run[r].status = "queued" /\ Settled(r))
      <4>1. run'[r].status = run[r].status
          BY <2>2, <3>4
      <4>2. QED
          BY <2>2, <3>1, <3>2, <4>1
             DEF Ended, Life, RowFollowsRun, BoxFollowsRun, ProducerFollowsRun, Faithful, IsReady
    <3>5. QED
        BY <3>3, <3>4
  <2>4. ASSUME NEW q \in Runs PROVE Life(q)'
      BY <2>1, <2>3
  <2>5. QED
      BY <2>4 DEF Lifecycle
<1>3. CASE \/ \E m \in Messages : Deliver(lane, m)
           \/ Ack(lane) \/ Keep \/ Unrecorded \/ ConsumerEnds(lane)
  <2>1. UNCHANGED <<run, receipts, health, box, raw, producer, escapes>>
      BY <1>3 DEF Deliver, Ack, Keep, Unrecorded, ConsumerEnds, Retry, Fault, ledger, bounds
  <2>2. QED
      BY <2>1, LifeFrame DEF Lifecycle
<1>4. QED
    BY <1>1, <1>2, <1>3 DEF ConsumerStep

-----------------------------------------------------------------------------
(* What is drained, sent and delivered. *)

\* Producers and maintenance leave the drains, the queue and the receipts alone;
\* a run that is handed off stays so as long as no error is taken for a refusal.
LEMMA HostKeepsTransport ==
    ASSUME TypeOK, Lifecycle, NEW r \in Runs, Produce(r) \/ Maintain(r) \/ LeaseExpires(r)
    PROVE  /\ UNCHANGED <<drain, transport, receipts>>
           /\ escapes' = 0 => escapes = 0
           /\ escapes' = 0 =>
                 \A q \in Runs : run[q].enqueued > 0 => run'[q].enqueued > 0
<1>1. UNCHANGED <<drain, transport, receipts>>
  <2>1. CASE Produce(r)
      BY <2>1 DEF Produce, Begin, CollectNothing, FinishThrows, FinishUnsent, FailUnsent,
                  FinishEmpty, Reserve, ReserveThrows, Stage, StageThrows,
                  Discard, Activate, ActivateBatch, Confirm, HandoffThrows, FinishFailed,
                  ProducerEnds, Finish, ledger
  <2>2. CASE Maintain(r) \/ LeaseExpires(r)
      BY <2>2 DEF Maintain, Resume, ActivateBatch, Abandon, CleanBodies, CleanHeader,
                  DeleteTerminal, LeaseExpires, ledger
  <2>3. QED
      BY <2>1, <2>2
<1>2. escapes' = 0 => escapes = 0
  <2>1. CASE Produce(r)
    <3>1. escapes \in Nat
        BY DEF TypeOK
    <3>2. UNCHANGED escapes \/ escapes' = escapes + 1
        BY <2>1 DEF Produce, Begin, CollectNothing, FinishThrows, FinishUnsent, Reserve,
                    ReserveThrows, Stage, StageThrows, Discard, Activate, Confirm,
                    HandoffThrows, FinishFailed, ProducerEnds, Fault, Escape, bounds
    <3>3. QED
        BY <3>1, <3>2
  <2>2. CASE Maintain(r) \/ LeaseExpires(r)
      BY <2>2 DEF Maintain, Resume, Abandon, CleanBodies, CleanHeader,
                  DeleteTerminal, LeaseExpires, bounds
  <2>3. QED
      BY <2>1, <2>2
<1>3. ASSUME escapes' = 0, NEW q \in Runs, run[q].enqueued > 0
      PROVE  run'[q].enqueued > 0
  <2>t. /\ run[q] \in RunRow /\ q \in DOMAIN run /\ r \in DOMAIN run /\ run[r] \in RunRow
        /\ Size[r] \in Nat /\ Size[r] > 0
        /\ Life(r) /\ escapes = 0 /\ run[r].enqueued \in Nat
      BY <1>2, <1>3, ItemFacts DEF TypeOK, Lifecycle, RunRow
  <2>1. CASE CollectNothing(r) \/ FinishThrows(r) \/ FinishUnsent(r) \/ FinishFailed(r)
    <3>1. run[r].enqueued = 0
        BY <2>1, <2>t
           DEF CollectNothing, FinishThrows, FinishUnsent, FinishFailed, Step, Life,
               ProducerFollowsRun, RowFollowsRun, Faithful
    <3>2. q # r
        BY <1>3, <3>1
    <3>3. run'[q] = run[q]
        BY <2>1, <2>t, <3>2
           DEF CollectNothing, FinishThrows, FinishUnsent, FailUnsent, FinishEmpty, FinishFailed,
               Finish, ledger
    <3>4. QED
        BY <1>3, <3>3
  <2>2. CASE Begin(r) \/ Abandon(r)
    <3>1. /\ [run[r] EXCEPT !.status = "running"].enqueued = run[r].enqueued
          /\ [run[r] EXCEPT !.status = "failed", !.accounted = TRUE].enqueued = run[r].enqueued
        BY <2>t DEF RunRow
    <3>2. \/ run' = [run EXCEPT ![r] = [run[r] EXCEPT !.status = "running"]]
          \/ run' = [run EXCEPT ![r] = [run[r] EXCEPT !.status = "failed", !.accounted = TRUE]]
          \/ run' = run
        BY <2>2 DEF Begin, Abandon
    <3>3. QED
        BY <1>3, <2>t, <3>1, <3>2
  <2>3. CASE ActivateBatch(r)
    <3>1. run'[r].enqueued = Size[r] \/ run' = run
        BY <2>3, ActivationFacts DEF Activation
    <3>2. q # r => run'[q] = run[q]
        BY <2>3, <2>t DEF ActivateBatch
    <3>3. QED
        BY <1>3, <2>t, <3>1, <3>2
  <2>4. CASE UNCHANGED run
      BY <1>3, <2>4
  <2>5. QED
      BY <2>1, <2>2, <2>3, <2>4
         DEF Produce, Reserve, ReserveThrows, Stage, StageThrows, Discard, Activate, Confirm,
             HandoffThrows, ProducerEnds, Maintain, Resume, CleanBodies, CleanHeader,
             DeleteTerminal, LeaseExpires, ledger
<1>4. QED
    BY <1>1, <1>2, <1>3

\* How producers and maintenance change the header of a run: they begin one,
\* activate one without moving its cursor, retire one, or keep its cursor.
LEMMA HostMovesBox ==
    ASSUME TypeOK, NEW r \in Runs, Produce(r) \/ Maintain(r) \/ LeaseExpires(r),
           NEW q \in Runs
    PROVE  \/ box'[q].state \notin {"staging", "ready"}
           \/ box'[q] = Staging
           \/ /\ box'[q].next = box[q].next /\ box[q].state \in {"staging", "ready"}
              /\ box'[q].state \in {box[q].state, "ready"}
<1> DEFINE Moved == \/ box'[q].state \notin {"staging", "ready"}
                    \/ box'[q] = Staging
                    \/ /\ box'[q].next = box[q].next /\ box[q].state \in {"staging", "ready"}
                       /\ box'[q].state \in {box[q].state, "ready"}
<1> SUFFICES Moved
    OBVIOUS
<1>1. ASSUME UNCHANGED box \/ box'[q] = box[q] PROVE Moved
  <2>1. box'[q] = box[q]
      BY <1>1
  <2>2. QED
      BY <2>1
<1>2. ASSUME box[r] # NoBox,
             \/ \E b \in SUBSET Nat : box' = [box EXCEPT ![r] = [box[r] EXCEPT !.bodies = b]]
             \/ box' = [box EXCEPT ![r] = [box[r] EXCEPT !.due = TRUE]]
             \/ box[r].state \in {"staging", "ready"} /\
                box' = [box EXCEPT ![r] = [box[r] EXCEPT !.state = "ready"]]
             \/ box' = [box EXCEPT ![r] = [box[r] EXCEPT !.state = "abandoned", !.lease = None]]
      PROVE  Moved
  <2>1. box[r] \in Header /\ r \in DOMAIN box
      BY <1>2, BoxFacts DEF TypeOK
  <2>2. CASE q # r
    <3>1. box \in [Runs -> Header \cup {NoBox}]
        BY DEF TypeOK
    <3>2. box'[q] = box[q]
        BY <1>2, <2>2, <3>1
    <3>3. QED
        BY <1>1, <3>2
  <2>3. CASE q = r
    <3>1. /\ \A b \in SUBSET Nat :
                /\ [box[r] EXCEPT !.bodies = b].next = box[r].next
                /\ [box[r] EXCEPT !.bodies = b].state = box[r].state
          /\ [box[r] EXCEPT !.due = TRUE].next = box[r].next
          /\ [box[r] EXCEPT !.due = TRUE].state = box[r].state
          /\ [box[r] EXCEPT !.state = "ready"].next = box[r].next
          /\ [box[r] EXCEPT !.state = "ready"].state = "ready"
          /\ [box[r] EXCEPT !.state = "abandoned", !.lease = None].state = "abandoned"
        BY <2>1 DEF Header
    <3>2. QED
        BY <1>2, <2>1, <2>3, <3>1
  <2>4. QED
      BY <2>2, <2>3
<1>3. box' = [box EXCEPT ![r] = Staging] => Moved
    BY DEF TypeOK
<1>4. box' = [box EXCEPT ![r] = NoBox] => Moved
    BY NoBoxFacts DEF TypeOK
<1>5. ASSUME box[r] # NoBox, InsertChunk(r) PROVE Moved
  <2>1. PICK b \in SUBSET Items(r) : box' = [box EXCEPT ![r] = [box[r] EXCEPT !.bodies = b]]
      BY <1>5, ChunkFacts
  <2>2. b \in SUBSET Nat
      BY ItemFacts
  <2>3. QED
      BY <1>2, <1>5, <2>1, <2>2
<1>6. ASSUME ActivateBatch(r) PROVE Moved
  <2>1. \/ box' = box
        \/ /\ box[r].state \in {"staging", "ready"} /\ box[r] # NoBox
           /\ box' = [box EXCEPT ![r] = [box[r] EXCEPT !.state = "ready"]]
      BY <1>6, NoBoxFacts DEF ActivateBatch, IsReady
  <2>2. QED
      BY <1>1, <1>2, <2>1
<1> HIDE DEF Moved
<1>7. CASE UNCHANGED box
    BY <1>1, <1>7
<1>8. CASE Reserve(r) \/ ReserveThrows(r) \/ Discard(r) \/ CleanHeader(r) \/ DeleteTerminal(r)
  <2>1. box' = box \/ box' = [box EXCEPT ![r] = Staging] \/ box' = [box EXCEPT ![r] = NoBox]
      BY <1>8 DEF Reserve, ReserveThrows, Discard, CleanHeader, DeleteTerminal
  <2>2. QED
      BY <1>1, <1>3, <1>4, <2>1
<1>9. CASE Stage(r) \/ StageThrows(r)
  <2>1. box' = box \/ (box[r] # NoBox /\ InsertChunk(r))
      BY <1>9 DEF Stage, StageThrows
  <2>2. QED
      BY <1>1, <1>5, <2>1
<1>10. CASE Activate(r) \/ Resume(r)
  <2>1. box' = box \/ ActivateBatch(r)
      BY <1>10 DEF Activate, Resume
  <2>2. QED
      BY <1>1, <1>6, <2>1
<1>11. CASE Abandon(r) \/ CleanBodies(r) \/ LeaseExpires(r)
  <2>1. box[r] # NoBox
      BY <1>11, NoBoxFacts DEF Abandon, CleanBodies, LeaseExpires, IsReady
  <2>2. \/ box' = [box EXCEPT ![r] = [box[r] EXCEPT !.bodies = {}]]
        \/ box' = [box EXCEPT ![r] = [box[r] EXCEPT !.due = TRUE]]
        \/ box' = [box EXCEPT ![r] = [box[r] EXCEPT !.state = "abandoned", !.lease = None]]
      BY <1>11 DEF Abandon, CleanBodies, LeaseExpires
  <2>3. {} \in SUBSET Nat
      OBVIOUS
  <2>4. QED
      BY <1>2, <2>1, <2>2, <2>3
<1>12. QED
    BY <1>7, <1>8, <1>9, <1>10, <1>11
       DEF Produce, Begin, CollectNothing, FinishThrows, FinishUnsent, Confirm, HandoffThrows,
           FinishFailed, ProducerEnds, Maintain

LEMMA HostTransport ==
    ASSUME TypeOK, Lifecycle, OnlyActivated, Covered, Delivered, FailedRecoverable, NothingLost,
           NEW r \in Runs, Produce(r) \/ Maintain(r) \/ LeaseExpires(r)
    PROVE  OnlyActivated' /\ Covered' /\ Delivered' /\ FailedRecoverable' /\ NothingLost'
<1>1. UNCHANGED <<drain, queue, sent, consumer, incidents, receipts>>
    BY HostKeepsTransport DEF transport
<1>2. OnlyActivated'
  <2>1. SUFFICES ASSUME escapes' = 0
                 PROVE  /\ \A m \in sent : run'[m[1]].enqueued > 0
                        /\ \A d \in Drains : drain[d] # Idle => run'[drain[d].run].enqueued > 0
      BY <1>1 DEF OnlyActivated
  <2>2. escapes = 0 /\ \A q \in Runs : run[q].enqueued > 0 => run'[q].enqueued > 0
      BY <2>1, HostKeepsTransport
  <2>3. \A m \in sent : m[1] \in Runs
      BY MessageFacts DEF TypeOK
  <2>4. \A d \in Drains : drain[d] # Idle => drain[d].run \in Runs
      BY DrainFacts
  <2>5. QED
      BY <2>2, <2>3, <2>4 DEF OnlyActivated
<1>3. Covered'
  <2>1. ASSUME NEW d \in Drains PROVE DrainCovered(d)'
      BY <1>1, <2>1 DEF Covered, DrainCovered, SentBelow
  <2>2. ASSUME NEW q \in Runs, NEW i \in Items(q), box'[q].state = "ready", i < box'[q].next
        PROVE  <<q, i>> \in sent
    <3>1. \/ box'[q] = Staging
          \/ box'[q].next = box[q].next /\ box[q].state \in {"staging", "ready"}
        BY <2>2, HostMovesBox
    <3>2. box'[q].next = box[q].next /\ box[q].state \in {"staging", "ready"}
        BY <2>2, <3>1, StagingFacts
    <3>3. i \in Nat /\ (box[q].state = "staging" => box[q].next = 0)
        BY <2>2, ItemFacts DEF Covered
    <3>4. box[q].state = "ready" /\ i < box[q].next
        BY <2>2, <3>2, <3>3
    <3>5. QED
        BY <2>2, <3>4 DEF Covered, CursorCovered, IsReady
  <2>3. ASSUME NEW q \in Runs, box'[q].state = "staging"
        PROVE  box'[q].next = 0
    <3>1. CASE box'[q] = Staging
        BY <3>1 DEF Staging
    <3>2. CASE box'[q] # Staging
        BY <2>3, <3>2, HostMovesBox DEF Covered
    <3>3. QED
        BY <3>1, <3>2
  <2>4. QED
      BY <1>1, <2>1, <2>2, <2>3 DEF Covered, CursorCovered, IsReady
<1>4. Delivered' /\ FailedRecoverable' /\ NothingLost'
    BY <1>1 DEF Delivered, DeliveryFollowsQueue, FailedRecoverable, NothingLost
<1>5. QED
    BY <1>2, <1>3, <1>4

\* What handing a batch to the queue changes.
LEMMA SendBatchFacts ==
    ASSUME TypeOK, NEW d \in Drains, drain[d].phase = "sending", SendBatch(d)
    PROVE  /\ {drain[d].run} \X drain[d].send \subseteq Messages
           /\ sent' = sent \cup ({drain[d].run} \X drain[d].send)
           /\ queue'["dead-letter"] = queue["dead-letter"]
           /\ \A m \in Messages :
                 queue'["primary"][m] = IF m \in {drain[d].run} \X drain[d].send
                                        THEN queue["primary"][m] + 1 ELSE queue["primary"][m]
           /\ UNCHANGED <<run, receipts, box, consumer, incidents>>
<1> DEFINE batch == {drain[d].run} \X drain[d].send
<1>1. batch \subseteq Messages
    BY DrainFacts, RunBatch, IdleFacts
<1> HIDE DEF batch
<1>2. /\ queue' = [queue EXCEPT !["primary"] =
                     [m \in Messages |-> IF m \in batch THEN queue["primary"][m] + 1
                                         ELSE queue["primary"][m]]]
      /\ sent' = sent \cup batch
      /\ UNCHANGED <<run, receipts, box, consumer, incidents>>
    BY DEF SendBatch, batch, ledger
<1>3. DOMAIN queue = Lanes /\ "primary" \in Lanes /\ "dead-letter" \in Lanes
    BY DEF TypeOK, Lanes
<1>4. /\ queue'["dead-letter"] = queue["dead-letter"]
      /\ \A m \in Messages : queue'["primary"][m] = IF m \in batch THEN queue["primary"][m] + 1
                                                    ELSE queue["primary"][m]
    BY <1>2, <1>3
<1>5. QED
    BY <1>1, <1>2, <1>4 DEF batch

LEMMA DrainStepsOnly ==
    ASSUME TypeOK, NEW d \in Drains, DrainStep(d) \/ DrainFails(d)
    PROVE  /\ \A e \in Drains \ {d} : drain'[e] = drain[e]
           /\ \/ UNCHANGED <<queue, sent>>
              \/ drain[d].phase = "sending" /\ SendBatch(d)
<1>1. \E w : Become(d, w)
    BY DEF DrainStep, DrainFails, Claim, Release, Refuse, ReleaseClaim, Select, Send,
           SendThrows, Checkpoint, DrainEnds
<1>2. \A e \in Drains \ {d} : drain'[e] = drain[e]
    BY <1>1 DEF Become, TypeOK
<1>3. \/ UNCHANGED <<queue, sent>>
      \/ drain[d].phase = "sending" /\ SendBatch(d)
    BY DEF DrainStep, DrainFails, Claim, Release, Refuse, ReleaseClaim, Select, Send,
           SendThrows, Checkpoint, DrainEnds, transport
<1>4. QED
    BY <1>2, <1>3

\* Where a drain may be after a step of its own.
LEMMA DrainMoves ==
    ASSUME TypeOK, NEW d \in Drains, DrainStep(d) \/ DrainFails(d)
    PROVE  \/ drain'[d] = Idle
           \/ \E r \in Runs : Claim(d, r) /\ drain'[d].phase = "claimed"
                              /\ drain'[d].run = r /\ drain'[d].next = box[r].next
           \/ /\ Select(d) /\ drain[d] # Idle
              /\ drain'[d].run = drain[d].run /\ drain'[d].next = drain[d].next
              /\ drain'[d].send = BatchRange(drain[d].run, drain[d].next).send
              /\ drain'[d].through = BatchRange(drain[d].run, drain[d].next).through
              /\ drain'[d].phase = IF drain'[d].send = {} THEN "checkpointing" ELSE "sending"
           \/ /\ Send(d) /\ drain[d] # Idle /\ drain'[d].phase = "checkpointing"
              /\ drain'[d].run = drain[d].run /\ drain'[d].next = drain[d].next
              /\ drain'[d].through = drain[d].through
           \/ /\ Checkpoint(d) /\ drain[d] # Idle /\ drain'[d].phase = "selecting"
              /\ drain'[d].run = drain[d].run /\ drain'[d].next = drain[d].through + 1
<1>1. ASSUME NEW w, Become(d, w) PROVE drain'[d] = w
    BY <1>1 DEF Become, TypeOK
<1>2. CASE Become(d, Idle)
    BY <1>1, <1>2
<1>3. ASSUME NEW r \in Runs, Claim(d, r)
      PROVE  /\ drain'[d].phase = "claimed" /\ drain'[d].run = r
             /\ drain'[d].next = box[r].next
  <2>1. Become(d, [phase |-> "claimed", run |-> r, next |-> box[r].next])
      BY <1>3 DEF Claim
  <2>2. drain'[d] = [phase |-> "claimed", run |-> r, next |-> box[r].next]
      BY <1>1, <2>1
  <2>3. QED
      BY <2>2
<1>4. CASE Select(d) /\ ~Become(d, Idle)
  <2> DEFINE range == BatchRange(drain[d].run, drain[d].next)
             w == [phase |-> IF range.send = {} THEN "checkpointing" ELSE "sending",
                   run |-> drain[d].run, next |-> drain[d].next,
                   send |-> range.send, through |-> range.through]
  <2>1. Become(d, w) /\ drain[d] # Idle
      BY <1>4, DrainFacts DEF Select
  <2> HIDE DEF range
  <2>2. drain'[d] = w
      BY <1>1, <2>1
  <2>3. /\ drain'[d].run = drain[d].run /\ drain'[d].next = drain[d].next
        /\ drain'[d].send = range.send /\ drain'[d].through = range.through
        /\ drain'[d].phase = IF range.send = {} THEN "checkpointing" ELSE "sending"
      BY <2>2
  <2>4. QED
      BY <1>4, <2>1, <2>3 DEF range
<1>5. CASE Send(d)
  <2>1. drain[d] \in Batch /\ drain[d] # Idle
      BY <1>5, DrainFacts DEF Send
  <2>2. drain'[d] = [drain[d] EXCEPT !.phase = "checkpointing"]
      BY <1>1, <1>5 DEF Send
  <2>3. /\ drain'[d].phase = "checkpointing" /\ drain'[d].run = drain[d].run
        /\ drain'[d].next = drain[d].next /\ drain'[d].through = drain[d].through
      BY <2>1, <2>2 DEF Batch
  <2>4. QED
      BY <1>5, <2>1, <2>3
<1>6. CASE Checkpoint(d) /\ ~Become(d, Idle)
  <2>1. Become(d, [phase |-> "selecting", run |-> drain[d].run, next |-> drain[d].through + 1])
      BY <1>6 DEF Checkpoint
  <2>2. drain'[d] = [phase |-> "selecting", run |-> drain[d].run, next |-> drain[d].through + 1]
      BY <1>1, <2>1
  <2>3. drain[d] # Idle
      BY <1>6, DrainFacts DEF Checkpoint
  <2>4. QED
      BY <1>6, <2>2, <2>3
<1>7. QED
  <2>1. \/ Become(d, Idle) \/ Select(d) \/ Send(d) \/ Checkpoint(d)
        \/ \E r \in Runs : Claim(d, r)
      BY DEF DrainStep, DrainFails, Release, Refuse, ReleaseClaim, SendThrows, DrainEnds
  <2>2. QED
      BY <1>2, <1>3, <1>4, <1>5, <1>6, <2>1

\* A drain of a handed-off run, or of no run.
LEMMA DrainTransport ==
    ASSUME TypeOK, Lifecycle, OnlyActivated, Covered, Delivered, FailedRecoverable, NothingLost,
           NEW d \in Drains, DrainStep(d) \/ DrainFails(d)
    PROVE  OnlyActivated' /\ Covered' /\ Delivered' /\ FailedRecoverable' /\ NothingLost'
<1> DEFINE batch == {drain[d].run} \X drain[d].send
           CursorOK(q) == /\ box'[q].state = "staging" => box'[q].next = 0
                          /\ box'[q].state = "ready" =>
                                \A i \in Items(q) : i < box'[q].next => <<q, i>> \in sent'
<1>1. /\ UNCHANGED <<run, receipts, escapes, consumer, incidents>>
      /\ \A q \in Runs : box'[q].state = box[q].state
    BY DrainKeepsBoxes DEF ledger
<1>2. /\ \A e \in Drains \ {d} : drain'[e] = drain[e]
      /\ UNCHANGED <<queue, sent>> \/ (drain[d].phase = "sending" /\ SendBatch(d))
    BY DrainStepsOnly
<1>3. sent \subseteq sent' /\ (sent' = sent \/ (drain[d] # Idle /\ sent' = sent \cup batch))
    BY <1>2, SendBatchFacts, DrainFacts
<1>4. OnlyActivated'
  <2>1. SUFFICES ASSUME escapes = 0
                 PROVE  /\ \A m \in sent' : run[m[1]].enqueued > 0
                        /\ \A e \in Drains : drain'[e] # Idle => run[drain'[e].run].enqueued > 0
      BY <1>1 DEF OnlyActivated
  <2>2. \A m \in batch : m[1] = drain[d].run
      OBVIOUS
  <2>3. \A m \in sent' : run[m[1]].enqueued > 0
      BY <1>3, <2>1, <2>2 DEF OnlyActivated
  <2>4. drain'[d] # Idle => run[drain'[d].run].enqueued > 0
    <3>1. ASSUME NEW r \in Runs, Claim(d, r) PROVE run[r].enqueued > 0
        BY <2>1, <3>1, ItemFacts DEF Claim, Lifecycle, Life, Faithful
    <3>2. QED
        BY <2>1, <3>1, DrainMoves DEF OnlyActivated
  <2>5. QED
      BY <1>2, <2>1, <2>3, <2>4 DEF OnlyActivated
<1>5. Delivered' /\ FailedRecoverable' /\ NothingLost'
  <2>1. CASE UNCHANGED <<queue, sent>>
      BY <1>1, <2>1 DEF Delivered, DeliveryFollowsQueue, FailedRecoverable, NothingLost
  <2>2. CASE drain[d].phase = "sending" /\ SendBatch(d)
    <3>1. /\ batch \subseteq Messages /\ sent' = sent \cup batch
          /\ queue'["dead-letter"] = queue["dead-letter"]
          /\ \A m \in Messages : queue'["primary"][m] = IF m \in batch
                                                        THEN queue["primary"][m] + 1
                                                        ELSE queue["primary"][m]
        BY <2>2, SendBatchFacts
    <3>2. \A m \in Messages : queue["primary"][m] \in Nat
        BY DEF TypeOK, Lanes
    <3>3. Lanes = {"primary", "dead-letter"}
        BY DEF Lanes
    <3> HIDE DEF batch
    <3>4. \A lane \in Lanes : \A m \in Messages :
             /\ queue'[lane][m] > 0 => queue[lane][m] > 0 \/ m \in batch
             /\ queue[lane][m] > 0 => queue'[lane][m] > 0
             /\ m \in batch => queue'["primary"][m] > 0
        BY <3>1, <3>2, <3>3
    <3>5. \A lane \in Lanes : consumer[lane] # Idle => consumer[lane].message \in Messages
        BY ConsumerFacts
    <3>6. DeliveryFollowsQueue("primary")' /\ DeliveryFollowsQueue("dead-letter")'
        BY <1>1, <3>1, <3>3, <3>4, <3>5 DEF Delivered, DeliveryFollowsQueue
    <3>7. Delivered'
        BY <1>1, <3>1, <3>3, <3>6 DEF Delivered
    <3>8. FailedRecoverable'
        BY <1>1, <3>1 DEF FailedRecoverable
    <3>9. NothingLost'
        BY <1>1, <3>1, <3>3, <3>4 DEF NothingLost, TypeOK
    <3>10. QED
        BY <3>7, <3>8, <3>9
  <2>3. QED
      BY <1>2, <2>1, <2>2
<1>6. DrainCovered(d)'
  <2>1. CASE drain'[d] = Idle
      BY <2>1, IdleFacts DEF DrainCovered
  <2>2. ASSUME NEW r \in Runs, Claim(d, r), drain'[d].phase = "claimed",
               drain'[d].run = r, drain'[d].next = box[r].next
        PROVE  DrainCovered(d)'
      BY <1>3, <2>2 DEF Claim, Covered, CursorCovered, DrainCovered, SentBelow
  <2>3. CASE /\ Select(d) /\ drain[d] # Idle
             /\ drain'[d].run = drain[d].run /\ drain'[d].next = drain[d].next
             /\ drain'[d].send = BatchRange(drain[d].run, drain[d].next).send
             /\ drain'[d].through = BatchRange(drain[d].run, drain[d].next).through
             /\ drain'[d].phase = IF drain'[d].send = {} THEN "checkpointing" ELSE "sending"
    <3> DEFINE r == drain[d].run
               range == BatchRange(r, drain[d].next)
    <3>1. r \in Runs /\ drain[d].next \in Nat
        BY <2>3, DrainFacts
    <3>2. /\ range.through \in Int
          /\ \A i \in Items(r) : drain[d].next <= i /\ i <= range.through =>
                i \in range.send \/ receipts[r][i] # "none"
        BY <3>1, BatchFacts
    <3>3. \A i \in Items(r) : receipts[r][i] # "none" => <<r, i>> \in sent
      <4>1. ASSUME NEW i \in Items(r), receipts[r][i] # "none" PROVE <<r, i>> \in sent
        <5>1. <<r, i>> \in Messages
            BY <3>1, <4>1, MessageFacts
        <5>2. QED
            BY <4>1, <5>1 DEF Delivered
      <4>2. QED
          BY <4>1
    <3>4. \A i \in Items(r) : i \in Nat /\ (i < drain[d].next => <<r, i>> \in sent)
        BY <2>3, <3>1, ItemFacts DEF Covered, DrainCovered, SentBelow
    <3> HIDE DEF range, r
    <3>5. \A i \in Items(r) : i <= range.through => i \in range.send \/ <<r, i>> \in sent
        BY <3>1, <3>2, <3>3, <3>4
    <3>6. range.send = {} => \A i \in Items(r) : i < range.through + 1 => <<r, i>> \in sent
        BY <3>2, <3>4, <3>5
    <3>7. sent' = sent
        BY <2>3 DEF Select, transport
    <3>8. /\ drain'[d].run = r /\ drain'[d].next = drain[d].next
          /\ drain'[d].send = range.send /\ drain'[d].through = range.through
          /\ drain'[d].phase = IF range.send = {} THEN "checkpointing" ELSE "sending"
        BY <2>3 DEF r, range
    <3>9. QED
        BY <3>4, <3>5, <3>6, <3>7, <3>8 DEF DrainCovered, SentBelow
  <2>4. CASE /\ Send(d) /\ drain[d] # Idle /\ drain'[d].phase = "checkpointing"
             /\ drain'[d].run = drain[d].run /\ drain'[d].next = drain[d].next
             /\ drain'[d].through = drain[d].through
    <3> DEFINE r == drain[d].run
    <3>1. r \in Runs /\ drain[d].through \in Int /\ drain[d].phase = "sending"
        BY <2>4, DrainFacts DEF Send
    <3>2. sent' = sent \cup batch
        BY <2>4, <3>1, SendBatchFacts DEF Send
    <3>3. \A i \in drain[d].send : <<r, i>> \in batch
        OBVIOUS
    <3>4. \A i \in Items(r) : i \in Nat /\ (i <= drain[d].through => <<r, i>> \in sent')
        BY <3>1, <3>2, <3>3, ItemFacts DEF Covered, DrainCovered
    <3>5. \A i \in Items(r) : i < drain[d].next => <<r, i>> \in sent'
        BY <2>4, <3>2 DEF Covered, DrainCovered, SentBelow
    <3> HIDE DEF batch, r
    <3>6. \A i \in Items(r) : i < drain[d].through + 1 => <<r, i>> \in sent'
        BY <3>1, <3>4
    <3>7. QED
        BY <2>4, <3>5, <3>6 DEF DrainCovered, SentBelow, r
  <2>5. CASE /\ Checkpoint(d) /\ drain[d] # Idle /\ drain'[d].phase = "selecting"
             /\ drain'[d].run = drain[d].run /\ drain'[d].next = drain[d].through + 1
    <3>1. drain[d].phase = "checkpointing" /\ sent' = sent
        BY <2>5 DEF Checkpoint, transport
    <3>2. QED
        BY <2>5, <3>1 DEF Covered, DrainCovered, SentBelow
  <2>6. QED
      BY <2>1, <2>2, <2>3, <2>4, <2>5, DrainMoves
<1>7. ASSUME NEW e \in Drains \ {d} PROVE DrainCovered(e)'
  <2>1. drain'[e] = drain[e] /\ DrainCovered(e)
      BY <1>2, <1>7 DEF Covered
  <2>2. QED
      BY <1>3, <2>1 DEF DrainCovered, SentBelow
<1>8. \A q \in Runs : CursorOK(q)
  <2>1. ASSUME NEW q \in Runs, box'[q].next = box[q].next
        PROVE  CursorOK(q)
      BY <1>1, <1>3, <2>1 DEF Covered, CursorCovered, IsReady, SentBelow
  <2>2. ASSUME NEW r \in Runs, box[r] # NoBox,
               \/ box' = [box EXCEPT ![r].lease = d, ![r].due = FALSE]
               \/ box' = [box EXCEPT ![r].lease = None, ![r].due = FALSE]
        PROVE  \A q \in Runs : box'[q].next = box[q].next
    <3>1. box[r] \in Header /\ box \in [Runs -> Header \cup {NoBox}]
        BY <2>2, BoxFacts DEF TypeOK
    <3>2. /\ [box[r] EXCEPT !.lease = d, !.due = FALSE].next = box[r].next
          /\ [box[r] EXCEPT !.lease = None, !.due = FALSE].next = box[r].next
        BY <3>1 DEF Header
    <3>3. \/ box' = [box EXCEPT ![r] = [box[r] EXCEPT !.lease = d, !.due = FALSE]]
          \/ box' = [box EXCEPT ![r] = [box[r] EXCEPT !.lease = None, !.due = FALSE]]
        BY <2>2
    <3>4. QED
        BY <3>1, <3>2, <3>3
  <2>3. CASE \E r \in Runs : Claim(d, r)
    <3>1. PICK r \in Runs : Claim(d, r)
        BY <2>3
    <3>2. box[r] # NoBox
        BY <3>1, NoBoxFacts DEF Claim, IsReady
    <3>3. \A q \in Runs : box'[q].next = box[q].next
        BY <2>2, <3>1, <3>2 DEF Claim
    <3>4. QED
        BY <2>1, <3>3
  <2>4. CASE Refuse(d) \/ Release(d)
    <3>1. drain[d].run \in Runs /\ ReleaseClaim(d)
        BY <2>4, DrainFacts, IdleFacts DEF Refuse, Release
    <3>2. IsReady(drain[d].run) => box[drain[d].run] # NoBox
        BY NoBoxFacts DEF IsReady
    <3>3. \A q \in Runs : box'[q].next = box[q].next
        BY <2>2, <3>1, <3>2 DEF ReleaseClaim
    <3>4. QED
        BY <2>1, <3>3
  <2>5. CASE Select(d) \/ Send(d) \/ SendThrows(d) \/ DrainEnds(d)
    <3>1. box' = box
        BY <2>5 DEF Select, Send, SendThrows, SendBatch, DrainEnds
    <3>2. QED
        BY <2>1, <3>1
  <2>6. CASE Checkpoint(d)
    <3>1. PICK r \in Runs : r = drain[d].run
        BY <2>6, DrainFacts DEF Checkpoint
    <3> DEFINE through == drain[d].through
               n == Advanced(box[r].next, through)
    <3>2. /\ through \in Int /\ SentBelow(r, through + 1)
          /\ UNCHANGED sent
        BY <2>6, <3>1, DrainFacts DEF Checkpoint, Covered, DrainCovered, transport
    <3>3. CASE ~IsReady(r)
      <4>1. box' = box
          BY <2>6, <3>1, <3>3 DEF Checkpoint
      <4>2. QED
          BY <2>1, <4>1
    <3>4. CASE IsReady(r)
      <4>1. box[r] \in Header /\ box[r].next \in Nat /\ box \in [Runs -> Header \cup {NoBox}]
          BY <3>1, <3>4, BoxFacts, NoBoxFacts DEF IsReady, TypeOK
      <4>2. box' = [box EXCEPT ![r] = [box[r] EXCEPT !.next = n]]
          BY <2>6, <3>1, <3>4 DEF Checkpoint
      <4>3. n = box[r].next \/ n = through + 1
          BY DEF Advanced
      <4>4. SentBelow(r, box[r].next)
          BY <3>4 DEF Covered, CursorCovered, SentBelow
      <4> HIDE DEF n, through
      <4>5. box'[r].next = n
          BY <4>1, <4>2 DEF Header
      <4>6. \A i \in Items(r) : i < n => <<r, i>> \in sent'
          BY <3>2, <4>3, <4>4 DEF SentBelow
      <4>7. \A q \in Runs \ {r} : box'[q].next = box[q].next
          BY <4>1, <4>2
      <4>8. box'[r].state = "ready"
          BY <1>1, <3>4 DEF IsReady
      <4>9. \A i \in Items(r) : i < box'[r].next => <<r, i>> \in sent'
          BY <4>5, <4>6
      <4>10. ASSUME NEW q \in Runs
            PROVE  CursorOK(q)
          BY <2>1, <4>7, <4>8, <4>9
      <4>11. QED
          BY <4>10
    <3>5. QED
        BY <3>3, <3>4
  <2>7. QED
      BY <2>3, <2>4, <2>5, <2>6 DEF DrainStep, DrainFails
<1>9. Covered'
    BY <1>6, <1>7, <1>8 DEF Covered, CursorCovered, IsReady
<1>10. QED
    BY <1>4, <1>5, <1>9

\* What a consumer leaves in the lanes when it lets go of a delivery.
LEMMA RetryFacts ==
    ASSUME TypeOK, NEW lane \in Lanes, consumer[lane] # Idle, DeliveryFollowsQueue(lane),
           Retry(lane)
    PROVE  LET m == consumer[lane].message
           IN  /\ consumer' = [consumer EXCEPT ![lane] = Idle]
               /\ UNCHANGED <<ledger, box, drain, sent, incidents>>
               /\ \/ queue' = queue
                  \/ /\ lane = "primary" /\ queue'["dead-letter"][m] > 0
                     /\ \A n \in Messages : \A other \in Lanes :
                           /\ n # m => queue'[other][n] = queue[other][n]
                           /\ queue["dead-letter"][n] > 0 => queue'["dead-letter"][n] > 0
<1> DEFINE m == consumer[lane].message
<1>1. CASE queue' = queue
    BY <1>1 DEF Retry
<1>2. CASE /\ lane = "primary"
           /\ queue' = [queue EXCEPT !["primary"][m] = @ - 1, !["dead-letter"][m] = @ + 1]
  <2>1. /\ m \in Messages /\ DOMAIN queue = Lanes
        /\ queue["primary"] \in [Messages -> Nat] /\ queue["dead-letter"] \in [Messages -> Nat]
        /\ Lanes = {"primary", "dead-letter"}
      BY <1>2, ConsumerFacts DEF TypeOK, Lanes
  <2>2. /\ queue'["primary"] = [queue["primary"] EXCEPT ![m] = queue["primary"][m] - 1]
        /\ queue'["dead-letter"] = [queue["dead-letter"] EXCEPT ![m] = queue["dead-letter"][m] + 1]
      BY <1>2, <2>1
  <2> HIDE DEF m
  <2>3. /\ queue'["dead-letter"][m] = queue["dead-letter"][m] + 1
        /\ \A n \in Messages \ {m} : /\ queue'["primary"][n] = queue["primary"][n]
                                     /\ queue'["dead-letter"][n] = queue["dead-letter"][n]
        /\ \A n \in Messages : queue["dead-letter"][n] \in Nat
      BY <2>1, <2>2
  <2>4. \A n \in Messages : \A other \in Lanes :
           /\ n # m => queue'[other][n] = queue[other][n]
           /\ queue["dead-letter"][n] > 0 => queue'["dead-letter"][n] > 0
      BY <2>1, <2>3
  <2>5. queue'["dead-letter"][m] > 0
      BY <2>1, <2>3
  <2>6. QED
      BY <1>2, <2>4, <2>5 DEF Retry, m
<1>3. QED
    BY <1>1, <1>2 DEF Retry

LEMMA ConsumerTransport ==
    ASSUME TypeOK, Lifecycle, OnlyActivated, Covered, Delivered, FailedRecoverable, NothingLost,
           NEW lane \in Lanes, ConsumerStep(lane) \/ ConsumerEnds(lane)
    PROVE  OnlyActivated' /\ Covered' /\ Delivered' /\ FailedRecoverable' /\ NothingLost'
<1> DEFINE m == consumer[lane].message
<1>t. /\ Lanes = {"primary", "dead-letter"} /\ DOMAIN consumer = Lanes /\ DOMAIN queue = Lanes
      /\ \A other \in Lanes : queue[other] \in [Messages -> Nat]
      /\ DeliveryFollowsQueue("primary") /\ DeliveryFollowsQueue("dead-letter")
      /\ \A other \in Lanes : consumer[other] # Idle => consumer[other].message \in Messages
    BY ConsumerFacts DEF TypeOK, Lanes, Delivered
<1>1. /\ UNCHANGED <<box, drain, sent, escapes>>
      /\ \A q \in Runs : run'[q].enqueued = run[q].enqueued
  <2>1. CASE Account(lane)
    <3>1. UNCHANGED <<box, drain, sent, escapes>>
        BY <2>1 DEF Account, bounds
    <3>2. PICK r \in Runs : r = consumer[lane].message[1]
        BY <2>1, AccountFacts
    <3>3. run'[r].enqueued = run[r].enqueued /\ \A q \in Runs \ {r} : run'[q] = run[q]
        BY <2>1, <3>2, AccountFacts
    <3>4. QED
        BY <3>1, <3>3
  <2>2. CASE ~Account(lane)
      BY <2>2 DEF ConsumerStep, ConsumerEnds, Deliver, Receipt, Ack, Keep, Unrecorded, Retry,
                  Fault, ledger, bounds
  <2>3. QED
      BY <2>1, <2>2
<1>2. OnlyActivated' /\ Covered'
  <2>1. \A n \in sent : n[1] \in Runs
      BY MessageFacts DEF TypeOK
  <2>2. \A d \in Drains : drain[d] # Idle => drain[d].run \in Runs
      BY DrainFacts
  <2>3. OnlyActivated'
      BY <1>1, <2>1, <2>2 DEF OnlyActivated
  <2>4. Covered'
      BY <1>1 DEF Covered, CursorCovered, DrainCovered, SentBelow, IsReady
  <2>5. QED
      BY <2>3, <2>4
<1>3. CASE \E n \in Messages : Deliver(lane, n)
  <2>1. PICK n \in Messages : Deliver(lane, n)
      BY <1>3
  <2>2. /\ UNCHANGED <<queue, sent, receipts, incidents>> /\ queue[lane][n] > 0
        /\ consumer' = [consumer EXCEPT ![lane] = [phase |-> "recording", message |-> n]]
      BY <2>1 DEF Deliver, ledger
  <2>3. consumer'[lane].phase = "recording" /\ consumer'[lane].message = n
      BY <1>t, <2>2
  <2>4. Delivered'
      BY <1>t, <2>2, <2>3 DEF Delivered, DeliveryFollowsQueue
  <2>5. QED
      BY <1>2, <2>2, <2>4 DEF FailedRecoverable, NothingLost
<1>4. CASE Receipt(lane)
  <2>1. /\ m \in Messages /\ m[1] \in Runs /\ m[2] \in Items(m[1]) /\ consumer[lane] # Idle
        /\ Turn(lane, "accounting") /\ UNCHANGED <<queue, sent, incidents>>
      BY <1>4, ReceiptFacts DEF Receipt
  <2>2. /\ consumer'[lane].phase = "accounting" /\ consumer'[lane].message = m
        /\ \A other \in Lanes \ {lane} : consumer'[other] = consumer[other]
      BY <2>1, TurnFacts
  <2>3. \A n \in Messages : \/ receipts'[n[1]][n[2]] = receipts[n[1]][n[2]]
                            \/ n = m /\ (lane = "primary" => receipts'[n[1]][n[2]] # "failed")
                               /\ receipts'[n[1]][n[2]] # "none"
    <3> DEFINE outcome == IF lane = "primary" THEN "ingested" ELSE "failed"
    <3>1. \/ receipts' = receipts
          \/ \A q \in Runs : \A i \in Items(q) :
                receipts'[q][i] = IF q = m[1] /\ i = m[2] THEN outcome ELSE receipts[q][i]
        BY <1>4, ReceiptFacts, Zenon
    <3>2. \A n \in Messages : n = <<n[1], n[2]>> /\ n[1] \in Runs /\ n[2] \in Items(n[1])
        BY MessageFacts
    <3>3. m = <<m[1], m[2]>>
        BY <2>1, <3>2
    <3> HIDE DEF m
    <3>4. QED
        BY <3>1, <3>2, <3>3
  <2>4. queue[lane][m] > 0 /\ m \in sent
      BY <1>t, <2>1 DEF Delivered, DeliveryFollowsQueue
  <2>5. Delivered'
      BY <1>t, <2>1, <2>2, <2>3, <2>4 DEF Delivered, DeliveryFollowsQueue
  <2>6. FailedRecoverable'
      BY <1>t, <2>1, <2>3, <2>4 DEF FailedRecoverable
  <2>7. NothingLost'
      BY <2>1, <2>3 DEF NothingLost, TypeOK
  <2>8. QED
      BY <1>2, <2>5, <2>6, <2>7
<1>5. CASE Account(lane)
  <2>1. /\ consumer[lane] # Idle /\ UNCHANGED <<queue, sent, incidents, receipts>>
        /\ Turn(lane, IF lane = "primary" THEN "acking" ELSE "keeping")
      BY <1>5, AccountFacts DEF Account
  <2>2. /\ consumer'[lane].phase = IF lane = "primary" THEN "acking" ELSE "keeping"
        /\ consumer'[lane].message = m
        /\ \A other \in Lanes \ {lane} : consumer'[other] = consumer[other]
      BY <2>1, TurnFacts
  <2>3. Delivered'
      BY <1>t, <2>1, <2>2 DEF Delivered, DeliveryFollowsQueue
  <2>4. QED
      BY <1>2, <2>1, <2>3 DEF FailedRecoverable, NothingLost
<1>6. CASE lane = "dead-letter" /\ Keep
  <2>1. /\ consumer[lane] # Idle /\ UNCHANGED <<queue, sent, receipts>>
        /\ Turn(lane, "acking") /\ incidents' = incidents \cup {m}
      BY <1>6, ConsumerFacts DEF Keep, Working, Kept, ledger
  <2>2. /\ consumer'[lane].phase = "acking" /\ consumer'[lane].message = m
        /\ \A other \in Lanes \ {lane} : consumer'[other] = consumer[other]
      BY <2>1, TurnFacts
  <2>3. Delivered'
      BY <1>t, <1>6, <2>1, <2>2 DEF Delivered, DeliveryFollowsQueue
  <2>4. QED
      BY <1>2, <2>1, <2>3 DEF FailedRecoverable, NothingLost
<1>7. CASE Ack(lane)
  <2>1. /\ consumer[lane] # Idle /\ consumer[lane].phase = "acking" /\ Handled(lane, m)
        /\ UNCHANGED <<sent, receipts, incidents>>
        /\ consumer' = [consumer EXCEPT ![lane] = Idle]
        /\ queue' = [queue EXCEPT ![lane][m] = @ - 1]
      BY <1>7, ConsumerFacts DEF Ack, Working, ledger
  <2>2. m \in Messages /\ queue[lane][m] > 0
      BY <1>t, <2>1 DEF DeliveryFollowsQueue
  <2>3. \A other \in Lanes : \A n \in Messages :
           /\ n # m \/ other # lane => queue'[other][n] = queue[other][n]
           /\ queue'[other][n] > 0 => queue[other][n] > 0
    <3>1. queue'[lane] = [queue[lane] EXCEPT ![m] = queue[lane][m] - 1]
        BY <1>t, <2>1
    <3>2. \A other \in Lanes \ {lane} : queue'[other] = queue[other]
        BY <1>t, <2>1
    <3>3. queue[lane] \in [Messages -> Nat]
        BY <1>t
    <3> HIDE DEF m
    <3>4. \A n \in Messages : /\ n # m => queue'[lane][n] = queue[lane][n]
                              /\ queue'[lane][n] > 0 => queue[lane][n] > 0
        BY <2>2, <3>1, <3>3
    <3>5. QED
        BY <3>2, <3>4
  <2>4. consumer'[lane] = Idle /\ \A other \in Lanes \ {lane} : consumer'[other] = consumer[other]
      BY <1>t, <2>1
  <2>5. Delivered'
      BY <1>t, <2>1, <2>3, <2>4, IdleFacts DEF Delivered, DeliveryFollowsQueue
  <2>6. m \in incidents \/ receipts[m[1]][m[2]] # "none"
      BY <1>t, <2>1 DEF Delivered, Handled
  <2>7. lane = "dead-letter" => m \in incidents
      BY <2>1 DEF Delivered
  <2>8. FailedRecoverable'
      BY <1>t, <2>1, <2>3, <2>7 DEF FailedRecoverable
  <2>9. NothingLost'
    <3> HIDE DEF m
    <3>1. SUFFICES ASSUME NEW n \in sent
                   PROVE  \/ receipts[n[1]][n[2]] # "none"
                          \/ n \in incidents
                          \/ \E other \in Lanes : queue'[other][n] > 0
        BY <2>1 DEF NothingLost
    <3>2. CASE n = m
        BY <2>6, <3>2
    <3>3. CASE n # m
      <4>1. n \in Messages
          BY DEF TypeOK
      <4>2. \A other \in Lanes : queue'[other][n] = queue[other][n]
          BY <2>3, <3>3, <4>1
      <4>3. QED
          BY <4>2 DEF NothingLost
    <3>4. QED
        BY <3>2, <3>3
  <2>10. QED
      BY <1>2, <2>5, <2>8, <2>9
<1>8. CASE \/ lane = "primary" /\ Unrecorded
         \/ ConsumerEnds(lane)
  <2>1. consumer[lane] # Idle /\ Retry(lane)
      BY <1>8, ConsumerFacts DEF Unrecorded, ConsumerEnds, Working
  <2>2. m \in Messages /\ m \in sent
      BY <1>t, <2>1 DEF Delivered, DeliveryFollowsQueue
  <2>3. /\ consumer' = [consumer EXCEPT ![lane] = Idle]
        /\ UNCHANGED <<receipts, sent, incidents>>
        /\ \/ queue' = queue
           \/ /\ lane = "primary" /\ queue'["dead-letter"][m] > 0
              /\ \A n \in Messages : \A other \in Lanes :
                    /\ n # m => queue'[other][n] = queue[other][n]
                    /\ queue["dead-letter"][n] > 0 => queue'["dead-letter"][n] > 0
      BY <1>t, <2>1, RetryFacts DEF ledger
  <2>4. consumer'[lane] = Idle /\ \A other \in Lanes \ {lane} : consumer'[other] = consumer[other]
      BY <1>t, <2>3
  <2>5. \A other \in Lanes : \A n \in Messages : queue'[other][n] > 0 => n \in sent
      BY <1>t, <2>2, <2>3 DEF DeliveryFollowsQueue
  <2>6. \A other \in Lanes : consumer'[other] # Idle => queue'[other][consumer'[other].message] > 0
      BY <1>t, <2>3, <2>4 DEF DeliveryFollowsQueue
  <2>7. Delivered'
      BY <1>t, <2>3, <2>4, <2>5, <2>6, IdleFacts DEF Delivered, DeliveryFollowsQueue
  <2>8. FailedRecoverable'
      BY <2>3 DEF FailedRecoverable
  <2>9. NothingLost'
    <3>1. CASE queue' = queue
        BY <2>3, <3>1 DEF NothingLost
    <3>2. CASE queue' # queue
      <4>1. \A n \in sent : (\E other \in Lanes : queue[other][n] > 0) =>
                               \E other \in Lanes : queue'[other][n] > 0
          BY <1>t, <2>3, <3>2 DEF TypeOK
      <4>2. QED
          BY <2>3, <4>1 DEF NothingLost
    <3>3. QED
        BY <3>1, <3>2
  <2>10. QED
      BY <1>2, <2>7, <2>8, <2>9
<1>9. QED
    BY <1>3, <1>4, <1>5, <1>6, <1>7, <1>8 DEF ConsumerStep

-----------------------------------------------------------------------------
(* What a run has not staged. *)

\* The producer of a run never goes back to collecting; a run that changed its
\* source's health before was ended by a batch that threw.
LEMMA HostMovesProducer ==
    ASSUME TypeOK, Lifecycle, NEW r \in Runs, Produce(r) \/ Maintain(r) \/ LeaseExpires(r),
           NEW q \in Runs
    PROVE  /\ producer'[q] \in Early => producer[q] \in Early
           /\ producer'[q] = "unfinished" => producer[q] = "unfinished" \/ faults' > 0
           /\ health'[q] > 1 => health[q] > 1 \/ producer[q] = "unfinished"
           /\ faults > 0 => faults' > 0
<1>t. /\ faults \in Nat /\ health[q] \in Nat /\ health[r] \in Nat
      /\ q \in DOMAIN health /\ q \in DOMAIN producer
    BY DEF TypeOK
<1>l. Life(r)
    BY DEF Lifecycle
<1>1. CASE Maintain(r) \/ LeaseExpires(r)
  <2>1. UNCHANGED <<producer, health, faults>>
      BY <1>1 DEF Maintain, Resume, ActivateBatch, Abandon, CleanBodies, CleanHeader,
                  DeleteTerminal, LeaseExpires, ledger, bounds
  <2>2. QED
      BY <2>1
<1>2. CASE Begin(r)
    BY <1>2, <1>t DEF Begin, Step, Early, bounds
<1>3. CASE CollectNothing(r)
  <2>1. health[r] = 0
      BY <1>3, <1>l, <1>t DEF CollectNothing, Step, Life, ProducerFollowsRun, RowFollowsRun, Ended
  <2>2. QED
      BY <1>3, <1>t, <2>1
         DEF CollectNothing, FailUnsent, FinishEmpty, Finish, Step, Early, bounds
<1>4. CASE FinishThrows(r)
  <2>1. health[r] = 0
      BY <1>4, <1>l, <1>t DEF FinishThrows, Step, Life, ProducerFollowsRun, RowFollowsRun, Ended
  <2>2. QED
      BY <1>4, <1>t, <2>1 DEF FinishThrows, FinishEmpty, Finish, Fault, Step, Early, ledger
<1>5. CASE FinishUnsent(r)
    BY <1>5, <1>t DEF FinishUnsent, FailUnsent, Finish, Step, Early, bounds
<1>6. CASE Reserve(r) \/ Stage(r) \/ Discard(r) \/ Confirm(r)
    BY <1>6, <1>t DEF Reserve, Stage, Discard, Confirm, Step, Early, ledger, bounds
<1>7. CASE ReserveThrows(r) \/ StageThrows(r) \/ ProducerEnds(r)
    BY <1>7, <1>t DEF ReserveThrows, StageThrows, ProducerEnds, Fault, Step, Early, ledger
<1>8. CASE Activate(r) \/ HandoffThrows(r)
    BY <1>8, <1>t
       DEF Activate, ActivateBatch, HandoffThrows, Escape, Step, Early, ledger, bounds
<1>9. CASE FinishFailed(r)
    BY <1>9, <1>t DEF FinishFailed, Finish, Step, Early, bounds
<1>10. QED
    BY <1>1, <1>2, <1>3, <1>4, <1>5, <1>6, <1>7, <1>8, <1>9 DEF Produce

LEMMA HostUntouched ==
    ASSUME TypeOK, Lifecycle, Unstaged, NEW r \in Runs,
           Produce(r) \/ Maintain(r) \/ LeaseExpires(r)
    PROVE  Unstaged'
<1>1. UNCHANGED <<drain, sent>>
    BY HostKeepsTransport DEF transport
<1>2. ASSUME NEW q \in Runs PROVE Untouched(q)'
  <2>1. Untouched(q)
      BY DEF Unstaged
  <2>2. producer'[q] \in Early \/ health'[q] > 1 => producer[q] \in Early \/ health[q] > 1
      BY HostMovesProducer DEF Early
  <2>3. producer'[q] = "unfinished" \/ health'[q] > 1 => faults' > 0
      BY <2>1, HostMovesProducer DEF Untouched
  <2>4. QED
      BY <1>1, <2>1, <2>2, <2>3 DEF Untouched
<1>3. QED
    BY <1>2 DEF Unstaged

LEMMA DrainUntouched ==
    ASSUME TypeOK, Lifecycle, Unstaged, NEW d \in Drains, DrainStep(d) \/ DrainFails(d)
    PROVE  Unstaged'
<1>1. UNCHANGED <<producer, health>>
    BY DrainKeepsBoxes DEF ledger
<1>2. faults > 0 => faults' > 0
  <2>1. faults \in Nat
      BY DEF TypeOK
  <2>2. faults' = faults \/ faults' = faults + 1
      BY DEF DrainStep, DrainFails, Claim, Release, Refuse, Select, Send, SendThrows,
             Checkpoint, DrainEnds, Fault, bounds
  <2>3. QED
      BY <2>1, <2>2
<1>3. ASSUME NEW q \in Runs, producer[q] \in Early \/ health[q] > 1
      PROVE  /\ \A m \in sent' : m[1] # q
             /\ \A e \in Drains : drain'[e] # Idle => drain'[e].run # q
  <2>1. /\ \A m \in sent : m[1] # q
        /\ \A e \in Drains : drain[e] # Idle => drain[e].run # q
      BY <1>3 DEF Unstaged, Untouched
  <2>2. ~IsReady(q)
    <3>1. Life(q) /\ health[q] \in Nat
        BY DEF Lifecycle, TypeOK
    <3>2. box[q] = NoBox
        BY <1>3, <3>1 DEF Life, ProducerFollowsRun, RowFollowsRun, Early
    <3>3. QED
        BY <3>2, NoBoxFacts DEF IsReady
  <2>3. \A m \in sent' : m[1] # q
    <3>1. CASE UNCHANGED sent
        BY <2>1, <3>1
    <3>2. CASE drain[d].phase = "sending" /\ SendBatch(d)
      <4>1. drain[d].run # q
          BY <2>1, <3>2, DrainFacts
      <4>2. sent' = sent \cup ({drain[d].run} \X drain[d].send)
          BY <3>2, SendBatchFacts
      <4>3. QED
          BY <2>1, <4>1, <4>2
    <3>3. QED
        BY <3>1, <3>2, DrainStepsOnly
  <2>4. drain'[d] # Idle => drain'[d].run # q
    <3>1. \/ drain'[d] = Idle
          \/ \E p \in Runs : Claim(d, p) /\ drain'[d].run = p
          \/ drain[d] # Idle /\ drain'[d].run = drain[d].run
        BY DrainMoves
    <3>2. \A p \in Runs : Claim(d, p) => IsReady(p)
        BY DEF Claim
    <3>3. QED
        BY <2>1, <2>2, <3>1, <3>2
  <2>5. \A e \in Drains \ {d} : drain'[e] = drain[e]
      BY DrainStepsOnly
  <2>6. QED
      BY <2>1, <2>3, <2>4, <2>5
<1>4. QED
    BY <1>1, <1>2, <1>3 DEF Unstaged, Untouched

LEMMA ConsumerUntouched ==
    ASSUME TypeOK, Lifecycle, Unstaged, NEW lane \in Lanes, ConsumerStep(lane) \/ ConsumerEnds(lane)
    PROVE  Unstaged'
<1>1. UNCHANGED <<producer, drain, sent>> /\ (faults > 0 => faults' > 0)
  <2>1. faults \in Nat
      BY DEF TypeOK
  <2>2. UNCHANGED <<producer, drain, sent>> /\ (faults' = faults \/ faults' = faults + 1)
      BY DEF ConsumerStep, ConsumerEnds, Deliver, Receipt, Account, Ack, Keep, Unrecorded, Retry,
             Fault, bounds
  <2>3. QED
      BY <2>1, <2>2
<1>2. \A q \in Runs : health'[q] > 1 => health[q] > 1
  <2>1. CASE Account(lane)
    <3>1. PICK r \in Runs : r = consumer[lane].message[1]
        BY <2>1, AccountFacts
    <3>2. /\ \A q \in Runs \ {r} : health'[q] = health[q]
          /\ health'[r] = IF run'[r].status \in Ended /\ ~run[r].accounted
                          THEN health[r] + 1 ELSE health[r]
        BY <2>1, <3>1, AccountFacts
    <3>3. ~run[r].accounted => health[r] = 0
        BY DEF Lifecycle, Life, RowFollowsRun, TypeOK
    <3>4. QED
        BY <3>2, <3>3
  <2>2. CASE ~Account(lane)
    <3>1. UNCHANGED health
        BY <2>2 DEF ConsumerStep, ConsumerEnds, Deliver, Receipt, Ack, Keep, Unrecorded, Retry,
                    ledger
    <3>2. QED
        BY <3>1
  <2>3. QED
      BY <2>1, <2>2
<1>3. QED
    BY <1>1, <1>2 DEF Unstaged, Untouched

-----------------------------------------------------------------------------
(* The invariant, and what follows from it. *)

LEMMA InitInvariant == Init => IInv
<1> SUFFICES ASSUME Init PROVE IInv
    OBVIOUS
<1>1. TypeOK
    BY InitTyped
<1>2. Lifecycle
  <2>1. ASSUME NEW r \in Runs PROVE Life(r)
    <3>1. /\ run[r].status = "none" /\ run[r].enqueued = 0 /\ ~run[r].accounted
          /\ health[r] = 0 /\ box[r] = NoBox /\ producer[r] = "new"
        BY DEF Init
    <3>2. QED
        BY <3>1, NoBoxFacts
           DEF Life, RowFollowsRun, BoxFollowsRun, ProducerFollowsRun, Faithful, IsReady, Ended
  <2>2. QED
      BY <2>1 DEF Lifecycle
<1>8. Unstaged
    BY DEF Init, Unstaged, Untouched, Early
<1>3. OnlyActivated
    BY DEF Init, OnlyActivated
<1>4. Covered
    BY IdleFacts, NoBoxFacts DEF Init, Covered, CursorCovered, DrainCovered, IsReady
<1>5. Delivered
    BY MessageFacts, IdleFacts DEF Init, Delivered, DeliveryFollowsQueue, Lanes
<1>6. FailedRecoverable /\ NothingLost
    BY MessageFacts DEF Init, FailedRecoverable, NothingLost
<1>7. QED
    BY <1>1, <1>2, <1>3, <1>4, <1>5, <1>6, <1>8 DEF IInv

LEMMA NextInvariant == IInv /\ [Next]_vars => IInv'
<1> SUFFICES ASSUME IInv, [Next]_vars PROVE IInv'
    OBVIOUS
<1> USE DEF IInv
<1>1. ASSUME NEW r \in Runs, Produce(r) \/ Maintain(r) \/ LeaseExpires(r) PROVE IInv'
  <2>1. TypeOK'
      BY <1>1, ProducerTyped, MaintenanceTyped
  <2>2. Lifecycle'
      BY <1>1, ProducerLife, MaintenanceLife
  <2>3. QED
      BY <1>1, <2>1, <2>2, HostTransport, HostUntouched
<1>2. ASSUME NEW d \in Drains, DrainStep(d) \/ DrainFails(d) PROVE IInv'
    BY <1>2, DrainTyped, DrainLife, DrainTransport, DrainUntouched
<1>3. ASSUME NEW lane \in Lanes, ConsumerStep(lane) \/ ConsumerEnds(lane) PROVE IInv'
  <2>1. DeliveryFollowsQueue(lane)
      BY DEF Delivered
  <2>2. TypeOK'
      BY <1>3, <2>1, ConsumerTyped
  <2>3. QED
      BY <1>3, <2>2, ConsumerLife, ConsumerTransport, ConsumerUntouched
<1>4. CASE UNCHANGED vars
  <2>1. UNCHANGED <<run, receipts, health, box, raw, producer, drain, queue, sent, consumer,
                    incidents, faults, escapes>>
      BY <1>4 DEF vars, ledger, transport, bounds
  <2>2. TypeOK'
      BY <2>1 DEF TypeOK
  <2>3. Lifecycle'
      BY <2>1, LifeFrame DEF Lifecycle
  <2>7. Unstaged'
      BY <2>1 DEF Unstaged, Untouched
  <2>4. OnlyActivated' /\ Covered'
      BY <2>1 DEF OnlyActivated, Covered, CursorCovered, DrainCovered, SentBelow, IsReady
  <2>5. Delivered' /\ FailedRecoverable' /\ NothingLost'
      BY <2>1 DEF Delivered, DeliveryFollowsQueue, FailedRecoverable, NothingLost
  <2>6. QED
      BY <2>2, <2>3, <2>4, <2>5, <2>7
<1>5. QED
    BY <1>1, <1>2, <1>3, <1>4 DEF Next

\* The inductive invariant holds in every reachable state.
THEOREM Invariant == Spec => []IInv
BY InitInvariant, NextInvariant, PTL DEF Spec

LEMMA InvariantKeeps == IInv => KeptUntilSettled /\ EvidenceKept
<1> SUFFICES ASSUME IInv PROVE KeptUntilSettled /\ EvidenceKept
    OBVIOUS
<1>1. CursorCovered /\ FailedRecoverable /\ NothingLost
    BY DEF IInv, Covered
<1>2. RawKept
    BY DEF IInv, Lifecycle, Life, BoxFollowsRun, RawKept
<1>5. AccountedOnce
  <2>1. SUFFICES ASSUME NEW r \in Runs
                 PROVE  /\ health[r] > 0 => run[r].accounted
                        /\ run[r].accounted /\ run[r].enqueued > 0 => health[r] = 1
                        /\ health[r] > 1 => /\ health[r] = 2 /\ faults > 0
                                           /\ run[r].status = "failed" /\ run[r].enqueued = 0
                                           /\ ~\E m \in sent : m[1] = r
      BY DEF AccountedOnce
  <2>2. RowFollowsRun(r) /\ health[r] \in Nat /\ run[r].enqueued \in Nat
      BY DEF IInv, Lifecycle, Life, TypeOK, RunRow
  <2>3. Untouched(r)
      BY DEF IInv, Unstaged
  <2>4. QED
      BY <2>2, <2>3 DEF RowFollowsRun, Untouched, Ended
<1>3. ASSUME escapes = 0 PROVE ExactBodyKept
  <2>1. SUFFICES ASSUME NEW m \in sent, receipts[m[1]][m[2]] = "none"
                 PROVE  IsReady(m[1]) /\ m[2] \in box[m[1]].bodies
      BY DEF ExactBodyKept
  <2>2. m[1] \in Runs /\ m[2] \in Items(m[1])
      BY MessageFacts DEF IInv, TypeOK
  <2>3. run[m[1]].enqueued > 0
      BY <1>3, <2>1 DEF IInv, OnlyActivated
  <2>4. IsReady(m[1])
      BY <1>3, <2>1, <2>2, <2>3 DEF IInv, Lifecycle, Life, Faithful
  <2>5. QED
      BY <2>2, <2>4 DEF IInv, Lifecycle, Life, BoxFollowsRun
<1>4. QED
    BY <1>1, <1>2, <1>3, <1>5 DEF KeptUntilSettled, EvidenceKept

\* The type invariant of the outbox, the ledger and the queue.
THEOREM TypeCorrect == Spec => []TypeOK
<1>1. IInv => TypeOK
    BY DEF IInv
<1>2. QED
    BY <1>1, Invariant, PTL

\* Whichever drain writes the cursor and however often a batch is sent, no
\* message is passed over, none is retired before it is settled unless an error
\* was taken for a refusal, a failed item stays recoverable, and a run whose items
\* were handed off changes its source's health exactly once when it is accounted
\* (drainTrackedSourceOutbox, checkpointRange, recordSourceRunIngestOutcome).  A run
\* that handed off nothing, and whose last batch threw, may change it twice, never
\* more (the catch block of runSource).
THEOREM Kept_Until_Settled == Spec => []KeptUntilSettled
<1>1. IInv => KeptUntilSettled
    BY InvariantKeeps
<1>2. QED
    BY <1>1, Invariant, PTL

\* What the queue took is settled, an incident or queued, and no clean-up takes
\* the raw evidence of an open run, also when a run was failed by mistake
\* (consumePrimaryMessage, consumeDeadLetterMessage, discardUnactivatedStaging).
THEOREM Evidence_Kept == Spec => []EvidenceKept
<1>1. IInv => EvidenceKept
    BY InvariantKeeps
<1>2. QED
    BY <1>1, Invariant, PTL

-----------------------------------------------------------------------------
(* The ledger implements TrackedRun. *)

\* The verdict of the ledger is that of the abstract run.
LEMMA VerdictFacts ==
    ASSUME TypeOK, NEW r \in Runs, run[r].enqueued = Size[r]
    PROVE  Verdict(r) = Contract!Verdict(r, receipts[r])
<1> DEFINE failures == {i \in Items(r) : receipts[r][i] = "failed"}
<1>1. DOMAIN receipts[r] = Items(r)
    BY DEF TypeOK
<1>2. /\ IsFiniteSet(Items(r)) /\ Cardinality(Items(r)) = Size[r]
      /\ Size[r] \in Nat /\ Size[r] > 0 /\ failures \in SUBSET Items(r)
    BY ItemFacts
<1>3. Count(r, {"failed"}) = Cardinality(failures)
    BY DEF Count
<1>4. Contract!Verdict(r, receipts[r])
         = IF failures = Items(r) THEN "failed"
           ELSE IF failures # {} \/ r \in PartialRuns THEN "partial" ELSE "success"
    BY <1>1 DEF Contract!Verdict
<1> HIDE DEF failures
<1>5. IsFiniteSet(failures) /\ Cardinality(failures) \in Nat
    BY <1>2, FS_Subset, FS_CardinalityType
<1>6. Cardinality(failures) >= Size[r] <=> failures = Items(r)
    BY <1>2, <1>5, FS_Subset
<1>7. Cardinality(failures) > 0 <=> failures # {}
    BY <1>5, FS_EmptySet
<1>8. QED
    BY <1>3, <1>4, <1>6, <1>7 DEF Verdict

\* A step that leaves the receipts alone and the status of the other runs too.
LEMMA StatusMove ==
    ASSUME NEW r \in Runs, \A q \in Runs \ {r} : run'[q].status = run[q].status
    PROVE  statuses' = [statuses EXCEPT ![r] = run'[r].status]
BY DEF statuses

LEMMA HostImplements ==
    ASSUME IInv, NEW r \in Runs, Produce(r) \/ Maintain(r) \/ LeaseExpires(r), escapes' = 0
    PROVE  [Contract!Next]_<<statuses, receipts>>
<1>1. UNCHANGED receipts /\ escapes = 0 /\ TypeOK /\ Life(r)
    BY HostKeepsTransport DEF IInv, Lifecycle
<1>2. /\ run \in [Runs -> RunRow] /\ run[r] \in RunRow /\ statuses[r] = run[r].status
      /\ run[r].status \in {"none", "running", "queued"} \cup Ended
    BY <1>1 DEF TypeOK, RunRow, statuses
<1>3. /\ \A q \in Runs \ {r} : run'[q] = run[q]
      /\ \/ run'[r].status = run[r].status
         \/ run[r].status = "none" /\ run'[r].status = "running"
         \/ run[r].status = "running" /\ run'[r].status \in Ended \cup {"queued"}
         \/ /\ run[r].status \in {"success", "partial"} /\ run'[r].status = "failed"
            /\ \A i \in Items(r) : receipts[r][i] = "none"
  <2>1. CASE Begin(r)
    <3>1. run[r].status = "none"
        BY <1>1, <2>1 DEF Begin, Step, Life, ProducerFollowsRun
    <3>2. run' = [run EXCEPT ![r] = [run[r] EXCEPT !.status = "running"]]
        BY <2>1 DEF Begin
    <3>3. [run[r] EXCEPT !.status = "running"].status = "running"
        BY <1>2 DEF RunRow
    <3>4. QED
        BY <1>2, <3>1, <3>2, <3>3
  <2>2. CASE CollectNothing(r) \/ FinishFailed(r)
    <3>1. run[r].status \in {"running", "failed"}
        BY <1>1, <2>2
           DEF CollectNothing, FinishFailed, Step, Life, ProducerFollowsRun, Faithful
    <3>2. /\ run'[r].status \in Ended /\ \A q \in Runs \ {r} : run'[q] = run[q]
          /\ FinishFailed(r) => run'[r].status = "failed"
          /\ CollectNothing(r) => run[r].status = "running"
        BY <1>1, <1>2, <2>2
           DEF CollectNothing, FailUnsent, FinishEmpty, FinishFailed, Finish, Ended, Step, Life,
               ProducerFollowsRun
    <3>3. QED
        BY <2>2, <3>1, <3>2
  <2>7. CASE FinishThrows(r)
    <3>1. run[r].status = "running"
        BY <1>1, <2>7 DEF FinishThrows, Step, Life, ProducerFollowsRun
    <3>2. /\ run' = run \/ run'[r].status \in Ended
          /\ \A q \in Runs \ {r} : run'[q] = run[q]
        BY <1>2, <2>7 DEF FinishThrows, FinishEmpty, Finish, ledger, Ended
    <3>3. QED
        BY <3>1, <3>2
  <2>8. CASE FinishUnsent(r)
    <3>1. run[r].status \in {"running", "success", "partial"} /\ producer[r] \in Early
        BY <1>1, <2>8 DEF FinishUnsent, Step, Life, ProducerFollowsRun, Early
    <3>2. run'[r].status = "failed" /\ \A q \in Runs \ {r} : run'[q] = run[q]
        BY <1>2, <2>8 DEF FinishUnsent, FailUnsent, Finish
    <3>3. \A i \in Items(r) : receipts[r][i] = "none"
      <4>1. SUFFICES ASSUME NEW i \in Items(r), receipts[r][i] # "none" PROVE FALSE
          OBVIOUS
      <4>2. <<r, i>> \in Messages /\ <<r, i>>[1] = r /\ <<r, i>>[2] = i
          BY MessageFacts
      <4>3. <<r, i>> \in sent
          BY <4>1, <4>2 DEF IInv, Delivered
      <4>4. QED
          BY <3>1, <4>2, <4>3 DEF IInv, Unstaged, Untouched
    <3>4. QED
        BY <3>1, <3>2, <3>3 DEF Ended
  <2>3. CASE ActivateBatch(r)
    <3>1. Activation(r)
        BY <1>1, <2>3, ActivationFacts
    <3>2. run'[r].status = run[r].status \/ (Open(r) /\ run'[r].status = "queued")
        BY <3>1 DEF Activation
    <3>3. \A q \in Runs \ {r} : run'[q] = run[q]
        BY <1>2, <2>3 DEF ActivateBatch
    <3>4. QED
        BY <3>2, <3>3 DEF Open
  <2>4. CASE Abandon(r)
    <3>1. CASE run' = run
        BY <3>1
    <3>2. CASE /\ run[r].status = "running"
               /\ run' = [run EXCEPT ![r] = [run[r] EXCEPT !.status = "failed",
                                                           !.accounted = TRUE]]
      <4>1. [run[r] EXCEPT !.status = "failed", !.accounted = TRUE].status = "failed"
          BY <1>2 DEF RunRow
      <4>2. QED
          BY <1>2, <3>2, <4>1 DEF Ended
    <3>3. QED
        BY <2>4, <3>1, <3>2 DEF Abandon
  <2>5. CASE UNCHANGED run
      BY <2>5
  <2>6. QED
      BY <2>1, <2>2, <2>3, <2>4, <2>5, <2>7, <2>8
         DEF Produce, Reserve, ReserveThrows, Stage, StageThrows, Discard, Activate, Confirm,
             HandoffThrows, ProducerEnds, Maintain, Resume, CleanBodies, CleanHeader,
             DeleteTerminal, LeaseExpires, ledger
<1>4. statuses' = [statuses EXCEPT ![r] = run'[r].status]
    BY <1>3, StatusMove
<1>5. CASE run'[r].status = run[r].status
  <2>1. statuses' = statuses
      BY <1>2, <1>4, <1>5 DEF statuses
  <2>2. QED
      BY <1>1, <2>1
<1>6. CASE run[r].status = "none" /\ run'[r].status = "running"
  <2>1. Contract!Begin(r)
      BY <1>1, <1>2, <1>4, <1>6 DEF Contract!Begin
  <2>2. QED
      BY <2>1 DEF Contract!Next
<1>7. CASE run[r].status = "running" /\ run'[r].status \in Ended \cup {"queued"}
  <2>1. Contract!Leave(r)
      BY <1>1, <1>2, <1>4, <1>7 DEF Contract!Leave, Contract!Ended, Ended
  <2>2. QED
      BY <2>1 DEF Contract!Next
<1>8. CASE /\ run[r].status \in {"success", "partial"} /\ run'[r].status = "failed"
           /\ \A i \in Items(r) : receipts[r][i] = "none"
  <2>1. DOMAIN receipts[r] = Items(r)
      BY <1>1 DEF TypeOK
  <2>2. Contract!Retract(r)
      BY <1>1, <1>2, <1>4, <1>8, <2>1 DEF Contract!Retract
  <2>3. QED
      BY <2>2 DEF Contract!Next
<1>9. QED
    BY <1>3, <1>5, <1>6, <1>7, <1>8

LEMMA ConsumerImplements ==
    ASSUME IInv, NEW lane \in Lanes, ConsumerStep(lane) \/ ConsumerEnds(lane)
    PROVE  [Contract!Next]_<<statuses, receipts>>
<1>t. TypeOK
    BY DEF IInv
<1>1. CASE Receipt(lane)
  <2> DEFINE m == consumer[lane].message
             outcome == IF lane = "primary" THEN "ingested" ELSE "failed"
  <2>1. statuses' = statuses
      BY <1>1 DEF Receipt, statuses
  <2>2. m[1] \in Runs /\ m[2] \in Items(m[1])
      BY <1>t, <1>1, ReceiptFacts
  <2>3. \/ receipts' = receipts
        \/ /\ run[m[1]].status = "queued" /\ receipts[m[1]][m[2]] = "none"
           /\ receipts' = [receipts EXCEPT ![m[1]][m[2]] = outcome]
      BY <1>t, <1>1, ReceiptFacts, Zenon
  <2>4. DOMAIN receipts[m[1]] = Items(m[1])
      BY <1>t, <2>2 DEF TypeOK
  <2>5. outcome \in Contract!Outcomes
      BY DEF Contract!Outcomes
  <2> HIDE DEF m, outcome
  <2>6. CASE receipts' = receipts
      BY <2>1, <2>6
  <2>7. CASE /\ run[m[1]].status = "queued" /\ receipts[m[1]][m[2]] = "none"
             /\ receipts' = [receipts EXCEPT ![m[1]][m[2]] = outcome]
    <3>1. statuses[m[1]] = "queued"
        BY <2>2, <2>7 DEF statuses
    <3>2. Contract!Settle(m[1], m[2])
        BY <2>1, <2>5, <2>7, <3>1 DEF Contract!Settle
    <3>3. QED
        BY <2>2, <2>4, <3>2 DEF Contract!Next
  <2>8. QED
      BY <2>3, <2>6, <2>7
<1>2. CASE Account(lane)
  <2>1. PICK r \in Runs : r = consumer[lane].message[1]
      BY <1>t, <1>2, AccountFacts
  <2>2. /\ run'[r].status = IF run[r].status = "queued" /\ Settled(r) THEN Verdict(r)
                            ELSE run[r].status
        /\ \A q \in Runs \ {r} : run'[q] = run[q]
        /\ UNCHANGED receipts
      BY <1>t, <1>2, <2>1, AccountFacts
  <2>3. statuses' = [statuses EXCEPT ![r] = run'[r].status] /\ statuses[r] = run[r].status
      BY <2>2, StatusMove DEF statuses
  <2>4. CASE run[r].status = "queued" /\ Settled(r)
    <3>1. run[r].enqueued = Size[r]
        BY <2>4 DEF IInv, Lifecycle, Life, RowFollowsRun
    <3>2. \A i \in Items(r) : receipts[r][i] # "none"
        BY <2>4, <3>1, SettledFacts DEF Outcomes
    <3>3. DOMAIN receipts[r] = Items(r)
        BY <1>t DEF TypeOK
    <3>4. run'[r].status = Contract!Verdict(r, receipts[r])
        BY <1>t, <2>2, <2>4, <3>1, VerdictFacts
    <3>5. Contract!End(r)
        BY <2>2, <2>3, <2>4, <3>2, <3>3, <3>4 DEF Contract!End
    <3>6. QED
        BY <3>5 DEF Contract!Next
  <2>5. CASE ~(run[r].status = "queued" /\ Settled(r))
    <3>1. statuses' = statuses
        BY <2>2, <2>3, <2>5 DEF statuses
    <3>2. QED
        BY <2>2, <3>1
  <2>6. QED
      BY <2>4, <2>5
<1>3. CASE ~Receipt(lane) /\ ~Account(lane)
  <2>1. UNCHANGED <<run, receipts>>
      BY <1>3 DEF ConsumerStep, ConsumerEnds, Deliver, Ack, Keep, Unrecorded, Retry, ledger
  <2>2. QED
      BY <2>1 DEF statuses
<1>4. QED
    BY <1>1, <1>2, <1>3

LEMMA StepImplements ==
    ASSUME IInv, [Next]_vars, escapes' = 0
    PROVE  [Contract!Next]_<<statuses, receipts>>
<1>1. CASE \E r \in Runs : Produce(r) \/ Maintain(r) \/ LeaseExpires(r)
    BY <1>1, HostImplements
<1>2. CASE \E d \in Drains : DrainStep(d) \/ DrainFails(d)
    BY <1>2, DrainKeepsBoxes DEF IInv, ledger, statuses
<1>3. CASE \E lane \in Lanes : ConsumerStep(lane) \/ ConsumerEnds(lane)
    BY <1>3, ConsumerImplements
<1>4. CASE UNCHANGED vars
    BY <1>4 DEF vars, ledger, statuses
<1>5. QED
    BY <1>1, <1>2, <1>3, <1>4 DEF Next

LEMMA InitImplements == Init => Contract!Init
BY DEF Init, Contract!Init, statuses, Items

\* Until an error of the hand-off is taken for a refusal, every statement of the
\* producers, sweepers and consumers is a step of the abstract run or none: an
\* item gets one outcome, while the run is queued; the run ends when each has
\* one, as they say; then nothing changes, but that a run without items of its
\* own may still be failed, by the catch block of runSource (source_runs,
\* source_run_ingest_receipts).
THEOREM LedgerImplements == Spec => ImplementsContract
<1>1. IInv /\ [Next]_vars => (escapes' = 0 => [Contract!Next]_<<statuses, receipts>>)
    BY StepImplements
<1>2. QED
    BY <1>1, Invariant, InitImplements, PTL DEF Spec, ImplementsContract

\* Without such errors the ledger implements the abstract run outright, whatever
\* statements throw, with their effect or without.
THEOREM LedgerImplementsOutright ==
    ASSUME MaxEscapes = 0
    PROVE  Spec => Contract!Spec
<1>1. IInv' => escapes' = 0
    BY DEF IInv, TypeOK
<1>2. IInv /\ IInv' /\ [Next]_vars => [Contract!Next]_<<statuses, receipts>>
    BY <1>1, StepImplements
<1>3. QED
    BY <1>2, Invariant, InitImplements, PTL DEF Spec, Contract!Spec
=============================================================================
