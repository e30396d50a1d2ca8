-------------------------- MODULE CompanionJobProofs --------------------------
(* Proofs about CompanionJob, for any number of runs, Companions, requests   *)
(* and results, and any number of crashes, timeouts and sends that throw.    *)
EXTENDS CompanionJob, FiniteSetTheorems, TLAPS

-----------------------------------------------------------------------------
(* What the statements write into a run, a job and a request. *)

Statuses == {"none", "running", "pending", "queued"} \cup Ended

\* A row of source_runs stays one whatever is assigned to it.
LEMMA RunRowIs ==
    ASSUME NEW row \in RunRow, NEW s \in Statuses, NEW n \in Nat, NEW b \in BOOLEAN,
           NEW a \in BOOLEAN
    PROVE  /\ [row EXCEPT !.status = s] \in RunRow
           /\ [row EXCEPT !.status = s, !.enqueued = n] \in RunRow
           /\ [row EXCEPT !.status = s, !.enqueued = n, !.partial = b] \in RunRow
           /\ [row EXCEPT !.enqueued = n, !.partial = b] \in RunRow
           /\ [row EXCEPT !.status = s, !.accounted = a] \in RunRow
           /\ [row EXCEPT !.status = s, !.enqueued = n, !.accounted = a] \in RunRow
BY DEF RunRow, Statuses

\* What a statement leaves of the row of a run: its status, its items, whether
\* it is partial and whether it has been accounted for.
Written(r, s, n, b, a) ==
    \E row \in RunRow :
        /\ run' = [run EXCEPT ![r] = row]
        /\ row.status = s /\ row.enqueued = n /\ row.partial = b /\ row.accounted = a

\* The statements of the model, as what they leave.
LEMMA Writing ==
    ASSUME TypeOK, NEW r \in Runs, NEW s \in Statuses, NEW n \in Nat, NEW b \in BOOLEAN,
           NEW a \in BOOLEAN
    PROVE  /\ run' = [run EXCEPT ![r].status = s]
                => Written(r, s, run[r].enqueued, run[r].partial, run[r].accounted)
           /\ run' = [run EXCEPT ![r].status = s, ![r].enqueued = n]
                => Written(r, s, n, run[r].partial, run[r].accounted)
           /\ run' = [run EXCEPT ![r].status = s, ![r].enqueued = n, ![r].partial = b]
                => Written(r, s, n, b, run[r].accounted)
           /\ run' = [run EXCEPT ![r].enqueued = n, ![r].partial = b]
                => Written(r, run[r].status, n, b, run[r].accounted)
           /\ run' = [run EXCEPT ![r].status = s, ![r].accounted = a]
                => Written(r, s, run[r].enqueued, run[r].partial, a)
           /\ run' = [run EXCEPT ![r].status = s, ![r].enqueued = n, ![r].accounted = a]
                => Written(r, s, n, run[r].partial, a)
<1>1. /\ run[r] \in RunRow
      /\ run \in [Runs -> RunRow]
    BY DEF TypeOK
<1>2. ASSUME run' = [run EXCEPT ![r].status = s]
      PROVE  Written(r, s, run[r].enqueued, run[r].partial, run[r].accounted)
    <2> DEFINE row == [run[r] EXCEPT !.status = s]
    <2>1. row \in RunRow
        BY <1>1, RunRowIs
    <2>2. /\ row.status = s
          /\ row.enqueued = run[r].enqueued /\ row.partial = run[r].partial
          /\ row.accounted = run[r].accounted
        BY <1>1 DEF RunRow
    <2>3. run' = [run EXCEPT ![r] = row]
        BY <1>1, <1>2
    <2> HIDE DEF row
    <2>4. QED
        BY <2>1, <2>2, <2>3 DEF Written
<1>3. ASSUME run' = [run EXCEPT ![r].status = s, ![r].enqueued = n]
      PROVE  Written(r, s, n, run[r].partial, run[r].accounted)
    <2> DEFINE row == [run[r] EXCEPT !.status = s, !.enqueued = n]
    <2>1. row \in RunRow
        BY <1>1, RunRowIs
    <2>2. /\ row.status = s /\ row.enqueued = n
          /\ row.partial = run[r].partial /\ row.accounted = run[r].accounted
        BY <1>1 DEF RunRow
    <2>3. run' = [run EXCEPT ![r] = row]
        BY <1>1, <1>3
    <2> HIDE DEF row
    <2>4. QED
        BY <2>1, <2>2, <2>3 DEF Written
<1>4. ASSUME run' = [run EXCEPT ![r].status = s, ![r].enqueued = n, ![r].partial = b]
      PROVE  Written(r, s, n, b, run[r].accounted)
    <2> DEFINE row == [run[r] EXCEPT !.status = s, !.enqueued = n, !.partial = b]
    <2>1. row \in RunRow
        BY <1>1, RunRowIs
    <2>2. /\ row.status = s /\ row.enqueued = n
          /\ row.partial = b /\ row.accounted = run[r].accounted
        BY <1>1 DEF RunRow
    <2>3. run' = [run EXCEPT ![r] = row]
        BY <1>1, <1>4
    <2> HIDE DEF row
    <2>4. QED
        BY <2>1, <2>2, <2>3 DEF Written
<1>5. ASSUME run' = [run EXCEPT ![r].enqueued = n, ![r].partial = b]
      PROVE  Written(r, run[r].status, n, b, run[r].accounted)
    <2> DEFINE row == [run[r] EXCEPT !.enqueued = n, !.partial = b]
    <2>1. row \in RunRow
        BY <1>1, RunRowIs
    <2>2. /\ row.status = run[r].status /\ row.enqueued = n
          /\ row.partial = b /\ row.accounted = run[r].accounted
        BY <1>1 DEF RunRow
    <2>3. run' = [run EXCEPT ![r] = row]
        BY <1>1, <1>5
    <2> HIDE DEF row
    <2>4. QED
        BY <2>1, <2>2, <2>3 DEF Written
<1>6. ASSUME run' = [run EXCEPT ![r].status = s, ![r].accounted = a]
      PROVE  Written(r, s, run[r].enqueued, run[r].partial, a)
    <2> DEFINE row == [run[r] EXCEPT !.status = s, !.accounted = a]
    <2>1. row \in RunRow
        BY <1>1, RunRowIs
    <2>2. /\ row.status = s /\ row.enqueued = run[r].enqueued
          /\ row.partial = run[r].partial /\ row.accounted = a
        BY <1>1 DEF RunRow
    <2>3. run' = [run EXCEPT ![r] = row]
        BY <1>1, <1>6
    <2> HIDE DEF row
    <2>4. QED
        BY <2>1, <2>2, <2>3 DEF Written
<1>7. ASSUME run' = [run EXCEPT ![r].status = s, ![r].enqueued = n, ![r].accounted = a]
      PROVE  Written(r, s, n, run[r].partial, a)
    <2> DEFINE row == [run[r] EXCEPT !.status = s, !.enqueued = n, !.accounted = a]
    <2>1. row \in RunRow
        BY <1>1, RunRowIs
    <2>2. /\ row.status = s /\ row.enqueued = n
          /\ row.partial = run[r].partial /\ row.accounted = a
        BY <1>1 DEF RunRow
    <2>3. run' = [run EXCEPT ![r] = row]
        BY <1>1, <1>7
    <2> HIDE DEF row
    <2>4. QED
        BY <2>1, <2>2, <2>3 DEF Written
<1>8. QED
    BY <1>2, <1>3, <1>4, <1>5, <1>6, <1>7

\* The other runs keep their rows.
LEMMA WrittenRuns ==
    ASSUME TypeOK, NEW r \in Runs, NEW s, NEW n, NEW b, NEW a, Written(r, s, n, b, a)
    PROVE  /\ run' \in [Runs -> RunRow]
           /\ run'[r].status = s /\ run'[r].enqueued = n
           /\ run'[r].partial = b /\ run'[r].accounted = a
           /\ \A o \in Runs \ {r} : run'[o] = run[o]
<1>1. PICK row \in RunRow :
        /\ run' = [run EXCEPT ![r] = row]
        /\ row.status = s /\ row.enqueued = n /\ row.partial = b /\ row.accounted = a
    BY DEF Written
<1>2. QED
    BY <1>1 DEF TypeOK

\* The parts of a row.
LEMMA RunParts ==
    ASSUME TypeOK, NEW r \in Runs
    PROVE  /\ run[r].status \in Statuses /\ run[r].enqueued \in Nat
           /\ run[r].partial \in BOOLEAN /\ run[r].accounted \in BOOLEAN
BY DEF TypeOK, RunRow, Statuses

\* A record of a dispatch is one, and not the absence of one.
LEMMA DispatchParts ==
    ASSUME NEW d \in Dispatch
    PROVE  /\ d # NoResult
           /\ d.phase \in {"dispatching", "accepted", "retryable"}
           /\ d.print \in Prints /\ d.attempt \in Nat /\ d.accepted \in Nat
BY DEF Dispatch, NoResult

LEMMA DispatchIs ==
    ASSUME NEW d \in Dispatch, NEW n \in Nat, NEW s \in {"dispatching", "accepted", "retryable"}
    PROVE  LET e == [d EXCEPT !.phase = s, !.accepted = n]
               g == [d EXCEPT !.accepted = n]
           IN /\ e \in Dispatch /\ e.phase = s /\ e.accepted = n
              /\ e.print = d.print /\ e.attempt = d.attempt
              /\ g \in Dispatch /\ g.phase = d.phase /\ g.accepted = n
              /\ g.print = d.print /\ g.attempt = d.attempt
BY DEF Dispatch

LEMMA JobParts ==
    ASSUME TypeOK, NEW r \in Runs
    PROVE  /\ job \in [Runs -> JobRow] /\ job[r] \in JobRow
           /\ job[r].status \in {"none", "complete", "failed"} \cup Active
           /\ job[r].result \in {NoResult} \cup Dispatch
BY DEF TypeOK, JobRow

\* What a statement leaves of a job.
Noted(r, s, d) ==
    \E j \in JobRow : /\ job' = [job EXCEPT ![r] = j]
                      /\ j.status = s /\ j.result = d

LEMMA Noting ==
    ASSUME TypeOK, NEW r \in Runs, NEW s \in {"none", "complete", "failed"} \cup Active,
           NEW d \in {NoResult} \cup Dispatch
    PROVE  /\ job' = [job EXCEPT ![r].status = s] => Noted(r, s, job[r].result)
           /\ job' = [job EXCEPT ![r].result = d] => Noted(r, job[r].status, d)
<1>1. /\ job \in [Runs -> JobRow] /\ job[r] \in JobRow
    BY DEF TypeOK
<1>2. ASSUME job' = [job EXCEPT ![r].status = s]
      PROVE  Noted(r, s, job[r].result)
    <2> DEFINE j == [job[r] EXCEPT !.status = s]
    <2>1. j \in JobRow /\ j.status = s /\ j.result = job[r].result
        BY <1>1 DEF JobRow
    <2>2. job' = [job EXCEPT ![r] = j]
        BY <1>1, <1>2
    <2> HIDE DEF j
    <2>3. QED
        BY <2>1, <2>2 DEF Noted
<1>3. ASSUME job' = [job EXCEPT ![r].result = d]
      PROVE  Noted(r, job[r].status, d)
    <2> DEFINE j == [job[r] EXCEPT !.result = d]
    <2>1. j \in JobRow /\ j.status = job[r].status /\ j.result = d
        BY <1>1 DEF JobRow
    <2>2. job' = [job EXCEPT ![r] = j]
        BY <1>1, <1>3
    <2> HIDE DEF j
    <2>3. QED
        BY <2>1, <2>2 DEF Noted
<1>4. QED
    BY <1>2, <1>3

LEMMA NotedJobs ==
    ASSUME TypeOK, NEW r \in Runs, NEW s, NEW d, Noted(r, s, d)
    PROVE  /\ job' \in [Runs -> JobRow]
           /\ job'[r].status = s /\ job'[r].result = d
           /\ \A o \in Runs \ {r} : job'[o] = job[o]
<1>1. PICK j \in JobRow : /\ job' = [job EXCEPT ![r] = j]
                          /\ j.status = s /\ j.result = d
    BY DEF Noted
<1>2. QED
    BY <1>1 DEF TypeOK

\* The completion of a job.
LEMMA Completing ==
    ASSUME TypeOK, NEW r \in Runs, NEW d \in Dispatch, NEW n \in Nat, job[r].result = d,
           job' = [job EXCEPT ![r].status = "complete", ![r].result.accepted = n]
    PROVE  Noted(r, "complete", [d EXCEPT !.accepted = n])
<1> DEFINE e == [d EXCEPT !.accepted = n]
           j == [job[r] EXCEPT !.status = "complete", !.result = e]
<1>1. job \in [Runs -> JobRow] /\ job[r] \in JobRow
    BY JobParts
<1>2. e \in Dispatch
    BY DispatchIs
<1>3. job' = [job EXCEPT ![r] = [job[r] EXCEPT !.status = "complete",
                                              !.result = [job[r].result EXCEPT !.accepted = n]]]
    BY <1>1
<1>4. job' = [job EXCEPT ![r] = j]
    BY <1>3
<1> HIDE DEF e
<1>5. j \in JobRow /\ j.status = "complete" /\ j.result = e
    BY <1>1, <1>2 DEF JobRow
<1> HIDE DEF j
<1>6. Noted(r, "complete", e)
    BY <1>4, <1>5 DEF Noted
<1>7. QED
    BY <1>6 DEF e

\* A request that is being handled.
LEMMA HandlingParts ==
    ASSUME NEW h \in Handling
    PROVE  /\ h # Idle /\ h.at # "idle" /\ h.at \in Stages
           /\ h.from \in Companions \cup {None} /\ h.run \in Runs
           /\ h.print \in Prints \cup {None}
           /\ h.seen \in {NoResult} \cup Dispatch /\ h.sent \in Nat
BY DEF Handling, Idle, Stages

LEMMA RequestParts ==
    ASSUME TypeOK, NEW q \in Requests, request[q].at # "idle"
    PROVE  request[q] \in Handling
BY DEF TypeOK, Idle

\* Where a statement leaves its request: the stage, the record it has seen and
\* the number of items.
Moved(q, s, d, n) ==
    \E k \in Handling :
        /\ request' = [request EXCEPT ![q] = k]
        /\ k.at = s /\ k.seen = d /\ k.sent = n
        /\ k.run = request[q].run /\ k.print = request[q].print /\ k.from = request[q].from

LEMMA Moving ==
    ASSUME TypeOK, NEW q \in Requests, request[q].at # "idle",
           NEW s \in Stages, NEW d \in {NoResult} \cup Dispatch, NEW n \in Nat
    PROVE  /\ request' = [request EXCEPT ![q].at = s, ![q].seen = d, ![q].sent = n]
                => Moved(q, s, d, n)
           /\ request' = [request EXCEPT ![q].at = s, ![q].sent = n]
                => Moved(q, s, request[q].seen, n)
           /\ request' = [request EXCEPT ![q].sent = n, ![q].at = s]
                => Moved(q, s, request[q].seen, n)
           /\ request' = [request EXCEPT ![q].at = s, ![q].seen = d]
                => Moved(q, s, d, request[q].sent)
           /\ request' = [request EXCEPT ![q].at = s]
                => Moved(q, s, request[q].seen, request[q].sent)
<1>1. /\ request \in [Requests -> Handling \cup {Idle}]
      /\ request[q] \in Handling
    BY RequestParts DEF TypeOK
<1>2. \A t \in {NoResult} \cup Dispatch, i \in Nat :
        LET k == [request[q] EXCEPT !.at = s, !.seen = t, !.sent = i]
        IN /\ k \in Handling
           /\ k.at = s /\ k.seen = t /\ k.sent = i
           /\ k.run = request[q].run /\ k.print = request[q].print
           /\ k.from = request[q].from
    BY <1>1 DEF Handling
<1>3. \A t \in {NoResult} \cup Dispatch, i \in Nat :
        request' = [request EXCEPT ![q] = [request[q] EXCEPT !.at = s, !.seen = t, !.sent = i]]
            => Moved(q, s, t, i)
    <2> SUFFICES ASSUME NEW t \in {NoResult} \cup Dispatch, NEW i \in Nat, NEW k,
                        k = [request[q] EXCEPT !.at = s, !.seen = t, !.sent = i],
                        request' = [request EXCEPT ![q] = k]
                 PROVE  Moved(q, s, t, i)
        OBVIOUS
    <2>1. /\ k \in Handling
          /\ k.at = s /\ k.seen = t /\ k.sent = i
          /\ k.run = request[q].run /\ k.print = request[q].print
          /\ k.from = request[q].from
        BY <1>2
    <2>2. QED
        BY <2>1 DEF Moved
<1>4. /\ request[q].seen \in {NoResult} \cup Dispatch /\ request[q].sent \in Nat
    BY <1>1, HandlingParts
<1>5. /\ [request[q] EXCEPT !.at = s, !.sent = n]
            = [request[q] EXCEPT !.at = s, !.seen = request[q].seen, !.sent = n]
      /\ [request[q] EXCEPT !.sent = n, !.at = s]
            = [request[q] EXCEPT !.at = s, !.seen = request[q].seen, !.sent = n]
      /\ [request[q] EXCEPT !.at = s, !.seen = d]
            = [request[q] EXCEPT !.at = s, !.seen = d, !.sent = request[q].sent]
      /\ [request[q] EXCEPT !.at = s]
            = [request[q] EXCEPT !.at = s, !.seen = request[q].seen, !.sent = request[q].sent]
    BY <1>1 DEF Handling
<1>6. request' = [request EXCEPT ![q].at = s, ![q].seen = d, ![q].sent = n]
        => Moved(q, s, d, n)
    BY <1>1, <1>3
<1>7. request' = [request EXCEPT ![q].at = s, ![q].sent = n]
        => Moved(q, s, request[q].seen, n)
    <2> SUFFICES ASSUME request' = [request EXCEPT ![q].at = s, ![q].sent = n]
                 PROVE  Moved(q, s, request[q].seen, n)
        OBVIOUS
    <2>1. request' = [request EXCEPT ![q] = [request[q] EXCEPT !.at = s, !.sent = n]]
        BY <1>1
    <2>2. QED
        BY <1>3, <1>4, <1>5, <2>1
<1>8. request' = [request EXCEPT ![q].sent = n, ![q].at = s]
        => Moved(q, s, request[q].seen, n)
    <2> SUFFICES ASSUME request' = [request EXCEPT ![q].sent = n, ![q].at = s]
                 PROVE  Moved(q, s, request[q].seen, n)
        OBVIOUS
    <2>1. request' = [request EXCEPT ![q] = [request[q] EXCEPT !.sent = n, !.at = s]]
        BY <1>1
    <2>2. QED
        BY <1>3, <1>4, <1>5, <2>1
<1>9. request' = [request EXCEPT ![q].at = s, ![q].seen = d]
        => Moved(q, s, d, request[q].sent)
    <2> SUFFICES ASSUME request' = [request EXCEPT ![q].at = s, ![q].seen = d]
                 PROVE  Moved(q, s, d, request[q].sent)
        OBVIOUS
    <2>1. request' = [request EXCEPT ![q] = [request[q] EXCEPT !.at = s, !.seen = d]]
        BY <1>1
    <2>2. QED
        BY <1>3, <1>4, <1>5, <2>1
<1>10. request' = [request EXCEPT ![q].at = s]
        => Moved(q, s, request[q].seen, request[q].sent)
    <2> SUFFICES ASSUME request' = [request EXCEPT ![q].at = s]
                 PROVE  Moved(q, s, request[q].seen, request[q].sent)
        OBVIOUS
    <2>1. request' = [request EXCEPT ![q] = [request[q] EXCEPT !.at = s]]
        BY <1>1
    <2>2. QED
        BY <1>3, <1>4, <1>5, <2>1
<1>11. QED
    BY <1>6, <1>7, <1>8, <1>9, <1>10

\* The other requests stay where they are.
LEMMA MovedRequests ==
    ASSUME TypeOK, NEW q \in Requests, NEW s, NEW d, NEW n, Moved(q, s, d, n)
    PROVE  /\ request' \in [Requests -> Handling \cup {Idle}]
           /\ request'[q].at = s /\ request'[q].seen = d /\ request'[q].sent = n
           /\ request'[q].run = request[q].run /\ request'[q].print = request[q].print
           /\ request'[q] \in Handling
           /\ \A o \in Requests \ {q} : request'[o] = request[o]
<1>1. PICK k \in Handling :
        /\ request' = [request EXCEPT ![q] = k]
        /\ k.at = s /\ k.seen = d /\ k.sent = n
        /\ k.run = request[q].run /\ k.print = request[q].print /\ k.from = request[q].from
    BY DEF Moved
<1>2. QED
    BY <1>1 DEF TypeOK

\* The answer ends the request, and only one that says so is remembered.
LEMMA Answering ==
    ASSUME TypeOK, NEW q \in Requests, request[q].at # "idle",
           NEW ok \in BOOLEAN, Answer(q, ok)
    PROVE  /\ request' \in [Requests -> Handling \cup {Idle}]
           /\ request'[q] = Idle
           /\ \A o \in Requests \ {q} : request'[o] = request[o]
           /\ relay' \in [Companions -> Polling]
           /\ acked' \subseteq Result
           /\ \A a \in acked' : \/ a \in acked
                                \/ a.run = request[q].run /\ ok /\ request[q].print # None
<1>1. /\ request \in [Requests -> Handling \cup {Idle}]
      /\ relay \in [Companions -> Polling]
      /\ acked \subseteq Result
    BY DEF TypeOK
<1>2. /\ request[q].from \in Companions \cup {None} /\ request[q].run \in Runs
      /\ request[q].print \in Prints \cup {None}
    BY RequestParts, HandlingParts
<1>3. Taken(q) \in Report /\ Taken(q).run = request[q].run
    BY <1>2 DEF Taken, Report
<1>4. request[q].print # None => Taken(q) \in Result
    BY <1>2 DEF Taken, Result
<1>5. Idle \in Polling /\ [at |-> "accepted", result |-> Taken(q)] \in Polling
    BY <1>3 DEF Polling
<1>6. request' = [request EXCEPT ![q] = Idle]
    BY DEF Answer
<1>7. relay' \in [Companions -> Polling]
    <2>1. CASE request[q].from = None
        BY <1>1, <2>1 DEF Answer
    <2>2. CASE request[q].from # None
        <3>1. PICK v \in Polling : relay' = [relay EXCEPT ![request[q].from] = v]
            BY <1>5, <2>2 DEF Answer
        <3>2. QED
            BY <1>1, <1>2, <2>2, <3>1
    <2>3. QED
        BY <2>1, <2>2
<1>8. \/ acked' = acked
      \/ acked' = acked \cup {Taken(q)} /\ ok /\ request[q].print # None
    BY DEF Answer
<1>9. QED
    BY <1>1, <1>3, <1>4, <1>6, <1>7, <1>8

-----------------------------------------------------------------------------
(* Types *)

\* The parts of TypeOK that the endpoint leaves to each of its steps.
LEMMA Typed ==
    ASSUME TypeOK,
           run' \in [Runs -> RunRow], receipts' \in [Runs -> Receipts], health' \in [Runs -> Nat],
           job' \in [Runs -> JobRow], relay' \in [Companions -> Polling],
           request' \in [Requests -> Handling \cup {Idle}], acked' \subseteq Result,
           runner' = runner, slot' = slot,
           queue' \subseteq bodies', bodies' \subseteq Message, IsFiniteSet(bodies'),
           attempts' \in Nat, faults' \in 0..MaxFaults
    PROVE  TypeOK'
BY DEF TypeOK

LEMMA TypedRequests ==
    ASSUME TypeOK,
           relay' \in [Companions -> Polling],
           request' \in [Requests -> Handling \cup {Idle}], acked' \subseteq Result,
           UNCHANGED <<ledger, runner, job, attempts, slot, queue, bodies>>,
           faults' \in 0..MaxFaults
    PROVE  TypeOK'
BY DEF TypeOK, ledger

LEMMA Faults ==
    ASSUME TypeOK
    PROVE  /\ Fault => faults' \in 0..MaxFaults
           /\ UNCHANGED faults => faults' \in 0..MaxFaults
BY CompanionAssumption DEF TypeOK, Fault

LEMMA MinType == \A a, b \in Nat : Min({a, b}) \in Nat /\ (Min({a, b}) = a \/ Min({a, b}) = b)
                                    /\ Min({a, b}) <= a /\ Min({a, b}) <= b
BY SMT DEF Min

\* The steps of runSource, the one that throws among them.
Producing(r) == RunSource(r) \/ RunThrows(r)

\* What a statement that throws has done.
LEMMA ThrowIs ==
    ASSUME TypeOK, NEW r \in Runs, RunThrows(r)
    PROVE  /\ runner[r].at \in {"looking", "inserting", "raced", "joining", "handing"}
           /\ runner' = [runner EXCEPT ![r] = [at |-> "failing", canonical |-> None]]
           /\ runner'[r].at = "failing" /\ \A o \in Runs \ {r} : runner'[o] = runner[o]
           /\ UNCHANGED <<receipts, health, request, attempts, local, queue, bodies>>
           /\ faults' \in 0..MaxFaults
           /\ \/ UNCHANGED <<run, job>>
              \/ /\ runner[r].at = "inserting" /\ run' = run
                 /\ Noted(r, "queued", job[r].result)
              \/ /\ runner[r].at = "joining" /\ Open(r) /\ job' = job
                 /\ Written(r, "pending", 0, run[r].partial, run[r].accounted)
              \/ /\ runner[r].at = "handing" /\ Open(r) /\ job' = job
                 /\ Written(r, "queued", 0, FALSE, run[r].accounted)
<1>1. PICK from \in {"looking", "inserting", "raced", "joining", "handing"} :
        /\ Runner(r, from, "failing")
        /\ \/ UNCHANGED <<run, job>>
           \/ /\ from = "inserting" /\ ActiveJobs = {}
              /\ job' = [job EXCEPT ![r].status = "queued"] /\ UNCHANGED run
           \/ from = "joining" /\ Superseded(r) /\ UNCHANGED job
           \/ from = "handing" /\ HandedOver(r) /\ UNCHANGED job
    BY DEF RunThrows
<1>2. /\ runner[r].at = from
      /\ runner' = [runner EXCEPT ![r] = [at |-> "failing", canonical |-> None]]
      /\ runner'[r].at = "failing" /\ \A o \in Runs \ {r} : runner'[o] = runner[o]
    BY <1>1 DEF Runner, TypeOK
<1>3. /\ UNCHANGED <<receipts, health, request, attempts, local, queue, bodies>>
      /\ faults' \in 0..MaxFaults
    BY Faults DEF RunThrows
<1>4. /\ "pending" \in Statuses /\ "queued" \in Statuses
      /\ 0 \in Nat /\ FALSE \in BOOLEAN
      /\ run[r].partial \in BOOLEAN /\ run[r].accounted \in BOOLEAN
    BY RunParts DEF Statuses
<1>5. CASE from = "inserting" /\ job' = [job EXCEPT ![r].status = "queued"] /\ run' = run
    <2>1. Noted(r, "queued", job[r].result)
        BY <1>5, JobParts, Noting DEF Active
    <2>2. QED
        BY <1>2, <1>3, <1>5, <2>1
<1>6. CASE from = "joining" /\ Superseded(r) /\ job' = job
    <2>1. \/ run' = run
          \/ Open(r) /\ run' = [run EXCEPT ![r].status = "pending", ![r].enqueued = 0]
        BY <1>6 DEF Superseded
    <2>2. \/ run' = run
          \/ Open(r) /\ Written(r, "pending", 0, run[r].partial, run[r].accounted)
        BY <1>4, <2>1, Writing
    <2>3. QED
        BY <1>2, <1>3, <1>6, <2>2
<1>7. CASE from = "handing" /\ HandedOver(r) /\ job' = job
    <2>1. \/ run' = run
          \/ /\ Open(r)
             /\ run' = [run EXCEPT ![r].status = "queued", ![r].enqueued = 0, ![r].partial = FALSE]
        BY <1>7 DEF HandedOver
    <2>2. \/ run' = run
          \/ Open(r) /\ Written(r, "queued", 0, FALSE, run[r].accounted)
        BY <1>4, <2>1, Writing
    <2>3. QED
        BY <1>2, <1>3, <1>7, <2>2
<1>8. QED
    BY <1>1, <1>2, <1>3, <1>5, <1>6, <1>7

LEMMA ThrowsElsewhere ==
    ASSUME TypeOK, NEW r \in Runs, RunThrows(r)
    PROVE  \A o \in Runs \ {r} : run'[o] = run[o] /\ job'[o] = job[o]
<1>1. CASE UNCHANGED <<run, job>>
    BY <1>1
<1>2. CASE run' = run /\ Noted(r, "queued", job[r].result)
    BY <1>2, NotedJobs
<1>3. CASE job' = job /\ Written(r, "pending", 0, run[r].partial, run[r].accounted)
    BY <1>3, WrittenRuns
<1>4. CASE job' = job /\ Written(r, "queued", 0, FALSE, run[r].accounted)
    BY <1>4, WrittenRuns
<1>5. QED
    BY <1>1, <1>2, <1>3, <1>4, ThrowIs

LEMMA RunnerTyped ==
    ASSUME TypeOK, NEW r \in Runs, Producing(r)
    PROVE  /\ runner' \in [Runs -> [at : {"new", "looking", "inserting", "raced", "joining",
                                          "handing", "failing", "done"},
                                    canonical : Runs \cup {None}]]
           /\ UNCHANGED <<slot, relay, request, queue, bodies, acked, attempts, receipts>>
           /\ faults' \in 0..MaxFaults
           /\ runner[r].at # "done" /\ \A o \in Runs \ {r} : runner'[o] = runner[o]
<1> DEFINE Places == [at : {"new", "looking", "inserting", "raced", "joining",
                            "handing", "failing", "done"},
                      canonical : Runs \cup {None}]
           Moves == /\ runner' \in [Runs -> Places]
                     /\ runner[r].at # "done" /\ \A o \in Runs \ {r} : runner'[o] = runner[o]
           Rest == /\ UNCHANGED <<slot, relay, request, queue, bodies, acked, attempts, receipts>>
                   /\ faults' \in 0..MaxFaults
<1>1. runner \in [Runs -> Places] /\ faults \in 0..MaxFaults
    BY DEF TypeOK
<1>2. ASSUME NEW from \in {"new", "looking", "inserting", "raced", "handing", "failing"},
             NEW to \in {"looking", "inserting", "raced", "handing", "failing", "done"},
             Runner(r, from, to)
      PROVE  Moves
    BY <1>1, <1>2 DEF Runner
<1>3. ASSUME NEW c \in Runs, Join(r, c), runner[r].at # "done"
      PROVE  Moves
    BY <1>1, <1>3 DEF Join
<1>4. ActiveJobs \subseteq Runs
    BY DEF ActiveJobs
<1>5. CASE BeginRun(r)
    BY <1>1, <1>2, <1>5 DEF BeginRun, server, local
<1>6. CASE LookForJob(r)
    <2>1. Moves
        BY <1>2, <1>3, <1>4, <1>6 DEF LookForJob
    <2>2. Rest
        BY <1>1, <1>6 DEF LookForJob, ledger, server, local
    <2>3. QED
        BY <2>1, <2>2
<1>7. CASE InsertJob(r)
    BY <1>1, <1>2, <1>7 DEF InsertJob, ledger, local
<1>8. CASE FindWinner(r)
    <2>1. Moves
        BY <1>2, <1>3, <1>4, <1>8 DEF FindWinner
    <2>2. Rest
        BY <1>1, <1>8 DEF FindWinner, ledger, server, local
    <2>3. QED
        BY <2>1, <2>2
<1>9. CASE Supersede(r)
    <2>1. runner' = [runner EXCEPT ![r].at = "done"] /\ runner[r].at = "joining"
        BY <1>9 DEF Supersede
    <2>2. [runner[r] EXCEPT !.at = "done"] \in Places
        BY <1>1
    <2>3. Moves
        BY <1>1, <2>1, <2>2
    <2>4. QED
        BY <1>1, <1>9, <2>3 DEF Supersede, server, local
<1>10. CASE HandOver(r)
    BY <1>1, <1>2, <1>10 DEF HandOver, server, local
<1>11. CASE FailRun(r)
    BY <1>1, <1>2, <1>11 DEF FailRun, server, local
<1>12. CASE RunThrows(r)
    <2>1. /\ runner[r].at \in {"looking", "inserting", "raced", "joining", "handing"}
          /\ runner' = [runner EXCEPT ![r] = [at |-> "failing", canonical |-> None]]
        BY <1>12, ThrowIs
    <2>2. Moves
        BY <1>1, <2>1
    <2>3. QED
        BY <1>12, <2>2, ThrowIs DEF local
<1>13. QED
    BY <1>5, <1>6, <1>7, <1>8, <1>9, <1>10, <1>11, <1>12 DEF Producing, RunSource

LEMMA TypeRunSource ==
    ASSUME TypeOK, NEW r \in Runs, Producing(r)
    PROVE  TypeOK'
<1>1. /\ run \in [Runs -> RunRow] /\ health \in [Runs -> Nat] /\ job \in [Runs -> JobRow]
    BY DEF TypeOK
<1>2. /\ "running" \in Statuses /\ "pending" \in Statuses /\ "queued" \in Statuses
      /\ "failed" \in Statuses /\ 0 \in Nat /\ TRUE \in BOOLEAN /\ FALSE \in BOOLEAN
    BY DEF Statuses, Ended
<1>3. /\ run' \in [Runs -> RunRow] /\ health' \in [Runs -> Nat] /\ job' \in [Runs -> JobRow]
    <2>1. CASE BeginRun(r)
        <3>1. run' = [run EXCEPT ![r].status = "running"]
            BY <2>1 DEF BeginRun
        <3>2. Written(r, "running", run[r].enqueued, run[r].partial, run[r].accounted)
            BY <1>2, <3>1, Writing
        <3>3. run' \in [Runs -> RunRow]
            BY <3>2, WrittenRuns
        <3>4. QED
            BY <1>1, <2>1, <3>3 DEF BeginRun, server
    <2>2. CASE LookForJob(r) \/ FindWinner(r)
        BY <1>1, <2>2 DEF LookForJob, FindWinner, ledger, server
    <2>3. CASE InsertJob(r)
        <3>1. job' = [job EXCEPT ![r].status = "queued"] \/ job' = job
            BY <2>3 DEF InsertJob
        <3>2. "queued" \in {"none", "complete", "failed"} \cup Active
            BY DEF Active
        <3>3. job[r].result \in {NoResult} \cup Dispatch
            BY JobParts
        <3>4. job' \in [Runs -> JobRow]
            BY <1>1, <3>1, <3>2, <3>3, Noting, NotedJobs
        <3>5. QED
            BY <1>1, <2>3, <3>4 DEF InsertJob, ledger
    <2>4. CASE Supersede(r)
        <3>1. run' = [run EXCEPT ![r].status = "pending", ![r].enqueued = 0] \/ run' = run
            BY <2>4 DEF Supersede, Superseded
        <3>2. \/ Written(r, "pending", 0, run[r].partial, run[r].accounted)
              \/ run' = run
            BY <1>2, <3>1, Writing
        <3>3. run' \in [Runs -> RunRow]
            BY <1>1, <3>2, WrittenRuns
        <3>4. QED
            BY <1>1, <2>4, <3>3 DEF Supersede, server
    <2>5. CASE HandOver(r)
        <3>1. \/ run' = [run EXCEPT ![r].status = "queued", ![r].enqueued = 0, ![r].partial = FALSE]
              \/ run' = run
            BY <2>5 DEF HandOver, HandedOver
        <3>2. \/ Written(r, "queued", 0, FALSE, run[r].accounted)
              \/ run' = run
            BY <1>2, <3>1, Writing
        <3>3. run' \in [Runs -> RunRow]
            BY <1>1, <3>2, WrittenRuns
        <3>4. QED
            BY <1>1, <2>5, <3>3 DEF HandOver, server
    <2>6. CASE FailRun(r)
        <3>1. run' = [run EXCEPT ![r].status = "failed", ![r].accounted = TRUE]
            BY <2>6 DEF FailRun
        <3>2. Written(r, "failed", run[r].enqueued, run[r].partial, TRUE)
            BY <1>2, <3>1, Writing
        <3>3. run' \in [Runs -> RunRow]
            BY <3>2, WrittenRuns
        <3>4. health' \in [Runs -> Nat]
            BY <1>1, <2>6 DEF FailRun
        <3>5. QED
            BY <1>1, <2>6, <3>3, <3>4 DEF FailRun, server
    <2>7. CASE RunThrows(r)
        <3>1. health' = health
            BY <2>7, ThrowIs
        <3>2. \/ run' = run
              \/ Written(r, "pending", 0, run[r].partial, run[r].accounted)
              \/ Written(r, "queued", 0, FALSE, run[r].accounted)
            BY <2>7, ThrowIs
        <3>3. run' \in [Runs -> RunRow]
            BY <1>1, <3>2, WrittenRuns
        <3>4. job' = job \/ Noted(r, "queued", job[r].result)
            BY <2>7, ThrowIs
        <3>5. job' \in [Runs -> JobRow]
            <4>1. job[r].result \in {NoResult} \cup Dispatch
                BY JobParts
            <4>2. QED
                BY <1>1, <3>4, <4>1, NotedJobs
        <3>6. QED
            BY <1>1, <3>1, <3>3, <3>5
    <2>8. QED
        BY <2>1, <2>2, <2>3, <2>4, <2>5, <2>6, <2>7 DEF Producing, RunSource
<1>4. QED
    BY <1>3, RunnerTyped DEF TypeOK

LEMMA TypeCompanion ==
    ASSUME TypeOK, NEW p \in Companions, Companion(p) \/ Abandon(p)
    PROVE  TypeOK'
<1>1. /\ relay \in [Companions -> Polling] /\ relay[p] \in Polling
      /\ request \in [Requests -> Handling \cup {Idle}]
      /\ slot \in {None} \cup Result
    BY DEF TypeOK
<1>2. /\ Idle \in Polling /\ [at |-> "polling"] \in Polling
      /\ \A r \in Runs : [at |-> "working", run |-> r] \in Polling
      /\ \A x \in Report : [at |-> "submitting", result |-> x] \in Polling
      /\ \A q \in Requests, x \in Report : [at |-> "waiting", on |-> q, result |-> x] \in Polling
    BY DEF Polling
<1>3. ASSUME NEW v \in Polling, At(p, v)
      PROVE  relay' \in [Companions -> Polling]
    BY <1>1, <1>3 DEF At
<1>4. Result \subseteq Report
    BY DEF Result, Report
<1>5. CASE ReadOutbox(p)
    <2>1. PICK v \in Polling : At(p, v)
        BY <1>1, <1>2, <1>4, <1>5 DEF ReadOutbox
    <2>2. relay' \in [Companions -> Polling]
        BY <1>3, <2>1
    <2>3. QED
        BY <1>5, <2>2 DEF ReadOutbox, TypeOK, ledger, server
<1>6. CASE Poll(p)
    <2>1. PICK r \in Runs : /\ job' = [job EXCEPT ![r].status = "leased"]
                            /\ \/ At(p, [at |-> "working", run |-> r]) /\ UNCHANGED faults
                               \/ At(p, Idle) /\ Fault
        BY <1>6 DEF Poll
    <2>2. relay' \in [Companions -> Polling] /\ faults' \in 0..MaxFaults
        BY <1>2, <1>3, <2>1, Faults
    <2>3. "leased" \in {"none", "complete", "failed"} \cup Active
        BY DEF Active
    <2>4. job[r].result \in {NoResult} \cup Dispatch
        BY JobParts
    <2>5. job' \in [Runs -> JobRow]
        BY <2>1, <2>3, <2>4, Noting, NotedJobs
    <2>6. QED
        BY <1>6, <2>2, <2>5 DEF Poll, TypeOK, ledger
<1>7. CASE PollNothing(p)
    <2>1. relay' \in [Companions -> Polling]
        BY <1>2, <1>3, <1>7 DEF PollNothing
    <2>2. QED
        BY <1>7, <2>1 DEF PollNothing, TypeOK, ledger, server
<1>8. CASE Execute(p)
    <2>1. relay[p].run \in Runs
        BY <1>1, <1>8 DEF Execute, Polling, Idle
    <2>2. PICK f \in Prints :
            LET result == [run |-> relay[p].run, print |-> f]
            IN IF slot = None
               THEN slot' = result /\ At(p, [at |-> "submitting", result |-> result])
               ELSE UNCHANGED slot /\ At(p, Idle)
        BY <1>8 DEF Execute
    <2>3. [run |-> relay[p].run, print |-> f] \in Result
        BY <2>1 DEF Result
    <2>4. slot' \in {None} \cup Result /\ relay' \in [Companions -> Polling]
        BY <1>1, <1>2, <1>3, <1>4, <2>2, <2>3
    <2>5. QED
        BY <1>8, <2>4 DEF Execute, TypeOK, ledger, server
<1>9. CASE ExecuteFails(p)
    <2>1. relay[p].run \in Runs
        BY <1>1, <1>9 DEF ExecuteFails, Polling, Idle
    <2>2. [run |-> relay[p].run, print |-> None] \in Report
        BY <2>1 DEF Report
    <2>3. relay' \in [Companions -> Polling]
        BY <1>2, <1>3, <1>9, <2>2 DEF ExecuteFails
    <2>4. QED
        BY <1>9, <2>3 DEF ExecuteFails, TypeOK, ledger, server
<1>10. CASE Submit(p)
    <2>1. relay[p].result \in Report
        BY <1>1, <1>10 DEF Submit, Polling, Idle
    <2>2. PICK q \in Requests :
            /\ request' = [request EXCEPT ![q] = Arrived(p)]
            /\ At(p, [at |-> "waiting", on |-> q, result |-> relay[p].result])
        BY <1>10 DEF Submit
    <2>3. Arrived(p) \in Handling
        BY <2>1 DEF Arrived, Report, Handling, Stages
    <2>4. /\ relay' \in [Companions -> Polling]
          /\ request' \in [Requests -> Handling \cup {Idle}]
        BY <1>1, <1>2, <1>3, <2>1, <2>2, <2>3
    <2>5. QED
        BY <1>10, <2>4 DEF Submit, TypeOK, ledger
<1>11. CASE ClearSlot(p)
    <2>1. relay' \in [Companions -> Polling] /\ slot' \in {None} \cup Result
        BY <1>1, <1>2, <1>3, <1>11 DEF ClearSlot
    <2>2. QED
        BY <1>11, <2>1 DEF ClearSlot, TypeOK, ledger, server
<1>12. CASE Abandon(p)
    <2>1. relay' \in [Companions -> Polling] /\ faults' \in 0..MaxFaults
        BY <1>2, <1>3, <1>12, Faults DEF Abandon
    <2>2. request' = [q \in Requests |->
                        IF request[q].at # "idle" /\ request[q].from = p
                        THEN [request[q] EXCEPT !.from = None] ELSE request[q]]
        BY <1>12 DEF Abandon
    <2>3. \A q \in Requests : request[q].at # "idle" =>
            [request[q] EXCEPT !.from = None] \in Handling
        BY RequestParts DEF Handling
    <2>4. request' \in [Requests -> Handling \cup {Idle}]
        BY <1>1, <2>2, <2>3
    <2>5. QED
        BY <1>12, <2>1, <2>4 DEF Abandon, TypeOK, ledger
<1>13. QED
    BY <1>5, <1>6, <1>7, <1>8, <1>9, <1>10, <1>11, <1>12 DEF Companion

\* A message of a request that is sending.
LEMMA Entering ==
    ASSUME TypeOK, NEW m \in Message, Enter(m)
    PROVE  queue' \subseteq bodies' /\ bodies' \subseteq Message /\ IsFiniteSet(bodies')
BY FS_AddElement DEF TypeOK, Enter

LEMMA ItemIs ==
    ASSUME TypeOK, NEW q \in Requests, request[q].at # "idle", request[q].print # None
    PROVE  Item(q, request[q].sent) \in Message
BY RequestParts, HandlingParts DEF Item, Message

\* The receipts of one item, and what follows from them.
LEMMA Receipting ==
    ASSUME TypeOK, NEW m \in bodies, NEW kind, Record(m, kind)
    PROVE  /\ m \in Message
           /\ Receipt(m, kind) \in Receipts
           /\ receipts' = [receipts EXCEPT ![m.run] = Receipt(m, kind)]
           /\ receipts' \in [Runs -> Receipts]
           /\ Receipt(m, kind).done \cup Receipt(m, kind).failed
                \subseteq receipts[m.run].done \cup receipts[m.run].failed \cup {m.item}
<1>1. m \in Message /\ m.run \in Runs /\ m.item \in Nat
    BY DEF TypeOK, Message
<1>2. receipts \in [Runs -> Receipts] /\ receipts[m.run] \in Receipts
    BY <1>1 DEF TypeOK
<1>3. \A rc \in Receipts : /\ [rc EXCEPT !.failed = @ \cup {m.item}] \in Receipts
                           /\ [rc EXCEPT !.done = @ \cup {m.item}] \in Receipts
                           /\ [rc EXCEPT !.failed = @ \cup {m.item}].done = rc.done
                           /\ [rc EXCEPT !.failed = @ \cup {m.item}].failed = rc.failed \cup {m.item}
                           /\ [rc EXCEPT !.done = @ \cup {m.item}].failed = rc.failed
                           /\ [rc EXCEPT !.done = @ \cup {m.item}].done = rc.done \cup {m.item}
    BY <1>1 DEF Receipts
<1>4. \/ Receipt(m, kind) = receipts[m.run]
      \/ Receipt(m, kind) = [receipts[m.run] EXCEPT !.failed = @ \cup {m.item}]
      \/ Receipt(m, kind) = [receipts[m.run] EXCEPT !.done = @ \cup {m.item}]
    BY DEF Receipt
<1>5. /\ Receipt(m, kind) \in Receipts
      /\ Receipt(m, kind).done \cup Receipt(m, kind).failed
            \subseteq receipts[m.run].done \cup receipts[m.run].failed \cup {m.item}
    BY <1>2, <1>3, <1>4
<1>6. receipts' = [receipts EXCEPT ![m.run] = Receipt(m, kind)]
    BY DEF Record
<1>7. QED
    BY <1>1, <1>2, <1>5, <1>6

\* What an aggregation leaves of the run.
LEMMA Aggregating ==
    ASSUME TypeOK, NEW r \in Runs, NEW rc, Aggregate(r, rc)
    PROVE  /\ run' \in [Runs -> RunRow] /\ health' \in [Runs -> Nat]
           /\ \/ UNCHANGED <<run, health>>
              \/ /\ Complete(r, rc)
                 /\ run'[r].status \in Ended /\ run'[r].accounted
                 /\ run'[r].enqueued = run[r].enqueued /\ run'[r].partial = run[r].partial
                 /\ \A o \in Runs \ {r} : run'[o] = run[o]
                 /\ health' = [health EXCEPT ![r] = @ + 1]
<1>1. run \in [Runs -> RunRow] /\ health \in [Runs -> Nat]
    BY DEF TypeOK
<1>2. CASE ~Complete(r, rc)
    BY <1>1, <1>2 DEF Aggregate
<1>3. CASE Complete(r, rc)
    <2>1. PICK s \in Ended : s = Verdict(r, rc)
        BY DEF Verdict, Ended
    <2>2. run' = [run EXCEPT ![r].status = s, ![r].accounted = TRUE]
        BY <1>3, <2>1 DEF Aggregate
    <2>3. s \in Statuses
        BY DEF Statuses
    <2>4. Written(r, s, run[r].enqueued, run[r].partial, TRUE)
        BY <2>2, <2>3, RunParts, Writing
    <2>5. health' = [health EXCEPT ![r] = @ + 1]
        BY <1>3 DEF Aggregate
    <2>6. health' \in [Runs -> Nat]
        BY <1>1, <2>5
    <2>7. QED
        BY <1>3, <2>4, <2>5, <2>6, WrittenRuns, ZenonT(60)
<1>4. QED
    BY <1>2, <1>3

LEMMA TypeConsumer ==
    ASSUME TypeOK, NEW m \in queue, Consume(m) \/ Exhaust(m)
    PROVE  TypeOK'
<1>1. m \in bodies /\ queue \subseteq bodies
    BY DEF TypeOK
<1>2. PICK kind : Record(m, kind)
    BY DEF Consume, Exhaust
<1>3. m.run \in Runs
    BY <1>1, <1>2, Receipting DEF Message
<1>4. receipts' \in [Runs -> Receipts]
    BY <1>1, <1>2, Receipting
<1>5. run' \in [Runs -> RunRow] /\ health' \in [Runs -> Nat]
    BY <1>2, <1>3, Aggregating DEF Record
<1>6. queue' \subseteq bodies
    BY <1>1 DEF Consume, Exhaust
<1>7. UNCHANGED <<runner, server, local, bodies, faults>>
    BY DEF Consume, Exhaust
<1>8. QED
    BY <1>4, <1>5, <1>6, <1>7 DEF TypeOK, server, local

\* SetPhase, as what it leaves of the job.
LEMMA Phased ==
    ASSUME TypeOK, NEW q \in Requests, request[q].at # "idle", NEW d \in Dispatch,
           NEW s \in {"dispatching", "accepted", "retryable"}, NEW n \in Nat,
           SetPhase(q, d, s, n)
    PROVE  /\ job' \in [Runs -> JobRow]
           /\ \/ /\ job[request[q].run].status = "leased" /\ job[request[q].run].result = d
                 /\ Noted(request[q].run, "leased", [d EXCEPT !.phase = s, !.accepted = n])
              \/ /\ ~(job[request[q].run].status = "leased" /\ job[request[q].run].result = d)
                 /\ job' = job
<1>1. request[q].run \in Runs
    BY RequestParts, HandlingParts
<1>2. job \in [Runs -> JobRow] /\ job[request[q].run].status \in {"none", "complete", "failed"} \cup Active
    BY <1>1, JobParts
<1>3. CASE job[request[q].run].status = "leased" /\ job[request[q].run].result = d
    <2>1. PICK e \in Dispatch : e = [d EXCEPT !.phase = s, !.accepted = n]
        BY DispatchIs
    <2>2. job' = [job EXCEPT ![request[q].run].result = e]
        BY <1>3, <2>1 DEF SetPhase
    <2>3. Noted(request[q].run, "leased", e)
        BY <1>1, <1>2, <1>3, <2>2, Noting
    <2>4. QED
        BY <1>1, <1>3, <2>1, <2>3, NotedJobs
<1>4. CASE ~(job[request[q].run].status = "leased" /\ job[request[q].run].result = d)
    BY <1>2, <1>4 DEF SetPhase
<1>5. QED
    BY <1>3, <1>4

\* What Confirmed leaves of the request.
LEMMA Confirming ==
    ASSUME TypeOK, NEW q \in Requests, request[q].at # "idle", NEW d \in Dispatch,
           NEW n \in Nat, Confirmed(q, d, n)
    PROVE  /\ request' \in [Requests -> Handling \cup {Idle}]
           /\ relay' \in [Companions -> Polling] /\ acked' \subseteq Result
           /\ \/ /\ Moved(q, "completing", request[q].seen, n)
                 /\ job'[request[q].run].result # NoResult
                 /\ job'[request[q].run].result.phase = "accepted"
                 /\ UNCHANGED <<relay, acked>>
              \/ Answer(q, job[request[q].run].status = "complete")
<1>1. "completing" \in Stages
    BY DEF Stages
<1>2. request[q].seen \in {NoResult} \cup Dispatch
    BY RequestParts, HandlingParts
<1>3. relay \in [Companions -> Polling] /\ acked \subseteq Result
    BY DEF TypeOK
<1>4. \/ /\ Moved(q, "completing", request[q].seen, n)
         /\ job'[request[q].run].result # NoResult
         /\ job'[request[q].run].result.phase = "accepted"
         /\ UNCHANGED <<relay, acked>>
      \/ Answer(q, job[request[q].run].status = "complete")
    BY <1>1, <1>2, Moving DEF Confirmed
<1>5. ASSUME Answer(q, job[request[q].run].status = "complete")
      PROVE  /\ request' \in [Requests -> Handling \cup {Idle}]
             /\ relay' \in [Companions -> Polling] /\ acked' \subseteq Result
    BY <1>5, Answering
<1>6. QED
    BY <1>3, <1>4, <1>5, MovedRequests

\* The stages in which a request has a dispatch of its own or has seen one.
Dispatching == {"settling", "lost", "marking", "sending", "withdrawing", "revising",
                "replaying", "accepting"}

\* What a request is, wherever the other state is: what it has seen and kept.
Shape(s, f, d) ==
    /\ s \in {"beginning", "losing", "sending"} => f # None
    /\ s = "beginning" => d = NoResult \/ d.phase # "accepted"
    /\ s \in Dispatching => d \in Dispatch /\ d.phase = "dispatching"
    /\ s = "sending" => f = d.print

\* The stage to which the SELECT of the job sends a request.
LEMMA CourseIs ==
    ASSUME TypeOK, NEW q \in Requests, request[q].at # "idle",
           NEW d \in {NoResult} \cup Dispatch
    PROVE  /\ Course(q, d) \in {"refused", "completing", "beginning", "settling"}
           /\ Course(q, d) = "completing"
                => (d = NoResult /\ request[q].print = None) \/ (d \in Dispatch /\ d.phase = "accepted")
           /\ Course(q, d) = "beginning"
                => request[q].print # None /\ (d = NoResult \/ d.phase # "accepted")
           /\ Course(q, d) = "settling" => d \in Dispatch /\ d.phase = "dispatching"
           /\ Accepted(d) \in Nat
<1>1. CASE d = NoResult
    <2>1. Accepted(d) = 0
        BY <1>1 DEF Accepted
    <2>2. Course(q, d) = IF request[q].print = None THEN "completing" ELSE "beginning"
        BY <1>1 DEF Course
    <2>3. CASE request[q].print = None
        <3>1. Course(q, d) = "completing"
            BY <2>2, <2>3
        <3>2. QED
            BY <1>1, <2>1, <2>3, <3>1
    <2>4. CASE request[q].print # None
        <3>1. Course(q, d) = "beginning"
            BY <2>2, <2>4
        <3>2. QED
            BY <1>1, <2>1, <2>4, <3>1
    <2>5. QED
        BY <2>3, <2>4
<1>2. CASE d \in Dispatch
    <2>1. /\ d # NoResult /\ d.phase \in {"dispatching", "accepted", "retryable"}
          /\ d.accepted \in Nat
        BY <1>2, DispatchParts
    <2>2. Accepted(d) \in Nat
        BY <2>1 DEF Accepted
    <2>3. CASE Differs(q, d) /\ d.phase # "retryable"
        BY <2>1, <2>2, <2>3 DEF Course
    <2>4. CASE ~(Differs(q, d) /\ d.phase # "retryable")
        BY <1>2, <2>1, <2>2, <2>4 DEF Course
    <2>5. QED
        BY <2>3, <2>4
<1>3. QED
    BY <1>1, <1>2

\* The steps of the endpoint that only read and answer, with what each of them
\* leaves of its request.
Quiet(q) ==
    \/ ReadJob(q) \/ ReadEnded(q) \/ SettledRun(q) \/ InProgress(q) \/ TakeOver(q) \/ Lose(q)
    \/ ReadToComplete(q) \/ RequestEnds(q)

Reads(q, s, d, n) ==
    LET r == request[q].run
    IN \/ /\ d = job[r].result /\ n = Accepted(d) /\ job[r].status = "leased"
          /\ s = Course(q, d) /\ s # "refused"
       \/ /\ s = "marking" /\ d = request[q].seen
          /\ request[q].at \in {"settling", "lost"} /\ Over(r)
          /\ n = Min({Count[d.print], run[r].enqueued})
       \/ /\ s = "beginning" /\ d = request[q].seen /\ n = request[q].sent
          /\ request[q].at = "settling" /\ request[q].print # None
       \/ /\ d = job[r].result /\ d # NoResult /\ n = d.accepted
          /\ \/ s = "completing" /\ d.phase = "accepted"
             \/ s = "lost" /\ d.phase = "dispatching"
       \/ /\ s = "finishing" /\ d = job[r].result /\ n = request[q].sent
          /\ request[q].at = "completing" /\ job[r].status = "leased"
          /\ request[q].print = None /\ request[q].seen = NoResult => d = NoResult

LEMMA Quietly ==
    ASSUME TypeOK, NEW q \in Requests, Quiet(q),
           request[q].at # "idle" => Shape(request[q].at, request[q].print, request[q].seen)
    PROVE  /\ request[q].at # "idle"
           /\ UNCHANGED <<ledger, runner, job, attempts, slot, queue, bodies>>
           /\ faults' \in 0..MaxFaults
           /\ \/ \E ok \in BOOLEAN :
                    /\ Answer(q, ok)
                    /\ ok => \/ job[request[q].run].status = "complete"
                             \/ /\ request[q].at = "completing"
                                /\ job[request[q].run].status \in {"complete", "failed"}
              \/ /\ UNCHANGED <<relay, acked>>
                 /\ \E s \in Stages, d \in {NoResult} \cup Dispatch, n \in Nat :
                        Moved(q, s, d, n) /\ Reads(q, s, d, n)
<1>1. request[q].at # "idle"
    BY DEF Quiet, ReadJob, ReadEnded, SettledRun, InProgress, TakeOver, Lose,
           ReadToComplete, RequestEnds
<1>2. /\ request[q].run \in Runs /\ request[q].print \in Prints \cup {None}
      /\ request[q].seen \in {NoResult} \cup Dispatch /\ request[q].sent \in Nat
    BY <1>1, RequestParts, HandlingParts
<1>3. job[request[q].run].result \in {NoResult} \cup Dispatch
    BY <1>2, JobParts
<1>4. UNCHANGED <<ledger, runner, job, attempts, slot, queue, bodies>>
    BY DEF Quiet, ReadJob, ReadEnded, SettledRun, InProgress, TakeOver, Lose,
           ReadToComplete, RequestEnds, ledger, local
<1>5. faults' \in 0..MaxFaults
    BY Faults DEF Quiet, ReadJob, ReadEnded, SettledRun, InProgress, TakeOver, Lose,
                  ReadToComplete, RequestEnds
<1>6. CASE ReadJob(q)
    <2>1. PICK d \in {NoResult} \cup Dispatch : d = job[request[q].run].result
        BY <1>3
    <2>2. Course(q, d) \in {"refused", "completing", "beginning", "settling"} /\ Accepted(d) \in Nat
        BY <1>1, CourseIs
    <2>3. CASE Course(q, d) = "refused"
        BY <1>1, <1>4, <1>5, <1>6, <2>1, <2>3 DEF ReadJob
    <2>4. CASE Course(q, d) # "refused"
        <3>1. PICK s \in Stages : s = Course(q, d)
            BY <2>2, <2>4 DEF Stages
        <3>2. /\ request' = [request EXCEPT ![q].at = s, ![q].seen = d, ![q].sent = Accepted(d)]
              /\ UNCHANGED <<relay, acked>>
            BY <1>6, <2>1, <2>4, <3>1 DEF ReadJob
        <3>3. Moved(q, s, d, Accepted(d))
            BY <1>1, <2>2, <3>2, Moving
        <3>4. Reads(q, s, d, Accepted(d))
            BY <1>6, <2>1, <2>4, <3>1 DEF ReadJob, Reads
        <3>5. QED
            BY <1>1, <1>4, <1>5, <2>2, <3>2, <3>3, <3>4
    <2>5. QED
        BY <2>3, <2>4
<1>7. CASE ReadEnded(q)
    <2>1. PICK ok \in BOOLEAN :
            ok = (job[request[q].run].status = "complete" /\ ~Differs(q, job[request[q].run].result))
        OBVIOUS
    <2>2. Answer(q, ok)
        BY <1>7, <2>1 DEF ReadEnded
    <2>3. ok => job[request[q].run].status = "complete"
        BY <2>1
    <2>4. QED
        BY <1>1, <1>4, <1>5, <2>2, <2>3
<1>8. CASE SettledRun(q)
    <2>1. request[q].seen \in Dispatch
        BY <1>1, <1>8 DEF SettledRun, Shape, Dispatching
    <2>2. Count[request[q].seen.print] \in Nat /\ run[request[q].run].enqueued \in Nat
        BY <1>2, <2>1, DispatchParts, RunParts, CompanionAssumption
    <2>3. PICK n \in Nat : n = Min({Count[request[q].seen.print], run[request[q].run].enqueued})
        BY <2>2, MinType
    <2>4. Moved(q, "marking", request[q].seen, n) /\ UNCHANGED <<relay, acked>>
        BY <1>1, <1>2, <1>8, <2>3, Moving DEF SettledRun, Stages, local
    <2>5. Reads(q, "marking", request[q].seen, n)
        BY <1>8, <2>3 DEF SettledRun, Reads
    <2>6. QED
        BY <1>1, <1>2, <1>4, <1>5, <2>4, <2>5 DEF Stages
<1>9. CASE InProgress(q)
    BY <1>1, <1>4, <1>5, <1>9 DEF InProgress
<1>10. CASE TakeOver(q)
    <2>1. Moved(q, "beginning", request[q].seen, request[q].sent) /\ UNCHANGED <<relay, acked>>
        BY <1>1, <1>2, <1>10, Moving DEF TakeOver, Goto, Stages, local
    <2>2. Reads(q, "beginning", request[q].seen, request[q].sent)
        BY <1>10 DEF TakeOver, Reads
    <2>3. QED
        BY <1>1, <1>2, <1>4, <1>5, <2>1, <2>2 DEF Stages
<1>11. CASE Lose(q)
    <2>1. PICK d \in {NoResult} \cup Dispatch : d = job[request[q].run].result
        BY <1>3
    <2>2. CASE d = NoResult \/ Differs(q, d) \/ d.phase = "retryable"
        BY <1>1, <1>4, <1>5, <1>11, <2>1, <2>2 DEF Lose
    <2>3. CASE ~(d = NoResult \/ Differs(q, d) \/ d.phase = "retryable")
        <3>1. d.accepted \in Nat
            BY <2>3, DispatchParts
        <3>2. PICK s \in Stages : s = IF d.phase = "accepted" THEN "completing" ELSE "lost"
            BY DEF Stages
        <3>3. /\ request' = [request EXCEPT ![q].at = s, ![q].seen = d, ![q].sent = d.accepted]
              /\ UNCHANGED <<relay, acked>>
            BY <1>11, <2>1, <2>3, <3>2 DEF Lose
        <3>4. Moved(q, s, d, d.accepted)
            BY <1>1, <3>1, <3>3, Moving
        <3>5. d.phase \in {"dispatching", "accepted"}
            BY <2>3, DispatchParts
        <3>6. Reads(q, s, d, d.accepted)
            BY <2>1, <2>3, <3>2, <3>5 DEF Reads
        <3>7. QED
            BY <1>1, <1>4, <1>5, <3>1, <3>3, <3>4, <3>6
    <2>4. QED
        BY <2>2, <2>3
<1>12. CASE ReadToComplete(q)
    <2>1. PICK d \in {NoResult} \cup Dispatch : d = job[request[q].run].result
        BY <1>3
    <2>2. CASE job[request[q].run].status # "leased"
        <3>1. CASE job[request[q].run].status \in {"complete", "failed"}
            <4>1. Answer(q, TRUE) /\ request[q].at = "completing"
                BY <1>12, <2>2, <3>1 DEF ReadToComplete, Answer
            <4>2. QED
                BY <1>1, <1>4, <1>5, <3>1, <4>1
        <3>2. CASE job[request[q].run].status \notin {"complete", "failed"}
            <4>1. Answer(q, FALSE)
                BY <1>12, <2>2, <3>2 DEF ReadToComplete, Answer
            <4>2. QED
                BY <1>1, <1>4, <1>5, <4>1
        <3>3. QED
            BY <3>1, <3>2
    <2>3. CASE Answer(q, FALSE)
        BY <1>1, <1>4, <1>5, <2>3
    <2>4. CASE /\ request' = [request EXCEPT ![q].at = "finishing", ![q].seen = d]
               /\ UNCHANGED <<relay, acked>>
               /\ job[request[q].run].status = "leased" /\ request[q].at = "completing"
               /\ ~(request[q].print = None /\ d # NoResult /\ request[q].seen = NoResult)
        <3>1. Moved(q, "finishing", d, request[q].sent)
            BY <1>1, <1>2, <2>4, Moving DEF Stages
        <3>2. Reads(q, "finishing", d, request[q].sent)
            BY <2>1, <2>4 DEF Reads
        <3>3. QED
            BY <1>1, <1>2, <1>4, <1>5, <2>4, <3>1, <3>2 DEF Stages
    <2>5. QED
        BY <1>12, <2>1, <2>2, <2>3, <2>4 DEF ReadToComplete
<1>13. CASE RequestEnds(q)
    BY <1>1, <1>4, <1>5, <1>13 DEF RequestEnds
<1>14. QED
    BY <1>6, <1>7, <1>8, <1>9, <1>10, <1>11, <1>12, <1>13 DEF Quiet

-----------------------------------------------------------------------------
(* The shape of a request is kept, and with it the types. *)

Shaped == \A q \in Requests, h \in Handling : request[q] = h => Shape(h.at, h.print, h.seen)

LEMMA ShapedRequest ==
    ASSUME TypeOK, Shaped, NEW q \in Requests, request[q].at # "idle"
    PROVE  Shape(request[q].at, request[q].print, request[q].seen)
BY RequestParts DEF Shaped

LEMMA ShapedMoved ==
    ASSUME TypeOK, Shaped, NEW q \in Requests, request[q].at # "idle", NEW s, NEW d, NEW n,
           Moved(q, s, d, n), Shape(s, request[q].print, d)
    PROVE  Shaped'
<1> SUFFICES ASSUME NEW o \in Requests, NEW h \in Handling, request'[o] = h
             PROVE  Shape(h.at, h.print, h.seen)
    BY DEF Shaped
<1>1. CASE o = q
    BY <1>1, MovedRequests
<1>2. CASE o # q
    BY <1>2, MovedRequests DEF Shaped
<1>3. QED
    BY <1>1, <1>2

LEMMA ShapedAnswered ==
    ASSUME TypeOK, Shaped, NEW q \in Requests, request'[q] = Idle,
           \A o \in Requests \ {q} : request'[o] = request[o]
    PROVE  Shaped'
<1> SUFFICES ASSUME NEW o \in Requests, NEW h \in Handling, request'[o] = h
             PROVE  Shape(h.at, h.print, h.seen)
    BY DEF Shaped
<1>1. h # Idle
    BY HandlingParts
<1>2. QED
    BY <1>1 DEF Shaped

LEMMA Unconfirmed ==
    ASSUME TypeOK, Shaped, NEW q \in Requests, request[q].at # "idle", NEW d \in Dispatch,
           NEW n \in Nat, Confirmed(q, d, n)
    PROVE  Shaped'
<1>1. CASE Moved(q, "completing", request[q].seen, n)
    <2>1. Shape("completing", request[q].print, request[q].seen)
        BY DEF Shape, Dispatching
    <2>2. QED
        BY <1>1, <2>1, ShapedMoved
<1>2. CASE Answer(q, job[request[q].run].status = "complete")
    BY <1>2, Answering, ShapedAnswered
<1>3. QED
    BY <1>1, <1>2, Confirming

\* A request that reads and answers.
LEMMA QuietKeeps ==
    ASSUME TypeOK, Shaped, NEW q \in Requests, Quiet(q)
    PROVE  TypeOK' /\ Shaped'
<1>1. /\ request[q].at # "idle"
      /\ UNCHANGED <<ledger, runner, job, attempts, slot, queue, bodies>>
      /\ faults' \in 0..MaxFaults
      /\ \/ \E ok \in BOOLEAN : Answer(q, ok)
         \/ /\ UNCHANGED <<relay, acked>>
            /\ \E s \in Stages, d \in {NoResult} \cup Dispatch, n \in Nat :
                    Moved(q, s, d, n) /\ Reads(q, s, d, n)
    BY Quietly, ShapedRequest
<1>2. CASE \E ok \in BOOLEAN : Answer(q, ok)
    <2>1. PICK ok \in BOOLEAN : Answer(q, ok)
        BY <1>2
    <2>2. /\ request' \in [Requests -> Handling \cup {Idle}]
          /\ relay' \in [Companions -> Polling] /\ acked' \subseteq Result
          /\ Shaped'
        BY <1>1, <2>1, Answering, ShapedAnswered
    <2>3. QED
        BY <1>1, <2>2, TypedRequests
<1>3. CASE /\ UNCHANGED <<relay, acked>>
           /\ \E s \in Stages, d \in {NoResult} \cup Dispatch, n \in Nat :
                    Moved(q, s, d, n) /\ Reads(q, s, d, n)
    <2>1. PICK s \in Stages, d \in {NoResult} \cup Dispatch, n \in Nat :
                Moved(q, s, d, n) /\ Reads(q, s, d, n)
        BY <1>3
    <2>2. relay' \in [Companions -> Polling] /\ acked' \subseteq Result
        BY <1>3 DEF TypeOK
    <2>3. TypeOK'
        BY <1>1, <2>1, <2>2, MovedRequests, TypedRequests
    <2>4. Shape(s, request[q].print, d)
        <3>1. CASE s = Course(q, d) /\ s # "refused"
            <4>1. /\ s \in {"completing", "beginning", "settling"}
                  /\ s = "beginning" => request[q].print # None /\ (d = NoResult \/ d.phase # "accepted")
                  /\ s = "settling" => d \in Dispatch /\ d.phase = "dispatching"
                BY <1>1, <3>1, CourseIs
            <4>2. QED
                BY <4>1 DEF Shape, Dispatching
        <3>2. CASE s = "marking" /\ d = request[q].seen /\ request[q].at \in {"settling", "lost"}
            BY <1>1, <3>2, ShapedRequest DEF Shape, Dispatching
        <3>3. CASE /\ s = "beginning" /\ d = request[q].seen
                   /\ request[q].at = "settling" /\ request[q].print # None
            BY <1>1, <3>3, ShapedRequest DEF Shape, Dispatching
        <3>4. CASE s = "completing"
            BY <3>4 DEF Shape, Dispatching
        <3>5. CASE s = "lost" /\ d # NoResult /\ d.phase = "dispatching"
            BY <3>5 DEF Shape, Dispatching
        <3>6. CASE s = "finishing"
            BY <3>6 DEF Shape, Dispatching
        <3>7. QED
            BY <2>1, <3>1, <3>2, <3>3, <3>4, <3>5, <3>6 DEF Reads
    <2>5. Shaped'
        BY <1>1, <2>1, <2>4, ShapedMoved
    <2>6. QED
        BY <2>3, <2>5
<1>4. QED
    BY <1>1, <1>2, <1>3

\* The steps that change more than their own request.
Changing(q) ==
    \/ Mark(q) \/ Accept(q) \/ Withdraw(q) \/ Begin(q) \/ Send(q) \/ SendThrows(q)
    \/ Revise(q) \/ Replay(q) \/ Finish(q)

\* What a step of the endpoint does to the attempts of the record.
LEMMA BeginIs ==
    ASSUME TypeOK, NEW q \in Requests, Begin(q), Owned(q),
           request[q].at # "idle" => Shape(request[q].at, request[q].print, request[q].seen)
    PROVE  \E d \in Dispatch, s \in {"accepting", "sending"} :
               /\ d.phase = "dispatching" /\ d.print = request[q].print /\ d.attempt = attempts
               /\ d.accepted = 0
               /\ s = "accepting" => Count[d.print] = 0
               /\ Noted(request[q].run, "leased", d)
               /\ Written(request[q].run, "queued", Count[d.print], d.print \in PartialPrints,
                          run[request[q].run].accounted)
               /\ Moved(q, s, d, 0)
               /\ attempts' = attempts + 1
               /\ UNCHANGED <<receipts, health, runner, relay, acked, slot, queue, bodies, faults>>
<1>1. /\ request[q].at = "beginning" /\ request[q].at # "idle"
      /\ UNCHANGED <<receipts, health, runner, relay, acked, slot, queue, bodies, faults>>
      /\ attempts' = attempts + 1
    BY DEF Begin
<1>2. /\ request[q].run \in Runs /\ request[q].print \in Prints
    BY <1>1, RequestParts, HandlingParts DEF Shape
<1>3. PICK d \in Dispatch : d = Attempt(q)
    BY <1>2 DEF Attempt, Dispatch, TypeOK
<1>4. /\ d.phase = "dispatching" /\ d.print = request[q].print /\ d.attempt = attempts
      /\ d.accepted = 0
    BY <1>3 DEF Attempt
<1>5. Count[d.print] \in Nat /\ (d.print \in PartialPrints) \in BOOLEAN
    BY <1>2, <1>4, CompanionAssumption
<1>6. job' = [job EXCEPT ![request[q].run].result = d]
    BY <1>3 DEF Begin
<1>7. job[request[q].run].status = "leased"
    BY DEF Owned
<1>8. Noted(request[q].run, "leased", d)
    BY <1>2, <1>6, <1>7, JobParts, Noting
<1>9. PICK b \in BOOLEAN : b = (d.print \in PartialPrints)
    BY <1>5
<1>10. run' = [run EXCEPT ![request[q].run].status = "queued",
                          ![request[q].run].enqueued = Count[d.print],
                          ![request[q].run].partial = b]
    BY <1>4, <1>9 DEF Begin
<1>11. Written(request[q].run, "queued", Count[d.print], b, run[request[q].run].accounted)
    <2>1. "queued" \in Statuses
        BY DEF Statuses
    <2>2. PICK n \in Nat : n = Count[d.print]
        BY <1>5
    <2>3. run' = [run EXCEPT ![request[q].run].status = "queued",
                             ![request[q].run].enqueued = n, ![request[q].run].partial = b]
        BY <1>10, <2>2
    <2>4. Written(request[q].run, "queued", n, b, run[request[q].run].accounted)
        <3>1. PICK r \in Runs : r = request[q].run
            BY <1>2
        <3>2. run' = [run EXCEPT ![r].status = "queued", ![r].enqueued = n, ![r].partial = b]
            BY <2>3, <3>1
        <3>3. Written(r, "queued", n, b, run[r].accounted)
            BY <2>1, <3>2, Writing
        <3>4. QED
            BY <3>1, <3>3
    <2>5. QED
        BY <2>2, <2>4
<1>12. PICK s \in {"accepting", "sending"} :
            s = IF Count[d.print] = 0 THEN "accepting" ELSE "sending"
    OBVIOUS
<1>13. request' = [request EXCEPT ![q].at = s, ![q].seen = d, ![q].sent = 0]
    BY <1>3, <1>4, <1>12 DEF Begin
<1>14. Moved(q, s, d, 0)
    BY <1>1, <1>13, Moving DEF Stages
<1>15. QED
    BY <1>1, <1>4, <1>8, <1>9, <1>11, <1>12, <1>14

LEMMA SendIs ==
    ASSUME TypeOK, NEW q \in Requests, Send(q) \/ SendThrows(q),
           request[q].at # "idle" => Shape(request[q].at, request[q].print, request[q].seen)
    PROVE  \E m \in Message :
               /\ m.run = request[q].run /\ m.item = request[q].sent
               /\ request[q].at = "sending"
               /\ UNCHANGED <<ledger, runner, job, attempts, local>>
               /\ faults' \in 0..MaxFaults
               /\ queue' \subseteq bodies' /\ bodies' \subseteq Message /\ IsFiniteSet(bodies')
               /\ \/ /\ bodies' = bodies \cup {m}
                     /\ \E s \in {"accepting", "sending"} :
                           /\ Moved(q, s, request[q].seen, request[q].sent + 1)
                           /\ s = "accepting" => request[q].sent + 1 = Count[request[q].print]
                  \/ /\ bodies' \in {bodies, bodies \cup {m}}
                     /\ \E s \in {"withdrawing", "revising"} :
                           Moved(q, s, request[q].seen, request[q].sent)
<1>1. request[q].at = "sending" /\ request[q].at # "idle"
    BY DEF Send, SendThrows
<1>2. request[q].print # None
    BY <1>1 DEF Shape
<1>3. PICK m \in Message : m = Item(q, request[q].sent)
    BY <1>1, <1>2, ItemIs
<1>4. m.run = request[q].run /\ m.item = request[q].sent
    BY <1>3 DEF Item
<1>5. request[q].sent \in Nat /\ request[q].seen \in {NoResult} \cup Dispatch
    BY <1>1, RequestParts, HandlingParts
<1>6. queue \subseteq bodies /\ bodies \subseteq Message /\ IsFiniteSet(bodies)
    BY DEF TypeOK
<1>7. CASE Send(q)
    <2>1. PICK s \in {"accepting", "sending"} :
            s = IF request[q].sent + 1 = Count[request[q].print] THEN "accepting" ELSE "sending"
        OBVIOUS
    <2>2. request' = [request EXCEPT ![q].sent = request[q].sent + 1, ![q].at = s]
        <3>1. request \in [Requests -> Handling \cup {Idle}] /\ request[q] \in Handling
            BY <1>1, RequestParts DEF TypeOK
        <3>2. request' = [request EXCEPT ![q].sent = request[q].sent + 1,
                             ![q].at = IF request[q].sent + 1 = Count[request[q].print]
                                       THEN "accepting" ELSE @]
            BY <1>7 DEF Send
        <3>3. [request[q] EXCEPT !.sent = request[q].sent + 1].at = "sending"
            BY <1>1, <3>1 DEF Handling
        <3>4. QED
            BY <1>1, <2>1, <3>1, <3>2, <3>3
    <2>3. Moved(q, s, request[q].seen, request[q].sent + 1)
        <3>1. PICK n \in Nat : n = request[q].sent + 1
            BY <1>5
        <3>2. s \in Stages
            BY DEF Stages
        <3>3. QED
            BY <1>1, <1>5, <2>2, <3>1, <3>2, Moving
    <2>4. Enter(m)
        BY <1>3, <1>7 DEF Send
    <2>5. /\ bodies' = bodies \cup {m}
          /\ queue' \subseteq bodies' /\ bodies' \subseteq Message /\ IsFiniteSet(bodies')
        BY <2>4, Entering DEF Enter
    <2>6. UNCHANGED <<ledger, runner, job, attempts, local>> /\ faults' \in 0..MaxFaults
        BY <1>7, Faults DEF Send
    <2>7. QED
        BY <1>1, <1>4, <2>1, <2>3, <2>5, <2>6
<1>8. CASE SendThrows(q)
    <2>1. PICK s \in {"withdrawing", "revising"} :
            s = IF request[q].sent = 0 THEN "withdrawing" ELSE "revising"
        OBVIOUS
    <2>2. Moved(q, s, request[q].seen, request[q].sent)
        BY <1>1, <1>5, <1>8, <2>1, Moving DEF SendThrows, Goto, Stages
    <2>3. UNCHANGED <<queue, bodies>> \/ Enter(m)
        BY <1>3, <1>8 DEF SendThrows
    <2>4. /\ bodies' \in {bodies, bodies \cup {m}}
          /\ queue' \subseteq bodies' /\ bodies' \subseteq Message /\ IsFiniteSet(bodies')
        BY <1>6, <2>3, Entering DEF Enter
    <2>5. UNCHANGED <<ledger, runner, job, attempts, local>> /\ faults' \in 0..MaxFaults
        BY <1>8, Faults DEF SendThrows
    <2>6. QED
        BY <1>1, <1>4, <2>2, <2>4, <2>5
<1>9. QED
    BY <1>7, <1>8

LEMMA ReviseIs ==
    ASSUME TypeOK, NEW q \in Requests, Revise(q)
    PROVE  /\ request[q].at = "revising"
           /\ Moved(q, "replaying", request[q].seen, request[q].sent)
           /\ UNCHANGED <<receipts, health, runner, job, attempts, local, queue, bodies, faults>>
           /\ run' \in [Runs -> RunRow]
           /\ \/ /\ run[request[q].run].status = "queued"
                 /\ Written(request[q].run, "queued", request[q].sent, TRUE,
                            run[request[q].run].accounted)
              \/ run[request[q].run].status # "queued" /\ run' = run
<1>1. /\ request[q].at = "revising" /\ request[q].at # "idle"
      /\ UNCHANGED <<receipts, health, runner, job, attempts, local, queue, bodies, faults>>
    BY DEF Revise
<1>2. /\ request[q].run \in Runs /\ request[q].sent \in Nat
      /\ request[q].seen \in {NoResult} \cup Dispatch
    BY <1>1, RequestParts, HandlingParts
<1>3. Moved(q, "replaying", request[q].seen, request[q].sent)
    BY <1>1, <1>2, Moving DEF Revise, Goto, Stages
<1>4. CASE run[request[q].run].status = "queued"
    <2>1. run' = [run EXCEPT ![request[q].run].enqueued = request[q].sent,
                             ![request[q].run].partial = TRUE]
        BY <1>4 DEF Revise
    <2>2. Written(request[q].run, "queued", request[q].sent, TRUE, run[request[q].run].accounted)
        BY <1>2, <1>4, <2>1, RunParts, Writing, ZenonT(60)
    <2>3. QED
        BY <1>1, <1>2, <1>3, <1>4, <2>2, WrittenRuns
<1>5. CASE run[request[q].run].status # "queued"
    BY <1>1, <1>3, <1>5 DEF Revise, TypeOK
<1>6. QED
    BY <1>4, <1>5

LEMMA FinishIs ==
    ASSUME TypeOK, NEW q \in Requests, Finish(q)
    PROVE  LET r == request[q].run
               d == request[q].seen
               wins == job[r].status = "leased" /\ job[r].result = d
           IN /\ request[q].at = "finishing" /\ r \in Runs
              /\ Answer(q, TRUE)
              /\ UNCHANGED <<receipts, runner, attempts, slot, queue, bodies, faults>>
              /\ run' \in [Runs -> RunRow] /\ health' \in [Runs -> Nat] /\ job' \in [Runs -> JobRow]
              /\ ~wins => job' = job
              /\ wins /\ d = NoResult => Noted(r, "failed", NoResult)
              /\ wins /\ d # NoResult => Noted(r, "complete", [d EXCEPT !.accepted = request[q].sent])
              /\ \/ UNCHANGED <<run, health>>
                 \/ /\ wins /\ Open(r)
                    /\ \E s \in Ended : Written(r, s, 0, run[r].partial, TRUE)
                    /\ health' = [health EXCEPT ![r] = @ + 1]
<1> DEFINE r == request[q].run
           d == request[q].seen
           wins == job[r].status = "leased" /\ job[r].result = d
<1>1. /\ request[q].at = "finishing" /\ request[q].at # "idle"
      /\ Answer(q, TRUE)
      /\ UNCHANGED <<receipts, runner, attempts, slot, queue, bodies, faults>>
    BY DEF Finish
<1>2. /\ r \in Runs /\ d \in {NoResult} \cup Dispatch /\ request[q].sent \in Nat
    BY <1>1, RequestParts, HandlingParts
<1>3. /\ run \in [Runs -> RunRow] /\ health \in [Runs -> Nat] /\ job \in [Runs -> JobRow]
    BY DEF TypeOK
<1>4. /\ ~wins => job' = job
      /\ wins /\ d = NoResult => Noted(r, "failed", NoResult)
      /\ wins /\ d # NoResult => Noted(r, "complete", [d EXCEPT !.accepted = request[q].sent])
      /\ job' \in [Runs -> JobRow]
    <2>1. CASE ~wins
        BY <1>3, <2>1 DEF Finish
    <2>2. CASE wins /\ d = NoResult
        <3>1. job' = [job EXCEPT ![r].status = "failed"]
            BY <2>2 DEF Finish
        <3>2. Noted(r, "failed", NoResult)
            BY <1>2, <2>2, <3>1, Noting
        <3>3. QED
            BY <1>2, <2>2, <3>2, NotedJobs
    <2>3. CASE wins /\ d # NoResult
        <3>1. job' = [job EXCEPT ![r].status = "complete", ![r].result.accepted = request[q].sent]
            BY <2>3 DEF Finish
        <3>2. Noted(r, "complete", [d EXCEPT !.accepted = request[q].sent])
            BY <1>2, <2>3, <3>1, Completing
        <3>3. QED
            BY <1>2, <2>3, <3>2, NotedJobs
    <2>4. QED
        BY <2>1, <2>2, <2>3
<1>5. /\ run' \in [Runs -> RunRow] /\ health' \in [Runs -> Nat]
      /\ \/ UNCHANGED <<run, health>>
         \/ /\ wins /\ Open(r)
            /\ \E s \in Ended : Written(r, s, 0, run[r].partial, TRUE)
            /\ health' = [health EXCEPT ![r] = @ + 1]
    <2>1. CASE ~(wins /\ request[q].sent = 0 /\ Open(r))
        BY <1>3, <2>1 DEF Finish
    <2>2. CASE wins /\ request[q].sent = 0 /\ Open(r)
        <3>1. PICK s \in Ended : s = IF d = NoResult THEN "failed"
                                     ELSE IF d.print \in PartialPrints THEN "partial" ELSE "success"
            BY DEF Ended
        <3>2. /\ run' = [run EXCEPT ![r].status = s, ![r].enqueued = 0, ![r].accounted = TRUE]
              /\ health' = [health EXCEPT ![r] = @ + 1]
            BY <2>2, <3>1 DEF Finish
        <3>3. Written(r, s, 0, run[r].partial, TRUE)
            BY <1>2, <3>1, <3>2, RunParts, Writing DEF Statuses
        <3>4. run' \in [Runs -> RunRow]
            BY <1>2, <3>3, WrittenRuns
        <3>5. health' \in [Runs -> Nat]
            BY <1>2, <1>3, <3>2
        <3>6. QED
            BY <2>2, <3>2, <3>3, <3>4, <3>5
    <2>3. QED
        BY <2>1, <2>2
<1>6. QED
    BY <1>1, <1>2, <1>4, <1>5

LEMMA ShapedSame ==
    ASSUME Shaped, request' = request
    PROVE  Shaped'
BY DEF Shaped

LEMMA ConfirmIs ==
    ASSUME TypeOK, Shaped, NEW q \in Requests, Mark(q) \/ Accept(q)
    PROVE  LET r == request[q].run
               d == request[q].seen
           IN /\ request[q].at \in {"marking", "accepting"} /\ r \in Runs
              /\ d \in Dispatch /\ d.phase = "dispatching" /\ request[q].sent \in Nat
              /\ SetPhase(q, d, "accepted", request[q].sent)
              /\ UNCHANGED <<ledger, runner, attempts, slot, queue, bodies, faults>>
              /\ \E n \in Nat : /\ Confirmed(q, d, n)
                                /\ n = request[q].sent \/ n = Accepted(job'[r].result)
              /\ job' \in [Runs -> JobRow]
<1>1. /\ request[q].at \in {"marking", "accepting"} /\ request[q].at # "idle"
      /\ SetPhase(q, request[q].seen, "accepted", request[q].sent)
      /\ UNCHANGED <<ledger, runner, attempts, slot, queue, bodies, faults>>
    BY DEF Mark, Accept
<1>2. /\ request[q].run \in Runs /\ request[q].sent \in Nat
      /\ request[q].seen \in Dispatch /\ request[q].seen.phase = "dispatching"
    BY <1>1, RequestParts, HandlingParts, ShapedRequest DEF Shape, Dispatching
<1>3. job' \in [Runs -> JobRow]
    BY <1>1, <1>2, Phased
<1>4. \E n \in Nat : /\ Confirmed(q, request[q].seen, n)
                     /\ n = request[q].sent \/ n = Accepted(job'[request[q].run].result)
    <2>1. CASE Mark(q)
        <3>1. job'[request[q].run].result \in {NoResult} \cup Dispatch
            BY <1>2, <1>3 DEF JobRow
        <3>2. PICK n \in Nat : n = Accepted(job'[request[q].run].result)
            BY <3>1, DispatchParts DEF Accepted
        <3>3. QED
            BY <2>1, <3>2 DEF Mark
    <2>2. CASE Accept(q)
        BY <1>2, <2>2 DEF Accept
    <2>3. QED
        BY <2>1, <2>2
<1>5. QED
    BY <1>1, <1>2, <1>3, <1>4

LEMMA WithdrawIs ==
    ASSUME TypeOK, Shaped, NEW q \in Requests, Withdraw(q)
    PROVE  LET d == request[q].seen
           IN /\ request[q].at = "withdrawing" /\ request[q].run \in Runs
              /\ d \in Dispatch /\ d.phase = "dispatching"
              /\ SetPhase(q, d, "retryable", 0)
              /\ Answer(q, FALSE)
              /\ UNCHANGED <<ledger, runner, attempts, slot, queue, bodies, faults>>
              /\ job' \in [Runs -> JobRow]
<1>1. /\ request[q].at = "withdrawing" /\ request[q].at # "idle"
      /\ SetPhase(q, request[q].seen, "retryable", 0) /\ Answer(q, FALSE)
      /\ UNCHANGED <<ledger, runner, attempts, slot, queue, bodies, faults>>
    BY DEF Withdraw
<1>2. /\ request[q].run \in Runs
      /\ request[q].seen \in Dispatch /\ request[q].seen.phase = "dispatching"
    BY <1>1, RequestParts, HandlingParts, ShapedRequest DEF Shape, Dispatching
<1>3. job' \in [Runs -> JobRow]
    BY <1>1, <1>2, Phased
<1>4. QED
    BY <1>1, <1>2, <1>3

LEMMA ReplayIs ==
    ASSUME TypeOK, NEW q \in Requests, Replay(q)
    PROVE  /\ request[q].at = "replaying" /\ request[q].run \in Runs
           /\ Aggregate(request[q].run, receipts[request[q].run])
           /\ Moved(q, "accepting", request[q].seen, request[q].sent)
           /\ UNCHANGED <<receipts, runner, job, attempts, local, queue, bodies, faults>>
<1>1. /\ request[q].at = "replaying" /\ request[q].at # "idle"
      /\ Aggregate(request[q].run, receipts[request[q].run])
      /\ UNCHANGED <<receipts, runner, job, attempts, local, queue, bodies, faults>>
    BY DEF Replay
<1>2. /\ request[q].run \in Runs /\ request[q].sent \in Nat
      /\ request[q].seen \in {NoResult} \cup Dispatch
    BY <1>1, RequestParts, HandlingParts
<1>3. Moved(q, "accepting", request[q].seen, request[q].sent)
    BY <1>1, <1>2, Moving DEF Replay, Goto, Stages
<1>4. QED
    BY <1>1, <1>2, <1>3

LEMMA ChangingKeeps ==
    ASSUME TypeOK, Shaped, NEW q \in Requests, Changing(q)
    PROVE  TypeOK' /\ Shaped'
<1>1. request[q].at # "idle"
    BY DEF Changing, Mark, Accept, Withdraw, Begin, Send, SendThrows, Revise, Replay, Finish
<1>2. /\ Shape(request[q].at, request[q].print, request[q].seen)
      /\ request[q].run \in Runs /\ request[q].seen \in {NoResult} \cup Dispatch
      /\ request[q].sent \in Nat
    BY <1>1, ShapedRequest, RequestParts, HandlingParts
<1>3. CASE Mark(q) \/ Accept(q)
    <2>1. PICK d \in Dispatch : d = request[q].seen
        BY <1>3, ConfirmIs
    <2>2. PICK n \in Nat : Confirmed(q, d, n)
        BY <1>3, <2>1, ConfirmIs
    <2>3. /\ request' \in [Requests -> Handling \cup {Idle}]
          /\ relay' \in [Companions -> Polling] /\ acked' \subseteq Result
          /\ Shaped'
        BY <1>1, <2>2, Confirming, Unconfirmed
    <2>4. job' \in [Runs -> JobRow] /\ UNCHANGED <<ledger, runner, attempts, slot, queue, bodies, faults>>
        BY <1>3, ConfirmIs
    <2>5. TypeOK'
        BY <2>3, <2>4 DEF TypeOK, ledger
    <2>6. QED
        BY <2>3, <2>5
<1>4. CASE Withdraw(q)
    <2>1. /\ Answer(q, FALSE) /\ job' \in [Runs -> JobRow]
          /\ UNCHANGED <<ledger, runner, attempts, slot, queue, bodies, faults>>
        BY <1>4, WithdrawIs
    <2>2. /\ request' \in [Requests -> Handling \cup {Idle}]
          /\ relay' \in [Companions -> Polling] /\ acked' \subseteq Result
          /\ Shaped'
        BY <1>1, <2>1, Answering, ShapedAnswered
    <2>3. TypeOK'
        BY <2>1, <2>2 DEF TypeOK, ledger
    <2>4. QED
        BY <2>2, <2>3
<1>5. CASE Begin(q)
    <2>1. CASE Owned(q)
        <3>1. PICK d \in Dispatch, s \in {"accepting", "sending"} :
               /\ d.phase = "dispatching" /\ d.print = request[q].print /\ d.attempt = attempts
               /\ s = "accepting" => Count[d.print] = 0
               /\ Noted(request[q].run, "leased", d)
               /\ Written(request[q].run, "queued", Count[d.print], d.print \in PartialPrints,
                          run[request[q].run].accounted)
               /\ Moved(q, s, d, 0)
               /\ attempts' = attempts + 1
               /\ UNCHANGED <<receipts, health, runner, relay, acked, slot, queue, bodies, faults>>
            BY <1>2, <1>5, <2>1, BeginIs
        <3>2. job' \in [Runs -> JobRow] /\ run' \in [Runs -> RunRow]
            BY <1>2, <3>1, NotedJobs, WrittenRuns
        <3>3. request' \in [Requests -> Handling \cup {Idle}]
            BY <3>1, MovedRequests
        <3>4. TypeOK'
            BY <3>1, <3>2, <3>3 DEF TypeOK
        <3>5. request[q].at = "beginning"
            BY <1>5 DEF Begin
        <3>6. Shape(s, request[q].print, d)
            BY <1>2, <3>1, <3>5 DEF Shape, Dispatching
        <3>7. QED
            BY <1>1, <3>1, <3>4, <3>6, ShapedMoved
    <2>2. CASE ~Owned(q)
        <3>1. Moved(q, "losing", request[q].seen, request[q].sent)
            BY <1>1, <1>2, <1>5, <2>2, Moving DEF Begin, Goto, Stages
        <3>2. UNCHANGED <<ledger, job, attempts, runner, relay, acked, slot, queue, bodies, faults>>
            BY <1>5, <2>2 DEF Begin, ledger
        <3>3. TypeOK'
            BY <3>1, <3>2, MovedRequests DEF TypeOK, ledger
        <3>4. request[q].at = "beginning"
            BY <1>5 DEF Begin
        <3>5. Shape("losing", request[q].print, request[q].seen)
            BY <1>2, <3>4 DEF Shape, Dispatching
        <3>6. QED
            BY <1>1, <3>1, <3>3, <3>5, ShapedMoved
    <2>3. QED
        BY <2>1, <2>2
<1>6. CASE Send(q) \/ SendThrows(q)
    <2>1. /\ request[q].at = "sending"
          /\ UNCHANGED <<ledger, runner, job, attempts, local>> /\ faults' \in 0..MaxFaults
          /\ queue' \subseteq bodies' /\ bodies' \subseteq Message /\ IsFiniteSet(bodies')
          /\ \E s \in {"accepting", "sending", "withdrawing", "revising"}, n \in Nat :
                Moved(q, s, request[q].seen, n)
        <3>1. request[q].sent + 1 \in Nat
            BY <1>2
        <3>2. QED
            BY <1>2, <1>6, <3>1, SendIs
    <2>2. PICK s \in {"accepting", "sending", "withdrawing", "revising"}, n \in Nat :
                Moved(q, s, request[q].seen, n)
        BY <2>1
    <2>3. TypeOK'
        BY <2>1, <2>2, MovedRequests DEF TypeOK, ledger, local
    <2>4. Shape(s, request[q].print, request[q].seen)
        BY <1>2, <2>1 DEF Shape, Dispatching
    <2>5. QED
        BY <1>1, <2>2, <2>3, <2>4, ShapedMoved
<1>7. CASE Revise(q)
    <2>1. /\ request[q].at = "revising"
          /\ Moved(q, "replaying", request[q].seen, request[q].sent)
          /\ UNCHANGED <<receipts, health, runner, job, attempts, local, queue, bodies, faults>>
          /\ run' \in [Runs -> RunRow]
        BY <1>7, ReviseIs
    <2>2. TypeOK'
        BY <2>1, MovedRequests DEF TypeOK, local
    <2>3. Shape("replaying", request[q].print, request[q].seen)
        BY <1>2, <2>1 DEF Shape, Dispatching
    <2>4. QED
        BY <1>1, <2>1, <2>2, <2>3, ShapedMoved
<1>8. CASE Replay(q)
    <2>1. /\ request[q].at = "replaying"
          /\ Moved(q, "accepting", request[q].seen, request[q].sent)
          /\ Aggregate(request[q].run, receipts[request[q].run])
          /\ UNCHANGED <<receipts, runner, job, attempts, local, queue, bodies, faults>>
        BY <1>8, ReplayIs
    <2>2. run' \in [Runs -> RunRow] /\ health' \in [Runs -> Nat]
        BY <1>2, <2>1, Aggregating
    <2>3. TypeOK'
        BY <2>1, <2>2, MovedRequests DEF TypeOK, local
    <2>4. Shape("accepting", request[q].print, request[q].seen)
        BY <1>2, <2>1 DEF Shape, Dispatching
    <2>5. QED
        BY <1>1, <2>1, <2>3, <2>4, ShapedMoved
<1>9. CASE Finish(q)
    <2>1. /\ Answer(q, TRUE)
          /\ UNCHANGED <<receipts, runner, attempts, slot, queue, bodies, faults>>
          /\ run' \in [Runs -> RunRow] /\ health' \in [Runs -> Nat] /\ job' \in [Runs -> JobRow]
        BY <1>9, FinishIs
    <2>2. /\ request' \in [Requests -> Handling \cup {Idle}]
          /\ relay' \in [Companions -> Polling] /\ acked' \subseteq Result
          /\ Shaped'
        BY <1>1, <2>1, Answering, ShapedAnswered
    <2>3. TypeOK'
        BY <2>1, <2>2 DEF TypeOK
    <2>4. QED
        BY <2>2, <2>3
<1>10. QED
    BY <1>3, <1>4, <1>5, <1>6, <1>7, <1>8, <1>9 DEF Changing

LEMMA TypeInit == Init => TypeOK /\ Shaped
<1> SUFFICES ASSUME Init PROVE TypeOK /\ Shaped
    OBVIOUS
<1>1. \A q \in Requests : request[q] = Idle
    BY DEF Init
<1>2. Shaped
    BY <1>1, HandlingParts DEF Shaped
<1>3. /\ run \in [Runs -> RunRow] /\ receipts \in [Runs -> Receipts] /\ health \in [Runs -> Nat]
      /\ job \in [Runs -> JobRow]
    BY DEF Init, RunRow, Receipts, JobRow
<1>4. /\ relay \in [Companions -> Polling] /\ request \in [Requests -> Handling \cup {Idle}]
      /\ slot \in {None} \cup Result
    BY DEF Init, Polling
<1>5. runner \in [Runs -> [at : {"new", "looking", "inserting", "raced", "joining",
                                  "handing", "failing", "done"},
                            canonical : Runs \cup {None}]]
    BY DEF Init
<1>6. /\ queue \subseteq bodies /\ bodies \subseteq Message /\ IsFiniteSet(bodies)
      /\ acked \subseteq Result /\ attempts \in Nat /\ faults \in 0..MaxFaults
    BY FS_EmptySet, CompanionAssumption DEF Init
<1>7. QED
    BY <1>2, <1>3, <1>4, <1>5, <1>6 DEF TypeOK

\* The steps of the specification, by what they may change.
LEMMA Steps ==
    ASSUME TypeOK, Next
    PROVE  \/ \E r \in Runs : Producing(r)
           \/ \E p \in Companions : Companion(p) \/ Abandon(p)
           \/ \E q \in Requests : Quiet(q) \/ Changing(q)
           \/ \E m \in queue : Consume(m) \/ Exhaust(m)
BY DEF Next, Endpoint, Quiet, Changing, Producing

LEMMA TypeNext ==
    ASSUME TypeOK, Shaped, [Next]_vars
    PROVE  TypeOK' /\ Shaped'
<1>1. ASSUME NEW r \in Runs, Producing(r)
      PROVE  TypeOK' /\ Shaped'
    BY <1>1, TypeRunSource, RunnerTyped, ShapedSame
<1>2. ASSUME NEW p \in Companions, Companion(p) \/ Abandon(p)
      PROVE  TypeOK' /\ Shaped'
    <2>1. TypeOK'
        BY <1>2, TypeCompanion
    <2>2. CASE Submit(p)
        <3>1. PICK q \in Requests : request' = [request EXCEPT ![q] = Arrived(p)]
            BY <2>2 DEF Submit
        <3>2. Shape("arrived", Arrived(p).print, Arrived(p).seen)
            BY DEF Shape, Dispatching
        <3>3. Arrived(p).at = "arrived"
            BY DEF Arrived
        <3>4. QED
            BY <2>1, <3>1, <3>2, <3>3 DEF Shaped, TypeOK
    <2>3. CASE Abandon(p)
        <3>1. request' = [q \in Requests |->
                        IF request[q].at # "idle" /\ request[q].from = p
                        THEN [request[q] EXCEPT !.from = None] ELSE request[q]]
            BY <2>3 DEF Abandon
        <3> SUFFICES ASSUME NEW o \in Requests, NEW h \in Handling, request'[o] = h
                     PROVE  Shape(h.at, h.print, h.seen)
            BY <2>1 DEF Shaped
        <3>2. CASE request[o].at # "idle"
            <4>1. request[o] \in Handling
                BY <3>2, RequestParts
            <4>2. h.at = request[o].at /\ h.print = request[o].print /\ h.seen = request[o].seen
                BY <3>1, <4>1 DEF Handling
            <4>3. QED
                BY <3>2, <4>2, ShapedRequest
        <3>3. CASE request[o].at = "idle"
            BY <3>1, <3>3, HandlingParts
        <3>4. QED
            BY <3>2, <3>3
    <2>4. CASE ~Submit(p) /\ ~Abandon(p)
        <3>1. request' = request
            BY <1>2, <2>4 DEF Companion, ReadOutbox, Poll, PollNothing, Execute, ExecuteFails,
                              ClearSlot, server
        <3>2. QED
            BY <2>1, <3>1, ShapedSame
    <2>5. QED
        BY <2>2, <2>3, <2>4
<1>3. ASSUME NEW q \in Requests, Quiet(q) \/ Changing(q)
      PROVE  TypeOK' /\ Shaped'
    BY <1>3, QuietKeeps, ChangingKeeps
<1>4. ASSUME NEW m \in queue, Consume(m) \/ Exhaust(m)
      PROVE  TypeOK' /\ Shaped'
    <2>1. request' = request
        BY <1>4 DEF Consume, Exhaust, server
    <2>2. QED
        BY <1>4, <2>1, TypeConsumer, ShapedSame
<1>5. CASE UNCHANGED vars
    <2>1. request' = request
        BY <1>5 DEF vars, server
    <2>2. TypeOK'
        BY <1>5 DEF TypeOK, vars, ledger, server, local
    <2>3. QED
        BY <2>1, <2>2, ShapedSame
<1>6. QED
    BY <1>1, <1>2, <1>3, <1>4, <1>5, Steps

\* The types, for every number of runs, Companions, requests and results.
THEOREM TypeCorrect == Spec => []TypeOK
<1>1. TypeOK /\ Shaped /\ [Next]_vars => (TypeOK /\ Shaped)'
    BY TypeNext
<1>2. QED
    BY <1>1, TypeInit, PTL DEF Spec

-----------------------------------------------------------------------------
(* Nobody knows a run whose runSource has not returned, when no job is       *)
(* claimed before that.                                                      *)

Done(r) == runner[r].at = "done"

Placed ==
    /\ \A r \in Runs : Done(r) \/ job[r].status \in {"none", "queued"}
    /\ slot # None => Done(slot.run)
    /\ \A p \in Companions :
          /\ relay[p].at = "working" => Done(relay[p].run)
          /\ relay[p].at \in {"submitting", "waiting", "accepted"} => Done(relay[p].result.run)
    /\ \A q \in Requests : request[q].at # "idle" => Done(request[q].run)
    /\ \A m \in bodies : Done(m.run)

\* A step that leaves the runners alone, and lets nobody know of another run.
LEMMA PlacedKept ==
    ASSUME Placed, UNCHANGED runner,
           \A r \in Runs : Done(r) \/ job'[r] = job[r],
           slot' \in {slot, None} \/ Done(slot'.run),
           \A p \in Companions :
              \/ relay'[p] = relay[p]
              \/ relay'[p].at \in {"idle", "polling"}
              \/ relay'[p].at = "working" /\ Done(relay'[p].run)
              \/ relay'[p].at \in {"submitting", "waiting", "accepted"} /\ Done(relay'[p].result.run),
           \A q \in Requests : \/ request'[q].at = "idle"
                               \/ request[q].at # "idle" /\ request'[q].run = request[q].run
                               \/ Done(request'[q].run),
           \A m \in bodies' : m \in bodies \/ Done(m.run)
    PROVE  Placed'
<1>1. \A r : Done(r)' <=> Done(r)
    BY DEF Done
<1>2. \A r \in Runs : Done(r)' \/ job'[r].status \in {"none", "queued"}
    BY <1>1 DEF Placed
<1>3. (slot # None => Done(slot.run))'
    BY DEF Placed, Done
<1>4. ASSUME NEW p \in Companions
      PROVE  (/\ relay[p].at = "working" => Done(relay[p].run)
              /\ relay[p].at \in {"submitting", "waiting", "accepted"}
                    => Done(relay[p].result.run))'
    BY DEF Placed, Done
<1>5. ASSUME NEW q \in Requests
      PROVE  (request[q].at # "idle" => Done(request[q].run))'
    BY DEF Placed, Done
<1>6. \A m \in bodies' : Done(m.run)'
    BY <1>1 DEF Placed
<1>7. QED
    BY <1>2, <1>3, <1>4, <1>5, <1>6 DEF Placed

\* An answer tells the Companion that waits for it of no other run.
LEMMA PlacedAnswered ==
    ASSUME TypeOK, Placed, NEW q \in Requests, request[q].at # "idle",
           NEW ok \in BOOLEAN, Answer(q, ok),
           UNCHANGED <<runner, slot, bodies>>,
           \A r \in Runs : r = request[q].run \/ job'[r] = job[r]
    PROVE  Placed'
<1>1. Done(request[q].run)
    BY DEF Placed
<1>2. /\ request'[q] = Idle /\ \A o \in Requests \ {q} : request'[o] = request[o]
    BY Answering
<1>3. Idle.at = "idle"
    BY DEF Idle
<1>4. \A o \in Requests : \/ request'[o].at = "idle"
                          \/ request[o].at # "idle" /\ request'[o].run = request[o].run
                          \/ Done(request'[o].run)
    BY <1>2, <1>3
<1>5. \A p \in Companions :
         \/ relay'[p] = relay[p]
         \/ relay'[p].at = "idle"
         \/ relay'[p].at = "accepted" /\ Done(relay'[p].result.run)
    <2>1. relay \in [Companions -> Polling]
        BY DEF TypeOK
    <2>2. Taken(q).run = request[q].run
        BY DEF Taken
    <2>3. \A p \in Companions : \/ relay'[p] = relay[p] \/ relay'[p] = Idle
                                \/ relay'[p] = [at |-> "accepted", result |-> Taken(q)]
        BY <2>1 DEF Answer
    <2>4. QED
        BY <1>1, <1>3, <2>2, <2>3
<1>6. \A r \in Runs : Done(r) \/ job'[r] = job[r]
    BY <1>1
<1>7. slot' \in {slot, None} /\ \A m \in bodies' : m \in bodies
    OBVIOUS
<1>8. QED
    BY <1>4, <1>5, <1>6, <1>7, PlacedKept

LEMMA PlacedMoved ==
    ASSUME TypeOK, Placed, NEW q \in Requests, request[q].at # "idle",
           NEW s, NEW d, NEW n, Moved(q, s, d, n),
           UNCHANGED <<runner, slot, relay>>,
           \A m \in bodies' : m \in bodies \/ m.run = request[q].run,
           \A r \in Runs : r = request[q].run \/ job'[r] = job[r]
    PROVE  Placed'
<1>1. Done(request[q].run)
    BY DEF Placed
<1>2. /\ request'[q].run = request[q].run
      /\ \A o \in Requests \ {q} : request'[o] = request[o]
    BY MovedRequests
<1>3. \A o \in Requests : \/ request'[o].at = "idle"
                          \/ request[o].at # "idle" /\ request'[o].run = request[o].run
                          \/ Done(request'[o].run)
    BY <1>2
<1>4. \A r \in Runs : Done(r) \/ job'[r] = job[r]
    BY <1>1
<1>5. /\ slot' \in {slot, None} /\ \A p \in Companions : relay'[p] = relay[p]
      /\ \A m \in bodies' : m \in bodies \/ Done(m.run)
    BY <1>1
<1>6. QED
    BY <1>3, <1>4, <1>5, PlacedKept

LEMMA PlacedProducing ==
    ASSUME TypeOK, Placed, NEW r \in Runs, Producing(r)
    PROVE  Placed'
<1>1. /\ UNCHANGED <<slot, relay, request, bodies>>
      /\ \A o : o \in Runs /\ Done(o) => Done(o)' /\ o # r
    BY RunnerTyped DEF Done
<1>2. /\ job[r].status \in {"none", "queued"} /\ job \in [Runs -> JobRow]
    BY <1>1 DEF Placed, TypeOK
<1>3. /\ \A o \in Runs \ {r} : job'[o] = job[o]
      /\ job'[r].status \in {"none", "queued"}
    <2>1. CASE InsertJob(r)
        <3>1. job' = [job EXCEPT ![r].status = "queued"] \/ job' = job
            BY <2>1 DEF InsertJob
        <3>2. Noted(r, "queued", job[r].result) \/ job' = job
            BY <3>1, JobParts, Noting DEF Active
        <3>3. QED
            BY <1>2, <3>2, NotedJobs
    <2>2. CASE RunThrows(r)
        BY <1>2, <2>2, ThrowIs, NotedJobs
    <2>3. CASE ~InsertJob(r) /\ ~RunThrows(r)
        <3>1. job' = job
            BY <2>3 DEF Producing, RunSource, BeginRun, LookForJob, FindWinner, Supersede, HandOver,
                        FailRun, server
        <3>2. QED
            BY <1>2, <3>1
    <2>4. QED
        BY <2>1, <2>2, <2>3
<1>4. (\A o \in Runs : Done(o) \/ job[o].status \in {"none", "queued"})'
    BY <1>1, <1>3 DEF Placed
<1>5. (slot # None => Done(slot.run))'
    BY <1>1 DEF Placed, TypeOK, Result
<1>6. ASSUME NEW p \in Companions
      PROVE  (/\ relay[p].at = "working" => Done(relay[p].run)
              /\ relay[p].at \in {"submitting", "waiting", "accepted"}
                    => Done(relay[p].result.run))'
    <2>1. relay[p] \in Polling
        BY DEF TypeOK
    <2>2. /\ relay[p].at = "working" => relay[p].run \in Runs
          /\ relay[p].at \in {"submitting", "waiting", "accepted"} => relay[p].result.run \in Runs
        BY <2>1 DEF Polling, Idle, Report
    <2>3. QED
        BY <1>1, <2>2 DEF Placed
<1>7. ASSUME NEW q \in Requests
      PROVE  (request[q].at # "idle" => Done(request[q].run))'
    <2>1. request[q].at # "idle" => request[q].run \in Runs
        BY RequestParts, HandlingParts
    <2>2. QED
        BY <1>1, <2>1 DEF Placed
<1>8. (\A m \in bodies : Done(m.run))'
    BY <1>1 DEF Placed, TypeOK, Message
<1>9. QED
    BY <1>4, <1>5, <1>6, <1>7, <1>8 DEF Placed

LEMMA PlacedCompanion ==
    ASSUME ~Overtaking, TypeOK, Placed, NEW p \in Companions, Companion(p) \/ Abandon(p)
    PROVE  Placed'
<1>1. UNCHANGED <<runner, bodies>>
    BY DEF Companion, ReadOutbox, Poll, PollNothing, Execute, ExecuteFails, Submit, ClearSlot, Abandon
<1>2. relay \in [Companions -> Polling] /\ relay[p] \in Polling /\ job \in [Runs -> JobRow]
    BY DEF TypeOK
<1>3. /\ relay[p].at = "working" => Done(relay[p].run)
      /\ relay[p].at \in {"submitting", "waiting", "accepted"} => Done(relay[p].result.run)
      /\ slot # None => Done(slot.run)
    BY DEF Placed
<1>4. \A r \in Runs : Done(r) \/ job'[r] = job[r]
    <2>1. CASE Poll(p)
        <3>1. PICK r \in Runs : Claimable(r) /\ job' = [job EXCEPT ![r].status = "leased"]
            BY <2>1 DEF Poll
        <3>2. Done(r)
            BY <3>1 DEF Claimable, Done
        <3>3. QED
            BY <1>2, <3>1, <3>2
    <2>2. CASE ~Poll(p)
        BY <2>2 DEF Companion, ReadOutbox, PollNothing, Execute, ExecuteFails, Submit, ClearSlot,
                    Abandon, server
    <2>3. QED
        BY <2>1, <2>2
<1>5. \A o \in Companions \ {p} : relay'[o] = relay[o]
    BY <1>2 DEF Companion, ReadOutbox, Poll, PollNothing, Execute, ExecuteFails, Submit, ClearSlot,
                Abandon, At
<1>6. /\ slot' \in {slot, None} \/ Done(slot'.run)
      /\ \/ relay'[p].at \in {"idle", "polling"}
         \/ relay'[p].at = "working" /\ Done(relay'[p].run)
         \/ relay'[p].at \in {"submitting", "waiting", "accepted"} /\ Done(relay'[p].result.run)
    <2>0. ASSUME NEW v, At(p, v)
          PROVE  relay'[p] = v
        BY <1>2, <2>0 DEF At
    <2>1. CASE ReadOutbox(p) \/ PollNothing(p) \/ ClearSlot(p) \/ Abandon(p)
        BY <1>3, <2>0, <2>1 DEF ReadOutbox, PollNothing, ClearSlot, Abandon, Idle
    <2>2. CASE Poll(p)
        <3>1. PICK r \in Runs : /\ Claimable(r)
                                /\ At(p, [at |-> "working", run |-> r]) \/ At(p, Idle)
            BY <2>2 DEF Poll
        <3>2. Done(r) /\ slot' = slot
            BY <2>2, <3>1 DEF Poll, Claimable, Done
        <3>3. QED
            BY <2>0, <3>1, <3>2 DEF Idle
    <2>3. CASE Execute(p)
        <3>1. PICK f \in Prints :
                LET result == [run |-> relay[p].run, print |-> f]
                IN IF slot = None
                   THEN slot' = result /\ At(p, [at |-> "submitting", result |-> result])
                   ELSE UNCHANGED slot /\ At(p, Idle)
            BY <2>3 DEF Execute
        <3>2. Done(relay[p].run)
            BY <1>3, <2>3 DEF Execute
        <3>3. QED
            BY <2>0, <3>1, <3>2 DEF Idle
    <2>4. CASE ExecuteFails(p)
        BY <1>3, <2>0, <2>4 DEF ExecuteFails
    <2>5. CASE Submit(p)
        BY <1>3, <2>0, <2>5 DEF Submit
    <2>6. QED
        BY <2>1, <2>2, <2>3, <2>4, <2>5 DEF Companion
<1>7. \A q \in Requests : \/ request'[q].at = "idle"
                          \/ request[q].at # "idle" /\ request'[q].run = request[q].run
                          \/ Done(request'[q].run)
    <2> TAKE q \in Requests
    <2>0. request \in [Requests -> Handling \cup {Idle}]
        BY DEF TypeOK
    <2>1. CASE Submit(p)
        <3>1. PICK o \in Requests : request' = [request EXCEPT ![o] = Arrived(p)]
            BY <2>1 DEF Submit
        <3>2. Arrived(p).run = relay[p].result.run
            BY DEF Arrived
        <3>3. Done(relay[p].result.run)
            BY <1>3, <2>1 DEF Submit
        <3>4. QED
            BY <2>0, <3>1, <3>2, <3>3
    <2>2. CASE Abandon(p)
        <3>1. request' = [o \in Requests |->
                    IF request[o].at # "idle" /\ request[o].from = p
                    THEN [request[o] EXCEPT !.from = None] ELSE request[o]]
            BY <2>2 DEF Abandon
        <3>2. request[q].at # "idle" => [request[q] EXCEPT !.from = None].run = request[q].run
            BY RequestParts DEF Handling
        <3>3. QED
            BY <3>1, <3>2
    <2>3. CASE ~Submit(p) /\ ~Abandon(p)
        <3>1. request' = request
            BY <2>3 DEF Companion, ReadOutbox, Poll, PollNothing, Execute, ExecuteFails, ClearSlot, server
        <3>2. QED
            BY <3>1
    <2>4. QED
        BY <2>1, <2>2, <2>3
<1>8. \A o \in Companions :
          \/ relay'[o] = relay[o]
          \/ relay'[o].at \in {"idle", "polling"}
          \/ relay'[o].at = "working" /\ Done(relay'[o].run)
          \/ relay'[o].at \in {"submitting", "waiting", "accepted"} /\ Done(relay'[o].result.run)
    BY <1>5, <1>6
<1>9. \A m \in bodies' : m \in bodies \/ Done(m.run)
    BY <1>1
<1>10. QED
    BY <1>1, <1>4, <1>6, <1>7, <1>8, <1>9, PlacedKept

\* A request works for its own run.
LEMMA PlacedEndpoint ==
    ASSUME TypeOK, Shaped, Placed, NEW q \in Requests, Quiet(q) \/ Changing(q)
    PROVE  Placed'
<1>1. CASE Quiet(q)
    <2>1. /\ request[q].at # "idle"
          /\ UNCHANGED <<ledger, runner, job, attempts, slot, queue, bodies>>
          /\ \/ \E ok \in BOOLEAN : Answer(q, ok)
             \/ /\ UNCHANGED <<relay, acked>>
                /\ \E s \in Stages, d \in {NoResult} \cup Dispatch, n \in Nat :
                       Moved(q, s, d, n) /\ Reads(q, s, d, n)
        BY <1>1, Quietly, ShapedRequest
    <2>2. QED
        BY <2>1, PlacedAnswered, PlacedMoved
<1>2. CASE Changing(q)
    <2>1. request[q].at # "idle" /\ request[q].run \in Runs /\ job \in [Runs -> JobRow]
        BY <1>2, RequestParts, HandlingParts, JobParts
           DEF Changing, Mark, Accept, Withdraw, Begin, Send, SendThrows, Revise, Replay, Finish
    <2>2. \A r \in Runs : r = request[q].run \/ job'[r] = job[r]
        BY <1>2, <2>1
           DEF Changing, Mark, Accept, Withdraw, Begin, Send, SendThrows, Revise, Replay, Finish,
               SetPhase
    <2>3. UNCHANGED <<runner, slot>>
        BY <1>2 DEF Changing, Mark, Accept, Withdraw, Begin, Send, SendThrows, Revise, Replay, Finish,
                    local
    <2>4. CASE Mark(q) \/ Accept(q)
        <3>1. PICK d \in Dispatch, n \in Nat : Confirmed(q, d, n)
            BY <2>4, ConfirmIs
        <3>2. bodies' = bodies
            BY <2>4 DEF Mark, Accept
        <3>3. \/ Moved(q, "completing", request[q].seen, n) /\ UNCHANGED <<relay, acked>>
              \/ Answer(q, job[request[q].run].status = "complete")
            BY <2>1, <3>1, Confirming
        <3>4. QED
            BY <2>1, <2>2, <2>3, <3>2, <3>3, PlacedAnswered, PlacedMoved
    <2>5. CASE Withdraw(q)
        BY <2>1, <2>2, <2>3, <2>5, PlacedAnswered DEF Withdraw
    <2>6. CASE Begin(q)
        <3>1. UNCHANGED <<relay, bodies>>
            BY <2>6 DEF Begin
        <3>2. \E s, d, n : Moved(q, s, d, n)
            <4>1. CASE Owned(q)
                <5>1. PICK d \in Dispatch, s \in {"accepting", "sending"} : Moved(q, s, d, 0)
                    BY <2>1, <2>6, <4>1, BeginIs, ShapedRequest
                <5>2. QED
                    BY <5>1
            <4>2. CASE ~Owned(q)
                <5>1. request[q].sent \in Nat /\ request[q].seen \in {NoResult} \cup Dispatch
                    BY <2>1, RequestParts, HandlingParts
                <5>2. Moved(q, "losing", request[q].seen, request[q].sent)
                    BY <2>1, <2>6, <4>2, <5>1, Moving DEF Begin, Goto, Stages
                <5>3. QED
                    BY <5>2
            <4>3. QED
                BY <4>1, <4>2
        <3>3. QED
            BY <2>1, <2>2, <2>3, <3>1, <3>2, PlacedMoved
    <2>7. CASE Send(q) \/ SendThrows(q)
        <3>1. PICK m \in Message : /\ m.run = request[q].run
                                   /\ UNCHANGED local
                                   /\ bodies' \in {bodies, bodies \cup {m}}
                                   /\ \E s, n : Moved(q, s, request[q].seen, n)
            BY <2>1, <2>7, SendIs, ShapedRequest
        <3>2. relay' = relay
            BY <3>1 DEF local
        <3>3. QED
            BY <2>1, <2>2, <2>3, <3>1, <3>2, PlacedMoved
    <2>8. CASE Revise(q)
        <3>1. Moved(q, "replaying", request[q].seen, request[q].sent) /\ UNCHANGED <<local, bodies>>
            BY <2>8, ReviseIs
        <3>2. QED
            BY <2>1, <2>2, <2>3, <3>1, PlacedMoved DEF local
    <2>9. CASE Replay(q)
        <3>1. Moved(q, "accepting", request[q].seen, request[q].sent) /\ UNCHANGED <<local, bodies>>
            BY <2>9, ReplayIs
        <3>2. QED
            BY <2>1, <2>2, <2>3, <3>1, PlacedMoved DEF local
    <2>10. CASE Finish(q)
        <3>1. Answer(q, TRUE) /\ UNCHANGED bodies
            BY <2>10 DEF Finish
        <3>2. QED
            BY <2>1, <2>2, <2>3, <3>1, PlacedAnswered
    <2>11. QED
        BY <1>2, <2>4, <2>5, <2>6, <2>7, <2>8, <2>9, <2>10 DEF Changing
<1>3. QED
    BY <1>1, <1>2

LEMMA PlacedNext ==
    ASSUME ~Overtaking, TypeOK, Shaped, Placed, [Next]_vars
    PROVE  Placed'
<1>1. ASSUME NEW m \in queue, Consume(m) \/ Exhaust(m)
      PROVE  Placed'
    <2>1. UNCHANGED <<runner, job, slot, relay, request, bodies>>
        BY <1>1 DEF Consume, Exhaust, server, local
    <2>2. QED
        BY <2>1 DEF Placed, Done
<1>2. CASE UNCHANGED vars
    <2>1. UNCHANGED <<runner, job, slot, relay, request, bodies>>
        BY <1>2 DEF vars, server, local
    <2>2. QED
        BY <2>1 DEF Placed, Done
<1>3. QED
    BY <1>1, <1>2, PlacedProducing, PlacedCompanion, PlacedEndpoint, Steps

-----------------------------------------------------------------------------
(* A run is accounted for once. *)

\* Where runSource has not yet inserted a job for its run.
Before == {"new", "looking", "inserting", "raced", "joining"}

\* A run is accounted for when it ends, and until runSource has returned, nobody
\* but runSource touches it.
OnceAt(r) ==
    /\ run[r].accounted <=> run[r].status \in Ended
    /\ runner[r].at # "done" => ~run[r].accounted
    /\ runner[r].at = "new" => run[r].status = "none"
    /\ runner[r].at \in Before \ {"new"} => run[r].status = "running"
    /\ runner[r].at \in Before => job[r].status = "none"
    /\ health[r] = IF run[r].accounted THEN 1 ELSE 0

Once == \A r \in Runs : OnceAt(r)

LEMMA OnceSame ==
    ASSUME Once, UNCHANGED <<run, health, runner, job>>
    PROVE  Once'
BY DEF Once, OnceAt

\* A run whose runSource has returned may change until it is accounted for, and
\* then ends together with that.
LEMMA OnceKept ==
    ASSUME TypeOK, Once, UNCHANGED runner,
           \A r \in Runs : job[r].status = "none" => job'[r].status = "none",
           \A r \in Runs :
               \/ run'[r] = run[r] /\ health'[r] = health[r]
               \/ /\ Done(r) /\ ~run[r].accounted
                  /\ \/ run'[r].status \notin Ended /\ ~run'[r].accounted /\ health'[r] = health[r]
                     \/ run'[r].status \in Ended /\ run'[r].accounted /\ health'[r] = health[r] + 1
    PROVE  Once'
<1> SUFFICES ASSUME NEW r \in Runs PROVE OnceAt(r)'
    BY DEF Once
<1>1. OnceAt(r)
    BY DEF Once
<1>2. CASE run'[r] = run[r] /\ health'[r] = health[r]
    BY <1>1, <1>2 DEF OnceAt
<1>3. CASE run'[r] # run[r] \/ health'[r] # health[r]
    <2>1. runner[r].at = "done" /\ runner[r].at \notin Before
        BY <1>3 DEF Done, Before
    <2>2. QED
        BY <1>1, <1>3, <2>1 DEF OnceAt, Before
<1>4. QED
    BY <1>2, <1>3

LEMMA OnceRunSource ==
    ASSUME TypeOK, TypeOK', Once, NEW r \in Runs, Producing(r)
    PROVE  Once'
<1> USE DEF Before
<1>1. /\ OnceAt(r) /\ run \in [Runs -> RunRow] /\ job \in [Runs -> JobRow]
      /\ runner \in [Runs -> [at : {"new", "looking", "inserting", "raced", "joining",
                                    "handing", "failing", "done"},
                              canonical : Runs \cup {None}]]
      /\ health \in [Runs -> Nat]
    BY DEF Once, TypeOK
<1>2. /\ run[r].status \in Statuses /\ run[r].enqueued \in Nat
      /\ run[r].partial \in BOOLEAN /\ run[r].accounted \in BOOLEAN
    BY RunParts
<1>3. /\ "running" \in Statuses /\ "pending" \in Statuses /\ "queued" \in Statuses
      /\ "failed" \in Statuses /\ 0 \in Nat /\ TRUE \in BOOLEAN /\ FALSE \in BOOLEAN
    BY DEF Statuses, Ended
<1>4. ASSUME NEW from, NEW to, Runner(r, from, to)
      PROVE  /\ runner[r].at = from /\ runner'[r].at = to
             /\ \A o \in Runs \ {r} : runner'[o] = runner[o]
    BY <1>1, <1>4 DEF Runner
<1>5. ASSUME NEW c, Join(r, c)
      PROVE  runner'[r].at = "joining" /\ \A o \in Runs \ {r} : runner'[o] = runner[o]
    BY <1>1, <1>5 DEF Join
<1>6. ASSUME \A o \in Runs \ {r} : /\ run'[o] = run[o] /\ job'[o] = job[o]
                                   /\ runner'[o] = runner[o] /\ health'[o] = health[o],
             OnceAt(r)'
      PROVE  Once'
    BY <1>6 DEF Once, OnceAt
<1>7. CASE BeginRun(r)
    <2>1. Written(r, "running", run[r].enqueued, run[r].partial, run[r].accounted)
        BY <1>2, <1>3, <1>7, Writing DEF BeginRun
    <2>2. /\ run'[r].status = "running" /\ run'[r].accounted = run[r].accounted
          /\ \A o \in Runs \ {r} : run'[o] = run[o]
        BY <2>1, WrittenRuns
    <2>3. /\ runner[r].at = "new" /\ runner'[r].at = "looking"
          /\ \A o \in Runs \ {r} : runner'[o] = runner[o]
        BY <1>4, <1>7 DEF BeginRun
    <2>4. job' = job /\ health' = health
        BY <1>7 DEF BeginRun, server
    <2>5. OnceAt(r)'
        BY <1>1, <1>2, <2>2, <2>3, <2>4 DEF OnceAt, Ended
    <2>6. QED
        BY <1>6, <2>2, <2>3, <2>4, <2>5
<1>8. CASE LookForJob(r) \/ FindWinner(r)
    <2>1. /\ runner[r].at \in {"looking", "raced"}
          /\ runner'[r].at \in {"inserting", "failing", "joining"}
          /\ \A o \in Runs \ {r} : runner'[o] = runner[o]
        BY <1>4, <1>5, <1>8 DEF LookForJob, FindWinner
    <2>2. job' = job /\ health' = health /\ run' = run
        BY <1>8 DEF LookForJob, FindWinner, server, ledger
    <2>3. OnceAt(r)'
        BY <1>1, <2>1, <2>2 DEF OnceAt
    <2>4. QED
        BY <1>6, <2>1, <2>2, <2>3
<1>9. CASE InsertJob(r)
    <2>1. health' = health /\ run' = run
        BY <1>9 DEF InsertJob, ledger
    <2>2. CASE ActiveJobs = {}
        <3>1. job' = [job EXCEPT ![r].status = "queued"]
            BY <1>9, <2>2 DEF InsertJob
        <3>2. \A o \in Runs \ {r} : job'[o] = job[o]
            BY <1>1, <3>1
        <3>3. /\ runner[r].at = "inserting" /\ runner'[r].at = "handing"
              /\ \A o \in Runs \ {r} : runner'[o] = runner[o]
            BY <1>4, <1>9, <2>2 DEF InsertJob
        <3>4. OnceAt(r)'
            BY <1>1, <2>1, <3>3 DEF OnceAt
        <3>5. QED
            BY <1>6, <2>1, <3>2, <3>3, <3>4
    <2>3. CASE ActiveJobs # {}
        <3>1. job' = job
            BY <1>9, <2>3 DEF InsertJob
        <3>2. /\ runner[r].at = "inserting" /\ runner'[r].at = "raced"
              /\ \A o \in Runs \ {r} : runner'[o] = runner[o]
            BY <1>4, <1>9, <2>3 DEF InsertJob
        <3>3. OnceAt(r)'
            BY <1>1, <2>1, <3>1, <3>2 DEF OnceAt
        <3>4. QED
            BY <1>6, <2>1, <3>1, <3>2, <3>3
    <2>4. QED
        BY <2>2, <2>3
<1>10. CASE Supersede(r)
    <2>1. /\ runner[r].at = "joining" /\ runner'[r].at = "done"
          /\ \A o \in Runs \ {r} : runner'[o] = runner[o]
        BY <1>1, <1>10 DEF Supersede
    <2>2. Open(r)
        BY <1>1, <2>1 DEF OnceAt, Open, Ended
    <2>3. Written(r, "pending", 0, run[r].partial, run[r].accounted)
        BY <1>2, <1>3, <1>10, <2>2, Writing DEF Supersede, Superseded
    <2>4. /\ run'[r].status = "pending" /\ run'[r].accounted = run[r].accounted
          /\ \A o \in Runs \ {r} : run'[o] = run[o]
        BY <2>3, WrittenRuns
    <2>5. job' = job /\ health' = health
        BY <1>10 DEF Supersede, server
    <2>6. OnceAt(r)'
        BY <1>1, <1>2, <2>1, <2>4, <2>5 DEF OnceAt, Ended
    <2>7. QED
        BY <1>6, <2>1, <2>4, <2>5, <2>6
<1>11. CASE HandOver(r)
    <2>1. /\ runner[r].at = "handing" /\ runner'[r].at = "done"
          /\ \A o \in Runs \ {r} : runner'[o] = runner[o]
        BY <1>4, <1>11 DEF HandOver
    <2>2. job' = job /\ health' = health
        BY <1>11 DEF HandOver, server
    <2>3. CASE ~Open(r)
        <3>1. run' = run
            BY <1>11, <2>3 DEF HandOver, HandedOver
        <3>2. OnceAt(r)'
            BY <1>1, <2>1, <2>2, <3>1 DEF OnceAt
        <3>3. QED
            BY <1>6, <2>1, <2>2, <3>1, <3>2
    <2>4. CASE Open(r)
        <3>1. run' = [run EXCEPT ![r].status = "queued", ![r].enqueued = 0, ![r].partial = FALSE]
            BY <1>11, <2>4 DEF HandOver, HandedOver
        <3>2. Written(r, "queued", 0, FALSE, run[r].accounted)
            BY <1>3, <3>1, Writing
        <3>3. /\ run'[r].status = "queued" /\ run'[r].accounted = run[r].accounted
              /\ \A o \in Runs \ {r} : run'[o] = run[o]
            BY <3>2, WrittenRuns, ZenonT(60)
        <3>4. OnceAt(r)'
            BY <1>1, <1>2, <2>1, <2>2, <2>4, <3>3 DEF OnceAt, Open, Ended
        <3>5. QED
            BY <1>6, <2>1, <2>2, <3>3, <3>4
    <2>5. QED
        BY <2>3, <2>4
<1>12. CASE FailRun(r)
    <2>1. Written(r, "failed", run[r].enqueued, run[r].partial, TRUE)
        BY <1>2, <1>3, <1>12, Writing DEF FailRun
    <2>2. /\ run'[r].status = "failed" /\ run'[r].accounted = TRUE
          /\ \A o \in Runs \ {r} : run'[o] = run[o]
        BY <2>1, WrittenRuns
    <2>3. /\ runner[r].at = "failing" /\ runner'[r].at = "done"
          /\ \A o \in Runs \ {r} : runner'[o] = runner[o]
        BY <1>4, <1>12 DEF FailRun
    <2>4. /\ job' = job /\ health'[r] = health[r] + 1
          /\ \A o \in Runs \ {r} : health'[o] = health[o]
        BY <1>1, <1>12 DEF FailRun, server
    <2>5. health[r] = 0
        BY <1>1, <2>3 DEF OnceAt
    <2>6. OnceAt(r)'
        BY <1>1, <2>2, <2>3, <2>4, <2>5 DEF OnceAt, Ended
    <2>7. QED
        BY <1>6, <2>2, <2>3, <2>4, <2>6
<1>13. CASE RunThrows(r)
    <2>1. /\ runner[r].at # "done" /\ runner'[r].at = "failing" /\ health' = health
          /\ \A o \in Runs \ {r} : runner'[o] = runner[o]
        BY <1>13, ThrowIs
    <2>2. /\ run'[r].accounted = run[r].accounted
          /\ run'[r].status = run[r].status \/ run'[r].status \in {"pending", "queued"}
          /\ \A o \in Runs \ {r} : run'[o] = run[o] /\ job'[o] = job[o]
        <3>1. CASE UNCHANGED <<run, job>>
            BY <3>1
        <3>2. CASE run' = run /\ Noted(r, "queued", job[r].result)
            BY <3>2, NotedJobs
        <3>3. CASE job' = job /\ Written(r, "pending", 0, run[r].partial, run[r].accounted)
            BY <3>3, WrittenRuns
        <3>4. CASE job' = job /\ Written(r, "queued", 0, FALSE, run[r].accounted)
            BY <3>4, WrittenRuns
        <3>5. QED
            BY <1>13, <3>1, <3>2, <3>3, <3>4, ThrowIs
    <2>3. ~run[r].accounted /\ health[r] = 0 /\ run[r].status \notin Ended
        BY <1>1, <2>1 DEF OnceAt
    <2>4. OnceAt(r)'
        BY <1>2, <2>1, <2>2, <2>3 DEF OnceAt, Ended
    <2>5. QED
        BY <1>6, <2>1, <2>2, <2>4
<1>14. QED
    BY <1>7, <1>8, <1>9, <1>10, <1>11, <1>12, <1>13 DEF Producing, RunSource

\* An aggregation ends a run that is queued.
LEMMA OnceAggregated ==
    ASSUME TypeOK, Once, NEW r \in Runs, Done(r), NEW rc, Aggregate(r, rc), UNCHANGED <<runner, job>>
    PROVE  Once'
<1>1. CASE UNCHANGED <<run, health>>
    BY <1>1, OnceSame
<1>2. CASE /\ Complete(r, rc)
           /\ run'[r].status \in Ended /\ run'[r].accounted
           /\ \A o \in Runs \ {r} : run'[o] = run[o]
           /\ health' = [health EXCEPT ![r] = @ + 1]
    <2>1. run[r].status = "queued"
        BY <1>2 DEF Complete
    <2>2. ~run[r].accounted
        BY <2>1 DEF Once, OnceAt, Ended
    <2>3. health'[r] = health[r] + 1 /\ \A o \in Runs \ {r} : health'[o] = health[o]
        BY <1>2 DEF TypeOK
    <2>4. QED
        BY <1>2, <2>1, <2>2, <2>3, OnceKept
<1>3. QED
    BY <1>1, <1>2, Aggregating

LEMMA OnceNext ==
    ASSUME TypeOK, Shaped, Placed, TypeOK', Once, [Next]_vars
    PROVE  Once'
<1>1. ASSUME NEW r \in Runs, Producing(r)
      PROVE  Once'
    BY <1>1, OnceRunSource
<1>2. ASSUME NEW p \in Companions, Companion(p) \/ Abandon(p)
      PROVE  Once'
    <2>1. CASE Poll(p)
        <3>1. PICK r \in Runs : Claimable(r) /\ job' = [job EXCEPT ![r].status = "leased"]
            BY <2>1 DEF Poll
        <3>2. job[r].status # "none" /\ \A o \in Runs \ {r} : job'[o] = job[o]
            BY <3>1 DEF Claimable, Active, TypeOK
        <3>3. UNCHANGED <<run, health, runner>>
            BY <2>1 DEF Poll, ledger
        <3>4. QED
            BY <3>2, <3>3, OnceKept
    <2>2. CASE ~Poll(p)
        <3>1. UNCHANGED <<run, health, runner, job>>
            BY <1>2, <2>2 DEF Companion, ReadOutbox, PollNothing, Execute, ExecuteFails, Submit,
                              ClearSlot, Abandon, ledger, server
        <3>2. QED
            BY <3>1, OnceSame
    <2>3. QED
        BY <2>1, <2>2
<1>3. ASSUME NEW q \in Requests, Quiet(q)
      PROVE  Once'
    <2>1. UNCHANGED <<ledger, runner, job>>
        BY <1>3, Quietly, ShapedRequest
    <2>2. QED
        BY <2>1, OnceSame DEF ledger
<1>4. ASSUME NEW q \in Requests, Changing(q)
      PROVE  Once'
    <2>1. CASE Mark(q) \/ Accept(q) \/ Withdraw(q)
        <3>1. /\ UNCHANGED <<run, health, runner>>
              /\ request[q].at # "idle" /\ request[q].run \in Runs
              /\ \E d \in Dispatch, s \in {"accepted", "retryable"}, n \in Nat : SetPhase(q, d, s, n)
            <4>1. CASE Mark(q) \/ Accept(q)
                BY <4>1, ConfirmIs DEF ledger
            <4>2. CASE Withdraw(q)
                BY <4>2, WithdrawIs DEF ledger
            <4>3. QED
                BY <2>1, <4>1, <4>2
        <3>2. PICK d \in Dispatch, s \in {"accepted", "retryable"}, n \in Nat : SetPhase(q, d, s, n)
            BY <3>1
        <3>3. CASE job' = job
            BY <3>1, <3>3, OnceSame
        <3>4. CASE /\ job[request[q].run].status = "leased"
                   /\ Noted(request[q].run, "leased", [d EXCEPT !.phase = s, !.accepted = n])
            <4>1. \A r \in Runs : job[r].status = "none" => job'[r].status = "none"
                BY <3>1, <3>4, NotedJobs
            <4>2. QED
                BY <3>1, <4>1, OnceKept
        <3>5. \/ /\ job[request[q].run].status = "leased"
                 /\ Noted(request[q].run, "leased", [d EXCEPT !.phase = s, !.accepted = n])
              \/ job' = job
            <4>1. s \in {"dispatching", "accepted", "retryable"}
                OBVIOUS
            <4>2. request[q].at # "idle"
                BY <3>1
            <4>3. /\ job' \in [Runs -> JobRow]
                  /\ \/ /\ job[request[q].run].status = "leased" /\ job[request[q].run].result = d
                        /\ Noted(request[q].run, "leased", [d EXCEPT !.phase = s, !.accepted = n])
                     \/ /\ ~(job[request[q].run].status = "leased" /\ job[request[q].run].result = d)
                        /\ job' = job
                BY <3>2, <4>1, <4>2, Phased, ZenonT(60)
            <4>4. QED
                BY <4>3
        <3>6. QED
            BY <3>3, <3>4, <3>5
    <2>2. CASE Begin(q)
        <3>0. request[q].at # "idle" /\ request[q].run \in Runs
            BY <2>2, RequestParts, HandlingParts DEF Begin
        <3>1. CASE Owned(q)
            <4>1. PICK r \in Runs : r = request[q].run
                BY <3>0
            <4>2. /\ \E d : Noted(r, "leased", d)
                  /\ \E n, b : Written(r, "queued", n, b, run[r].accounted)
                  /\ UNCHANGED <<health, runner>>
                BY <2>2, <3>0, <3>1, <4>1, BeginIs, ShapedRequest
            <4>3. job[r].status = "leased" /\ Open(r)
                BY <3>1, <4>1 DEF Owned
            <4>4. /\ run'[r].status = "queued" /\ run'[r].accounted = run[r].accounted
                  /\ \A o \in Runs \ {r} : run'[o] = run[o]
                BY <4>2, WrittenRuns
            <4>5. \A o \in Runs : job[o].status = "none" => job'[o].status = "none"
                BY <4>2, <4>3, NotedJobs
            <4>6. ~run[r].accounted /\ "queued" \notin Ended
                BY <4>3 DEF Open, Ended
            <4>7. Done(r)
                BY <3>0, <4>1 DEF Placed
            <4>8. QED
                BY <4>2, <4>4, <4>5, <4>6, <4>7, OnceKept
        <3>2. CASE ~Owned(q)
            <4>1. UNCHANGED <<run, health, runner, job>>
                BY <2>2, <3>2 DEF Begin
            <4>2. QED
                BY <4>1, OnceSame
        <3>3. QED
            BY <3>1, <3>2
    <2>3. CASE Send(q) \/ SendThrows(q)
        <3>1. UNCHANGED <<run, health, runner, job>>
            BY <2>3 DEF Send, SendThrows, ledger
        <3>2. QED
            BY <3>1, OnceSame
    <2>4. CASE Revise(q)
        <3>0. request[q].at # "idle" /\ request[q].run \in Runs
            BY <2>4, RequestParts, HandlingParts DEF Revise
        <3>1. PICK r \in Runs : r = request[q].run
            BY <3>0
        <3>2. UNCHANGED <<health, runner, job>>
            BY <2>4, ReviseIs
        <3>3. CASE run' = run
            BY <3>2, <3>3, OnceSame
        <3>4. CASE /\ run[r].status = "queued"
                   /\ \E n : Written(r, "queued", n, TRUE, run[r].accounted)
            <4>1. /\ run'[r].status = "queued" /\ run'[r].accounted = run[r].accounted
                  /\ \A o \in Runs \ {r} : run'[o] = run[o]
                BY <3>4, WrittenRuns, ZenonT(60)
            <4>2. ~run[r].accounted /\ "queued" \notin Ended
                BY <3>4 DEF Once, OnceAt, Ended
            <4>3. Done(r)
                BY <3>0, <3>1 DEF Placed
            <4>4. QED
                BY <3>2, <4>1, <4>2, <4>3, OnceKept
        <3>5. QED
            BY <2>4, <3>1, <3>3, <3>4, ReviseIs
    <2>5. CASE Replay(q)
        <3>1. /\ request[q].at # "idle" /\ request[q].run \in Runs
              /\ Aggregate(request[q].run, receipts[request[q].run]) /\ UNCHANGED <<runner, job>>
            BY <2>5, ReplayIs
        <3>2. Done(request[q].run)
            BY <3>1 DEF Placed
        <3>3. QED
            BY <3>1, <3>2, OnceAggregated
    <2>6. CASE Finish(q)
        <3>1. PICK r \in Runs : r = request[q].run
            BY <2>6, FinishIs
        <3>2. UNCHANGED runner /\ job' \in [Runs -> JobRow]
            BY <2>6, FinishIs
        <3>3. \A o \in Runs : job[o].status = "none" => job'[o].status = "none"
            <4>1. \/ job' = job
                  \/ job[r].status = "leased" /\ \E s, d : Noted(r, s, d)
                BY <2>6, <3>1, FinishIs
            <4>2. CASE job[r].status = "leased" /\ \E s, d : Noted(r, s, d)
                BY <4>2, NotedJobs
            <4>3. QED
                BY <4>1, <4>2
        <3>4. CASE UNCHANGED <<run, health>>
            BY <3>2, <3>3, <3>4, OnceKept
        <3>5. CASE /\ job[r].status = "leased" /\ Open(r)
                   /\ \E s \in Ended : Written(r, s, 0, run[r].partial, TRUE)
                   /\ health' = [health EXCEPT ![r] = @ + 1]
            <4>1. PICK s \in Ended : Written(r, s, 0, run[r].partial, TRUE)
                BY <3>5
            <4>2. /\ run'[r].status \in Ended /\ run'[r].accounted
                  /\ \A o \in Runs \ {r} : run'[o] = run[o]
                BY <4>1, WrittenRuns
            <4>3. health'[r] = health[r] + 1 /\ \A o \in Runs \ {r} : health'[o] = health[o]
                BY <3>5 DEF TypeOK
            <4>4. ~run[r].accounted
                BY <3>5 DEF Open
            <4>5. Done(r)
                BY <2>6, <3>1 DEF Placed, Finish
            <4>6. QED
                BY <3>2, <3>3, <4>2, <4>3, <4>4, <4>5, OnceKept
        <3>6. QED
            BY <2>6, <3>1, <3>4, <3>5, FinishIs
    <2>7. QED
        BY <1>4, <2>1, <2>2, <2>3, <2>4, <2>5, <2>6 DEF Changing
<1>5. ASSUME NEW m \in queue, Consume(m) \/ Exhaust(m)
      PROVE  Once'
    <2>1. m.run \in Runs /\ Done(m.run)
        BY DEF TypeOK, Message, Placed
    <2>2. \E rc : Aggregate(m.run, rc)
        BY <1>5 DEF Consume, Exhaust, Record
    <2>3. UNCHANGED <<runner, job>>
        BY <1>5 DEF Consume, Exhaust, server
    <2>4. QED
        BY <2>1, <2>2, <2>3, OnceAggregated
<1>6. CASE UNCHANGED vars
    BY <1>6, OnceSame DEF vars, ledger, server
<1>7. QED
    BY <1>1, <1>2, <1>3, <1>4, <1>5, <1>6, Steps

\* When no job is claimed before runSource has returned, a run is accounted to
\* its source once, however requests, receipts and completions race to end it,
\* and whichever statement of runSource throws, committed or not.
THEOREM Accounted_Once ==
    ASSUME ~Overtaking
    PROVE  Spec => []AccountedOnce
<1> DEFINE Inv == TypeOK /\ Shaped /\ Placed /\ Once
<1>1. Init => Inv
    BY TypeInit DEF Init, Once, OnceAt, Ended, Before, Placed, Idle
<1>2. Inv /\ [Next]_vars => Inv'
    BY TypeNext, PlacedNext, OnceNext
<1>3. Inv => AccountedOnce
    BY DEF Once, OnceAt, AccountedOnce
<1>4. QED
    BY <1>1, <1>2, <1>3, PTL DEF Spec

-----------------------------------------------------------------------------
(* What a Companion was told is accepted has been sent, when no job is       *)
(* claimed before runSource has returned.                                    *)

\* The queue has taken the first n items of the run.
Cov(r, n) == 0..(n - 1) \subseteq Entered(r)

\* The run says that it is partial, or the queue has taken the whole result.
Whole(r, f) == run[r].partial \/ Cov(r, Count[f])

\* The job's dispatch is accepted: from then on only its completion changes it.
Decided(r) == job[r].result # NoResult /\ job[r].result.phase = "accepted"

RunSide(r) ==
    /\ run[r].status = "running" \/ runner[r].at # "done" => run[r].enqueued = 0
    /\ runner[r].at = "handing" => job[r].status = "queued"
    /\ run[r].status \in Ended => Cov(r, run[r].enqueued)
    /\ receipts[r].done \cup receipts[r].failed \subseteq Entered(r)
    /\ \A i \in Entered(r) : Cov(r, i)

JobSide(r) ==
    /\ job[r].status \in {"none", "queued", "failed"} => job[r].result = NoResult
    /\ job[r].status = "complete" => Decided(r)
    /\ \A d \in Dispatch : job[r].result = d =>
          /\ run[r].status \in {"queued"} \cup Ended
          /\ d.attempt < attempts
          /\ d.phase = "dispatching" => run[r].partial \/ run[r].enqueued = Count[d.print]
          /\ d.phase = "accepted" => Whole(r, d.print)
          /\ Cov(r, d.accepted)

\* What a request knows of the job and of the queue.
Follow(h) ==
    /\ h.seen \in Dispatch => h.seen.attempt < attempts
    /\ Cov(h.run, h.sent)
    /\ h.at \in {"marking", "replaying", "accepting"} /\ job[h.run].result = h.seen
          => Whole(h.run, h.seen.print)
    /\ h.at \in {"completing", "finishing"}
          => (h.seen = NoResult /\ h.print = None /\ h.sent = 0) \/ Decided(h.run)
    /\ h.at = "finishing" /\ h.seen # NoResult
          => job[h.run].status # "leased" \/ job[h.run].result = h.seen
    /\ h.at = "finishing" /\ h.print # None => h.seen # NoResult

Sides    == \A r \in Runs : RunSide(r) /\ JobSide(r)
Followed == \A q \in Requests, h \in Handling : request[q] = h => Follow(h)
Remember == \A a \in acked : job[a.run].status = "complete"

IInv == TypeOK /\ Shaped /\ Placed /\ Once /\ Sides /\ Followed /\ Remember

\* What a step may do to the state that requests know something of: attempts
\* and bodies only grow, a new record of a job is a new attempt or the end of
\* one, a run stays partial under the same record, and an accepted dispatch and
\* a completed job stay.
Grows ==
    /\ attempts' >= attempts
    /\ \A r \in Runs : Entered(r) \subseteq Entered(r)'
    /\ \A r \in Runs :
         \/ /\ job'[r].result = job[r].result
            /\ job[r].result \in Dispatch /\ run[r].partial => run'[r].partial
         \/ /\ job'[r].result \in Dispatch
            /\ job'[r].result.attempt >= attempts \/ job'[r].result.phase # "dispatching"
    /\ \A r \in Runs : Decided(r) =>
          /\ Decided(r)'
          /\ job'[r].status = "leased" => job[r].status = "leased" /\ job'[r].result = job[r].result
    /\ \A r \in Runs : job[r].status = "complete" => job'[r].status = "complete"

LEMMA GrowsSame ==
    ASSUME UNCHANGED <<run, job, bodies, attempts>>, TypeOK
    PROVE  Grows
<1>1. attempts' >= attempts
    BY DEF TypeOK
<1>2. \A r \in Runs : Entered(r)' = Entered(r) /\ (Decided(r)' <=> Decided(r))
    BY DEF Entered, Decided
<1>3. QED
    BY <1>1, <1>2 DEF Grows

LEMMA FollowKept ==
    ASSUME TypeOK, TypeOK', NEW h \in Handling, Shape(h.at, h.print, h.seen), Follow(h), Grows
    PROVE  Follow(h)'
<1>1. /\ h.run \in Runs /\ h.sent \in Nat /\ h.seen \in {NoResult} \cup Dispatch
      /\ h.seen \in Dispatch => h.seen # NoResult /\ h.seen.attempt \in Nat
      /\ attempts \in Nat /\ attempts' \in Nat
    BY HandlingParts, DispatchParts DEF TypeOK
<1>2. Entered(h.run) \subseteq Entered(h.run)' /\ attempts' >= attempts
    BY <1>1 DEF Grows
<1>3. /\ h.seen \in Dispatch => h.seen.attempt < attempts'
      /\ Cov(h.run, h.sent)'
    <2>1. h.seen \in Dispatch => h.seen.attempt < attempts
        BY DEF Follow
    <2>2. Cov(h.run, h.sent)
        BY DEF Follow
    <2>3. QED
        BY <1>1, <1>2, <2>1, <2>2 DEF Cov
<1>4. h.at \in {"marking", "replaying", "accepting"} /\ job'[h.run].result = h.seen
        => Whole(h.run, h.seen.print)'
    <2> SUFFICES ASSUME h.at \in {"marking", "replaying", "accepting"},
                        job'[h.run].result = h.seen
                 PROVE  Whole(h.run, h.seen.print)'
        OBVIOUS
    <2>1. h.seen \in Dispatch /\ h.seen.phase = "dispatching"
        BY DEF Shape, Dispatching
    <2>2. h.seen.attempt < attempts
        BY <2>1 DEF Follow
    <2>3. /\ job'[h.run].result = job[h.run].result
          /\ job[h.run].result \in Dispatch /\ run[h.run].partial => run'[h.run].partial
        BY <1>1, <2>1, <2>2 DEF Grows
    <2>4. Whole(h.run, h.seen.print)
        BY <2>3 DEF Follow
    <2>5. CASE run[h.run].partial
        BY <2>1, <2>3, <2>5 DEF Whole
    <2>6. CASE Cov(h.run, Count[h.seen.print])
        BY <1>2, <2>6 DEF Whole, Cov
    <2>7. QED
        BY <2>4, <2>5, <2>6 DEF Whole
<1>5. h.at \in {"completing", "finishing"}
        => (h.seen = NoResult /\ h.print = None /\ h.sent = 0) \/ Decided(h.run)'
    BY <1>1 DEF Follow, Grows
<1>6. h.at = "finishing" /\ h.seen # NoResult
        => job'[h.run].status # "leased" \/ job'[h.run].result = h.seen
    BY <1>1 DEF Follow, Grows
<1>7. h.at = "finishing" /\ h.print # None => h.seen # NoResult
    BY DEF Follow
<1>8. QED
    BY <1>3, <1>4, <1>5, <1>6, <1>7 DEF Follow

\* What the steps do to the requests: each stays, ends, or follows.
LEMMA FollowedKept ==
    ASSUME TypeOK, TypeOK', Shaped, Followed, Grows,
           \A q \in Requests, h \in Handling : request'[q] = h => request[q] = h \/ Follow(h)'
    PROVE  Followed'
BY FollowKept DEF Followed, Shaped

LEMMA RememberKept ==
    ASSUME TypeOK, Remember, Grows,
           \A a \in acked' : a \in acked \/ job'[a.run].status = "complete"
    PROVE  Remember'
BY DEF TypeOK, Result, Remember, Grows

\* The receipts of a run are of items that the queue has taken, and the queue
\* takes the items of a run in their order: as many receipts as items means
\* that the queue has taken them all.
LEMMA CountedIsCovered ==
    ASSUME TypeOK, NEW r \in Runs, NEW n \in Nat, NEW T \in SUBSET Entered(r),
           \A i \in Entered(r) : Cov(r, i), Cardinality(T) >= n
    PROVE  Cov(r, n)
<1>1. Entered(r) \subseteq Nat
    BY DEF Entered, TypeOK, Message
<1>2. SUFFICES ASSUME NEW i \in 0..(n - 1), i \notin Entered(r)
               PROVE  FALSE
    BY DEF Cov
<1>3. i \in Nat /\ i < n
    OBVIOUS
<1>4. T \subseteq 0..(i - 1)
    <2> SUFFICES ASSUME NEW j \in T, j \notin 0..(i - 1) PROVE FALSE
        OBVIOUS
    <2>1. j \in Nat /\ j \in Entered(r) /\ i # j
        BY <1>1, <1>2
    <2>2. j > i
        BY <1>3, <2>1
    <2>3. 0..(j - 1) \subseteq Entered(r)
        BY <2>1 DEF Cov
    <2>4. i \in 0..(j - 1)
        BY <1>3, <2>1, <2>2
    <2>5. QED
        BY <1>2, <2>3, <2>4
<1>5. IsFiniteSet(0..(i - 1)) /\ Cardinality(0..(i - 1)) = i
    <2>1. 0 \in Int /\ i - 1 \in Int
        BY <1>3
    <2>2. /\ IsFiniteSet(0..(i - 1))
          /\ Cardinality(0..(i - 1)) = IF 0 > i - 1 THEN 0 ELSE (i - 1) - 0 + 1
        BY <2>1, FS_Interval
    <2>3. QED
        BY <1>3, <2>2
<1>6. Cardinality(T) <= i /\ Cardinality(T) \in Nat
    BY <1>4, <1>5, FS_Subset, FS_CardinalityType
<1>7. QED
    BY <1>3, <1>6

\* The items a message adds.
LEMMA EnteredAdds ==
    ASSUME NEW m \in Message, bodies' = bodies \cup {m}, NEW r \in Runs
    PROVE  Entered(r)' = IF r = m.run THEN Entered(r) \cup {m.item} ELSE Entered(r)
BY DEF Entered

\* A run and a job that a step leaves alone.
LEMMA SidesSame ==
    ASSUME TypeOK, TypeOK', NEW r \in Runs, RunSide(r), JobSide(r),
           run'[r] = run[r], job'[r] = job[r], runner'[r] = runner[r],
           receipts'[r] = receipts[r], bodies' = bodies, attempts' >= attempts
    PROVE  RunSide(r)' /\ JobSide(r)'
<1>1. Entered(r)' = Entered(r)
    BY DEF Entered
<1>2. \A n : Cov(r, n)' <=> Cov(r, n)
    BY <1>1 DEF Cov
<1>3. \A f : Whole(r, f)' <=> Whole(r, f)
    BY <1>2 DEF Whole
<1>4. Decided(r)' <=> Decided(r)
    BY DEF Decided
<1>5. RunSide(r)'
    BY <1>1, <1>2 DEF RunSide
<1>6. \A d \in Dispatch : d.attempt < attempts => d.attempt < attempts'
    BY DispatchParts DEF TypeOK
<1>7. JobSide(r)'
    BY <1>2, <1>3, <1>4, <1>6 DEF JobSide
<1>8. QED
    BY <1>5, <1>7

\* runSource: no result is on record while the job is not there, or has not
\* been claimed because its run has not been handed over.
LEMMA SidesRunSource ==
    ASSUME IInv, TypeOK', NEW r \in Runs, Producing(r)
    PROVE  Sides' /\ Grows
<1>1. /\ TypeOK /\ OnceAt(r) /\ RunSide(r) /\ JobSide(r)
      /\ run \in [Runs -> RunRow] /\ job \in [Runs -> JobRow]
      /\ runner \in [Runs -> [at : {"new", "looking", "inserting", "raced", "joining",
                                    "handing", "failing", "done"},
                              canonical : Runs \cup {None}]]
    BY DEF IInv, Sides, Once, TypeOK
<1>2. /\ UNCHANGED <<receipts, bodies, attempts>> /\ attempts' >= attempts
    BY <1>1, RunnerTyped DEF TypeOK
<1>3. /\ run[r].status \in Statuses /\ run[r].enqueued \in Nat
      /\ run[r].partial \in BOOLEAN /\ run[r].accounted \in BOOLEAN
      /\ "running" \in Statuses /\ "pending" \in Statuses /\ "queued" \in Statuses
      /\ "failed" \in Statuses /\ 0 \in Nat /\ TRUE \in BOOLEAN /\ FALSE \in BOOLEAN
    BY <1>1, RunParts DEF Statuses, Ended
<1>4. /\ Entered(r)' = Entered(r)
      /\ \A n : Cov(r, n)' <=> Cov(r, n)
      /\ Cov(r, 0)
    BY <1>2 DEF Entered, Cov
<1>5. /\ job[r].result = NoResult /\ NoResult \notin Dispatch
      /\ runner[r].at # "done"
      /\ job[r].status \in {"none", "queued"}
    <2>1. runner[r].at # "done"
        BY <1>1, RunnerTyped
    <2>2. job[r].status \in {"none", "queued"}
        BY <2>1 DEF IInv, Placed, Done
    <2>3. QED
        BY <1>1, <2>1, <2>2, DispatchParts DEF JobSide
\* It suffices to show what the row of the run and its job are afterwards.
<1>6. ASSUME \A o \in Runs \ {r} : /\ run'[o] = run[o] /\ job'[o] = job[o]
                                   /\ runner'[o] = runner[o],
             job'[r].result = NoResult, job'[r].status \in {"none", "queued"},
             run'[r].status = "running" \/ runner'[r].at # "done" => run'[r].enqueued = 0,
             runner'[r].at = "handing" => job'[r].status = "queued",
             run'[r].status \in Ended => run'[r].enqueued = 0 \/ run'[r] = run[r]
      PROVE  Sides' /\ Grows
    <2>1. \A o \in Runs \ {r} : RunSide(o)' /\ JobSide(o)'
        BY <1>1, <1>2, <1>6, SidesSame DEF IInv, Sides
    <2>2. RunSide(r)'
        BY <1>1, <1>2, <1>4, <1>6 DEF RunSide
    <2>3. JobSide(r)'
        BY <1>5, <1>6 DEF JobSide
    <2>4. Sides'
        BY <2>1, <2>2, <2>3 DEF Sides
    <2>5. \A o \in Runs : Entered(o)' = Entered(o)
        BY <1>2 DEF Entered
    <2>6. \A o \in Runs : job'[o].result = job[o].result
        BY <1>5, <1>6
    <2>7. \A o \in Runs : job[o].result \in Dispatch /\ run[o].partial => run'[o].partial
        BY <1>5, <1>6
    <2>8. \A o \in Runs : Decided(o) => o # r
        BY <1>5 DEF Decided
    <2>9. \A o \in Runs : job[o].status = "complete" => job'[o].status = "complete"
        BY <1>5, <1>6
    <2>10. \A o \in Runs : Decided(o) =>
              /\ Decided(o)'
              /\ job'[o].status = "leased" => job[o].status = "leased" /\ job'[o].result = job[o].result
        BY <1>6, <2>6, <2>8 DEF Decided
    <2>11. Grows
        BY <1>2, <2>5, <2>6, <2>7, <2>9, <2>10 DEF Grows
    <2>12. QED
        BY <2>4, <2>11
<1>7. ASSUME NEW from, NEW to, Runner(r, from, to)
      PROVE  /\ runner[r].at = from /\ runner'[r].at = to
             /\ \A o \in Runs \ {r} : runner'[o] = runner[o]
    BY <1>1, <1>7 DEF Runner
<1>8. ASSUME NEW c, Join(r, c)
      PROVE  runner'[r].at = "joining" /\ \A o \in Runs \ {r} : runner'[o] = runner[o]
    BY <1>1, <1>8 DEF Join
<1>9. CASE BeginRun(r)
    <2>1. Written(r, "running", run[r].enqueued, run[r].partial, run[r].accounted)
        BY <1>1, <1>3, <1>9, Writing DEF BeginRun
    <2>2. /\ run'[r].status = "running" /\ run'[r].enqueued = run[r].enqueued
          /\ \A o \in Runs \ {r} : run'[o] = run[o]
        BY <1>1, <2>1, WrittenRuns
    <2>3. /\ runner[r].at = "new" /\ runner'[r].at = "looking"
          /\ \A o \in Runs \ {r} : runner'[o] = runner[o]
        BY <1>7, <1>9 DEF BeginRun
    <2>4. job' = job
        BY <1>9 DEF BeginRun, server
    <2>5. run[r].enqueued = 0
        BY <1>1, <2>3 DEF RunSide
    <2>6. QED
        BY <1>5, <1>6, <2>2, <2>3, <2>4, <2>5 DEF Ended
<1>10. CASE LookForJob(r) \/ FindWinner(r)
    <2>1. /\ runner'[r].at \in {"inserting", "failing", "joining"}
          /\ \A o \in Runs \ {r} : runner'[o] = runner[o]
        BY <1>7, <1>8, <1>10 DEF LookForJob, FindWinner
    <2>2. job' = job /\ run' = run
        BY <1>10 DEF LookForJob, FindWinner, server, ledger
    <2>3. QED
        BY <1>1, <1>5, <1>6, <2>1, <2>2 DEF RunSide
<1>11. CASE InsertJob(r)
    <2>1. run' = run
        BY <1>11 DEF InsertJob, ledger
    <2>2. CASE ActiveJobs = {}
        <3>1. job' = [job EXCEPT ![r].status = "queued"]
            BY <1>11, <2>2 DEF InsertJob
        <3>2. Noted(r, "queued", job[r].result)
            BY <1>1, <3>1, JobParts, Noting DEF Active
        <3>3. /\ job'[r].status = "queued" /\ job'[r].result = job[r].result
              /\ \A o \in Runs \ {r} : job'[o] = job[o]
            BY <1>1, <3>2, NotedJobs
        <3>4. /\ runner'[r].at = "handing"
              /\ \A o \in Runs \ {r} : runner'[o] = runner[o]
            BY <1>7, <1>11, <2>2 DEF InsertJob
        <3>5. QED
            BY <1>1, <1>5, <1>6, <2>1, <3>3, <3>4 DEF RunSide
    <2>3. CASE ActiveJobs # {}
        <3>1. job' = job
            BY <1>11, <2>3 DEF InsertJob
        <3>2. /\ runner'[r].at = "raced"
              /\ \A o \in Runs \ {r} : runner'[o] = runner[o]
            BY <1>7, <1>11, <2>3 DEF InsertJob
        <3>3. QED
            BY <1>1, <1>5, <1>6, <2>1, <3>1, <3>2 DEF RunSide
    <2>4. QED
        BY <2>2, <2>3
<1>12. CASE Supersede(r)
    <2>1. /\ runner[r].at = "joining" /\ runner'[r].at = "done"
          /\ \A o \in Runs \ {r} : runner'[o] = runner[o]
        BY <1>1, <1>12 DEF Supersede
    <2>2. Open(r)
        BY <1>1, <2>1 DEF OnceAt, Open, Ended, Before
    <2>3. Written(r, "pending", 0, run[r].partial, run[r].accounted)
        BY <1>1, <1>3, <1>12, <2>2, Writing DEF Supersede, Superseded
    <2>4. /\ run'[r].status = "pending" /\ run'[r].enqueued = 0
          /\ \A o \in Runs \ {r} : run'[o] = run[o]
        BY <1>1, <2>3, WrittenRuns
    <2>5. job' = job
        BY <1>12 DEF Supersede, server
    <2>6. QED
        BY <1>5, <1>6, <2>1, <2>4, <2>5
<1>13. CASE HandOver(r)
    <2>1. /\ runner'[r].at = "done"
          /\ \A o \in Runs \ {r} : runner'[o] = runner[o]
        BY <1>7, <1>13 DEF HandOver
    <2>2. job' = job
        BY <1>13 DEF HandOver, server
    <2>3. CASE ~Open(r)
        <3>1. run' = run
            BY <1>13, <2>3 DEF HandOver, HandedOver
        <3>2. QED
            BY <1>1, <1>5, <1>6, <2>1, <2>2, <3>1 DEF RunSide
    <2>4. CASE Open(r)
        <3>1. run' = [run EXCEPT ![r].status = "queued", ![r].enqueued = 0, ![r].partial = FALSE]
            BY <1>13, <2>4 DEF HandOver, HandedOver
        <3>2. PICK a : Written(r, "queued", 0, FALSE, a)
            BY <1>1, <1>3, <3>1, Writing
        <3>3. /\ run'[r].status = "queued" /\ run'[r].enqueued = 0
              /\ \A o \in Runs \ {r} : run'[o] = run[o]
            BY <1>1, <3>2, WrittenRuns
        <3>4. QED
            BY <1>5, <1>6, <2>1, <2>2, <3>3
    <2>5. QED
        BY <2>3, <2>4
<1>14. CASE FailRun(r)
    <2>1. Written(r, "failed", run[r].enqueued, run[r].partial, TRUE)
        BY <1>1, <1>3, <1>14, Writing DEF FailRun
    <2>2. /\ run'[r].status = "failed" /\ run'[r].enqueued = run[r].enqueued
          /\ \A o \in Runs \ {r} : run'[o] = run[o]
        BY <1>1, <2>1, WrittenRuns
    <2>3. /\ runner[r].at = "failing" /\ runner'[r].at = "done"
          /\ \A o \in Runs \ {r} : runner'[o] = runner[o]
        BY <1>7, <1>14 DEF FailRun
    <2>4. job' = job
        BY <1>14 DEF FailRun, server
    <2>5. run[r].enqueued = 0
        BY <1>1, <2>3 DEF RunSide
    <2>6. QED
        BY <1>5, <1>6, <2>2, <2>3, <2>4, <2>5
<1>15. CASE RunThrows(r)
    <2>1. /\ runner'[r].at = "failing" /\ \A o \in Runs \ {r} : runner'[o] = runner[o]
        BY <1>1, <1>15, ThrowIs
    <2>2. run[r].enqueued = 0
        BY <1>1, <1>5 DEF RunSide
    <2>3. CASE UNCHANGED <<run, job>>
        BY <1>5, <1>6, <2>1, <2>2, <2>3
    <2>4. CASE run' = run /\ Noted(r, "queued", job[r].result)
        <3>1. /\ job'[r].status = "queued" /\ job'[r].result = job[r].result
              /\ \A o \in Runs \ {r} : job'[o] = job[o]
            BY <1>1, <2>4, NotedJobs
        <3>2. QED
            BY <1>5, <1>6, <2>1, <2>2, <2>4, <3>1
    <2>5. ASSUME NEW s \in {"pending", "queued"}, NEW b, NEW a, job' = job, Written(r, s, 0, b, a)
          PROVE  Sides' /\ Grows
        <3>1. /\ run'[r].status = s /\ run'[r].enqueued = 0
              /\ \A o \in Runs \ {r} : run'[o] = run[o]
            BY <1>1, <2>5, WrittenRuns
        <3>2. QED
            BY <1>5, <1>6, <2>1, <2>5, <3>1
    <2>6. QED
        BY <1>1, <1>15, <2>3, <2>4, <2>5, ThrowIs
<1>16. QED
    BY <1>9, <1>10, <1>11, <1>12, <1>13, <1>14, <1>15 DEF Producing, RunSource

LEMMA RunSourceKeeps ==
    ASSUME IInv, TypeOK', NEW r \in Runs, Producing(r)
    PROVE  Sides' /\ Followed' /\ Remember'
<1>1. Sides' /\ Grows
    BY SidesRunSource
<1>2. request' = request /\ acked' = acked
    BY RunnerTyped DEF IInv
<1>3. Followed'
    BY <1>1, <1>2, FollowedKept DEF IInv
<1>4. Remember'
    BY <1>1, <1>2, RememberKept DEF IInv
<1>5. QED
    BY <1>1, <1>3, <1>4

\* A Companion: only a claim changes the job, and a job whose result is on
\* record stays the same in it.
LEMMA CompanionKeeps ==
    ASSUME ~Overtaking, IInv, TypeOK', NEW p \in Companions, Companion(p) \/ Abandon(p)
    PROVE  Sides' /\ Followed' /\ Remember'
<1>1. TypeOK /\ Shaped /\ Sides /\ Followed /\ Remember
    BY DEF IInv
<1>2. /\ UNCHANGED <<run, receipts, runner, bodies, attempts, acked>> /\ attempts' >= attempts
    BY <1>1 DEF Companion, ReadOutbox, Poll, PollNothing, Execute, ExecuteFails, Submit, ClearSlot,
           Abandon, ledger, server, TypeOK
<1>3. CASE Poll(p)
    <2>1. PICK r \in Runs : Claimable(r) /\ job' = [job EXCEPT ![r].status = "leased"]
        BY <1>3 DEF Poll
    <2>2. request' = request
        BY <1>3 DEF Poll
    <2>3. Noted(r, "leased", job[r].result)
        BY <1>1, <2>1, JobParts, Noting DEF Active
    <2>4. /\ job'[r].status = "leased" /\ job'[r].result = job[r].result
          /\ \A o \in Runs \ {r} : job'[o] = job[o]
        BY <1>1, <2>3, NotedJobs
    <2>5. job[r].status \in Active /\ runner[r].at = "done"
        BY <2>1 DEF Claimable
    <2>6. \A o \in Runs \ {r} : RunSide(o)' /\ JobSide(o)'
        BY <1>1, <1>2, <2>4, SidesSame DEF Sides
    <2>7. \A o \in Runs : \A n : /\ Entered(o)' = Entered(o) /\ (Cov(o, n)' <=> Cov(o, n))
                                 /\ (Whole(o, n)' <=> Whole(o, n))
        BY <1>2 DEF Entered, Cov, Whole
    <2>8. RunSide(r)'
        BY <1>1, <1>2, <2>5, <2>7 DEF Sides, RunSide
    <2>9. JobSide(r)'
        BY <1>1, <1>2, <2>4, <2>7 DEF Sides, JobSide
    <2>10. Sides'
        BY <2>6, <2>8, <2>9 DEF Sides
    <2>11. \A o \in Runs : job'[o].result = job[o].result /\ (Decided(o)' <=> Decided(o))
        BY <2>4 DEF Decided
    <2>12. Decided(r) => job[r].status = "leased"
        BY <1>1, <2>5, JobParts DEF Sides, JobSide, Decided, Active
    <2>13. \A o \in Runs : Decided(o) =>
              /\ Decided(o)'
              /\ job'[o].status = "leased" => job[o].status = "leased" /\ job'[o].result = job[o].result
        BY <2>4, <2>11, <2>12
    <2>14. \A o \in Runs : job[o].status = "complete" => job'[o].status = "complete"
        BY <2>4, <2>5 DEF Active
    <2>15. Grows
        BY <1>2, <2>7, <2>11, <2>13, <2>14 DEF Grows
    <2>16. QED
        BY <1>1, <1>2, <2>2, <2>10, <2>15, FollowedKept, RememberKept
<1>4. CASE ~Poll(p)
    <2>1. job' = job
        BY <1>4 DEF Companion, ReadOutbox, PollNothing, Execute, ExecuteFails, Submit, ClearSlot,
                    Abandon, server
    <2>2. Sides'
        BY <1>1, <1>2, <2>1, SidesSame DEF Sides
    <2>3. Grows
        BY <1>1, <1>2, <2>1, GrowsSame
    <2>4. \A q \in Requests, h \in Handling : request'[q] = h => request[q] = h \/ Follow(h)'
        <3> SUFFICES ASSUME NEW q \in Requests, NEW h \in Handling, request'[q] = h,
                            request[q] # h
                     PROVE  Follow(h)'
            OBVIOUS
        <3>1. CASE Submit(p)
            <4>1. PICK o \in Requests : request' = [request EXCEPT ![o] = Arrived(p)]
                BY <3>1 DEF Submit
            <4>2. h = Arrived(p)
                BY <1>1, <4>1 DEF TypeOK
            <4>3. h.at = "arrived" /\ h.seen = NoResult /\ h.sent = 0
                BY <4>2 DEF Arrived
            <4>4. NoResult \notin Dispatch
                BY DispatchParts
            <4>5. Cov(h.run, 0)'
                BY DEF Cov
            <4>6. QED
                BY <4>3, <4>4, <4>5 DEF Follow
        <3>2. CASE Abandon(p)
            <4>1. request' = [o \in Requests |->
                        IF request[o].at # "idle" /\ request[o].from = p
                        THEN [request[o] EXCEPT !.from = None] ELSE request[o]]
                BY <3>2 DEF Abandon
            <4>2. request[q].at # "idle" /\ h = [request[q] EXCEPT !.from = None]
                BY <4>1
            <4>3. PICK g \in Handling : g = request[q]
                BY <1>1, <4>2, RequestParts
            <4>4. /\ h.at = g.at /\ h.run = g.run /\ h.print = g.print
                  /\ h.seen = g.seen /\ h.sent = g.sent
                BY <4>2, <4>3 DEF Handling
            <4>5. Follow(g) /\ Shape(g.at, g.print, g.seen)
                BY <1>1, <4>3 DEF Followed, Shaped
            <4>6. Follow(g)'
                BY <1>1, <2>3, <4>5, FollowKept
            <4>7. QED
                BY <4>4, <4>6 DEF Follow
        <3>3. CASE ~Submit(p) /\ ~Abandon(p)
            BY <1>4, <3>3 DEF Companion, ReadOutbox, PollNothing, Execute, ExecuteFails, ClearSlot,
                              server
        <3>4. QED
            BY <3>1, <3>2, <3>3
    <2>5. QED
        BY <1>1, <1>2, <2>1, <2>2, <2>3, <2>4, FollowedKept, RememberKept
<1>5. QED
    BY <1>3, <1>4

\* The queue has taken nothing, or fewer items.
LEMMA CovLess ==
    ASSUME TypeOK, NEW r \in Runs, NEW n \in Nat, NEW m \in Nat, n <= m, Cov(r, m)
    PROVE  Cov(r, n)
BY DEF Cov

LEMMA CovNone == \A r : Cov(r, 0)
BY DEF Cov

\* What a request that only reads then knows.
LEMMA ReadFollows ==
    ASSUME IInv, NEW q \in Requests, NEW g \in Handling, g = request[q],
           NEW s \in Stages, NEW d \in {NoResult} \cup Dispatch, NEW n \in Nat, Reads(q, s, d, n),
           NEW k \in Handling, k.at = s, k.seen = d, k.sent = n, k.run = g.run, k.print = g.print
    PROVE  Follow(k)
<1>1. /\ TypeOK /\ Follow(g) /\ Shape(g.at, g.print, g.seen)
      /\ g.run \in Runs /\ g.sent \in Nat /\ g.seen \in {NoResult} \cup Dispatch
      /\ g.at # "idle"
    BY HandlingParts DEF IInv, Followed, Shaped
<1>2. RunSide(g.run) /\ JobSide(g.run)
    BY <1>1 DEF IInv, Sides
<1>3. NoResult \notin Dispatch
    BY DispatchParts
<1>4. CASE /\ d = job[g.run].result /\ n = Accepted(d)
           /\ s = Course(q, d) /\ s # "refused"
    <2>1. /\ s \in {"completing", "beginning", "settling"}
          /\ s = "completing" => (d = NoResult /\ g.print = None) \/ (d \in Dispatch /\ d.phase = "accepted")
        BY <1>1, <1>4, CourseIs
    <2>2. CASE d = NoResult
        <3>1. n = 0
            BY <1>4, <2>2 DEF Accepted
        <3>2. QED
            BY <1>3, <2>1, <2>2, <3>1, CovNone DEF Follow
    <2>3. CASE d \in Dispatch
        <3>1. n = d.accepted
            BY <1>3, <1>4, <2>3 DEF Accepted
        <3>2. d.attempt < attempts /\ Cov(g.run, n)
            BY <1>2, <1>4, <2>3, <3>1 DEF JobSide
        <3>3. s = "completing" => Decided(g.run)
            BY <1>3, <1>4, <2>1, <2>3 DEF Decided
        <3>4. QED
            BY <2>1, <3>2, <3>3 DEF Follow
    <2>4. QED
        BY <2>2, <2>3
<1>5. CASE /\ s = "marking" /\ d = g.seen
           /\ g.at \in {"settling", "lost"} /\ Over(g.run)
           /\ n = Min({Count[d.print], run[g.run].enqueued})
    <2>1. d \in Dispatch /\ d.phase = "dispatching"
        BY <1>1, <1>5 DEF Shape, Dispatching
    <2>2. run[g.run].status \in Ended /\ run[g.run].enqueued \in Nat
        BY <1>1, <1>5, RunParts DEF Over
    <2>3. Cov(g.run, run[g.run].enqueued)
        BY <1>2, <2>2 DEF RunSide
    <2>4. Count[d.print] \in Nat
        BY <2>1, DispatchParts, CompanionAssumption
    <2>5. n <= run[g.run].enqueued
        BY <1>5, <2>2, <2>4, MinType
    <2>6. PICK e \in Nat : e = run[g.run].enqueued
        BY <2>2
    <2>7. Cov(g.run, n)
        BY <1>1, <2>3, <2>5, <2>6, CovLess
    <2>8. job[g.run].result = d => Whole(g.run, d.print)
        BY <1>2, <2>1, <2>3 DEF JobSide, Whole
    <2>9. d.attempt < attempts
        BY <1>1, <1>5, <2>1 DEF Follow
    <2>10. QED
        BY <1>5, <2>7, <2>8, <2>9 DEF Follow
<1>6. CASE s = "beginning" /\ d = g.seen /\ n = g.sent
    BY <1>1, <1>6 DEF Follow
<1>7. CASE /\ d = job[g.run].result /\ d # NoResult /\ n = d.accepted
           /\ (s = "completing" /\ d.phase = "accepted") \/ (s = "lost" /\ d.phase = "dispatching")
    <2>1. d \in Dispatch
        BY <1>7
    <2>2. d.attempt < attempts /\ Cov(g.run, n)
        BY <1>2, <1>7, <2>1 DEF JobSide
    <2>3. s = "completing" => Decided(g.run)
        BY <1>7 DEF Decided
    <2>4. QED
        BY <1>7, <2>2, <2>3 DEF Follow
<1>8. CASE /\ s = "finishing" /\ d = job[g.run].result /\ n = g.sent
           /\ g.at = "completing" /\ job[g.run].status = "leased"
           /\ g.print = None /\ g.seen = NoResult => d = NoResult
    <2>1. Cov(g.run, n) /\ ((g.seen = NoResult /\ g.print = None /\ g.sent = 0) \/ Decided(g.run))
        BY <1>1, <1>8 DEF Follow
    <2>2. d \in Dispatch => d.attempt < attempts
        BY <1>2, <1>8 DEF JobSide
    <2>3. Decided(g.run) => d # NoResult
        BY <1>8 DEF Decided
    <2>4. QED
        BY <1>8, <2>1, <2>2, <2>3 DEF Follow
<1>9. QED
    BY <1>4, <1>5, <1>6, <1>7, <1>8 DEF Reads

\* A request whose acknowledgement says that its result is accepted.
LEMMA AnswersTruly ==
    ASSUME IInv, NEW q \in Requests, request[q].at = "completing", request[q].print # None,
           job[request[q].run].status \in {"complete", "failed"}
    PROVE  job[request[q].run].status = "complete"
<1>1. PICK g \in Handling : g = request[q]
    BY RequestParts DEF IInv
<1>2. Follow(g) /\ g.run \in Runs
    BY <1>1, HandlingParts DEF IInv, Followed
<1>3. Decided(g.run)
    BY <1>1, <1>2 DEF Follow
<1>4. JobSide(g.run)
    BY <1>2 DEF IInv, Sides
<1>5. QED
    BY <1>1, <1>3, <1>4 DEF JobSide, Decided

\* A request that ends leaves the others as they are.
LEMMA FollowedAnswered ==
    ASSUME IInv, TypeOK', Grows, NEW q \in Requests, request'[q] = Idle,
           \A o \in Requests \ {q} : request'[o] = request[o]
    PROVE  Followed'
<1>1. \A o \in Requests, h \in Handling : request'[o] = h => request[o] = h \/ Follow(h)'
    BY HandlingParts
<1>2. QED
    BY <1>1, FollowedKept DEF IInv

\* A request that moves follows, and leaves the others as they are.
LEMMA FollowedMoved ==
    ASSUME IInv, TypeOK', Grows, NEW q \in Requests, NEW s, NEW d, NEW n, Moved(q, s, d, n),
           \A k \in Handling : /\ k.at = s /\ k.seen = d /\ k.sent = n
                               /\ k.run = request[q].run /\ k.print = request[q].print
                               => Follow(k)'
    PROVE  Followed'
<1>1. /\ request'[q].at = s /\ request'[q].seen = d /\ request'[q].sent = n
      /\ request'[q].run = request[q].run /\ request'[q].print = request[q].print
      /\ request'[q] \in Handling
      /\ \A o \in Requests \ {q} : request'[o] = request[o]
    BY MovedRequests DEF IInv
<1>2. \A o \in Requests, h \in Handling : request'[o] = h => request[o] = h \/ Follow(h)'
    BY <1>1
<1>3. QED
    BY <1>2, FollowedKept DEF IInv

LEMMA QuietFollows ==
    ASSUME IInv, TypeOK', NEW q \in Requests, Quiet(q)
    PROVE  Sides' /\ Followed' /\ Remember'
<1>1. TypeOK /\ Shaped /\ Sides /\ Followed /\ Remember
    BY DEF IInv
<1>2. /\ request[q].at # "idle"
      /\ UNCHANGED <<ledger, runner, job, attempts, slot, queue, bodies>>
      /\ \/ \E ok \in BOOLEAN :
                    /\ Answer(q, ok)
                    /\ ok => \/ job[request[q].run].status = "complete"
                             \/ /\ request[q].at = "completing"
                                /\ job[request[q].run].status \in {"complete", "failed"}
         \/ /\ UNCHANGED <<relay, acked>>
            /\ \E s \in Stages, d \in {NoResult} \cup Dispatch, n \in Nat :
                    Moved(q, s, d, n) /\ Reads(q, s, d, n)
    BY <1>1, Quietly, ShapedRequest
<1>3. UNCHANGED <<run, receipts, runner, job, attempts, bodies>> /\ attempts' >= attempts
    BY <1>1, <1>2 DEF ledger, TypeOK
<1>4. Sides'
    BY <1>1, <1>3, SidesSame DEF Sides
<1>5. Grows
    BY <1>1, <1>3, GrowsSame
<1>6. CASE \E ok \in BOOLEAN :
                    /\ Answer(q, ok)
                    /\ ok => \/ job[request[q].run].status = "complete"
                             \/ /\ request[q].at = "completing"
                                /\ job[request[q].run].status \in {"complete", "failed"}
    <2>1. PICK ok \in BOOLEAN :
                    /\ Answer(q, ok)
                    /\ ok => \/ job[request[q].run].status = "complete"
                             \/ /\ request[q].at = "completing"
                                /\ job[request[q].run].status \in {"complete", "failed"}
        BY <1>6
    <2>2. /\ request'[q] = Idle
          /\ \A o \in Requests \ {q} : request'[o] = request[o]
          /\ \A a \in acked' : \/ a \in acked
                               \/ a.run = request[q].run /\ ok /\ request[q].print # None
        BY <1>1, <1>2, <2>1, Answering
    <2>3. Followed'
        BY <1>5, <2>2, FollowedAnswered
    <2>4. ok /\ request[q].print # None => job[request[q].run].status = "complete"
        BY <2>1, AnswersTruly
    <2>5. \A a \in acked' : a \in acked \/ job'[a.run].status = "complete"
        BY <1>3, <2>2, <2>4
    <2>6. QED
        BY <1>1, <1>4, <1>5, <2>3, <2>5, RememberKept
<1>7. CASE /\ UNCHANGED <<relay, acked>>
           /\ \E s \in Stages, d \in {NoResult} \cup Dispatch, n \in Nat :
                    Moved(q, s, d, n) /\ Reads(q, s, d, n)
    <2>1. PICK s \in Stages, d \in {NoResult} \cup Dispatch, n \in Nat :
                Moved(q, s, d, n) /\ Reads(q, s, d, n)
        BY <1>7
    <2>2. PICK g \in Handling : g = request[q]
        BY <1>1, <1>2, RequestParts
    <2>3. \A k \in Handling : /\ k.at = s /\ k.seen = d /\ k.sent = n
                              /\ k.run = request[q].run /\ k.print = request[q].print
                              => Follow(k)'
        <3> SUFFICES ASSUME NEW k \in Handling, k.at = s, k.seen = d, k.sent = n,
                            k.run = g.run, k.print = g.print
                     PROVE  Follow(k)'
            BY <2>2
        <3>1. Follow(k)
            BY <2>1, <2>2, ReadFollows
        <3>2. Follow(k)' <=> Follow(k)
            BY <1>3 DEF Follow, Cov, Whole, Decided, Entered
        <3>3. QED
            BY <3>1, <3>2
    <2>4. Followed'
        BY <1>5, <2>1, <2>3, FollowedMoved
    <2>5. QED
        BY <1>1, <1>4, <1>5, <1>7, <2>4, RememberKept
<1>8. QED
    BY <1>2, <1>6, <1>7

\* The compare-and-set on the record of a job.
LEMMA PhaseKeeps ==
    ASSUME IInv, TypeOK', NEW q \in Requests, request[q].at # "idle", NEW d \in Dispatch,
           NEW s \in {"accepted", "retryable"}, NEW n \in Nat, SetPhase(q, d, s, n),
           UNCHANGED <<run, receipts, runner, bodies, attempts>>,
           d.phase = "dispatching", Cov(request[q].run, n),
           s = "accepted" /\ job[request[q].run].result = d => Whole(request[q].run, d.print)
    PROVE  Sides' /\ Grows
<1>1. TypeOK /\ Sides
    BY DEF IInv
<1>2. attempts' >= attempts
    BY <1>1 DEF TypeOK
<1>3. PICK r \in Runs : r = request[q].run
    BY <1>1, RequestParts, HandlingParts
<1>4. CASE job' = job
    <2>1. Sides'
        BY <1>1, <1>2, <1>4, SidesSame DEF Sides
    <2>2. QED
        BY <1>1, <1>4, <2>1, GrowsSame
<1>5. CASE /\ job[r].status = "leased" /\ job[r].result = d
           /\ Noted(r, "leased", [d EXCEPT !.phase = s, !.accepted = n])
    <2>1. PICK e \in Dispatch : /\ e = [d EXCEPT !.phase = s, !.accepted = n]
                                /\ e.phase = s /\ e.accepted = n
                                /\ e.print = d.print /\ e.attempt = d.attempt
        <3>1. s \in {"dispatching", "accepted", "retryable"}
            OBVIOUS
        <3>2. LET e == [d EXCEPT !.phase = s, !.accepted = n]
              IN /\ e \in Dispatch /\ e.phase = s /\ e.accepted = n
                 /\ e.print = d.print /\ e.attempt = d.attempt
            BY <3>1 DEF Dispatch
        <3>3. QED
            BY <3>2
    <2>2. /\ job'[r].status = "leased" /\ job'[r].result = e
          /\ \A o \in Runs \ {r} : job'[o] = job[o]
        BY <1>1, <1>5, <2>1, NotedJobs
    <2>3. RunSide(r) /\ JobSide(r)
        BY <1>1 DEF Sides
    <2>4. \A o \in Runs \ {r} : RunSide(o)' /\ JobSide(o)'
        BY <1>1, <1>2, <2>2, SidesSame DEF Sides
    <2>5. \A o \in Runs : \A x : /\ Entered(o)' = Entered(o) /\ (Cov(o, x)' <=> Cov(o, x))
                                 /\ (Whole(o, x)' <=> Whole(o, x))
        BY DEF Entered, Cov, Whole
    <2>6. RunSide(r)'
        BY <1>5, <2>3, <2>5 DEF RunSide
    <2>7. JobSide(r)'
        <3>1. /\ run[r].status \in {"queued"} \cup Ended
              /\ d.attempt < attempts
            BY <1>5, <2>3 DEF JobSide
        <3>2. e.phase # "dispatching"
            BY <2>1
        <3>3. e.phase = "accepted" => Whole(r, e.print)
            BY <1>3, <1>5, <2>1
        <3>4. Cov(r, e.accepted)
            BY <1>3, <2>1
        <3>5. QED
            BY <2>1, <2>2, <2>5, <3>1, <3>2, <3>3, <3>4 DEF JobSide
    <2>8. Sides'
        BY <2>4, <2>6, <2>7 DEF Sides
    <2>9. ~Decided(r)
        BY <1>5 DEF Decided
    <2>10. \A o \in Runs :
             \/ /\ job'[o].result = job[o].result
                /\ job[o].result \in Dispatch /\ run[o].partial => run'[o].partial
             \/ /\ job'[o].result \in Dispatch
                /\ job'[o].result.attempt >= attempts \/ job'[o].result.phase # "dispatching"
        BY <2>1, <2>2
    <2>11. \A o \in Runs : Decided(o) =>
              /\ Decided(o)'
              /\ job'[o].status = "leased" => job[o].status = "leased" /\ job'[o].result = job[o].result
        BY <2>2, <2>9 DEF Decided
    <2>12. \A o \in Runs : job[o].status = "complete" => job'[o].status = "complete"
        BY <1>5, <2>2
    <2>13. Grows
        BY <1>2, <2>5, <2>10, <2>11, <2>12 DEF Grows
    <2>14. QED
        BY <2>8, <2>13
<1>6. s \in {"dispatching", "accepted", "retryable"}
    OBVIOUS
<1>7. \/ job' = job
      \/ /\ job[r].status = "leased" /\ job[r].result = d
         /\ Noted(r, "leased", [d EXCEPT !.phase = s, !.accepted = n])
    <2>1. /\ job' \in [Runs -> JobRow]
          /\ \/ /\ job[request[q].run].status = "leased" /\ job[request[q].run].result = d
                /\ Noted(request[q].run, "leased", [d EXCEPT !.phase = s, !.accepted = n])
             \/ /\ ~(job[request[q].run].status = "leased" /\ job[request[q].run].result = d)
                /\ job' = job
        BY <1>1, <1>6, Phased, ZenonT(60)
    <2>2. QED
        BY <1>3, <2>1
<1>8. QED
    BY <1>4, <1>5, <1>7

LEMMA ConfirmKeeps ==
    ASSUME IInv, TypeOK', NEW q \in Requests, Mark(q) \/ Accept(q)
    PROVE  Sides' /\ Followed' /\ Remember'
<1>1. TypeOK /\ Shaped /\ Sides /\ Followed /\ Remember
    BY DEF IInv
<1>2. PICK g \in Handling : g = request[q]
    BY <1>1, RequestParts DEF Mark, Accept
<1>3. /\ g.at \in {"marking", "accepting"} /\ g.at # "idle" /\ g.run \in Runs
      /\ g.seen \in Dispatch /\ g.seen.phase = "dispatching" /\ g.sent \in Nat
      /\ SetPhase(q, g.seen, "accepted", g.sent)
      /\ UNCHANGED <<run, receipts, runner, bodies, attempts>>
      /\ \E n \in Nat : /\ Confirmed(q, g.seen, n)
                        /\ n = g.sent \/ n = Accepted(job'[g.run].result)
    <2>1. g.at \in {"marking", "accepting"}
        BY <1>1, <1>2, ConfirmIs
    <2>2. g.at # "idle"
        BY <2>1
    <2>3. QED
        BY <1>1, <1>2, <2>1, <2>2, ConfirmIs DEF ledger
<1>4. /\ Cov(g.run, g.sent) /\ (job[g.run].result = g.seen => Whole(g.run, g.seen.print))
      /\ g.seen.attempt < attempts
    <2>1. Follow(g)
        BY <1>1, <1>2 DEF Followed
    <2>2. QED
        BY <1>3, <2>1 DEF Follow
<1>5. Sides' /\ Grows
    <2>1. "accepted" \in {"accepted", "retryable"}
        OBVIOUS
    <2>2. QED
        BY <1>2, <1>3, <1>4, <2>1, PhaseKeeps
<1>6. PICK n \in Nat : /\ Confirmed(q, g.seen, n)
                       /\ n = g.sent \/ n = Accepted(job'[g.run].result)
    BY <1>3
<1>7. CASE /\ Moved(q, "completing", g.seen, n)
           /\ job'[g.run].result # NoResult
           /\ job'[g.run].result.phase = "accepted"
           /\ UNCHANGED <<relay, acked>>
    <2>1. Decided(g.run)'
        BY <1>7 DEF Decided
    <2>2. Entered(g.run)' = Entered(g.run)
        BY <1>3 DEF Entered
    <2>3. Cov(g.run, n)'
        <3>1. CASE n = g.sent
            BY <1>4, <2>2, <3>1 DEF Cov
        <3>2. CASE n = Accepted(job'[g.run].result)
            <4>1. job'[g.run] \in JobRow
                BY <1>3 DEF TypeOK
            <4>2. PICK d \in Dispatch : d = job'[g.run].result
                BY <1>7, <4>1 DEF JobRow
            <4>3. n = d.accepted
                BY <3>2, <4>2, DispatchParts DEF Accepted
            <4>4. JobSide(g.run)'
                BY <1>3, <1>5 DEF Sides
            <4>5. QED
                BY <4>2, <4>3, <4>4 DEF JobSide
        <3>3. QED
            BY <1>6, <3>1, <3>2
    <2>4. g.seen.attempt < attempts'
        BY <1>3, <1>4
    <2>5. \A k \in Handling : /\ k.at = "completing" /\ k.seen = g.seen /\ k.sent = n
                              /\ k.run = request[q].run /\ k.print = request[q].print
                              => Follow(k)'
        BY <1>2, <2>1, <2>3, <2>4 DEF Follow
    <2>6. Followed'
        BY <1>5, <1>7, <2>5, FollowedMoved
    <2>7. QED
        BY <1>1, <1>5, <1>7, <2>6, RememberKept
<1>8. CASE Answer(q, job[g.run].status = "complete")
    <2>1. PICK ok \in BOOLEAN : ok = (job[g.run].status = "complete")
        OBVIOUS
    <2>2. Answer(q, ok)
        BY <1>8, <2>1
    <2>3. /\ request'[q] = Idle
          /\ \A o \in Requests \ {q} : request'[o] = request[o]
          /\ \A a \in acked' : \/ a \in acked
                               \/ a.run = request[q].run /\ ok /\ request[q].print # None
        BY <1>1, <1>2, <1>3, <2>2, Answering
    <2>4. Followed'
        BY <1>5, <2>3, FollowedAnswered
    <2>5. \A a \in acked' : a \in acked \/ job'[a.run].status = "complete"
        BY <1>2, <1>3, <1>5, <2>1, <2>3 DEF Grows
    <2>6. QED
        BY <1>1, <1>5, <2>4, <2>5, RememberKept
<1>9. QED
    BY <1>1, <1>2, <1>3, <1>6, <1>7, <1>8, Confirming

LEMMA WithdrawKeeps ==
    ASSUME IInv, TypeOK', NEW q \in Requests, Withdraw(q)
    PROVE  Sides' /\ Followed' /\ Remember'
<1>1. TypeOK /\ Shaped /\ Sides /\ Followed /\ Remember
    BY DEF IInv
<1>2. /\ request[q].at # "idle" /\ request[q].run \in Runs
      /\ request[q].seen \in Dispatch /\ request[q].seen.phase = "dispatching"
      /\ SetPhase(q, request[q].seen, "retryable", 0)
      /\ Answer(q, FALSE)
      /\ UNCHANGED <<run, receipts, runner, bodies, attempts>>
    <2>1. request[q].at = "withdrawing"
        BY <1>1, WithdrawIs
    <2>2. QED
        BY <1>1, <2>1, WithdrawIs DEF ledger
<1>3. Sides' /\ Grows
    <2>1. PICK d \in Dispatch : d = request[q].seen
        BY <1>2
    <2>2. PICK s \in {"accepted", "retryable"} : s = "retryable"
        OBVIOUS
    <2>3. SetPhase(q, d, s, 0) /\ s # "accepted" /\ d.phase = "dispatching" /\ 0 \in Nat
        BY <1>2, <2>1, <2>2
    <2>4. Cov(request[q].run, 0)
        BY CovNone
    <2>5. QED
        BY <1>2, <2>3, <2>4, PhaseKeeps
<1>4. /\ request'[q] = Idle
      /\ \A o \in Requests \ {q} : request'[o] = request[o]
      /\ \A a \in acked' : a \in acked
    BY <1>1, <1>2, Answering
<1>5. Followed'
    BY <1>3, <1>4, FollowedAnswered
<1>6. QED
    BY <1>1, <1>3, <1>4, <1>5, RememberKept

LEMMA BeginKeeps ==
    ASSUME IInv, TypeOK', NEW q \in Requests, Begin(q)
    PROVE  Sides' /\ Followed' /\ Remember'
<1>1. TypeOK /\ Shaped /\ Sides /\ Followed /\ Remember
    BY DEF IInv
<1>2. PICK g \in Handling : g = request[q]
    BY <1>1, RequestParts DEF Begin
<1>3. /\ g.at = "beginning" /\ g.at # "idle" /\ g.run \in Runs /\ g.sent \in Nat
      /\ g.seen \in {NoResult} \cup Dispatch
      /\ Shape(g.at, g.print, g.seen) /\ Follow(g)
    BY <1>1, <1>2, HandlingParts DEF Begin, Shaped, Followed
<1>4. CASE ~Owned(q)
    <2>1. UNCHANGED <<run, receipts, runner, job, attempts, bodies, acked>>
        BY <1>4 DEF Begin
    <2>2. Moved(q, "losing", g.seen, g.sent)
        BY <1>1, <1>2, <1>3, <1>4, Moving DEF Begin, Goto, Stages
    <2>3. attempts' >= attempts
        BY <1>1, <2>1 DEF TypeOK
    <2>4. Sides'
        BY <1>1, <2>1, <2>3, SidesSame DEF Sides
    <2>5. Grows
        BY <1>1, <2>1, GrowsSame
    <2>6. Follow(g)'
        BY <1>1, <1>3, <2>5, FollowKept
    <2>7. \A k \in Handling : /\ k.at = "losing" /\ k.seen = g.seen /\ k.sent = g.sent
                              /\ k.run = request[q].run /\ k.print = request[q].print
                              => Follow(k)'
        BY <1>2, <2>6 DEF Follow
    <2>8. Followed'
        BY <2>2, <2>5, <2>7, FollowedMoved
    <2>9. QED
        BY <1>1, <2>1, <2>4, <2>5, <2>8, RememberKept
<1>5. CASE Owned(q)
    <2>1. PICK d \in Dispatch, s \in {"accepting", "sending"} :
               /\ d.phase = "dispatching" /\ d.print = request[q].print /\ d.attempt = attempts
               /\ d.accepted = 0
               /\ s = "accepting" => Count[d.print] = 0
               /\ Noted(request[q].run, "leased", d)
               /\ Written(request[q].run, "queued", Count[d.print], d.print \in PartialPrints,
                          run[request[q].run].accounted)
               /\ Moved(q, s, d, 0)
               /\ attempts' = attempts + 1
               /\ UNCHANGED <<receipts, health, runner, relay, acked, slot, queue, bodies, faults>>
        BY <1>1, <1>2, <1>3, <1>5, BeginIs
    <2>2. PICK r \in Runs : r = g.run
        BY <1>3
    <2>3. /\ job'[r].status = "leased" /\ job'[r].result = d
          /\ \A o \in Runs \ {r} : job'[o] = job[o]
        BY <1>1, <1>2, <2>1, <2>2, NotedJobs
    <2>4. /\ run'[r].status = "queued" /\ run'[r].enqueued = Count[d.print]
          /\ \A o \in Runs \ {r} : run'[o] = run[o]
        <3>1. PICK n, b, a : Written(r, "queued", n, b, a) /\ n = Count[d.print]
            BY <1>2, <2>1, <2>2
        <3>2. QED
            BY <1>1, <3>1, WrittenRuns
    <2>5. /\ job[r].status = "leased" /\ job[r].result = g.seen
          /\ g.seen = NoResult \/ g.seen.phase # "accepted"
        BY <1>2, <1>3, <1>5, <2>2 DEF Owned, Shape
    <2>6. ~Decided(r)
        BY <2>5 DEF Decided
    <2>7. attempts \in Nat /\ attempts' >= attempts /\ d.attempt < attempts' /\ d.attempt >= attempts
        BY <1>1, <2>1 DEF TypeOK
    <2>8. \A o \in Runs : \A x : /\ Entered(o)' = Entered(o) /\ (Cov(o, x)' <=> Cov(o, x))
        BY <2>1 DEF Entered, Cov
    <2>9. \A o \in Runs \ {r} : RunSide(o)' /\ JobSide(o)'
        BY <1>1, <2>1, <2>3, <2>4, <2>7, SidesSame DEF Sides
    <2>10. RunSide(r)'
        <3>1. RunSide(r) /\ OnceAt(r)
            BY DEF IInv, Sides, Once
        <3>2. runner[r].at = "done" /\ runner'[r].at = "done"
            BY <1>2, <1>3, <2>1, <2>2 DEF IInv, Placed, Done, Handling
        <3>3. QED
            BY <2>1, <2>4, <2>8, <3>1, <3>2 DEF RunSide, Ended
    <2>11. JobSide(r)'
        <3>1. Cov(r, d.accepted)'
            BY <2>1, <2>8, CovNone
        <3>2. QED
            BY <2>1, <2>3, <2>4, <2>7, <3>1 DEF JobSide
    <2>12. Sides'
        BY <2>9, <2>10, <2>11 DEF Sides
    <2>13. \A o \in Runs :
             \/ /\ job'[o].result = job[o].result
                /\ job[o].result \in Dispatch /\ run[o].partial => run'[o].partial
             \/ /\ job'[o].result \in Dispatch
                /\ job'[o].result.attempt >= attempts \/ job'[o].result.phase # "dispatching"
        BY <2>3, <2>4, <2>7
    <2>14. \A o \in Runs : Decided(o) =>
              /\ Decided(o)'
              /\ job'[o].status = "leased" => job[o].status = "leased" /\ job'[o].result = job[o].result
        BY <2>3, <2>6 DEF Decided
    <2>15. \A o \in Runs : job[o].status = "complete" => job'[o].status = "complete"
        BY <2>3, <2>5
    <2>16. Grows
        BY <2>7, <2>8, <2>13, <2>14, <2>15 DEF Grows
    <2>17. \A k \in Handling : /\ k.at = s /\ k.seen = d /\ k.sent = 0
                               /\ k.run = request[q].run /\ k.print = request[q].print
                               => Follow(k)'
        <3> SUFFICES ASSUME NEW k \in Handling, k.at = s, k.seen = d, k.sent = 0, k.run = r
                     PROVE  Follow(k)'
            BY <1>2, <2>2
        <3>1. Cov(r, 0)'
            BY <2>8, CovNone
        <3>2. s = "accepting" => Whole(r, d.print)'
            BY <2>1, <3>1 DEF Whole
        <3>3. QED
            BY <2>7, <3>1, <3>2 DEF Follow
    <2>18. Followed'
        BY <2>1, <2>16, <2>17, FollowedMoved
    <2>19. QED
        BY <1>1, <2>1, <2>12, <2>16, <2>18, RememberKept
<1>6. QED
    BY <1>4, <1>5

LEMMA SendKeeps ==
    ASSUME IInv, TypeOK', NEW q \in Requests, Send(q) \/ SendThrows(q)
    PROVE  Sides' /\ Followed' /\ Remember'
<1>1. TypeOK /\ Shaped /\ Sides /\ Followed /\ Remember
    BY DEF IInv
<1>2. PICK g \in Handling : g = request[q]
    BY <1>1, RequestParts DEF Send, SendThrows
<1>3. /\ g.at = "sending" /\ g.run \in Runs /\ g.sent \in Nat
      /\ Shape(g.at, g.print, g.seen) /\ Follow(g)
    BY <1>1, <1>2, HandlingParts DEF Send, SendThrows, Shaped, Followed
<1>4. g.seen \in Dispatch /\ g.print = g.seen.print /\ g.seen.attempt < attempts
    BY <1>3 DEF Shape, Dispatching, Follow
<1>5. PICK m \in Message :
        /\ m.run = g.run /\ m.item = g.sent
        /\ UNCHANGED <<ledger, runner, job, attempts, local>>
        /\ \/ /\ bodies' = bodies \cup {m}
              /\ \E s \in {"accepting", "sending"} :
                    /\ Moved(q, s, g.seen, g.sent + 1)
                    /\ s = "accepting" => g.sent + 1 = Count[g.print]
           \/ /\ bodies' \in {bodies, bodies \cup {m}}
              /\ \E s \in {"withdrawing", "revising"} : Moved(q, s, g.seen, g.sent)
    BY <1>1, <1>2, <1>3, SendIs
<1>6. /\ UNCHANGED <<run, receipts, runner, job, attempts, acked>> /\ attempts' >= attempts
    BY <1>1, <1>5 DEF ledger, local, TypeOK
<1>7. \A r \in Runs : \/ Entered(r)' = Entered(r)
                      \/ r = g.run /\ Entered(r)' = Entered(r) \cup {g.sent}
    <2>1. CASE bodies' = bodies
        BY <2>1 DEF Entered
    <2>2. CASE bodies' = bodies \cup {m}
        BY <1>5, <2>2, EnteredAdds
    <2>3. QED
        BY <1>5, <2>1, <2>2
<1>8. \A r \in Runs : \A x : (Cov(r, x) => Cov(r, x)') /\ (Whole(r, x) => Whole(r, x)')
    BY <1>6, <1>7 DEF Cov, Whole
<1>9. Cov(g.run, g.sent) /\ Cov(g.run, g.sent)'
    BY <1>3, <1>8 DEF Follow
<1>10. Sides'
    <2> SUFFICES ASSUME NEW r \in Runs PROVE RunSide(r)' /\ JobSide(r)'
        BY DEF Sides
    <2>1. RunSide(r) /\ JobSide(r)
        BY <1>1 DEF Sides
    <2>2. \A i \in Entered(r)' : Cov(r, i)'
        BY <1>7, <1>8, <1>9, <2>1 DEF RunSide
    <2>3. RunSide(r)'
        BY <1>6, <1>7, <1>8, <2>1, <2>2 DEF RunSide
    <2>4. Decided(r)' <=> Decided(r)
        BY <1>6 DEF Decided
    <2>5. JobSide(r)'
        BY <1>6, <1>8, <2>1, <2>4 DEF JobSide
    <2>6. QED
        BY <2>3, <2>5
<1>11. Grows
    <2>1. \A r \in Runs : Decided(r)' <=> Decided(r)
        BY <1>6 DEF Decided
    <2>2. QED
        BY <1>6, <1>7, <2>1 DEF Grows
<1>12. CASE /\ bodies' = bodies \cup {m}
            /\ \E s \in {"accepting", "sending"} :
                    /\ Moved(q, s, g.seen, g.sent + 1)
                    /\ s = "accepting" => g.sent + 1 = Count[g.print]
    <2>1. PICK s \in {"accepting", "sending"} :
                    /\ Moved(q, s, g.seen, g.sent + 1)
                    /\ s = "accepting" => g.sent + 1 = Count[g.print]
        BY <1>12
    <2>2. PICK n \in Nat : n = g.sent + 1
        BY <1>3
    <2>3. Entered(g.run)' = Entered(g.run) \cup {g.sent}
        BY <1>3, <1>5, <1>12, EnteredAdds
    <2>4. Cov(g.run, n)'
        BY <1>3, <1>9, <2>2, <2>3 DEF Cov
    <2>5. s = "accepting" => Whole(g.run, g.seen.print)'
        BY <1>4, <2>1, <2>2, <2>4 DEF Whole
    <2>6. g.seen.attempt < attempts'
        BY <1>4, <1>6
    <2>7. \A k \in Handling : /\ k.at = s /\ k.seen = g.seen /\ k.sent = n
                              /\ k.run = request[q].run /\ k.print = request[q].print
                              => Follow(k)'
        BY <1>2, <2>4, <2>5, <2>6 DEF Follow
    <2>8. Followed'
        BY <1>11, <2>1, <2>2, <2>7, FollowedMoved
    <2>9. QED
        BY <1>1, <1>6, <1>10, <1>11, <2>8, RememberKept
<1>13. CASE \E s \in {"withdrawing", "revising"} : Moved(q, s, g.seen, g.sent)
    <2>1. PICK s \in {"withdrawing", "revising"} : Moved(q, s, g.seen, g.sent)
        BY <1>13
    <2>2. \A k \in Handling : /\ k.at = s /\ k.seen = g.seen /\ k.sent = g.sent
                              /\ k.run = request[q].run /\ k.print = request[q].print
                              => Follow(k)'
        BY <1>2, <1>4, <1>6, <1>9 DEF Follow
    <2>3. Followed'
        BY <1>11, <2>1, <2>2, FollowedMoved
    <2>4. QED
        BY <1>1, <1>6, <1>10, <1>11, <2>3, RememberKept
<1>14. QED
    BY <1>5, <1>12, <1>13

LEMMA ReviseKeeps ==
    ASSUME IInv, TypeOK', NEW q \in Requests, Revise(q)
    PROVE  Sides' /\ Followed' /\ Remember'
<1>1. TypeOK /\ Shaped /\ Sides /\ Followed /\ Remember
    BY DEF IInv
<1>2. PICK g \in Handling : g = request[q]
    BY <1>1, RequestParts DEF Revise
<1>3. /\ g.at = "revising" /\ g.run \in Runs /\ g.sent \in Nat
      /\ Shape(g.at, g.print, g.seen) /\ Follow(g)
    BY <1>1, <1>2, HandlingParts DEF Revise, Shaped, Followed
<1>4. /\ g.seen \in Dispatch /\ g.seen.phase = "dispatching" /\ g.seen.attempt < attempts
      /\ Cov(g.run, g.sent)
    BY <1>3 DEF Shape, Dispatching, Follow
<1>5. PICK r \in Runs : r = g.run
    BY <1>3
<1>6. /\ Moved(q, "replaying", g.seen, g.sent)
      /\ UNCHANGED <<receipts, health, runner, job, attempts, local, queue, bodies, faults>>
      /\ \/ /\ run[r].status = "queued"
            /\ \E a : Written(r, "queued", g.sent, TRUE, a)
         \/ run[r].status # "queued" /\ run' = run
    BY <1>1, <1>2, <1>5, ReviseIs
<1>7. /\ UNCHANGED <<receipts, runner, job, attempts, bodies, acked>> /\ attempts' >= attempts
    BY <1>1, <1>6 DEF local, TypeOK
<1>8. \A o \in Runs : \A x : /\ Entered(o)' = Entered(o) /\ (Cov(o, x)' <=> Cov(o, x))
                             /\ (Decided(o)' <=> Decided(o))
    BY <1>7 DEF Entered, Cov, Decided
<1>9. RunSide(r) /\ JobSide(r) /\ OnceAt(r)
    BY <1>1 DEF IInv, Sides, Once
<1>10. /\ \A o \in Runs \ {r} : run'[o] = run[o]
       /\ \/ /\ run[r].status = "queued" /\ run'[r].status = "queued" /\ run'[r].partial
          \/ run[r].status # "queued" /\ run' = run
    BY <1>1, <1>6, WrittenRuns
<1>11. \A o \in Runs \ {r} : RunSide(o)' /\ JobSide(o)'
    BY <1>1, <1>7, <1>10, SidesSame DEF Sides
<1>12. RunSide(r)' /\ JobSide(r)'
    <2>1. CASE run' = run
        BY <1>1, <1>7, <1>9, <2>1, SidesSame
    <2>2. CASE run[r].status = "queued" /\ run'[r].status = "queued" /\ run'[r].partial
        <3>1. runner[r].at = "done" /\ runner'[r].at = "done"
            BY <1>2, <1>3, <1>5, <1>7 DEF IInv, Placed, Done, Handling
        <3>2. RunSide(r)'
            BY <1>7, <1>8, <1>9, <2>2, <3>1 DEF RunSide, Ended
        <3>3. \A f : Whole(r, f)'
            BY <2>2 DEF Whole
        <3>4. JobSide(r)'
            BY <1>7, <1>8, <1>9, <2>2, <3>3 DEF JobSide
        <3>5. QED
            BY <3>2, <3>4
    <2>3. QED
        BY <1>10, <2>1, <2>2
<1>13. Sides'
    BY <1>11, <1>12 DEF Sides
<1>14. Grows
    <2>1. \A o \in Runs : run[o].partial => run'[o].partial
        BY <1>10
    <2>2. QED
        BY <1>7, <1>8, <2>1 DEF Grows
\* A run that is no longer queued has ended with the items that it counts.
<1>15. job'[r].result = g.seen => Whole(r, g.seen.print)'
    <2> SUFFICES ASSUME job'[r].result = g.seen PROVE Whole(r, g.seen.print)'
        OBVIOUS
    <2>1. CASE run'[r].partial
        BY <2>1 DEF Whole
    <2>2. CASE run[r].status # "queued" /\ run' = run
        <3>1. job[r].result = g.seen
            BY <1>7
        <3>2. run[r].status \in Ended /\ (run[r].partial \/ run[r].enqueued = Count[g.seen.print])
            BY <1>4, <1>9, <2>2, <3>1 DEF JobSide
        <3>3. Cov(r, run[r].enqueued)
            BY <1>9, <3>2 DEF RunSide
        <3>4. CASE run[r].partial
            BY <2>2, <3>4 DEF Whole
        <3>5. CASE run[r].enqueued = Count[g.seen.print]
            BY <1>8, <3>3, <3>5 DEF Whole
        <3>6. QED
            BY <3>2, <3>4, <3>5
    <2>3. QED
        BY <1>10, <2>1, <2>2
<1>16. \A k \in Handling : /\ k.at = "replaying" /\ k.seen = g.seen /\ k.sent = g.sent
                           /\ k.run = request[q].run /\ k.print = request[q].print
                           => Follow(k)'
    <2>1. Cov(r, g.sent)' /\ g.seen.attempt < attempts'
        BY <1>4, <1>5, <1>7, <1>8
    <2>2. QED
        BY <1>2, <1>5, <1>15, <2>1 DEF Follow
<1>17. Followed'
    BY <1>6, <1>14, <1>16, FollowedMoved
<1>18. QED
    BY <1>1, <1>7, <1>13, <1>14, <1>17, RememberKept

\* An aggregation: the queue has taken every item of a run that it ends.
LEMMA AggregateKeeps ==
    ASSUME IInv, TypeOK', NEW r \in Runs, NEW rc \in Receipts, Aggregate(r, rc),
           rc.done \cup rc.failed \subseteq Entered(r),
           receipts' = [receipts EXCEPT ![r] = rc],
           UNCHANGED <<runner, job, attempts, bodies>>
    PROVE  Sides' /\ Grows
<1>1. TypeOK /\ Sides /\ RunSide(r) /\ JobSide(r) /\ OnceAt(r)
    BY DEF IInv, Sides, Once
<1>2. /\ receipts'[r] = rc /\ \A o \in Runs \ {r} : receipts'[o] = receipts[o]
      /\ attempts' >= attempts
    BY <1>1 DEF TypeOK
<1>3. \A o \in Runs : \A x : /\ Entered(o)' = Entered(o) /\ (Cov(o, x)' <=> Cov(o, x))
                             /\ (Decided(o)' <=> Decided(o))
    BY DEF Entered, Cov, Decided
<1>4. /\ \A o \in Runs \ {r} : run'[o] = run[o]
      /\ run'[r].enqueued = run[r].enqueued /\ run'[r].partial = run[r].partial
      /\ \/ run'[r].status = run[r].status
         \/ Complete(r, rc) /\ run'[r].status \in Ended
    BY <1>1, Aggregating
<1>5. \A o \in Runs \ {r} : RunSide(o)' /\ JobSide(o)'
    BY <1>1, <1>2, <1>4, SidesSame DEF Sides
<1>6. Complete(r, rc) => /\ run[r].status = "queued" /\ runner[r].at # "new"
                         /\ Cov(r, run[r].enqueued)
    <2> SUFFICES ASSUME Complete(r, rc)
                 PROVE  /\ run[r].status = "queued" /\ runner[r].at # "new"
                        /\ Cov(r, run[r].enqueued)
        OBVIOUS
    <2>1. run[r].status = "queued" /\ Cardinality(rc.done \cup rc.failed) >= run[r].enqueued
        BY DEF Complete
    <2>2. runner[r].at # "new"
        BY <1>1, <2>1 DEF OnceAt
    <2>3. PICK n \in Nat : n = run[r].enqueued
        BY <1>1, RunParts
    <2>4. PICK T \in SUBSET Entered(r) : T = rc.done \cup rc.failed
        OBVIOUS
    <2>5. \A i \in Entered(r) : Cov(r, i)
        BY <1>1 DEF RunSide
    <2>6. Cov(r, n)
        BY <1>1, <2>1, <2>3, <2>4, <2>5, CountedIsCovered
    <2>7. QED
        BY <2>1, <2>2, <2>3, <2>6
<1>7. RunSide(r)'
    BY <1>1, <1>2, <1>3, <1>4, <1>6 DEF RunSide, Ended
<1>8. \A f : Whole(r, f)' <=> Whole(r, f)
    BY <1>3, <1>4 DEF Whole
<1>9. JobSide(r)'
    BY <1>1, <1>3, <1>4, <1>8 DEF JobSide
<1>10. Sides'
    BY <1>5, <1>7, <1>9 DEF Sides
<1>11. \A o \in Runs : run[o].partial => run'[o].partial
    BY <1>4
<1>12. Grows
    BY <1>2, <1>3, <1>11 DEF Grows
<1>13. QED
    BY <1>10, <1>12

LEMMA ReplayKeeps ==
    ASSUME IInv, TypeOK', NEW q \in Requests, Replay(q)
    PROVE  Sides' /\ Followed' /\ Remember'
<1>1. TypeOK /\ Shaped /\ Sides /\ Followed /\ Remember
    BY DEF IInv
<1>2. PICK g \in Handling : g = request[q]
    BY <1>1, RequestParts DEF Replay
<1>3. /\ g.at = "replaying" /\ g.run \in Runs /\ Shape(g.at, g.print, g.seen) /\ Follow(g)
    BY <1>1, <1>2, HandlingParts DEF Replay, Shaped, Followed
<1>4. /\ Aggregate(g.run, receipts[g.run])
      /\ Moved(q, "accepting", g.seen, g.sent)
      /\ UNCHANGED <<receipts, runner, job, attempts, local, queue, bodies, faults>>
    BY <1>1, <1>2, ReplayIs
<1>5. PICK rc \in Receipts : rc = receipts[g.run]
    BY <1>1, <1>3 DEF TypeOK
<1>6. /\ receipts' = [receipts EXCEPT ![g.run] = rc]
      /\ rc.done \cup rc.failed \subseteq Entered(g.run)
    BY <1>1, <1>3, <1>4, <1>5 DEF TypeOK, Sides, RunSide
<1>7. Sides' /\ Grows
    BY <1>3, <1>4, <1>5, <1>6, AggregateKeeps
<1>8. Follow(g)'
    BY <1>1, <1>3, <1>7, FollowKept
<1>9. \A k \in Handling : /\ k.at = "accepting" /\ k.seen = g.seen /\ k.sent = g.sent
                          /\ k.run = request[q].run /\ k.print = request[q].print
                          => Follow(k)'
    BY <1>2, <1>3, <1>8 DEF Follow
<1>10. Followed'
    BY <1>4, <1>7, <1>9, FollowedMoved
<1>11. QED
    BY <1>1, <1>4, <1>7, <1>10, RememberKept DEF local

LEMMA ConsumerKeeps ==
    ASSUME IInv, TypeOK', NEW m \in queue, Consume(m) \/ Exhaust(m)
    PROVE  Sides' /\ Followed' /\ Remember'
<1>1. TypeOK /\ Shaped /\ Sides /\ Followed /\ Remember
    BY DEF IInv
<1>2. PICK kind : Record(m, kind)
    BY DEF Consume, Exhaust
<1>3. UNCHANGED <<runner, job, attempts, bodies, request, acked>>
    BY DEF Consume, Exhaust, server, local
<1>4. m \in bodies
    BY <1>1 DEF TypeOK
<1>5. /\ m \in Message /\ Receipt(m, kind) \in Receipts
      /\ receipts' = [receipts EXCEPT ![m.run] = Receipt(m, kind)]
      /\ Receipt(m, kind).done \cup Receipt(m, kind).failed
            \subseteq receipts[m.run].done \cup receipts[m.run].failed \cup {m.item}
    BY <1>1, <1>2, <1>4, Receipting
<1>6. m.run \in Runs
    BY <1>5 DEF Message
<1>7. PICK r \in Runs, rc \in Receipts : r = m.run /\ rc = Receipt(m, kind)
    BY <1>5, <1>6
<1>8. m.item \in Entered(r)
    BY <1>4, <1>7 DEF Entered
<1>9. rc.done \cup rc.failed \subseteq Entered(r)
    BY <1>1, <1>5, <1>7, <1>8 DEF Sides, RunSide
<1>10. Aggregate(r, rc) /\ receipts' = [receipts EXCEPT ![r] = rc]
    BY <1>2, <1>5, <1>7 DEF Record
<1>11. Sides' /\ Grows
    BY <1>3, <1>9, <1>10, AggregateKeeps
<1>12. Followed'
    BY <1>1, <1>3, <1>11, FollowedKept
<1>13. QED
    BY <1>1, <1>3, <1>11, <1>12, RememberKept

\* The completion of a job: its dispatch is accepted, and the items that it
\* counts are those that the request has seen in the queue.
LEMMA FinishKeeps ==
    ASSUME IInv, TypeOK', NEW q \in Requests, Finish(q)
    PROVE  Sides' /\ Followed' /\ Remember'
<1>1. TypeOK /\ Shaped /\ Sides /\ Followed /\ Remember
    BY DEF IInv
<1>2. PICK g \in Handling : g = request[q]
    BY <1>1, RequestParts DEF Finish
<1>3. /\ g.at = "finishing" /\ g.at # "idle" /\ g.run \in Runs /\ g.sent \in Nat
      /\ g.seen \in {NoResult} \cup Dispatch /\ Follow(g)
    BY <1>1, <1>2, HandlingParts DEF Finish, Followed
<1>4. PICK r \in Runs, d \in {NoResult} \cup Dispatch : r = g.run /\ d = g.seen
    BY <1>3
<1>5. PICK wins \in BOOLEAN : wins = (job[r].status = "leased" /\ job[r].result = d)
    OBVIOUS
<1>6. /\ Answer(q, TRUE)
      /\ UNCHANGED <<receipts, runner, attempts, bodies>>
      /\ ~wins => job' = job
      /\ wins /\ d = NoResult => Noted(r, "failed", NoResult)
      /\ wins /\ d # NoResult => Noted(r, "complete", [d EXCEPT !.accepted = g.sent])
      /\ \/ UNCHANGED <<run, health>>
         \/ wins /\ \E s \in Ended : \E b, a : Written(r, s, 0, b, a) /\ b = run[r].partial
    BY <1>1, <1>2, <1>4, <1>5, FinishIs
<1>7. /\ d \in Dispatch => d # NoResult
      /\ Cov(r, g.sent)
      /\ (d = NoResult /\ g.print = None) \/ Decided(r)
      /\ d # NoResult => Decided(r)
      /\ d # NoResult => job[r].status # "leased" \/ job[r].result = d
      /\ g.print # None => d # NoResult
    BY <1>3, <1>4, DispatchParts DEF Follow
<1>8. RunSide(r) /\ JobSide(r) /\ OnceAt(r)
    BY <1>1 DEF IInv, Sides, Once
<1>9. attempts' >= attempts
    BY <1>1, <1>6 DEF TypeOK
<1>10. \A o \in Runs : \A x : /\ Entered(o)' = Entered(o) /\ (Cov(o, x)' <=> Cov(o, x))
    BY <1>6 DEF Entered, Cov
<1>11. /\ \A o \in Runs \ {r} : run'[o] = run[o]
       /\ run'[r].partial = run[r].partial
       /\ run'[r] = run[r] \/ (run'[r].status \in Ended /\ run'[r].enqueued = 0 /\ wins)
    BY <1>1, <1>6, WrittenRuns
<1>12. \A x : Whole(r, x)' <=> Whole(r, x)
    BY <1>10, <1>11 DEF Whole
\* What becomes of the job.
<1>13. CASE ~wins
    <2>1. job' = job /\ run' = run
        BY <1>6, <1>13
    <2>2. Sides' /\ Grows
        BY <1>1, <1>6, <1>9, <2>1, SidesSame, GrowsSame DEF Sides
    <2>3. g.print # None => job'[r].status = "complete"
        <3> SUFFICES ASSUME g.print # None PROVE job[r].status = "complete"
            BY <2>1
        <3>1. Decided(r) /\ job[r].status # "leased"
            BY <1>5, <1>7, <1>13
        <3>2. job[r].status \in {"none", "complete", "failed"} \cup Active
            BY <1>1, JobParts
        <3>3. QED
            BY <1>8, <3>1, <3>2 DEF JobSide, Decided, Active
    <2>4. QED
        BY <1>1, <1>2, <1>3, <1>4, <1>6, <2>2, <2>3, Answering, FollowedAnswered, RememberKept
<1>14. CASE wins
    <2>1. job[r].status = "leased" /\ job[r].result = d
        BY <1>5, <1>14
    <2>2. runner[r].at \notin {"new", "handing"}
        BY <1>8, <2>1 DEF OnceAt, RunSide, Before
    <2>3. RunSide(r)'
        BY <1>6, <1>8, <1>10, <1>11, <2>2, CovNone DEF RunSide, Ended
    <2>4. /\ JobSide(r)'
          /\ \A o \in Runs \ {r} : job'[o] = job[o]
          /\ job'[r].status # "leased"
          /\ Decided(r) => Decided(r)'
          /\ \/ job'[r].result = job[r].result
             \/ job'[r].result \in Dispatch /\ job'[r].result.phase # "dispatching"
          /\ g.print # None => job'[r].status = "complete"
        <3>1. CASE d = NoResult
            <4>1. /\ job'[r].status = "failed" /\ job'[r].result = NoResult
                  /\ \A o \in Runs \ {r} : job'[o] = job[o]
                BY <1>1, <1>6, <1>14, <3>1, NotedJobs
            <4>2. JobSide(r)'
                BY <4>1, DispatchParts DEF JobSide
            <4>3. ~Decided(r)
                BY <2>1, <3>1 DEF Decided
            <4>4. QED
                BY <1>7, <2>1, <3>1, <4>1, <4>2, <4>3
        <3>2. CASE d \in Dispatch
            <4>1. LET e == [d EXCEPT !.accepted = g.sent]
                  IN /\ e \in Dispatch /\ e.phase = d.phase /\ e.accepted = g.sent
                     /\ e.print = d.print /\ e.attempt = d.attempt
                BY <1>3, <3>2 DEF Dispatch
            <4>2. PICK e \in Dispatch :
                     /\ e = [d EXCEPT !.accepted = g.sent]
                     /\ e.phase = d.phase /\ e.accepted = g.sent
                     /\ e.print = d.print /\ e.attempt = d.attempt
                BY <4>1
            <4>3. /\ job'[r].status = "complete" /\ job'[r].result = e
                  /\ \A o \in Runs \ {r} : job'[o] = job[o]
                BY <1>1, <1>6, <1>7, <1>14, <3>2, <4>2, NotedJobs
            <4>4. d.phase = "accepted"
                BY <1>7, <2>1, <3>2 DEF Decided
            <4>5. /\ run[r].status \in {"queued"} \cup Ended /\ d.attempt < attempts
                  /\ Whole(r, d.print)
                BY <1>8, <2>1, <3>2, <4>4 DEF JobSide
            <4>6. Decided(r)'
                BY <4>2, <4>3, <4>4, DispatchParts DEF Decided
            <4>7. JobSide(r)'
                <5>1. Cov(r, e.accepted)' /\ Whole(r, e.print)'
                    BY <1>7, <1>10, <1>12, <4>2, <4>5
                <5>2. run'[r].status \in {"queued"} \cup Ended /\ e.attempt < attempts'
                    BY <1>6, <1>11, <4>2, <4>5
                <5>3. QED
                    BY <4>2, <4>3, <4>4, <4>6, <5>1, <5>2 DEF JobSide
            <4>8. QED
                BY <4>2, <4>3, <4>4, <4>6, <4>7
        <3>3. QED
            BY <3>1, <3>2
    <2>5. \A o \in Runs \ {r} : RunSide(o)' /\ JobSide(o)'
        BY <1>1, <1>6, <1>9, <1>11, <2>4, SidesSame DEF Sides
    <2>6. Sides'
        BY <2>3, <2>4, <2>5 DEF Sides
    <2>7. \A o \in Runs :
             \/ /\ job'[o].result = job[o].result
                /\ job[o].result \in Dispatch /\ run[o].partial => run'[o].partial
             \/ /\ job'[o].result \in Dispatch
                /\ job'[o].result.attempt >= attempts \/ job'[o].result.phase # "dispatching"
        BY <1>11, <2>4
    <2>8. \A o \in Runs : Decided(o) =>
              /\ Decided(o)'
              /\ job'[o].status = "leased" => job[o].status = "leased" /\ job'[o].result = job[o].result
        BY <2>4 DEF Decided
    <2>9. \A o \in Runs : job[o].status = "complete" => job'[o].status = "complete"
        BY <2>1, <2>4
    <2>10. Grows
        BY <1>9, <1>10, <2>7, <2>8, <2>9 DEF Grows
    <2>11. QED
        BY <1>1, <1>2, <1>3, <1>4, <1>6, <2>4, <2>6, <2>10, Answering, FollowedAnswered, RememberKept
<1>15. QED
    BY <1>13, <1>14

LEMMA InvInit == Init => IInv
<1> SUFFICES ASSUME Init PROVE IInv
    OBVIOUS
<1>1. TypeOK /\ Shaped
    BY TypeInit
<1>2. Once /\ Placed
    BY DEF Init, Once, OnceAt, Ended, Before, Placed, Idle
<1>3. \A r \in Runs : Entered(r) = {}
    BY DEF Init, Entered
<1>4. Sides
    <2> SUFFICES ASSUME NEW r \in Runs PROVE RunSide(r) /\ JobSide(r)
        BY DEF Sides
    <2>1. RunSide(r)
        BY <1>3 DEF Init, RunSide, Ended
    <2>2. JobSide(r)
        BY DispatchParts DEF Init, JobSide
    <2>3. QED
        BY <2>1, <2>2
<1>5. Followed
    BY HandlingParts DEF Init, Followed
<1>6. Remember
    BY DEF Init, Remember
<1>7. QED
    BY <1>1, <1>2, <1>4, <1>5, <1>6 DEF IInv

LEMMA InvNext ==
    ASSUME ~Overtaking, IInv, [Next]_vars
    PROVE  IInv'
<1>1. TypeOK /\ Shaped /\ Placed /\ Once
    BY DEF IInv
<1>2. TypeOK' /\ Shaped'
    BY <1>1, TypeNext
<1>3. Once' /\ Placed'
    BY <1>1, <1>2, OnceNext, PlacedNext
<1>4. CASE UNCHANGED vars
    <2>1. UNCHANGED <<run, receipts, runner, job, attempts, bodies, request, acked>>
        BY <1>4 DEF vars, ledger, server, local
    <2>2. attempts' >= attempts
        BY <1>1, <2>1 DEF TypeOK
    <2>3. Sides' /\ Grows
        BY <1>1, <1>2, <2>1, <2>2, SidesSame, GrowsSame DEF IInv, Sides
    <2>4. Followed' /\ Remember'
        BY <1>2, <2>1, <2>3, FollowedKept, RememberKept DEF IInv
    <2>5. QED
        BY <1>2, <1>3, <2>3, <2>4 DEF IInv
<1>5. CASE Next
    <2>1. Sides' /\ Followed' /\ Remember'
        <3>1. ASSUME NEW r \in Runs, Producing(r) PROVE Sides' /\ Followed' /\ Remember'
            BY <1>2, <3>1, RunSourceKeeps
        <3>2. ASSUME NEW p \in Companions, Companion(p) \/ Abandon(p)
              PROVE  Sides' /\ Followed' /\ Remember'
            BY <1>2, <3>2, CompanionKeeps
        <3>3. ASSUME NEW q \in Requests, Quiet(q) PROVE Sides' /\ Followed' /\ Remember'
            BY <1>2, <3>3, QuietFollows
        <3>4. ASSUME NEW q \in Requests, Changing(q) PROVE Sides' /\ Followed' /\ Remember'
            BY <1>2, <3>4, ConfirmKeeps, WithdrawKeeps, BeginKeeps, SendKeeps, ReviseKeeps,
               ReplayKeeps, FinishKeeps DEF Changing
        <3>5. ASSUME NEW m \in queue, Consume(m) \/ Exhaust(m)
              PROVE  Sides' /\ Followed' /\ Remember'
            BY <1>2, <3>5, ConsumerKeeps
        <3>6. QED
            BY <1>1, <1>5, <3>1, <3>2, <3>3, <3>4, <3>5, Steps
    <2>2. QED
        BY <1>2, <1>3, <2>1 DEF IInv
<1>6. QED
    BY <1>4, <1>5

\* What a Companion was told is accepted: its job is complete, with an accepted
\* dispatch, and the queue has the items that it counts.
LEMMA AckedFollows == IInv => AckedIsSent
<1> SUFFICES ASSUME IInv, NEW a \in acked
             PROVE  LET result == job[a.run].result
                    IN /\ job[a.run].status = "complete"
                       /\ 0..(result.accepted - 1) \subseteq Entered(a.run)
                       /\ \/ run[a.run].partial
                          \/ 0..(Count[result.print] - 1) \subseteq Entered(a.run)
    BY DEF AckedIsSent
<1>1. a.run \in Runs
    BY DEF IInv, TypeOK, Result
<1>2. job[a.run].status = "complete"
    BY DEF IInv, Remember
<1>3. JobSide(a.run)
    BY <1>1 DEF IInv, Sides
<1>4. Decided(a.run)
    BY <1>2, <1>3 DEF JobSide
<1>5. PICK d \in Dispatch : d = job[a.run].result /\ d.phase = "accepted"
    BY <1>1, <1>4, JobParts DEF IInv, Decided
<1>6. Cov(a.run, d.accepted) /\ Whole(a.run, d.print)
    BY <1>3, <1>5 DEF JobSide
<1>7. QED
    BY <1>2, <1>5, <1>6 DEF Cov, Whole

\* A result that a Companion was told is accepted has been sent, when no job is
\* claimed before runSource has returned: every item that its job counts, and
\* every item of the result unless its run says that it is partial, is in the
\* queue, whatever crashes, times out and overtakes.
THEOREM Acked_Is_Sent ==
    ASSUME ~Overtaking
    PROVE  Spec => []AckedIsSent
<1>1. IInv /\ [Next]_vars => IInv'
    BY InvNext
<1>2. QED
    BY <1>1, InvInit, AckedFollows, PTL DEF Spec

-----------------------------------------------------------------------------
(* What a run in the queue waits for. *)

\* Item i of the run has an outcome, or a message that will give it one.
Awaited(r, i) ==
    \/ i \in receipts[r].done \cup receipts[r].failed
    \/ \E m \in queue : m.run = r /\ m.item = i

Awaits(r, n) == \A i \in 0..(n - 1) : Awaited(r, i)

\* A run in the queue has a job; when that job has ended, or is decided, every
\* item that the run counts is awaited.
WaitSide(r) ==
    /\ run[r].status = "queued" =>
          /\ job[r].status # "none"
          /\ job[r].status \in {"complete", "failed"} =>
                run[r].enqueued > 0 /\ Awaits(r, run[r].enqueued)
          /\ job[r].status = "leased" /\ Decided(r) =>
                /\ Awaits(r, run[r].enqueued)
                /\ Count[job[r].result.print] > 0 => run[r].enqueued > 0
    /\ job[r].status = "leased" /\ job[r].result # NoResult =>
          job[r].result.accepted <= Count[job[r].result.print]

\* The stages of a request that has a dispatch of its own.
Owning == {"sending", "withdrawing", "revising", "replaying", "accepting"}

\* What a request knows of the run it sends for, while its dispatch is the job's.
Waits(h) ==
    /\ h.at = "marking" => run[h.run].status \in Ended
    /\ h.at \in Owning \cup {"marking"} => h.sent <= Count[h.seen.print]
    /\ h.at = "sending" => h.sent < Count[h.seen.print]
    /\ h.at \in {"revising", "replaying"} => h.sent > 0
    /\ h.at = "accepting" /\ Count[h.seen.print] > 0 => h.sent > 0
    /\ h.at \in {"completing", "finishing"} /\ job[h.run].status = "leased" /\ Decided(h.run) =>
          h.sent <= Count[job[h.run].result.print]
    /\ h.at \in Owning /\ job[h.run].result = h.seen /\ run[h.run].status = "queued" =>
          /\ Awaits(h.run, h.sent)
          /\ run[h.run].enqueued = IF h.at \in {"replaying", "accepting"}
                                   THEN h.sent ELSE Count[h.seen.print]

Waiting == \A r \in Runs : WaitSide(r)
Waited  == \A q \in Requests, h \in Handling : request[q] = h => Waits(h)

\* A dispatch is one request's.
OneEach == \A q, o \in Requests :
    /\ request[q].at \in Owning /\ request[o].at \in Owning
    /\ request[q].seen.attempt = request[o].seen.attempt
    => q = o

WaitInv == Waiting /\ Waited /\ OneEach

\* A request revises the count of its run only under a dispatch that is still
\* the job's: nobody has taken it over.
Timely == \A q \in Requests :
    request[q].at = "revising" /\ request'[q].at = "replaying" =>
        job[request[q].run].result = request[q].seen

\* A run that is in the queue waits for no fewer items after a step.
LEMMA AwaitedGrows ==
    ASSUME queue \subseteq queue', receipts' = receipts
    PROVE  \A r, i : Awaited(r, i) => Awaited(r, i)'
BY DEF Awaited

\* What every step leaves of a run and its job: a run that has ended stays
\* ended, a dispatch that comes back is none that was there before, a decided
\* dispatch stays in its job, and an item that is awaited stays so.
Lasts(r) ==
    /\ run[r].status \in Ended => run'[r].status \in Ended
    /\ \/ job'[r].result = job[r].result
       \/ job'[r].result.phase # "dispatching"
       \/ job'[r].result.attempt \notin 0..(attempts - 1)
    /\ Decided(r) /\ job'[r].status = "leased" =>
          job[r].status = "leased" /\ job'[r].result = job[r].result
    /\ run[r].status = "queued" /\ run'[r].status = "queued" =>
          \A i \in 0..(run[r].enqueued - 1) : Awaited(r, i) => Awaited(r, i)'

\* The run counts the same items for a dispatch that its job keeps.
Counts(r) ==
    run[r].status = "queued" /\ run'[r].status = "queued" /\ job'[r].result = job[r].result =>
        run'[r].enqueued = run[r].enqueued

\* What a request knows stays true while it does nothing.
LEMMA WaitsKept ==
    ASSUME IInv, TypeOK', NEW h \in Handling, Shape(h.at, h.print, h.seen), Follow(h), Waits(h),
           Lasts(h.run), h.at \in Owning /\ job[h.run].result = h.seen => Counts(h.run)
    PROVE  Waits(h)'
<1>1. PICK r \in Runs : r = h.run
    BY HandlingParts
<1>2. /\ TypeOK /\ JobSide(r) /\ h.sent \in Nat /\ h.seen \in {NoResult} \cup Dispatch
      /\ Lasts(r)
    BY <1>1, HandlingParts DEF IInv, Sides
<1>3. h.at = "marking" => run'[r].status \in Ended
    BY <1>1, <1>2 DEF Waits, Lasts
<1>4. h.at \in {"completing", "finishing"} /\ job'[r].status = "leased" /\ Decided(r)' =>
          h.sent <= Count[job'[r].result.print]
    <2> SUFFICES ASSUME h.at \in {"completing", "finishing"}, job'[r].status = "leased",
                        Decided(r)'
                 PROVE  h.sent <= Count[job'[r].result.print]
        OBVIOUS
    <2>1. CASE Decided(r)
        <3>1. job[r].status = "leased" /\ job'[r].result = job[r].result
            BY <1>2, <2>1 DEF Lasts
        <3>2. QED
            BY <1>1, <2>1, <3>1 DEF Waits
    <2>2. CASE ~Decided(r)
        <3>1. h.sent = 0
            BY <1>1, <2>2 DEF Follow
        <3>2. job'[r].result \in Dispatch
            BY <1>1 DEF TypeOK, JobRow, Decided
        <3>3. Count[job'[r].result.print] \in Nat
            BY <3>2, DispatchParts, CompanionAssumption
        <3>4. QED
            BY <3>1, <3>3
    <2>3. QED
        BY <2>1, <2>2
<1>5. h.at \in Owning /\ job'[r].result = h.seen /\ run'[r].status = "queued" =>
          /\ Awaits(r, h.sent)'
          /\ run'[r].enqueued = IF h.at \in {"replaying", "accepting"}
                                THEN h.sent ELSE Count[h.seen.print]
    <2> SUFFICES ASSUME h.at \in Owning, job'[r].result = h.seen, run'[r].status = "queued"
                 PROVE  /\ Awaits(r, h.sent)'
                        /\ run'[r].enqueued = IF h.at \in {"replaying", "accepting"}
                                              THEN h.sent ELSE Count[h.seen.print]
        OBVIOUS
    <2>1. h.seen \in Dispatch /\ h.seen.phase = "dispatching"
        BY DEF Shape, Owning, Dispatching
    <2>2. h.seen.attempt \in 0..(attempts - 1)
        BY <1>2, <2>1, DispatchParts DEF Follow, TypeOK
    <2>3. job[r].result = h.seen
        BY <1>2, <2>1, <2>2 DEF Lasts
    <2>4. run[r].status = "queued"
        BY <1>2, <2>1, <2>3 DEF JobSide, Lasts, Ended
    <2>5. /\ Awaits(r, h.sent)
          /\ run[r].enqueued = IF h.at \in {"replaying", "accepting"}
                               THEN h.sent ELSE Count[h.seen.print]
        BY <1>1, <2>3, <2>4 DEF Waits
    <2>6. run'[r].enqueued = run[r].enqueued
        BY <1>1, <2>3, <2>4 DEF Counts
    <2>7. h.sent <= run[r].enqueued
        <3>1. h.sent <= Count[h.seen.print]
            BY DEF Waits
        <3>2. QED
            BY <1>2, <2>5, <3>1
    <2>8. run[r].enqueued \in Nat
        BY <1>2, RunParts
    <2>9. Awaits(r, h.sent)'
        <3> SUFFICES ASSUME NEW i \in 0..(h.sent - 1) PROVE Awaited(r, i)'
            BY DEF Awaits
        <3>1. i \in 0..(run[r].enqueued - 1)
            BY <1>2, <2>7, <2>8
        <3>2. Awaited(r, i)
            BY <2>5 DEF Awaits
        <3>3. QED
            BY <1>2, <2>4, <3>1, <3>2 DEF Lasts
    <2>10. QED
        BY <2>5, <2>6, <2>9
<1>6. QED
    BY <1>1, <1>3, <1>4, <1>5 DEF Waits

\* The same for all requests, but those that the step has moved.
LEMMA WaitedKept ==
    ASSUME IInv, TypeOK', Waited,
           \A r \in Runs : Lasts(r),
           \A q \in Requests, h \in Handling :
               request[q] = h /\ request'[q] = h /\ h.at \in Owning /\ job[h.run].result = h.seen
                   => Counts(h.run),
           \A q \in Requests, h \in Handling : request'[q] = h => request[q] = h \/ Waits(h)'
    PROVE  Waited'
<1> SUFFICES ASSUME NEW q \in Requests, NEW h \in Handling, request'[q] = h, request[q] = h
             PROVE  Waits(h)'
    BY DEF Waited
<1>1. Shape(h.at, h.print, h.seen) /\ Follow(h) /\ Waits(h) /\ h.run \in Runs
    BY HandlingParts DEF IInv, Shaped, Followed, Waited
<1>2. h.at \in Owning /\ job[h.run].result = h.seen => Counts(h.run)
    OBVIOUS
<1>3. QED
    BY <1>1, <1>2, WaitsKept

\* A dispatch stays one request's: only Begin makes an owner.
LEMMA OneEachKept ==
    ASSUME OneEach,
           \A q \in Requests : request'[q].at \in Owning =>
               request[q].at \in Owning /\ request'[q].seen.attempt = request[q].seen.attempt
    PROVE  OneEach'
BY DEF OneEach

\* The side of a run whose job stays as it is.
LEMMA WaitSideKept ==
    ASSUME IInv, NEW r \in Runs, WaitSide(r), Lasts(r), job'[r] = job[r],
           run'[r].status = "queued" =>
               run[r].status = "queued" /\ run'[r].enqueued = run[r].enqueued
    PROVE  WaitSide(r)'
<1>1. Decided(r)' <=> Decided(r)
    BY DEF Decided
<1>2. run'[r].status = "queued" /\ Awaits(r, run[r].enqueued) => Awaits(r, run[r].enqueued)'
    BY DEF Awaits, Lasts
<1>3. QED
    BY <1>1, <1>2 DEF WaitSide

\* A step that leaves runs, receipts and jobs, and takes nothing from the queue.
LEMMA Unmoved ==
    ASSUME IInv, UNCHANGED <<run, receipts, job>>, queue \subseteq queue'
    PROVE  /\ \A r \in Runs : Lasts(r) /\ Counts(r)
           /\ Waiting => Waiting'
<1>1. \A r, i : Awaited(r, i) => Awaited(r, i)'
    BY AwaitedGrows
<1>2. \A r \in Runs : Lasts(r) /\ Counts(r)
    BY <1>1 DEF Lasts, Counts
<1>3. QED
    BY <1>2, WaitSideKept DEF Waiting

\* A request that has been answered has nothing left to know.
LEMMA WaitedAnswered ==
    ASSUME IInv, TypeOK', Waited, OneEach,
           \A r \in Runs : Lasts(r),
           NEW q \in Requests, request'[q] = Idle,
           \A o \in Requests \ {q}, h \in Handling :
               request[o] = h /\ h.at \in Owning /\ job[h.run].result = h.seen => Counts(h.run),
           \A o \in Requests \ {q} : request'[o] = request[o]
    PROVE  Waited' /\ OneEach'
<1>1. \A h \in Handling : request'[q] # h
    BY HandlingParts
<1>2. Waited'
    BY <1>1, WaitedKept
<1>3. request'[q].at \notin Owning
    BY DEF Idle, Owning
<1>4. OneEach'
    BY <1>3, OneEachKept
<1>5. QED
    BY <1>2, <1>4

\* A request that has moved, with what it knows where it is now.
LEMMA WaitedMoved ==
    ASSUME IInv, TypeOK', Waited, OneEach,
           \A r \in Runs : Lasts(r),
           NEW q \in Requests, NEW s, NEW d, NEW n, Moved(q, s, d, n),
           \A o \in Requests \ {q}, h \in Handling :
               request[o] = h /\ h.at \in Owning /\ job[h.run].result = h.seen => Counts(h.run),
           \A k \in Handling : /\ k.at = s /\ k.seen = d /\ k.sent = n
                               /\ k.run = request[q].run /\ k.print = request[q].print
                               => Waits(k)',
           s \in Owning => request[q].at \in Owning /\ d.attempt = request[q].seen.attempt
    PROVE  Waited' /\ OneEach'
<1>1. /\ request'[q].at = s /\ request'[q].seen = d /\ request'[q].sent = n
      /\ request'[q].run = request[q].run /\ request'[q].print = request[q].print
      /\ \A o \in Requests \ {q} : request'[o] = request[o]
    BY MovedRequests DEF IInv
<1>2. \A h \in Handling : request'[q] = h => Waits(h)'
    BY <1>1
<1>3. \A o \in Requests \ {q} : request'[o] = request[o]
    BY <1>1
<1>4. Waited'
    <2>1. \A o \in Requests, h \in Handling : request'[o] = h => request[o] = h \/ Waits(h)'
        BY <1>2, <1>3
    <2> SUFFICES ASSUME NEW o \in Requests, NEW h \in Handling, request'[o] = h PROVE Waits(h)'
        BY DEF Waited
    <2>2. CASE o = q
        BY <1>2, <2>2
    <2>3. CASE o # q
        <3>1. request[o] = h
            BY <1>3, <2>3
        <3>2. Shape(h.at, h.print, h.seen) /\ Follow(h) /\ Waits(h) /\ h.run \in Runs
            BY <3>1, HandlingParts DEF IInv, Shaped, Followed, Waited
        <3>3. h.at \in Owning /\ job[h.run].result = h.seen => Counts(h.run)
            BY <2>3, <3>1
        <3>4. QED
            BY <3>2, <3>3, WaitsKept
    <2>4. QED
        BY <2>2, <2>3
<1>5. OneEach'
    BY <1>1, OneEachKept
<1>6. QED
    BY <1>4, <1>5

\* runSource: a run that is handed over has a job in the queue.
LEMMA WaitRunSource ==
    ASSUME IInv, IInv', WaitInv, NEW r \in Runs, Producing(r)
    PROVE  WaitInv'
<1>1. /\ TypeOK /\ OnceAt(r) /\ RunSide(r) /\ JobSide(r) /\ OnceAt(r)' /\ RunSide(r)'
      /\ JobSide(r)' /\ TypeOK'
    BY DEF IInv, Sides, Once
<1>2. /\ UNCHANGED <<request, receipts, queue>> /\ runner[r].at # "done"
      /\ \A o \in Runs \ {r} : runner'[o] = runner[o]
    BY <1>1, RunnerTyped
<1>3. \A o \in Runs \ {r} : run'[o] = run[o] /\ job'[o] = job[o]
    <2>1. CASE RunThrows(r)
        BY <1>1, <2>1, ThrowsElsewhere
    <2>2. CASE RunSource(r)
        BY <1>1, <2>2 DEF RunSource, BeginRun, LookForJob, InsertJob, FindWinner, Supersede,
                      Superseded, HandOver, HandedOver, FailRun, ledger, server, TypeOK
    <2>3. QED
        BY <1>1, <2>1, <2>2 DEF Producing
<1>4. /\ job[r].status \in {"none", "queued"} /\ job[r].result = NoResult
    BY <1>1, <1>2 DEF IInv, Placed, Done, JobSide
<1>5. job'[r].status \in {"none", "queued"} /\ job'[r].result = NoResult
    <2>1. CASE \/ InsertJob(r) /\ ActiveJobs = {}
               \/ RunThrows(r)
        <3>1. job' = job \/ Noted(r, "queued", job[r].result)
            <4>1. CASE InsertJob(r) /\ ActiveJobs = {}
                <5>1. job' = [job EXCEPT ![r].status = "queued"]
                    BY <4>1 DEF InsertJob
                <5>2. QED
                    BY <1>1, <5>1, JobParts, Noting DEF Active
            <4>2. CASE RunThrows(r)
                BY <1>1, <4>2, ThrowIs
            <4>3. QED
                BY <2>1, <4>1, <4>2
        <3>2. QED
            BY <1>1, <1>4, <3>1, NotedJobs
    <2>2. CASE ~(InsertJob(r) /\ ActiveJobs = {}) /\ ~RunThrows(r)
        <3>1. job' = job
            BY <1>1, <2>2 DEF Producing, RunSource, BeginRun, LookForJob, InsertJob, FindWinner,
                              Supersede, HandOver, FailRun, server
        <3>2. QED
            BY <1>4, <3>1
    <2>3. QED
        BY <2>1, <2>2
<1>6. run[r].status \notin Ended
    BY <1>1, <1>2 DEF OnceAt
<1>7. run'[r].status = "queued" => job'[r].status = "queued"
    <2>1. CASE RunThrows(r)
        <3>1. CASE Noted(r, "queued", job[r].result)
            BY <1>1, <3>1, NotedJobs
        <3>2. CASE runner[r].at = "handing" /\ job' = job
            BY <1>1, <3>2 DEF RunSide
        <3>3. CASE runner[r].at \in {"looking", "inserting", "raced", "joining"} /\ run' = run
            BY <1>1, <3>3 DEF OnceAt, Before
        <3>4. CASE Written(r, "pending", 0, run[r].partial, run[r].accounted)
            BY <1>1, <3>4, WrittenRuns
        <3>5. QED
            BY <1>1, <2>1, <3>1, <3>2, <3>3, <3>4, ThrowIs
    <2>2. CASE HandOver(r)
        <3>1. runner[r].at = "handing" /\ job' = job
            BY <2>2 DEF HandOver, Runner, server
        <3>2. QED
            BY <1>1, <3>1 DEF RunSide
    <2>3. CASE Supersede(r)
        <3>1. Open(r)
            BY <1>1, <2>3 DEF Supersede, OnceAt, Open, Ended, Before
        <3>2. run'[r].status = "pending"
            BY <1>1, <2>3, <3>1 DEF Supersede, Superseded, TypeOK, RunRow
        <3>3. QED
            BY <3>2
    <2>4. CASE FailRun(r)
        <3>1. run'[r].status = "failed"
            BY <1>1, <2>4 DEF FailRun, TypeOK, RunRow
        <3>2. QED
            BY <3>1
    <2>5. CASE BeginRun(r)
        <3>1. run'[r].status = "running"
            BY <1>1, <2>5 DEF BeginRun, TypeOK, RunRow
        <3>2. QED
            BY <3>1
    <2>6. CASE LookForJob(r) \/ InsertJob(r) \/ FindWinner(r)
        <3>1. run' = run /\ runner[r].at \in Before \ {"new"}
            BY <2>6 DEF LookForJob, InsertJob, FindWinner, Runner, Before, ledger
        <3>2. QED
            BY <1>1, <3>1 DEF OnceAt
    <2>7. QED
        BY <1>1, <2>1, <2>2, <2>3, <2>4, <2>5, <2>6 DEF Producing, RunSource
<1>8. \A o, i : Awaited(o, i) => Awaited(o, i)'
    BY <1>2, AwaitedGrows
<1>9. \A o \in Runs : Lasts(o)
    <2>1. ~Decided(r)
        BY <1>4 DEF Decided
    <2>2. QED
        BY <1>3, <1>4, <1>5, <1>6, <1>8, <2>1 DEF Lasts
<1>10. \A o \in Runs : WaitSide(o)'
    <2>1. \A o \in Runs \ {r} : WaitSide(o)'
        BY <1>3, <1>9, WaitSideKept DEF WaitInv, Waiting
    <2>2. WaitSide(r)'
        BY <1>5, <1>7 DEF WaitSide
    <2>3. QED
        BY <2>1, <2>2
<1>11. \A q \in Requests, h \in Handling :
            request[q] = h /\ request'[q] = h /\ h.at \in Owning /\ job[h.run].result = h.seen
                => Counts(h.run)
    <2> SUFFICES ASSUME NEW q \in Requests, NEW h \in Handling, request[q] = h, h.at \in Owning,
                        job[h.run].result = h.seen
                 PROVE  Counts(h.run)
        OBVIOUS
    <2>1. h.seen \in Dispatch /\ h.run \in Runs
        BY HandlingParts DEF IInv, Shaped, Shape, Owning, Dispatching
    <2>2. h.run # r
        BY <1>4, <2>1, DispatchParts
    <2>3. QED
        BY <1>3, <2>1, <2>2 DEF Counts
<1>12. Waited'
    BY <1>1, <1>2, <1>9, <1>11, WaitedKept DEF WaitInv
<1>13. OneEach'
    BY <1>2 DEF WaitInv, OneEach
<1>14. QED
    BY <1>10, <1>12, <1>13 DEF WaitInv, Waiting

\* A Companion: a job that is claimed again keeps its record, and a request
\* that arrives or loses its Companion has sent nothing by that.
LEMMA WaitCompanion ==
    ASSUME ~Overtaking, IInv, IInv', WaitInv, NEW p \in Companions, Companion(p) \/ Abandon(p)
    PROVE  WaitInv'
<1>1. TypeOK /\ TypeOK' /\ Waiting /\ Waited /\ OneEach
    BY DEF IInv, WaitInv
<1>2. UNCHANGED <<run, receipts, queue>>
    BY <1>1 DEF Companion, ReadOutbox, Poll, PollNothing, Execute, ExecuteFails, Submit, ClearSlot,
           Abandon, ledger
<1>3. CASE Poll(p)
    <2>1. PICK r \in Runs : Claimable(r) /\ job' = [job EXCEPT ![r].status = "leased"]
        BY <1>3 DEF Poll
    <2>2. request' = request
        BY <1>3 DEF Poll
    <2>3. Noted(r, "leased", job[r].result)
        BY <1>1, <2>1, JobParts, Noting DEF Active
    <2>4. /\ job'[r].status = "leased" /\ job'[r].result = job[r].result
          /\ \A o \in Runs \ {r} : job'[o] = job[o]
        BY <1>1, <2>3, NotedJobs
    <2>5. job[r].status \in Active
        BY <2>1 DEF Claimable
    <2>6. Decided(r) \/ job[r].result # NoResult => job[r].status = "leased"
        BY <1>1, <2>5, JobParts DEF IInv, Sides, JobSide, Decided, Active
    <2>7. \A o, i : Awaited(o, i) => Awaited(o, i)'
        BY <1>2, AwaitedGrows
    <2>8. \A o \in Runs : Lasts(o) /\ Counts(o)
        BY <1>2, <2>4, <2>6, <2>7 DEF Lasts, Counts
    <2>9. \A o \in Runs \ {r} : WaitSide(o)'
        BY <1>1, <1>2, <2>4, <2>8, WaitSideKept DEF Waiting
    <2>10. WaitSide(r)'
        <3>1. (Decided(r)' <=> Decided(r)) /\ WaitSide(r)
            BY <1>1, <2>4 DEF Decided, Waiting
        <3>2. Awaits(r, run[r].enqueued) => Awaits(r, run[r].enqueued)'
            BY <1>2, <2>7 DEF Awaits
        <3>3. QED
            BY <1>2, <2>4, <2>6, <3>1, <3>2 DEF WaitSide
    <2>11. Waited'
        BY <1>1, <2>2, <2>8, HandlingParts, WaitedKept
    <2>12. OneEach'
        BY <1>1, <2>2 DEF OneEach
    <2>13. QED
        BY <2>9, <2>10, <2>11, <2>12 DEF WaitInv, Waiting
<1>4. CASE ~Poll(p)
    <2>1. job' = job
        BY <1>4 DEF Companion, ReadOutbox, PollNothing, Execute, ExecuteFails, Submit, ClearSlot,
                    Abandon, server
    <2>2. /\ \A o \in Runs : Lasts(o) /\ Counts(o)
          /\ Waiting'
        BY <1>1, <1>2, <2>1, Unmoved
    <2>3. CASE request' = request
        <3>1. Waited'
            BY <1>1, <2>2, <2>3, HandlingParts, WaitedKept
        <3>2. OneEach'
            BY <1>1, <2>3 DEF OneEach
        <3>3. QED
            BY <2>2, <3>1, <3>2 DEF WaitInv
    <2>4. CASE Submit(p)
        <3>1. PICK o \in Requests : request' = [request EXCEPT ![o] = Arrived(p)]
            BY <2>4 DEF Submit
        <3>2. /\ request'[o] = Arrived(p)
              /\ \A q \in Requests \ {o} : request'[q] = request[q]
            BY <1>1, <3>1 DEF TypeOK
        <3>3. \A h \in Handling : request'[o] = h => Waits(h)'
            BY <3>2 DEF Arrived, Waits, Owning
        <3>4. Waited'
            BY <1>1, <2>2, <3>2, <3>3, HandlingParts, WaitedKept
        <3>5. request'[o].at \notin Owning
            BY <3>2 DEF Arrived, Owning
        <3>6. OneEach'
            BY <1>1, <3>2, <3>5, OneEachKept
        <3>7. QED
            BY <2>2, <3>4, <3>6 DEF WaitInv
    <2>5. CASE Abandon(p)
        <3>1. request' = [o \in Requests |->
                    IF request[o].at # "idle" /\ request[o].from = p
                    THEN [request[o] EXCEPT !.from = None] ELSE request[o]]
            BY <2>5 DEF Abandon
        <3>2. ASSUME NEW q \in Requests, request'[q] # request[q]
              PROVE  /\ request[q] \in Handling
                     /\ request'[q].at = request[q].at /\ request'[q].run = request[q].run
                     /\ request'[q].print = request[q].print
                     /\ request'[q].seen = request[q].seen /\ request'[q].sent = request[q].sent
            <4>1. request[q].at # "idle" /\ request'[q] = [request[q] EXCEPT !.from = None]
                BY <3>1, <3>2
            <4>2. PICK g \in Handling : g = request[q]
                BY <1>1, <4>1, RequestParts
            <4>3. QED
                BY <4>1, <4>2 DEF Handling
        <3>3. ASSUME NEW q \in Requests, NEW h \in Handling, request'[q] = h, request[q] # h
              PROVE  Waits(h)'
            <4>1. PICK g \in Handling : g = request[q]
                BY <3>2, <3>3
            <4>2. /\ h.at = g.at /\ h.run = g.run /\ h.print = g.print
                  /\ h.seen = g.seen /\ h.sent = g.sent
                BY <3>2, <3>3, <4>1
            <4>3. Follow(g) /\ Shape(g.at, g.print, g.seen) /\ Waits(g) /\ g.run \in Runs
                BY <1>1, <4>1, HandlingParts DEF IInv, Followed, Shaped, Waited
            <4>4. Waits(g)'
                BY <1>1, <2>2, <4>3, WaitsKept
            <4>5. QED
                BY <4>2, <4>4 DEF Waits, Awaits, Awaited, Decided
        <3>4. Waited'
            BY <1>1, <2>2, <3>3, HandlingParts, WaitedKept
        <3>5. OneEach'
            BY <1>1, <3>2, OneEachKept
        <3>6. QED
            BY <2>2, <3>4, <3>5 DEF WaitInv
    <2>6. QED
        BY <1>4, <2>3, <2>4, <2>5 DEF Companion, ReadOutbox, PollNothing, Execute, ExecuteFails,
                                      ClearSlot, server
<1>5. QED
    BY <1>3, <1>4

\* A request that only reads: what it takes from the record of the job.
LEMMA WaitQuiet ==
    ASSUME IInv, IInv', WaitInv, NEW q \in Requests, Quiet(q)
    PROVE  WaitInv'
<1>1. TypeOK /\ TypeOK' /\ Shaped /\ Waiting /\ Waited /\ OneEach
    BY DEF IInv, WaitInv
<1>2. /\ request[q].at # "idle"
      /\ UNCHANGED <<ledger, runner, job, attempts, slot, queue, bodies>>
      /\ \/ \E ok \in BOOLEAN :
                    /\ Answer(q, ok)
                    /\ ok => \/ job[request[q].run].status = "complete"
                             \/ /\ request[q].at = "completing"
                                /\ job[request[q].run].status \in {"complete", "failed"}
         \/ /\ UNCHANGED <<relay, acked>>
            /\ \E s \in Stages, d \in {NoResult} \cup Dispatch, n \in Nat :
                    Moved(q, s, d, n) /\ Reads(q, s, d, n)
    BY <1>1, Quietly, ShapedRequest
<1>3. UNCHANGED <<run, receipts, job>> /\ queue \subseteq queue'
    BY <1>2 DEF ledger
<1>4. /\ \A o \in Runs : Lasts(o) /\ Counts(o)
      /\ Waiting'
    BY <1>1, <1>3, Unmoved
<1>5. ASSUME NEW ok \in BOOLEAN, Answer(q, ok)
      PROVE  WaitInv'
    <2>1. /\ request'[q] = Idle
          /\ \A o \in Requests \ {q} : request'[o] = request[o]
        BY <1>1, <1>2, <1>5, Answering
    <2>2. Waited' /\ OneEach'
        BY <1>1, <1>4, <2>1, HandlingParts, WaitedAnswered
    <2>3. QED
        BY <1>4, <2>2 DEF WaitInv
<1>6. ASSUME NEW s \in Stages, NEW d \in {NoResult} \cup Dispatch, NEW n \in Nat,
             Moved(q, s, d, n), Reads(q, s, d, n)
      PROVE  WaitInv'
    <2>1. PICK g \in Handling : g = request[q]
        BY <1>1, <1>2, RequestParts
    <2>2. PICK r \in Runs : r = g.run
        BY HandlingParts
    <2>3. Waits(g) /\ WaitSide(r) /\ Shape(g.at, g.print, g.seen)
        BY <1>1, <2>1 DEF Waited, Waiting, Shaped
    <2>4. s \notin Owning
        <3>1. s = Course(q, d) /\ s # "refused" => s \in {"completing", "beginning", "settling"}
            BY <1>1, <1>2, CourseIs
        <3>2. QED
            BY <1>6, <3>1 DEF Reads, Owning
    <2>5. s = "marking" => run[r].status \in Ended /\ n <= Count[d.print]
        <3> SUFFICES ASSUME s = "marking" PROVE run[r].status \in Ended /\ n <= Count[d.print]
            OBVIOUS
        <3>1. s # Course(q, d)
            BY <1>1, <1>2, CourseIs
        <3>2. /\ d = g.seen /\ g.at \in {"settling", "lost"} /\ Over(r)
              /\ n = Min({Count[d.print], run[r].enqueued})
            BY <1>6, <2>1, <2>2, <3>1 DEF Reads
        <3>3. d \in Dispatch
            BY <2>3, <3>2 DEF Shape, Dispatching
        <3>4. Count[d.print] \in Nat /\ run[r].enqueued \in Nat
            BY <1>1, <3>3, DispatchParts, RunParts, CompanionAssumption
        <3>5. n <= Count[d.print]
            BY <3>2, <3>4, MinType
        <3>6. QED
            BY <3>2, <3>5 DEF Over
    <2>6. s \in {"completing", "finishing"} /\ job[r].status = "leased" /\ Decided(r) =>
              n <= Count[job[r].result.print]
        <3> SUFFICES ASSUME s \in {"completing", "finishing"}, job[r].status = "leased", Decided(r)
                     PROVE  n <= Count[job[r].result.print]
            OBVIOUS
        <3>1. job[r].result # NoResult /\ job[r].result.accepted <= Count[job[r].result.print]
            BY <2>3 DEF WaitSide, Decided
        <3>2. CASE s = "finishing"
            <4>1. s # Course(q, d)
                BY <1>1, <1>2, <3>2, CourseIs
            <4>2. n = g.sent /\ g.at = "completing"
                BY <1>6, <2>1, <3>2, <4>1 DEF Reads
            <4>3. QED
                BY <2>2, <2>3, <4>2 DEF Waits
        <3>3. CASE s = "completing"
            <4>1. d = job[r].result /\ (n = d.accepted \/ n = Accepted(d))
                BY <1>6, <2>1, <2>2, <3>3 DEF Reads
            <4>2. QED
                BY <3>1, <4>1 DEF Accepted
        <3>4. QED
            BY <3>2, <3>3
    <2>7. \A k \in Handling : /\ k.at = s /\ k.seen = d /\ k.sent = n
                              /\ k.run = request[q].run /\ k.print = request[q].print
                              => Waits(k)'
        <3> SUFFICES ASSUME NEW k \in Handling, k.at = s, k.seen = d, k.sent = n, k.run = r
                     PROVE  Waits(k)'
            BY <2>1, <2>2
        <3>1. Decided(r)' <=> Decided(r)
            BY <1>3 DEF Decided
        <3>2. QED
            BY <1>3, <2>4, <2>5, <2>6, <3>1 DEF Waits, Owning
    <2>8. Waited' /\ OneEach'
        BY <1>1, <1>4, <1>6, <2>4, <2>7, HandlingParts, WaitedMoved
    <2>9. QED
        BY <1>4, <2>8 DEF WaitInv
<1>7. QED
    BY <1>2, <1>5, <1>6

\* What the compare-and-set on the record of a job leaves, when runs, receipts
\* and the queue stay.  An accepted dispatch has been sent as far as the run
\* counts.
LEMMA WaitPhase ==
    ASSUME IInv, IInv', WaitInv, NEW g \in Handling, NEW q \in Requests, request[q] = g,
           g.seen \in Dispatch, g.seen.phase = "dispatching",
           NEW s \in {"accepted", "retryable"}, NEW n \in Nat, SetPhase(q, g.seen, s, n),
           UNCHANGED <<run, receipts, queue>>, n <= Count[g.seen.print],
           s = "accepted" => /\ g.at \in {"marking", "accepting"}
                             /\ n = g.sent
    PROVE  /\ Waiting'
           /\ \A r \in Runs : Lasts(r) /\ Counts(r)
<1>1. TypeOK /\ TypeOK' /\ Waiting /\ Waited /\ g.at # "idle"
    BY HandlingParts DEF IInv, WaitInv
<1>2. PICK r \in Runs : r = g.run
    BY HandlingParts
<1>3. CASE job' = job
    BY <1>1, <1>3, Unmoved
<1>4. CASE /\ job[r].status = "leased" /\ job[r].result = g.seen
           /\ Noted(r, "leased", [g.seen EXCEPT !.phase = s, !.accepted = n])
    <2>1. PICK d \in Dispatch : d = g.seen
        OBVIOUS
    <2>2. PICK e \in Dispatch : /\ e = [d EXCEPT !.phase = s, !.accepted = n]
                                /\ e.phase = s /\ e.accepted = n
                                /\ e.print = d.print /\ e.attempt = d.attempt
        <3>1. LET e == [d EXCEPT !.phase = s, !.accepted = n]
              IN /\ e \in Dispatch /\ e.phase = s /\ e.accepted = n
                 /\ e.print = d.print /\ e.attempt = d.attempt
            BY DEF Dispatch
        <3>2. QED
            BY <3>1
    <2>3. /\ job'[r].status = "leased" /\ job'[r].result = e
          /\ \A o \in Runs \ {r} : job'[o] = job[o]
        BY <1>1, <1>4, <2>1, <2>2, NotedJobs
    <2>4. ~Decided(r) /\ e.phase # "dispatching" /\ e # NoResult
        BY <1>4, <2>2, DispatchParts DEF Decided
    <2>5. \A o, i : Awaited(o, i) => Awaited(o, i)'
        BY AwaitedGrows
    <2>6. \A o \in Runs : Lasts(o) /\ Counts(o)
        BY <2>3, <2>4, <2>5 DEF Lasts, Counts
    <2>7. \A o \in Runs \ {r} : WaitSide(o)'
        BY <1>1, <2>3, <2>6, WaitSideKept DEF Waiting
    <2>8. run[r].status = "queued" /\ s = "accepted" =>
              /\ Awaits(r, run[r].enqueued)
              /\ Count[e.print] > 0 => run[r].enqueued > 0
        <3> SUFFICES ASSUME run[r].status = "queued", s = "accepted"
                     PROVE  /\ Awaits(r, run[r].enqueued)
                            /\ Count[e.print] > 0 => run[r].enqueued > 0
            OBVIOUS
        <3>1. Waits(g)
            BY <1>1 DEF Waited
        <3>2. g.at = "accepting"
            BY <1>2, <3>1 DEF Waits, Ended
        <3>3. run[r].enqueued = g.sent /\ Awaits(r, g.sent)
            BY <1>2, <1>4, <3>1, <3>2 DEF Waits, Owning
        <3>4. Count[e.print] > 0 => g.sent > 0
            BY <2>1, <2>2, <3>1, <3>2 DEF Waits
        <3>5. QED
            BY <3>3, <3>4
    <2>9. Awaits(r, run[r].enqueued) => Awaits(r, run[r].enqueued)'
        BY <2>5 DEF Awaits
    <2>10. Decided(r)' => s = "accepted"
        BY <2>2, <2>3 DEF Decided
    <2>11. WaitSide(r)'
        BY <2>1, <2>2, <2>3, <2>8, <2>9, <2>10 DEF WaitSide
    <2>12. QED
        BY <2>6, <2>7, <2>11 DEF Waiting
<1>5. \/ job' = job
      \/ /\ job[r].status = "leased" /\ job[r].result = g.seen
         /\ Noted(r, "leased", [g.seen EXCEPT !.phase = s, !.accepted = n])
    <2>1. s \in {"dispatching", "accepted", "retryable"} /\ request[q].at # "idle"
        BY <1>1
    <2>2. PICK d \in Dispatch : d = g.seen
        OBVIOUS
    <2>3. SetPhase(q, d, s, n)
        BY <2>2
    <2>4. /\ job' \in [Runs -> JobRow]
          /\ \/ /\ job[request[q].run].status = "leased" /\ job[request[q].run].result = d
                /\ Noted(request[q].run, "leased", [d EXCEPT !.phase = s, !.accepted = n])
             \/ /\ ~(job[request[q].run].status = "leased" /\ job[request[q].run].result = d)
                /\ job' = job
        BY <1>1, <2>1, <2>3, Phased, ZenonT(60)
    <2>5. QED
        BY <1>2, <2>2, <2>4
<1>6. QED
    BY <1>3, <1>4, <1>5

\* The record of a confirmed dispatch is one of the same result.
LEMMA ConfirmedPrint ==
    ASSUME TypeOK, NEW q \in Requests, request[q].at # "idle", NEW d \in Dispatch, NEW n \in Nat,
           Confirmed(q, d, n), Moved(q, "completing", request[q].seen, n)
    PROVE  job'[request[q].run].result.print = d.print
<1>1. request'[q].at = "completing"
    BY MovedRequests
<1>2. ~Answer(q, job[request[q].run].status = "complete")
    BY <1>1 DEF Answer, Idle, TypeOK
<1>3. QED
    BY <1>2 DEF Confirmed

LEMMA WaitConfirm ==
    ASSUME IInv, IInv', WaitInv, NEW q \in Requests, Mark(q) \/ Accept(q)
    PROVE  WaitInv'
<1>1. TypeOK /\ TypeOK' /\ Shaped /\ Waiting /\ Waited /\ OneEach
    BY DEF IInv, WaitInv
<1>2. PICK g \in Handling : g = request[q]
    BY <1>1, RequestParts DEF Mark, Accept
<1>3. /\ g.at \in {"marking", "accepting"} /\ g.at # "idle" /\ g.run \in Runs
      /\ g.seen \in Dispatch /\ g.seen.phase = "dispatching" /\ g.sent \in Nat
      /\ SetPhase(q, g.seen, "accepted", g.sent)
      /\ UNCHANGED <<run, receipts, queue>>
      /\ \E n \in Nat : /\ Confirmed(q, g.seen, n)
                        /\ n = g.sent \/ n = Accepted(job'[g.run].result)
    <2>1. g.at \in {"marking", "accepting"}
        BY <1>1, <1>2, ConfirmIs
    <2>2. g.at # "idle"
        BY <2>1
    <2>3. QED
        BY <1>1, <1>2, <2>1, <2>2, ConfirmIs DEF ledger
<1>4. g.sent <= Count[g.seen.print]
    BY <1>1, <1>2, <1>3 DEF Waited, Waits, Owning
<1>5. /\ Waiting'
      /\ \A r \in Runs : Lasts(r) /\ Counts(r)
    <2>1. PICK s \in {"accepted", "retryable"} : s = "accepted"
        OBVIOUS
    <2>2. SetPhase(q, g.seen, s, g.sent)
        BY <1>3, <2>1
    <2>3. QED
        BY <1>2, <1>3, <1>4, <2>1, <2>2, WaitPhase
<1>6. PICK n \in Nat : /\ Confirmed(q, g.seen, n)
                       /\ n = g.sent \/ n = Accepted(job'[g.run].result)
    BY <1>3
<1>7. CASE /\ Moved(q, "completing", g.seen, n)
           /\ job'[g.run].result # NoResult
           /\ job'[g.run].result.phase = "accepted"
           /\ UNCHANGED <<relay, acked>>
    <2>1. job'[g.run].result.print = g.seen.print
        BY <1>1, <1>2, <1>3, <1>6, <1>7, ConfirmedPrint
    <2>2. job'[g.run].status = "leased" => n <= Count[job'[g.run].result.print]
        <3>1. WaitSide(g.run)'
            BY <1>3, <1>5 DEF Waiting
        <3>2. QED
            BY <1>4, <1>6, <1>7, <2>1, <3>1 DEF WaitSide, Accepted
    <2>3. \A k \in Handling : /\ k.at = "completing" /\ k.seen = g.seen /\ k.sent = n
                              /\ k.run = request[q].run /\ k.print = request[q].print
                              => Waits(k)'
        BY <1>2, <2>2 DEF Waits, Owning
    <2>4. "completing" \notin Owning
        BY DEF Owning
    <2>5. Waited' /\ OneEach'
        BY <1>1, <1>5, <1>7, <2>3, <2>4, HandlingParts, WaitedMoved
    <2>6. QED
        BY <1>5, <2>5 DEF WaitInv
<1>8. CASE Answer(q, job[g.run].status = "complete")
    <2>1. PICK ok \in BOOLEAN : ok = (job[g.run].status = "complete")
        OBVIOUS
    <2>2. Answer(q, ok)
        BY <1>8, <2>1
    <2>3. /\ request'[q] = Idle
          /\ \A o \in Requests \ {q} : request'[o] = request[o]
        BY <1>1, <1>2, <1>3, <2>2, Answering
    <2>4. Waited' /\ OneEach'
        BY <1>1, <1>5, <2>3, HandlingParts, WaitedAnswered
    <2>5. QED
        BY <1>5, <2>4 DEF WaitInv
<1>9. QED
    BY <1>1, <1>2, <1>3, <1>6, <1>7, <1>8, Confirming

LEMMA WaitWithdraw ==
    ASSUME IInv, IInv', WaitInv, NEW q \in Requests, Withdraw(q)
    PROVE  WaitInv'
<1>1. TypeOK /\ TypeOK' /\ Shaped /\ Waiting /\ Waited /\ OneEach
    BY DEF IInv, WaitInv
<1>2. /\ request[q].at # "idle" /\ request[q].run \in Runs
      /\ request[q].seen \in Dispatch /\ request[q].seen.phase = "dispatching"
      /\ SetPhase(q, request[q].seen, "retryable", 0)
      /\ Answer(q, FALSE)
      /\ UNCHANGED <<run, receipts, queue>>
    <2>1. request[q].at = "withdrawing"
        BY <1>1, WithdrawIs
    <2>2. QED
        BY <1>1, <2>1, WithdrawIs DEF ledger
<1>3. PICK g \in Handling : g = request[q]
    BY <1>1, <1>2, RequestParts
<1>4. /\ Waiting'
      /\ \A r \in Runs : Lasts(r) /\ Counts(r)
    <2>1. PICK s \in {"accepted", "retryable"} : s = "retryable"
        OBVIOUS
    <2>2. 0 \in Nat /\ 0 <= Count[g.seen.print]
        BY <1>2, <1>3, DispatchParts, CompanionAssumption
    <2>3. SetPhase(q, g.seen, s, 0) /\ s # "accepted"
        BY <1>2, <1>3, <2>1
    <2>4. QED
        BY <1>2, <1>3, <2>2, <2>3, WaitPhase
<1>5. /\ request'[q] = Idle
      /\ \A o \in Requests \ {q} : request'[o] = request[o]
    BY <1>1, <1>2, Answering
<1>6. Waited' /\ OneEach'
    BY <1>1, <1>4, <1>5, HandlingParts, WaitedAnswered
<1>7. QED
    BY <1>4, <1>6 DEF WaitInv

\* A dispatch that begins: its attempt is new, and nothing has been sent for it.
LEMMA WaitBegin ==
    ASSUME IInv, IInv', WaitInv, NEW q \in Requests, Begin(q)
    PROVE  WaitInv'
<1>1. TypeOK /\ TypeOK' /\ Shaped /\ Waiting /\ Waited /\ OneEach
    BY DEF IInv, WaitInv
<1>2. PICK g \in Handling : g = request[q]
    BY <1>1, RequestParts DEF Begin
<1>3. /\ g.at = "beginning" /\ g.at # "idle" /\ g.run \in Runs /\ g.sent \in Nat
      /\ g.seen \in {NoResult} \cup Dispatch
      /\ Shape(g.at, g.print, g.seen)
    BY <1>1, <1>2, HandlingParts DEF Begin, Shaped
<1>4. CASE ~Owned(q)
    <2>1. UNCHANGED <<run, receipts, job>> /\ queue \subseteq queue'
        BY <1>4 DEF Begin
    <2>2. Moved(q, "losing", g.seen, g.sent)
        BY <1>1, <1>2, <1>3, <1>4, Moving DEF Begin, Goto, Stages
    <2>3. /\ \A o \in Runs : Lasts(o) /\ Counts(o)
          /\ Waiting'
        BY <1>1, <2>1, Unmoved
    <2>4. \A k \in Handling : k.at = "losing" => Waits(k)'
        BY DEF Waits, Owning
    <2>5. "losing" \notin Owning
        BY DEF Owning
    <2>6. Waited' /\ OneEach'
        BY <1>1, <2>2, <2>3, <2>4, <2>5, HandlingParts, WaitedMoved
    <2>7. QED
        BY <2>3, <2>6 DEF WaitInv
<1>5. CASE Owned(q)
    <2>1. PICK d \in Dispatch, s \in {"accepting", "sending"} :
               /\ d.phase = "dispatching" /\ d.print = request[q].print /\ d.attempt = attempts
               /\ d.accepted = 0
               /\ s = "accepting" => Count[d.print] = 0
               /\ Noted(request[q].run, "leased", d)
               /\ Written(request[q].run, "queued", Count[d.print], d.print \in PartialPrints,
                          run[request[q].run].accounted)
               /\ Moved(q, s, d, 0)
               /\ attempts' = attempts + 1
               /\ UNCHANGED <<receipts, health, runner, relay, acked, slot, queue, bodies, faults>>
        BY <1>1, <1>2, <1>3, <1>5, BeginIs
    <2>2. PICK r \in Runs : r = g.run
        BY <1>3
    <2>3. /\ job'[r].status = "leased" /\ job'[r].result = d
          /\ \A o \in Runs \ {r} : job'[o] = job[o]
        BY <1>1, <1>2, <2>1, <2>2, NotedJobs
    <2>4. /\ run'[r].status = "queued" /\ run'[r].enqueued = Count[d.print]
          /\ \A o \in Runs \ {r} : run'[o] = run[o]
        <3>1. PICK n, b, a : Written(r, "queued", n, b, a) /\ n = Count[d.print]
            BY <1>2, <2>1, <2>2
        <3>2. QED
            BY <1>1, <3>1, WrittenRuns
    <2>5. /\ job[r].status = "leased" /\ job[r].result = g.seen /\ Open(r)
          /\ g.seen = NoResult \/ g.seen.phase # "accepted"
        BY <1>2, <1>3, <1>5, <2>2 DEF Owned, Shape
    <2>6. ~Decided(r)
        BY <2>5 DEF Decided
    <2>7. attempts \in Nat /\ d # NoResult /\ Count[d.print] \in Nat
        BY <1>1, DispatchParts, CompanionAssumption DEF TypeOK
    <2>8. d.attempt \notin 0..(attempts - 1)
        BY <2>1, <2>7
    <2>9. \A o, i : Awaited(o, i) => Awaited(o, i)'
        BY <2>1, AwaitedGrows
    <2>10. job[r].result # d
        <3>1. JobSide(r)
            BY DEF IInv, Sides
        <3>2. QED
            BY <2>1, <2>7, <3>1 DEF JobSide
    <2>11. run[r].status \notin Ended
        BY <2>5 DEF Open, Ended
    <2>12. \A o \in Runs : Lasts(o)
        BY <2>3, <2>4, <2>6, <2>8, <2>9, <2>11 DEF Lasts
    <2>13. \A o \in Runs : Counts(o)
        BY <2>3, <2>4, <2>10 DEF Counts
    <2>14. \A o \in Runs \ {r} : WaitSide(o)'
        BY <1>1, <2>3, <2>4, <2>12, WaitSideKept DEF Waiting
    <2>15. WaitSide(r)'
        <3>1. ~Decided(r)'
            BY <2>1, <2>3 DEF Decided
        <3>2. 0 <= Count[d.print]
            BY <2>7
        <3>3. QED
            BY <2>1, <2>3, <3>1, <3>2 DEF WaitSide
    <2>16. s = "sending" => Count[d.print] > 0
        <3>1. request' = [request EXCEPT
                           ![q].at = IF Count[g.print] = 0 THEN "accepting" ELSE "sending",
                           ![q].seen = Attempt(q), ![q].sent = 0]
            BY <1>2, <1>5 DEF Begin
        <3>2. Count[g.print] = 0 => request'[q].at = "accepting"
            BY <1>1, <1>2, <3>1 DEF TypeOK, Handling
        <3>3. request'[q].at = s
            BY <1>1, <2>1, MovedRequests
        <3>4. QED
            BY <1>2, <2>1, <2>7, <3>2, <3>3
    <2>17. \A k \in Handling : /\ k.at = s /\ k.seen = d /\ k.sent = 0
                               /\ k.run = request[q].run /\ k.print = request[q].print
                               => Waits(k)'
        <3> SUFFICES ASSUME NEW k \in Handling, k.at = s, k.seen = d, k.sent = 0, k.run = r
                     PROVE  Waits(k)'
            BY <1>2, <2>2
        <3>1. Awaits(r, 0)'
            BY DEF Awaits
        <3>2. s = "accepting" => Count[d.print] = 0
            BY <2>1
        <3>3. k.at \in {"accepting", "sending"}
            OBVIOUS
        <3>4. QED
            BY <2>4, <2>7, <2>16, <3>1, <3>2, <3>3 DEF Waits, Owning
    <2>18. Waited'
        <3>1. /\ request'[q].at = s /\ request'[q].seen = d /\ request'[q].sent = 0
              /\ request'[q].run = request[q].run /\ request'[q].print = request[q].print
              /\ \A o \in Requests \ {q} : request'[o] = request[o]
            BY <1>1, <2>1, MovedRequests
        <3>2. \A h \in Handling : request'[q] = h => Waits(h)'
            BY <2>17, <3>1
        <3>3. \A o \in Requests, h \in Handling : request'[o] = h => request[o] = h \/ Waits(h)'
            BY <3>1, <3>2
        <3>4. QED
            BY <1>1, <2>12, <2>13, <3>3, HandlingParts, WaitedKept
    <2>19. OneEach'
        <3>1. /\ request'[q].at = s /\ request'[q].seen = d
              /\ \A o \in Requests \ {q} : request'[o] = request[o]
            BY <1>1, <2>1, MovedRequests
        <3>2. ASSUME NEW o \in Requests, request[o].at \in Owning
              PROVE  request[o].seen.attempt < attempts
            <4>1. request[o].at # "idle"
                BY <3>2 DEF Owning
            <4>2. PICK h \in Handling : h = request[o]
                BY <1>1, <4>1, RequestParts
            <4>3. Follow(h) /\ h.seen \in Dispatch
                BY <3>2, <4>2 DEF IInv, Followed, Shaped, Shape, Owning, Dispatching
            <4>4. QED
                BY <4>2, <4>3 DEF Follow
        <3>3. ASSUME NEW o \in Requests, request[o].at \in Owning
              PROVE  request[o].seen.attempt # d.attempt
            <4>1. request[o].seen.attempt < attempts
                BY <3>2, <3>3
            <4>2. PICK a \in Nat : a = attempts
                BY <2>7
            <4>3. ~(a < a)
                OBVIOUS
            <4>4. QED
                BY <2>1, <4>1, <4>2, <4>3
        <3>4. QED
            BY <1>1, <3>1, <3>3 DEF OneEach
    <2>20. QED
        BY <2>14, <2>15, <2>18, <2>19 DEF WaitInv, Waiting
<1>6. QED
    BY <1>4, <1>5

\* Where a send leaves its request, and what it leaves in the queue.
LEMMA SendMoves ==
    ASSUME TypeOK, NEW q \in Requests, NEW g \in Handling, g = request[q],
           Send(q) \/ SendThrows(q)
    PROVE  /\ g.at = "sending"
           /\ UNCHANGED <<run, receipts, job>> /\ queue \subseteq queue'
           /\ \E s \in {"accepting", "sending", "withdrawing", "revising"}, n \in Nat :
                 /\ Moved(q, s, g.seen, n)
                 /\ \/ /\ n = g.sent + 1 /\ Item(q, g.sent) \in queue'
                       /\ s \in {"accepting", "sending"}
                       /\ s = "accepting" <=> n = Count[g.print]
                    \/ /\ n = g.sent /\ s \in {"withdrawing", "revising"}
                       /\ s = "revising" => n > 0
<1>1. /\ request \in [Requests -> Handling \cup {Idle}]
      /\ request[q].at = "sending" /\ request[q].at # "idle"
      /\ g.sent \in Nat /\ g.seen \in {NoResult} \cup Dispatch
    BY HandlingParts DEF Send, SendThrows, TypeOK
<1>2. UNCHANGED <<run, receipts, job>> /\ queue \subseteq queue'
    BY DEF Send, SendThrows, Enter, ledger
<1>3. CASE Send(q)
    <2>1. PICK n \in Nat : n = g.sent + 1
        BY <1>1
    <2>2. PICK s \in {"accepting", "sending"} :
            s = IF n = Count[g.print] THEN "accepting" ELSE "sending"
        OBVIOUS
    <2>3. request' = [request EXCEPT ![q].sent = n,
                         ![q].at = IF n = Count[g.print] THEN "accepting" ELSE @]
        BY <1>3, <2>1 DEF Send
    <2>4. [request[q] EXCEPT !.sent = n].at = "sending"
        BY <1>1 DEF Handling
    <2>5. request' = [request EXCEPT ![q].sent = n, ![q].at = s]
        BY <1>1, <2>2, <2>3, <2>4
    <2>6. s \in Stages
        BY DEF Stages
    <2>7. Moved(q, s, g.seen, n)
        BY <1>1, <2>5, <2>6, Moving
    <2>8. Item(q, g.sent) \in queue'
        BY <1>3 DEF Send, Enter
    <2>9. s = "accepting" <=> n = Count[g.print]
        BY <2>2
    <2>10. QED
        BY <1>1, <1>2, <2>1, <2>7, <2>8, <2>9
<1>4. CASE SendThrows(q)
    <2>1. PICK s \in {"withdrawing", "revising"} :
            s = IF g.sent = 0 THEN "withdrawing" ELSE "revising"
        OBVIOUS
    <2>2. Moved(q, s, g.seen, g.sent)
        BY <1>1, <1>4, <2>1, Moving DEF SendThrows, Goto, Stages
    <2>3. s = "revising" => g.sent > 0
        BY <1>1, <2>1
    <2>4. QED
        BY <1>1, <1>2, <2>2, <2>3
<1>5. QED
    BY <1>3, <1>4

\* A send: what it has sent is awaited, and all of it once it accepts.
LEMMA WaitSend ==
    ASSUME IInv, IInv', WaitInv, NEW q \in Requests, Send(q) \/ SendThrows(q)
    PROVE  WaitInv'
<1>1. TypeOK /\ TypeOK' /\ Shaped /\ Waiting /\ Waited /\ OneEach
    BY DEF IInv, WaitInv
<1>2. PICK g \in Handling : g = request[q]
    BY <1>1, RequestParts DEF Send, SendThrows
<1>3. /\ g.at = "sending"
      /\ UNCHANGED <<run, receipts, job>> /\ queue \subseteq queue'
      /\ \E s \in {"accepting", "sending", "withdrawing", "revising"}, n \in Nat :
            /\ Moved(q, s, g.seen, n)
            /\ \/ /\ n = g.sent + 1 /\ Item(q, g.sent) \in queue'
                  /\ s \in {"accepting", "sending"}
                  /\ s = "accepting" <=> n = Count[g.print]
               \/ /\ n = g.sent /\ s \in {"withdrawing", "revising"}
                  /\ s = "revising" => n > 0
    BY <1>1, <1>2, SendMoves
<1>4. /\ \A o \in Runs : Lasts(o) /\ Counts(o)
      /\ Waiting'
    BY <1>1, <1>3, Unmoved
<1>5. PICK s \in {"accepting", "sending", "withdrawing", "revising"}, n \in Nat :
            /\ Moved(q, s, g.seen, n)
            /\ \/ /\ n = g.sent + 1 /\ Item(q, g.sent) \in queue'
                  /\ s \in {"accepting", "sending"}
                  /\ s = "accepting" <=> n = Count[g.print]
               \/ /\ n = g.sent /\ s \in {"withdrawing", "revising"}
                  /\ s = "revising" => n > 0
    BY <1>3
<1>6. PICK r \in Runs : r = g.run
    BY HandlingParts
<1>7. /\ Waits(g) /\ Shape(g.at, g.print, g.seen) /\ g.sent \in Nat
    BY <1>1, <1>2, HandlingParts DEF Waited, Shaped
<1>8. /\ g.seen \in Dispatch /\ g.print = g.seen.print
      /\ g.sent < Count[g.seen.print]
    BY <1>3, <1>7 DEF Shape, Waits, Dispatching
<1>9. Count[g.seen.print] \in Nat
    BY <1>8, DispatchParts, CompanionAssumption
<1>10. /\ n <= Count[g.seen.print]
       /\ s = "sending" => n < Count[g.seen.print]
       /\ s = "revising" => n > 0
       /\ s = "accepting" => n = Count[g.seen.print]
    BY <1>5, <1>7, <1>8, <1>9
<1>11. job[r].result = g.seen /\ run[r].status = "queued" =>
           /\ Awaits(r, n)'
           /\ run[r].enqueued = Count[g.seen.print]
    <2> SUFFICES ASSUME job[r].result = g.seen, run[r].status = "queued"
                 PROVE  /\ Awaits(r, n)'
                        /\ run[r].enqueued = Count[g.seen.print]
        OBVIOUS
    <2>1. Awaits(r, g.sent) /\ run[r].enqueued = Count[g.seen.print]
        BY <1>3, <1>6, <1>7 DEF Waits, Owning
    <2>2. \A i : Awaited(r, i) => Awaited(r, i)'
        BY <1>3, AwaitedGrows
    <2>3. \A i \in 0..(g.sent - 1) : Awaited(r, i)'
        BY <2>1, <2>2 DEF Awaits
    <2>4. CASE n = g.sent
        BY <2>1, <2>3, <2>4 DEF Awaits
    <2>5. CASE n = g.sent + 1 /\ Item(q, g.sent) \in queue'
        <3>1. PICK m \in queue' : m = Item(q, g.sent)
            BY <2>5
        <3>2. m.run = r /\ m.item = g.sent
            BY <1>2, <1>6, <3>1 DEF Item
        <3>3. Awaited(r, g.sent)'
            BY <3>2 DEF Awaited
        <3>4. \A i \in 0..(n - 1) : i \in 0..(g.sent - 1) \/ i = g.sent
            BY <1>7, <2>5
        <3>5. QED
            BY <2>1, <2>3, <3>3, <3>4 DEF Awaits
    <2>6. QED
        BY <1>5, <2>4, <2>5
<1>12. \A k \in Handling : /\ k.at = s /\ k.seen = g.seen /\ k.sent = n
                           /\ k.run = request[q].run /\ k.print = request[q].print
                           => Waits(k)'
    <2> SUFFICES ASSUME NEW k \in Handling, k.at = s, k.seen = g.seen, k.sent = n, k.run = r
                 PROVE  Waits(k)'
        BY <1>2, <1>6
    <2>1. k.at \in {"accepting", "sending", "withdrawing", "revising"}
        OBVIOUS
    <2>2. job' = job /\ run' = run
        BY <1>3
    <2>3. k.at = "accepting" /\ Count[k.seen.print] > 0 => k.sent > 0
        BY <1>10
    <2>4. job'[r].result = k.seen /\ run'[r].status = "queued" =>
              /\ Awaits(r, n)'
              /\ run'[r].enqueued = IF k.at \in {"replaying", "accepting"}
                                    THEN k.sent ELSE Count[k.seen.print]
        BY <1>10, <1>11, <2>1, <2>2
    <2>5. QED
        BY <1>10, <2>1, <2>3, <2>4 DEF Waits, Owning
<1>13. s \in Owning => request[q].at \in Owning /\ g.seen.attempt = request[q].seen.attempt
    BY <1>2, <1>3 DEF Owning
<1>14. Waited' /\ OneEach'
    BY <1>1, <1>4, <1>5, <1>12, <1>13, HandlingParts, WaitedMoved
<1>15. QED
    BY <1>4, <1>14 DEF WaitInv

\* A revision under a dispatch that is still the job's: no other request sends
\* for the run, and its job is not decided.
LEMMA WaitRevise ==
    ASSUME IInv, IInv', WaitInv, Timely, NEW q \in Requests, Revise(q)
    PROVE  WaitInv'
<1>1. TypeOK /\ TypeOK' /\ Shaped /\ Waiting /\ Waited /\ OneEach
    BY DEF IInv, WaitInv
<1>2. /\ request[q].at = "revising"
      /\ Moved(q, "replaying", request[q].seen, request[q].sent)
      /\ UNCHANGED <<receipts, job, queue>>
      /\ \/ /\ run[request[q].run].status = "queued"
            /\ Written(request[q].run, "queued", request[q].sent, TRUE,
                       run[request[q].run].accounted)
         \/ run[request[q].run].status # "queued" /\ run' = run
    BY <1>1, ReviseIs
<1>3. PICK g \in Handling : g = request[q]
    BY <1>1, <1>2, RequestParts
<1>4. PICK r \in Runs : r = g.run
    BY HandlingParts
<1>5. /\ Waits(g) /\ Shape(g.at, g.print, g.seen) /\ g.sent \in Nat /\ JobSide(r)
    BY <1>1, <1>3, HandlingParts DEF Waited, Shaped, IInv, Sides
<1>6. g.seen \in Dispatch /\ g.seen.phase = "dispatching" /\ g.seen # NoResult
    BY <1>2, <1>3, <1>5, DispatchParts DEF Shape, Dispatching
<1>7. request'[q].at = "replaying"
    BY <1>1, <1>2, MovedRequests
<1>8. job[r].result = g.seen
    BY <1>2, <1>3, <1>4, <1>7 DEF Timely
<1>9. ~Decided(r) /\ job[r].status \notin {"complete", "failed"}
    BY <1>5, <1>6, <1>8 DEF Decided, JobSide
<1>10. /\ \A o \in Runs \ {r} : run'[o] = run[o]
       /\ run'[r].status = run[r].status
       /\ run[r].status = "queued" => run'[r].enqueued = g.sent
    <2>1. CASE run[r].status = "queued"
        <3>1. PICK n, b, a : Written(r, "queued", n, b, a) /\ n = g.sent
            BY <1>2, <1>3, <1>4, <2>1
        <3>2. QED
            BY <1>1, <2>1, <3>1, WrittenRuns
    <2>2. CASE run[r].status # "queued"
        BY <1>2, <1>3, <1>4, <2>2
    <2>3. QED
        BY <2>1, <2>2
<1>11. \A o, i : Awaited(o, i) => Awaited(o, i)'
    BY <1>2, AwaitedGrows
<1>12. /\ \A o \in Runs : Lasts(o)
       /\ \A o \in Runs \ {r} : Counts(o)
    BY <1>2, <1>10, <1>11 DEF Lasts, Counts
<1>13. \A o \in Runs \ {r} : WaitSide(o)'
    BY <1>1, <1>2, <1>10, <1>12, WaitSideKept DEF Waiting
<1>14. WaitSide(r)'
    <2>1. WaitSide(r) /\ job'[r] = job[r]
        BY <1>1, <1>2 DEF Waiting
    <2>2. ~Decided(r)'
        BY <1>9, <2>1 DEF Decided
    <2>3. QED
        BY <1>9, <1>10, <2>1, <2>2 DEF WaitSide
<1>15. ASSUME NEW o \in Requests \ {q}, NEW h \in Handling, request[o] = h, h.at \in Owning,
              job[h.run].result = h.seen
       PROVE  Counts(h.run)
    <2>1. h.run # r
        <3> SUFFICES ASSUME h.run = r PROVE FALSE
            OBVIOUS
        <3>1. request[o].seen.attempt = request[q].seen.attempt
            BY <1>3, <1>8, <1>15
        <3>2. request[q].at \in Owning /\ request[o].at \in Owning
            BY <1>2, <1>15 DEF Owning
        <3>3. QED
            BY <1>1, <1>15, <3>1, <3>2 DEF OneEach
    <2>2. h.run \in Runs
        BY HandlingParts
    <2>3. QED
        BY <1>12, <2>1, <2>2
<1>16. \A k \in Handling : /\ k.at = "replaying" /\ k.seen = g.seen /\ k.sent = g.sent
                           /\ k.run = request[q].run /\ k.print = request[q].print
                           => Waits(k)'
    <2> SUFFICES ASSUME NEW k \in Handling, k.at = "replaying", k.seen = g.seen,
                        k.sent = g.sent, k.run = r
                 PROVE  Waits(k)'
        BY <1>3, <1>4
    <2>1. k.sent <= Count[k.seen.print] /\ k.sent > 0
        BY <1>2, <1>3, <1>5 DEF Waits, Owning
    <2>2. run'[r].status = "queued" => Awaits(r, g.sent)' /\ run'[r].enqueued = g.sent
        <3> SUFFICES ASSUME run'[r].status = "queued"
                     PROVE  Awaits(r, g.sent)' /\ run'[r].enqueued = g.sent
            OBVIOUS
        <3>1. run[r].status = "queued" /\ run'[r].enqueued = g.sent
            BY <1>10
        <3>2. Awaits(r, g.sent)
            BY <1>2, <1>3, <1>4, <1>5, <1>8, <3>1 DEF Waits, Owning
        <3>3. QED
            BY <1>11, <3>1, <3>2 DEF Awaits
    <2>3. QED
        BY <2>1, <2>2 DEF Waits, Owning
<1>17. Waited' /\ OneEach'
    <2>1. "replaying" \in Owning => request[q].at \in Owning /\ g.seen.attempt = request[q].seen.attempt
        BY <1>2, <1>3 DEF Owning
    <2>2. Moved(q, "replaying", g.seen, g.sent)
        BY <1>2, <1>3
    <2>3. QED
        BY <1>1, <1>12, <1>15, <1>16, <2>1, <2>2, WaitedMoved
<1>18. QED
    BY <1>13, <1>14, <1>17 DEF WaitInv, Waiting

\* An aggregation ends its run or leaves it as it is.
LEMMA WaitAggregate ==
    ASSUME IInv, WaitInv, NEW r \in Runs, NEW rc, Aggregate(r, rc), job' = job,
           \A o \in Runs : run[o].status = "queued" =>
               \A i \in 0..(run[o].enqueued - 1) : Awaited(o, i) => Awaited(o, i)'
    PROVE  /\ \A o \in Runs : Lasts(o) /\ Counts(o)
           /\ Waiting'
<1>1. TypeOK /\ Waiting
    BY DEF IInv, WaitInv
<1>2. \A o \in Runs : \/ run'[o] = run[o]
                      \/ run'[o].status \in Ended
    BY <1>1, Aggregating
<1>3. \A o \in Runs : Lasts(o) /\ Counts(o)
    BY <1>2 DEF Lasts, Counts, Ended
<1>4. \A o \in Runs : WaitSide(o)'
    BY <1>1, <1>2, <1>3, WaitSideKept DEF Waiting, Ended
<1>5. QED
    BY <1>3, <1>4 DEF Waiting

LEMMA WaitReplay ==
    ASSUME IInv, IInv', WaitInv, NEW q \in Requests, Replay(q)
    PROVE  WaitInv'
<1>1. TypeOK /\ TypeOK' /\ Shaped /\ Waiting /\ Waited /\ OneEach
    BY DEF IInv, WaitInv
<1>2. PICK g \in Handling : g = request[q]
    BY <1>1, RequestParts DEF Replay
<1>3. PICK r \in Runs : r = g.run
    BY HandlingParts
<1>4. /\ g.at = "replaying" /\ Aggregate(r, receipts[r])
      /\ Moved(q, "accepting", g.seen, g.sent)
      /\ UNCHANGED <<receipts, job, queue>>
    BY <1>1, <1>2, <1>3, ReplayIs
<1>5. \A o, i : Awaited(o, i) => Awaited(o, i)'
    BY <1>4, AwaitedGrows
<1>6. /\ \A o \in Runs : Lasts(o) /\ Counts(o)
      /\ Waiting'
    BY <1>4, <1>5, WaitAggregate
<1>7. Waits(g) /\ Waits(g)'
    <2>1. Waits(g) /\ Shape(g.at, g.print, g.seen) /\ Follow(g)
        BY <1>1, <1>2 DEF Waited, IInv, Shaped, Followed
    <2>2. QED
        BY <1>1, <1>3, <1>6, <2>1, WaitsKept
<1>8. \A k \in Handling : /\ k.at = "accepting" /\ k.seen = g.seen /\ k.sent = g.sent
                          /\ k.run = request[q].run /\ k.print = request[q].print
                          => Waits(k)'
    BY <1>2, <1>4, <1>7 DEF Waits, Owning
<1>9. "accepting" \in Owning => request[q].at \in Owning /\ g.seen.attempt = request[q].seen.attempt
    BY <1>2, <1>4 DEF Owning
<1>10. Waited' /\ OneEach'
    BY <1>1, <1>4, <1>6, <1>8, <1>9, HandlingParts, WaitedMoved
<1>11. QED
    BY <1>6, <1>10 DEF WaitInv

\* A message leaves the queue, as far as its run still waits for it, with a
\* receipt.
LEMMA AwaitedReceipted ==
    ASSUME TypeOK, NEW m \in Message, NEW kind,
           receipts' = [receipts EXCEPT ![m.run] = Receipt(m, kind)], queue \ {m} \subseteq queue',
           NEW r \in Runs, run[r].status = "queued", NEW i \in 0..(run[r].enqueued - 1),
           Awaited(r, i)
    PROVE  Awaited(r, i)'
<1>1. m.run \in Runs /\ receipts \in [Runs -> Receipts]
    BY DEF Message, TypeOK
<1>2. /\ receipts'[m.run] = Receipt(m, kind)
      /\ \A o \in Runs \ {m.run} : receipts'[o] = receipts[o]
    BY <1>1
<1>3. /\ receipts[r].done \subseteq receipts'[r].done
      /\ receipts[r].failed \subseteq receipts'[r].failed
    <2>1. CASE r # m.run
        BY <1>2, <2>1
    <2>2. CASE r = m.run
        <3>1. PICK rc \in Receipts : rc = receipts[m.run]
            BY <1>1
        <3>2. /\ [rc EXCEPT !.failed = @ \cup {m.item}].done = rc.done
              /\ [rc EXCEPT !.failed = @ \cup {m.item}].failed = rc.failed \cup {m.item}
              /\ [rc EXCEPT !.done = @ \cup {m.item}].failed = rc.failed
              /\ [rc EXCEPT !.done = @ \cup {m.item}].done = rc.done \cup {m.item}
            BY DEF Receipts
        <3>3. \/ Receipt(m, kind) = rc
              \/ Receipt(m, kind) = [rc EXCEPT !.failed = @ \cup {m.item}]
              \/ Receipt(m, kind) = [rc EXCEPT !.done = @ \cup {m.item}]
            BY <3>1 DEF Receipt
        <3>4. rc.done \subseteq Receipt(m, kind).done /\ rc.failed \subseteq Receipt(m, kind).failed
            BY <3>2, <3>3
        <3>5. QED
            BY <1>2, <2>2, <3>1, <3>4
    <2>3. QED
        BY <2>1, <2>2
<1>4. CASE i \in receipts[r].done \cup receipts[r].failed
    BY <1>3, <1>4 DEF Awaited
<1>5. CASE \E n \in queue : n # m /\ n.run = r /\ n.item = i
    BY <1>5 DEF Awaited
<1>6. CASE m.run = r /\ m.item = i /\ i \notin receipts[r].done \cup receipts[r].failed
    <2>1. i < run[r].enqueued
        BY RunParts
    <2>2. i \in receipts'[r].done \cup receipts'[r].failed
        BY <1>1, <1>2, <1>6, <2>1 DEF Receipt, Receipts
    <2>3. QED
        BY <2>2 DEF Awaited
<1>7. QED
    BY <1>4, <1>5, <1>6 DEF Awaited

LEMMA WaitConsumer ==
    ASSUME IInv, IInv', WaitInv, NEW m \in queue, Consume(m) \/ Exhaust(m)
    PROVE  WaitInv'
<1>1. TypeOK /\ TypeOK' /\ Shaped /\ Waiting /\ Waited /\ OneEach
    BY DEF IInv, WaitInv
<1>2. PICK kind : Record(m, kind)
    BY DEF Consume, Exhaust
<1>3. UNCHANGED <<job, request>> /\ queue \ {m} \subseteq queue'
    BY DEF Consume, Exhaust, server
<1>4. PICK b \in Message : b = m
    BY <1>1 DEF TypeOK
<1>5. /\ receipts' = [receipts EXCEPT ![b.run] = Receipt(b, kind)]
      /\ Aggregate(b.run, Receipt(b, kind)) /\ b.run \in Runs
    BY <1>2, <1>4 DEF Record, Message
<1>6. \A o \in Runs : run[o].status = "queued" =>
          \A i \in 0..(run[o].enqueued - 1) : Awaited(o, i) => Awaited(o, i)'
    BY <1>1, <1>3, <1>4, <1>5, AwaitedReceipted
<1>7. /\ \A o \in Runs : Lasts(o) /\ Counts(o)
      /\ Waiting'
    BY <1>3, <1>5, <1>6, WaitAggregate
<1>8. Waited'
    BY <1>1, <1>3, <1>7, HandlingParts, WaitedKept
<1>9. OneEach'
    BY <1>1, <1>3 DEF OneEach
<1>10. QED
    BY <1>7, <1>8, <1>9 DEF WaitInv

\* A completion: without items it ends the run, and with items the run waits
\* for some.
LEMMA WaitFinish ==
    ASSUME IInv, IInv', WaitInv, NEW q \in Requests, Finish(q)
    PROVE  WaitInv'
<1>1. TypeOK /\ TypeOK' /\ Shaped /\ Waiting /\ Waited /\ OneEach
    BY DEF IInv, WaitInv
<1>2. PICK g \in Handling : g = request[q]
    BY <1>1, RequestParts DEF Finish
<1>3. /\ g.at = "finishing" /\ g.at # "idle" /\ g.run \in Runs /\ g.sent \in Nat
      /\ g.seen \in {NoResult} \cup Dispatch /\ Follow(g) /\ Waits(g)
    BY <1>1, <1>2, HandlingParts DEF Finish, IInv, Followed, Waited
<1>4. PICK r \in Runs, d \in {NoResult} \cup Dispatch : r = g.run /\ d = g.seen
    BY <1>3
<1>5. PICK wins \in BOOLEAN : wins = (job[r].status = "leased" /\ job[r].result = d)
    OBVIOUS
<1>6. /\ Answer(q, TRUE)
      /\ UNCHANGED <<receipts, queue>>
      /\ ~wins => job' = job
      /\ wins /\ d = NoResult => Noted(r, "failed", NoResult)
      /\ wins /\ d # NoResult => Noted(r, "complete", [d EXCEPT !.accepted = g.sent])
      /\ \/ UNCHANGED <<run, health>>
         \/ wins /\ Open(r) /\ \E s \in Ended : \E b, a : Written(r, s, 0, b, a)
    BY <1>1, <1>2, <1>4, <1>5, FinishIs
<1>7. wins /\ g.sent = 0 /\ Open(r) => run'[r].status \in Ended
    <2> SUFFICES ASSUME wins, g.sent = 0, Open(r) PROVE run'[r].status \in Ended
        OBVIOUS
    <2>1. PICK s \in Ended : s = IF d = NoResult THEN "failed"
                                 ELSE IF d.print \in PartialPrints THEN "partial" ELSE "success"
        BY DEF Ended
    <2>2. request[q].run = r /\ request[q].seen = d /\ request[q].sent = 0
        BY <1>2, <1>4
    <2>3. PICK b, a : Written(r, s, 0, b, a)
        <3>1. /\ job[request[q].run].status = "leased"
              /\ job[request[q].run].result = request[q].seen /\ Open(request[q].run)
            BY <1>5, <2>2
        <3>2. s = IF request[q].seen = NoResult THEN "failed"
                  ELSE IF request[q].seen.print \in PartialPrints THEN "partial" ELSE "success"
            BY <2>1, <2>2
        <3>3. run' = [run EXCEPT ![request[q].run].status = s, ![request[q].run].enqueued = 0,
                                 ![request[q].run].accounted = TRUE]
            BY <2>2, <3>1, <3>2 DEF Finish
        <3>4. s \in Statuses /\ 0 \in Nat /\ TRUE \in BOOLEAN
            BY DEF Statuses
        <3>5. Written(request[q].run, s, 0, run[request[q].run].partial, TRUE)
            BY <1>1, <2>2, <3>3, <3>4, RunParts, Writing
        <3>6. QED
            BY <2>2, <3>5
    <2>4. QED
        BY <1>1, <2>1, <2>3, WrittenRuns
<1>8. /\ \A o \in Runs \ {r} : run'[o] = run[o]
      /\ run'[r] = run[r] \/ run'[r].status \in Ended
    BY <1>1, <1>6, WrittenRuns
<1>9. \A o, i : Awaited(o, i) => Awaited(o, i)'
    BY <1>6, AwaitedGrows
<1>10. CASE ~wins
    <2>1. UNCHANGED <<run, receipts, job>> /\ queue \subseteq queue'
        BY <1>6, <1>10
    <2>2. /\ \A o \in Runs : Lasts(o) /\ Counts(o)
          /\ Waiting'
        BY <1>1, <2>1, Unmoved
    <2>3. Waited' /\ OneEach'
        BY <1>1, <1>2, <1>3, <1>6, <2>2, Answering, HandlingParts, WaitedAnswered
    <2>4. QED
        BY <2>2, <2>3 DEF WaitInv
<1>11. CASE wins
    <2>1. job[r].status = "leased" /\ job[r].result = d
        BY <1>5, <1>11
    <2>2. /\ \A o \in Runs \ {r} : job'[o] = job[o]
          /\ job'[r].status \in {"complete", "failed"}
        BY <1>1, <1>6, <1>11, NotedJobs
    <2>3. d # NoResult => Decided(r)
        BY <1>3, <1>4 DEF Follow
    <2>4. job'[r].result = job[r].result \/ job'[r].result.phase # "dispatching"
        <3>1. CASE d = NoResult
            BY <1>1, <1>6, <1>11, <2>1, <3>1, NotedJobs
        <3>2. CASE d # NoResult
            <4>1. d \in Dispatch /\ d.phase = "accepted"
                BY <2>1, <2>3, <3>2 DEF Decided
            <4>2. [d EXCEPT !.accepted = g.sent].phase = "accepted"
                BY <4>1 DEF Dispatch
            <4>3. job'[r].result = [d EXCEPT !.accepted = g.sent]
                BY <1>1, <1>6, <1>11, <3>2, NotedJobs
            <4>4. QED
                BY <4>2, <4>3
        <3>3. QED
            BY <3>1, <3>2
    <2>5. \A o \in Runs : Lasts(o) /\ Counts(o)
        BY <1>8, <1>9, <2>2, <2>4 DEF Lasts, Counts, Ended
    <2>6. run'[r].status = "queued" =>
              run'[r].enqueued > 0 /\ Awaits(r, run[r].enqueued)'
        <3> SUFFICES ASSUME run'[r].status = "queued"
                     PROVE  run'[r].enqueued > 0 /\ Awaits(r, run[r].enqueued)'
            OBVIOUS
        <3>1. run'[r] = run[r]
            BY <1>8 DEF Ended
        <3>2. Open(r)
            BY <3>1 DEF IInv, Once, OnceAt, Open, Ended
        <3>3. g.sent > 0
            BY <1>3, <1>7, <1>11, <3>1, <3>2 DEF Ended
        <3>4. Decided(r)
            BY <1>3, <1>4, <3>3 DEF Follow
        <3>5. g.sent <= Count[job[r].result.print]
            BY <1>3, <1>4, <2>1, <3>4 DEF Waits
        <3>6. Count[job[r].result.print] \in Nat
            BY <1>1, <3>4, JobParts, DispatchParts, CompanionAssumption DEF Decided
        <3>7. Count[job[r].result.print] > 0
            BY <1>3, <3>3, <3>5, <3>6
        <3>8. run[r].enqueued > 0 /\ Awaits(r, run[r].enqueued)
            BY <1>1, <2>1, <3>1, <3>4, <3>7 DEF Waiting, WaitSide
        <3>9. QED
            BY <1>9, <3>1, <3>8 DEF Awaits
    <2>7. WaitSide(r)'
        BY <2>2, <2>6 DEF WaitSide
    <2>8. \A o \in Runs \ {r} : WaitSide(o)'
        BY <1>1, <1>8, <2>2, <2>5, WaitSideKept DEF Waiting
    <2>9. Waited' /\ OneEach'
        BY <1>1, <1>2, <1>3, <1>6, <2>5, Answering, HandlingParts, WaitedAnswered
    <2>10. QED
        BY <2>7, <2>8, <2>9 DEF WaitInv, Waiting
<1>12. QED
    BY <1>10, <1>11

LEMMA WaitInit == Init => WaitInv
<1> SUFFICES ASSUME Init PROVE WaitInv
    OBVIOUS
<1>1. Waiting
    BY DEF Init, Waiting, WaitSide, NoResult
<1>2. Waited
    BY HandlingParts DEF Init, Waited
<1>3. OneEach
    BY DEF Init, OneEach, Idle, Owning
<1>4. QED
    BY <1>1, <1>2, <1>3 DEF WaitInv

LEMMA WaitNext ==
    ASSUME ~Overtaking, IInv, IInv', WaitInv, [Next]_vars, [Timely]_vars
    PROVE  WaitInv'
<1>1. CASE UNCHANGED vars
    <2>1. UNCHANGED <<run, receipts, job, request, queue>>
        BY <1>1 DEF vars, ledger, server
    <2>2. TypeOK' /\ Waiting /\ Waited /\ OneEach
        BY DEF IInv, WaitInv
    <2>3. /\ \A r \in Runs : Lasts(r) /\ Counts(r)
          /\ Waiting'
        BY <2>1, <2>2, Unmoved
    <2>4. Waited'
        BY <2>1, <2>2, <2>3, HandlingParts, WaitedKept
    <2>5. OneEach'
        BY <2>1, <2>2 DEF OneEach
    <2>6. QED
        BY <2>3, <2>4, <2>5 DEF WaitInv
<1>2. CASE Next /\ Timely
    <2>1. ASSUME NEW r \in Runs, Producing(r) PROVE WaitInv'
        BY <2>1, WaitRunSource
    <2>2. ASSUME NEW p \in Companions, Companion(p) \/ Abandon(p) PROVE WaitInv'
        BY <2>2, WaitCompanion
    <2>3. ASSUME NEW q \in Requests, Quiet(q) PROVE WaitInv'
        BY <2>3, WaitQuiet
    <2>4. ASSUME NEW q \in Requests, Changing(q) PROVE WaitInv'
        BY <1>2, <2>4, WaitConfirm, WaitWithdraw, WaitBegin, WaitSend, WaitRevise, WaitReplay,
           WaitFinish DEF Changing
    <2>5. ASSUME NEW m \in queue, Consume(m) \/ Exhaust(m) PROVE WaitInv'
        BY <2>5, WaitConsumer
    <2>6. TypeOK
        BY DEF IInv
    <2>7. QED
        BY <1>2, <2>1, <2>2, <2>3, <2>4, <2>5, <2>6, Steps
<1>3. QED
    BY <1>1, <1>2

LEMMA WaitFollows == IInv /\ WaitInv => NotOrphaned
<1> SUFFICES ASSUME IInv, WaitInv, NEW r \in Runs, run[r].status = "queued",
                    job[r].status \notin Active
             PROVE  /\ run[r].enqueued > 0
                    /\ \A i \in 0..(run[r].enqueued - 1) :
                          \/ i \in receipts[r].done \cup receipts[r].failed
                          \/ \E m \in queue : m.run = r /\ m.item = i
    BY DEF NotOrphaned
<1>1. WaitSide(r)
    BY DEF WaitInv, Waiting
<1>2. job[r].status \in {"complete", "failed"}
    BY <1>1, JobParts DEF IInv, WaitSide
<1>3. QED
    BY <1>1, <1>2 DEF WaitSide, Awaits, Awaited

\* A run that has been handed over is never orphaned, whatever crashes, times
\* out and is sent twice, when no job is claimed before runSource has returned
\* and no request revises the count of a run whose dispatch another request has
\* taken over.
THEOREM Not_Orphaned ==
    ASSUME ~Overtaking
    PROVE  Spec /\ [][Timely]_vars => []NotOrphaned
<1>1. IInv /\ [Next]_vars => IInv'
    BY InvNext
<1>2. IInv /\ IInv' /\ WaitInv /\ [Next]_vars /\ [Timely]_vars => WaitInv'
    BY WaitNext
<1>3. QED
    BY <1>1, <1>2, InvInit, WaitInit, WaitFollows, PTL DEF Spec

=============================================================================
