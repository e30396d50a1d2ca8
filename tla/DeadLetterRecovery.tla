------------------------- MODULE DeadLetterRecovery -------------------------
(* Private messages after the queue has accepted them: the three consumers   *)
(* (src/ingest-consumer.ts), the incident rows of exhausted messages         *)
(* (ingest_dead_letters in src/db.ts), the emergency objects that stand in   *)
(* for them while the database is down (src/quarantine-recovery.ts), and the *)
(* owner's retry and dismiss (src/api.ts), with the health gate in front of  *)
(* every send (src/queue-health.ts).                                         *)
(*                                                                           *)
(* A message is a mail and the token of the receipt claim it was sent under; *)
(* each accepted send is one copy with an identity of its own.  The private  *)
(* path keeps no raw object.  Clocks are abstracted: a retry lease may be    *)
(* found expired when its owner request has died, and at the price of a      *)
(* fault while that request lives.  A database outage is a state, not a      *)
(* fault of one call: consumers exhaust their retries while it lasts.        *)
EXTENDS Integers, FiniteSets, FiniteSetsExt

CONSTANTS Mails,        \* e-mails, by Message-ID
          Owners,       \* owner requests that may run at the same time
          None, Dead,   \* no claim; the claim of a request that has died
          MaxCopies,    \* bound: sends the queue accepts
          MaxFaults,    \* bound: crashes, lost acknowledgements, failed sends
          MaxOutages    \* bound: outages of the database

ASSUME RecoveryAssumption ==
    /\ IsFiniteSet(Owners)
    /\ None \notin Owners /\ Dead \notin Owners /\ None # Dead
    /\ MaxCopies \in Nat /\ MaxFaults \in Nat /\ MaxOutages \in Nat

VARIABLES receipt,   \* inbox_receipts: queue_state and queue_claim_token of each mail
          copy,      \* what the queue has accepted: its lane, its consumer's step
          ingested,  \* mails whose item is in the database
          incident,  \* ingest_dead_letters, by queue message
          object,    \* copies whose body is in the emergency store
          owner,     \* where each owner request is
          d1,        \* whether the database answers
          outages, faults

recovery == <<receipt, copy, ingested, incident, object, owner>>
world    == <<d1, outages, faults>>

Copies    == 1..MaxCopies
\* The id a message is stored under: its id in the lane, or its digest.
Incidents == Copies \X {"dlq", "quarantine", "r2"}
Idle      == [at |-> "idle"]
NoCopy    == [lane |-> "none"]

InitRecovery ==
    /\ receipt = [m \in Mails |-> [state |-> "none", token |-> 0]]
    /\ copy = [k \in Copies |-> NoCopy]
    /\ ingested = {} /\ object = {}
    /\ incident = [i \in Incidents |-> [status |-> "none", body |-> FALSE, claim |-> None]]
    /\ owner = [o \in Owners |-> Idle]
    /\ d1 = TRUE /\ outages = 0 /\ faults = 0

Fault == faults < MaxFaults /\ faults' = faults + 1

\* What goes wrong costs a fault; what goes right costs nothing.
Costs(wrong) == IF wrong THEN Fault ELSE UNCHANGED faults

Sent     == {k \in Copies : copy[k].lane # "none"}
Exhausted == {k \in Copies : copy[k].lane \in {"dlq", "quarantine"}}
Unresolved == {i \in Incidents : incident[i].status = "unresolved"}

\* requireIngestQueueTransportDurability: both failure queues are empty.
TransportDurable == Exhausted = {}

\* requireIngestQueueDurability: and nothing waits for the owner.
QueueDurable == d1 /\ TransportDurable /\ Unresolved = {} /\ object = {}

\* The queue accepts a message: a new copy at the end of the primary lane.
Accept(m, t, from) ==
    /\ Sent # Copies
    /\ copy' = [copy EXCEPT ![Min(Copies \ Sent)] =
                   [lane |-> "primary", at |-> "ready", mail |-> m, token |-> t, from |-> from]]

-----------------------------------------------------------------------------
(* The consumers.  An attempt that fails is delivered again until the lane's *)
(* retries are used up; an acknowledgement may be lost.                      *)

\* The attempt of copy k ends: acknowledged, or delivered again if that is lost.
Ack(k, lost) ==
    /\ copy' = [copy EXCEPT ![k] = IF lost THEN [@ EXCEPT !.at = "failed"]
                                           ELSE [@ EXCEPT !.lane = "done", !.at = "ready"]]
    /\ Costs(lost)

AttemptFails(k) ==
    /\ copy[k].lane \in {"primary", "dlq"} /\ copy[k].at # "failed" /\ ~d1
    /\ copy' = [copy EXCEPT ![k].at = "failed"]
    /\ UNCHANGED <<receipt, ingested, incident, object, owner, world>>

Exhaust(k) ==
    /\ copy[k].lane \in {"primary", "dlq"} /\ copy[k].at = "failed"
    /\ copy' = [copy EXCEPT ![k].at = "ready",
                            ![k].lane = IF @ = "primary" THEN "dlq" ELSE "quarantine"]
    /\ UNCHANGED <<receipt, ingested, incident, object, owner, world>>

Ingest(k) ==
    /\ copy[k].lane = "primary" /\ copy[k].at # "ingested" /\ d1
    /\ ingested' = ingested \cup {copy[k].mail}
    /\ copy' = [copy EXCEPT ![k].at = "ingested"]
    /\ UNCHANGED <<receipt, incident, object, owner, world>>

Current(k) == receipt[copy[k].mail].token = copy[k].token

\* reconcileInboxReceiptQueueClaim: the receipt's own claim reached the store.
Reconcile(k, lost) ==
    /\ copy[k].lane = "primary" /\ copy[k].at = "ingested" /\ d1 /\ Current(k)
    /\ receipt' = [receipt EXCEPT ![copy[k].mail].state = "queued"]
    /\ Ack(k, lost)
    /\ UNCHANGED <<ingested, incident, object, owner, d1, outages>>

\* The claim has been given to another delivery since: the attempt fails.
ReconcileFails(k) ==
    /\ copy[k].lane = "primary" /\ copy[k].at = "ingested" /\ d1 /\ ~Current(k)
    /\ copy' = [copy EXCEPT ![k].at = "failed"]
    /\ UNCHANGED <<receipt, ingested, incident, object, owner, world>>

\* recordUnresolvedIngestDeadLetter: one batch writes the incident, keeping the
\* status and the body of a row that is there, and fails the receipt.
Record(k, i) ==
    /\ incident' = [incident EXCEPT ![i] =
                       IF @.status = "none" THEN [@ EXCEPT !.status = "unresolved", !.body = TRUE]
                                            ELSE @]
    /\ receipt' = IF Current(k) THEN [receipt EXCEPT ![copy[k].mail].state = "failed"]
                                ELSE receipt

Persist(k, lost) ==
    /\ copy[k].lane \in {"dlq", "quarantine"} /\ d1
    /\ Record(k, <<k, copy[k].lane>>)
    /\ Ack(k, lost)
    /\ UNCHANGED <<ingested, object, owner, d1, outages>>

\* The quarantine consumer's way out while the database is down.
Emergency(k, lost) ==
    /\ copy[k].lane = "quarantine" /\ ~d1
    /\ object' = object \cup {k}
    /\ Ack(k, lost)
    /\ UNCHANGED <<receipt, ingested, incident, owner, d1, outages>>

\* The batch has committed but its answer is lost: the object is written too.
EmergencyToo(k) ==
    /\ copy[k].lane = "quarantine" /\ d1 /\ Fault
    /\ Record(k, <<k, "quarantine">>)
    /\ object' = object \cup {k}
    /\ copy' = [copy EXCEPT ![k].lane = "done", ![k].at = "ready"]
    /\ UNCHANGED <<ingested, owner, d1, outages>>

-----------------------------------------------------------------------------
(* The owner's retry and dismiss.  An incident of the emergency store is     *)
(* materialized as a row first; its object goes last.                        *)

At(o, step) == owner[o].at = step
Goto(o, step) == owner' = [owner EXCEPT ![o].at = step]
Leave(o) == owner' = [owner EXCEPT ![o] = Idle]

\* A dismissal, or a retry that has passed the transport check.  The list shows
\* an object while there is one, and its row never.
Start(o, i, action) ==
    /\ At(o, "idle") /\ d1
    /\ action = "retry" => TransportDurable
    /\ IF i[2] = "r2" THEN i[1] \in object ELSE incident[i].status = "unresolved"
    /\ owner' = [owner EXCEPT ![o] =
                    [at |-> IF i[2] = "r2" THEN "looking"
                            ELSE IF action = "retry" THEN "claiming" ELSE "dismissing",
                     incident |-> i, action |-> action]]
    /\ UNCHANGED <<receipt, copy, ingested, incident, object, world>>

\* What an action on an emergency object does once its row is known.
Proceed(o) ==
    Goto(o, IF incident[owner[o].incident].status # "unresolved" THEN "deleting"
            ELSE IF owner[o].action = "retry" THEN "claiming" ELSE "dismissing")

\* materializeQuarantineRecovery reads the object and looks for its row.
Look(o) ==
    /\ At(o, "looking") /\ d1
    /\ IF owner[o].incident[1] \notin object THEN Leave(o)
       ELSE IF incident[owner[o].incident].status = "none" THEN Goto(o, "materializing")
       ELSE Proceed(o)
    /\ UNCHANGED <<receipt, copy, ingested, incident, object, world>>

Materialize(o) ==
    /\ At(o, "materializing") /\ d1
    /\ Record(owner[o].incident[1], owner[o].incident)
    /\ Goto(o, "reloading")
    /\ UNCHANGED <<copy, ingested, object, world>>

Reload(o) ==
    /\ At(o, "reloading") /\ d1
    /\ Proceed(o)
    /\ UNCHANGED <<receipt, copy, ingested, incident, object, world>>

Disposed(i, status) ==
    incident' = [incident EXCEPT ![i] = [status |-> status, body |-> FALSE, claim |-> None]]

\* After the row's disposition only the object is left, if there is one.
AfterDisposition(o) == IF owner[o].incident[2] = "r2" THEN Goto(o, "deleting") ELSE Leave(o)

\* resolveIngestDeadLetter: only an unclaimed row, and a repeated dismissal.
Dismiss(o) ==
    /\ At(o, "dismissing") /\ d1
    /\ LET i == owner[o].incident
       IN CASE incident[i].status = "unresolved" /\ incident[i].claim = None ->
                  Disposed(i, "ignored") /\ AfterDisposition(o)
            [] incident[i].status = "ignored" -> UNCHANGED incident /\ AfterDisposition(o)
            [] OTHER -> UNCHANGED incident /\ Leave(o)
    /\ UNCHANGED <<receipt, copy, ingested, object, world>>

\* Mutant of Lease: the body goes to the request and is cleared in the row.
LeaseClears(o) ==
    /\ At(o, "claiming") /\ d1
    /\ LET row == incident[owner[o].incident]
       IN row.status = "unresolved" /\ row.body /\ Costs(row.claim \in Owners)
    /\ incident' = [incident EXCEPT ![owner[o].incident].claim = o,
                                    ![owner[o].incident].body = FALSE]
    /\ Goto(o, "sending")
    /\ UNCHANGED <<receipt, copy, ingested, object, d1, outages>>

\* Mutant of Lease: the row is read and then written without looking at the claim.
LeaseUnseen(o) ==
    /\ At(o, "claiming") /\ d1
    /\ incident[owner[o].incident].status = "unresolved"
    /\ incident' = [incident EXCEPT ![owner[o].incident].claim = o]
    /\ Goto(o, "sending")
    /\ UNCHANGED <<receipt, copy, ingested, object, world>>

\* Mutant of Lease: the lease has no end.
LeaseForEver(o) ==
    /\ At(o, "claiming") /\ d1
    /\ LET row == incident[owner[o].incident]
       IN row.status = "unresolved" /\ row.body /\ row.claim = None
    /\ incident' = [incident EXCEPT ![owner[o].incident].claim = o]
    /\ Goto(o, "sending")
    /\ UNCHANGED <<receipt, copy, ingested, object, world>>

\* claimIngestDeadLetterForRetry: a free row, or one whose lease has run out.
Lease(o) ==
    /\ At(o, "claiming") /\ d1
    /\ LET row == incident[owner[o].incident]
       IN row.status = "unresolved" /\ row.body /\ Costs(row.claim \in Owners)
    /\ incident' = [incident EXCEPT ![owner[o].incident].claim = o]
    /\ Goto(o, "sending")
    /\ UNCHANGED <<receipt, copy, ingested, object, d1, outages>>

LeaseRefused(o) ==
    /\ At(o, "claiming") /\ d1
    /\ LET row == incident[owner[o].incident] IN row.status # "unresolved" \/ row.claim # None
    /\ Leave(o)
    /\ UNCHANGED <<receipt, copy, ingested, incident, object, world>>

\* enqueueRecoveryIngestMessage: the message is sent again under its old token.
Resend(o) ==
    /\ At(o, "sending") /\ d1 /\ TransportDurable
    /\ LET k == owner[o].incident[1] IN Accept(copy[k].mail, copy[k].token, owner[o].incident)
    /\ Goto(o, "completing")
    /\ UNCHANGED <<receipt, ingested, incident, object, world>>

\* The lease is given back: nothing was sent as far as the request knows.
Release(o) ==
    /\ incident' = [incident EXCEPT ![owner[o].incident].claim = IF @ = o THEN None ELSE @]
    /\ Leave(o)

ResendRefused(o) ==
    /\ At(o, "sending") /\ d1 /\ ~TransportDurable
    /\ Release(o)
    /\ UNCHANGED <<receipt, copy, ingested, object, world>>

\* The send throws, before or after the queue has taken the message.
ResendThrows(o, taken) ==
    /\ At(o, "sending") /\ d1 /\ TransportDurable /\ Fault
    /\ LET k == owner[o].incident[1]
       IN IF taken THEN Accept(copy[k].mail, copy[k].token, owner[o].incident) ELSE UNCHANGED copy
    /\ Release(o)
    /\ UNCHANGED <<receipt, ingested, object, d1, outages>>

\* completeIngestDeadLetterRetryClaim: the body is cleared under the lease.
Complete(o) ==
    /\ At(o, "completing") /\ d1
    /\ LET i == owner[o].incident
       IN IF incident[i].status = "unresolved" /\ incident[i].claim = o
          THEN Disposed(i, "resolved") /\ AfterDisposition(o)
          ELSE UNCHANGED incident /\ Leave(o)
    /\ UNCHANGED <<receipt, copy, ingested, object, world>>

DeleteObject(o) ==
    /\ At(o, "deleting")
    /\ object' = object \ {owner[o].incident[1]}
    /\ Leave(o)
    /\ UNCHANGED <<receipt, copy, ingested, incident, world>>

\* The request dies, or the database fails it; a lease it holds is not released.
OwnerDies(o) ==
    /\ ~At(o, "idle")
    /\ Costs(d1)
    /\ incident' = [i \in Incidents |-> IF incident[i].claim = o
                                        THEN [incident[i] EXCEPT !.claim = Dead] ELSE incident[i]]
    /\ Leave(o)
    /\ UNCHANGED <<receipt, copy, ingested, object, d1, outages>>

-----------------------------------------------------------------------------
Outage ==
    /\ d1 /\ outages < MaxOutages
    /\ d1' = FALSE /\ outages' = outages + 1
    /\ UNCHANGED <<recovery, faults>>

OutageEnds == ~d1 /\ d1' = TRUE /\ UNCHANGED <<recovery, outages, faults>>

Consume(k) ==
    \/ Ingest(k) \/ ReconcileFails(k)
    \/ \E lost \in BOOLEAN : Reconcile(k, lost) \/ Persist(k, lost) \/ Emergency(k, lost)

Answer(o) ==
    \/ Look(o) \/ Materialize(o) \/ Reload(o) \/ Dismiss(o) \/ Lease(o) \/ LeaseRefused(o)
    \/ Resend(o) \/ ResendRefused(o) \/ Complete(o) \/ DeleteObject(o)

Request(o) == \E i \in Incidents, action \in {"retry", "dismiss"} : Start(o, i, action)

NextRecovery ==
    \/ \E k \in Copies : Consume(k) \/ AttemptFails(k) \/ Exhaust(k) \/ EmergencyToo(k)
    \/ \E o \in Owners : \/ Request(o) \/ Answer(o) \/ OwnerDies(o)
                         \/ \E taken \in BOOLEAN : ResendThrows(o, taken)
    \/ Outage \/ OutageEnds
=============================================================================
