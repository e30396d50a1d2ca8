----------------------------- MODULE EmailIntake -----------------------------
(* E-mail from its delivery to the item: handleEmail (src/email.ts) claims   *)
(* the mail's receipt by Message-ID, sends one message and completes or      *)
(* fails the claim; DeadLetterRecovery is what happens to the message.  The  *)
(* mail server delivers a mail until a delivery returns without an error,    *)
(* and may deliver it again after that, or twice at the same time.  A claim  *)
(* token is the smallest number that no copy and no delivery carries: a      *)
(* token nobody else knows is as good as a new one.                          *)
EXTENDS DeadLetterRecovery

CONSTANT Deliveries    \* invocations of handleEmail that may run at the same time

ASSUME IntakeAssumption == IsFiniteSet(Deliveries) /\ Deliveries \cap Owners = {}

VARIABLES delivery,    \* where each delivery is
          returned     \* ghost: mails of which a delivery has returned without an error

vars == <<recovery, world, delivery, returned>>

Tokens == 1..(MaxCopies + Cardinality(Deliveries) + 1)

Init ==
    /\ InitRecovery
    /\ delivery = [h \in Deliveries |-> Idle]
    /\ returned = {}

\* Where a copy comes from that no owner request has sent.
Direct == <<0, "mail">>

\* crypto.randomUUID().
NewToken == Min({t \in Tokens : /\ \A k \in Sent : copy[k].token # t
                                /\ \A h \in Deliveries : delivery[h] # Idle => delivery[h].token # t})

Step(h, from, to) ==
    /\ delivery[h].at = from
    /\ delivery' = [delivery EXCEPT ![h].at = to]

\* The delivery ends in an error: the mail server will try again.
Throw(h) == delivery' = [delivery EXCEPT ![h] = Idle] /\ UNCHANGED returned

Return(h) ==
    /\ delivery' = [delivery EXCEPT ![h] = Idle]
    /\ returned' = returned \cup {delivery[h].mail}

\* claimInboxReceiptDelivery, the upsert: a new row or a failed one is claimed.
Deliver(h, m) ==
    /\ delivery[h] = Idle /\ d1
    /\ LET wins == receipt[m].state \in {"none", "failed"}
       IN /\ receipt' = IF wins THEN [receipt EXCEPT ![m] = [state |-> "pending", token |-> NewToken]]
                                ELSE receipt
          /\ delivery' = [delivery EXCEPT ![h] =
                             [at |-> "reading", mail |-> m, token |-> IF wins THEN NewToken ELSE 0]]
    /\ UNCHANGED <<copy, ingested, incident, object, owner, world, returned>>

\* Mutant of ReadClaim: any pending claim is taken for the delivery's own.
ReadAnyClaim(h) ==
    /\ delivery[h].at = "reading" /\ d1
    /\ LET row == receipt[delivery[h].mail]
       IN IF row.state = "pending"
          THEN /\ delivery' = [delivery EXCEPT ![h].at = "checking", ![h].token = row.token]
               /\ UNCHANGED returned
          ELSE Return(h)
    /\ UNCHANGED <<recovery, world>>

\* ... and its second statement, which reads the row again.
ReadClaim(h) ==
    /\ delivery[h].at = "reading" /\ d1
    /\ LET row == receipt[delivery[h].mail]
       IN IF row.state = "pending"
          THEN IF row.token = delivery[h].token THEN Step(h, "reading", "checking") /\ UNCHANGED returned
                                                ELSE Throw(h)
          ELSE Return(h)
    /\ UNCHANGED <<recovery, world>>

\* requireIngestQueueDurability: nothing is staged or sent while it fails.
CheckQueue(h) ==
    /\ Step(h, "checking", IF QueueDurable THEN "sending" ELSE "failing")
    /\ UNCHANGED <<recovery, world, returned>>

SendMail(h) ==
    /\ Step(h, "sending", "completing")
    /\ Accept(delivery[h].mail, delivery[h].token, Direct)
    /\ UNCHANGED <<receipt, ingested, incident, object, owner, world, returned>>

\* sendBatch throws, before or after the queue has taken the message.
SendThrows(h, taken) ==
    /\ Step(h, "sending", "failing") /\ Fault
    /\ IF taken THEN Accept(delivery[h].mail, delivery[h].token, Direct) ELSE UNCHANGED copy
    /\ UNCHANGED <<receipt, ingested, incident, object, owner, d1, outages, returned>>

Mine(h) == receipt[delivery[h].mail].token = delivery[h].token

\* failInboxReceiptQueueClaim; the delivery ends with the error of the send.
FailClaim(h) ==
    /\ delivery[h].at = "failing" /\ d1
    /\ receipt' = IF Mine(h) /\ receipt[delivery[h].mail].state = "pending"
                  THEN [receipt EXCEPT ![delivery[h].mail].state = "failed"] ELSE receipt
    /\ Throw(h)
    /\ UNCHANGED <<copy, ingested, incident, object, owner, world>>

\* completeInboxReceiptQueueClaim: it must then be queued under its own token,
\* by this statement or by the consumer that was faster.
CompleteClaim(h) ==
    /\ delivery[h].at = "completing" /\ d1
    /\ LET row == receipt[delivery[h].mail]
       IN /\ receipt' = IF Mine(h) /\ row.state = "pending"
                        THEN [receipt EXCEPT ![delivery[h].mail].state = "queued"] ELSE receipt
          /\ IF Mine(h) /\ row.state \in {"pending", "queued"} THEN Return(h) ELSE Throw(h)
    /\ UNCHANGED <<copy, ingested, incident, object, owner, world>>

\* The invocation dies, or the database fails it three times.
DeliveryDies(h) ==
    /\ delivery[h] # Idle
    /\ Costs(d1)
    /\ Throw(h)
    /\ UNCHANGED <<recovery, d1, outages>>

Handle(h) ==
    \/ ReadClaim(h) \/ CheckQueue(h) \/ SendMail(h) \/ FailClaim(h) \/ CompleteClaim(h)

Next ==
    \/ NextRecovery /\ UNCHANGED <<delivery, returned>>
    \/ \E h \in Deliveries : \/ \E m \in Mails : Deliver(h, m)
                             \/ Handle(h) \/ DeliveryDies(h)
                             \/ \E taken \in BOOLEAN : SendThrows(h, taken)

Spec == Init /\ [][Next]_vars

\* Invocations run to their end, the queue delivers, an outage ends and a dead
\* request's lease runs out; the mail server repeats a mail until a delivery has
\* returned, and the owner retries incidents while there are any.
Fairness ==
    /\ WF_vars(OutageEnds /\ UNCHANGED <<delivery, returned>>)
    /\ \A k \in Copies : WF_vars(/\ Consume(k) \/ AttemptFails(k) \/ Exhaust(k)
                                 /\ UNCHANGED <<delivery, returned>>)
    /\ SF_vars(/\ \E o \in Owners, i \in Incidents : Start(o, i, "retry")
               /\ UNCHANGED <<delivery, returned>>)
    /\ \A o \in Owners : /\ WF_vars(Answer(o) /\ UNCHANGED <<delivery, returned>>)
                         /\ SF_vars(Lease(o) /\ UNCHANGED <<delivery, returned>>)
    /\ \A h \in Deliveries : WF_vars(Handle(h))
    /\ \A m \in Mails : SF_vars(m \notin returned /\ \E h \in Deliveries : Deliver(h, m))

FairSpec == Spec /\ Fairness

-----------------------------------------------------------------------------
Steps == [delivery |-> {"reading", "checking", "sending", "completing", "failing"},
          owner |-> {"looking", "materializing", "reloading", "dismissing", "claiming",
                     "sending", "completing", "deleting"}]

CopiesOf(m)  == {k \in Sent : copy[k].mail = m}
Dismissed(m) == \E i \in Incidents : i[1] \in CopiesOf(m) /\ incident[i].status = "ignored"

\* Somebody still holds the body: a lane, an incident or the emergency store.
Held(m) ==
    \E k \in CopiesOf(m) : \/ copy[k].lane # "done" \/ k \in object
                           \/ \E i \in Incidents : i[1] = k /\ incident[i].body

\* A mail the queue has accepted is never lost: until it is an item, or the owner
\* has dismissed it, its body is in a lane, an incident or the emergency store.
NothingLost ==
    \A m \in Mails : CopiesOf(m) # {} => m \in ingested \/ Dismissed(m) \/ Held(m)

\* One claim, one copy; one incident, one request that sends it: deliveries never
\* enqueue a mail twice under one claim, however they overlap, and owner requests
\* do not send one incident's body side by side, unless a lease has run out under
\* a request that still lives.
OneSender ==
    /\ \A k, l \in Sent : copy[k].from = Direct /\ copy[l].from = Direct /\ k # l
                           => copy[k].mail # copy[l].mail \/ copy[k].token # copy[l].token
    /\ \A i \in Incidents :
           Cardinality({o \in Owners : /\ owner[o].at \in {"sending", "completing"}
                                       /\ owner[o].incident = i}) <= 1 + faults

\* Exactly one retry reclaims a failed claim: a delivery that has returned
\* without an error leaves a copy of the mail with the queue.
ReturnedIsSent == \A m \in returned : CopiesOf(m) # {}

\* A claim whose delivery died before it sent: nothing will ever end it.
Stranded(m) ==
    /\ receipt[m].state = "pending"
    /\ \A k \in CopiesOf(m) : copy[k].token # receipt[m].token
    /\ \A h \in Deliveries : delivery[h] = Idle \/ delivery[h].token # receipt[m].token

\* Taken from the mail server and sent by nobody.
Dropped(m) == m \in returned /\ CopiesOf(m) = {}

\* Every mail becomes an item or is dismissed by the owner, unless its claim is
\* stranded or the mail server has been told by mistake that it is taken.
EventuallyIngested ==
    \A m \in Mails : <>(m \in ingested \/ Dismissed(m) \/ Stranded(m) \/ Dropped(m))
=============================================================================
