-------------------------- MODULE EmailIntakeProofs --------------------------
(* Proofs about EmailIntake, for any number of mails, deliveries and owner   *)
(* requests, and any number of copies, faults and outages.                   *)
EXTENDS EmailIntake, FiniteSetTheorems, WellFoundedInduction, TLAPS

-----------------------------------------------------------------------------
(* The inductive invariant. *)

Receipt  == [state : {"none", "pending", "queued", "failed"}, token : Nat]
Copy     == [lane : {"primary", "dlq", "quarantine", "done"}, at : {"ready", "failed", "ingested"},
             mail : Mails, token : Nat, from : Incidents \cup {Direct}]
Incident == [status : {"none", "unresolved", "ignored", "resolved"}, body : BOOLEAN,
             claim : Owners \cup {None, Dead}]
Request_ == [at : {"looking", "materializing", "reloading", "dismissing", "claiming", "sending",
                   "completing", "deleting"},
             incident : Incidents, action : {"retry", "dismiss"}]
Delivery == [at : {"reading", "checking", "sending", "completing", "failing"},
             mail : Mails, token : Nat]

TypeOK ==
    /\ receipt \in [Mails -> Receipt]
    /\ copy \in [Copies -> Copy \cup {NoCopy}]
    /\ ingested \in SUBSET Mails /\ object \in SUBSET Copies
    /\ incident \in [Incidents -> Incident]
    /\ owner \in [Owners -> Request_ \cup {Idle}]
    /\ d1 \in BOOLEAN /\ outages \in Nat /\ faults \in Nat
    /\ delivery \in [Deliveries -> Delivery \cup {Idle}]
    /\ returned \in SUBSET Mails

\* The queue numbers its copies in the order in which it takes them.
Numbered == \A k \in Sent, j \in Copies : j < k => j \in Sent

\* The mail of a copy has been sent again since.
SentAgain(k) == \E l \in Sent : l > k /\ copy[l].mail = copy[k].mail

\* Somebody answers for a copy: it is an item, the owner has dismissed it, its
\* body is still there, or a later copy answers for it.
Answered(k) ==
    \/ copy[k].mail \in ingested
    \/ Dismissed(copy[k].mail)
    \/ copy[k].lane # "done"
    \/ k \in object
    \/ \E i \in Incidents : i[1] = k /\ incident[i].body
    \/ SentAgain(k)

Bodies ==
    /\ Numbered
    /\ \A k \in Sent : Answered(k)
    /\ \A k \in Sent : copy[k].at = "ingested" => copy[k].mail \in ingested
    /\ object \subseteq Sent
    /\ \A i \in Incidents :
           /\ incident[i].status # "none" => i[1] \in Sent
           /\ incident[i].status = "unresolved" => incident[i].body
           /\ incident[i].status = "resolved" => SentAgain(i[1])
    /\ \A o \in Owners : owner[o] # Idle =>
           /\ owner[o].incident[1] \in Sent
           /\ owner[o].at = "reloading" => incident[owner[o].incident].status # "none"
           /\ owner[o].at = "completing" => SentAgain(owner[o].incident[1])
           /\ owner[o].at = "deleting" => incident[owner[o].incident].status \in {"ignored", "resolved"}

\* A claim token is one delivery's, and no copy carries it before it sends.
Claims ==
    /\ \A m \in Mails : receipt[m].state = "pending" => receipt[m].token # 0
    /\ \A h \in Deliveries : delivery[h] # Idle =>
           /\ delivery[h].at # "reading" => delivery[h].token # 0
           /\ delivery[h].at \in {"reading", "checking", "sending"} /\ delivery[h].token # 0 =>
                  \A k \in Sent : copy[k].token # delivery[h].token
           /\ \A g \in Deliveries : g # h /\ delivery[g] # Idle /\ delivery[h].token # 0 =>
                  delivery[g].token # delivery[h].token
    /\ \A k, l \in Sent : copy[k].from = Direct /\ copy[l].from = Direct /\ k # l =>
                              copy[k].token # copy[l].token

\* The requests that send an incident's body or have sent it.
Senders(i) == {o \in Owners : owner[o].at \in {"sending", "completing"} /\ owner[o].incident = i}

\* A lease has one holder, who sends; each other sender has cost a fault.
Leases ==
    \A i \in Incidents :
        /\ incident[i].claim # None => incident[i].status = "unresolved"
        /\ \A o \in Owners : incident[i].claim = o => o \in Senders(i)
        /\ Cardinality(Senders(i)) <= (IF incident[i].claim \in Owners THEN 1 ELSE 0) + faults

IInv == TypeOK /\ Bodies /\ Claims /\ Leases

-----------------------------------------------------------------------------
(* Numbers and copies. *)

\* A set of natural numbers has a least element, and Min picks it.
LEMMA LeastElement ==
    ASSUME NEW S \in SUBSET Nat, S # {}
    PROVE  \E x \in S : \A y \in S : x <= y
<1> DEFINE R == OpToRel(<, Nat)
<1>1. IsWellFoundedOn(R, Nat)
    BY NatLessThanWellFounded
<1>2. \A x, y \in Nat : x < y => <<x, y>> \in R
    BY DEF OpToRel
<1> HIDE DEF R
<1>3. PICK x \in S : \A y \in S : <<y, x>> \notin R
    BY <1>1, WFMin
<1>4. ASSUME NEW y \in S PROVE x <= y
    <2>1. x \in Nat /\ y \in Nat /\ ~(y < x)
        BY <1>2, <1>3
    <2>2. QED
        BY <2>1
<1>5. QED
    BY <1>4

LEMMA MinIs ==
    ASSUME NEW S \in SUBSET Nat, S # {}
    PROVE  Min(S) \in S /\ \A y \in S : Min(S) <= y
<1>1. \E x \in S : \A y \in S : x <= y
    BY LeastElement
<1>2. \E x \in S : \A y \in S : x =< y
    BY <1>1
<1>3. QED
    BY <1>2 DEF Min

\* A copy that has been sent is one.
LEMMA SentIs ==
    ASSUME TypeOK, NEW k \in Sent
    PROVE  /\ k \in Copies /\ copy[k] \in Copy /\ copy[k].mail \in Mails
           /\ copy[k].token \in Nat /\ copy[k].from \in Incidents \cup {Direct}
           /\ copy[k].lane \in {"primary", "dlq", "quarantine", "done"}
<1>1. k \in Copies /\ copy[k].lane # "none" /\ copy[k] \in Copy \cup {NoCopy}
    BY DEF Sent, TypeOK
<1>2. copy[k] \in Copy
    BY <1>1 DEF NoCopy
<1>3. QED
    BY <1>1, <1>2 DEF Copy

\* A copy moves to another lane or step, and keeps what it carries.
Moves(k, c) ==
    /\ k \in Sent /\ c \in Copy
    /\ copy' = [copy EXCEPT ![k] = c]
    /\ c.mail = copy[k].mail /\ c.token = copy[k].token /\ c.from = copy[k].from

LEMMA MovesIs ==
    ASSUME TypeOK, NEW k, NEW c, Moves(k, c)
    PROVE  /\ copy' \in [Copies -> Copy \cup {NoCopy}]
           /\ Sent' = Sent
           /\ copy'[k] = c
           /\ \A l \in Copies : l # k => copy'[l] = copy[l]
           /\ \A l \in Sent : /\ copy'[l].mail = copy[l].mail /\ copy'[l].token = copy[l].token
                              /\ copy'[l].from = copy[l].from
<1>1. k \in Copies /\ k \in Sent /\ c \in Copy /\ copy \in [Copies -> Copy \cup {NoCopy}]
    BY DEF Moves, Sent, TypeOK
<1>2. copy' = [copy EXCEPT ![k] = c]
    BY DEF Moves
<1>3. c.lane # "none"
    BY <1>1 DEF Copy
<1>4. copy' \in [Copies -> Copy \cup {NoCopy}] /\ copy'[k] = c
    BY <1>1, <1>2
<1>5. \A l \in Copies : l # k => copy'[l] = copy[l]
    BY <1>1, <1>2
<1>6. Sent' = Sent
    BY <1>1, <1>3, <1>4, <1>5 DEF Sent
<1>7. ASSUME NEW l \in Sent
      PROVE  /\ copy'[l].mail = copy[l].mail /\ copy'[l].token = copy[l].token
             /\ copy'[l].from = copy[l].from
    <2>1. l \in Copies
        BY DEF Sent
    <2>2. CASE l = k
        BY <2>2, <1>4 DEF Moves
    <2>3. CASE l # k
        BY <2>1, <2>3, <1>5
    <2>4. QED
        BY <2>2, <2>3
<1>8. QED
    BY <1>4, <1>5, <1>6, <1>7

\* The queue accepts a message as copy l, the last so far.
Accepts(l, m, t, from) ==
    /\ l \in Copies \ Sent /\ \A k \in Sent : k < l
    /\ Sent' = Sent \cup {l} /\ Numbered'
    /\ copy' \in [Copies -> Copy \cup {NoCopy}]
    /\ \A k \in Sent : copy'[k] = copy[k]
    /\ copy'[l].lane = "primary" /\ copy'[l].at = "ready"
    /\ copy'[l].mail = m /\ copy'[l].token = t /\ copy'[l].from = from

LEMMA AcceptIs ==
    ASSUME TypeOK, Numbered, NEW m \in Mails, NEW t \in Nat, NEW from \in Incidents \cup {Direct},
           Accept(m, t, from)
    PROVE  \E l \in Copies : Accepts(l, m, t, from)
<1> DEFINE Free == Copies \ Sent
           l == Min(Free)
           c == [lane |-> "primary", at |-> "ready", mail |-> m, token |-> t, from |-> from]
<1>1. Free \in SUBSET Nat /\ Free # {} /\ Sent \in SUBSET Copies
    BY RecoveryAssumption DEF Accept, Copies, Sent
<1>2. l \in Free /\ \A y \in Free : l <= y
    BY <1>1, MinIs
<1>3. copy' = [copy EXCEPT ![l] = c] /\ copy \in [Copies -> Copy \cup {NoCopy}]
    BY DEF Accept, TypeOK
<1> HIDE DEF l
<1>4. c \in Copy /\ c.lane = "primary" /\ c.at = "ready" /\ c.mail = m /\ c.token = t /\ c.from = from
    BY DEF Copy
<1> HIDE DEF c
<1>5. l \in Copies /\ l \notin Sent /\ copy'[l] = c
    BY <1>2, <1>3
<1>6. \A k \in Copies : k # l => copy'[k] = copy[k]
    BY <1>3
<1>7. \A k \in Sent : copy'[k] = copy[k]
    BY <1>1, <1>5, <1>6
<1>8. copy' \in [Copies -> Copy \cup {NoCopy}]
    BY <1>3, <1>4, <1>5
<1>9. Sent' = Sent \cup {l}
    <2>1. \A k \in Copies : copy'[k].lane # "none" <=> copy[k].lane # "none" \/ k = l
        BY <1>4, <1>5, <1>6
    <2>2. QED
        BY <2>1, <1>5 DEF Sent
<1>10. \A k \in Sent : k < l
    <2>1. ASSUME NEW k \in Sent, ~(k < l) PROVE FALSE
        <3>1. k \in Copies /\ k \in Nat /\ l \in Nat /\ k # l
            BY <1>1, <1>5 DEF Copies
        <3>2. l < k
            BY <2>1, <3>1
        <3>3. QED
            BY <3>2, <1>5 DEF Numbered
    <2>2. QED
        BY <2>1
<1>11. \A k \in Sent', j \in Copies : j < k => j \in Sent'
    <2>1. SUFFICES ASSUME NEW k \in Sent', NEW j \in Copies, j < k PROVE j \in Sent'
        OBVIOUS
    <2>2. CASE k \in Sent
        BY <2>1, <2>2, <1>9 DEF Numbered
    <2>3. CASE k = l
        <3>1. j \in Nat /\ l \in Nat /\ ~(l <= j)
            BY <2>1, <2>3, <1>5 DEF Copies
        <3>2. j \notin Free
            BY <3>1, <1>2
        <3>3. QED
            BY <3>2, <1>9
    <2>4. QED
        BY <2>2, <2>3, <1>9
<1>12. Numbered'
    BY <1>11 DEF Numbered
<1>13. QED
    BY <1>4, <1>5, <1>7, <1>8, <1>9, <1>10, <1>12 DEF Accepts

-----------------------------------------------------------------------------
(* What keeps the bodies. *)

\* What every step does to copies, items, incidents, objects and requests: only
\* an item, an incident or an object takes a copy out of its lane, a body goes
\* when the incident is disposed of, and an object goes after its incident.
BodyStep ==
    /\ Sent \subseteq Sent' /\ Numbered'
    /\ \A k \in Sent : copy'[k].mail = copy[k].mail
    /\ \A k \in Sent' \ Sent : copy'[k].lane # "done" /\ copy'[k].at # "ingested"
    /\ ingested \subseteq ingested'
    /\ \A k \in Sent : copy'[k].at = "ingested" => copy'[k].mail \in ingested'
    /\ \A k \in Sent : copy'[k].lane = "done" =>
           \/ copy[k].lane = "done" \/ copy[k].mail \in ingested' \/ k \in object'
           \/ \E i \in Incidents : i[1] = k /\ incident'[i].status # "none"
    /\ object' \subseteq Sent'
    /\ \A k \in object \ object' :
           \E i \in Incidents : i[1] = k /\ incident[i].status \in {"ignored", "resolved"}
    /\ \A i \in Incidents :
           \/ incident'[i].status = incident[i].status /\ incident'[i].body = incident[i].body
           \/ /\ incident[i].status = "none" /\ i[1] \in Sent
              /\ incident'[i].status = "unresolved" /\ incident'[i].body
           \/ incident[i].status = "unresolved" /\ incident'[i].status = "ignored"
           \/ /\ incident[i].status = "unresolved" /\ SentAgain(i[1])
              /\ incident'[i].status = "resolved"
    /\ \A o \in Owners :
           \/ owner'[o] = owner[o] \/ owner'[o] = Idle
           \/ /\ owner'[o].incident[1] \in Sent
              /\ owner'[o].at = "reloading" => incident'[owner'[o].incident].status # "none"
              /\ owner'[o].at = "completing" =>
                     \E l \in Sent' : /\ l > owner'[o].incident[1]
                                      /\ copy'[l].mail = copy'[owner'[o].incident[1]].mail
              /\ owner'[o].at = "deleting" =>
                     incident'[owner'[o].incident].status \in {"ignored", "resolved"}

LEMMA BodiesKept ==
    ASSUME IInv, BodyStep
    PROVE  Bodies'
<1>1. /\ Sent \subseteq Sent' /\ Numbered' /\ ingested \subseteq ingested' /\ object' \subseteq Sent'
      /\ \A k \in Sent : copy'[k].mail = copy[k].mail
    BY DEF BodyStep
<1>2. ASSUME NEW k \in Sent, SentAgain(k) PROVE SentAgain(k)'
    BY <1>1, <1>2 DEF SentAgain
<1>3. ASSUME NEW i \in Incidents
      PROVE  \/ incident'[i].status = incident[i].status /\ incident'[i].body = incident[i].body
             \/ /\ incident[i].status = "none" /\ i[1] \in Sent
                /\ incident'[i].status = "unresolved" /\ incident'[i].body
             \/ incident[i].status = "unresolved" /\ incident'[i].status = "ignored"
             \/ /\ incident[i].status = "unresolved" /\ SentAgain(i[1])
                /\ incident'[i].status = "resolved"
    BY DEF BodyStep
<1>4. ASSUME NEW i \in Incidents
      PROVE  /\ incident[i].status # "none" => i[1] \in Sent
             /\ incident[i].status = "unresolved" => incident[i].body
             /\ incident[i].status = "resolved" => SentAgain(i[1])
    BY DEF IInv, Bodies
<1>5. ASSUME NEW i \in Incidents
      PROVE  /\ incident'[i].status # "none" => i[1] \in Sent
             /\ incident'[i].status = "unresolved" => incident'[i].body
             /\ incident'[i].status = "resolved" => SentAgain(i[1])'
             /\ incident[i].status = "ignored" => incident'[i].status = "ignored"
             /\ incident[i].status = "resolved" => incident'[i].status = "resolved"
             /\ incident[i].status # "none" => incident'[i].status # "none"
    BY <1>2, <1>3, <1>4
<1>6. ASSUME NEW k \in Sent, Dismissed(copy[k].mail)
      PROVE  Dismissed(copy[k].mail)'
    <2>1. PICK i \in Incidents : i[1] \in CopiesOf(copy[k].mail) /\ incident[i].status = "ignored"
        BY <1>6 DEF Dismissed
    <2>2. i[1] \in Sent /\ copy[i[1]].mail = copy[k].mail
        BY <2>1 DEF CopiesOf
    <2>3. i[1] \in Sent' /\ copy'[i[1]].mail = copy'[k].mail /\ incident'[i].status = "ignored"
        BY <2>1, <2>2, <1>1, <1>5
    <2>4. QED
        BY <2>3 DEF Dismissed, CopiesOf
\* An incident answers for its copy from the first record of it on.
<1>7. ASSUME NEW k \in Sent, NEW i \in Incidents, i[1] = k, incident'[i].status # "none"
      PROVE  Answered(k)'
    <2>1. CASE incident'[i].status = "unresolved"
        BY <1>5, <1>7, <2>1 DEF Answered
    <2>2. CASE incident'[i].status = "resolved"
        BY <1>5, <1>7, <2>2 DEF Answered
    <2>3. CASE incident'[i].status = "ignored"
        <3>1. k \in Sent'
            BY <1>1
        <3>2. Dismissed(copy[k].mail)'
            BY <1>7, <2>3, <3>1 DEF Dismissed, CopiesOf
        <3>3. QED
            BY <3>2 DEF Answered
    <2>4. QED
        <3>1. incident[i].status \in {"none", "unresolved", "ignored", "resolved"}
            BY DEF IInv, TypeOK, Incident
        <3>2. incident'[i].status \in {"none", "unresolved", "ignored", "resolved"}
            BY <3>1, <1>3
        <3>3. QED
            BY <3>2, <1>7, <2>1, <2>2, <2>3
<1>8. ASSUME NEW k \in Sent' PROVE Answered(k)'
    <2>1. CASE k \notin Sent
        BY <2>1 DEF BodyStep, Answered
    <2>2. CASE k \in Sent
        <3>1. Answered(k)
            BY <2>2 DEF IInv, Bodies
        <3>2. CASE copy[k].mail \in ingested
            BY <2>2, <3>2, <1>1 DEF Answered
        <3>3. CASE Dismissed(copy[k].mail)
            BY <2>2, <3>3, <1>6 DEF Answered
        <3>4. CASE SentAgain(k)
            BY <2>2, <3>4, <1>2 DEF Answered
        <3>5. CASE \E i \in Incidents : i[1] = k /\ incident[i].body
            <4>1. PICK i \in Incidents : i[1] = k /\ incident[i].body
                BY <3>5
            <4>2. CASE incident'[i].status = "none"
                BY <4>1, <4>2, <1>3 DEF Answered
            <4>3. CASE incident'[i].status # "none"
                BY <2>2, <4>1, <4>3, <1>7
            <4>4. QED
                BY <4>2, <4>3
        <3>6. CASE k \in object
            <4>1. CASE k \in object'
                BY <4>1 DEF Answered
            <4>2. CASE k \notin object'
                <5>1. PICK i \in Incidents : i[1] = k /\ incident[i].status \in {"ignored", "resolved"}
                    BY <3>6, <4>2 DEF BodyStep
                <5>2. incident'[i].status # "none"
                    BY <5>1, <1>5
                <5>3. QED
                    BY <2>2, <5>1, <5>2, <1>7
            <4>3. QED
                BY <4>1, <4>2
        <3>7. CASE copy[k].lane # "done"
            <4>1. CASE copy'[k].lane # "done"
                BY <4>1 DEF Answered
            <4>2. CASE copy'[k].lane = "done"
                <5>1. \/ copy[k].mail \in ingested' \/ k \in object'
                      \/ \E i \in Incidents : i[1] = k /\ incident'[i].status # "none"
                    BY <2>2, <3>7, <4>2 DEF BodyStep
                <5>2. CASE copy[k].mail \in ingested' \/ k \in object'
                    BY <2>2, <5>2, <1>1 DEF Answered
                <5>3. CASE \E i \in Incidents : i[1] = k /\ incident'[i].status # "none"
                    BY <2>2, <5>3, <1>7
                <5>4. QED
                    BY <5>1, <5>2, <5>3
            <4>3. QED
                BY <4>1, <4>2
        <3>8. QED
            BY <3>1, <3>2, <3>3, <3>4, <3>5, <3>6, <3>7 DEF Answered
    <2>3. QED
        BY <2>1, <2>2
<1>9. ASSUME NEW k \in Sent', copy'[k].at = "ingested" PROVE copy'[k].mail \in ingested'
    BY <1>9 DEF BodyStep
<1>10. ASSUME NEW o \in Owners, NEW p, p = owner'[o], p # Idle
       PROVE  /\ p.incident[1] \in Sent'
              /\ p.at = "reloading" => incident'[p.incident].status # "none"
              /\ p.at = "completing" => SentAgain(p.incident[1])'
              /\ p.at = "deleting" => incident'[p.incident].status \in {"ignored", "resolved"}
    <2>1. CASE p = owner[o]
        <3>1. p \in Request_
            BY <1>10, <2>1 DEF IInv, TypeOK
        <3>2. /\ p.incident[1] \in Sent
              /\ p.at = "reloading" => incident[p.incident].status # "none"
              /\ p.at = "completing" => SentAgain(p.incident[1])
              /\ p.at = "deleting" => incident[p.incident].status \in {"ignored", "resolved"}
            BY <1>10, <2>1 DEF IInv, Bodies
        <3>3. p.incident \in Incidents
            BY <3>1 DEF Request_
        <3>4. QED
            BY <3>2, <3>3, <1>1, <1>2, <1>5
    <2>2. CASE p # owner[o]
        <3>1. /\ p.incident[1] \in Sent
              /\ p.at = "reloading" => incident'[p.incident].status # "none"
              /\ p.at = "completing" => \E l \in Sent' : /\ l > p.incident[1]
                                                         /\ copy'[l].mail = copy'[p.incident[1]].mail
              /\ p.at = "deleting" => incident'[p.incident].status \in {"ignored", "resolved"}
            BY <1>10, <2>2 DEF BodyStep
        <3>2. QED
            BY <3>1, <1>1 DEF SentAgain
    <2>3. QED
        BY <2>1, <2>2
<1>11. \A o \in Owners : owner'[o] # Idle =>
           /\ owner'[o].incident[1] \in Sent'
           /\ owner'[o].at = "reloading" => incident'[owner'[o].incident].status # "none"
           /\ owner'[o].at = "completing" =>
                  \E l \in Sent' : /\ l > owner'[o].incident[1]
                                   /\ copy'[l].mail = copy'[owner'[o].incident[1]].mail
           /\ owner'[o].at = "deleting" =>
                  incident'[owner'[o].incident].status \in {"ignored", "resolved"}
    BY <1>10 DEF SentAgain
<1>12. \A k \in Sent' : Answered(k)'
    BY <1>8
<1>13. \A i \in Incidents :
           /\ incident'[i].status # "none" => i[1] \in Sent'
           /\ incident'[i].status = "unresolved" => incident'[i].body
           /\ incident'[i].status = "resolved" => SentAgain(i[1])'
    BY <1>1, <1>5
<1>14. QED
    BY <1>1, <1>9, <1>11, <1>12, <1>13 DEF Bodies, SentAgain

-----------------------------------------------------------------------------
(* What keeps the claims and the leases. *)

\* Only a delivery makes a claim; another step that sends a copy takes the token
\* of an earlier one.
LEMMA ClaimsKept ==
    ASSUME IInv, delivery' = delivery,
           \A m \in Mails : receipt'[m].state = "pending" => receipt'[m] = receipt[m],
           Sent \subseteq Sent',
           \A k \in Sent : copy'[k].token = copy[k].token /\ copy'[k].from = copy[k].from,
           \A k \in Sent' \ Sent : /\ copy'[k].from # Direct
                                   /\ \E j \in Sent : copy'[k].token = copy[j].token
    PROVE  Claims'
<1>1. \A m \in Mails : receipt'[m].state = "pending" => receipt'[m].token # 0
    BY DEF IInv, Claims
<1>2. ASSUME NEW k \in Sent' PROVE \E j \in Sent : copy'[k].token = copy[j].token
    OBVIOUS
<1>3. ASSUME NEW h \in Deliveries, delivery[h] # Idle
      PROVE  /\ delivery[h].at # "reading" => delivery[h].token # 0
             /\ delivery[h].at \in {"reading", "checking", "sending"} /\ delivery[h].token # 0 =>
                    \A k \in Sent' : copy'[k].token # delivery[h].token
             /\ \A g \in Deliveries : g # h /\ delivery[g] # Idle /\ delivery[h].token # 0 =>
                    delivery[g].token # delivery[h].token
    <2>1. /\ delivery[h].at # "reading" => delivery[h].token # 0
          /\ delivery[h].at \in {"reading", "checking", "sending"} /\ delivery[h].token # 0 =>
                 \A k \in Sent : copy[k].token # delivery[h].token
          /\ \A g \in Deliveries : g # h /\ delivery[g] # Idle /\ delivery[h].token # 0 =>
                 delivery[g].token # delivery[h].token
        BY <1>3 DEF IInv, Claims
    <2>2. QED
        BY <2>1, <1>2
<1>4. \A k, l \in Sent' : copy'[k].from = Direct /\ copy'[l].from = Direct /\ k # l =>
                              copy'[k].token # copy'[l].token
    BY DEF IInv, Claims
<1>5. QED
    BY <1>1, <1>3, <1>4 DEF Claims

\* A step that no owner request takes changes no lease.
LEMMA LeasesKept ==
    ASSUME IInv, owner' = owner, faults' \in Nat, faults <= faults',
           \A i \in Incidents : /\ incident'[i].claim = incident[i].claim
                                /\ \/ incident'[i].status = incident[i].status
                                   \/ incident[i].status = "none"
    PROVE  Leases'
<1>1. SUFFICES ASSUME NEW i \in Incidents
               PROVE  /\ incident'[i].claim # None => incident'[i].status = "unresolved"
                      /\ \A o \in Owners : incident'[i].claim = o => o \in Senders(i)'
                      /\ Cardinality(Senders(i)') <=
                             (IF incident'[i].claim \in Owners THEN 1 ELSE 0) + faults'
    BY DEF Leases, Senders
<1>2. Senders(i)' = Senders(i)
    BY DEF Senders
<1>3. /\ incident[i].claim # None => incident[i].status = "unresolved"
      /\ \A o \in Owners : incident[i].claim = o => o \in Senders(i)
      /\ Cardinality(Senders(i)) <= (IF incident[i].claim \in Owners THEN 1 ELSE 0) + faults
    BY DEF IInv, Leases
<1>4. Cardinality(Senders(i)) \in Nat /\ faults \in Nat
    BY RecoveryAssumption, FS_Subset, FS_CardinalityType DEF Senders, IInv, TypeOK
<1>5. QED
    BY <1>2, <1>3, <1>4

\* A step that changes nothing that the bodies and the leases rest on.
LEMMA BodiesRest ==
    ASSUME IInv, UNCHANGED <<copy, ingested, incident, object, owner>>
    PROVE  Bodies'
BY DEF IInv, Bodies, Numbered, Answered, SentAgain, Dismissed, CopiesOf, Sent

-----------------------------------------------------------------------------
(* The consumers. *)

\* What a consumer's step on copy k leaves.
Consumed(k) ==
    \E c \in Copy :
        /\ Moves(k, c)
        /\ c.at = "ingested" => c.mail \in ingested'
        /\ c.lane = "done" => \/ c.mail \in ingested' \/ k \in object'
                              \/ \E i \in Incidents : i[1] = k /\ incident'[i].status # "none"
        /\ ingested \subseteq ingested' /\ ingested' \in SUBSET Mails
        /\ object \subseteq object' /\ object' \subseteq object \cup {k}
        /\ receipt' \in [Mails -> Receipt]
        /\ \A m \in Mails : receipt'[m].state = "pending" => receipt'[m] = receipt[m]
        /\ incident' \in [Incidents -> Incident]
        /\ \A i \in Incidents :
               \/ incident'[i] = incident[i]
               \/ /\ i[1] = k /\ incident[i].status = "none" /\ incident'[i].status = "unresolved"
                  /\ incident'[i].body /\ incident'[i].claim = incident[i].claim
        /\ faults' \in Nat /\ faults <= faults'
        /\ UNCHANGED <<owner, d1, outages, delivery, returned>>

LEMMA ConsumedKeeps ==
    ASSUME IInv, NEW k \in Copies, Consumed(k)
    PROVE  IInv'
<1>1. PICK c \in Copy :
          /\ Moves(k, c)
          /\ c.at = "ingested" => c.mail \in ingested'
          /\ c.lane = "done" => \/ c.mail \in ingested' \/ k \in object'
                                \/ \E i \in Incidents : i[1] = k /\ incident'[i].status # "none"
          /\ ingested \subseteq ingested' /\ ingested' \in SUBSET Mails
          /\ object \subseteq object' /\ object' \subseteq object \cup {k}
          /\ receipt' \in [Mails -> Receipt]
          /\ \A m \in Mails : receipt'[m].state = "pending" => receipt'[m] = receipt[m]
          /\ incident' \in [Incidents -> Incident]
          /\ \A i \in Incidents :
                 \/ incident'[i] = incident[i]
                 \/ /\ i[1] = k /\ incident[i].status = "none" /\ incident'[i].status = "unresolved"
                    /\ incident'[i].body /\ incident'[i].claim = incident[i].claim
          /\ faults' \in Nat /\ faults <= faults'
          /\ UNCHANGED <<owner, d1, outages, delivery, returned>>
    BY DEF Consumed
<1>2. TypeOK /\ Bodies
    BY DEF IInv
<1>3. /\ copy' \in [Copies -> Copy \cup {NoCopy}] /\ Sent' = Sent /\ copy'[k] = c /\ k \in Sent
      /\ \A l \in Copies : l # k => copy'[l] = copy[l]
      /\ \A l \in Sent : /\ copy'[l].mail = copy[l].mail /\ copy'[l].token = copy[l].token
                         /\ copy'[l].from = copy[l].from
    BY <1>1, <1>2, MovesIs DEF Moves
<1>4. TypeOK'
    BY <1>1, <1>2, <1>3 DEF TypeOK
<1>5. BodyStep
    <2>1. Numbered'
        BY <1>2, <1>3 DEF Bodies, Numbered
    <2>2. ASSUME NEW l \in Sent
          PROVE  /\ copy'[l].at = "ingested" => copy'[l].mail \in ingested'
                 /\ copy'[l].lane = "done" =>
                        \/ copy[l].lane = "done" \/ copy[l].mail \in ingested' \/ l \in object'
                        \/ \E i \in Incidents : i[1] = l /\ incident'[i].status # "none"
        <3>1. CASE l = k
            BY <3>1, <1>1, <1>3 DEF Moves
        <3>2. CASE l # k
            <4>1. l \in Copies /\ copy'[l] = copy[l]
                BY <3>2, <1>3 DEF Sent
            <4>2. copy[l].at = "ingested" => copy[l].mail \in ingested
                BY <1>2 DEF Bodies
            <4>3. QED
                BY <4>1, <4>2, <1>1
        <3>3. QED
            BY <3>1, <3>2
    <2>3. object' \subseteq Sent' /\ object \ object' = {}
        BY <1>1, <1>2, <1>3 DEF Bodies
    <2>4. \A i \in Incidents :
              \/ incident'[i].status = incident[i].status /\ incident'[i].body = incident[i].body
              \/ /\ incident[i].status = "none" /\ i[1] \in Sent
                 /\ incident'[i].status = "unresolved" /\ incident'[i].body
        BY <1>1, <1>3
    <2>5. QED
        BY <1>1, <1>3, <2>1, <2>2, <2>3, <2>4 DEF BodyStep
<1>6. Claims'
    BY <1>1, <1>3, ClaimsKept
<1>7. Leases'
    BY <1>1, LeasesKept
<1>8. QED
    BY <1>4, <1>5, <1>6, <1>7, BodiesKept DEF IInv

\* The attempt of a copy ends with its acknowledgement, or fails.
LEMMA AckIs ==
    ASSUME IInv, NEW k \in Sent, NEW lost \in BOOLEAN, Ack(k, lost)
    PROVE  /\ \E c \in Copy : /\ Moves(k, c) /\ c.at # "ingested"
                              /\ c.lane = "done" => copy[k].lane = "done" \/ ~lost
           /\ faults' \in Nat /\ faults <= faults'
<1>1. copy[k] \in Copy /\ faults \in Nat
    BY SentIs DEF IInv, TypeOK
<1>2. faults' \in Nat /\ faults <= faults'
    BY <1>1 DEF Ack, Costs, Fault
<1>3. CASE lost
    <2> DEFINE c == [copy[k] EXCEPT !.at = "failed"]
    <2>1. copy' = [copy EXCEPT ![k] = c]
        BY <1>3 DEF Ack
    <2>2. /\ c \in Copy /\ c.at = "failed" /\ c.lane = copy[k].lane /\ c.mail = copy[k].mail
          /\ c.token = copy[k].token /\ c.from = copy[k].from
        BY <1>1 DEF Copy
    <2> HIDE DEF c
    <2>3. QED
        BY <1>2, <2>1, <2>2 DEF Moves
<1>4. CASE ~lost
    <2> DEFINE c == [copy[k] EXCEPT !.lane = "done", !.at = "ready"]
    <2>1. copy' = [copy EXCEPT ![k] = c]
        BY <1>4 DEF Ack
    <2>2. /\ c \in Copy /\ c.at = "ready" /\ c.mail = copy[k].mail
          /\ c.token = copy[k].token /\ c.from = copy[k].from
        BY <1>1 DEF Copy
    <2> HIDE DEF c
    <2>3. QED
        BY <1>2, <1>4, <2>1, <2>2 DEF Moves
<1>5. QED
    BY <1>3, <1>4

\* An incident is recorded: a new row holds the body, another row is kept.
LEMMA RecordIs ==
    ASSUME IInv, NEW k \in Sent, NEW i \in Incidents, i[1] = k, Record(k, i)
    PROVE  /\ incident' \in [Incidents -> Incident]
           /\ incident'[i].status # "none"
           /\ \A j \in Incidents :
                  \/ incident'[j] = incident[j]
                  \/ /\ j[1] = k /\ incident[j].status = "none" /\ incident'[j].status = "unresolved"
                     /\ incident'[j].body /\ incident'[j].claim = incident[j].claim
           /\ receipt' \in [Mails -> Receipt]
           /\ \A m \in Mails : receipt'[m].state = "pending" => receipt'[m] = receipt[m]
<1>1. /\ incident \in [Incidents -> Incident] /\ receipt \in [Mails -> Receipt]
      /\ incident[i] \in Incident
    BY DEF IInv, TypeOK
<1>2. copy[k].mail \in Mails
    BY SentIs DEF IInv
<1> DEFINE r == IF incident[i].status = "none"
                THEN [incident[i] EXCEPT !.status = "unresolved", !.body = TRUE] ELSE incident[i]
<1>3. incident' = [incident EXCEPT ![i] = r]
    BY DEF Record
<1>4. /\ r \in Incident /\ r.status # "none" /\ r.claim = incident[i].claim
      /\ \/ r = incident[i]
         \/ incident[i].status = "none" /\ r.status = "unresolved" /\ r.body
    BY <1>1 DEF Incident
<1> HIDE DEF r
<1>5. /\ incident' \in [Incidents -> Incident] /\ incident'[i] = r
      /\ \A j \in Incidents : j # i => incident'[j] = incident[j]
    BY <1>1, <1>3, <1>4
<1>6. /\ receipt' \in [Mails -> Receipt]
      /\ \A m \in Mails : receipt'[m].state = "pending" => receipt'[m] = receipt[m]
    <2> DEFINE m == copy[k].mail
               s == [receipt[m] EXCEPT !.state = "failed"]
    <2>1. receipt' = receipt \/ receipt' = [receipt EXCEPT ![m] = s]
        BY DEF Record
    <2>2. s \in Receipt /\ s.state = "failed"
        BY <1>1, <1>2 DEF Receipt
    <2> HIDE DEF s, m
    <2>3. QED
        BY <1>1, <2>1, <2>2
<1>7. QED
    BY <1>4, <1>5, <1>6

\* A copy in a lane has been sent.
LEMMA InLane ==
    ASSUME IInv, NEW k \in Copies, copy[k].lane \in {"primary", "dlq", "quarantine"}
    PROVE  k \in Sent /\ copy[k] \in Copy
<1>1. k \in Sent
    BY DEF Sent
<1>2. QED
    BY <1>1, SentIs DEF IInv

\* A copy goes to another lane or fails, and nothing else changes but the items.
LEMMA LaneIs ==
    ASSUME IInv, NEW k \in Sent, NEW lane \in {"primary", "dlq", "quarantine"},
           NEW at \in {"ready", "failed", "ingested"},
           copy' = [copy EXCEPT ![k] = [copy[k] EXCEPT !.lane = lane, !.at = at]],
           ingested \subseteq ingested', ingested' \in SUBSET Mails,
           at = "ingested" => copy[k].mail \in ingested',
           UNCHANGED <<receipt, incident, object, owner, world, delivery, returned>>
    PROVE  Consumed(k)
<1> DEFINE c == [copy[k] EXCEPT !.lane = lane, !.at = at]
<1>1. copy[k] \in Copy
    BY SentIs DEF IInv
<1>2. /\ c \in Copy /\ c.at = at /\ c.lane = lane /\ c.mail = copy[k].mail
      /\ c.token = copy[k].token /\ c.from = copy[k].from
    BY <1>1 DEF Copy
<1>3. copy' = [copy EXCEPT ![k] = c]
    OBVIOUS
<1> HIDE DEF c
<1>4. Moves(k, c)
    BY <1>2, <1>3 DEF Moves
<1>5. faults' = faults /\ faults \in Nat /\ d1' = d1 /\ outages' = outages
      /\ receipt \in [Mails -> Receipt] /\ incident \in [Incidents -> Incident]
    BY DEF world, IInv, TypeOK
<1>6. QED
    BY <1>2, <1>4, <1>5 DEF Consumed

LEMMA IngestIs ==
    ASSUME IInv, NEW k \in Copies, Ingest(k), UNCHANGED <<delivery, returned>>
    PROVE  Consumed(k)
<1>1. k \in Sent /\ copy[k] \in Copy /\ copy[k].lane = "primary"
    BY InLane DEF Ingest
<1>2. copy[k].mail \in Mails /\ ingested \in SUBSET Mails
    BY <1>1, SentIs DEF IInv, TypeOK
<1>3. copy' = [copy EXCEPT ![k] = [copy[k] EXCEPT !.lane = "primary", !.at = "ingested"]]
    <2>1. [copy[k] EXCEPT !.lane = "primary", !.at = "ingested"] = [copy[k] EXCEPT !.at = "ingested"]
        BY <1>1 DEF Copy
    <2>2. copy' = [copy EXCEPT ![k] = [copy[k] EXCEPT !.at = "ingested"]]
        BY DEF Ingest
    <2>3. QED
        BY <2>1, <2>2
<1>4. /\ ingested \subseteq ingested' /\ ingested' \in SUBSET Mails
      /\ copy[k].mail \in ingested'
    BY <1>2 DEF Ingest
<1>5. QED
    BY <1>1, <1>3, <1>4, LaneIs DEF Ingest

\* An attempt that fails, by an outage or because the claim is another's.
LEMMA FailedIs ==
    ASSUME IInv, NEW k \in Copies, AttemptFails(k) \/ ReconcileFails(k),
           UNCHANGED <<delivery, returned>>
    PROVE  Consumed(k)
<1>1. copy[k].lane \in {"primary", "dlq"}
    BY DEF AttemptFails, ReconcileFails
<1>2. k \in Sent /\ copy[k] \in Copy
    BY <1>1, InLane
<1>3. copy' = [copy EXCEPT ![k] = [copy[k] EXCEPT !.lane = copy[k].lane, !.at = "failed"]]
    <2>1. [copy[k] EXCEPT !.lane = copy[k].lane, !.at = "failed"] = [copy[k] EXCEPT !.at = "failed"]
        BY <1>2 DEF Copy
    <2>2. copy' = [copy EXCEPT ![k] = [copy[k] EXCEPT !.at = "failed"]]
        BY DEF AttemptFails, ReconcileFails
    <2>3. QED
        BY <2>1, <2>2
<1>4. ingested' = ingested /\ ingested \in SUBSET Mails
    BY DEF AttemptFails, ReconcileFails, IInv, TypeOK
<1>5. UNCHANGED <<receipt, incident, object, owner, world, delivery, returned>>
    BY DEF AttemptFails, ReconcileFails
<1>6. QED
    BY <1>1, <1>2, <1>3, <1>4, <1>5, LaneIs

LEMMA ExhaustIs ==
    ASSUME IInv, NEW k \in Copies, Exhaust(k), UNCHANGED <<delivery, returned>>
    PROVE  Consumed(k)
<1> DEFINE lane == IF copy[k].lane = "primary" THEN "dlq" ELSE "quarantine"
<1>1. k \in Sent /\ copy[k] \in Copy
    BY InLane DEF Exhaust
<1>2. copy' = [copy EXCEPT ![k] = [copy[k] EXCEPT !.lane = lane, !.at = "ready"]]
    <2>1. copy \in [Copies -> Copy \cup {NoCopy}]
        BY DEF IInv, TypeOK
    <2>2. copy' = [copy EXCEPT ![k].at = "ready", ![k].lane = lane]
        BY DEF Exhaust
    <2>3. copy' = [copy EXCEPT ![k] = [[copy[k] EXCEPT !.at = "ready"] EXCEPT !.lane = lane]]
        BY <2>1, <2>2
    <2>4. [[copy[k] EXCEPT !.at = "ready"] EXCEPT !.lane = lane]
              = [copy[k] EXCEPT !.lane = lane, !.at = "ready"]
        BY <1>1 DEF Copy
    <2>5. QED
        BY <2>3, <2>4
<1>3. ingested' = ingested /\ ingested \in SUBSET Mails
    BY DEF Exhaust, IInv, TypeOK
<1>4. UNCHANGED <<receipt, incident, object, owner, world, delivery, returned>>
    BY DEF Exhaust
<1>5. lane \in {"primary", "dlq", "quarantine"}
    OBVIOUS
<1> HIDE DEF lane
<1>6. QED
    BY <1>1, <1>2, <1>3, <1>4, <1>5, LaneIs

LEMMA ReconcileIs ==
    ASSUME IInv, NEW k \in Copies, NEW lost \in BOOLEAN, Reconcile(k, lost),
           UNCHANGED <<delivery, returned>>
    PROVE  Consumed(k)
<1>1. k \in Sent /\ copy[k] \in Copy /\ copy[k].lane = "primary" /\ copy[k].at = "ingested"
    BY InLane DEF Reconcile
<1>2. Ack(k, lost) /\ UNCHANGED <<ingested, incident, object, owner, d1, outages>>
    BY DEF Reconcile
<1>3. copy[k].mail \in Mails /\ copy[k].mail \in ingested
    BY <1>1, SentIs DEF IInv, Bodies
<1>4. /\ receipt' \in [Mails -> Receipt]
      /\ \A m \in Mails : receipt'[m].state = "pending" => receipt'[m] = receipt[m]
    <2> DEFINE m == copy[k].mail
               r == [receipt[m] EXCEPT !.state = "queued"]
    <2>1. receipt' = [receipt EXCEPT ![m] = r]
        BY DEF Reconcile
    <2>2. receipt \in [Mails -> Receipt]
        BY DEF IInv, TypeOK
    <2>3. r \in Receipt /\ r.state = "queued"
        BY <1>3, <2>2 DEF Receipt
    <2> HIDE DEF r, m
    <2>4. QED
        BY <2>1, <2>2, <2>3
<1>5. PICK c \in Copy : Moves(k, c) /\ c.at # "ingested"
    BY <1>1, <1>2, AckIs
<1>6. faults' \in Nat /\ faults <= faults'
    BY <1>1, <1>2, AckIs
<1>7. c.mail \in ingested' /\ ingested' = ingested /\ ingested \in SUBSET Mails
      /\ incident' = incident /\ incident \in [Incidents -> Incident] /\ object' = object
    BY <1>2, <1>3, <1>5 DEF Moves, IInv, TypeOK
<1>8. QED
    BY <1>2, <1>4, <1>5, <1>6, <1>7 DEF Consumed

LEMMA PersistIs ==
    ASSUME IInv, NEW k \in Copies, NEW lost \in BOOLEAN, Persist(k, lost),
           UNCHANGED <<delivery, returned>>
    PROVE  Consumed(k)
<1> DEFINE i == <<k, copy[k].lane>>
<1>1. k \in Sent /\ copy[k].lane \in {"dlq", "quarantine"}
    BY InLane DEF Persist
<1>2. i \in Incidents /\ i[1] = k
    BY <1>1 DEF Incidents
<1>3. Ack(k, lost) /\ Record(k, i) /\ UNCHANGED <<ingested, object, owner, d1, outages>>
    BY DEF Persist
<1> HIDE DEF i
<1>4. /\ incident' \in [Incidents -> Incident] /\ incident'[i].status # "none"
      /\ \A j \in Incidents :
             \/ incident'[j] = incident[j]
             \/ /\ j[1] = k /\ incident[j].status = "none" /\ incident'[j].status = "unresolved"
                /\ incident'[j].body /\ incident'[j].claim = incident[j].claim
      /\ receipt' \in [Mails -> Receipt]
      /\ \A m \in Mails : receipt'[m].state = "pending" => receipt'[m] = receipt[m]
    BY <1>1, <1>2, <1>3, RecordIs
<1>5. PICK c \in Copy : Moves(k, c) /\ c.at # "ingested"
    BY <1>1, <1>3, AckIs
<1>6. faults' \in Nat /\ faults <= faults'
    BY <1>1, <1>3, AckIs
<1>7. ingested' = ingested /\ ingested \in SUBSET Mails /\ object' = object
    BY <1>3 DEF IInv, TypeOK
<1>8. QED
    BY <1>2, <1>3, <1>4, <1>5, <1>6, <1>7 DEF Consumed

LEMMA EmergencyIs ==
    ASSUME IInv, NEW k \in Copies, NEW lost \in BOOLEAN, Emergency(k, lost),
           UNCHANGED <<delivery, returned>>
    PROVE  Consumed(k)
<1>1. k \in Sent
    BY InLane DEF Emergency
<1>2. /\ Ack(k, lost) /\ object' = object \cup {k}
      /\ UNCHANGED <<receipt, ingested, incident, owner, d1, outages>>
    BY DEF Emergency
<1>3. PICK c \in Copy : Moves(k, c) /\ c.at # "ingested"
    BY <1>1, <1>2, AckIs
<1>4. faults' \in Nat /\ faults <= faults'
    BY <1>1, <1>2, AckIs
<1>5. /\ ingested \in SUBSET Mails /\ incident \in [Incidents -> Incident]
      /\ receipt \in [Mails -> Receipt]
    BY DEF IInv, TypeOK
<1>6. QED
    BY <1>2, <1>3, <1>4, <1>5 DEF Consumed

LEMMA EmergencyTooIs ==
    ASSUME IInv, NEW k \in Copies, EmergencyToo(k), UNCHANGED <<delivery, returned>>
    PROVE  Consumed(k)
<1> DEFINE i == <<k, "quarantine">>
           c == [copy[k] EXCEPT !.lane = "done", !.at = "ready"]
<1>1. k \in Sent /\ copy[k] \in Copy
    BY InLane DEF EmergencyToo
<1>2. i \in Incidents /\ i[1] = k
    BY <1>1 DEF Incidents
<1>3. Fault /\ Record(k, i) /\ object' = object \cup {k} /\ UNCHANGED <<ingested, owner, d1, outages>>
    BY DEF EmergencyToo
<1> HIDE DEF i
<1>4. /\ incident' \in [Incidents -> Incident] /\ incident'[i].status # "none"
      /\ \A j \in Incidents :
             \/ incident'[j] = incident[j]
             \/ /\ j[1] = k /\ incident[j].status = "none" /\ incident'[j].status = "unresolved"
                /\ incident'[j].body /\ incident'[j].claim = incident[j].claim
      /\ receipt' \in [Mails -> Receipt]
      /\ \A m \in Mails : receipt'[m].state = "pending" => receipt'[m] = receipt[m]
    BY <1>1, <1>2, <1>3, RecordIs
<1>5. copy' = [copy EXCEPT ![k] = c]
    <2>1. copy \in [Copies -> Copy \cup {NoCopy}]
        BY DEF IInv, TypeOK
    <2>2. copy' = [copy EXCEPT ![k].lane = "done", ![k].at = "ready"]
        BY DEF EmergencyToo
    <2>3. QED
        BY <2>1, <2>2
<1>6. /\ c \in Copy /\ c.at = "ready" /\ c.mail = copy[k].mail
      /\ c.token = copy[k].token /\ c.from = copy[k].from
    BY <1>1 DEF Copy
<1> HIDE DEF c
<1>7. Moves(k, c)
    BY <1>1, <1>5, <1>6 DEF Moves
<1>8. faults' \in Nat /\ faults <= faults' /\ ingested' = ingested /\ ingested \in SUBSET Mails
    BY <1>3 DEF Fault, IInv, TypeOK
<1>9. QED
    BY <1>2, <1>3, <1>4, <1>6, <1>7, <1>8 DEF Consumed

-----------------------------------------------------------------------------
(* The leases, across the steps of the owner's requests. *)

Sending == {"sending", "completing"}

LEMMA SendersAre ==
    ASSUME IInv, NEW o \in Owners, NEW q \in Request_ \cup {Idle},
           owner' = [owner EXCEPT ![o] = q], NEW i \in Incidents
    PROVE  /\ q.at \in Sending /\ q.incident = i => Senders(i)' = Senders(i) \cup {o}
           /\ ~(q.at \in Sending /\ q.incident = i) => Senders(i)' = Senders(i) \ {o}
           /\ IsFiniteSet(Senders(i)) /\ Cardinality(Senders(i)) \in Nat
           /\ o \notin Senders(i) => Cardinality(Senders(i) \cup {o}) = Cardinality(Senders(i)) + 1
           /\ o \in Senders(i) => Cardinality(Senders(i) \ {o}) = Cardinality(Senders(i)) - 1
<1>1. \A p \in Owners : owner'[p] = IF p = o THEN q ELSE owner[p]
    BY DEF IInv, TypeOK
<1>2. /\ q.at \in Sending /\ q.incident = i => Senders(i)' = Senders(i) \cup {o}
      /\ ~(q.at \in Sending /\ q.incident = i) => Senders(i)' = Senders(i) \ {o}
    BY <1>1 DEF Senders, Sending
<1>3. IsFiniteSet(Senders(i)) /\ Cardinality(Senders(i)) \in Nat
    BY RecoveryAssumption, FS_Subset, FS_CardinalityType DEF Senders
<1>4. QED
    BY <1>2, <1>3, FS_AddElement, FS_RemoveElement

LEMMA LeaseFacts ==
    ASSUME IInv, NEW i \in Incidents
    PROVE  /\ incident[i].claim # None => incident[i].status = "unresolved"
           /\ \A o \in Owners : incident[i].claim = o => o \in Senders(i)
           /\ Cardinality(Senders(i)) <= (IF incident[i].claim \in Owners THEN 1 ELSE 0) + faults
           /\ faults \in Nat
           /\ None \notin Owners /\ Dead \notin Owners
           /\ incident[i] \in Incident
BY RecoveryAssumption DEF IInv, Leases, TypeOK

\* A request that does not send, or no longer sends, holds no lease.
LEMMA LeasesCease ==
    ASSUME IInv, NEW o \in Owners, NEW q \in Request_ \cup {Idle},
           owner' = [owner EXCEPT ![o] = q], q.at \notin Sending,
           faults' \in Nat, faults <= faults',
           \A i \in Incidents :
               /\ incident[i].claim # o => incident'[i].claim = incident[i].claim
               /\ incident[i].claim = o => incident'[i].claim \notin Owners
               /\ incident'[i].claim # None => incident'[i].status = "unresolved"
    PROVE  Leases'
<1>1. SUFFICES ASSUME NEW i \in Incidents
               PROVE  /\ incident'[i].claim # None => incident'[i].status = "unresolved"
                      /\ \A p \in Owners : incident'[i].claim = p => p \in Senders(i)'
                      /\ Cardinality(Senders(i)') <=
                             (IF incident'[i].claim \in Owners THEN 1 ELSE 0) + faults'
    BY DEF Leases, Senders
<1>2. /\ Senders(i)' = Senders(i) \ {o} /\ Cardinality(Senders(i)) \in Nat
      /\ o \in Senders(i) => Cardinality(Senders(i) \ {o}) = Cardinality(Senders(i)) - 1
    BY SendersAre
<1>3. /\ \A p \in Owners : incident[i].claim = p => p \in Senders(i)
      /\ Cardinality(Senders(i)) <= (IF incident[i].claim \in Owners THEN 1 ELSE 0) + faults
      /\ faults \in Nat /\ None \notin Owners
    BY LeaseFacts
<1>4. \A p \in Owners : incident'[i].claim = p => p \in Senders(i)'
    BY <1>2, <1>3
<1>5. o \notin Senders(i) => Senders(i) \ {o} = Senders(i)
    OBVIOUS
<1>6. Cardinality(Senders(i)') \in Nat /\ Cardinality(Senders(i)') <= Cardinality(Senders(i))
    <2>1. CASE o \in Senders(i)
        <3>1. Cardinality(Senders(i)) # 0
            BY <2>1, <1>2, FS_EmptySet, SendersAre
        <3>2. QED
            BY <3>1, <2>1, <1>2
    <2>2. CASE o \notin Senders(i)
        <3>1. Senders(i)' = Senders(i)
            BY <2>2, <1>2, <1>5
        <3>2. QED
            BY <3>1, <1>2
    <2>3. QED
        BY <2>1, <2>2
<1>7. Cardinality(Senders(i)') <= (IF incident'[i].claim \in Owners THEN 1 ELSE 0) + faults'
    <2>1. CASE incident[i].claim = o
        BY <2>1, <1>2, <1>3
    <2>2. CASE incident[i].claim # o
        <3>1. incident'[i].claim = incident[i].claim
            BY <2>2
        <3>2. QED
            BY <3>1, <1>2, <1>3, <1>6
    <2>3. QED
        BY <2>1, <2>2
<1>8. QED
    BY <1>4, <1>7

\* A request takes a lease: of a live holder only at the price of a fault.
LEMMA LeaseTaken ==
    ASSUME IInv, NEW o \in Owners, NEW q \in Request_ \cup {Idle}, NEW i \in Incidents,
           owner' = [owner EXCEPT ![o] = q], q.at = "sending", q.incident = i,
           owner[o].at \notin Sending,
           incident[i].status = "unresolved", incident'[i].status = "unresolved",
           incident'[i].claim = o,
           \A j \in Incidents : j # i => incident'[j] = incident[j],
           faults' \in Nat, faults <= faults', incident[i].claim \in Owners => faults' = faults + 1
    PROVE  Leases'
<1>1. SUFFICES ASSUME NEW j \in Incidents
               PROVE  /\ incident'[j].claim # None => incident'[j].status = "unresolved"
                      /\ \A p \in Owners : incident'[j].claim = p => p \in Senders(j)'
                      /\ Cardinality(Senders(j)') <=
                             (IF incident'[j].claim \in Owners THEN 1 ELSE 0) + faults'
    BY DEF Leases, Senders
<1>2. /\ Senders(j)' = IF j = i THEN Senders(j) \cup {o} ELSE Senders(j) \ {o}
      /\ Cardinality(Senders(j)) \in Nat
      /\ o \notin Senders(j) => Cardinality(Senders(j) \cup {o}) = Cardinality(Senders(j)) + 1
    <2>1. q.at \in Sending /\ q.incident = i
        BY DEF Sending
    <2>2. \A p \in Owners : owner'[p] = IF p = o THEN q ELSE owner[p]
        BY DEF IInv, TypeOK
    <2>3. Senders(j)' = IF j = i THEN Senders(j) \cup {o} ELSE Senders(j) \ {o}
        BY <2>1, <2>2 DEF Senders, Sending
    <2>4. IsFiniteSet(Senders(j)) /\ Cardinality(Senders(j)) \in Nat
        BY RecoveryAssumption, FS_Subset, FS_CardinalityType DEF Senders
    <2>5. o \notin Senders(j) => Cardinality(Senders(j) \cup {o}) = Cardinality(Senders(j)) + 1
        BY <2>4, FS_AddElement
    <2>6. QED
        BY <2>3, <2>4, <2>5
<1>3. o \notin Senders(j)
    BY DEF Senders, Sending
<1>4. /\ incident[j].claim # None => incident[j].status = "unresolved"
      /\ \A p \in Owners : incident[j].claim = p => p \in Senders(j)
      /\ Cardinality(Senders(j)) <= (IF incident[j].claim \in Owners THEN 1 ELSE 0) + faults
      /\ faults \in Nat
    BY LeaseFacts
<1>5. CASE j # i
    <2>1. Senders(j)' = Senders(j)
        BY <1>2, <1>3, <1>5
    <2>2. QED
        BY <2>1, <1>2, <1>4, <1>5
<1>6. CASE j = i
    <2>1. Senders(j)' = Senders(j) \cup {o} /\ incident'[j].claim = o /\ incident'[j].status = "unresolved"
        BY <1>2, <1>6
    <2>2. Cardinality(Senders(j)') = Cardinality(Senders(j)) + 1
        BY <2>1, <1>2, <1>3
    <2>3. QED
        BY <2>1, <2>2, <1>2, <1>4, <1>6
<1>7. QED
    BY <1>5, <1>6

\* A request that goes on sending keeps what it holds.
LEMMA LeasesStay ==
    ASSUME IInv, NEW o \in Owners, NEW q \in Request_ \cup {Idle},
           owner' = [owner EXCEPT ![o] = q], q.at \in Sending, owner[o].at \in Sending,
           q.incident = owner[o].incident, incident' = incident, faults' = faults
    PROVE  Leases'
<1>1. SUFFICES ASSUME NEW i \in Incidents
               PROVE  /\ incident'[i].claim # None => incident'[i].status = "unresolved"
                      /\ \A p \in Owners : incident'[i].claim = p => p \in Senders(i)'
                      /\ Cardinality(Senders(i)') <=
                             (IF incident'[i].claim \in Owners THEN 1 ELSE 0) + faults'
    BY DEF Leases, Senders
<1>2. Senders(i)' = Senders(i)
    <2>1. /\ q.incident = i => Senders(i)' = Senders(i) \cup {o}
          /\ q.incident # i => Senders(i)' = Senders(i) \ {o}
        BY SendersAre
    <2>2. o \in Senders(i) <=> q.incident = i
        BY DEF Senders, Sending
    <2>3. QED
        BY <2>1, <2>2
<1>3. QED
    BY <1>2, LeaseFacts

-----------------------------------------------------------------------------
(* The owner's requests. *)

\* A request at work has an incident of a copy that has been sent.
LEMMA Busy ==
    ASSUME IInv, NEW o \in Owners, owner[o].at # "idle"
    PROVE  /\ owner[o] \in Request_ /\ owner[o] # Idle
           /\ owner[o].incident \in Incidents /\ owner[o].incident[1] \in Sent
           /\ owner[o].action \in {"retry", "dismiss"}
           /\ incident[owner[o].incident] \in Incident
           /\ owner[o].at = "reloading" => incident[owner[o].incident].status # "none"
           /\ owner[o].at = "completing" => SentAgain(owner[o].incident[1])
           /\ owner[o].at = "deleting" => incident[owner[o].incident].status \in {"ignored", "resolved"}
<1>1. owner[o] \in Request_ /\ owner[o] # Idle
    BY DEF IInv, TypeOK, Idle
<1>2. owner[o].incident \in Incidents /\ owner[o].action \in {"retry", "dismiss"}
    BY <1>1 DEF Request_
<1>3. QED
    BY <1>1, <1>2 DEF IInv, Bodies, TypeOK

\* The request goes on to another step, about the same incident.
Goes(o, q, step) ==
    /\ q \in Request_ /\ owner' = [owner EXCEPT ![o] = q]
    /\ q.at = step /\ q.incident = owner[o].incident

RequestSteps == {"looking", "materializing", "reloading", "dismissing", "claiming", "sending",
                 "completing", "deleting"}

LEMMA GotoIs ==
    ASSUME IInv, NEW o \in Owners, owner[o].at # "idle", NEW step \in RequestSteps, Goto(o, step)
    PROVE  \E q \in Request_ : Goes(o, q, step)
<1> DEFINE q == [owner[o] EXCEPT !.at = step]
<1>1. owner[o] \in Request_ /\ owner \in [Owners -> Request_ \cup {Idle}]
    BY Busy DEF IInv, TypeOK
<1>2. owner' = [owner EXCEPT ![o] = q]
    BY <1>1 DEF Goto
<1>3. q \in Request_ /\ q.at = step /\ q.incident = owner[o].incident
    BY <1>1 DEF Request_, RequestSteps
<1> HIDE DEF q
<1>4. QED
    BY <1>2, <1>3 DEF Goes

\* A step of a request that sends nothing.
LEMMA OwnerKeeps ==
    ASSUME IInv, NEW o \in Owners, NEW q \in Request_ \cup {Idle},
           owner' = [owner EXCEPT ![o] = q],
           UNCHANGED <<copy, ingested, delivery, returned, d1, outages>>,
           faults' \in Nat,
           receipt' \in [Mails -> Receipt],
           \A m \in Mails : receipt'[m].state = "pending" => receipt'[m] = receipt[m],
           object' \subseteq object,
           \A k \in object \ object' :
               \E i \in Incidents : i[1] = k /\ incident[i].status \in {"ignored", "resolved"},
           incident' \in [Incidents -> Incident],
           \A i \in Incidents :
               \/ incident'[i].status = incident[i].status /\ incident'[i].body = incident[i].body
               \/ /\ incident[i].status = "none" /\ i[1] \in Sent
                  /\ incident'[i].status = "unresolved" /\ incident'[i].body
               \/ incident[i].status = "unresolved" /\ incident'[i].status = "ignored"
               \/ /\ incident[i].status = "unresolved" /\ SentAgain(i[1])
                  /\ incident'[i].status = "resolved",
           q = Idle \/ /\ q.incident[1] \in Sent
                       /\ q.at = "reloading" => incident'[q.incident].status # "none"
                       /\ q.at # "completing"
                       /\ q.at = "deleting" => incident'[q.incident].status \in {"ignored", "resolved"},
           Leases'
    PROVE  IInv'
<1>1. TypeOK /\ Bodies
    BY DEF IInv
<1>2. /\ Sent' = Sent /\ Numbered'
      /\ \A p \in Owners : owner'[p] = IF p = o THEN q ELSE owner[p]
    BY <1>1 DEF Sent, Bodies, Numbered, TypeOK
<1>3. TypeOK'
    BY <1>1, <1>2 DEF TypeOK
<1>4. BodyStep
    <2>1. \A k \in Sent : copy'[k].at = "ingested" => copy'[k].mail \in ingested'
        BY <1>1 DEF Bodies
    <2>2. object' \subseteq Sent'
        BY <1>1, <1>2 DEF Bodies
    <2>3. \A p \in Owners :
              \/ owner'[p] = owner[p] \/ owner'[p] = Idle
              \/ /\ owner'[p].incident[1] \in Sent
                 /\ owner'[p].at = "reloading" => incident'[owner'[p].incident].status # "none"
                 /\ owner'[p].at = "completing" =>
                        \E l \in Sent' : /\ l > owner'[p].incident[1]
                                         /\ copy'[l].mail = copy'[owner'[p].incident[1]].mail
                 /\ owner'[p].at = "deleting" =>
                        incident'[owner'[p].incident].status \in {"ignored", "resolved"}
        BY <1>2
    <2>4. QED
        BY <1>2, <2>1, <2>2, <2>3 DEF BodyStep
<1>5. Claims'
    BY <1>2, ClaimsKept
<1>6. QED
    BY <1>3, <1>4, <1>5, BodiesKept DEF IInv

\* A step of a request that touches nothing but the request.
LEMMA OwnerAlone ==
    ASSUME IInv, NEW o \in Owners, NEW q \in Request_ \cup {Idle},
           owner' = [owner EXCEPT ![o] = q],
           UNCHANGED <<receipt, copy, ingested, incident, object, world, delivery, returned>>,
           owner[o].at \notin Sending, q.at \notin Sending,
           q = Idle \/ /\ q.incident[1] \in Sent
                       /\ q.at = "reloading" => incident[q.incident].status # "none"
                       /\ q.at = "deleting" => incident[q.incident].status \in {"ignored", "resolved"}
    PROVE  IInv'
<1>1. faults' = faults /\ faults \in Nat /\ d1' = d1 /\ outages' = outages
      /\ receipt \in [Mails -> Receipt] /\ incident \in [Incidents -> Incident]
    BY DEF world, IInv, TypeOK
<1>2. ASSUME NEW i \in Incidents
      PROVE  incident[i].claim # o /\ (incident[i].claim # None => incident[i].status = "unresolved")
    <2>1. o \notin Senders(i)
        BY DEF Senders, Sending
    <2>2. QED
        BY <2>1, LeaseFacts
<1>3. Leases'
    <2>1. faults' \in Nat /\ faults <= faults' /\ incident' = incident
        BY <1>1
    <2>2. \A i \in Incidents :
              /\ incident[i].claim # o => incident'[i].claim = incident[i].claim
              /\ incident[i].claim = o => incident'[i].claim \notin Owners
              /\ incident'[i].claim # None => incident'[i].status = "unresolved"
        BY <1>2, <2>1
    <2>3. QED
        BY <2>1, <2>2, LeasesCease
<1>4. q.at # "completing"
    BY DEF Sending
<1>5. QED
    BY <1>1, <1>3, <1>4, OwnerKeeps

\* An owner request that leaves.
LEMMA IdleIs == Idle.at = "idle" /\ Idle.at \notin Sending
BY DEF Idle, Sending

LEMMA StartKeeps ==
    ASSUME IInv, NEW o \in Owners, NEW i \in Incidents, NEW action \in {"retry", "dismiss"},
           Start(o, i, action), UNCHANGED <<delivery, returned>>
    PROVE  IInv'
<1> DEFINE at == IF i[2] = "r2" THEN "looking"
                 ELSE IF action = "retry" THEN "claiming" ELSE "dismissing"
           q == [at |-> at, incident |-> i, action |-> action]
<1>1. owner' = [owner EXCEPT ![o] = q] /\ owner[o].at = "idle"
      /\ UNCHANGED <<receipt, copy, ingested, incident, object, world>>
    BY DEF Start, At
<1>2. q \in Request_ /\ q.at \in {"looking", "claiming", "dismissing"} /\ q.incident = i
    BY DEF Request_
<1>3. i[1] \in Sent
    <2>1. CASE i[2] = "r2"
        BY <2>1 DEF Start, IInv, Bodies
    <2>2. CASE i[2] # "r2"
        <3>1. incident[i].status = "unresolved"
            BY <2>2 DEF Start
        <3>2. QED
            BY <3>1 DEF IInv, Bodies
    <2>3. QED
        BY <2>1, <2>2
<1> HIDE DEF q
<1>4. QED
    BY <1>1, <1>2, <1>3, OwnerAlone DEF Sending

\* What an action on an emergency object does once its row is known.
LEMMA ProceedKeeps ==
    ASSUME IInv, NEW o \in Owners, owner[o].at \in {"looking", "reloading"},
           incident[owner[o].incident].status # "none", Proceed(o),
           UNCHANGED <<receipt, copy, ingested, incident, object, world, delivery, returned>>
    PROVE  IInv'
<1> DEFINE i == owner[o].incident
           step == IF incident[i].status # "unresolved" THEN "deleting"
                   ELSE IF owner[o].action = "retry" THEN "claiming" ELSE "dismissing"
<1>1. owner[o].at # "idle" /\ owner[o].at \notin Sending
    BY DEF Sending
<1>2. incident[i] \in Incident /\ i[1] \in Sent
    BY <1>1, Busy
<1>3. step \in RequestSteps /\ Goto(o, step) /\ step \in {"deleting", "claiming", "dismissing"}
    BY DEF Proceed, RequestSteps
<1>4. step = "deleting" => incident[i].status \in {"ignored", "resolved"}
    BY <1>2 DEF Incident
<1> HIDE DEF step
<1>5. PICK q \in Request_ : Goes(o, q, step)
    BY <1>1, <1>3, GotoIs
<1>6. owner' = [owner EXCEPT ![o] = q] /\ q.at = step /\ q.incident = i
    BY <1>5 DEF Goes
<1>7. QED
    BY <1>1, <1>2, <1>3, <1>4, <1>6, OwnerAlone DEF Sending

LEMMA LookKeeps ==
    ASSUME IInv, NEW o \in Owners, Look(o), UNCHANGED <<delivery, returned>>
    PROVE  IInv'
<1> DEFINE i == owner[o].incident
<1>1. owner[o].at = "looking" /\ owner[o].at \notin Sending
      /\ UNCHANGED <<receipt, copy, ingested, incident, object, world>>
    BY DEF Look, At, Sending
<1>2. i[1] \in Sent
    BY <1>1, Busy
<1>3. CASE i[1] \notin object
    <2>1. owner' = [owner EXCEPT ![o] = Idle]
        BY <1>3 DEF Look, Leave
    <2>2. QED
        BY <2>1, <1>1, IdleIs, OwnerAlone
<1>4. CASE i[1] \in object /\ incident[i].status = "none"
    <2>1. Goto(o, "materializing")
        BY <1>4 DEF Look
    <2>2. PICK q \in Request_ : Goes(o, q, "materializing")
        BY <1>1, <2>1, GotoIs DEF RequestSteps
    <2>3. owner' = [owner EXCEPT ![o] = q] /\ q.at = "materializing" /\ q.incident = i
        BY <2>2 DEF Goes
    <2>4. QED
        BY <1>1, <1>2, <2>3, OwnerAlone DEF Sending
<1>5. CASE i[1] \in object /\ incident[i].status # "none"
    <2>1. Proceed(o)
        BY <1>5 DEF Look
    <2>2. QED
        BY <1>1, <1>5, <2>1, ProceedKeeps
<1>6. QED
    BY <1>3, <1>4, <1>5

LEMMA ReloadKeeps ==
    ASSUME IInv, NEW o \in Owners, Reload(o), UNCHANGED <<delivery, returned>>
    PROVE  IInv'
<1>1. owner[o].at = "reloading" /\ Proceed(o)
      /\ UNCHANGED <<receipt, copy, ingested, incident, object, world>>
    BY DEF Reload, At
<1>2. incident[owner[o].incident].status # "none"
    BY <1>1, Busy
<1>3. QED
    BY <1>1, <1>2, ProceedKeeps

LEMMA LeaseRefusedKeeps ==
    ASSUME IInv, NEW o \in Owners, LeaseRefused(o), UNCHANGED <<delivery, returned>>
    PROVE  IInv'
<1>1. owner[o].at = "claiming" /\ owner[o].at \notin Sending
      /\ owner' = [owner EXCEPT ![o] = Idle]
      /\ UNCHANGED <<receipt, copy, ingested, incident, object, world>>
    BY DEF LeaseRefused, At, Sending, Leave
<1>2. QED
    BY <1>1, IdleIs, OwnerAlone

LEMMA MaterializeKeeps ==
    ASSUME IInv, NEW o \in Owners, Materialize(o), UNCHANGED <<delivery, returned>>
    PROVE  IInv'
<1> DEFINE i == owner[o].incident
           k == i[1]
<1>1. owner[o].at = "materializing" /\ owner[o].at # "idle" /\ owner[o].at \notin Sending
      /\ Record(k, i) /\ Goto(o, "reloading")
      /\ UNCHANGED <<copy, ingested, object, world>>
    BY DEF Materialize, At, Sending
<1>2. i \in Incidents /\ k \in Sent
    BY <1>1, Busy
<1>3. PICK q \in Request_ : Goes(o, q, "reloading")
    BY <1>1, GotoIs DEF RequestSteps
<1>4. owner' = [owner EXCEPT ![o] = q] /\ q.at = "reloading" /\ q.incident = i
    BY <1>3 DEF Goes
<1>5. /\ incident' \in [Incidents -> Incident] /\ incident'[i].status # "none"
      /\ \A j \in Incidents :
             \/ incident'[j] = incident[j]
             \/ /\ j[1] = k /\ incident[j].status = "none" /\ incident'[j].status = "unresolved"
                /\ incident'[j].body /\ incident'[j].claim = incident[j].claim
      /\ receipt' \in [Mails -> Receipt]
      /\ \A m \in Mails : receipt'[m].state = "pending" => receipt'[m] = receipt[m]
    BY <1>1, <1>2, RecordIs
<1>6. faults' = faults /\ faults \in Nat /\ d1' = d1 /\ outages' = outages /\ faults <= faults'
    BY <1>1 DEF world, IInv, TypeOK
<1>7. ASSUME NEW j \in Incidents
      PROVE  incident'[j].claim = incident[j].claim /\ incident[j].claim # o
             /\ (incident'[j].claim # None => incident'[j].status = "unresolved")
    <2>1. o \notin Senders(j)
        BY <1>1 DEF Senders, Sending
    <2>2. QED
        BY <1>5, <2>1, LeaseFacts
<1>8. q.at \notin Sending
    BY <1>4 DEF Sending
<1> HIDE DEF i, k
<1>9. Leases'
    BY <1>4, <1>6, <1>7, <1>8, LeasesCease
<1>10. \A j \in Incidents :
           \/ incident'[j].status = incident[j].status /\ incident'[j].body = incident[j].body
           \/ /\ incident[j].status = "none" /\ j[1] \in Sent
              /\ incident'[j].status = "unresolved" /\ incident'[j].body
    BY <1>2, <1>5
<1>11. q.incident[1] \in Sent /\ incident'[q.incident].status # "none"
    BY <1>2, <1>4, <1>5 DEF k
<1>12. QED
    BY <1>1, <1>4, <1>5, <1>6, <1>9, <1>10, <1>11, OwnerKeeps

\* The row's disposition: the body and the claim are cleared.
LEMMA DisposedIs ==
    ASSUME IInv, NEW i \in Incidents, NEW status \in {"ignored", "resolved"}, Disposed(i, status)
    PROVE  /\ incident' \in [Incidents -> Incident]
           /\ incident'[i].status = status /\ incident'[i].claim = None
           /\ \A j \in Incidents : j # i => incident'[j] = incident[j]
<1>1. incident \in [Incidents -> Incident]
    BY DEF IInv, TypeOK
<1> DEFINE r == [status |-> status, body |-> FALSE, claim |-> None]
<1>2. r \in Incident /\ r.status = status /\ r.claim = None
    BY DEF Incident
<1>3. incident' = [incident EXCEPT ![i] = r]
    BY DEF Disposed
<1> HIDE DEF r
<1>4. QED
    BY <1>1, <1>2, <1>3

LEMMA AfterDispositionIs ==
    ASSUME IInv, NEW o \in Owners, owner[o].at # "idle", AfterDisposition(o)
    PROVE  \E q \in Request_ \cup {Idle} :
               /\ owner' = [owner EXCEPT ![o] = q]
               /\ q = Idle \/ (q.at = "deleting" /\ q.incident = owner[o].incident)
<1>1. CASE owner[o].incident[2] = "r2"
    <2>1. PICK q \in Request_ : Goes(o, q, "deleting")
        BY <1>1, GotoIs DEF AfterDisposition, RequestSteps
    <2>2. QED
        BY <2>1 DEF Goes
<1>2. CASE owner[o].incident[2] # "r2"
    <2>1. owner' = [owner EXCEPT ![o] = Idle] /\ Idle \in Request_ \cup {Idle}
        BY <1>2 DEF AfterDisposition, Leave
    <2>2. QED
        BY <2>1
<1>3. QED
    BY <1>1, <1>2

\* The end of a disposition: the request leaves, or deletes the object.
LEMMA DispositionKeeps ==
    ASSUME IInv, NEW o \in Owners, NEW q \in Request_ \cup {Idle}, owner[o].at # "idle",
           NEW i \in Incidents, i = owner[o].incident, i[1] \in Sent,
           owner' = [owner EXCEPT ![o] = q],
           q = Idle \/ (q.at = "deleting" /\ q.incident = i),
           UNCHANGED <<receipt, copy, ingested, object, world, delivery, returned>>,
           \/ incident' = incident
           \/ Disposed(i, "ignored") /\ incident[i].status = "unresolved" /\ incident[i].claim = None
           \/ Disposed(i, "resolved") /\ incident[i].status = "unresolved" /\ SentAgain(i[1])
                  /\ incident[i].claim = o,
           q # Idle => incident'[i].status \in {"ignored", "resolved"},
           incident' = incident => incident[i].claim # o
    PROVE  IInv'
<1>1. /\ incident' \in [Incidents -> Incident]
      /\ \A j \in Incidents : j # i => incident'[j] = incident[j]
      /\ \/ incident' = incident
         \/ /\ incident'[i].status = "ignored" /\ incident'[i].claim = None
            /\ incident[i].status = "unresolved" /\ incident[i].claim = None
         \/ /\ incident'[i].status = "resolved" /\ incident'[i].claim = None
            /\ incident[i].status = "unresolved" /\ incident[i].claim = o /\ SentAgain(i[1])
    <2>1. CASE incident' = incident
        BY <2>1 DEF IInv, TypeOK
    <2>2. CASE Disposed(i, "ignored") /\ incident[i].status = "unresolved" /\ incident[i].claim = None
        BY <2>2, DisposedIs
    <2>3. CASE Disposed(i, "resolved") /\ incident[i].status = "unresolved" /\ SentAgain(i[1])
                   /\ incident[i].claim = o
        BY <2>3, DisposedIs
    <2>4. QED
        BY <2>1, <2>2, <2>3
<1>2. faults' = faults /\ faults \in Nat /\ d1' = d1 /\ outages' = outages
      /\ receipt \in [Mails -> Receipt] /\ faults <= faults'
    BY DEF world, IInv, TypeOK
<1>3. q.at \notin Sending /\ q.at # "completing"
    BY IdleIs DEF Sending
<1>4. ASSUME NEW j \in Incidents
      PROVE  /\ incident[j].claim # o => incident'[j].claim = incident[j].claim
             /\ incident[j].claim = o => incident'[j].claim \notin Owners
             /\ incident'[j].claim # None => incident'[j].status = "unresolved"
    <2>1. incident[j].claim # None => incident[j].status = "unresolved"
        BY LeaseFacts
    <2>2. incident[j].claim = o => j = i
        <3>1. incident[j].claim = o => o \in Senders(j)
            BY LeaseFacts
        <3>2. QED
            BY <3>1 DEF Senders
    <2>3. None \notin Owners
        BY RecoveryAssumption
    <2>4. CASE j # i
        BY <2>4, <1>1, <2>1, <2>2
    <2>5. CASE j = i
        BY <2>5, <1>1, <2>1, <2>3
    <2>6. QED
        BY <2>4, <2>5
<1>5. Leases'
    BY <1>2, <1>3, <1>4, LeasesCease
<1>6. \A j \in Incidents :
          \/ incident'[j].status = incident[j].status /\ incident'[j].body = incident[j].body
          \/ incident[j].status = "unresolved" /\ incident'[j].status = "ignored"
          \/ /\ incident[j].status = "unresolved" /\ SentAgain(j[1])
             /\ incident'[j].status = "resolved"
    BY <1>1
<1>7. \/ q = Idle
      \/ /\ q.incident[1] \in Sent /\ q.at = "deleting"
         /\ incident'[q.incident].status \in {"ignored", "resolved"}
    <2>1. CASE q = Idle
        BY <2>1
    <2>2. CASE q # Idle
        <3>1. q.at = "deleting" /\ q.incident = i /\ incident'[i].status \in {"ignored", "resolved"}
            BY <2>2
        <3>2. QED
            BY <3>1
    <2>3. QED
        BY <2>1, <2>2
<1>8. QED
    BY <1>1, <1>2, <1>3, <1>5, <1>6, <1>7, OwnerKeeps

LEMMA DismissKeeps ==
    ASSUME IInv, NEW o \in Owners, Dismiss(o), UNCHANGED <<delivery, returned>>
    PROVE  IInv'
<1> DEFINE i == owner[o].incident
<1>1. owner[o].at = "dismissing" /\ owner[o].at # "idle"
      /\ UNCHANGED <<receipt, copy, ingested, object, world, delivery, returned>>
    BY DEF Dismiss, At
<1>2. i \in Incidents /\ i[1] \in Sent /\ incident[i] \in Incident
    BY <1>1, Busy
<1>3. incident[i].claim # o
    <2>1. o \notin Senders(i)
        BY <1>1 DEF Senders
    <2>2. QED
        BY <1>2, <2>1, LeaseFacts
<1>4. \/ /\ incident[i].status = "unresolved" /\ incident[i].claim = None
         /\ Disposed(i, "ignored") /\ AfterDisposition(o)
      \/ incident[i].status = "ignored" /\ UNCHANGED incident /\ AfterDisposition(o)
      \/ UNCHANGED incident /\ Leave(o)
    BY DEF Dismiss
<1>5. CASE /\ incident[i].status = "unresolved" /\ incident[i].claim = None
           /\ Disposed(i, "ignored") /\ AfterDisposition(o)
    <2>1. PICK q \in Request_ \cup {Idle} :
              /\ owner' = [owner EXCEPT ![o] = q]
              /\ q = Idle \/ (q.at = "deleting" /\ q.incident = i)
        BY <1>1, <1>5, AfterDispositionIs
    <2>2. incident'[i].status = "ignored" /\ incident' # incident
        BY <1>2, <1>5, DisposedIs
    <2>3. QED
        BY <1>1, <1>2, <1>3, <1>5, <2>1, <2>2, DispositionKeeps
<1>6. CASE incident[i].status = "ignored" /\ UNCHANGED incident /\ AfterDisposition(o)
    <2>1. PICK q \in Request_ \cup {Idle} :
              /\ owner' = [owner EXCEPT ![o] = q]
              /\ q = Idle \/ (q.at = "deleting" /\ q.incident = i)
        BY <1>1, <1>6, AfterDispositionIs
    <2>2. QED
        BY <1>1, <1>2, <1>3, <1>6, <2>1, DispositionKeeps
<1>7. CASE UNCHANGED incident /\ Leave(o)
    <2>1. owner' = [owner EXCEPT ![o] = Idle]
        BY <1>7 DEF Leave
    <2>2. QED
        BY <1>1, <1>2, <1>3, <1>7, <2>1, DispositionKeeps
<1>8. QED
    BY <1>4, <1>5, <1>6, <1>7

LEMMA CompleteKeeps ==
    ASSUME IInv, NEW o \in Owners, Complete(o), UNCHANGED <<delivery, returned>>
    PROVE  IInv'
<1> DEFINE i == owner[o].incident
<1>1. owner[o].at = "completing" /\ owner[o].at # "idle"
      /\ UNCHANGED <<receipt, copy, ingested, object, world, delivery, returned>>
    BY DEF Complete, At
<1>2. i \in Incidents /\ i[1] \in Sent /\ incident[i] \in Incident /\ SentAgain(i[1])
    BY <1>1, Busy
<1>3. CASE incident[i].status = "unresolved" /\ incident[i].claim = o
    <2>1. Disposed(i, "resolved") /\ AfterDisposition(o)
        BY <1>3 DEF Complete
    <2>2. PICK q \in Request_ \cup {Idle} :
              /\ owner' = [owner EXCEPT ![o] = q]
              /\ q = Idle \/ (q.at = "deleting" /\ q.incident = i)
        BY <1>1, <2>1, AfterDispositionIs
    <2>3. incident'[i].status = "resolved" /\ incident' # incident
        BY <1>2, <1>3, <2>1, DisposedIs
    <2>4. QED
        BY <1>1, <1>2, <1>3, <2>1, <2>2, <2>3, DispositionKeeps
<1>4. CASE ~(incident[i].status = "unresolved" /\ incident[i].claim = o)
    <2>1. incident' = incident /\ owner' = [owner EXCEPT ![o] = Idle]
        BY <1>4 DEF Complete, Leave
    <2>2. incident[i].claim # o
        BY <1>2, <1>4, RecoveryAssumption, LeaseFacts
    <2>3. QED
        BY <1>1, <1>2, <2>1, <2>2, DispositionKeeps
<1>5. QED
    BY <1>3, <1>4

LEMMA LeaseKeeps ==
    ASSUME IInv, NEW o \in Owners, Lease(o), UNCHANGED <<delivery, returned>>
    PROVE  IInv'
<1> DEFINE i == owner[o].incident
           r == [incident[i] EXCEPT !.claim = o]
<1>1. owner[o].at = "claiming" /\ owner[o].at # "idle" /\ owner[o].at \notin Sending
      /\ incident[i].status = "unresolved" /\ Costs(incident[i].claim \in Owners)
      /\ Goto(o, "sending") /\ UNCHANGED <<receipt, copy, ingested, object, d1, outages>>
    BY DEF Lease, At, Sending
<1>2. i \in Incidents /\ i[1] \in Sent /\ incident[i] \in Incident
      /\ incident \in [Incidents -> Incident] /\ faults \in Nat /\ receipt \in [Mails -> Receipt]
    BY <1>1, Busy DEF IInv, TypeOK
<1>3. incident' = [incident EXCEPT ![i] = r]
    <2>1. incident' = [incident EXCEPT ![i].claim = o]
        BY DEF Lease
    <2>2. QED
        BY <1>2, <2>1
<1>4. r \in Incident /\ r.claim = o /\ r.status = incident[i].status /\ r.body = incident[i].body
    BY <1>2 DEF Incident
<1> HIDE DEF r
<1>5. /\ incident' \in [Incidents -> Incident] /\ incident'[i] = r
      /\ \A j \in Incidents : j # i => incident'[j] = incident[j]
    BY <1>2, <1>3, <1>4
<1>6. /\ faults' \in Nat /\ faults <= faults'
      /\ incident[i].claim \in Owners => faults' = faults + 1
    BY <1>1, <1>2 DEF Costs, Fault
<1>7. PICK q \in Request_ : Goes(o, q, "sending")
    BY <1>1, GotoIs DEF RequestSteps
<1>8. owner' = [owner EXCEPT ![o] = q] /\ q.at = "sending" /\ q.incident = i
    BY <1>7 DEF Goes
<1> HIDE DEF i
<1>9. Leases'
    BY <1>1, <1>2, <1>4, <1>5, <1>6, <1>8, LeaseTaken, ZenonT(60)
<1>10. \A j \in Incidents :
           incident'[j].status = incident[j].status /\ incident'[j].body = incident[j].body
    BY <1>4, <1>5
<1>11. QED
    BY <1>1, <1>2, <1>5, <1>6, <1>8, <1>9, <1>10, OwnerKeeps

\* Only claims change, and none is the request's any more.
LEMMA ReleaseIs ==
    ASSUME IInv, NEW o \in Owners, owner[o].at # "idle",
           \A i \in Incidents :
               \/ incident[i].claim # o /\ incident'[i] = incident[i]
               \/ /\ incident[i].claim = o
                  /\ incident'[i] \in {[incident[i] EXCEPT !.claim = None],
                                       [incident[i] EXCEPT !.claim = Dead]},
           incident' = [i \in Incidents |-> incident'[i]],
           owner' = [owner EXCEPT ![o] = Idle], faults' \in Nat, faults <= faults'
    PROVE  /\ incident' \in [Incidents -> Incident] /\ Leases'
           /\ \A i \in Incidents :
                  incident'[i].status = incident[i].status /\ incident'[i].body = incident[i].body
<1>1. incident \in [Incidents -> Incident]
    BY DEF IInv, TypeOK
<1>2. ASSUME NEW i \in Incidents
      PROVE  /\ incident'[i] \in Incident
             /\ incident'[i].status = incident[i].status /\ incident'[i].body = incident[i].body
             /\ incident[i].claim # o => incident'[i].claim = incident[i].claim
             /\ incident[i].claim = o => incident'[i].claim \notin Owners
             /\ incident'[i].claim # None => incident'[i].status = "unresolved"
    <2>1. incident[i] \in Incident
        BY <1>1
    <2>2. /\ [incident[i] EXCEPT !.claim = None] \in Incident
          /\ [incident[i] EXCEPT !.claim = Dead] \in Incident
        BY <2>1 DEF Incident
    <2>3. \A c \in {None, Dead} : /\ [incident[i] EXCEPT !.claim = c].claim = c
                                  /\ [incident[i] EXCEPT !.claim = c].status = incident[i].status
                                  /\ [incident[i] EXCEPT !.claim = c].body = incident[i].body
        BY <2>1 DEF Incident
    <2>4. incident[i].claim # None => incident[i].status = "unresolved"
        BY LeaseFacts
    <2>5. None \notin Owners /\ Dead \notin Owners /\ o # None
        BY RecoveryAssumption
    <2>6. CASE incident[i].claim # o
        BY <2>1, <2>4, <2>6
    <2>7. CASE incident[i].claim = o
        BY <2>2, <2>3, <2>4, <2>5, <2>7
    <2>8. QED
        BY <2>6, <2>7
<1>3. incident' \in [Incidents -> Incident]
    BY <1>2
<1>4. Idle \in Request_ \cup {Idle} /\ Idle.at \notin Sending
    BY IdleIs
<1>5. Leases'
    BY <1>2, <1>4, LeasesCease, ZenonT(60)
<1>6. QED
    BY <1>2, <1>3, <1>5

LEMMA OwnerLeaves ==
    ASSUME IInv, NEW o \in Owners, owner[o].at # "idle",
           \A i \in Incidents :
               \/ incident[i].claim # o /\ incident'[i] = incident[i]
               \/ /\ incident[i].claim = o
                  /\ incident'[i] \in {[incident[i] EXCEPT !.claim = None],
                                       [incident[i] EXCEPT !.claim = Dead]},
           incident' = [i \in Incidents |-> incident'[i]],
           owner' = [owner EXCEPT ![o] = Idle], faults' \in Nat, faults <= faults',
           UNCHANGED <<receipt, copy, ingested, object, d1, outages, delivery, returned>>
    PROVE  IInv'
<1>1. /\ incident' \in [Incidents -> Incident] /\ Leases'
      /\ \A i \in Incidents :
             incident'[i].status = incident[i].status /\ incident'[i].body = incident[i].body
    BY ReleaseIs
<1>2. receipt \in [Mails -> Receipt] /\ Idle \in Request_ \cup {Idle}
    BY DEF IInv, TypeOK
<1>3. QED
    BY <1>1, <1>2, OwnerKeeps

\* The claim of a request that gives its lease back.
LEMMA ReleasedIs ==
    ASSUME IInv, NEW o \in Owners, owner[o].at \in Sending, Release(o)
    PROVE  /\ \A i \in Incidents :
                  \/ incident[i].claim # o /\ incident'[i] = incident[i]
                  \/ /\ incident[i].claim = o
                     /\ incident'[i] \in {[incident[i] EXCEPT !.claim = None],
                                          [incident[i] EXCEPT !.claim = Dead]}
           /\ incident' = [i \in Incidents |-> incident'[i]]
           /\ owner' = [owner EXCEPT ![o] = Idle]
           /\ owner[o].at # "idle"
<1> DEFINE x == owner[o].incident
           c == IF incident[x].claim = o THEN None ELSE incident[x].claim
           r == [incident[x] EXCEPT !.claim = c]
<1>1. owner[o].at # "idle" /\ owner' = [owner EXCEPT ![o] = Idle]
    BY DEF Release, Leave, Sending
<1>2. x \in Incidents /\ incident \in [Incidents -> Incident] /\ incident[x] \in Incident
    BY <1>1, Busy DEF IInv, TypeOK
<1>3. incident' = [incident EXCEPT ![x] = r]
    <2>1. incident' = [incident EXCEPT ![x].claim = IF @ = o THEN None ELSE @]
        BY DEF Release
    <2>2. QED
        BY <1>2, <2>1
<1>4. incident[x].claim # o => r = incident[x]
    BY <1>2 DEF Incident
<1>5. incident[x].claim = o => r = [incident[x] EXCEPT !.claim = None]
    OBVIOUS
<1> HIDE DEF r, c
<1>6. incident'[x] = r /\ \A i \in Incidents : i # x => incident'[i] = incident[i]
    BY <1>2, <1>3
<1>7. incident' = [i \in Incidents |-> incident'[i]]
    BY <1>2, <1>3
<1>8. ASSUME NEW i \in Incidents, i # x PROVE incident[i].claim # o
    <2>1. o \notin Senders(i)
        BY <1>8 DEF Senders
    <2>2. QED
        BY <2>1, LeaseFacts
<1>9. QED
    BY <1>1, <1>2, <1>4, <1>5, <1>6, <1>7, <1>8

LEMMA ResendRefusedKeeps ==
    ASSUME IInv, NEW o \in Owners, ResendRefused(o), UNCHANGED <<delivery, returned>>
    PROVE  IInv'
<1>1. owner[o].at \in Sending /\ Release(o) /\ UNCHANGED <<receipt, copy, ingested, object, world>>
    BY DEF ResendRefused, At, Sending
<1>2. faults' \in Nat /\ faults <= faults' /\ d1' = d1 /\ outages' = outages
    BY <1>1 DEF world, IInv, TypeOK
<1>3. QED
    BY <1>1, <1>2, ReleasedIs, OwnerLeaves

LEMMA OwnerDiesKeeps ==
    ASSUME IInv, NEW o \in Owners, OwnerDies(o), UNCHANGED <<delivery, returned>>
    PROVE  IInv'
<1>1. /\ owner[o].at # "idle" /\ owner' = [owner EXCEPT ![o] = Idle]
      /\ incident' = [i \in Incidents |-> IF incident[i].claim = o
                                          THEN [incident[i] EXCEPT !.claim = Dead] ELSE incident[i]]
      /\ UNCHANGED <<receipt, copy, ingested, object, d1, outages>>
    BY DEF OwnerDies, At, Leave
<1>2. faults' \in Nat /\ faults <= faults'
    BY DEF OwnerDies, Costs, Fault, IInv, TypeOK
<1>3. \A i \in Incidents : incident'[i] = IF incident[i].claim = o
                                          THEN [incident[i] EXCEPT !.claim = Dead] ELSE incident[i]
    BY <1>1
<1>4. incident' = [i \in Incidents |-> incident'[i]]
    BY <1>1
<1>5. QED
    BY <1>1, <1>2, <1>3, <1>4, OwnerLeaves

LEMMA DeleteObjectKeeps ==
    ASSUME IInv, NEW o \in Owners, DeleteObject(o), UNCHANGED <<delivery, returned>>
    PROVE  IInv'
<1> DEFINE i == owner[o].incident
<1>1. /\ owner[o].at = "deleting" /\ owner[o].at # "idle" /\ owner[o].at \notin Sending
      /\ object' = object \ {i[1]} /\ owner' = [owner EXCEPT ![o] = Idle]
      /\ UNCHANGED <<receipt, copy, ingested, incident, world>>
    BY DEF DeleteObject, At, Leave, Sending
<1>2. i \in Incidents /\ incident[i].status \in {"ignored", "resolved"}
    BY <1>1, Busy
<1>3. /\ faults' = faults /\ faults \in Nat /\ faults <= faults' /\ d1' = d1 /\ outages' = outages
      /\ receipt \in [Mails -> Receipt] /\ incident' = incident
      /\ incident \in [Incidents -> Incident]
    BY <1>1 DEF world, IInv, TypeOK
<1>4. \A k \in object \ object' :
          \E j \in Incidents : j[1] = k /\ incident[j].status \in {"ignored", "resolved"}
    BY <1>1, <1>2
<1>5. ASSUME NEW j \in Incidents
      PROVE  incident[j].claim # o /\ (incident[j].claim # None => incident[j].status = "unresolved")
    <2>1. o \notin Senders(j)
        BY <1>1 DEF Senders, Sending
    <2>2. QED
        BY <2>1, LeaseFacts
<1>6. Idle \in Request_ \cup {Idle} /\ Idle.at \notin Sending
    BY IdleIs
<1>7. Leases'
    <2>1. \A j \in Incidents :
              /\ incident[j].claim # o => incident'[j].claim = incident[j].claim
              /\ incident[j].claim = o => incident'[j].claim \notin Owners
              /\ incident'[j].claim # None => incident'[j].status = "unresolved"
        BY <1>3, <1>5
    <2>2. QED
        BY <1>1, <1>3, <1>6, <2>1, LeasesCease
<1>8. object' \subseteq object
    BY <1>1
<1>9. QED
    BY <1>1, <1>3, <1>4, <1>6, <1>7, <1>8, OwnerKeeps

-----------------------------------------------------------------------------
(* What the queue accepts. *)

\* A new copy answers for itself, and for those of its mail before it.
LEMMA GrownBody ==
    ASSUME IInv, NEW m \in Mails, NEW t, NEW from, NEW l \in Copies, Accepts(l, m, t, from),
           UNCHANGED <<ingested, object>>,
           \A i \in Incidents : /\ incident'[i].status = incident[i].status
                                /\ incident'[i].body = incident[i].body,
           \A p \in Owners :
               \/ owner'[p] = owner[p] \/ owner'[p] = Idle
               \/ /\ owner'[p].incident[1] \in Sent /\ owner'[p].at = "completing"
                  /\ copy[owner'[p].incident[1]].mail = m
    PROVE  BodyStep
<1>1. /\ \A k \in Sent : k < l
      /\ Sent' = Sent \cup {l} /\ Numbered' /\ l \notin Sent
      /\ \A k \in Sent : copy'[k] = copy[k]
      /\ copy'[l].lane = "primary" /\ copy'[l].at = "ready" /\ copy'[l].mail = m
    BY DEF Accepts
<1>2. Sent \in SUBSET Nat /\ l \in Nat
    BY DEF Sent, Copies
<1>3. Bodies
    BY DEF IInv
<1>4. \A k \in Sent : copy'[k].at = "ingested" => copy'[k].mail \in ingested'
    BY <1>1, <1>3 DEF Bodies
<1>5. object' \subseteq Sent'
    BY <1>1, <1>3 DEF Bodies
<1>6. ASSUME NEW p \in Owners
      PROVE  \/ owner'[p] = owner[p] \/ owner'[p] = Idle
             \/ /\ owner'[p].incident[1] \in Sent
                /\ owner'[p].at = "reloading" => incident'[owner'[p].incident].status # "none"
                /\ owner'[p].at = "completing" =>
                       \E j \in Sent' : /\ j > owner'[p].incident[1]
                                        /\ copy'[j].mail = copy'[owner'[p].incident[1]].mail
                /\ owner'[p].at = "deleting" =>
                       incident'[owner'[p].incident].status \in {"ignored", "resolved"}
    <2>1. ASSUME NEW k \in Sent, copy[k].mail = m
          PROVE  \E j \in Sent' : j > k /\ copy'[j].mail = copy'[k].mail
        <3>1. l > k /\ copy'[l].mail = copy'[k].mail /\ l \in Sent'
            BY <1>1, <1>2, <2>1
        <3>2. QED
            BY <3>1
    <2>2. QED
        BY <2>1
<1>7. QED
    BY <1>1, <1>4, <1>5, <1>6 DEF BodyStep

\* The place an incident came from is not a delivery.
LEMMA NotDirect ==
    ASSUME NEW i \in Incidents
    PROVE  i # Direct
BY RecoveryAssumption DEF Incidents, Direct, Copies

\* What sending an incident's message again does to the copies.
LEMMA SentAgainIs ==
    ASSUME IInv, NEW i \in Incidents, i[1] \in Sent, Accept(copy[i[1]].mail, copy[i[1]].token, i),
           delivery' = delivery, UNCHANGED receipt
    PROVE  \E l \in Copies : /\ Accepts(l, copy[i[1]].mail, copy[i[1]].token, i)
                             /\ copy[i[1]].mail \in Mails
                             /\ copy' \in [Copies -> Copy \cup {NoCopy}]
                             /\ Claims'
<1>1. copy[i[1]].mail \in Mails /\ copy[i[1]].token \in Nat
    BY SentIs DEF IInv
<1>2. PICK l \in Copies : Accepts(l, copy[i[1]].mail, copy[i[1]].token, i)
    BY <1>1, AcceptIs DEF IInv, Bodies
<1>3. /\ Sent' = Sent \cup {l} /\ l \notin Sent
      /\ \A k \in Sent : copy'[k] = copy[k]
      /\ copy'[l].token = copy[i[1]].token /\ copy'[l].from = i
      /\ copy' \in [Copies -> Copy \cup {NoCopy}]
    BY <1>2 DEF Accepts
<1>4. i # Direct
    BY NotDirect
<1>5. /\ Sent \subseteq Sent'
      /\ \A k \in Sent : copy'[k].token = copy[k].token /\ copy'[k].from = copy[k].from
      /\ \A k \in Sent' \ Sent : copy'[k].from # Direct /\ \E j \in Sent : copy'[k].token = copy[j].token
    BY <1>3, <1>4
<1>6. Claims'
    BY <1>5, ClaimsKept
<1>7. QED
    BY <1>1, <1>2, <1>3, <1>6

LEMMA ResendKeeps ==
    ASSUME IInv, NEW o \in Owners, Resend(o), UNCHANGED <<delivery, returned>>
    PROVE  IInv'
<1> DEFINE i == owner[o].incident
<1>1. owner[o].at = "sending" /\ owner[o].at # "idle" /\ owner[o].at \in Sending
      /\ Accept(copy[i[1]].mail, copy[i[1]].token, i) /\ Goto(o, "completing")
      /\ UNCHANGED <<receipt, ingested, incident, object, world>>
    BY DEF Resend, At, Sending
<1>2. i \in Incidents /\ i[1] \in Sent
    BY <1>1, Busy
<1>3. PICK q \in Request_ : Goes(o, q, "completing")
    BY <1>1, GotoIs DEF RequestSteps
<1>4. owner' = [owner EXCEPT ![o] = q] /\ q.at = "completing" /\ q.incident = i
    BY <1>3 DEF Goes
<1>5. PICK l \in Copies : /\ Accepts(l, copy[i[1]].mail, copy[i[1]].token, i)
                          /\ copy[i[1]].mail \in Mails
                          /\ copy' \in [Copies -> Copy \cup {NoCopy}]
                          /\ Claims'
    BY <1>1, <1>2, SentAgainIs
<1>6. \A p \in Owners : owner'[p] = IF p = o THEN q ELSE owner[p]
    BY <1>4 DEF IInv, TypeOK
<1>7. BodyStep
    <2>1. UNCHANGED <<ingested, object>> /\ UNCHANGED incident
        BY <1>1
    <2>2. q.incident[1] \in Sent /\ copy[q.incident[1]].mail = copy[i[1]].mail
        BY <1>2, <1>4
    <2>3. \A p \in Owners :
              \/ owner'[p] = owner[p]
              \/ /\ owner'[p].incident[1] \in Sent /\ owner'[p].at = "completing"
                 /\ copy[owner'[p].incident[1]].mail = copy[i[1]].mail
        BY <1>4, <1>6, <2>2
    <2>4. QED
        BY <1>5, <2>1, <2>3, GrownBody
<1>8. TypeOK'
    <2>1. owner' \in [Owners -> Request_ \cup {Idle}]
        BY <1>4 DEF IInv, TypeOK
    <2>2. QED
        BY <1>1, <1>5, <2>1 DEF IInv, TypeOK, world
<1>9. Leases'
    <2>1. q.at \in Sending /\ faults' = faults
        BY <1>1, <1>4 DEF Sending, world
    <2>2. QED
        BY <1>1, <1>4, <2>1, LeasesStay
<1>10. QED
    BY <1>5, <1>7, <1>8, <1>9, BodiesKept DEF IInv

LEMMA ResendThrowsKeeps ==
    ASSUME IInv, NEW o \in Owners, NEW taken \in BOOLEAN, ResendThrows(o, taken),
           UNCHANGED <<delivery, returned>>
    PROVE  IInv'
<1> DEFINE i == owner[o].incident
<1>1. /\ owner[o].at \in Sending /\ Release(o) /\ owner[o].at # "idle"
      /\ UNCHANGED <<receipt, ingested, object, d1, outages>>
    BY DEF ResendThrows, At, Sending
<1>2. faults' \in Nat /\ faults <= faults'
    BY DEF ResendThrows, Fault, IInv, TypeOK
<1>3. /\ \A j \in Incidents :
             \/ incident[j].claim # o /\ incident'[j] = incident[j]
             \/ /\ incident[j].claim = o
                /\ incident'[j] \in {[incident[j] EXCEPT !.claim = None],
                                     [incident[j] EXCEPT !.claim = Dead]}
      /\ incident' = [j \in Incidents |-> incident'[j]]
      /\ owner' = [owner EXCEPT ![o] = Idle]
    BY <1>1, ReleasedIs
<1>4. CASE ~taken
    <2>1. copy' = copy
        BY <1>4 DEF ResendThrows
    <2>2. QED
        BY <1>1, <1>2, <1>3, <2>1, OwnerLeaves
<1>5. CASE taken
    <2>1. i \in Incidents /\ i[1] \in Sent
        BY <1>1, Busy
    <2>2. Accept(copy[i[1]].mail, copy[i[1]].token, i)
        BY <1>5 DEF ResendThrows
    <2>3. PICK l \in Copies : /\ Accepts(l, copy[i[1]].mail, copy[i[1]].token, i)
                              /\ copy[i[1]].mail \in Mails
                              /\ copy' \in [Copies -> Copy \cup {NoCopy}]
                              /\ Claims'
        BY <1>1, <2>1, <2>2, SentAgainIs
    <2>4. /\ incident' \in [Incidents -> Incident] /\ Leases'
          /\ \A j \in Incidents :
                 incident'[j].status = incident[j].status /\ incident'[j].body = incident[j].body
        BY <1>1, <1>2, <1>3, ReleaseIs
    <2>5. owner' \in [Owners -> Request_ \cup {Idle}]
          /\ \A p \in Owners : owner'[p] = owner[p] \/ owner'[p] = Idle
        BY <1>3 DEF IInv, TypeOK
    <2>6. BodyStep
        BY <1>1, <2>3, <2>4, <2>5, GrownBody
    <2>7. TypeOK'
        BY <1>1, <1>2, <2>3, <2>4, <2>5 DEF IInv, TypeOK
    <2>8. QED
        BY <2>3, <2>4, <2>6, <2>7, BodiesKept DEF IInv
<1>6. QED
    BY <1>4, <1>5

-----------------------------------------------------------------------------
(* A new token is nobody else's. *)

LEMMA ImageIs ==
    ASSUME NEW S, IsFiniteSet(S), NEW f, f = [x \in S |-> f[x]]
    PROVE  /\ IsFiniteSet({f[x] : x \in S})
           /\ Cardinality({f[x] : x \in S}) \in Nat /\ Cardinality(S) \in Nat
           /\ Cardinality({f[x] : x \in S}) <= Cardinality(S)
<1> DEFINE T == {f[x] : x \in S}
<1>1. f \in [S -> T]
    OBVIOUS
<1>2. f \in Surjection(S, T)
    BY <1>1 DEF Surjection
<1>3. QED
    BY <1>2, FS_Surjection, FS_CardinalityType

LEMMA NewTokenIs ==
    ASSUME IInv, NEW h \in Deliveries
    PROVE  /\ NewToken \in Nat /\ NewToken # 0
           /\ \A k \in Sent : copy[k].token # NewToken
           /\ \A g \in Deliveries : delivery[g] # Idle => delivery[g].token # NewToken
<1> DEFINE D == Cardinality(Deliveries)
           tokens == [k \in Copies |-> copy[k].token]
           claims == [g \in Deliveries |-> delivery[g].token]
           A == {tokens[k] : k \in Copies}
           B == {claims[g] : g \in Deliveries}
           Free == {t \in Tokens : /\ \A k \in Sent : copy[k].token # t
                                   /\ \A g \in Deliveries : delivery[g] # Idle =>
                                                                delivery[g].token # t}
<1>1. IsFiniteSet(Deliveries) /\ D \in Nat /\ MaxCopies \in Nat
    BY RecoveryAssumption, IntakeAssumption, FS_CardinalityType
<1>2. IsFiniteSet(Copies) /\ Cardinality(Copies) = MaxCopies
    <2>1. 1 \in Int /\ MaxCopies \in Int
        BY <1>1
    <2>2. /\ IsFiniteSet(1..MaxCopies)
          /\ Cardinality(1..MaxCopies) = IF 1 > MaxCopies THEN 0 ELSE MaxCopies - 1 + 1
        BY <2>1, FS_Interval
    <2>3. QED
        BY <1>1, <2>2 DEF Copies
<1>3. IsFiniteSet(A) /\ Cardinality(A) \in Nat /\ Cardinality(A) <= MaxCopies
    <2>1. tokens = [k \in Copies |-> tokens[k]]
        OBVIOUS
    <2> HIDE DEF tokens
    <2>2. QED
        BY <1>2, <2>1, ImageIs
<1>4. IsFiniteSet(B) /\ Cardinality(B) \in Nat /\ Cardinality(B) <= D
    <2>1. claims = [g \in Deliveries |-> claims[g]]
        OBVIOUS
    <2> HIDE DEF claims
    <2>2. QED
        BY <1>1, <2>1, ImageIs
<1>5. IsFiniteSet(Tokens) /\ Cardinality(Tokens) = MaxCopies + D + 1
    <2>1. PICK n \in Nat : n = MaxCopies + D + 1 /\ n >= 1
        BY <1>1
    <2>2. 1 \in Int /\ n \in Int
        BY <2>1
    <2>3. IsFiniteSet(1..n) /\ Cardinality(1..n) = IF 1 > n THEN 0 ELSE n - 1 + 1
        BY <2>2, FS_Interval
    <2>4. Tokens = 1..n
        BY <2>1 DEF Tokens
    <2>5. QED
        BY <2>1, <2>3, <2>4
<1>6. ~(Tokens \subseteq A \cup B)
    <2> HIDE DEF A, B, D
    <2>1. /\ IsFiniteSet(A \cup B)
          /\ Cardinality(A \cup B) = Cardinality(A) + Cardinality(B) - Cardinality(A \cap B)
        BY <1>3, <1>4, FS_Union
    <2>2. Cardinality(A \cap B) \in Nat
        BY <1>3, FS_Intersection, FS_CardinalityType
    <2>3. Tokens \subseteq A \cup B => Cardinality(Tokens) <= Cardinality(A \cup B)
        BY <2>1, FS_Subset
    <2>4. Cardinality(A \cup B) <= MaxCopies + D
        BY <1>1, <1>3, <1>4, <2>1, <2>2
    <2>5. ~(MaxCopies + D + 1 <= MaxCopies + D)
        BY <1>1
    <2>6. Cardinality(A \cup B) \in Nat
        BY <2>1, FS_CardinalityType
    <2>7. QED
        BY <1>1, <1>5, <2>3, <2>4, <2>6
<1>7. Free # {}
    <2>1. PICK t \in Tokens : t \notin A /\ t \notin B
        BY <1>6
    <2>2. \A k \in Copies : copy[k].token # t
        BY <2>1
    <2>3. \A g \in Deliveries : delivery[g].token # t
        BY <2>1
    <2>4. t \in Free
        BY <2>2, <2>3 DEF Sent
    <2>5. QED
        BY <2>4
<1>8. Free \in SUBSET Nat /\ \A t \in Free : t # 0
    BY <1>1 DEF Tokens
<1>9. NewToken = Min(Free)
    BY DEF NewToken
<1> HIDE DEF Free
<1>10. Min(Free) \in Free
    BY <1>7, <1>8, MinIs
<1>11. QED
    BY <1>8, <1>9, <1>10 DEF Free

-----------------------------------------------------------------------------
(* The deliveries. *)

\* A delivery's record.
LEMMA DeliveryIs ==
    ASSUME IInv, NEW h \in Deliveries, delivery[h].at # "idle"
    PROVE  /\ delivery[h] \in Delivery /\ delivery[h] # Idle
           /\ delivery[h].mail \in Mails /\ delivery[h].token \in Nat
<1>1. delivery[h] \in Delivery /\ delivery[h] # Idle
    BY DEF IInv, TypeOK, Idle
<1>2. QED
    BY <1>1 DEF Delivery

\* A step of a delivery that sends nothing: it keeps its token, or ends, and
\* makes no pending claim.
LEMMA DeliveryKeeps ==
    ASSUME IInv, NEW h \in Deliveries, NEW x \in Delivery \cup {Idle},
           delivery' = [delivery EXCEPT ![h] = x],
           UNCHANGED <<copy, ingested, incident, object, owner>>,
           d1' \in BOOLEAN, outages' \in Nat, faults' \in Nat, faults <= faults',
           receipt' \in [Mails -> Receipt],
           \A m \in Mails : receipt'[m].state = "pending" => receipt'[m] = receipt[m],
           returned' \in SUBSET Mails,
           x # Idle => /\ x.token = delivery[h].token /\ delivery[h] # Idle
                       /\ x.at # "reading" => x.token # 0
                       /\ x.at \in {"reading", "checking", "sending"} =>
                              delivery[h].at \in {"reading", "checking", "sending"}
    PROVE  IInv'
<1>1. \A g \in Deliveries : delivery'[g] = IF g = h THEN x ELSE delivery[g]
    BY DEF IInv, TypeOK
<1>2. TypeOK'
    BY DEF IInv, TypeOK
<1>3. Bodies'
    BY BodiesRest
<1>4. Leases'
    BY LeasesKept
<1>5. Sent' = Sent
    BY DEF Sent
<1>6. ASSUME NEW g \in Deliveries, delivery'[g] # Idle
      PROVE  /\ delivery'[g].at # "reading" => delivery'[g].token # 0
             /\ delivery'[g].at \in {"reading", "checking", "sending"} /\ delivery'[g].token # 0 =>
                    \A k \in Sent : copy[k].token # delivery'[g].token
             /\ \A f \in Deliveries : f # g /\ delivery'[f] # Idle /\ delivery'[g].token # 0 =>
                    delivery'[f].token # delivery'[g].token
    <2>1. ASSUME NEW f \in Deliveries, delivery'[f] # Idle
          PROVE  delivery[f] # Idle /\ delivery'[f].token = delivery[f].token
        BY <1>1, <2>1
    <2>2. /\ delivery[g] # Idle /\ delivery'[g].token = delivery[g].token
        BY <1>6, <2>1
    <2>3. /\ delivery[g].at # "reading" => delivery[g].token # 0
          /\ delivery[g].at \in {"reading", "checking", "sending"} /\ delivery[g].token # 0 =>
                 \A k \in Sent : copy[k].token # delivery[g].token
          /\ \A f \in Deliveries : f # g /\ delivery[f] # Idle /\ delivery[g].token # 0 =>
                 delivery[f].token # delivery[g].token
        BY <2>2 DEF IInv, Claims
    <2>4. CASE g = h
        BY <1>1, <1>6, <2>1, <2>2, <2>3, <2>4
    <2>5. CASE g # h
        BY <1>1, <1>6, <2>1, <2>2, <2>3, <2>5
    <2>6. QED
        BY <2>4, <2>5
<1>7. \A m \in Mails : receipt'[m].state = "pending" => receipt'[m].token # 0
    BY DEF IInv, Claims
<1>8. \A k, l \in Sent : copy[k].from = Direct /\ copy[l].from = Direct /\ k # l =>
                             copy[k].token # copy[l].token
    BY DEF IInv, Claims
<1>9. Claims'
    BY <1>5, <1>6, <1>7, <1>8 DEF Claims
<1>10. QED
    BY <1>2, <1>3, <1>4, <1>9 DEF IInv

\* A delivery goes on to another step.
LEMMA StepIs ==
    ASSUME IInv, NEW h \in Deliveries, NEW from, NEW to \in {"checking", "sending", "completing", "failing"},
           Step(h, from, to), from # "idle"
    PROVE  \E x \in Delivery : /\ delivery' = [delivery EXCEPT ![h] = x] /\ delivery[h].at = from
                               /\ x.at = to /\ x.token = delivery[h].token /\ delivery[h] # Idle
                               /\ delivery[h] \in Delivery
                               /\ delivery[h].mail \in Mails /\ delivery[h].token \in Nat
<1> DEFINE x == [delivery[h] EXCEPT !.at = to]
<1>1. delivery[h].at = from /\ delivery' = [delivery EXCEPT ![h].at = to]
    BY DEF Step
<1>2. /\ delivery[h] \in Delivery /\ delivery[h] # Idle
      /\ delivery[h].mail \in Mails /\ delivery[h].token \in Nat
    BY <1>1, DeliveryIs
<1>3. delivery' = [delivery EXCEPT ![h] = x]
    BY <1>1 DEF IInv, TypeOK
<1>4. x \in Delivery /\ x.at = to /\ x.token = delivery[h].token
    BY <1>2 DEF Delivery
<1> HIDE DEF x
<1>5. QED
    BY <1>1, <1>2, <1>3, <1>4

\* What the steps that change no receipt leave alone.
LEMMA TypesAre ==
    ASSUME IInv
    PROVE  /\ receipt \in [Mails -> Receipt] /\ returned \in SUBSET Mails
           /\ d1 \in BOOLEAN /\ outages \in Nat /\ faults \in Nat
           /\ delivery \in [Deliveries -> Delivery \cup {Idle}]
           /\ Idle \in Delivery \cup {Idle} /\ Delivery \subseteq Delivery \cup {Idle}
BY DEF IInv, TypeOK

\* A delivery that goes on keeps its token and changes nothing else.
LEMMA DeliveryMoves ==
    ASSUME IInv, NEW h \in Deliveries, NEW x \in Delivery,
           delivery' = [delivery EXCEPT ![h] = x], x.token = delivery[h].token, delivery[h] # Idle,
           x.token # 0, x.at # "reading",
           x.at \in {"checking", "sending"} => delivery[h].at \in {"reading", "checking", "sending"},
           UNCHANGED <<receipt, copy, ingested, incident, object, owner, d1, outages, returned>>,
           faults' \in Nat, faults <= faults'
    PROVE  IInv'
<1>1. /\ x \in Delivery \cup {Idle} /\ d1' \in BOOLEAN /\ outages' \in Nat
      /\ returned' \in SUBSET Mails /\ receipt' \in [Mails -> Receipt]
    BY TypesAre
<1>2. \A m \in Mails : receipt'[m].state = "pending" => receipt'[m] = receipt[m]
    OBVIOUS
<1>3. /\ x.at # "reading" => x.token # 0
      /\ x.at \in {"reading", "checking", "sending"} =>
             delivery[h].at \in {"reading", "checking", "sending"}
    OBVIOUS
<1>4. QED
    BY <1>1, <1>2, <1>3, DeliveryKeeps

\* A delivery that ends leaves no token behind.
LEMMA DeliveryEnds ==
    ASSUME IInv, NEW h \in Deliveries, delivery' = [delivery EXCEPT ![h] = Idle],
           UNCHANGED <<copy, ingested, incident, object, owner, d1, outages>>,
           faults' \in Nat, faults <= faults',
           receipt' \in [Mails -> Receipt],
           \A m \in Mails : receipt'[m].state = "pending" => receipt'[m] = receipt[m],
           returned' \in SUBSET Mails
    PROVE  IInv'
<1>1. Idle \in Delivery \cup {Idle} /\ d1' \in BOOLEAN /\ outages' \in Nat
    BY TypesAre
<1>2. QED
    BY <1>1, DeliveryKeeps

LEMMA ReadClaimKeeps ==
    ASSUME IInv, NEW h \in Deliveries, ReadClaim(h)
    PROVE  IInv'
<1> DEFINE m == delivery[h].mail
<1>1. /\ delivery[h].at = "reading" /\ UNCHANGED <<recovery, world>>
    BY DEF ReadClaim
<1>2. /\ UNCHANGED <<receipt, copy, ingested, incident, object, owner, d1, outages, faults>>
    BY <1>1 DEF recovery, world
<1>3. m \in Mails /\ delivery[h] # Idle
    BY <1>1, DeliveryIs
<1>4. CASE receipt[m].state = "pending" /\ receipt[m].token = delivery[h].token
    <2>1. Step(h, "reading", "checking") /\ UNCHANGED returned
        BY <1>4 DEF ReadClaim
    <2>2. PICK x \in Delivery : /\ delivery' = [delivery EXCEPT ![h] = x]
                                /\ x.at = "checking" /\ x.token = delivery[h].token
        BY <2>1, StepIs
    <2>3. receipt[m].token # 0
        BY <1>3, <1>4 DEF IInv, Claims
    <2>4. /\ x.token # 0 /\ x.at # "reading" /\ faults' \in Nat /\ faults <= faults'
          /\ delivery[h].at \in {"reading", "checking", "sending"}
        BY <1>1, <1>2, <1>4, <2>2, <2>3, TypesAre
    <2>5. QED
        BY <1>2, <1>3, <2>1, <2>2, <2>4, DeliveryMoves
<1>5. CASE ~(receipt[m].state = "pending" /\ receipt[m].token = delivery[h].token)
    <2>1. delivery' = [delivery EXCEPT ![h] = Idle]
        BY <1>5 DEF ReadClaim, Throw, Return
    <2>2. returned' \in SUBSET Mails
        BY <1>3, <1>5, TypesAre DEF ReadClaim, Throw, Return
    <2>3. /\ faults' \in Nat /\ faults <= faults' /\ receipt' \in [Mails -> Receipt]
          /\ \A n \in Mails : receipt'[n].state = "pending" => receipt'[n] = receipt[n]
        BY <1>2, TypesAre
    <2>4. QED
        BY <1>2, <2>1, <2>2, <2>3, DeliveryEnds
<1>6. QED
    BY <1>4, <1>5

LEMMA CheckQueueKeeps ==
    ASSUME IInv, NEW h \in Deliveries, CheckQueue(h)
    PROVE  IInv'
<1>1. PICK to \in {"sending", "failing"} : Step(h, "checking", to)
    BY DEF CheckQueue
<1>2. UNCHANGED <<receipt, copy, ingested, incident, object, owner, d1, outages, faults, returned>>
    BY DEF CheckQueue, recovery, world
<1>3. PICK x \in Delivery : /\ delivery' = [delivery EXCEPT ![h] = x] /\ delivery[h].at = "checking"
                            /\ x.at = to /\ x.token = delivery[h].token /\ delivery[h] # Idle
    BY <1>1, StepIs
<1>4. delivery[h].token # 0
    BY <1>3 DEF IInv, Claims
<1>5. /\ x.token # 0 /\ x.at # "reading" /\ faults' \in Nat /\ faults <= faults'
      /\ delivery[h].at \in {"reading", "checking", "sending"}
    BY <1>2, <1>3, <1>4, TypesAre
<1>6. QED
    BY <1>2, <1>3, <1>5, DeliveryMoves

LEMMA DeliveryDiesKeeps ==
    ASSUME IInv, NEW h \in Deliveries, DeliveryDies(h)
    PROVE  IInv'
<1>1. /\ UNCHANGED <<receipt, copy, ingested, incident, object, owner, d1, outages, returned>>
      /\ delivery' = [delivery EXCEPT ![h] = Idle]
    BY DEF DeliveryDies, recovery, Throw
<1>2. faults' \in Nat /\ faults <= faults'
    BY TypesAre DEF DeliveryDies, Costs, Fault
<1>3. /\ returned' \in SUBSET Mails /\ receipt' \in [Mails -> Receipt]
      /\ \A n \in Mails : receipt'[n].state = "pending" => receipt'[n] = receipt[n]
    BY <1>1, TypesAre
<1>4. QED
    BY <1>1, <1>2, <1>3, DeliveryEnds

\* A claim that is ended is no longer pending.
LEMMA EndedClaim ==
    ASSUME IInv, NEW m \in Mails, NEW state \in {"queued", "failed"},
           \/ receipt' = receipt
           \/ receipt' = [receipt EXCEPT ![m].state = state]
    PROVE  /\ receipt' \in [Mails -> Receipt]
           /\ \A n \in Mails : receipt'[n].state = "pending" => receipt'[n] = receipt[n]
<1> DEFINE r == [receipt[m] EXCEPT !.state = state]
<1>1. receipt \in [Mails -> Receipt]
    BY TypesAre
<1>2. r \in Receipt /\ r.state = state
    BY <1>1 DEF Receipt
<1>3. receipt' = receipt \/ receipt' = [receipt EXCEPT ![m] = r]
    BY <1>1
<1> HIDE DEF r
<1>4. QED
    BY <1>1, <1>2, <1>3

LEMMA FailClaimKeeps ==
    ASSUME IInv, NEW h \in Deliveries, FailClaim(h)
    PROVE  IInv'
<1> DEFINE m == delivery[h].mail
<1>1. /\ delivery[h].at = "failing" /\ delivery' = [delivery EXCEPT ![h] = Idle]
      /\ UNCHANGED <<copy, ingested, incident, object, owner, d1, outages, faults, returned>>
    BY DEF FailClaim, world, Throw
<1>2. m \in Mails
    BY <1>1, DeliveryIs
<1>3. receipt' = receipt \/ receipt' = [receipt EXCEPT ![m].state = "failed"]
    BY DEF FailClaim
<1>4. /\ receipt' \in [Mails -> Receipt]
      /\ \A n \in Mails : receipt'[n].state = "pending" => receipt'[n] = receipt[n]
    BY <1>2, <1>3, EndedClaim
<1>5. faults' \in Nat /\ faults <= faults' /\ returned' \in SUBSET Mails
    BY <1>1, TypesAre
<1>6. QED
    BY <1>1, <1>4, <1>5, DeliveryEnds

LEMMA CompleteClaimKeeps ==
    ASSUME IInv, NEW h \in Deliveries, CompleteClaim(h)
    PROVE  IInv'
<1> DEFINE m == delivery[h].mail
<1>1. /\ delivery[h].at = "completing"
      /\ UNCHANGED <<copy, ingested, incident, object, owner, d1, outages, faults>>
    BY DEF CompleteClaim, world
<1>2. m \in Mails
    BY <1>1, DeliveryIs
<1>3. receipt' = receipt \/ receipt' = [receipt EXCEPT ![m].state = "queued"]
    BY DEF CompleteClaim
<1>4. /\ receipt' \in [Mails -> Receipt]
      /\ \A n \in Mails : receipt'[n].state = "pending" => receipt'[n] = receipt[n]
    BY <1>2, <1>3, EndedClaim
<1>5. delivery' = [delivery EXCEPT ![h] = Idle]
    BY DEF CompleteClaim, Return, Throw
<1>6. returned' \in SUBSET Mails
    BY <1>2, TypesAre DEF CompleteClaim, Return, Throw
<1>7. faults' \in Nat /\ faults <= faults'
    BY <1>1, TypesAre
<1>8. QED
    BY <1>1, <1>4, <1>5, <1>6, <1>7, DeliveryEnds

\* A delivery claims the mail's receipt, or finds it claimed.
LEMMA DeliverKeeps ==
    ASSUME IInv, NEW h \in Deliveries, NEW m \in Mails, Deliver(h, m)
    PROVE  IInv'
<1> DEFINE wins == receipt[m].state \in {"none", "failed"}
           t == IF wins THEN NewToken ELSE 0
           x == [at |-> "reading", mail |-> m, token |-> t]
           r == [state |-> "pending", token |-> NewToken]
<1>1. /\ delivery[h] = Idle /\ delivery' = [delivery EXCEPT ![h] = x]
      /\ receipt' = IF wins THEN [receipt EXCEPT ![m] = r] ELSE receipt
      /\ UNCHANGED <<copy, ingested, incident, object, owner, d1, outages, faults, returned>>
    BY DEF Deliver, world
<1>2. /\ NewToken \in Nat /\ NewToken # 0
      /\ \A k \in Sent : copy[k].token # NewToken
      /\ \A g \in Deliveries : delivery[g] # Idle => delivery[g].token # NewToken
    BY NewTokenIs
<1>3. /\ t \in Nat
      /\ t # 0 => /\ \A k \in Sent : copy[k].token # t
                  /\ \A g \in Deliveries : delivery[g] # Idle => delivery[g].token # t
    BY <1>2
<1>4. x \in Delivery /\ x.at = "reading" /\ x.token = t
    BY <1>3 DEF Delivery
<1>5. r \in Receipt /\ r.token # 0
    BY <1>2 DEF Receipt
<1> HIDE DEF x, r, t, wins
<1>6. receipt' \in [Mails -> Receipt] /\ \A n \in Mails : receipt'[n] = receipt[n] \/ receipt'[n] = r
    BY <1>1, <1>5, TypesAre
<1>7. \A g \in Deliveries : delivery'[g] = IF g = h THEN x ELSE delivery[g]
    BY <1>1, TypesAre
<1>8. TypeOK'
    <2>1. delivery' \in [Deliveries -> Delivery \cup {Idle}]
        BY <1>1, <1>4, TypesAre
    <2>2. QED
        BY <1>1, <1>6, <2>1 DEF IInv, TypeOK
<1>9. Sent' = Sent
    BY <1>1 DEF Sent
<1>10. Claims'
    <2>1. \A n \in Mails : receipt'[n].state = "pending" => receipt'[n].token # 0
        BY <1>5, <1>6 DEF IInv, Claims
    <2>2. ASSUME NEW g \in Deliveries, delivery'[g] # Idle
          PROVE  /\ delivery'[g].at # "reading" => delivery'[g].token # 0
                 /\ delivery'[g].at \in {"reading", "checking", "sending"} /\ delivery'[g].token # 0 =>
                        \A k \in Sent : copy[k].token # delivery'[g].token
                 /\ \A f \in Deliveries : f # g /\ delivery'[f] # Idle /\ delivery'[g].token # 0 =>
                        delivery'[f].token # delivery'[g].token
        <3>1. CASE g = h
            BY <3>1, <1>3, <1>4, <1>7
        <3>2. CASE g # h
            <4>1. delivery'[g] = delivery[g] /\ delivery[g] # Idle
                BY <2>2, <3>2, <1>7
            <4>2. /\ delivery[g].at # "reading" => delivery[g].token # 0
                  /\ delivery[g].at \in {"reading", "checking", "sending"} /\ delivery[g].token # 0 =>
                         \A k \in Sent : copy[k].token # delivery[g].token
                  /\ \A f \in Deliveries : f # g /\ delivery[f] # Idle /\ delivery[g].token # 0 =>
                         delivery[f].token # delivery[g].token
                BY <4>1 DEF IInv, Claims
            <4>3. delivery[g].token # 0 => delivery[g].token # t
                BY <4>1, <1>3
            <4>4. ASSUME NEW f \in Deliveries, f # g, delivery'[f] # Idle, delivery[g].token # 0
                  PROVE  delivery'[f].token # delivery[g].token
                <5>1. CASE f = h
                    BY <5>1, <4>3, <4>4, <1>4, <1>7
                <5>2. CASE f # h
                    BY <5>2, <4>2, <4>4, <1>7
                <5>3. QED
                    BY <5>1, <5>2
            <4>5. QED
                BY <4>1, <4>2, <4>4
        <3>3. QED
            BY <3>1, <3>2
    <2>3. \A k, l \in Sent : copy[k].from = Direct /\ copy[l].from = Direct /\ k # l =>
                                 copy[k].token # copy[l].token
        BY DEF IInv, Claims
    <2>4. QED
        BY <1>1, <1>9, <2>1, <2>2, <2>3 DEF Claims
<1>11. Bodies'
    BY <1>1, BodiesRest
<1>12. Leases'
    BY <1>1, TypesAre, LeasesKept
<1>13. QED
    BY <1>8, <1>10, <1>11, <1>12 DEF IInv

\* The delivery's copy is the first under its token, and it sends no other.
LEMMA SentUnderClaim ==
    ASSUME IInv, NEW h \in Deliveries, NEW x \in Delivery,
           delivery' = [delivery EXCEPT ![h] = x], delivery[h].at = "sending",
           x.at \in {"completing", "failing"}, x.token = delivery[h].token,
           Accept(delivery[h].mail, delivery[h].token, Direct),
           UNCHANGED <<receipt, ingested, incident, object, owner, d1, outages, returned>>,
           faults' \in Nat, faults <= faults'
    PROVE  IInv'
<1> DEFINE m == delivery[h].mail
           t == delivery[h].token
<1>1. m \in Mails /\ t \in Nat /\ delivery[h] # Idle
    BY DeliveryIs
<1>2. PICK l \in Copies : Accepts(l, m, t, Direct)
    BY <1>1, AcceptIs DEF IInv, Bodies
<1>3. /\ Sent' = Sent \cup {l} /\ l \notin Sent
      /\ \A k \in Sent : copy'[k] = copy[k]
      /\ copy'[l].token = t /\ copy'[l].from = Direct
      /\ copy' \in [Copies -> Copy \cup {NoCopy}]
    BY <1>2 DEF Accepts
<1>4. \A g \in Deliveries : delivery'[g] = IF g = h THEN x ELSE delivery[g]
    BY TypesAre
<1>5. TypeOK'
    BY <1>3 DEF IInv, TypeOK
<1>6. BodyStep
    BY <1>1, <1>2, GrownBody
<1>7. Leases'
    BY LeasesKept
<1>8. /\ t # 0 /\ \A k \in Sent : copy[k].token # t
      /\ \A g \in Deliveries : g # h /\ delivery[g] # Idle => delivery[g].token # t
    BY <1>1 DEF IInv, Claims
<1>9. Claims'
    <2>1. \A n \in Mails : receipt'[n].state = "pending" => receipt'[n].token # 0
        BY DEF IInv, Claims
    <2>2. ASSUME NEW g \in Deliveries, delivery'[g] # Idle
          PROVE  /\ delivery'[g].at # "reading" => delivery'[g].token # 0
                 /\ delivery'[g].at \in {"reading", "checking", "sending"} /\ delivery'[g].token # 0 =>
                        \A k \in Sent' : copy'[k].token # delivery'[g].token
                 /\ \A f \in Deliveries : f # g /\ delivery'[f] # Idle /\ delivery'[g].token # 0 =>
                        delivery'[f].token # delivery'[g].token
        <3>1. CASE g = h
            BY <3>1, <1>4, <1>8
        <3>2. CASE g # h
            <4>1. delivery'[g] = delivery[g] /\ delivery[g] # Idle
                BY <2>2, <3>2, <1>4
            <4>2. /\ delivery[g].at # "reading" => delivery[g].token # 0
                  /\ delivery[g].at \in {"reading", "checking", "sending"} /\ delivery[g].token # 0 =>
                         \A k \in Sent : copy[k].token # delivery[g].token
                  /\ \A f \in Deliveries : f # g /\ delivery[f] # Idle /\ delivery[g].token # 0 =>
                         delivery[f].token # delivery[g].token
                BY <4>1 DEF IInv, Claims
            <4>3. delivery[g].token # t
                BY <4>1, <3>2, <1>8
            <4>4. delivery[g].at \in {"reading", "checking", "sending"} /\ delivery[g].token # 0 =>
                      \A k \in Sent' : copy'[k].token # delivery[g].token
                BY <4>2, <4>3, <1>3
            <4>5. \A f \in Deliveries : f # g /\ delivery'[f] # Idle /\ delivery[g].token # 0 =>
                      delivery'[f].token # delivery[g].token
                BY <4>2, <4>3, <1>1, <1>4
            <4>6. QED
                BY <4>1, <4>2, <4>4, <4>5
        <3>3. QED
            BY <3>1, <3>2
    <2>3. \A k, j \in Sent' : copy'[k].from = Direct /\ copy'[j].from = Direct /\ k # j =>
                                  copy'[k].token # copy'[j].token
        BY <1>3, <1>8 DEF IInv, Claims
    <2>4. QED
        BY <2>1, <2>2, <2>3 DEF Claims
<1>10. QED
    BY <1>5, <1>6, <1>7, <1>9, BodiesKept DEF IInv

LEMMA SendMailKeeps ==
    ASSUME IInv, NEW h \in Deliveries, SendMail(h)
    PROVE  IInv'
<1>1. /\ Step(h, "sending", "completing") /\ Accept(delivery[h].mail, delivery[h].token, Direct)
      /\ UNCHANGED <<receipt, ingested, incident, object, owner, d1, outages, faults, returned>>
    BY DEF SendMail, world
<1>2. PICK x \in Delivery : /\ delivery' = [delivery EXCEPT ![h] = x] /\ delivery[h].at = "sending"
                            /\ x.at = "completing" /\ x.token = delivery[h].token
    BY <1>1, StepIs
<1>3. faults' \in Nat /\ faults <= faults' /\ x.at \in {"completing", "failing"}
    BY <1>1, <1>2, TypesAre
<1>4. QED
    BY <1>1, <1>2, <1>3, SentUnderClaim

LEMMA SendThrowsKeeps ==
    ASSUME IInv, NEW h \in Deliveries, NEW taken \in BOOLEAN, SendThrows(h, taken)
    PROVE  IInv'
<1>1. /\ Step(h, "sending", "failing")
      /\ UNCHANGED <<receipt, ingested, incident, object, owner, d1, outages, returned>>
    BY DEF SendThrows
<1>2. faults' \in Nat /\ faults <= faults'
    BY TypesAre DEF SendThrows, Fault
<1>3. PICK x \in Delivery : /\ delivery' = [delivery EXCEPT ![h] = x] /\ delivery[h].at = "sending"
                            /\ x.at = "failing" /\ x.token = delivery[h].token
                            /\ delivery[h] # Idle
    BY <1>1, StepIs
<1>4. CASE taken
    BY <1>1, <1>2, <1>3, <1>4, SentUnderClaim DEF SendThrows
<1>5. CASE ~taken
    <2>1. copy' = copy
        BY <1>5 DEF SendThrows
    <2>2. delivery[h].token # 0
        BY <1>3 DEF IInv, Claims
    <2>3. x.token # 0 /\ x.at # "reading" /\ x.at \notin {"checking", "sending"}
        BY <1>3, <2>2
    <2>4. QED
        BY <1>1, <1>2, <1>3, <2>1, <2>3, DeliveryMoves
<1>6. QED
    BY <1>4, <1>5

-----------------------------------------------------------------------------
(* The invariant and what it gives. *)

LEMMA InitIs == Init => IInv
<1> SUFFICES ASSUME Init PROVE IInv
    OBVIOUS
<1>1. /\ receipt = [m \in Mails |-> [state |-> "none", token |-> 0]]
      /\ copy = [k \in Copies |-> NoCopy] /\ ingested = {} /\ object = {}
      /\ incident = [i \in Incidents |-> [status |-> "none", body |-> FALSE, claim |-> None]]
      /\ owner = [o \in Owners |-> Idle] /\ d1 = TRUE /\ outages = 0 /\ faults = 0
      /\ delivery = [h \in Deliveries |-> Idle] /\ returned = {}
    BY DEF Init, InitRecovery
<1>2. Sent = {}
    BY <1>1 DEF Sent, NoCopy
<1>3. [status |-> "none", body |-> FALSE, claim |-> None] \in Incident
    BY DEF Incident
<1>4. [state |-> "none", token |-> 0] \in Receipt
    BY DEF Receipt
<1>5. TypeOK
    BY <1>1, <1>3, <1>4 DEF TypeOK
<1>6. Bodies
    BY <1>1, <1>2 DEF Bodies, Numbered
<1>7. Claims
    BY <1>1, <1>2 DEF Claims
<1>8. Leases
    <2>1. ASSUME NEW i \in Incidents PROVE Senders(i) = {}
        BY <1>1, IdleIs DEF Senders, Sending
    <2>2. ASSUME NEW i \in Incidents
          PROVE  /\ incident[i].claim = None
                 /\ Cardinality(Senders(i)) = 0
        BY <1>1, <2>1, FS_EmptySet
    <2>3. QED
        BY <1>1, <2>2, RecoveryAssumption DEF Leases
<1>9. QED
    BY <1>5, <1>6, <1>7, <1>8 DEF IInv

\* An outage begins or ends, or nothing happens.
LEMMA WorldKeeps ==
    ASSUME IInv, UNCHANGED <<recovery, delivery, returned, faults>>, d1' \in BOOLEAN, outages' \in Nat
    PROVE  IInv'
<1>1. UNCHANGED <<receipt, copy, ingested, incident, object, owner>>
    BY DEF recovery
<1>2. TypeOK'
    BY <1>1 DEF IInv, TypeOK
<1>3. Bodies'
    BY <1>1, BodiesRest
<1>4. Sent' = Sent
    BY <1>1 DEF Sent
<1>5. Claims'
    BY <1>1, <1>4, ClaimsKept
<1>6. faults' \in Nat /\ faults <= faults'
    BY DEF IInv, TypeOK
<1>7. Leases'
    BY <1>1, <1>6, LeasesKept
<1>8. QED
    BY <1>2, <1>3, <1>5, <1>7 DEF IInv

LEMMA QueueKeeps ==
    ASSUME IInv, NEW k \in Copies, Consume(k) \/ AttemptFails(k) \/ Exhaust(k) \/ EmergencyToo(k),
           UNCHANGED <<delivery, returned>>
    PROVE  IInv'
<1>1. CASE Ingest(k)
    BY <1>1, IngestIs, ConsumedKeeps
<1>2. CASE AttemptFails(k) \/ ReconcileFails(k)
    BY <1>2, FailedIs, ConsumedKeeps
<1>3. ASSUME NEW lost \in BOOLEAN, Reconcile(k, lost) PROVE IInv'
    BY <1>3, ReconcileIs, ConsumedKeeps
<1>4. ASSUME NEW lost \in BOOLEAN, Persist(k, lost) PROVE IInv'
    BY <1>4, PersistIs, ConsumedKeeps
<1>5. ASSUME NEW lost \in BOOLEAN, Emergency(k, lost) PROVE IInv'
    BY <1>5, EmergencyIs, ConsumedKeeps
<1>6. CASE Exhaust(k)
    BY <1>6, ExhaustIs, ConsumedKeeps
<1>7. CASE EmergencyToo(k)
    BY <1>7, EmergencyTooIs, ConsumedKeeps
<1>8. QED
    BY <1>1, <1>2, <1>3, <1>4, <1>5, <1>6, <1>7 DEF Consume

LEMMA AnswerKeeps ==
    ASSUME IInv, NEW o \in Owners, Answer(o), UNCHANGED <<delivery, returned>>
    PROVE  IInv'
<1>1. CASE Look(o)
    BY <1>1, LookKeeps
<1>2. CASE Materialize(o)
    BY <1>2, MaterializeKeeps
<1>3. CASE Reload(o)
    BY <1>3, ReloadKeeps
<1>4. CASE Dismiss(o)
    BY <1>4, DismissKeeps
<1>5. CASE Lease(o)
    BY <1>5, LeaseKeeps
<1>6. CASE LeaseRefused(o)
    BY <1>6, LeaseRefusedKeeps
<1>7. CASE Resend(o)
    BY <1>7, ResendKeeps
<1>8. CASE ResendRefused(o)
    BY <1>8, ResendRefusedKeeps
<1>9. CASE Complete(o)
    BY <1>9, CompleteKeeps
<1>10. CASE DeleteObject(o)
    BY <1>10, DeleteObjectKeeps
<1>11. QED
    BY <1>1, <1>2, <1>3, <1>4, <1>5, <1>6, <1>7, <1>8, <1>9, <1>10 DEF Answer

LEMMA RecoveryKeeps ==
    ASSUME IInv, NextRecovery, UNCHANGED <<delivery, returned>>
    PROVE  IInv'
<1>1. ASSUME NEW k \in Copies, Consume(k) \/ AttemptFails(k) \/ Exhaust(k) \/ EmergencyToo(k)
      PROVE  IInv'
    BY <1>1, QueueKeeps
<1>2. ASSUME NEW o \in Owners, Request(o) PROVE IInv'
    BY <1>2, StartKeeps DEF Request
<1>3. ASSUME NEW o \in Owners, Answer(o) PROVE IInv'
    BY <1>3, AnswerKeeps
<1>4. ASSUME NEW o \in Owners, OwnerDies(o) PROVE IInv'
    BY <1>4, OwnerDiesKeeps
<1>5. ASSUME NEW o \in Owners, NEW taken \in BOOLEAN, ResendThrows(o, taken) PROVE IInv'
    BY <1>5, ResendThrowsKeeps
<1>6. CASE Outage
    <2>1. d1' \in BOOLEAN /\ outages' \in Nat /\ UNCHANGED <<recovery, faults>>
        <3>1. d1' = FALSE /\ outages' = outages + 1 /\ outages \in Nat
            BY <1>6, TypesAre DEF Outage
        <3>2. d1' \in BOOLEAN
            BY <3>1
        <3>3. outages' \in Nat
            BY <3>1
        <3>4. QED
            BY <1>6, <3>2, <3>3 DEF Outage
    <2>2. QED
        BY <2>1, WorldKeeps
<1>7. CASE OutageEnds
    <2>1. d1' \in BOOLEAN /\ outages' \in Nat /\ UNCHANGED <<recovery, faults>>
        BY <1>7, TypesAre DEF OutageEnds
    <2>2. QED
        BY <2>1, WorldKeeps
<1>8. QED
    BY <1>1, <1>2, <1>3, <1>4, <1>5, <1>6, <1>7 DEF NextRecovery

LEMMA NextKeeps == IInv /\ [Next]_vars => IInv'
<1> SUFFICES ASSUME IInv, [Next]_vars PROVE IInv'
    OBVIOUS
<1>1. CASE NextRecovery /\ UNCHANGED <<delivery, returned>>
    BY <1>1, RecoveryKeeps
<1>2. ASSUME NEW h \in Deliveries, NEW m \in Mails, Deliver(h, m) PROVE IInv'
    BY <1>2, DeliverKeeps
<1>3. ASSUME NEW h \in Deliveries, Handle(h) PROVE IInv'
    BY <1>3, ReadClaimKeeps, CheckQueueKeeps, SendMailKeeps, FailClaimKeeps, CompleteClaimKeeps
       DEF Handle
<1>4. ASSUME NEW h \in Deliveries, DeliveryDies(h) PROVE IInv'
    BY <1>4, DeliveryDiesKeeps
<1>5. ASSUME NEW h \in Deliveries, NEW taken \in BOOLEAN, SendThrows(h, taken) PROVE IInv'
    BY <1>5, SendThrowsKeeps
<1>6. CASE UNCHANGED vars
    <2>1. UNCHANGED <<recovery, delivery, returned, faults, d1, outages>>
        BY <1>6 DEF vars, world
    <2>2. d1' \in BOOLEAN /\ outages' \in Nat
        BY <2>1, TypesAre
    <2>3. QED
        BY <2>1, <2>2, WorldKeeps
<1>7. QED
    BY <1>1, <1>2, <1>3, <1>4, <1>5, <1>6 DEF Next

LEMMA Invariant == Spec => []IInv
BY InitIs, NextKeeps, PTL DEF Spec

\* Of the copies of a mail that has been sent there is a last one.
LEMMA LastCopy ==
    ASSUME TypeOK, NEW m \in Mails, CopiesOf(m) # {}
    PROVE  \E k \in CopiesOf(m) : \A l \in CopiesOf(m) : l <= k
<1> DEFINE Left == {n \in Nat : \E k \in CopiesOf(m) : n = MaxCopies - k}
<1>1. ASSUME NEW k \in CopiesOf(m) PROVE k \in Nat /\ k <= MaxCopies /\ MaxCopies - k \in Left
    BY RecoveryAssumption DEF CopiesOf, Sent, Copies
<1>2. Left \in SUBSET Nat /\ Left # {}
    BY <1>1
<1>3. PICK n \in Left : \A j \in Left : n <= j
    BY <1>2, LeastElement
<1>4. PICK k \in CopiesOf(m) : n = MaxCopies - k
    BY <1>3
<1>5. ASSUME NEW l \in CopiesOf(m) PROVE l <= k
    <2>1. MaxCopies - l \in Left /\ l \in Nat /\ k \in Nat
        BY <1>1
    <2>2. MaxCopies - k <= MaxCopies - l
        BY <1>3, <1>4, <2>1
    <2>3. QED
        BY <2>1, <2>2, RecoveryAssumption
<1>6. QED
    BY <1>5

LEMMA BodiesGive == IInv => NothingLost
<1> SUFFICES ASSUME IInv, NEW m \in Mails, CopiesOf(m) # {}
             PROVE  m \in ingested \/ Dismissed(m) \/ Held(m)
    BY DEF NothingLost
<1>1. PICK k \in CopiesOf(m) : \A l \in CopiesOf(m) : l <= k
    BY LastCopy DEF IInv
<1>2. k \in Sent /\ copy[k].mail = m /\ k \in Nat
    BY <1>1 DEF CopiesOf, Sent, Copies
<1>3. ~SentAgain(k)
    <2>1. SUFFICES ASSUME NEW l \in Sent, l > k, copy[l].mail = m PROVE FALSE
        BY <1>2 DEF SentAgain
    <2>2. l \in CopiesOf(m) /\ l \in Nat
        BY <2>1 DEF CopiesOf, Sent, Copies
    <2>3. QED
        BY <1>1, <1>2, <2>1, <2>2
<1>4. Answered(k)
    BY <1>2 DEF IInv, Bodies
<1>5. QED
    BY <1>1, <1>2, <1>3, <1>4 DEF Answered, Held

LEMMA ClaimsGive == IInv => OneSender
<1> SUFFICES ASSUME IInv PROVE OneSender
    OBVIOUS
<1>1. \A k, l \in Sent : copy[k].from = Direct /\ copy[l].from = Direct /\ k # l
                             => copy[k].mail # copy[l].mail \/ copy[k].token # copy[l].token
    BY DEF IInv, Claims
<1>2. ASSUME NEW i \in Incidents PROVE Cardinality(Senders(i)) <= 1 + faults
    <2>1. Cardinality(Senders(i)) <= (IF incident[i].claim \in Owners THEN 1 ELSE 0) + faults
          /\ faults \in Nat
        BY LeaseFacts
    <2>2. Cardinality(Senders(i)) \in Nat
        BY RecoveryAssumption, FS_Subset, FS_CardinalityType DEF Senders
    <2>3. QED
        BY <2>1, <2>2
<1>3. QED
    BY <1>1, <1>2 DEF OneSender, Senders

\* Receipts, copies, incident rows, objects, owner requests and deliveries keep
\* their shape through every handler of the e-mail path.
THEOREM TypeCorrect == Spec => []TypeOK
<1>1. IInv => TypeOK
    BY DEF IInv
<1>2. QED
    BY <1>1, Invariant, PTL

\* src/ingest-consumer.ts acknowledges a message only when its item, an incident
\* with its body or an emergency object stands for it, and the owner's retry
\* clears a body only after it has been sent again: whatever interleaving of
\* consumers, owner requests, outages and crashes, an accepted mail is an item,
\* or dismissed, or its body is still held.
THEOREM Nothing_Lost == Spec => []NothingLost
BY Invariant, BodiesGive, PTL

\* One claim of a receipt (src/db.ts, claimInboxReceiptDelivery) sends at most
\* one copy, and one incident has at most one sender beyond those whose lease
\* has run out under them, each of which has cost a fault.
THEOREM One_Sender == Spec => []OneSender
BY Invariant, ClaimsGive, PTL
=============================================================================
