----------------------------- MODULE MCLocalFiles -----------------------------
(* The protocols on plain files, one scenario of one of them at a time: the  *)
(* lock file of the self-hosted runtime (ProcessLock), the one-slot result   *)
(* outbox of the Companion (RelayOutbox) and its pairing (CompanionPairing). *)
(* The files, the processes and the faults of the protocols that are not     *)
(* looked at stay as they are.                                               *)
EXTENDS LocalFiles

CONSTANTS p1, p2, p3, s1, s2, s3, d1, u1, r1, r2, t1, t2

allVars == <<vars, outboxVars, pairingVars, scenario>>

ThreeProcesses == {p1, p2, p3}

OfTheLock    == {"orderly", "supervised"}
OfTheOutbox  == {"service", "inspected", "outage", "offline", "unpair"}
OfThePairing == {"interrupted", "powerless", "beside"}

\* "orderly": three processes contend, writes fail and nobody is killed.
\* "supervised": one process at a time, killed and started again; a PID is only
\* found alive when it is the owner's.
LockAllowed ==
    CASE scenario = "orderly"    -> kills' = 0
      [] scenario = "supervised" ->
            /\ Cardinality(Contenders') <= 1
            /\ writeErrors' = 0
            /\ \A p \in Processes :
                  phase[p] = "checking" /\ phase'[p] = "refused" => Living(observed[p])

AtOnce(ps) == Cardinality({p \in ps : Outbox!Living(p)'}) <= 1
NotRun(ps) == \A p \in ps : Outbox!At(p, "new")'

\* Incarnations and results are interchangeable: they are used in order.
InOrder ==
    /\ Outbox!At(s1, "new")' => Outbox!At(s2, "new")'
    /\ Outbox!At(s2, "new")' => Outbox!At(s3, "new")'
    /\ writer'[r1] = None => writer'[r2] = None

\* "service": one command at a time, killed, with writes that fail.
\* "inspected": `doctor' runs beside the service, and either may be killed.
\* "outage": one command at a time, and the machine loses power.
\* "offline": two Companions and `doctor' at once, and no answer of the Worker.
\* "unpair": `unpair' beside nothing, killed, perhaps run again by the owner.
OutboxAllowed ==
    CASE scenario = "service"   -> OneAtATime /\ outages' = 0 /\ NotRun({u1})
      [] scenario = "inspected" -> /\ AtOnce({s1, s2, s3}) /\ NotRun({u1})
                                   /\ outboxKills' <= 1 /\ outages' = 0 /\ errors' = 0
      [] scenario = "outage"    -> /\ OneAtATime /\ NotRun({u1})
                                   /\ outboxKills' = 0 /\ errors' = 0
      [] scenario = "offline"   -> /\ acked' = {} /\ NotRun({s3, u1})
                                   /\ outboxKills' = 0 /\ outages' = 0
      [] scenario = "unpair"    -> /\ OneAtATime /\ NotRun({d1})
                                   /\ outages' = 0 /\ errors' = 0

\* "interrupted": one command at a time, killed, with calls that fail.
\* "powerless": one command at a time, and the machine loses power.
\* "beside": `doctor' runs beside the others, and one command is interrupted.
PairingAllowed ==
    /\ Pairing!At(t1, "new")' => Pairing!At(t2, "new")'
    /\ CASE scenario = "interrupted" -> OneCommand /\ pairingOutages' = 0
         [] scenario = "powerless"   -> OneCommand /\ pairingKills' = 0 /\ pairingErrors' = 0
         [] scenario = "beside"      -> pairingOutages' = 0 /\ pairingKills' + pairingErrors' <= 1

MCInit ==
    /\ Init /\ Outbox!Init /\ Pairing!Init
    /\ scenario \in OfTheLock \cup OfTheOutbox \cup OfThePairing
    /\ paired = (scenario \in OfTheOutbox)

MCNext ==
    /\ UNCHANGED scenario
    /\ \/ /\ scenario \in OfTheLock
          /\ Next /\ LockAllowed
          /\ UNCHANGED <<outboxVars, pairingVars>>
       \/ /\ scenario \in OfTheOutbox
          /\ Outbox!Next /\ OutboxAllowed /\ InOrder
          /\ UNCHANGED <<vars, pairingVars>>
       \/ /\ scenario \in OfThePairing
          /\ Pairing!Next /\ PairingAllowed
          /\ UNCHANGED <<vars, outboxVars>>

\* The owner of an interrupted pairing asks the doctor in the end.
DoctorAsked == scenario \in OfThePairing /\ Pairing!Doctor(d1)

MCSpec ==
    /\ MCInit /\ [][MCNext]_allVars
    /\ Fairness
    /\ Outbox!Fairness
    /\ Pairing!Fairness /\ WF_pairingVars(DoctorAsked)

-----------------------------------------------------------------------------
(* Properties of the lock: OneOwner is checked as it stands.                 *)

\* What a dead process has left behind does not stay in the way: a lone
\* claimant that finds its lock gets it (acquireLocalRuntimeLease), and its
\* pairing is committed or undone in the end, beside the configuration of
\* another one excepted (recoverPairingJournal, doctor).
Recovered ==
    /\ scenario = "supervised" => StaleRecordRecovered
    /\ Pairing!InterruptedResolved

\* A published result is acknowledged and cleaned up in the end, by a Worker
\* that is not unreachable for ever (submitPendingResult, runLoop).
EventuallyAcked == scenario # "offline" => Outbox!EventuallyAcked
=============================================================================
