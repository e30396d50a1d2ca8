------------------------------ MODULE LocalFiles ------------------------------
(* The protocols on plain files: the lock file of the self-hosted runtime    *)
(* (ProcessLock), the one-slot result outbox of the Companion (RelayOutbox)  *)
(* and its pairing (CompanionPairing).  They share no file; each keeps its   *)
(* own variables, and the properties are what the Companion's two promise.   *)
EXTENDS ProcessLock

\* Doctors and Unpairers serve both protocols of the Companion.
CONSTANTS Pollers, Doctors, Unpairers, Results, Pairings,
          OutboxKills, OutboxOutages, OutboxErrors

VARIABLES slot, temps, disk, body, writer, proc, paired, offered, acked,
          outboxKills, outages, errors,
          journal, drafts, tokens, tokenTemps, config, pairingDisk, command, retired,
          pairingKills, pairingOutages, pairingErrors,
          scenario  \* what the owner and the machine do to the files

outboxVars == <<slot, temps, disk, body, writer, proc, paired, offered, acked,
                outboxKills, outages, errors>>
pairingVars == <<journal, drafts, tokens, tokenTemps, config, pairingDisk, command, retired,
                 pairingKills, pairingOutages, pairingErrors>>

Outbox == INSTANCE RelayOutbox WITH
    MaxKills <- OutboxKills, MaxOutages <- OutboxOutages, MaxErrors <- OutboxErrors,
    kills <- outboxKills, ServiceStopped <- TRUE

Pairing == INSTANCE CompanionPairing WITH
    MaxKills <- OutboxKills, MaxOutages <- OutboxOutages, MaxErrors <- OutboxErrors,
    temps <- tokenTemps, disk <- pairingDisk, proc <- command,
    kills <- pairingKills, outages <- pairingOutages, errors <- pairingErrors

\* Processes and results are told apart.
FilesConstants ==
    /\ None \notin Results
    /\ Doctors \cap (Pollers \cup Unpairers) = {}
    /\ OutboxKills \in Nat /\ OutboxOutages \in Nat /\ OutboxErrors \in Nat

PairingConstants ==
    /\ None \notin Pairings \cup Pairing!Journal
    /\ Pairings \cap Unpairers = {} /\ Pairings \cap Doctors = {} /\ Unpairers \cap Doctors = {}
    /\ OutboxKills \in Nat /\ OutboxOutages \in Nat /\ OutboxErrors \in Nat

ASSUME LocalFilesAssumption == FilesConstants /\ PairingConstants

\* One process of the Companion at a time.
OneAtATime ==
    \A p \in Outbox!Parties : Outbox!Living(p)' => \A q \in Outbox!Parties \ {p} : ~Outbox!Living(q)'
OneCommand ==
    \A p \in Pairing!Parties : Pairing!Living(p)' => \A q \in Pairing!Parties \ {p} : ~Pairing!Living(q)'

-----------------------------------------------------------------------------
(* Properties of the outbox                                                  *)

\* A result that was or may be submitted stays in the slot until the Worker
\* has acknowledged it, and the credential it needs stays with it
\* (persistResultOutbox, recoverResultOutbox, unpairLocked).
Submittable == Outbox!KeptUntilAcked /\ Outbox!CredentialOutlivesResult

\* A Companion that starts replays before it polls (pollOnce); `doctor' beside
\* it may move the result between its two looks at the directory.
ReplayedFirst == scenario # "inspected" => Outbox!ReplayedFirst

(* Properties of the pairing                                                 *)

\* A committed pairing keeps its credential until `unpair' takes it, and no
\* credential is left that neither the configuration nor the journal leads to,
\* whatever was interrupted and whichever command recovered it
\* (savePrivateToken, pairLocked, recoverPairingJournal).
CredentialMatchesPairing == Pairing!PairedHasCredential /\ Pairing!NoStrayCredential
=============================================================================
