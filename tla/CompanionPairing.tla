--------------------------- MODULE CompanionPairing ---------------------------
(* Pairing a Companion with its Worker (driftglass-relay.mjs) where the       *)
(* credential goes to a private file: a journal says which credential belongs *)
(* to the pairing under way, the credential is written beside its final name, *)
(* its inode is recorded, it is linked, the configuration commits, and the    *)
(* journal goes.  `pair', `doctor' and `unpair' begin with the recovery of a  *)
(* pairing that was interrupted.                                              *)
(*                                                                            *)
(* A pairing names its transaction, the Collector account the Worker gave it, *)
(* its credential's files and inode, and its configuration: the Worker mints  *)
(* a new account for each.  A step is one call on a name that others use; the *)
(* flush of a directory goes with the next step of its process, which leaves  *)
(* a power failure the same names to choose from.  The lock that serializes   *)
(* the lifecycle commands (withServiceOperationLock) is the guard Serialized. *)
EXTENDS Naturals

CONSTANTS Pairings,   \* runs of `pair'
          Unpairers,  \* runs of `unpair'
          Doctors,    \* terminals in which `doctor' is run, again and again
          None,
          MaxKills,   \* bound: commands killed
          MaxOutages, \* bound: power failures
          MaxErrors   \* bound: calls that fail

Commands  == Pairings \cup Unpairers
Parties == Commands \cup Doctors

VARIABLES journal,  \* pairing-journal.json: None, or its transaction and
                    \* whether the credential's inode is recorded in it
          drafts,   \* pairings whose temporary journal file exists
          tokens,   \* pairings whose credential has its final name
          temps,    \* pairings whose temporary credential file exists
          config,   \* relay.json: None or the pairing it is of
          disk,     \* the names as they were flushed last
          proc,     \* where each process is, and what it has read
          retired,  \* ghost: pairings whose credential `unpair' removed
          kills, outages, errors

files  == <<journal, drafts, tokens, temps, config, disk>>
bounds == <<kills, outages, errors>>
vars   == <<files, proc, retired, bounds>>

Journal == [tx : Pairings, cred : BOOLEAN]

\* `why' says who runs recoverPairingJournal, clearPairingJournal or
\* recoverPrivateTokenTemps; `read' is the journal it found, `state' what
\* readUnpairConfig found, `seen' the temporary files it listed.
Fresh == [at |-> "new", why |-> "none", read |-> None, committed |-> FALSE,
          state |-> None, seen |-> {}]

At(p, at)  == proc[p].at = at
Goto(p, s) == proc' = [proc EXCEPT ![p].at = s]
End(p)     == proc' = [proc EXCEPT ![p] = [Fresh EXCEPT !.at = "gone"]]
Living(p)  == proc[p].at \notin {"new", "gone", "killed"}
Linked(t)  == t \in tokens /\ t \in temps

\* syncDirectory of the state directory, the token directory, the directory of
\* the configuration.
FlushState  == disk' = [disk EXCEPT !.journal = journal]
FlushTokens == disk' = [disk EXCEPT !.tokens = tokens, !.temps = temps]
FlushConfig == disk' = [disk EXCEPT !.config = config]

Init ==
    /\ journal = None /\ config = None
    /\ drafts = {} /\ tokens = {} /\ temps = {}
    /\ disk = [journal |-> None, tokens |-> {}, temps |-> {}, config |-> None]
    /\ proc = [p \in Parties |-> Fresh]
    /\ retired = {}
    /\ kills = 0 /\ outages = 0 /\ errors = 0

-----------------------------------------------------------------------------
(* Errors *)

\* savePrivateToken removes a credential it has linked while the temporary
\* file is still there, and its temporary files in any case; pairLocked then
\* recovers its own pairing.  Any other error ends the command.
Throw(p) ==
    IF p \in Pairings /\ proc[p].why = "save"
    THEN /\ tokens' = IF Linked(p) THEN tokens \ {p} ELSE tokens
         /\ temps' = temps \ {p} /\ drafts' = drafts \ {p}
         /\ proc' = [proc EXCEPT ![p] = [Fresh EXCEPT !.at = "read", !.why = "catch"]]
    ELSE End(p) /\ UNCHANGED <<tokens, temps, drafts>>

Saving == {"announcing", "renaming", "preparing", "recording", "linking", "tidying",
           "configuring", "clearing"}

\* A call of saveToken, writeConfig or clearPairingJournal fails.
Error(p) ==
    /\ p \in Pairings /\ proc[p].at \in Saving /\ proc[p].why = "save"
    /\ errors < MaxErrors
    /\ errors' = errors + 1
    /\ Throw(p)
    /\ UNCHANGED <<journal, config, disk, retired, kills, outages>>

-----------------------------------------------------------------------------
(* recoverPairingJournal, clearPairingJournal, recoverPrivateTokenTemps *)

\* What follows the recovery: `pair' refuses to replace a configuration, and
\* its own failure is forgiven if the configuration was committed.
Recovered(p) ==
    IF proc[p].why \in {"catch", "save"} \/ (proc[p].why = "pair" /\ config # None)
    THEN End(p)
    ELSE proc' = [proc EXCEPT ![p].at = "cleaning", ![p].read = None]

\* Mutant of ReadJournal: the journal of a pairing under way is taken for an
\* interrupted one.
ReadJournalOfAny(p) ==
    /\ At(p, "read")
    /\ drafts' = {d \in drafts : Living(d)}
    /\ IF journal = None THEN Recovered(p)
       ELSE proc' = [proc EXCEPT ![p].at = "matching", ![p].read = journal]
    /\ UNCHANGED <<journal, tokens, temps, config, disk, retired, bounds>>

\* Mutant of ReadJournal: the draft of a dead writer is left where it is, and
\* refused.
ReadJournalBesideDrafts(p) ==
    /\ At(p, "read")
    /\ IF drafts # {} \/ (journal # None /\ journal.tx # p /\ Living(journal.tx)) THEN End(p)
       ELSE IF journal = None THEN Recovered(p)
       ELSE proc' = [proc EXCEPT ![p].at = "matching", ![p].read = journal]
    /\ UNCHANGED <<files, retired, bounds>>

\* readPairingJournal; a journal or a draft whose writer lives is in progress.
ReadJournal(p) ==
    /\ At(p, "read")
    /\ IF \E d \in drafts : Living(d) THEN End(p) /\ UNCHANGED drafts
       ELSE /\ drafts' = {}
            /\ IF journal = None THEN Recovered(p)
               ELSE IF journal.tx # p /\ Living(journal.tx) THEN End(p)
               ELSE proc' = [proc EXCEPT ![p].at = "matching", ![p].read = journal]
    /\ UNCHANGED <<journal, tokens, temps, config, disk, retired, bounds>>

\* A configuration of this pairing commits it, another one is left alone.
Match(p) ==
    /\ At(p, "matching")
    /\ IF config = None THEN Goto(p, "listing")
       ELSE IF config = proc[p].read.tx
       THEN proc' = [proc EXCEPT ![p].at = "clearing", ![p].committed = TRUE]
       ELSE End(p)
    /\ UNCHANGED <<files, retired, bounds>>

\* recoverJournalPrivateCredential: a linked temporary file must be the one
\* the journal recorded.
List(p) ==
    /\ At(p, "listing")
    /\ LET j == proc[p].read
       IN IF \E t \in temps : Living(t) \/ (Linked(t) /\ ~(t = j.tx /\ j.cred))
          THEN End(p)
          ELSE proc' = [proc EXCEPT ![p].at = "sweeping", ![p].seen = temps]
    /\ UNCHANGED <<files, retired, bounds>>

Sweep(p) ==
    /\ At(p, "sweeping")
    /\ temps' = temps \ proc[p].seen
    /\ Goto(p, "dropping")
    /\ UNCHANGED <<journal, drafts, tokens, config, disk, retired, bounds>>

\* The credential goes if it is the inode the journal recorded.
Drop(p) ==
    /\ At(p, "dropping")
    /\ FlushTokens
    /\ tokens' = IF proc[p].read.cred THEN tokens \ {proc[p].read.tx} ELSE tokens
    /\ Goto(p, "clearing")
    /\ UNCHANGED <<journal, drafts, temps, config, retired, bounds>>

\* clearPairingJournal reads the journal again and compares; a configuration
\* just written has been flushed.
Clear(p) ==
    /\ At(p, "clearing")
    /\ IF proc[p].why = "save" THEN FlushConfig ELSE FlushTokens
    /\ IF \E d \in drafts : Living(d) THEN Throw(p)
       ELSE IF journal = None THEN Recovered(p) /\ UNCHANGED <<tokens, temps, drafts>>
       ELSE IF journal.tx # proc[p].read.tx THEN Throw(p)
       ELSE Goto(p, "unjournaling") /\ UNCHANGED <<tokens, temps, drafts>>
    /\ UNCHANGED <<journal, config, retired, bounds>>

\* unlink of the name, whatever journal it leads to by now.
Unjournal(p) ==
    /\ At(p, "unjournaling")
    /\ journal' = None
    /\ IF journal = None THEN Throw(p)
       ELSE Goto(p, "unjournaled") /\ UNCHANGED <<tokens, temps, drafts>>
    /\ UNCHANGED <<config, disk, retired, bounds>>

SyncUnjournaled(p) ==
    /\ At(p, "unjournaled")
    /\ FlushState
    /\ Recovered(p)
    /\ UNCHANGED <<journal, drafts, tokens, temps, config, retired, bounds>>

\* recoverPrivateTokenTemps: not with a writer that lives, nor for a linked
\* file, which needs its journal.
Blocked == \E t \in temps : Living(t) \/ Linked(t)

Clean(p) ==
    /\ At(p, "cleaning")
    /\ IF Blocked THEN End(p) /\ UNCHANGED temps
       ELSE /\ temps' = {}
            /\ CASE p \in Pairings  -> proc' = [proc EXCEPT ![p].at = "requesting", ![p].why = "save"]
                 [] p \in Unpairers /\ proc[p].state # None -> Goto(p, "deleting")
                 [] OTHER -> End(p)
    /\ UNCHANGED <<journal, drafts, tokens, config, disk, retired, bounds>>

Recover(p) == \/ ReadJournal(p) \/ Match(p) \/ List(p) \/ Sweep(p) \/ Drop(p) \/ Clear(p)
              \/ Unjournal(p) \/ SyncUnjournaled(p) \/ Clean(p)

-----------------------------------------------------------------------------
(* pair *)

\* withServiceOperationLock: one lifecycle command at a time.
Serialized == \A c \in Commands : ~Living(c)

Pair(p) ==
    /\ p \in Pairings /\ At(p, "new")
    /\ Serialized
    /\ proc' = [proc EXCEPT ![p].at = "read", ![p].why = "pair"]
    /\ UNCHANGED <<files, retired, bounds>>

\* The Worker pairs a new account, or refuses the code.
Request(p) ==
    /\ At(p, "requesting")
    /\ \/ Goto(p, "announcing")
       \/ End(p)
    /\ UNCHANGED <<files, retired, bounds>>

\* writePairingJournal, first without and then with the credential's inode.
Draft(p) ==
    /\ proc[p].at \in {"announcing", "recording"}
    /\ IF \/ \E d \in drafts : Living(d)
          \/ journal # None /\ journal.tx # p
       THEN Throw(p)
       ELSE /\ drafts' = {p}
            /\ Goto(p, IF At(p, "announcing") THEN "renaming" ELSE "renamingAgain")
            /\ UNCHANGED <<tokens, temps>>
    /\ UNCHANGED <<journal, config, disk, retired, bounds>>

Rename(p) ==
    /\ proc[p].at \in {"renaming", "renamingAgain"}
    /\ LET again == At(p, "renamingAgain")
       IN /\ journal' = [tx |-> p, cred |-> again]
          /\ proc' = [proc EXCEPT ![p].at = IF again THEN "linking" ELSE "preparing",
                                  ![p].read = [tx |-> p, cred |-> again]]
    /\ drafts' = drafts \ {p}
    /\ UNCHANGED <<tokens, temps, config, disk, retired, bounds>>

\* savePrivateToken: the credential is written and flushed beside its name.
Prepare(p) ==
    /\ At(p, "preparing")
    /\ FlushState
    /\ IF Blocked THEN Throw(p)
       ELSE temps' = {p} /\ Goto(p, "recording") /\ UNCHANGED <<tokens, drafts>>
    /\ UNCHANGED <<journal, config, retired, bounds>>

\* Mutant of Link: the journal is still on its way to the disk.
LinkEarly(p) ==
    /\ At(p, "linking")
    /\ tokens' = tokens \cup {p}
    /\ Goto(p, "tidying")
    /\ UNCHANGED <<journal, drafts, temps, config, disk, retired, bounds>>

Link(p) ==
    /\ At(p, "linking")
    /\ FlushState
    /\ tokens' = tokens \cup {p}
    /\ Goto(p, "tidying")
    /\ UNCHANGED <<journal, drafts, temps, config, retired, bounds>>

Tidy(p) ==
    /\ At(p, "tidying")
    /\ FlushTokens
    /\ temps' = temps \ {p}
    /\ Goto(p, "configuring")
    /\ UNCHANGED <<journal, drafts, tokens, config, retired, bounds>>

\* writeConfig commits the pairing.
Configure(p) ==
    /\ At(p, "configuring")
    /\ FlushTokens
    /\ config' = p
    /\ Goto(p, "clearing")
    /\ UNCHANGED <<journal, drafts, tokens, temps, retired, bounds>>

Save(p) == \/ Request(p) \/ Draft(p) \/ Rename(p) \/ Prepare(p) \/ Link(p) \/ Tidy(p)
           \/ Configure(p)

-----------------------------------------------------------------------------
(* doctor, unpair *)

Doctor(p) ==
    /\ p \in Doctors /\ ~Living(p)
    /\ proc' = [proc EXCEPT ![p] = [Fresh EXCEPT !.at = "read", !.why = "doctor"]]
    /\ UNCHANGED <<files, retired, bounds>>

\* readUnpairConfig comes before the recovery.
Unpair(p) ==
    /\ p \in Unpairers /\ At(p, "new")
    /\ Serialized
    /\ proc' = [proc EXCEPT ![p] = [Fresh EXCEPT !.at = "read", !.why = "unpair", !.state = config]]
    /\ UNCHANGED <<files, retired, bounds>>

\* deletePrivateToken, if the configuration is still the one that was read.
Delete(p) ==
    /\ At(p, "deleting")
    /\ IF config # proc[p].state \/ Blocked THEN End(p) /\ UNCHANGED <<tokens, temps, retired>>
       ELSE /\ temps' = {}
            /\ tokens' = tokens \ {config}
            /\ retired' = retired \cup {config}
            /\ Goto(p, "forgetting")
    /\ UNCHANGED <<journal, drafts, config, disk, bounds>>

\* rm of the configuration, which nothing flushes.
Forget(p) ==
    /\ At(p, "forgetting")
    /\ FlushTokens
    /\ config' = None
    /\ End(p)
    /\ UNCHANGED <<journal, drafts, tokens, temps, retired, bounds>>

-----------------------------------------------------------------------------
Kill(p) ==
    /\ Living(p)
    /\ kills < MaxKills
    /\ kills' = kills + 1
    /\ proc' = [proc EXCEPT ![p] = [Fresh EXCEPT !.at = "killed"]]
    /\ UNCHANGED <<files, retired, outages, errors>>

\* Some of the names in memory and some of those that were flushed are left.
Survivors(memory, flushed) == {s \in SUBSET (memory \cup flushed) : memory \cap flushed \subseteq s}

PowerFailure ==
    /\ outages < MaxOutages
    /\ outages' = outages + 1
    /\ proc' = [p \in Parties |-> IF Living(p) THEN [Fresh EXCEPT !.at = "killed"] ELSE proc[p]]
    /\ journal' \in {journal, disk.journal}
    /\ config' \in {config, disk.config}
    /\ tokens' \in Survivors(tokens, disk.tokens)
    /\ temps' \in Survivors(temps, disk.temps)
    /\ disk' = [journal |-> journal', config |-> config', tokens |-> tokens', temps |-> temps']
    /\ UNCHANGED <<drafts, retired, kills, errors>>

Step(p) == Recover(p) \/ Save(p) \/ Delete(p) \/ Forget(p)

Next ==
    \/ \E p \in Parties :
          Step(p) \/ Pair(p) \/ Unpair(p) \/ Doctor(p) \/ Error(p) \/ Kill(p)
    \/ PowerFailure

Spec == Init /\ [][Next]_vars

\* A command executes its next call.
Fairness == \A p \in Parties : WF_vars(Step(p))

-----------------------------------------------------------------------------
(* Properties *)

\* A committed pairing keeps its credential: whatever was killed, failed or
\* lost its power on the way, and whatever recovery ran, the configuration has
\* its credential until `unpair' takes it (`without deleting a committed pairing').
PairedHasCredential ==
    config # None => config \in tokens \/ config \in retired

\* No credential is left that nothing knows of: the configuration or the
\* journal leads to it, or the `pair' that writes it is running.
NoStrayCredential ==
    \A t \in tokens \cup temps :
        \/ config = t
        \/ journal # None /\ journal.tx = t /\ (t \in tokens => journal.cred)
        \/ Living(t)

\* A pairing that was interrupted is committed or undone in the end; it stays
\* only beside the configuration of another pairing, which is preserved.
InterruptedResolved ==
    \A t \in Pairings :
        journal # None /\ journal.tx = t
            ~> \/ journal = None \/ journal.tx # t
               \/ config \notin {None, t}
=============================================================================
