----------------------------- MODULE RelayOutbox -----------------------------
(* The one-slot outbox in which the Companion (driftglass-relay.mjs) keeps a *)
(* successful result until the Worker acknowledges it: a temporary file that *)
(* is flushed, hard-linked into the fixed slot result-outbox.json and        *)
(* unlinked, the recovery every command runs first, and the clean-up after   *)
(* an acknowledgement.                                                       *)
(*                                                                           *)
(* One step is one file-system call another process or a power failure can   *)
(* tell from the next; a kill may fall between any two.  The files of one    *)
(* removeResultOutboxTemps go in one step.  A result is written at most once *)
(* and names its temporary file, its record and its inode.  Links, sizes,    *)
(* permissions and the record's digests are abstracted into whether the      *)
(* record is whole.                                                          *)
EXTENDS Naturals, FiniteSets

CONSTANTS Pollers,    \* incarnations of `run' and `once'
          Doctors,    \* incarnations of `doctor'
          Unpairers,  \* incarnations of `unpair'
          Results,    \* successful results of collector jobs
          None,
          MaxKills,   \* bound: processes killed
          MaxOutages, \* bound: power failures
          MaxErrors,  \* bound: writes of a record that fail
          ServiceStopped  \* environment: `unpair' is run while nothing polls

Parties == Pollers \cup Doctors \cup Unpairers

VARIABLES slot,     \* result-outbox.json: None or the result it leads to
          temps,    \* results whose temporary file has its name
          disk,     \* the names a power failure would leave: slot and temps
          body,     \* the inode of each result
          writer,   \* the process that collected each result, or None
          proc,     \* where each process is, and what it has read
          paired,   \* the configuration and the credential exist
          offered,  \* ghost: results that were submitted at least once
          acked,    \* results the Worker has accepted
          kills, outages, errors

names  == <<slot, temps, disk>>
files  == <<names, body>>
server == <<offered, acked>>
bounds == <<kills, outages, errors>>
vars   == <<files, writer, proc, paired, server, bounds>>

\* `why' says who called readResultOutbox, `own' is the result in hand.
Fresh == [at |-> "new", why |-> "inspect", own |-> None, found |-> FALSE, got |-> None,
          seen |-> {}, live |-> {}]

At(p, at)       == proc[p].at = at
Goto(p, at)     == proc' = [proc EXCEPT ![p].at = at]
Living(p)       == proc[p].at \notin {"new", "gone", "killed"}
Whole(r)        == body[r] \in {"whole", "synced"}
Interrupted(at) == [Fresh EXCEPT !.at = at]

Init ==
    /\ slot = None /\ temps = {} /\ disk = [slot |-> None, temps |-> {}]
    /\ body = [r \in Results |-> "none"]
    /\ writer = [r \in Results |-> None]
    /\ proc = [p \in Parties |-> Fresh]
    /\ paired \in BOOLEAN
    /\ offered = {} /\ acked = {}
    /\ kills = 0 /\ outages = 0 /\ errors = 0

\* An error ends a command; runLoop backs off and polls again.
Throw(p) == proc' = [proc EXCEPT ![p] = Interrupted(IF p \in Pollers THEN "idle" ELSE "gone")]

Call(p, why) == proc' = [proc EXCEPT ![p] = [Interrupted("stat") EXCEPT !.why = why]]

\* syncResultStateDirectory: the names on disk are those in memory.
Flush == disk' = [slot |-> slot, temps |-> temps] /\ UNCHANGED <<slot, temps>>

-----------------------------------------------------------------------------
(* What the callers of readResultOutbox do with its answer *)

Cleared(p) ==
    proc' = [proc EXCEPT ![p] = Interrupted(IF p \in Pollers THEN "idle" ELSE "stopping")]

\* replayPendingResult, persistResultOutbox, clearAcknowledgedResultOutbox,
\* unpairLocked and inspectResultOutbox.
Return(p, r) ==
    LET c == proc[p]
    IN CASE c.why \in {"replay", "unpair"} /\ r # None ->
              proc' = [proc EXCEPT ![p] = [Interrupted("submit") EXCEPT !.own = r]]
         [] c.why = "replay" /\ r = None -> proc' = [proc EXCEPT ![p] = Interrupted("poll")]
         [] c.why = "unpair" /\ r = None -> proc' = [proc EXCEPT ![p] = Interrupted("stopping")]
         [] c.why = "persist" /\ r = None ->
              proc' = [proc EXCEPT ![p] = [Interrupted("create") EXCEPT !.own = c.own]]
         [] c.why = "clear" /\ r = None  -> Cleared(p)
         [] c.why = "clear" /\ r = c.own -> Goto(p, "unlink")
         [] OTHER -> Throw(p)

-----------------------------------------------------------------------------
(* recoverResultOutbox *)

\* resultOutboxFileInfo.
Stat(p) ==
    /\ At(p, "stat")
    /\ proc' = [proc EXCEPT ![p].at = "list", ![p].found = slot # None]
    /\ UNCHANGED <<files, writer, paired, server, bounds>>

Active(t) == {r \in t : Living(writer[r])}

\* Mutant of ListAnswer: without a slot, temporary files are not looked at.
ListSlotOnly(p) ==
    IF proc[p].found
    THEN proc' = [proc EXCEPT ![p].at = "read", ![p].seen = temps, ![p].live = Active(temps)]
    ELSE Return(p, None)

\* Without a slot, a file whose writer lives is still being written.
ListAnswer(p) ==
    IF proc[p].found
    THEN proc' = [proc EXCEPT ![p].at = "read", ![p].seen = temps, ![p].live = Active(temps)]
    ELSE IF temps = {} THEN Return(p, None)
    ELSE IF Active(temps) # {} THEN Throw(p)
    ELSE proc' = [proc EXCEPT ![p].at = "sort", ![p].seen = temps]

\* resultOutboxTempFiles, with processIsRunning.
List(p) ==
    /\ At(p, "list")
    /\ ListAnswer(p)
    /\ UNCHANGED <<files, writer, paired, server, bounds>>

\* The slot's record is read; it may have gone or changed since the lstat.
Read(p) ==
    /\ At(p, "read")
    /\ IF slot = None \/ ~Whole(slot) THEN Throw(p)
       ELSE IF proc[p].seen = {} THEN Return(p, slot)
       ELSE proc' = [proc EXCEPT ![p].at = "compare", ![p].got = slot]
    /\ UNCHANGED <<files, writer, paired, server, bounds>>

\* A living writer's file must be whole and hold the same result.
Compare(p) ==
    /\ At(p, "compare")
    /\ IF \A r \in proc[p].live : r \in temps /\ Whole(r) /\ r = proc[p].got
       THEN Goto(p, "sweep")
       ELSE Throw(p)
    /\ UNCHANGED <<files, writer, paired, server, bounds>>

\* removeResultOutboxTemps.
Sweep(p) ==
    /\ At(p, "sweep")
    /\ temps' = temps \ proc[p].seen
    /\ Goto(p, "syncSwept")
    /\ UNCHANGED <<slot, disk, body, writer, paired, server, bounds>>

SyncSwept(p) ==
    /\ At(p, "syncSwept")
    /\ Flush
    /\ IF proc[p].found THEN Return(p, proc[p].got) ELSE Goto(p, "reread")
    /\ UNCHANGED <<body, writer, paired, server, bounds>>

\* Only dead writers' files: those that are not whole are removed.
Sort(p) ==
    /\ At(p, "sort")
    /\ LET valid == {r \in proc[p].seen \cap temps : Whole(r)}
       IN /\ temps' = temps \ (proc[p].seen \ valid)
          /\ proc' = [proc EXCEPT ![p].seen = valid,
                                  ![p].at = IF valid = proc[p].seen THEN "choose" ELSE "syncSorted"]
    /\ UNCHANGED <<slot, disk, body, writer, paired, server, bounds>>

SyncSorted(p) ==
    /\ At(p, "syncSorted")
    /\ Flush
    /\ Goto(p, "choose")
    /\ UNCHANGED <<body, writer, paired, server, bounds>>

\* Conflicting records are left to the owner; link does not replace a slot.
Link(p) ==
    /\ At(p, "choose")
    /\ IF proc[p].seen = {} THEN Return(p, None) /\ UNCHANGED slot
       ELSE IF Cardinality(proc[p].seen) > 1 \/ (slot = None /\ proc[p].seen \cap temps = {})
       THEN Throw(p) /\ UNCHANGED slot
       ELSE IF slot # None THEN Goto(p, "sweep") /\ UNCHANGED slot
       ELSE slot' \in proc[p].seen /\ Goto(p, "syncLink")
    /\ UNCHANGED <<temps, disk, body, writer, paired, server, bounds>>

SyncLink(p) ==
    /\ At(p, "syncLink")
    /\ Flush
    /\ Goto(p, "sweep")
    /\ UNCHANGED <<body, writer, paired, server, bounds>>

Reread(p) ==
    /\ At(p, "reread")
    /\ IF slot = None \/ ~Whole(slot) THEN Throw(p) ELSE Return(p, slot)
    /\ UNCHANGED <<files, writer, paired, server, bounds>>

Recover(p) == \/ Stat(p) \/ List(p) \/ Read(p) \/ Compare(p) \/ Sweep(p) \/ SyncSwept(p)
              \/ Sort(p) \/ SyncSorted(p) \/ Link(p) \/ SyncLink(p) \/ Reread(p)

-----------------------------------------------------------------------------
(* pollOnce: replay, poll, collect, persist *)

Begin(p) ==
    /\ p \in Pollers /\ At(p, "idle")
    /\ Call(p, "replay")
    /\ UNCHANGED <<files, writer, paired, server, bounds>>

\* There is no job, or executeJob throws and the failure is reported.
PollNothing(p) ==
    /\ At(p, "poll")
    /\ Goto(p, "idle")
    /\ UNCHANGED <<files, writer, paired, server, bounds>>

Poll(p) ==
    /\ At(p, "poll")
    /\ \E r \in Results :
          /\ writer[r] = None
          /\ writer' = [writer EXCEPT ![r] = p]
          /\ proc' = [proc EXCEPT ![p] = [Interrupted("stat") EXCEPT !.why = "persist", !.own = r]]
    /\ UNCHANGED <<files, paired, server, bounds>>

Create(p) ==
    /\ At(p, "create")
    /\ temps' = temps \cup {proc[p].own}
    /\ body' = [body EXCEPT ![proc[p].own] = "torn"]
    /\ Goto(p, "write")
    /\ UNCHANGED <<slot, disk, writer, paired, server, bounds>>

Write(p) ==
    /\ At(p, "write")
    /\ body' = [body EXCEPT ![proc[p].own] = "whole"]
    /\ Goto(p, "fsync")
    /\ UNCHANGED <<names, writer, paired, server, bounds>>

\* The write or its flush fails: the temporary file stays behind.
WriteError(p) ==
    /\ At(p, "write")
    /\ errors < MaxErrors
    /\ errors' = errors + 1
    /\ Throw(p)
    /\ UNCHANGED <<files, writer, paired, server, kills, outages>>

Fsync(p) ==
    /\ At(p, "fsync")
    /\ body' = [body EXCEPT ![proc[p].own] = "synced"]
    /\ Goto(p, "publish")
    /\ UNCHANGED <<names, writer, paired, server, bounds>>

\* link into the fixed slot; EEXIST means that another result is pending.
Publish(p) ==
    /\ At(p, "publish")
    /\ IF slot = None /\ proc[p].own \in temps
       THEN slot' = proc[p].own /\ Goto(p, "syncPublished")
       ELSE Goto(p, "discard") /\ UNCHANGED slot
    /\ UNCHANGED <<temps, disk, body, writer, paired, server, bounds>>

SyncPublished(p) ==
    /\ At(p, "syncPublished")
    /\ Flush
    /\ Goto(p, "tidy")
    /\ UNCHANGED <<body, writer, paired, server, bounds>>

\* The finally block; a file another process has removed is not flushed for.
Tidy(p) ==
    /\ At(p, "tidy")
    /\ temps' = temps \ {proc[p].own}
    /\ Goto(p, IF proc[p].own \in temps THEN "syncTidied" ELSE "submit")
    /\ UNCHANGED <<slot, disk, body, writer, paired, server, bounds>>

SyncTidied(p) ==
    /\ At(p, "syncTidied")
    /\ Flush
    /\ Goto(p, "submit")
    /\ UNCHANGED <<body, writer, paired, server, bounds>>

\* The finally block after a refused link.
Discard(p) ==
    /\ At(p, "discard")
    /\ temps' = temps \ {proc[p].own}
    /\ Goto(p, "syncDiscarded")
    /\ UNCHANGED <<slot, disk, body, writer, paired, server, bounds>>

SyncDiscarded(p) ==
    /\ At(p, "syncDiscarded")
    /\ Flush
    /\ Throw(p)
    /\ UNCHANGED <<body, writer, paired, server, bounds>>

Persist(p) == \/ Create(p) \/ Write(p) \/ Fsync(p) \/ Publish(p) \/ SyncPublished(p)
              \/ Tidy(p) \/ SyncTidied(p) \/ Discard(p) \/ SyncDiscarded(p)

-----------------------------------------------------------------------------
(* submitPendingResult, clearAcknowledgedResultOutbox *)

Offer(p) == At(p, "submit") /\ offered' = offered \cup {proc[p].own}

Acknowledge(p) ==
    /\ Offer(p)
    /\ acked' = acked \cup {proc[p].own}
    /\ proc' = [proc EXCEPT ![p].at = "stat", ![p].why = "clear"]
    /\ UNCHANGED <<files, writer, paired, bounds>>

\* Mutant of Unacknowledged: any answer is taken for an acknowledgement.
UnacknowledgedClears(p) ==
    /\ Offer(p)
    /\ acked' \in {acked, acked \cup {proc[p].own}}
    /\ proc' = [proc EXCEPT ![p].at = "stat", ![p].why = "clear"]
    /\ UNCHANGED <<files, writer, paired, bounds>>

\* Refused, or accepted by an answer that is lost.
Unacknowledged(p) ==
    /\ Offer(p)
    /\ acked' \in {acked, acked \cup {proc[p].own}}
    /\ Throw(p)
    /\ UNCHANGED <<files, writer, paired, bounds>>

\* Mutant of Unlink: the acknowledged record stays in the slot.
UnlinkSkipped(p) ==
    /\ At(p, "unlink")
    /\ Cleared(p)
    /\ UNCHANGED <<files, writer, paired, server, bounds>>

\* unlink of the fixed path, whatever it leads to by now.
Unlink(p) ==
    /\ At(p, "unlink")
    /\ slot' = None
    /\ IF slot = None THEN Throw(p) ELSE Goto(p, "syncCleared")
    /\ UNCHANGED <<temps, disk, body, writer, paired, server, bounds>>

SyncCleared(p) ==
    /\ At(p, "syncCleared")
    /\ Flush
    /\ Cleared(p)
    /\ UNCHANGED <<body, writer, paired, server, bounds>>

-----------------------------------------------------------------------------
(* Commands, kills and power failures *)

Run(p) ==
    /\ p \in Pollers /\ At(p, "new") /\ paired
    /\ ServiceStopped => \A u \in Unpairers : ~Living(u)
    /\ Goto(p, "idle")
    /\ UNCHANGED <<files, writer, paired, server, bounds>>

Doctor(p) ==
    /\ p \in Doctors /\ At(p, "new")
    /\ Call(p, "inspect")
    /\ UNCHANGED <<files, writer, paired, server, bounds>>

\* Mutant of Unpair: the pairing is removed without a look at the outbox.
UnpairUnasked(p) ==
    /\ p \in Unpairers /\ At(p, "new") /\ paired
    /\ ServiceStopped => \A q \in Pollers : ~Living(q)
    /\ Goto(p, "stopping")
    /\ UNCHANGED <<files, writer, paired, server, bounds>>

Unpair(p) ==
    /\ p \in Unpairers /\ At(p, "new") /\ paired
    /\ ServiceStopped => \A q \in Pollers : ~Living(q)
    /\ Call(p, "unpair")
    /\ UNCHANGED <<files, writer, paired, server, bounds>>

\* uninstallService ends the service.
StopService(p) ==
    /\ At(p, "stopping")
    /\ proc' = [q \in Parties |->
                  IF q = p THEN Interrupted("forgetting")
                  ELSE IF q \in Pollers /\ Living(q) THEN Interrupted("killed")
                  ELSE proc[q]]
    /\ UNCHANGED <<files, writer, paired, server, bounds>>

\* The token and the configuration are deleted.
Forget(p) ==
    /\ At(p, "forgetting")
    /\ paired' = FALSE
    /\ Goto(p, "gone")
    /\ UNCHANGED <<files, writer, server, bounds>>

Kill(p) ==
    /\ Living(p)
    /\ kills < MaxKills
    /\ kills' = kills + 1
    /\ proc' = [proc EXCEPT ![p] = Interrupted("killed")]
    /\ UNCHANGED <<files, writer, paired, server, outages, errors>>

\* Every name is as it was flushed or as it was last; a record that was not
\* flushed may be torn.
PowerFailure ==
    /\ outages < MaxOutages
    /\ outages' = outages + 1
    /\ proc' = [p \in Parties |-> IF Living(p) THEN Interrupted("killed") ELSE proc[p]]
    /\ slot' \in {slot, disk.slot}
    /\ \E t \in SUBSET (temps \cup disk.temps) :
          temps \cap disk.temps \subseteq t /\ temps' = t
    /\ disk' = [slot |-> slot', temps |-> temps']
    /\ \E survive \in SUBSET {r \in Results : body[r] = "whole"} :
          body' = [r \in Results |-> IF body[r] # "whole" THEN body[r]
                                     ELSE IF r \in survive THEN "synced" ELSE "torn"]
    /\ UNCHANGED <<writer, paired, server, kills, errors>>

\* The calls of one process, its submissions apart.
Step(p) == \/ Recover(p) \/ Begin(p) \/ PollNothing(p) \/ Poll(p) \/ Persist(p)
           \/ Unlink(p) \/ SyncCleared(p) \/ StopService(p) \/ Forget(p)

Next ==
    \/ \E p \in Parties :
          \/ Step(p) \/ WriteError(p) \/ Acknowledge(p) \/ Unacknowledged(p)
          \/ Run(p) \/ Doctor(p) \/ Unpair(p) \/ Kill(p)
    \/ PowerFailure

Spec == Init /\ [][Next]_vars

\* A process executes its next call, the service manager starts the Companion
\* again, and a Worker that is asked again and again accepts in the end.
Restart == (\A p \in Pollers : ~Living(p)) /\ \E p \in Pollers : Run(p)

Fairness ==
    /\ \A p \in Parties : WF_vars(Step(p) \/ Unacknowledged(p))
    /\ WF_vars(Restart)
    /\ SF_vars(\E p \in Parties : Acknowledge(p))

-----------------------------------------------------------------------------
(* Properties *)

Submitting == {proc[p].own : p \in {q \in Parties : At(q, "submit")}}

\* `Keeps one exact successful result in a private crash-safe outbox until the
\* Worker acknowledges it': from before its first submission on, the result is
\* in the slot and whole, whatever is killed, fails or inspects the outbox.
KeptUntilAcked ==
    \A r \in (offered \cup Submitting) \ acked : slot = r /\ Whole(r)

\* `The same bytes replay after a restart and before any new job poll': a lone
\* Companion polls only when no whole result of an earlier one can be recovered.
ReplayedFirst ==
    \A p \in Pollers :
        At(p, "poll") /\ (\A q \in Pollers \ {p} : ~Living(q)) =>
            slot = None /\ \A r \in temps : Whole(r) => Living(writer[r])

\* `unpair first obtains acknowledgement for a pending result and aborts
\* without removing the credential if that is not possible'.
CredentialOutlivesResult ==
    ~paired => slot \in acked \cup {None}

\* A result whose slot is on the disk is acknowledged in the end, and neither
\* the slot nor a temporary file of it is left behind.
EventuallyAcked ==
    \A r \in Results : disk.slot = r ~> r \in acked /\ slot # r /\ r \notin temps
=============================================================================
