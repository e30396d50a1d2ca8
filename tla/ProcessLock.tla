----------------------------- MODULE ProcessLock -----------------------------
(* The lock file selfhost.lock (src/runtime/node/process-lock.ts) by which   *)
(* serve, backup, init and restore keep each other off one data directory.   *)
(*                                                                           *)
(* Every file-system call that another process can notice is one step, and a *)
(* process may be killed between any two.  A process creates the file at     *)
(* most once, so the file is identified by the process that created it: that *)
(* stands for the inode, the token and the body clearStaleLock compares.     *)
EXTENDS Naturals, FiniteSets

CONSTANTS Processes,       \* process incarnations; a PID is never theirs twice
          None,
          MaxContenders,   \* environment: processes acquiring at the same time
          MaxKills,        \* bound: processes killed
          MaxWriteErrors,  \* bound: writes of the record that fail
          PidsRecycled     \* may the PID of a dead process be a stranger's?

ASSUME LockAssumption ==
    /\ IsFiniteSet(Processes)
    /\ None \notin Processes \cup [creator : Processes, written : BOOLEAN]
    /\ MaxContenders \in Nat /\ MaxKills \in Nat /\ MaxWriteErrors \in Nat
    /\ PidsRecycled \in BOOLEAN

VARIABLES file,        \* the file at lockPath: None, or its creator and state
          phase,       \* what each process is about to do
          attempt,     \* the loop variable of acquireLocalRuntimeLease
          observed,    \* the record parseRecord returned
          kills, writeErrors

vars == <<file, phase, attempt, observed, kills, writeErrors>>

Acquiring == {"opening", "reading", "checking", "clearing", "unlinking",
              "writing", "securing"}
Leasing   == {"holding", "releasing"}
Phases    == {"new", "refused", "done", "gone", "killed"} \cup Acquiring \cup Leasing

Living(p)  == phase[p] \notin {"new", "gone", "killed"}
Contenders == {p \in Processes : phase[p] \in Acquiring}

\* The file parseRecord accepts: openSync alone leaves it empty.
Written(p) == [creator |-> p, written |-> TRUE]
Empty(p)   == [creator |-> p, written |-> FALSE]
Readable   == file # None /\ file.written

Goto(p, next) == phase' = [phase EXCEPT ![p] = next]

Init ==
    /\ file = None
    /\ phase = [p \in Processes |-> "new"]
    /\ attempt = [p \in Processes |-> 0]
    /\ observed = [p \in Processes |-> None]
    /\ kills = 0
    /\ writeErrors = 0

-----------------------------------------------------------------------------
(* acquireLocalRuntimeLease *)

Start(p) ==
    /\ phase[p] = "new"
    /\ Cardinality(Contenders) < MaxContenders
    /\ Goto(p, "opening")
    /\ UNCHANGED <<file, attempt, observed, kills, writeErrors>>

\* openSync with O_CREAT and O_EXCL; the second EEXIST is thrown.
Open(p) ==
    /\ phase[p] = "opening"
    /\ IF file = None
       THEN file' = Empty(p) /\ Goto(p, "writing")
       ELSE UNCHANGED file /\ Goto(p, IF attempt[p] = 0 THEN "reading" ELSE "refused")
    /\ UNCHANGED <<attempt, observed, kills, writeErrors>>

\* parseRecord refuses a file that is missing or empty.
Read(p) ==
    /\ phase[p] = "reading"
    /\ IF Readable
       THEN observed' = [observed EXCEPT ![p] = file.creator] /\ Goto(p, "checking")
       ELSE UNCHANGED observed /\ Goto(p, "refused")
    /\ UNCHANGED <<file, attempt, kills, writeErrors>>

\* processAlive: signal 0 to the recorded PID.
CheckOwner(p) ==
    /\ phase[p] = "checking"
    /\ \/ ~Living(observed[p]) /\ Goto(p, "clearing")
       \/ (Living(observed[p]) \/ PidsRecycled) /\ Goto(p, "refused")
    /\ UNCHANGED <<file, attempt, observed, kills, writeErrors>>

\* Mutant of ClearCheck: the record is not compared with the one observed.
ClearUnchecked(p) ==
    /\ phase[p] = "clearing"
    /\ Goto(p, "unlinking")
    /\ UNCHANGED <<file, attempt, observed, kills, writeErrors>>

\* clearStaleLock, the second parseRecord and the comparison.
ClearCheck(p) ==
    /\ phase[p] = "clearing"
    /\ Goto(p, IF file = Written(observed[p]) THEN "unlinking" ELSE "refused")
    /\ UNCHANGED <<file, attempt, observed, kills, writeErrors>>

\* Mutant of ClearUnlink: the loop forgets to remove the stale file.
ClearUnlinkSkipped(p) ==
    /\ phase[p] = "unlinking"
    /\ attempt' = [attempt EXCEPT ![p] = 1]
    /\ Goto(p, "opening")
    /\ UNCHANGED <<file, observed, kills, writeErrors>>

\* clearStaleLock, unlinkSync: it removes whatever file has the name by now.
ClearUnlink(p) ==
    /\ phase[p] = "unlinking"
    /\ file' = None
    /\ IF file = None
       THEN Goto(p, "refused") /\ UNCHANGED attempt
       ELSE Goto(p, "opening") /\ attempt' = [attempt EXCEPT ![p] = 1]
    /\ UNCHANGED <<observed, kills, writeErrors>>

\* writeFileSync through the descriptor: seen only while the name is still
\* that of the file this process created.
Write(p) ==
    /\ phase[p] = "writing"
    /\ file' = IF file = Empty(p) THEN Written(p) ELSE file
    /\ Goto(p, "securing")
    /\ UNCHANGED <<attempt, observed, kills, writeErrors>>

\* The write fails: the name is unlinked, whatever file it leads to.
WriteError(p) ==
    /\ phase[p] = "writing"
    /\ writeErrors < MaxWriteErrors
    /\ writeErrors' = writeErrors + 1
    /\ file' = None
    /\ Goto(p, "refused")
    /\ UNCHANGED <<attempt, observed, kills>>

\* ensurePrivateFile throws when the name is gone.
Secure(p) ==
    /\ phase[p] = "securing"
    /\ Goto(p, IF file = None THEN "refused" ELSE "holding")
    /\ UNCHANGED <<file, attempt, observed, kills, writeErrors>>

-----------------------------------------------------------------------------
(* release, exit, kill *)

ReleaseCheck(p) ==
    /\ phase[p] = "holding"
    /\ Goto(p, IF file = Written(p) THEN "releasing" ELSE "done")
    /\ UNCHANGED <<file, attempt, observed, kills, writeErrors>>

ReleaseUnlink(p) ==
    /\ phase[p] = "releasing"
    /\ file' = None
    /\ Goto(p, "done")
    /\ UNCHANGED <<attempt, observed, kills, writeErrors>>

Exit(p) ==
    /\ phase[p] \in {"refused", "done"}
    /\ Goto(p, "gone")
    /\ UNCHANGED <<file, attempt, observed, kills, writeErrors>>

Kill(p) ==
    /\ Living(p)
    /\ kills < MaxKills
    /\ kills' = kills + 1
    /\ Goto(p, "killed")
    /\ UNCHANGED <<file, attempt, observed, writeErrors>>

Acquire(p) == \/ Open(p)       \/ Read(p)        \/ CheckOwner(p)
              \/ ClearCheck(p) \/ ClearUnlink(p) \/ Write(p)      \/ Secure(p)

\* Every process may have ended: there is nothing left to do then.
Finished == (\A p \in Processes : phase[p] \in {"gone", "killed"}) /\ UNCHANGED vars

Next ==
    \/ \E p \in Processes :
          \/ Start(p) \/ Acquire(p) \/ WriteError(p)
          \/ ReleaseCheck(p) \/ ReleaseUnlink(p) \/ Exit(p) \/ Kill(p)
    \/ Finished

Spec == Init /\ [][Next]_vars

\* A process that is not killed executes its own next call.
Fairness == \A p \in Processes : WF_vars(Acquire(p))

-----------------------------------------------------------------------------
(* Properties *)

TypeOK ==
    /\ file \in {None} \cup [creator : Processes, written : BOOLEAN]
    /\ phase \in [Processes -> Phases]
    /\ attempt \in [Processes -> 0..1]
    /\ observed \in [Processes -> Processes \cup {None}]
    /\ kills \in 0..MaxKills
    /\ writeErrors \in 0..MaxWriteErrors

\* `Serialize the single-process local writer and maintenance operations': two
\* processes never have the data directory at the same time.
OneOwner ==
    \A p, q \in Processes : phase[p] \in Leasing /\ phase[q] \in Leasing => p = q

\* A lone claimant that finds no file, or the complete record of a dead
\* process, ends up with the lock unless it is killed too.
StaleRecordRecovered ==
    \A p \in Processes :
        phase[p] = "opening" /\ attempt[p] = 0
          /\ (file = None \/ (file.written /\ ~Living(file.creator)))
        ~> phase[p] \in {"holding", "killed"}
=============================================================================
