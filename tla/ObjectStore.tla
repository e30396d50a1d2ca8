----------------------------- MODULE ObjectStore -----------------------------
(* The object store of the self-hosted runtime (object-store.ts): blobs named *)
(* by their content, a metadata file for each key, and a lock directory that  *)
(* serializes put, delete and garbage collection.  A lock that looks stale    *)
(* and whose recorded process is gone is renamed away under a recovery mutex. *)
(*                                                                            *)
(* A step is one file-system call.  The process may be killed at any step and *)
(* is started again under another PID; its event loop may stall, so that also *)
(* the lock of a living owner may look stale to an operation that waits.      *)
EXTENDS FiniteSets, Naturals

CONSTANTS Ops,       \* operations; a name serves again when nothing mentions it
          Keys,
          Contents,
          None,
          MaxKills,  \* bound: how often the process is killed
          MaxErrors  \* bound: calls that fail

VARIABLES blobs,  \* contents that have a blob
          meta,   \* the content each key names, or None
          lock,   \* store.lock: None or its owner.json; by = None without one
          mutex,  \* store.recovery.lock, in the same form
          op,     \* where each operation is, and what it has read
          kills, errors

files == <<blobs, meta>>
vars  == <<files, lock, mutex, op, kills, errors>>

Owned(o)  == [by |-> o, alive |-> TRUE]
Unowned   == [by |-> None, alive |-> TRUE]

Idle == [at |-> "idle", kind |-> "none", key |-> None, content |-> None, read |-> None, seen |-> None]

At(o, at)   == op[o].at = at
Goto(o, at) == op' = [op EXCEPT ![o].at = at]
End(o)      == op' = [op EXCEPT ![o] = Idle]

Fault == errors < MaxErrors /\ errors' = errors + 1

Init ==
    /\ blobs = {} /\ meta = [k \in Keys |-> None]
    /\ lock = None /\ mutex = None
    /\ op = [o \in Ops |-> Idle]
    /\ kills = 0 /\ errors = 0

-----------------------------------------------------------------------------
(* withStoreLock *)

\* Nothing is left that carries the operation's token.
Free(o) ==
    /\ op[o] = Idle
    /\ lock # None => lock.by # o
    /\ mutex # None => mutex.by # o
    /\ \A p \in Ops : op[p].seen # o

\* A put has staged its body by now.
Begin(o) ==
    /\ Free(o)
    /\ Goto(o, "lock")
    /\ UNCHANGED <<files, lock, mutex, kills, errors>>

\* What the operation is for: nobody asks before it has the lock.  "create" is
\* a put with the condition that the key does not exist.
Purposes ==
    [at : {"enter"}, kind : {"put", "create"}, key : Keys, content : Contents, read : {None}, seen : {None}]
    \cup [at : {"enter"}, kind : {"delete"}, key : Keys, content : {None}, read : {None}, seen : {None}]
    \cup [at : {"enter"}, kind : {"collect"}, key : {None}, content : {None}, read : {None}, seen : {None}]

MakeLock(o) ==
    /\ At(o, "lock") /\ lock = None
    /\ lock' = Unowned /\ Goto(o, "publish")
    /\ UNCHANGED <<files, mutex, kills, errors>>

\* The owner file is written, or its failure takes the directory away again.
Publish(o) ==
    /\ At(o, "publish")
    /\ \/ lock' = Owned(o) /\ UNCHANGED errors
          /\ \E purpose \in Purposes : op' = [op EXCEPT ![o] = purpose]
       \/ Fault /\ lock' = None /\ End(o)
    /\ UNCHANGED <<files, mutex, kills>>

\* lockTimeoutMs has passed.
TimeOut(o) ==
    /\ At(o, "lock") /\ lock # None
    /\ End(o)
    /\ UNCHANGED <<files, lock, mutex, kills, errors>>

\* The token and PID are compared before the owner file goes; a call that fails
\* leaves the lock to the living process.
Release(o) ==
    /\ At(o, "release")
    /\ \/ /\ IF lock # None /\ lock.by = o
             THEN lock' = Unowned /\ Goto(o, "unlock")
             ELSE End(o) /\ UNCHANGED lock
          /\ UNCHANGED errors
       \/ Fault /\ End(o) /\ UNCHANGED lock
    /\ UNCHANGED <<files, mutex, kills>>

Unlock(o) ==
    /\ At(o, "unlock")
    /\ lock' = None /\ End(o)
    /\ UNCHANGED <<files, mutex, kills, errors>>

-----------------------------------------------------------------------------
(* tryRecoverStoreLock *)

\* Mutant of TakeMutex: a recovery does not wait for another.
TakeMutexAlways(o) ==
    /\ At(o, "lock") /\ lock # None
    /\ mutex' = Unowned /\ Goto(o, "sign")
    /\ UNCHANGED <<files, lock, kills, errors>>

\* The lock looks stale; another's mutex is never stolen.
TakeMutex(o) ==
    /\ At(o, "lock") /\ lock # None /\ mutex = None
    /\ mutex' = Unowned /\ Goto(o, "sign")
    /\ UNCHANGED <<files, lock, kills, errors>>

Sign(o) ==
    /\ At(o, "sign")
    /\ \/ mutex' = Owned(o) /\ Goto(o, "inspect") /\ UNCHANGED errors
       \/ Fault /\ mutex' = None /\ End(o)
    /\ UNCHANGED <<files, lock, kills>>

\* Mutant of Recoverable: age alone makes a lock recoverable.
RecoverableByAge == lock # None /\ lock.by # None

\* inspectRecoverableLock and pidIsAlive: a lock without a readable owner, or
\* whose process lives, is left alone.
Recoverable == lock # None /\ lock.by # None /\ ~lock.alive

\* The PID of a dead process may be found alive, as another's.
Inspect(o) ==
    /\ At(o, "inspect")
    /\ \/ Recoverable /\ op' = [op EXCEPT ![o].at = "confirm", ![o].seen = lock.by]
       \/ Goto(o, "unsign")
    /\ UNCHANGED <<files, lock, mutex, kills, errors>>

Confirm(o) ==
    /\ At(o, "confirm")
    /\ Goto(o, IF Recoverable /\ lock.by = op[o].seen THEN "rename" ELSE "unsign")
    /\ UNCHANGED <<files, lock, mutex, kills, errors>>

\* What was moved is compared and cleaned up where nobody else looks; if it is
\* not what was inspected, or nothing was there, the operation fails.
Rename(o) ==
    /\ At(o, "rename")
    /\ lock' = None
    /\ op' = [op EXCEPT ![o].at = IF lock # None /\ lock.by = op[o].seen THEN "unsign" ELSE "unsignFailed"]
    /\ UNCHANGED <<files, mutex, kills, errors>>

\* Removes the mutex, which must still be one's own, and tries again; a call
\* that fails leaves it.
Unsign(o) ==
    /\ op[o].at \in {"unsign", "unsignFailed"}
    /\ \/ /\ mutex # None /\ mutex.by = o
          /\ mutex' = None
          /\ IF At(o, "unsign")
             THEN op' = [op EXCEPT ![o].at = "lock", ![o].seen = None]
             ELSE End(o)
          /\ UNCHANGED errors
       \/ mutex # None /\ mutex.by # o /\ End(o) /\ UNCHANGED <<mutex, errors>>
       \/ Fault /\ End(o) /\ UNCHANGED mutex
    /\ UNCHANGED <<files, lock, kills>>

Recovery(o) == TakeMutex(o) \/ Sign(o) \/ Inspect(o) \/ Confirm(o) \/ Rename(o) \/ Unsign(o)

-----------------------------------------------------------------------------
(* put, delete, garbageCollect *)

Meta(o) == meta[op[o].key]

\* readMetadata, verifyBlob and the condition of a put; a delete reads likewise.
Read(o) ==
    /\ At(o, "enter") /\ op[o].kind # "collect"
    /\ LET refused == CASE op[o].kind = "delete" -> Meta(o) = None
                        [] op[o].kind = "create" -> Meta(o) # None
                        [] OTHER -> Meta(o) # None /\ Meta(o) \notin blobs
       IN op' = [op EXCEPT ![o].read = Meta(o),
                           ![o].at = CASE refused -> "release"
                                       [] op[o].kind = "delete" -> "unlink"
                                       [] OTHER -> "blob"]
    /\ UNCHANGED <<files, lock, mutex, kills, errors>>

\* A blob that exists is verified and kept.
CommitBlob(o) ==
    /\ At(o, "blob")
    /\ \/ blobs' = blobs \cup {op[o].content} /\ Goto(o, "metadata") /\ UNCHANGED errors
       \/ Fault /\ Goto(o, "release") /\ UNCHANGED blobs
    /\ UNCHANGED <<meta, lock, mutex, kills>>

WriteMetadata(o) ==
    /\ At(o, "metadata")
    /\ \/ meta' = [meta EXCEPT ![op[o].key] = op[o].content] /\ UNCHANGED errors
       \/ Fault /\ UNCHANGED meta
    /\ Goto(o, "release")
    /\ UNCHANGED <<blobs, lock, mutex, kills>>

Unlink(o) ==
    /\ At(o, "unlink")
    /\ meta' = [meta EXCEPT ![op[o].key] = None]
    /\ Goto(o, "release")
    /\ UNCHANGED <<blobs, lock, mutex, kills, errors>>

\* The walk over the metadata finds the blobs nothing refers to, one of which
\* may be old enough.
Scan(o) ==
    /\ At(o, "enter") /\ op[o].kind = "collect"
    /\ LET unreferenced == blobs \ {meta[k] : k \in Keys}
       IN \/ \E c \in unreferenced : op' = [op EXCEPT ![o].at = "sweep", ![o].content = c]
          \/ Goto(o, "release")
    /\ UNCHANGED <<files, lock, mutex, kills, errors>>

\* The blobs are deleted one by one; the next is as good as another operation's.
Sweep(o) ==
    /\ At(o, "sweep")
    /\ blobs' = blobs \ {op[o].content}
    /\ Goto(o, "release")
    /\ UNCHANGED <<meta, lock, mutex, kills, errors>>

Operation(o) == Read(o) \/ CommitBlob(o) \/ WriteMetadata(o) \/ Unlink(o) \/ Scan(o) \/ Sweep(o)

-----------------------------------------------------------------------------
Killed(l) == IF l = None THEN None ELSE [l EXCEPT !.alive = FALSE]

\* The process is killed, with every operation, and started again.
Kill ==
    /\ kills < MaxKills /\ kills' = kills + 1
    /\ lock' = Killed(lock) /\ mutex' = Killed(mutex)
    /\ op' = [o \in Ops |-> Idle]
    /\ UNCHANGED <<files, errors>>

Step(o) == \/ MakeLock(o) \/ Publish(o) \/ TimeOut(o) \/ Release(o) \/ Unlock(o)
           \/ Recovery(o) \/ Operation(o)

Next == Kill \/ \E o \in Ops : Begin(o) \/ Step(o)

Spec == Init /\ [][Next]_vars

-----------------------------------------------------------------------------
(* Properties *)

\* Every key names a blob that exists, whichever operations run at once, wait,
\* recover a lock or are killed (put commits the blob first; a collection
\* deletes only what it found unreferenced while nobody else can write).
NoDangling == \A k \in Keys : meta[k] # None => meta[k] \in blobs

\* A put is one step in the eyes of the others: the key still names what the
\* condition of the put was checked against when its metadata is written.
ConditionStillHolds ==
    [][\A o \in Ops : At(o, "metadata") /\ op'[o] # op[o] /\ meta' # meta => Meta(o) = op[o].read]_vars
=============================================================================
