--------------------------- MODULE BackgroundProofs ---------------------------
(* Proofs about the background work: the local object store (ObjectStore),   *)
(* the matches of a mission (MissionMatches), the refresh of the memory graph *)
(* (MemoryRefresh) and the scheduler of the sources (SourceScheduler), each   *)
(* on its own.  What a theorem assumes of the constants is among its          *)
(* hypotheses.                                                                *)
EXTENDS Background, LocalSources, FiniteSets, FiniteSetTheorems, TLAPS

-----------------------------------------------------------------------------
(* The object store. *)

Record_ == [by : Ops \cup {None}, alive : BOOLEAN]

\* None stands for a file that is not there.
StoreConstants == None \notin Record_ /\ MaxKills \in Nat

\* Operations that have made the lock and have not taken it away; those that have
\* signed it; those that have made the recovery mutex.
Signed    == {"enter", "blob", "metadata", "unlink", "sweep", "release"}
Holds(o)  == op[o].at \in Signed \cup {"publish", "unlock"}
Mends(o)  == op[o].at \in {"sign", "inspect", "confirm", "rename", "unsign", "unsignFailed"}

Operation_ ==
    [at : Signed \cup {"idle", "lock", "publish", "unlock", "sign", "inspect", "confirm", "rename",
                       "unsign", "unsignFailed"},
     kind : {"none", "put", "create", "delete", "collect"}, key : Keys \cup {None},
     content : Contents \cup {None}, read : Contents \cup {None}, seen : Ops \cup {None}]

StoreType ==
    /\ blobs \in SUBSET (Contents \cup {None}) /\ meta \in [Keys -> Contents \cup {None}]
    /\ lock \in Record_ \cup {None} /\ mutex \in Record_ \cup {None}
    /\ op \in [Ops -> Operation_]

\* One operation at a time has the lock, and it is a living one's.
OneHolder ==
    \A o \in Ops : Holds(o) =>
        /\ lock = IF op[o].at \in Signed THEN Store!Owned(o) ELSE Store!Unowned
        /\ \A p \in Ops : Holds(p) => p = o

\* One operation at a time recovers, and the lock it renames is a dead one's.
OneMender ==
    \A o \in Ops : Mends(o) =>
        /\ mutex # None
        /\ \A p \in Ops : Mends(p) => p = o
        /\ op[o].at = "rename" => lock # None /\ ~lock.alive

\* What an operation has read under the lock is still so.
StillSo ==
    \A o \in Ops :
        /\ op[o].at \in {"blob", "metadata", "unlink"} =>
               op[o].key \in Keys /\ op[o].read = meta[op[o].key]
        /\ op[o].at = "metadata" => op[o].content \in blobs
        /\ op[o].at = "sweep" => \A k \in Keys : meta[k] # op[o].content
        /\ op[o].at = "enter" /\ op[o].kind # "collect" => op[o].key \in Keys

StoreInv == StoreType /\ OneHolder /\ OneMender /\ StillSo /\ Store!NoDangling

LEMMA StoreInit == ASSUME StoreConstants PROVE Store!Init => StoreInv
BY DEF Store!Init, StoreInv, StoreType, OneHolder, OneMender, StillSo, Store!NoDangling, Store!Idle,
  Operation_, Record_, StoreConstants, Holds, Mends, Signed

\* The parts of an operation that the proofs look at, after a step of o.
LEMMA StepOf ==
    ASSUME StoreType, NEW o \in Ops, NEW x \in Operation_, op' = [op EXCEPT ![o] = x]
    PROVE  /\ op' \in [Ops -> Operation_]
           /\ op'[o] = x
           /\ \A p \in Ops : p # o => op'[p] = op[p]
BY DEF StoreType

\* Where Goto and End lead.
LEMMA GotoIs ==
    ASSUME StoreType, NEW o \in Ops,
           NEW at \in Signed \cup {"idle", "lock", "publish", "unlock", "sign", "inspect", "confirm",
                                   "rename", "unsign", "unsignFailed"},
           Store!Goto(o, at)
    PROVE  \E x \in Operation_ :
               /\ op' = [op EXCEPT ![o] = x]
               /\ x.at = at /\ x.kind = op[o].kind /\ x.key = op[o].key
               /\ x.content = op[o].content /\ x.read = op[o].read /\ x.seen = op[o].seen
<1> DEFINE x == [op[o] EXCEPT !.at = at]
<1>1. op[o] \in Operation_ /\ op' = [op EXCEPT ![o] = x]
    BY DEF StoreType, Store!Goto
<1>2. x \in Operation_
    BY <1>1 DEF Operation_
<1>3. /\ x.at = at /\ x.kind = op[o].kind /\ x.key = op[o].key
      /\ x.content = op[o].content /\ x.read = op[o].read /\ x.seen = op[o].seen
    BY <1>1 DEF Operation_
<1>4. QED
    BY <1>1, <1>2, <1>3


\* What a step that takes operation o to x has to observe: who holds the lock
\* changes it, a dead lock is changed under the mutex, and files are changed
\* under the lock.
StoreStep(o, x) ==
    /\ x \in Operation_ /\ op' = [op EXCEPT ![o] = x]
    /\ lock' \in Record_ \cup {None} /\ mutex' \in Record_ \cup {None}
    /\ blobs' \in SUBSET (Contents \cup {None}) /\ meta' \in [Keys -> Contents \cup {None}]
    /\ x.at \in Signed \cup {"publish", "unlock"} =>
           /\ lock = None \/ Holds(o)
           /\ lock' = IF x.at \in Signed THEN Store!Owned(o) ELSE Store!Unowned
    /\ lock' # lock => \/ lock = None \/ Holds(o)
                       \/ ~lock.alive /\ Mends(o)
    /\ x.at \in {"sign", "inspect", "confirm", "rename", "unsign", "unsignFailed"} =>
           /\ mutex = None \/ Mends(o)
           /\ mutex' # None
           /\ x.at = "rename" => lock' # None /\ ~lock'.alive
    /\ mutex' # mutex => mutex = None \/ Mends(o)
    /\ UNCHANGED <<blobs, meta>> \/ Holds(o)
    /\ x.at \in {"blob", "metadata", "unlink"} => x.key \in Keys /\ x.read = meta'[x.key]
    /\ x.at = "metadata" => x.content \in blobs'
    /\ x.at = "sweep" => \A k \in Keys : meta'[k] # x.content
    /\ x.at = "enter" /\ x.kind # "collect" => x.key \in Keys
    /\ Store!NoDangling'

LEMMA StoreKeeps ==
    ASSUME StoreConstants, StoreInv, NEW o \in Ops, NEW x, StoreStep(o, x)
    PROVE  StoreInv'
<1> USE DEF StoreConstants
<1>1. /\ op' \in [Ops -> Operation_] /\ op'[o] = x
      /\ \A p \in Ops : p # o => op'[p] = op[p]
    BY StepOf DEF StoreStep, StoreInv
<1>2. StoreType'
    BY <1>1 DEF StoreStep, StoreType
<1>3. ASSUME NEW p \in Ops, Holds(p)
      PROVE  /\ lock = IF op[p].at \in Signed THEN Store!Owned(p) ELSE Store!Unowned
             /\ lock # None /\ lock.alive
             /\ \A q \in Ops : Holds(q) => q = p
    <2>1. /\ lock = IF op[p].at \in Signed THEN Store!Owned(p) ELSE Store!Unowned
          /\ \A q \in Ops : Holds(q) => q = p
        BY <1>3 DEF StoreInv, OneHolder
    <2>2. /\ Store!Owned(p) \in Record_ /\ Store!Owned(p).alive
          /\ Store!Unowned \in Record_ /\ Store!Unowned.alive
        BY DEF Store!Owned, Store!Unowned, Record_
    <2>3. QED
        BY <2>1, <2>2
<1>4. OneHolder'
    <2>1. SUFFICES ASSUME NEW p \in Ops, Holds(p)'
                   PROVE  /\ lock' = IF op'[p].at \in Signed THEN Store!Owned(p) ELSE Store!Unowned
                          /\ \A q \in Ops : Holds(q)' => q = p
        BY DEF OneHolder, Store!Owned, Store!Unowned
    <2>2. \A q \in Ops : Holds(q)' /\ q # o => Holds(q) /\ op'[q] = op[q]
        BY <1>1 DEF Holds
    <2>3. x.at \in Signed \cup {"publish", "unlock"} <=> Holds(o)'
        BY <1>1 DEF Holds
    <2>4. CASE p = o
        BY <1>1, <1>3, <2>1, <2>2, <2>3, <2>4 DEF StoreStep
    <2>5. CASE p # o
        <3>1. Holds(p) /\ op'[p] = op[p]
            BY <2>1, <2>2, <2>5
        <3>2. ~Holds(o) /\ lock # None /\ lock.alive
            BY <3>1, <1>3, <2>5
        <3>3. lock' = lock /\ ~Holds(o)'
            BY <3>2, <2>3 DEF StoreStep
        <3>4. QED
            BY <3>1, <3>3, <1>3, <2>2
    <2>6. QED
        BY <2>4, <2>5
<1>5. OneMender'
    <2>1. SUFFICES ASSUME NEW p \in Ops, Mends(p)'
                   PROVE  /\ mutex' # None
                          /\ \A q \in Ops : Mends(q)' => q = p
                          /\ op'[p].at = "rename" => lock' # None /\ ~lock'.alive
        BY DEF OneMender
    <2>2. \A q \in Ops : Mends(q)' /\ q # o => Mends(q) /\ op'[q] = op[q]
        BY <1>1 DEF Mends
    <2>3. x.at \in {"sign", "inspect", "confirm", "rename", "unsign", "unsignFailed"} <=> Mends(o)'
        BY <1>1 DEF Mends
    <2>4. \A q \in Ops : Mends(q) =>
              /\ mutex # None /\ \A r \in Ops : Mends(r) => r = q
              /\ op[q].at = "rename" => lock # None /\ ~lock.alive
        BY DEF StoreInv, OneMender
    <2>5. CASE p = o
        BY <1>1, <2>1, <2>2, <2>3, <2>4, <2>5 DEF StoreStep
    <2>6. CASE p # o
        <3>1. Mends(p) /\ op'[p] = op[p]
            BY <2>1, <2>2, <2>6
        <3>2. ~Mends(o) /\ mutex # None
            BY <3>1, <2>4, <2>6
        <3>3. mutex' = mutex /\ ~Mends(o)'
            BY <3>2, <2>3 DEF StoreStep
        <3>4. op[p].at = "rename" => lock' = lock
            <4>1. SUFFICES ASSUME op[p].at = "rename", lock' # lock PROVE FALSE
                OBVIOUS
            <4>2. lock # None /\ ~lock.alive
                BY <3>1, <2>4, <4>1
            <4>3. Holds(o)
                BY <3>2, <4>1, <4>2 DEF StoreStep
            <4>4. QED
                BY <4>2, <4>3, <1>3
        <3>5. QED
            BY <3>1, <3>3, <3>4, <2>2, <2>4
    <2>7. QED
        BY <2>5, <2>6
<1>6. StillSo'
    <2>1. ASSUME NEW p \in Ops
          PROVE  /\ op'[p].at \in {"blob", "metadata", "unlink"} =>
                        op'[p].key \in Keys /\ op'[p].read = meta'[op'[p].key]
                 /\ op'[p].at = "metadata" => op'[p].content \in blobs'
                 /\ op'[p].at = "sweep" => \A k \in Keys : meta'[k] # op'[p].content
                 /\ op'[p].at = "enter" /\ op'[p].kind # "collect" => op'[p].key \in Keys
        <3>1. CASE p = o
            BY <3>1, <1>1 DEF StoreStep
        <3>2. CASE p # o /\ ~Holds(p)
            <4>1. op'[p] = op[p]
                BY <1>1, <3>2
            <4>2. op[p].at \notin {"blob", "metadata", "unlink", "sweep", "enter"}
                BY <3>2 DEF Holds, Signed
            <4>3. QED
                BY <4>1, <4>2
        <3>3. CASE p # o /\ Holds(p)
            <4>1. op'[p] = op[p] /\ ~Holds(o)
                BY <1>1, <1>3, <3>3
            <4>2. UNCHANGED <<blobs, meta>>
                BY <4>1 DEF StoreStep
            <4>3. QED
                BY <4>1, <4>2 DEF StoreInv, StillSo
        <3>4. QED
            BY <3>1, <3>2, <3>3
    <2>2. QED
        BY <2>1 DEF StillSo
<1>7. QED
    BY <1>2, <1>4, <1>5, <1>6 DEF StoreInv, StoreStep

LEMMA Facts ==
    ASSUME StoreConstants, StoreInv, NEW o \in Ops
    PROVE  /\ op[o] \in Operation_ /\ StoreType /\ Store!NoDangling
           /\ op[o].key \in Keys \cup {None}
           /\ op[o].content \in Contents \cup {None}
           /\ Store!Owned(o) \in Record_ /\ Store!Owned(o).alive /\ Store!Owned(o).by = o
           /\ Store!Unowned \in Record_ /\ Store!Unowned.alive
           /\ Store!Owned(o) # None /\ Store!Unowned # None
           /\ Holds(o) => lock = IF op[o].at \in Signed THEN Store!Owned(o) ELSE Store!Unowned
           /\ Mends(o) => mutex # None
           /\ op[o].at = "rename" => lock # None /\ ~lock.alive
           /\ op[o].at \in {"blob", "metadata", "unlink"} =>
                  op[o].key \in Keys /\ op[o].read = meta[op[o].key]
           /\ op[o].at = "metadata" => op[o].content \in blobs
           /\ op[o].at = "sweep" => \A k \in Keys : meta[k] # op[o].content
           /\ op[o].at = "enter" /\ op[o].kind # "collect" => op[o].key \in Keys
<1>1. op[o] \in Operation_ /\ StoreType /\ Store!NoDangling
    BY DEF StoreInv, StoreType
<1>2. op[o].key \in Keys \cup {None} /\ op[o].content \in Contents \cup {None}
    BY <1>1 DEF Operation_
<1>3. /\ Store!Owned(o) \in Record_ /\ Store!Owned(o).alive /\ Store!Owned(o).by = o
      /\ Store!Unowned \in Record_ /\ Store!Unowned.alive
    BY DEF Store!Owned, Store!Unowned, Record_
<1>4. Store!Owned(o) # None /\ Store!Unowned # None
    BY <1>3 DEF StoreConstants
<1>5. Mends(o) => mutex # None /\ (op[o].at = "rename" => lock # None /\ ~lock.alive)
    BY DEF StoreInv, OneMender
<1>6. op[o].at = "rename" => Mends(o)
    BY DEF Mends
<1>7. Holds(o) => lock = IF op[o].at \in Signed THEN Store!Owned(o) ELSE Store!Unowned
    BY DEF StoreInv, OneHolder
<1>8. QED
    BY <1>1, <1>2, <1>3, <1>4, <1>5, <1>6, <1>7 DEF StoreInv, StillSo

IdleOp == Store!Idle

LEMMA IdleIs == IdleOp \in Operation_ /\ IdleOp.at = "idle"
BY DEF IdleOp, Store!Idle, Operation_

\* An operation goes on to a step where it holds nothing more than it did, and
\* changes no file.
LEMMA QuietStep ==
    ASSUME StoreConstants, StoreInv, NEW o \in Ops, NEW x \in Operation_,
           op' = [op EXCEPT ![o] = x],
           UNCHANGED <<blobs, meta, lock, mutex>>,
           x.at \in Signed \cup {"publish", "unlock"} =>
               Holds(o) /\ (x.at \in Signed <=> op[o].at \in Signed),
           x.at \in {"sign", "inspect", "confirm", "rename", "unsign", "unsignFailed"} =>
               Mends(o) /\ (x.at = "rename" => lock # None /\ ~lock.alive),
           x.at \in {"blob", "metadata", "unlink"} => x.key \in Keys /\ x.read = meta[x.key],
           x.at = "metadata" => x.content \in blobs,
           x.at = "sweep" => \A k \in Keys : meta[k] # x.content,
           x.at = "enter" /\ x.kind # "collect" => x.key \in Keys
    PROVE  StoreInv'
<1>1. Store!NoDangling'
    BY Facts DEF Store!NoDangling
<1>2. /\ lock' \in Record_ \cup {None} /\ mutex' \in Record_ \cup {None}
      /\ meta' \in [Keys -> Contents \cup {None}] /\ blobs' \in SUBSET (Contents \cup {None})
    BY Facts DEF StoreType
<1>3. /\ Holds(o) => lock = IF op[o].at \in Signed THEN Store!Owned(o) ELSE Store!Unowned
      /\ Mends(o) => mutex # None
    BY Facts
<1>4. StoreStep(o, x)
    BY <1>1, <1>2, <1>3 DEF StoreStep
<1>5. QED
    BY <1>4, StoreKeeps

LEMMA WaitingKeeps ==
    ASSUME StoreConstants, StoreInv, NEW o \in Ops,
           Store!Begin(o) \/ Store!TimeOut(o) \/ Store!Inspect(o) \/ Store!Confirm(o)
    PROVE  StoreInv'
<1>1. UNCHANGED <<blobs, meta, lock, mutex>>
    BY DEF Store!Begin, Store!TimeOut, Store!Inspect, Store!Confirm, Store!files
<1>2. CASE Store!Begin(o)
    <2>1. PICK x \in Operation_ : op' = [op EXCEPT ![o] = x] /\ x.at = "lock"
        BY <1>2, GotoIs, Facts DEF Store!Begin
    <2>2. QED
        BY <1>1, <2>1, QuietStep DEF Signed
<1>3. CASE Store!TimeOut(o)
    <2>1. op' = [op EXCEPT ![o] = IdleOp]
        BY <1>3 DEF Store!TimeOut, Store!End, IdleOp
    <2>2. QED
        BY <1>1, <2>1, IdleIs, QuietStep DEF Signed
<1>4. CASE Store!Inspect(o)
    <2>1. Mends(o) /\ op[o].at = "inspect"
        BY <1>4 DEF Store!Inspect, Store!At, Mends
    <2>2. CASE Store!Recoverable /\ op' = [op EXCEPT ![o].at = "confirm", ![o].seen = lock.by]
        <3> DEFINE x == [op[o] EXCEPT !.at = "confirm", !.seen = lock.by]
        <3>1. op[o] \in Operation_ /\ lock \in Record_
            BY <2>2, Facts DEF Store!Recoverable, StoreType
        <3>2. lock.by \in Ops \cup {None}
            BY <3>1 DEF Record_
        <3>3. x \in Operation_ /\ x.at = "confirm"
            BY <3>1, <3>2 DEF Operation_
        <3>4. op' = [op EXCEPT ![o] = x]
            <4>1. op \in [Ops -> Operation_]
                BY Facts DEF StoreType
            <4>2. op' = [op EXCEPT ![o] = [[op[o] EXCEPT !.at = "confirm"] EXCEPT !.seen = lock.by]]
                BY <2>2, <4>1
            <4>3. [[op[o] EXCEPT !.at = "confirm"] EXCEPT !.seen = lock.by] = x
                BY <3>1 DEF Operation_
            <4>4. QED
                BY <4>2, <4>3
        <3> HIDE DEF x
        <3>5. QED
            BY <1>1, <2>1, <3>3, <3>4, QuietStep DEF Signed
    <2>3. CASE Store!Goto(o, "unsign")
        <3>1. PICK x \in Operation_ : op' = [op EXCEPT ![o] = x] /\ x.at = "unsign"
            BY <2>3, GotoIs, Facts
        <3>2. QED
            BY <1>1, <2>1, <3>1, QuietStep DEF Signed
    <2>4. QED
        BY <1>4, <2>2, <2>3 DEF Store!Inspect
<1>5. CASE Store!Confirm(o)
    <2>1. Mends(o)
        BY <1>5 DEF Store!Confirm, Store!At, Mends
    <2>2. PICK to \in {"rename", "unsign"} :
              Store!Goto(o, to) /\ (to = "rename" => Store!Recoverable)
        BY <1>5 DEF Store!Confirm
    <2>3. PICK x \in Operation_ : op' = [op EXCEPT ![o] = x] /\ x.at = to
        BY <2>2, GotoIs, Facts
    <2>4. x.at = "rename" => lock # None /\ ~lock.alive
        BY <2>2, <2>3 DEF Store!Recoverable
    <2>5. QED
        BY <1>1, <2>1, <2>3, <2>4, QuietStep DEF Signed
<1>6. QED
    BY <1>2, <1>3, <1>4, <1>5

LEMMA LockKeeps ==
    ASSUME StoreConstants, StoreInv, NEW o \in Ops,
           Store!MakeLock(o) \/ Store!Publish(o) \/ Store!Release(o) \/ Store!Unlock(o)
    PROVE  StoreInv'
<1>1. UNCHANGED <<blobs, meta, mutex>>
    BY DEF Store!MakeLock, Store!Publish, Store!Release, Store!Unlock, Store!files
<1>2. /\ Store!NoDangling' /\ meta' \in [Keys -> Contents \cup {None}]
      /\ blobs' \in SUBSET (Contents \cup {None})
      /\ mutex' \in Record_ \cup {None} /\ mutex' = mutex
    BY <1>1, Facts DEF Store!NoDangling, StoreType
<1>3. ASSUME NEW x \in Operation_, op' = [op EXCEPT ![o] = x],
             lock' \in Record_ \cup {None},
             lock' # lock => lock = None \/ Holds(o),
             \/ x.at \in {"idle", "publish", "unlock"}
             \/ x.at = "enter" /\ (x.kind # "collect" => x.key \in Keys),
             x.at # "idle" => /\ lock = None \/ Holds(o)
                              /\ lock' = IF x.at = "enter" THEN Store!Owned(o) ELSE Store!Unowned
      PROVE  StoreInv'
    <2>1. StoreStep(o, x)
        BY <1>1, <1>2, <1>3 DEF StoreStep, Signed
    <2>2. QED
        BY <2>1, StoreKeeps
<1>4. CASE Store!MakeLock(o)
    <2>1. lock = None /\ lock' = Store!Unowned /\ Store!Goto(o, "publish")
        BY <1>4 DEF Store!MakeLock
    <2>2. PICK x \in Operation_ : op' = [op EXCEPT ![o] = x] /\ x.at = "publish"
        BY <2>1, GotoIs, Facts
    <2>3. QED
        BY <1>3, <2>1, <2>2, Facts
<1>5. CASE Store!Publish(o)
    <2>1. Holds(o)
        BY <1>5 DEF Store!Publish, Store!At, Holds
    <2>2. ASSUME NEW x \in Store!Purposes, op' = [op EXCEPT ![o] = x], lock' = Store!Owned(o)
          PROVE  StoreInv'
        <3>1. x \in Operation_ /\ x.at = "enter" /\ (x.kind # "collect" => x.key \in Keys)
            BY <2>2 DEF Store!Purposes, Operation_, Signed
        <3>2. QED
            BY <1>3, <2>1, <2>2, <3>1, Facts
    <2>3. CASE lock' = None /\ Store!End(o)
        <3>1. op' = [op EXCEPT ![o] = IdleOp]
            BY <2>3 DEF Store!End, IdleOp
        <3>2. QED
            BY <1>3, <2>1, <2>3, <3>1, IdleIs
    <2>4. QED
        BY <1>5, <2>2, <2>3 DEF Store!Publish
<1>6. CASE Store!Release(o)
    <2>1. Holds(o)
        BY <1>6 DEF Store!Release, Store!At, Holds, Signed
    <2>2. CASE lock' = Store!Unowned /\ Store!Goto(o, "unlock")
        <3>1. PICK x \in Operation_ : op' = [op EXCEPT ![o] = x] /\ x.at = "unlock"
            BY <2>2, GotoIs, Facts
        <3>2. QED
            BY <1>3, <2>1, <2>2, <3>1, Facts
    <2>3. CASE Store!End(o) /\ lock' = lock
        <3>1. op' = [op EXCEPT ![o] = IdleOp] /\ lock' \in Record_ \cup {None}
            BY <2>3, Facts DEF Store!End, IdleOp, StoreType
        <3>2. QED
            BY <1>3, <2>1, <2>3, <3>1, IdleIs
    <2>4. QED
        BY <1>6, <2>2, <2>3 DEF Store!Release
<1>7. CASE Store!Unlock(o)
    <2>1. Holds(o) /\ lock' = None /\ op' = [op EXCEPT ![o] = IdleOp]
        BY <1>7 DEF Store!Unlock, Store!At, Holds, Store!End, IdleOp
    <2>2. QED
        BY <1>3, <2>1, IdleIs
<1>8. QED
    BY <1>4, <1>5, <1>6, <1>7

LEMMA MutexKeeps ==
    ASSUME StoreConstants, StoreInv, NEW o \in Ops,
           Store!TakeMutex(o) \/ Store!Sign(o) \/ Store!Rename(o) \/ Store!Unsign(o)
    PROVE  StoreInv'
<1>1. UNCHANGED <<blobs, meta>>
    BY DEF Store!TakeMutex, Store!Sign, Store!Rename, Store!Unsign, Store!files
<1>2. /\ Store!NoDangling' /\ meta' \in [Keys -> Contents \cup {None}]
      /\ blobs' \in SUBSET (Contents \cup {None})
    BY <1>1, Facts DEF Store!NoDangling, StoreType
<1>3. ASSUME NEW x \in Operation_, op' = [op EXCEPT ![o] = x],
             lock' \in {lock, None}, mutex' \in Record_ \cup {None},
             lock' # lock => ~lock.alive /\ Mends(o),
             mutex' # mutex => mutex = None \/ Mends(o),
             x.at \in {"idle", "lock", "sign", "inspect", "unsign", "unsignFailed"},
             x.at \notin {"idle", "lock"} => mutex' # None /\ (mutex = None \/ Mends(o))
      PROVE  StoreInv'
    <2>1. lock' \in Record_ \cup {None}
        BY <1>3, Facts DEF StoreType
    <2>2. StoreStep(o, x)
        BY <1>1, <1>2, <1>3, <2>1 DEF StoreStep, Signed
    <2>3. QED
        BY <2>2, StoreKeeps
<1>4. CASE Store!TakeMutex(o)
    <2>1. mutex = None /\ mutex' = Store!Unowned /\ Store!Goto(o, "sign") /\ lock' = lock
        BY <1>4 DEF Store!TakeMutex
    <2>2. PICK x \in Operation_ : op' = [op EXCEPT ![o] = x] /\ x.at = "sign"
        BY <2>1, GotoIs, Facts
    <2>3. QED
        BY <1>3, <2>1, <2>2, Facts
<1>5. CASE Store!Sign(o)
    <2>1. Mends(o) /\ lock' = lock
        BY <1>5 DEF Store!Sign, Store!At, Mends, Store!files
    <2>2. CASE mutex' = Store!Owned(o) /\ Store!Goto(o, "inspect")
        <3>1. PICK x \in Operation_ : op' = [op EXCEPT ![o] = x] /\ x.at = "inspect"
            BY <2>2, GotoIs, Facts
        <3>2. QED
            BY <1>3, <2>1, <2>2, <3>1, Facts
    <2>3. CASE mutex' = None /\ Store!End(o)
        <3>1. op' = [op EXCEPT ![o] = IdleOp]
            BY <2>3 DEF Store!End, IdleOp
        <3>2. QED
            BY <1>3, <2>1, <2>3, <3>1, IdleIs
    <2>4. QED
        BY <1>5, <2>2, <2>3 DEF Store!Sign
<1>6. CASE Store!Rename(o)
    <2>1. op[o].at = "rename" /\ Mends(o) /\ lock' = None /\ mutex' = mutex
        BY <1>6 DEF Store!Rename, Store!At, Mends
    <2>2. ~lock.alive /\ mutex # None /\ mutex \in Record_ \cup {None}
        BY <2>1, Facts DEF StoreType
    <2>3. PICK to \in {"unsign", "unsignFailed"} : Store!Goto(o, to)
        BY <1>6 DEF Store!Rename, Store!Goto
    <2>4. PICK x \in Operation_ : op' = [op EXCEPT ![o] = x] /\ x.at = to
        BY <2>3, GotoIs, Facts
    <2>5. QED
        BY <1>3, <2>1, <2>2, <2>4
<1>7. CASE Store!Unsign(o)
    <2>1. Mends(o) /\ lock' = lock /\ mutex \in Record_ \cup {None}
        BY <1>7, Facts DEF Store!Unsign, Mends, StoreType, Store!files
    <2>2. CASE Store!End(o) /\ mutex' \in {mutex, None}
        <3>1. op' = [op EXCEPT ![o] = IdleOp]
            BY <2>2 DEF Store!End, IdleOp
        <3>2. mutex' \in Record_ \cup {None}
            BY <2>1, <2>2
        <3>3. QED
            BY <1>3, <2>1, <3>1, <3>2, IdleIs
    <2>3. CASE op' = [op EXCEPT ![o].at = "lock", ![o].seen = None] /\ mutex' = None
        <3> DEFINE x == [op[o] EXCEPT !.at = "lock", !.seen = None]
        <3>1. op[o] \in Operation_
            BY Facts
        <3>2. x \in Operation_ /\ x.at = "lock"
            BY <3>1 DEF Operation_
        <3>3. op' = [op EXCEPT ![o] = x]
            <4>1. op \in [Ops -> Operation_]
                BY Facts DEF StoreType
            <4>2. op' = [op EXCEPT ![o] = [[op[o] EXCEPT !.at = "lock"] EXCEPT !.seen = None]]
                BY <2>3, <4>1
            <4>3. [[op[o] EXCEPT !.at = "lock"] EXCEPT !.seen = None] = x
                BY <3>1 DEF Operation_
            <4>4. QED
                BY <4>2, <4>3
        <3> HIDE DEF x
        <3>4. QED
            BY <1>3, <2>1, <2>3, <3>2, <3>3
    <2>4. QED
        BY <1>7, <2>2, <2>3 DEF Store!Unsign
<1>8. QED
    BY <1>4, <1>5, <1>6, <1>7

LEMMA FileKeeps ==
    ASSUME StoreConstants, StoreInv, NEW o \in Ops, Store!Operation(o)
    PROVE  StoreInv'
<1>1. UNCHANGED <<lock, mutex>>
    BY DEF Store!Operation, Store!Read, Store!CommitBlob, Store!WriteMetadata, Store!Unlink,
           Store!Scan, Store!Sweep
<1>2. /\ op[o].at \in {"enter", "blob", "metadata", "unlink", "sweep"} /\ Holds(o)
      /\ lock = Store!Owned(o)
    <2>1. op[o].at \in {"enter", "blob", "metadata", "unlink", "sweep"}
        BY DEF Store!Operation, Store!Read, Store!CommitBlob, Store!WriteMetadata, Store!Unlink,
               Store!Scan, Store!Sweep, Store!At
    <2>2. Holds(o) /\ op[o].at \in Signed
        BY <2>1 DEF Holds, Signed
    <2>3. QED
        BY <2>1, <2>2, Facts
<1>3. ASSUME NEW x \in Operation_, op' = [op EXCEPT ![o] = x],
             x.at \in {"blob", "metadata", "unlink", "sweep", "release"},
             meta' \in [Keys -> Contents \cup {None}], blobs' \in SUBSET (Contents \cup {None}),
             x.at \in {"blob", "metadata", "unlink"} => x.key \in Keys /\ x.read = meta'[x.key],
             x.at = "metadata" => x.content \in blobs',
             x.at = "sweep" => \A k \in Keys : meta'[k] # x.content,
             \A k \in Keys : meta'[k] # None => meta'[k] \in blobs'
      PROVE  StoreInv'
    <2>1. lock' \in Record_ \cup {None} /\ mutex' \in Record_ \cup {None}
        BY <1>1, Facts DEF StoreType
    <2>2. Store!NoDangling'
        BY <1>3 DEF Store!NoDangling
    <2>3. StoreStep(o, x)
        BY <1>1, <1>2, <1>3, <2>1, <2>2 DEF StoreStep, Signed
    <2>4. QED
        BY <2>3, StoreKeeps
<1>4. /\ meta \in [Keys -> Contents \cup {None}] /\ blobs \in SUBSET (Contents \cup {None})
      /\ \A k \in Keys : meta[k] # None => meta[k] \in blobs
      /\ op \in [Ops -> Operation_] /\ op[o] \in Operation_
    BY Facts DEF StoreType, Store!NoDangling
<1>5. ASSUME UNCHANGED <<blobs, meta>>, Store!Goto(o, "release") PROVE StoreInv'
    <2>1. PICK x \in Operation_ : op' = [op EXCEPT ![o] = x] /\ x.at = "release"
        BY <1>5, GotoIs, Facts DEF Signed
    <2>2. QED
        BY <1>3, <1>4, <1>5, <2>1
<1>6. CASE Store!Read(o)
    <2>1. op[o].at = "enter" /\ op[o].key \in Keys /\ UNCHANGED <<blobs, meta>>
        BY <1>6, Facts DEF Store!Read, Store!At, Store!files
    <2> DEFINE refused == CASE op[o].kind = "delete" -> Store!Meta(o) = None
                            [] op[o].kind = "create" -> Store!Meta(o) # None
                            [] OTHER -> Store!Meta(o) # None /\ Store!Meta(o) \notin blobs
               next == CASE refused -> "release"
                         [] op[o].kind = "delete" -> "unlink"
                         [] OTHER -> "blob"
    <2>a. op' = [op EXCEPT ![o].read = Store!Meta(o), ![o].at = next]
        BY <1>6 DEF Store!Read
    <2>b. next \in {"release", "unlink", "blob"}
        <3> HIDE DEF refused
        <3>1. CASE refused
            BY <3>1
        <3>2. CASE ~refused
            BY <3>2
        <3>3. QED
            BY <3>1, <3>2
    <2> HIDE DEF refused, next
    <2>2. PICK to \in {"release", "unlink", "blob"} :
              op' = [op EXCEPT ![o].read = Store!Meta(o), ![o].at = to]
        BY <2>a, <2>b
    <2> DEFINE x == [op[o] EXCEPT !.read = meta[op[o].key], !.at = to]
    <2>3. op' = [op EXCEPT ![o] = x]
        <3>1. op' = [op EXCEPT ![o] = [[op[o] EXCEPT !.read = Store!Meta(o)] EXCEPT !.at = to]]
            BY <1>4, <2>2
        <3>2. [[op[o] EXCEPT !.read = Store!Meta(o)] EXCEPT !.at = to] = x
            BY <1>4 DEF Operation_, Store!Meta
        <3>3. QED
            BY <3>1, <3>2
    <2>4. meta[op[o].key] \in Contents \cup {None}
        BY <1>4, <2>1
    <2>5. x \in Operation_ /\ x.at = to /\ x.key = op[o].key /\ x.read = meta[op[o].key]
        BY <1>4, <2>4 DEF Operation_, Signed
    <2> HIDE DEF x
    <2>6. QED
        BY <1>3, <1>4, <2>1, <2>3, <2>5
<1>7. CASE Store!CommitBlob(o)
    <2>1. /\ op[o].at = "blob" /\ meta' = meta
          /\ op[o].key \in Keys /\ op[o].read = meta[op[o].key]
        BY <1>7, Facts DEF Store!CommitBlob, Store!At
    <2>2. CASE blobs' = blobs \cup {op[o].content} /\ Store!Goto(o, "metadata")
        <3>1. PICK x \in Operation_ : /\ op' = [op EXCEPT ![o] = x] /\ x.at = "metadata"
                                      /\ x.key = op[o].key /\ x.read = op[o].read
                                      /\ x.content = op[o].content
            BY <2>2, GotoIs, Facts DEF Signed
        <3>2. blobs' \in SUBSET (Contents \cup {None})
            BY <1>4, <2>2, Facts
        <3>3. QED
            BY <1>3, <1>4, <2>1, <2>2, <3>1, <3>2
    <2>3. CASE blobs' = blobs /\ Store!Goto(o, "release")
        BY <1>5, <2>1, <2>3
    <2>4. QED
        BY <1>7, <2>2, <2>3 DEF Store!CommitBlob
<1>8. CASE Store!WriteMetadata(o)
    <2>1. /\ op[o].at = "metadata" /\ blobs' = blobs /\ Store!Goto(o, "release")
          /\ op[o].key \in Keys /\ op[o].content \in blobs
          /\ op[o].content \in Contents \cup {None}
        BY <1>8, Facts DEF Store!WriteMetadata, Store!At
    <2>2. PICK x \in Operation_ : op' = [op EXCEPT ![o] = x] /\ x.at = "release"
        BY <2>1, GotoIs, Facts DEF Signed
    <2>3. meta' = meta \/ meta' = [meta EXCEPT ![op[o].key] = op[o].content]
        BY <1>8 DEF Store!WriteMetadata
    <2>4. /\ meta' \in [Keys -> Contents \cup {None}]
          /\ \A k \in Keys : meta'[k] # None => meta'[k] \in blobs'
        BY <1>4, <2>1, <2>3
    <2>5. QED
        BY <1>3, <1>4, <2>1, <2>2, <2>4
<1>9. CASE Store!Unlink(o)
    <2>1. blobs' = blobs /\ Store!Goto(o, "release") /\ meta' = [meta EXCEPT ![op[o].key] = None]
        BY <1>9 DEF Store!Unlink
    <2>2. PICK x \in Operation_ : op' = [op EXCEPT ![o] = x] /\ x.at = "release"
        BY <2>1, GotoIs, Facts DEF Signed
    <2>3. /\ meta' \in [Keys -> Contents \cup {None}]
          /\ \A k \in Keys : meta'[k] # None => meta'[k] \in blobs'
        BY <1>4, <2>1
    <2>4. QED
        BY <1>3, <1>4, <2>1, <2>2, <2>3
<1>10. CASE Store!Scan(o)
    <2>1. UNCHANGED <<blobs, meta>>
        BY <1>10 DEF Store!Scan, Store!files
    <2>2. ASSUME NEW c \in blobs \ {meta[k] : k \in Keys},
                 op' = [op EXCEPT ![o].at = "sweep", ![o].content = c]
          PROVE  StoreInv'
        <3> DEFINE x == [op[o] EXCEPT !.at = "sweep", !.content = c]
        <3>1. op' = [op EXCEPT ![o] = x]
            <4>1. op' = [op EXCEPT ![o] = [[op[o] EXCEPT !.at = "sweep"] EXCEPT !.content = c]]
                BY <1>4, <2>2
            <4>2. [[op[o] EXCEPT !.at = "sweep"] EXCEPT !.content = c] = x
                BY <1>4 DEF Operation_
            <4>3. QED
                BY <4>1, <4>2
        <3>2. c \in Contents \cup {None}
            BY <1>4
        <3>3. x \in Operation_ /\ x.at = "sweep" /\ x.content = c
            BY <1>4, <3>2 DEF Operation_, Signed
        <3> HIDE DEF x
        <3>4. \A k \in Keys : meta[k] # c
            BY <2>2
        <3>5. QED
            BY <1>3, <1>4, <2>1, <3>1, <3>3, <3>4
    <2>3. CASE Store!Goto(o, "release")
        BY <1>5, <2>1, <2>3
    <2>4. QED
        BY <1>10, <2>2, <2>3 DEF Store!Scan
<1>11. CASE Store!Sweep(o)
    <2>1. /\ meta' = meta /\ Store!Goto(o, "release") /\ blobs' = blobs \ {op[o].content}
          /\ \A k \in Keys : meta[k] # op[o].content
        BY <1>11, Facts DEF Store!Sweep, Store!At
    <2>2. PICK x \in Operation_ : op' = [op EXCEPT ![o] = x] /\ x.at = "release"
        BY <2>1, GotoIs, Facts DEF Signed
    <2>3. QED
        BY <1>3, <1>4, <2>1, <2>2
<1>12. QED
    BY <1>6, <1>7, <1>8, <1>9, <1>10, <1>11 DEF Store!Operation

\* A killed process leaves its lock files behind, and no operation.
LEMMA KillKeeps ==
    ASSUME StoreConstants, StoreInv, Store!Kill
    PROVE  StoreInv'
<1>1. UNCHANGED <<blobs, meta>> /\ op' = [o \in Ops |-> IdleOp]
    BY DEF Store!Kill, Store!files, IdleOp
<1>2. ASSUME NEW l \in Record_ \cup {None} PROVE Store!Killed(l) \in Record_ \cup {None}
    BY <1>2 DEF Store!Killed, Record_
<1>3. lock' \in Record_ \cup {None} /\ mutex' \in Record_ \cup {None}
    <2>1. /\ lock' = Store!Killed(lock) /\ lock \in Record_ \cup {None}
          /\ mutex' = Store!Killed(mutex) /\ mutex \in Record_ \cup {None}
        BY DEF Store!Kill, StoreInv, StoreType
    <2>2. QED
        BY <1>2, <2>1
<1>4. \A o \in Ops : op'[o] \in Operation_ /\ op'[o].at = "idle"
    BY <1>1, IdleIs
<1>5. StoreType'
    BY <1>1, <1>3, IdleIs DEF StoreInv, StoreType
<1>6. OneHolder' /\ OneMender' /\ StillSo'
    BY <1>4 DEF OneHolder, OneMender, StillSo, Holds, Mends, Signed
<1>7. Store!NoDangling'
    BY <1>1 DEF StoreInv, Store!NoDangling
<1>8. QED
    BY <1>5, <1>6, <1>7 DEF StoreInv

LEMMA StoreNext ==
    ASSUME StoreConstants, StoreInv, [Store!Next]_Store!vars
    PROVE  StoreInv'
<1>1. CASE Store!Kill
    BY <1>1, KillKeeps
<1>2. ASSUME NEW o \in Ops, Store!Begin(o) \/ Store!Step(o)
      PROVE  StoreInv'
    BY <1>2, WaitingKeeps, LockKeeps, MutexKeeps, FileKeeps DEF Store!Step, Store!Recovery
<1>3. CASE UNCHANGED Store!vars
    BY <1>3 DEF Store!vars, Store!files, StoreInv, StoreType, OneHolder, OneMender, StillSo, Holds,
       Mends, Store!NoDangling, Store!Owned, Store!Unowned
<1>4. QED
    BY <1>1, <1>2, <1>3 DEF Store!Next

LEMMA StoreInvariant == ASSUME StoreConstants PROVE Store!Spec => []StoreInv
<1>1. Store!Init => StoreInv
    BY StoreInit
<1>2. StoreInv /\ [Store!Next]_Store!vars => StoreInv'
    BY StoreNext
<1>3. QED
    BY <1>1, <1>2, PTL DEF Store!Spec

\* Every key names a blob that exists: at every moment, whatever puts, deletes
\* and collections are under way, however their lock is waited for, recovered or
\* lost to a kill (withStoreLock, put, delete and garbageCollect of
\* object-store.ts).
THEOREM No_Dangling == ASSUME StoreConstants PROVE Store!Spec => []NoDangling
<1>1. StoreInv => NoDangling
    BY DEF StoreInv, NoDangling
<1>2. QED
    BY <1>1, StoreInvariant, PTL

\* A put writes its metadata while the key still names what the put's condition
\* was checked against: no other put or delete comes between (put of
\* object-store.ts, onlyIf).
THEOREM Condition_Holds == ASSUME StoreConstants PROVE Store!Spec => ConditionStillHolds
<1>1. StoreInv /\ [Store!Next]_Store!vars =>
          [\A o \in Ops : Store!At(o, "metadata") /\ op'[o] # op[o] /\ meta' # meta =>
               Store!Meta(o) = op[o].read]_Store!vars
    BY DEF StoreInv, StillSo, Store!At, Store!Meta
<1>2. QED
    BY <1>1, StoreInvariant, PTL DEF Store!Spec, Store!ConditionStillHolds, ConditionStillHolds

-----------------------------------------------------------------------------
(* The matches of a mission. *)

\* A rebuild of any state; idle ones are all alike.
Rebuild_ == [at : {"idle", "planning", "evaluating"}, asked : Nat, version : Nat,
             mission : BOOLEAN, stories : BOOLEAN, todo : SUBSET Stories, found : SUBSET Stories]

MissionType ==
    /\ version \in Nat /\ relevant \in SUBSET Stories /\ active \in BOOLEAN /\ owed \in BOOLEAN
    /\ ingest \in [Stories -> {"none", "stored", "scored", "stamped", "done"}]
    /\ former \in [Stories -> Nat] /\ matches \in SUBSET Stories /\ rebuilt \in Nat
    /\ rebuild \in [Rebuilds -> Rebuild_] /\ since \in [Rebuilds -> SUBSET Stories]

\* What each part has read is not newer than the mission, and at most one rebuild
\* was asked for by each version.
Versions ==
    /\ rebuilt <= version /\ \A s \in Stories : former[s] <= version
    /\ owed => rebuilt < version
    /\ \A r \in Missions!Marked :
           /\ rebuild[r].asked <= version /\ rebuild[r].version <= version
           /\ owed => rebuild[r].asked < version
           /\ rebuild[r].asked # rebuilt
           /\ \A q \in Missions!Marked : rebuild[q].asked = rebuild[r].asked => q = r

\* What is newer than a later watermark is newer than an earlier one.
Watermarks ==
    \A r, q \in Missions!Marked : rebuild[r].asked < rebuild[q].asked => since[q] \subseteq since[r]

\* A rebuild works on what it has planned.
Planned ==
    \A r \in Rebuilds :
        /\ Missions!At(r, "idle") => rebuild[r] = Missions!Idle /\ since[r] = {}
        /\ Missions!At(r, "planning") => ~(rebuild[r].mission /\ rebuild[r].stories) /\ rebuild[r].found = {}
        /\ Missions!At(r, "evaluating") => rebuild[r].mission /\ rebuild[r].stories
        /\ rebuild[r].mission /\ Missions!Unchanged(r) => rebuild[r].found \subseteq relevant

\* A rebuild that may yet commit, if it is of the current definition when it does.
Live(r)       == ~rebuild[r].mission \/ Missions!Unchanged(r)
Covered(r, s) ==
    \/ s \in rebuild[r].todo \/ s \in rebuild[r].found
    \/ s \in since[r] /\ (s \in matches \/ ingest[s] = "stamped")

\* A rebuild that has read the stories has each one whose match is recorded
\* under it, and each one that the matches must contain.
StampedCovered ==
    \A r \in Missions!Marked, s \in Stories :
        /\ rebuild[r].stories /\ Live(r) /\ ingest[s] = "stamped"
        /\ rebuild[r].mission => s \in relevant
        => Covered(r, s)

DoneCovered ==
    \A r \in Missions!Marked, s \in relevant :
        /\ active /\ rebuild[r].stories /\ Live(r) /\ ingest[s] = "done"
        /\ version \in {rebuilt, former[s], rebuild[r].asked}
        => Covered(r, s)

\* The matches contain what the current definition has matched, in a rebuild or
\* in the ingest.
NoneMissing ==
    active => \A s \in relevant : ingest[s] = "done" /\ version \in {rebuilt, former[s]} => s \in matches

\* What does not match the current definition was scored against a former one.
ScoredBefore(s, places) == former[s] < version /\ ingest[s] \in places

NoneForeign ==
    /\ \A s \in Stories : ingest[s] \in {"scored", "stamped"} => former[s] < version \/ s \in relevant
    /\ \A r \in Missions!Marked : rebuild[r].asked = version =>
           \A s \in since[r] \ relevant : ScoredBefore(s, {"stamped", "done"})
    /\ active /\ rebuilt = version =>
           \A s \in matches \ relevant : ScoredBefore(s, {"stamped", "done"})

MissionInv ==
    /\ MissionType /\ Versions /\ Watermarks /\ Planned
    /\ StampedCovered /\ DoneCovered /\ NoneMissing /\ NoneForeign

LEMMA MissionInit == Missions!Init => MissionInv
<1> SUFFICES ASSUME Missions!Init PROVE MissionInv
    OBVIOUS
<1>1. \A r \in Rebuilds : rebuild[r] = Missions!Idle /\ since[r] = {}
    BY DEF Missions!Init
<1>2. Missions!Idle \in Rebuild_ /\ Missions!Idle.at = "idle" /\ ~Missions!Idle.mission
    BY DEF Missions!Idle, Rebuild_
<1>3. Missions!Marked = {}
    BY <1>1, <1>2 DEF Missions!Marked, Missions!At
<1>4. MissionType
    BY <1>2 DEF Missions!Init, MissionType
<1>5. Planned
    BY <1>1, <1>2 DEF Planned, Missions!At
<1>6. Versions /\ Watermarks /\ StampedCovered /\ DoneCovered
    BY <1>3 DEF Missions!Init, Versions, Watermarks, StampedCovered, DoneCovered
<1>7. NoneMissing /\ NoneForeign
    BY <1>3 DEF Missions!Init, NoneMissing, NoneForeign
<1>8. QED
    BY <1>4, <1>5, <1>6, <1>7 DEF MissionInv

\* Marked, in terms of the state.
LEMMA MarkedIs == \A r : r \in Missions!Marked <=> r \in Rebuilds /\ rebuild[r].at # "idle"
BY DEF Missions!Marked, Missions!At

LEMMA UpdateKeeps ==
    ASSUME MissionInv, Missions!Update
    PROVE  MissionInv'
<1> USE DEF MissionInv
<1>1. /\ version \in Nat /\ version' = version + 1 /\ owed'
      /\ UNCHANGED <<ingest, former, matches, rebuild, since, rebuilt>>
    BY DEF Missions!Update, MissionType
<1>2. MissionType'
    BY <1>1 DEF MissionType, Missions!Update
<1>3. Missions!Marked' = Missions!Marked
    BY <1>1 DEF Missions!Marked, Missions!At
<1>4. /\ rebuilt <= version /\ rebuilt \in Nat
      /\ \A s \in Stories : former[s] <= version /\ former[s] \in Nat
      /\ \A r \in Missions!Marked :
             /\ rebuild[r].asked <= version /\ rebuild[r].version <= version
             /\ rebuild[r].asked \in Nat /\ rebuild[r].version \in Nat
    BY MarkedIs DEF MissionType, Versions, Rebuild_
<1>5. /\ rebuilt' < version' /\ \A s \in Stories : former'[s] < version'
      /\ \A r \in Missions!Marked :
             /\ rebuild'[r].asked < version' /\ rebuild'[r].asked # version'
             /\ rebuild'[r].version # version'
    <2>1. rebuilt' < version' /\ \A s \in Stories : former'[s] < version'
        BY <1>1, <1>4
    <2>2. ASSUME NEW r \in Missions!Marked
          PROVE  /\ rebuild'[r].asked < version' /\ rebuild'[r].asked # version'
                 /\ rebuild'[r].version # version'
        BY <1>1, <1>4
    <2>3. QED
        BY <2>1, <2>2
<1>a. rebuilt' # version' /\ \A s \in Stories : former'[s] # version'
    BY <1>1, <1>4
<1>6. Versions'
    BY <1>1, <1>3, <1>4, <1>5 DEF Versions
<1>7. Watermarks'
    BY <1>1, <1>3 DEF Watermarks
<1>8. Planned'
    <2>1. ASSUME NEW r \in Rebuilds, rebuild[r].mission PROVE rebuild'[r].version # version'
        <3>1. r \in Missions!Marked
            BY <2>1, MarkedIs DEF Planned, Missions!At, Missions!Idle
        <3>2. QED
            BY <1>5, <3>1
    <2>2. QED
        BY <1>1, <2>1 DEF Planned, Missions!At, Missions!Unchanged
<1>9. \A r \in Missions!Marked : Live(r)' => ~rebuild[r].mission
    BY <1>1, <1>5 DEF Live, Missions!Unchanged
<1>10. StampedCovered'
    BY <1>1, <1>3, <1>9 DEF StampedCovered, Covered, Live
<1>11. DoneCovered' /\ NoneMissing'
    <2>1. \A s \in relevant' : s \in Stories
        BY <1>2 DEF MissionType
    <2>2. QED
        BY <1>3, <1>5, <1>a, <2>1 DEF DoneCovered, NoneMissing
<1>12. NoneForeign'
    BY <1>3, <1>5, <1>a DEF NoneForeign, ScoredBefore
<1>13. QED
    BY <1>2, <1>6, <1>7, <1>8, <1>10, <1>11, <1>12

\* What the steps of an ingest leave as it is.
LEMMA MissionStays ==
    ASSUME MissionInv, UNCHANGED <<version, relevant, active, owed, rebuild, rebuilt>>,
           former' \in [Stories -> Nat], \A p \in Stories : former'[p] <= version
    PROVE  /\ Missions!Marked' = Missions!Marked
           /\ \A r : Live(r)' <=> Live(r)
           /\ Versions'
<1>1. Missions!Marked' = Missions!Marked
    BY DEF Missions!Marked, Missions!At
<1>2. \A r : Live(r)' <=> Live(r)
    BY DEF Live, Missions!Unchanged
<1>3. Versions'
    BY <1>1 DEF MissionInv, Versions
<1>4. QED
    BY <1>1, <1>2, <1>3

\* A story is stored, or scored: nothing is recorded yet.
LEMMA ScoreKeeps ==
    ASSUME MissionInv, NEW s \in Stories, Missions!Store(s) \/ Missions!Score(s)
    PROVE  MissionInv'
<1> USE DEF MissionInv
<1>1. /\ UNCHANGED <<version, relevant, active, owed, rebuild, rebuilt, matches, since>>
      /\ ingest[s] \in {"none", "stored"}
      /\ ingest'[s] \in {"stored", "scored", "done"}
      /\ ingest' \in [Stories -> {"none", "stored", "scored", "stamped", "done"}]
      /\ \A p \in Stories \ {s} : ingest'[p] = ingest[p] /\ former'[p] = former[p]
      /\ former'[s] \in {former[s], version} /\ former' \in [Stories -> Nat]
      /\ ingest'[s] = "done" => ~(active /\ s \in relevant)
      /\ ingest'[s] = "scored" => s \in relevant
    <2>1. CASE Missions!Store(s)
        BY <2>1 DEF Missions!Store, MissionType, Missions!mission
    <2>2. CASE Missions!Score(s)
        BY <2>2 DEF Missions!Score, MissionType, Missions!mission
    <2>3. QED
        BY <2>1, <2>2
<1>2. \A p \in Stories : former'[p] <= version
    BY <1>1 DEF Versions, MissionType
<1>3. /\ Missions!Marked' = Missions!Marked /\ \A r : Live(r)' <=> Live(r)
      /\ Versions'
    BY <1>1, <1>2, MissionStays
<1>4. MissionType' /\ Watermarks'
    BY <1>1, <1>3 DEF MissionType, Watermarks
<1>5. Planned'
    BY <1>1 DEF Planned, Missions!At, Missions!Unchanged
<1>6. \A r, p : p \in Stories \ {s} => (Covered(r, p)' <=> Covered(r, p))
    BY <1>1 DEF Covered
<1>7. StampedCovered'
    BY <1>1, <1>3, <1>6 DEF StampedCovered
<1>8. \A p \in relevant : p \in Stories
    BY DEF MissionType
<1>9. DoneCovered'
    <2>1. SUFFICES ASSUME NEW r \in Missions!Marked, NEW p \in relevant,
                          active, rebuild[r].stories, Live(r), ingest'[p] = "done",
                          version \in {rebuilt, former'[p], rebuild[r].asked}
                   PROVE  Covered(r, p)'
        BY <1>1, <1>3 DEF DoneCovered
    <2>2. p \in Stories \ {s}
        BY <1>1, <1>8, <2>1
    <2>3. QED
        BY <1>1, <1>6, <2>1, <2>2 DEF DoneCovered
<1>10. NoneMissing'
    BY <1>1, <1>8 DEF NoneMissing
<1>11. NoneForeign'
    <2>1. \A p \in Stories : ScoredBefore(p, {"stamped", "done"}) => ScoredBefore(p, {"stamped", "done"})'
        BY <1>1 DEF ScoredBefore
    <2>2. (\A r \in Missions!Marked : since[r] \in SUBSET Stories) /\ matches \in SUBSET Stories
        BY MarkedIs DEF MissionType
    <2>3. \A p \in Stories : ingest'[p] \in {"scored", "stamped"} => former'[p] < version' \/ p \in relevant'
        BY <1>1 DEF NoneForeign
    <2>4. QED
        BY <1>1, <1>3, <2>1, <2>2, <2>3 DEF NoneForeign
<1>12. QED
    BY <1>3, <1>4, <1>5, <1>7, <1>9, <1>10, <1>11

\* The match gets its time, which is newer than every watermark.
LEMMA StampKeeps ==
    ASSUME MissionInv, NEW s \in Stories, Missions!Stamp(s)
    PROVE  MissionInv'
<1> USE DEF MissionInv
<1>1. /\ UNCHANGED <<version, relevant, active, owed, rebuild, rebuilt, matches, former>>
      /\ ingest[s] = "scored" /\ ingest'[s] = "stamped"
      /\ ingest' \in [Stories -> {"none", "stored", "scored", "stamped", "done"}]
      /\ \A p \in Stories \ {s} : ingest'[p] = ingest[p]
      /\ since' = [r \in Rebuilds |-> IF r \in Missions!Marked THEN since[r] \cup {s} ELSE since[r]]
    BY DEF Missions!Stamp, MissionType, Missions!mission
<1>2. /\ Missions!Marked' = Missions!Marked /\ \A r : Live(r)' <=> Live(r)
      /\ Versions'
    BY <1>1, MissionStays DEF MissionType, Versions
<1>3. /\ since' \in [Rebuilds -> SUBSET Stories]
      /\ \A r \in Missions!Marked : since'[r] = since[r] \cup {s}
      /\ \A r \in Rebuilds : r \notin Missions!Marked => since'[r] = since[r]
    BY <1>1, MarkedIs DEF MissionType
<1>4. MissionType' /\ Watermarks'
    BY <1>1, <1>2, <1>3 DEF MissionType, Watermarks
<1>5. Planned'
    BY <1>1, <1>3, MarkedIs DEF Planned, Missions!At, Missions!Unchanged
<1>6. ASSUME NEW r \in Missions!Marked, NEW p \in Stories, Covered(r, p) \/ p = s
      PROVE  Covered(r, p)'
    <2>1. CASE p = s
        BY <1>1, <1>3, <2>1 DEF Covered
    <2>2. CASE p # s /\ Covered(r, p)
        BY <1>1, <1>3, <2>2 DEF Covered
    <2>3. QED
        BY <1>6, <2>1, <2>2
<1>7. StampedCovered'
    <2>1. SUFFICES ASSUME NEW r \in Missions!Marked, NEW p \in Stories,
                          rebuild[r].stories, Live(r), ingest'[p] = "stamped",
                          rebuild[r].mission => p \in relevant
                   PROVE  Covered(r, p)'
        BY <1>1, <1>2 DEF StampedCovered
    <2>2. QED
        BY <1>1, <1>6, <2>1 DEF StampedCovered
<1>8. \A p \in relevant : p \in Stories
    BY DEF MissionType
<1>9. DoneCovered'
    <2>1. SUFFICES ASSUME NEW r \in Missions!Marked, NEW p \in relevant,
                          active, rebuild[r].stories, Live(r), ingest'[p] = "done",
                          version \in {rebuilt, former[p], rebuild[r].asked}
                   PROVE  Covered(r, p)'
        BY <1>1, <1>2 DEF DoneCovered
    <2>2. QED
        BY <1>1, <1>6, <1>8, <2>1 DEF DoneCovered
<1>10. NoneMissing'
    BY <1>1, <1>8 DEF NoneMissing
<1>11. NoneForeign'
    <2>1. \A p \in Stories : ScoredBefore(p, {"stamped", "done"}) => ScoredBefore(p, {"stamped", "done"})'
        BY <1>1 DEF ScoredBefore
    <2>2. s \notin relevant => ScoredBefore(s, {"stamped", "done"})'
        BY <1>1 DEF NoneForeign, ScoredBefore
    <2>3. (\A r \in Missions!Marked : since[r] \in SUBSET Stories) /\ matches \in SUBSET Stories
        BY MarkedIs DEF MissionType
    <2>4. \A p \in Stories : ingest'[p] \in {"scored", "stamped"} => former'[p] < version' \/ p \in relevant'
        BY <1>1 DEF NoneForeign
    <2>5. ASSUME NEW r \in Missions!Marked, rebuild[r].asked = version, NEW p \in since'[r] \ relevant
          PROVE  ScoredBefore(p, {"stamped", "done"})'
        BY <1>3, <2>1, <2>2, <2>3, <2>5 DEF NoneForeign
    <2>6. QED
        BY <1>1, <1>2, <2>1, <2>3, <2>4, <2>5 DEF NoneForeign
<1>12. QED
    BY <1>2, <1>4, <1>5, <1>7, <1>9, <1>10, <1>11

\* The match is recorded.
LEMMA RecordKeeps ==
    ASSUME MissionInv, NEW s \in Stories, Missions!Record(s)
    PROVE  MissionInv'
<1> USE DEF MissionInv
<1>1. /\ UNCHANGED <<version, relevant, active, owed, rebuild, rebuilt, since, former>>
      /\ ingest[s] = "stamped" /\ ingest'[s] = "done"
      /\ ingest' \in [Stories -> {"none", "stored", "scored", "stamped", "done"}]
      /\ \A p \in Stories \ {s} : ingest'[p] = ingest[p]
      /\ matches' = matches \cup {s}
    BY DEF Missions!Record, MissionType, Missions!mission
<1>2. /\ Missions!Marked' = Missions!Marked /\ \A r : Live(r)' <=> Live(r)
      /\ Versions'
    BY <1>1, MissionStays DEF MissionType, Versions
<1>4. MissionType' /\ Watermarks'
    BY <1>1, <1>2 DEF MissionType, Watermarks
<1>5. Planned'
    BY <1>1 DEF Planned, Missions!At, Missions!Unchanged
<1>6. ASSUME NEW r \in Missions!Marked, NEW p \in Stories, Covered(r, p)
      PROVE  Covered(r, p)'
    <2>1. CASE p = s
        BY <1>1, <1>6, <2>1 DEF Covered
    <2>2. CASE p # s
        BY <1>1, <1>6, <2>2 DEF Covered
    <2>3. QED
        BY <2>1, <2>2
<1>7. StampedCovered'
    <2>1. SUFFICES ASSUME NEW r \in Missions!Marked, NEW p \in Stories,
                          rebuild[r].stories, Live(r), ingest'[p] = "stamped",
                          rebuild[r].mission => p \in relevant
                   PROVE  Covered(r, p)'
        BY <1>1, <1>2 DEF StampedCovered
    <2>2. QED
        BY <1>1, <1>6, <2>1 DEF StampedCovered
<1>8. \A p \in relevant : p \in Stories
    BY DEF MissionType
<1>9. DoneCovered'
    <2>1. SUFFICES ASSUME NEW r \in Missions!Marked, NEW p \in relevant,
                          active, rebuild[r].stories, Live(r), ingest'[p] = "done",
                          version \in {rebuilt, former[p], rebuild[r].asked}
                   PROVE  Covered(r, p)'
        BY <1>1, <1>2 DEF DoneCovered
    <2>2. CASE p = s
        BY <1>1, <1>6, <1>8, <2>1, <2>2 DEF StampedCovered
    <2>3. CASE p # s
        BY <1>1, <1>6, <1>8, <2>1, <2>3 DEF DoneCovered
    <2>4. QED
        BY <2>2, <2>3
<1>10. NoneMissing'
    BY <1>1, <1>8 DEF NoneMissing
<1>11. NoneForeign'
    <2>1. \A p \in Stories : ScoredBefore(p, {"stamped", "done"}) => ScoredBefore(p, {"stamped", "done"})'
        BY <1>1 DEF ScoredBefore
    <2>2. s \notin relevant => ScoredBefore(s, {"stamped", "done"})'
        BY <1>1 DEF NoneForeign, ScoredBefore
    <2>3. (\A r \in Missions!Marked : since[r] \in SUBSET Stories) /\ matches \in SUBSET Stories
        BY MarkedIs DEF MissionType
    <2>4. \A p \in Stories : ingest'[p] \in {"scored", "stamped"} => former'[p] < version' \/ p \in relevant'
        BY <1>1 DEF NoneForeign
    <2>5. QED
        BY <1>1, <1>2, <2>1, <2>2, <2>3, <2>4 DEF NoneForeign
<1>12. QED
    BY <1>2, <1>4, <1>5, <1>7, <1>9, <1>10, <1>11

\* A step of rebuild r changes the state of the others in nothing.
LEMMA RebuildIs ==
    ASSUME MissionInv, NEW r \in Rebuilds, NEW x \in Rebuild_,
           rebuild' = [rebuild EXCEPT ![r] = x], UNCHANGED version
    PROVE  /\ rebuild' \in [Rebuilds -> Rebuild_] /\ rebuild'[r] = x
           /\ \A q \in Rebuilds \ {r} : rebuild'[q] = rebuild[q] /\ (Live(q)' <=> Live(q))
           /\ Live(r)' <=> ~x.mission \/ x.version = version
           /\ \A q : q \in Missions!Marked' <=> \/ q \in Missions!Marked \ {r}
                                                \/ q = r /\ x.at # "idle"
<1>1. /\ rebuild' \in [Rebuilds -> Rebuild_] /\ rebuild'[r] = x
      /\ \A q \in Rebuilds \ {r} : rebuild'[q] = rebuild[q]
    BY DEF MissionInv, MissionType
<1>2. \A q \in Rebuilds \ {r} : Live(q)' <=> Live(q)
    BY <1>1 DEF Live, Missions!Unchanged
<1>3. Live(r)' <=> ~x.mission \/ x.version = version
    BY <1>1 DEF Live, Missions!Unchanged
<1>4. \A q : q \in Missions!Marked' <=> \/ q \in Missions!Marked \ {r}
                                        \/ q = r /\ x.at # "idle"
    BY <1>1 DEF Missions!Marked, Missions!At
<1>5. QED
    BY <1>1, <1>2, <1>3, <1>4

\* A rebuild fails or gives up, and nothing is changed.
LEMMA FailKeeps ==
    ASSUME MissionInv, NEW r \in Rebuilds, Missions!Fail(r),
           UNCHANGED <<version, relevant, active, owed, ingest, former, matches, rebuilt>>
    PROVE  MissionInv'
<1> USE DEF MissionInv
<1>1. /\ Missions!Idle \in Rebuild_ /\ Missions!Idle.at = "idle" /\ ~Missions!Idle.mission
      /\ rebuild' = [rebuild EXCEPT ![r] = Missions!Idle]
      /\ since' \in [Rebuilds -> SUBSET Stories] /\ since'[r] = {}
      /\ \A q \in Rebuilds \ {r} : since'[q] = since[q]
    BY DEF Missions!Idle, Rebuild_, Missions!Fail, MissionType
<1>2. /\ rebuild' \in [Rebuilds -> Rebuild_] /\ rebuild'[r] = Missions!Idle
      /\ \A q \in Rebuilds \ {r} : rebuild'[q] = rebuild[q] /\ (Live(q)' <=> Live(q))
      /\ \A q : q \in Missions!Marked' <=> q \in Missions!Marked \ {r}
    BY <1>1, RebuildIs
<1>3. MissionType'
    BY <1>1, <1>2 DEF MissionType
<1>4. \A q \in Missions!Marked' :
          /\ q \in Rebuilds \ {r} /\ q \in Missions!Marked
          /\ rebuild'[q] = rebuild[q] /\ since'[q] = since[q] /\ (Live(q)' <=> Live(q))
    BY <1>1, <1>2, MarkedIs
<1>5. Versions' /\ Watermarks'
    BY <1>4 DEF Versions, Watermarks
<1>6. Planned'
    BY <1>1, <1>2 DEF Planned, Missions!At, Missions!Unchanged
<1>7. \A q \in Missions!Marked' : \A s : Covered(q, s) => Covered(q, s)'
    BY <1>4 DEF Covered
<1>8. StampedCovered' /\ DoneCovered'
    <2>1. \A s \in relevant : s \in Stories
        BY DEF MissionType
    <2>2. StampedCovered'
        BY <1>4, <1>7 DEF StampedCovered
    <2>3. DoneCovered'
        BY <1>4, <1>7 DEF DoneCovered
    <2>4. QED
        BY <2>2, <2>3
<1>9. NoneMissing' /\ NoneForeign'
    BY <1>4 DEF NoneMissing, NoneForeign, ScoredBefore
<1>10. QED
    BY <1>3, <1>5, <1>6, <1>8, <1>9

\* A rebuild goes on: x is what it has then read.
LEMMA GoOnKeeps ==
    ASSUME MissionInv, NEW r \in Missions!Marked, NEW x \in Rebuild_,
           rebuild' = [rebuild EXCEPT ![r] = x],
           UNCHANGED <<version, relevant, active, owed, ingest, former, matches, since, rebuilt>>,
           x.at # "idle", x.asked = rebuild[r].asked, rebuild[r].mission => x.mission, x.version <= version,
           x.at = "planning" => ~(x.mission /\ x.stories) /\ x.found = {},
           x.at = "evaluating" => x.mission /\ x.stories,
           x.mission /\ x.version = version => x.found \subseteq relevant,
           \A s \in Stories :
               /\ x.stories /\ (~x.mission \/ x.version = version)
               /\ ingest[s] \in {"stamped", "done"}
               /\ x.mission => s \in relevant
               => \/ s \in x.todo \/ s \in x.found
                  \/ /\ rebuild[r].stories /\ Live(r)
                     /\ s \notin rebuild[r].todo /\ s \notin rebuild[r].found
    PROVE  MissionInv'
<1> USE DEF MissionInv
<1>1. r \in Rebuilds
    BY MarkedIs
<1>2. /\ rebuild' \in [Rebuilds -> Rebuild_] /\ rebuild'[r] = x
      /\ \A q \in Rebuilds \ {r} : rebuild'[q] = rebuild[q] /\ (Live(q)' <=> Live(q))
      /\ Live(r)' <=> ~x.mission \/ x.version = version
      /\ \A q : q \in Missions!Marked' <=> q \in Missions!Marked
    BY <1>1, RebuildIs
<1>3. MissionType'
    BY <1>2 DEF MissionType
<1>4. \A q \in Missions!Marked :
          /\ q # r => q \in Rebuilds \ {r} /\ rebuild'[q] = rebuild[q] /\ (Live(q)' <=> Live(q))
          /\ rebuild'[q].asked = rebuild[q].asked
    BY <1>2, MarkedIs
<1>5. Versions' /\ Watermarks'
    BY <1>2, <1>4 DEF Versions, Watermarks
<1>6. Planned'
    BY <1>2 DEF Planned, Missions!At, Missions!Unchanged
<1>7. \A q \in Missions!Marked : \A s : q # r /\ Covered(q, s) => Covered(q, s)'
    BY <1>4 DEF Covered
<1>8. ASSUME NEW s \in Stories, s \in x.todo \/ s \in x.found
      PROVE  Covered(r, s)'
    BY <1>2, <1>8 DEF Covered
<1>9. ASSUME NEW s \in Stories, Covered(r, s), s \notin rebuild[r].todo, s \notin rebuild[r].found
      PROVE  Covered(r, s)'
    BY <1>9 DEF Covered
<1>10. StampedCovered'
    <2>1. SUFFICES ASSUME NEW q \in Missions!Marked, NEW s \in Stories,
                          rebuild'[q].stories, Live(q)', ingest[s] = "stamped",
                          rebuild'[q].mission => s \in relevant
                   PROVE  Covered(q, s)'
        BY <1>2 DEF StampedCovered
    <2>2. CASE q # r
        BY <1>4, <1>7, <2>1, <2>2 DEF StampedCovered
    <2>3. CASE q = r /\ (s \in x.todo \/ s \in x.found)
        BY <1>8, <2>3
    <2>4. CASE q = r /\ ~(s \in x.todo \/ s \in x.found)
        <3>1. /\ x.stories /\ (~x.mission \/ x.version = version)
              /\ x.mission => s \in relevant
            BY <1>2, <2>1, <2>4
        <3>2. /\ rebuild[r].stories /\ Live(r)
              /\ s \notin rebuild[r].todo /\ s \notin rebuild[r].found
            BY <2>1, <2>4, <3>1
        <3>3. rebuild[r].mission => s \in relevant
            BY <3>1
        <3>4. Covered(r, s)
            BY <2>1, <3>2, <3>3 DEF StampedCovered
        <3>5. QED
            BY <1>9, <2>4, <3>2, <3>4
    <2>5. QED
        BY <2>2, <2>3, <2>4
<1>11. DoneCovered'
    <2>1. SUFFICES ASSUME NEW q \in Missions!Marked, NEW s \in relevant,
                          active, rebuild'[q].stories, Live(q)', ingest[s] = "done",
                          version \in {rebuilt, former[s], rebuild[q].asked}
                   PROVE  Covered(q, s)'
        BY <1>2, <1>4 DEF DoneCovered
    <2>a. s \in Stories
        BY DEF MissionType
    <2>2. CASE q # r
        BY <1>4, <1>7, <2>1, <2>2 DEF DoneCovered
    <2>3. CASE q = r /\ (s \in x.todo \/ s \in x.found)
        BY <1>8, <2>a, <2>3
    <2>4. CASE q = r /\ ~(s \in x.todo \/ s \in x.found)
        <3>1. /\ rebuild[r].stories /\ Live(r)
              /\ s \notin rebuild[r].todo /\ s \notin rebuild[r].found
            BY <1>2, <2>1, <2>a, <2>4
        <3>2. Covered(r, s)
            BY <2>1, <2>4, <3>1 DEF DoneCovered
        <3>3. QED
            BY <1>9, <2>a, <2>4, <3>1, <3>2
    <2>5. QED
        BY <2>2, <2>3, <2>4
<1>12. NoneMissing' /\ NoneForeign'
    BY <1>2, <1>4 DEF NoneMissing, NoneForeign, ScoredBefore
<1>13. QED
    BY <1>3, <1>5, <1>6, <1>10, <1>11, <1>12

\* The mission or the stories are read.
LEMMA ReadsKeep ==
    ASSUME MissionInv, NEW r \in Rebuilds, Missions!ReadMission(r) \/ Missions!ReadStories(r)
    PROVE  MissionInv'
<1> USE DEF MissionInv
<1>1. /\ UNCHANGED <<version, relevant, active, owed, ingest, former, matches, since, rebuilt>>
      /\ rebuild[r] \in Rebuild_ /\ rebuild[r].at = "planning" /\ r \in Missions!Marked
      /\ rebuild[r].found = {}
    BY MarkedIs DEF Missions!ReadMission, Missions!ReadStories, Missions!mission, Missions!At, MissionType,
       Planned
<1>2. version \in Nat /\ rebuild[r].version <= version
    BY <1>1 DEF MissionType, Versions
<1>3. ASSUME NEW y \in Rebuild_, Missions!Planning(r, y), y.at = "planning",
             y.asked = rebuild[r].asked, rebuild[r].mission => y.mission,
             y.version <= version, y.found = {},
             \/ /\ y.mission /\ y.version = version /\ ~rebuild[r].mission
                /\ y.stories = rebuild[r].stories /\ y.todo = rebuild[r].todo
             \/ y.todo = {s \in Stories : ingest[s] # "none"}
      PROVE  MissionInv'
    <2> DEFINE x == IF y.mission /\ y.stories THEN [y EXCEPT !.at = "evaluating"] ELSE y
    <2>1. rebuild' = [rebuild EXCEPT ![r] = x]
        BY <1>3 DEF Missions!Planning
    <2>2. /\ x \in Rebuild_ /\ x.asked = y.asked /\ x.version = y.version /\ x.mission = y.mission
          /\ x.stories = y.stories /\ x.todo = y.todo /\ x.found = y.found
          /\ x.at = IF y.mission /\ y.stories THEN "evaluating" ELSE "planning"
        BY <1>3 DEF Rebuild_
    <2> HIDE DEF x
    <2>3. ASSUME NEW s \in Stories, x.stories, ingest[s] \in {"stamped", "done"}
          PROVE  \/ s \in x.todo \/ s \in x.found
                 \/ /\ rebuild[r].stories /\ Live(r)
                    /\ s \notin rebuild[r].todo /\ s \notin rebuild[r].found
        BY <1>1, <1>3, <2>2, <2>3 DEF Live
    <2>4. /\ x.at # "idle" /\ x.asked = rebuild[r].asked /\ x.version <= version
          /\ rebuild[r].mission => x.mission
          /\ x.at = "planning" => ~(x.mission /\ x.stories) /\ x.found = {}
          /\ x.at = "evaluating" => x.mission /\ x.stories
          /\ x.mission /\ x.version = version => x.found \subseteq relevant
        BY <1>3, <2>2
    <2>5. QED
        BY <1>1, <2>1, <2>2, <2>3, <2>4, GoOnKeeps
<1>4. CASE Missions!ReadMission(r)
    <2> DEFINE y == [rebuild[r] EXCEPT !.mission = TRUE, !.version = version]
    <2>1. Missions!Planning(r, y) /\ ~rebuild[r].mission
        BY <1>4 DEF Missions!ReadMission
    <2>2. /\ y \in Rebuild_ /\ y.mission /\ y.version = version /\ y.at = rebuild[r].at
          /\ y.asked = rebuild[r].asked /\ y.found = rebuild[r].found
          /\ y.stories = rebuild[r].stories /\ y.todo = rebuild[r].todo
        BY <1>1, <1>2 DEF Rebuild_
    <2> HIDE DEF y
    <2>3. QED
        BY <1>1, <1>2, <1>3, <2>1, <2>2
<1>5. CASE Missions!ReadStories(r)
    <2> DEFINE stories == {s \in Stories : ingest[s] # "none"}
               y       == [rebuild[r] EXCEPT !.stories = TRUE, !.todo = stories]
    <2>1. Missions!Planning(r, y)
        BY <1>5 DEF Missions!ReadStories
    <2>2. /\ y \in Rebuild_ /\ y.todo = stories /\ y.at = rebuild[r].at
          /\ y.asked = rebuild[r].asked /\ y.found = rebuild[r].found
          /\ y.mission = rebuild[r].mission /\ y.version = rebuild[r].version
        BY <1>1, <1>2 DEF Rebuild_
    <2> HIDE DEF y
    <2>3. QED
        BY <1>1, <1>2, <1>3, <2>1, <2>2
<1>6. QED
    BY <1>4, <1>5

\* A page is evaluated.
LEMMA EvaluateKeeps ==
    ASSUME MissionInv, NEW r \in Rebuilds, Missions!Evaluate(r)
    PROVE  MissionInv'
<1> USE DEF MissionInv
<1>1. /\ UNCHANGED <<version, relevant, active, owed, ingest, former, matches, rebuilt>>
      /\ rebuild[r] \in Rebuild_ /\ rebuild[r].at = "evaluating" /\ r \in Missions!Marked
      /\ rebuild[r].mission /\ rebuild[r].stories
      /\ rebuild \in [Rebuilds -> Rebuild_]
    BY MarkedIs DEF Missions!Evaluate, Missions!mission, Missions!At, MissionType, Planned
<1>2. PICK s \in rebuild[r].todo :
          \/ /\ Missions!Unchanged(r) /\ since' = since
             /\ rebuild' = [rebuild EXCEPT ![r].todo = @ \ {s}, ![r].found = @ \cup (relevant \cap {s})]
          \/ Missions!Fail(r)
    BY DEF Missions!Evaluate
<1>3. CASE Missions!Fail(r)
    BY <1>1, <1>3, FailKeeps
<1>4. CASE /\ Missions!Unchanged(r) /\ since' = since
           /\ rebuild' = [rebuild EXCEPT ![r].todo = @ \ {s}, ![r].found = @ \cup (relevant \cap {s})]
    <2> DEFINE todo  == rebuild[r].todo \ {s}
               found == rebuild[r].found \cup (relevant \cap {s})
               x     == [rebuild[r] EXCEPT !.todo = todo, !.found = found]
    <2>1. rebuild' = [rebuild EXCEPT ![r] = x]
        <3>1. rebuild' = [rebuild EXCEPT ![r] = [[rebuild[r] EXCEPT !.todo = todo] EXCEPT !.found = found]]
            BY <1>1, <1>4 DEF Rebuild_
        <3>2. [[rebuild[r] EXCEPT !.todo = todo] EXCEPT !.found = found] = x
            BY <1>1 DEF Rebuild_
        <3>3. QED
            BY <3>1, <3>2
    <2>2. /\ relevant \in SUBSET Stories /\ rebuild[r].found \subseteq relevant
          /\ rebuild[r].version = version /\ version \in Nat
        BY <1>1, <1>4 DEF MissionType, Planned, Missions!Unchanged
    <2>3. /\ x \in Rebuild_ /\ x.at = "evaluating" /\ x.asked = rebuild[r].asked
          /\ x.version = version /\ x.mission /\ x.stories /\ x.todo = todo /\ x.found = found
        BY <1>1, <2>2 DEF Rebuild_
    <2> HIDE DEF x
    <2>4. Live(r)
        BY <1>4 DEF Live
    <2>5. ASSUME NEW p \in Stories, p \in relevant
          PROVE  \/ p \in x.todo \/ p \in x.found
                 \/ p \notin rebuild[r].todo /\ p \notin rebuild[r].found
        BY <2>3, <2>5
    <2>6. x.found \subseteq relevant /\ x.version <= version
        BY <2>2, <2>3
    <2> HIDE DEF todo, found
    <2>7. QED
        BY <1>1, <1>4, <2>1, <2>3, <2>4, <2>5, <2>6, GoOnKeeps
<1>5. QED
    BY <1>2, <1>3, <1>4

\* A rebuild begins with nothing newer than its watermark.
LEMMA LaunchKeeps ==
    ASSUME MissionInv, NEW r \in Rebuilds, Missions!Launch(r)
    PROVE  MissionInv'
<1> USE DEF MissionInv
<1> DEFINE x == [rebuild[r] EXCEPT !.at = "planning", !.asked = version]
<1>1. /\ UNCHANGED <<version, relevant, active, ingest, former, matches, since, rebuilt>>
      /\ owed /\ ~owed' /\ rebuild[r] = Missions!Idle /\ since[r] = {} /\ r \notin Missions!Marked
      /\ rebuild \in [Rebuilds -> Rebuild_] /\ version \in Nat /\ rebuild[r] \in Rebuild_
      /\ owed' \in BOOLEAN
    BY MarkedIs DEF Missions!Launch, Missions!At, MissionType, Planned
<1>2. rebuild' = [rebuild EXCEPT ![r] = x]
    <2>1. rebuild' = [rebuild EXCEPT ![r] = [[rebuild[r] EXCEPT !.at = "planning"] EXCEPT !.asked = version]]
        BY <1>1 DEF Missions!Launch
    <2>2. [[rebuild[r] EXCEPT !.at = "planning"] EXCEPT !.asked = version] = x
        BY <1>1 DEF Rebuild_
    <2>3. QED
        BY <2>1, <2>2
<1>3. /\ x \in Rebuild_ /\ x.at = "planning" /\ x.asked = version /\ x.version = 0
      /\ ~x.mission /\ ~x.stories /\ x.found = {}
    <2>1. /\ rebuild[r].version = 0 /\ rebuild[r].found = {}
          /\ rebuild[r].mission = FALSE /\ rebuild[r].stories = FALSE
        BY <1>1 DEF Missions!Idle
    <2>2. x \in Rebuild_ /\ x.at = "planning" /\ x.asked = version
        BY <1>1 DEF Rebuild_
    <2>3. /\ x.version = rebuild[r].version /\ x.found = rebuild[r].found
          /\ x.mission = rebuild[r].mission /\ x.stories = rebuild[r].stories
        BY <1>1 DEF Rebuild_
    <2>4. QED
        BY <2>1, <2>2, <2>3
<1> HIDE DEF x
<1>4. /\ rebuild' \in [Rebuilds -> Rebuild_] /\ rebuild'[r] = x
      /\ \A q \in Rebuilds \ {r} : rebuild'[q] = rebuild[q] /\ (Live(q)' <=> Live(q))
      /\ \A q : q \in Missions!Marked' <=> q \in Missions!Marked \/ q = r
    BY <1>1, <1>2, <1>3, RebuildIs
<1>5. MissionType'
    BY <1>1, <1>4 DEF MissionType
<1>6. \A q \in Missions!Marked :
          /\ q # r /\ q \in Rebuilds \ {r} /\ rebuild'[q] = rebuild[q] /\ (Live(q)' <=> Live(q))
          /\ rebuild[q].asked < version /\ rebuild[q].asked # version
          /\ rebuild[q].asked \in Nat
    BY <1>1, <1>4, MarkedIs DEF Versions, Rebuild_
<1>7. rebuilt < version /\ rebuilt # version /\ rebuilt \in Nat
    BY <1>1 DEF Versions, MissionType
<1>8. Versions'
    <2>1. ASSUME NEW q \in Missions!Marked'
          PROVE  /\ rebuild'[q].asked <= version /\ rebuild'[q].version <= version
                 /\ rebuild'[q].asked # rebuilt
                 /\ \A p \in Missions!Marked' : rebuild'[p].asked = rebuild'[q].asked => p = q
        <3>1. CASE q = r
            BY <1>1, <1>3, <1>4, <1>6, <1>7, <3>1
        <3>2. CASE q \in Missions!Marked
            BY <1>3, <1>4, <1>6, <3>2 DEF Versions
        <3>3. QED
            BY <1>4, <3>1, <3>2
    <2>2. QED
        BY <1>1, <2>1 DEF Versions
<1>9. Watermarks'
    <2>1. ASSUME NEW p \in Missions!Marked', NEW q \in Missions!Marked',
                 rebuild'[p].asked < rebuild'[q].asked
          PROVE  since[q] \subseteq since[p]
        <3>1. CASE q = r
            BY <1>1, <3>1
        <3>2. CASE q # r
            <4>1. q \in Missions!Marked
                BY <1>4, <3>2
            <4>2. p # r
                <5>1. SUFFICES ASSUME p = r PROVE FALSE
                    OBVIOUS
                <5>2. version < rebuild[q].asked
                    BY <1>3, <1>4, <1>6, <2>1, <4>1, <5>1
                <5>3. QED
                    BY <1>1, <1>6, <4>1, <5>2
            <4>3. QED
                BY <1>4, <1>6, <2>1, <4>1, <4>2 DEF Watermarks
        <3>3. QED
            BY <3>1, <3>2
    <2>2. QED
        BY <1>1, <2>1 DEF Watermarks
<1>10. Planned'
    BY <1>1, <1>3, <1>4 DEF Planned, Missions!At, Missions!Unchanged
<1>11. \A q \in Missions!Marked : \A s : Covered(q, s) => Covered(q, s)'
    BY <1>1, <1>6 DEF Covered
<1>12. ~rebuild'[r].stories
    BY <1>3, <1>4
<1>13. StampedCovered'
    BY <1>1, <1>4, <1>6, <1>11, <1>12 DEF StampedCovered
<1>14. DoneCovered'
    BY <1>1, <1>4, <1>6, <1>11, <1>12 DEF DoneCovered
<1>15. NoneMissing' /\ NoneForeign'
    BY <1>1, <1>4, <1>6 DEF NoneMissing, NoneForeign, ScoredBefore
<1>16. QED
    BY <1>5, <1>8, <1>9, <1>10, <1>13, <1>14, <1>15

\* A commit replaces the matches.
LEMMA CommitKeeps ==
    ASSUME MissionInv, NEW r \in Rebuilds, Missions!Commit(r)
    PROVE  MissionInv'
<1> USE DEF MissionInv
<1>1. /\ UNCHANGED <<version, relevant, active, owed, ingest, former>>
      /\ rebuild[r] \in Rebuild_ /\ rebuild[r].at = "evaluating" /\ rebuild[r].todo = {}
      /\ r \in Missions!Marked /\ rebuild[r].mission /\ rebuild[r].stories
      /\ rebuild' = [rebuild EXCEPT ![r] = Missions!Idle]
    BY MarkedIs DEF Missions!Commit, Missions!mission, Missions!At, MissionType, Planned
<1>2. CASE ~Missions!Unchanged(r)
    <2>1. Missions!Fail(r) /\ UNCHANGED <<matches, rebuilt>>
        BY <1>2 DEF Missions!Commit, Missions!Fail
    <2>2. QED
        BY <1>1, <2>1, FailKeeps
<1>3. CASE Missions!Unchanged(r)
    <2> DEFINE kept  == matches \cap since[r]
               found == rebuild[r].found
    <2>1. /\ matches' = kept \cup found
          /\ since' = [q \in Rebuilds |->
                         CASE q = r -> {}
                           [] q \in Missions!Marked \ {r} -> since[q] \cup (found \ kept)
                           [] OTHER -> since[q]]
          /\ rebuilt' = IF rebuild[r].asked > rebuilt THEN rebuild[r].asked ELSE rebuilt
        BY <1>3 DEF Missions!Commit, Missions!Kept
    <2>2. /\ since'[r] = {} /\ since' \in [Rebuilds -> SUBSET Stories]
          /\ \A q \in Missions!Marked \ {r} : since'[q] = since[q] \cup (found \ kept)
          /\ \A q \in Rebuilds \ {r} : q \notin Missions!Marked => since'[q] = since[q]
          /\ kept \cup found \in SUBSET Stories /\ found \subseteq relevant
        <3>1. /\ since \in [Rebuilds -> SUBSET Stories] /\ kept \in SUBSET Stories
              /\ found \in SUBSET Stories /\ found \subseteq relevant
            BY <1>1, <1>3 DEF MissionType, Rebuild_, Planned
        <3> HIDE DEF kept, found
        <3>2. QED
            BY <2>1, <3>1, MarkedIs
    <2>3. /\ Missions!Idle \in Rebuild_ /\ Missions!Idle.at = "idle" /\ ~Missions!Idle.mission
        BY DEF Missions!Idle, Rebuild_
    <2>4. /\ rebuild' \in [Rebuilds -> Rebuild_] /\ rebuild'[r] = Missions!Idle
          /\ \A q \in Rebuilds \ {r} : rebuild'[q] = rebuild[q] /\ (Live(q)' <=> Live(q))
          /\ \A q : q \in Missions!Marked' <=> q \in Missions!Marked \ {r}
        BY <1>1, <2>3, RebuildIs
    <2>5. \A q \in Missions!Marked' :
              /\ q \in Rebuilds \ {r} /\ q \in Missions!Marked /\ q # r
              /\ rebuild'[q] = rebuild[q] /\ (Live(q)' <=> Live(q))
              /\ since'[q] = since[q] \cup (found \ kept)
              /\ rebuild[q].asked \in Nat /\ rebuild[q].asked <= version
              /\ rebuild[q].asked # rebuild[r].asked
        BY <1>1, <2>2, <2>4, MarkedIs DEF Versions, MissionType, Rebuild_
    <2>6. /\ rebuilt \in Nat /\ version \in Nat /\ rebuild[r].asked \in Nat /\ rebuilt' \in Nat
          /\ rebuilt <= version /\ rebuild[r].asked <= version
          /\ rebuilt' \in {rebuilt, rebuild[r].asked}
          /\ rebuilt' = version <=> version \in {rebuilt, rebuild[r].asked}
          /\ owed => rebuilt < version /\ rebuild[r].asked < version
        BY <1>1, <2>1, SMTT(60) DEF MissionType, Versions, Rebuild_
    <2>7. MissionType'
        BY <1>1, <2>1, <2>2, <2>4, <2>6 DEF MissionType
    <2>8. Versions'
        <3>1. rebuilt' <= version /\ (owed => rebuilt' < version)
            BY <2>6
        <3>2. ASSUME NEW q \in Missions!Marked'
              PROVE  /\ rebuild'[q].asked <= version /\ rebuild'[q].version <= version
                     /\ owed => rebuild'[q].asked < version
                     /\ rebuild'[q].asked # rebuilt'
                     /\ \A p \in Missions!Marked' : rebuild'[p].asked = rebuild'[q].asked => p = q
            BY <2>5, <2>6 DEF Versions
        <3>3. QED
            BY <1>1, <3>1, <3>2 DEF Versions
    <2>9. Watermarks'
        BY <2>5 DEF Watermarks
    <2>10. Planned'
        BY <1>1, <2>2, <2>3, <2>4, MarkedIs DEF Planned, Missions!At, Missions!Unchanged
    <2>11. StampedCovered'
        <3>1. SUFFICES ASSUME NEW q \in Missions!Marked', NEW s \in Stories,
                              rebuild[q].stories, Live(q), ingest[s] = "stamped",
                              rebuild[q].mission => s \in relevant
                       PROVE  Covered(q, s)'
            BY <1>1, <2>5 DEF StampedCovered
        <3>2. Covered(q, s)
            BY <2>5, <3>1 DEF StampedCovered
        <3>3. QED
            BY <1>1, <2>5, <3>1, <3>2 DEF Covered
    <2>12. ASSUME NEW s \in relevant, active, ingest[s] = "done",
                  version \in {rebuilt, former[s], rebuild[r].asked}
           PROVE  s \in matches'
        <3>1. Covered(r, s)
            BY <1>1, <1>3, <2>12 DEF DoneCovered, Live
        <3>2. QED
            BY <1>1, <2>1, <2>12, <3>1 DEF Covered
    <2>13. DoneCovered'
        <3>1. SUFFICES ASSUME NEW q \in Missions!Marked', NEW s \in relevant,
                              active, rebuild[q].stories, Live(q), ingest[s] = "done",
                              version \in {rebuilt', former[s], rebuild[q].asked}
                       PROVE  Covered(q, s)'
            BY <1>1, <2>5 DEF DoneCovered
        <3>2. CASE s \in rebuild[q].todo \/ s \in rebuild[q].found
            BY <2>5, <3>2 DEF Covered
        <3>3. CASE s \in matches' /\ (s \in since[q] \/ s \in found \ kept)
            BY <2>5, <3>3 DEF Covered
        <3>4. CASE rebuild[r].asked = version
            <4>1. s \in matches'
                BY <2>12, <3>1, <3>4
            <4>2. since[r] \subseteq since[q]
                <5>1. rebuild[q].asked < rebuild[r].asked
                    BY <2>5, <2>6, <3>4
                <5>2. QED
                    BY <1>1, <2>5, <5>1 DEF Watermarks
            <4>3. QED
                BY <2>1, <3>3, <4>1, <4>2
        <3>5. CASE rebuild[r].asked # version
            <4>1. version \in {rebuilt, former[s], rebuild[q].asked}
                BY <2>6, <3>1, <3>5
            <4>2. Covered(q, s)
                BY <2>5, <3>1, <4>1 DEF DoneCovered
            <4>3. CASE s \in since[q] /\ s \in matches
                <5>1. CASE version \in {rebuilt, former[s]}
                    <6>1. s \in matches'
                        BY <2>12, <3>1, <5>1
                    <6>2. QED
                        BY <3>3, <4>3, <6>1
                <5>2. CASE version = rebuild[q].asked
                    <6>1. rebuild[r].asked < rebuild[q].asked
                        BY <2>6, <3>5, <5>2
                    <6>2. since[q] \subseteq since[r]
                        BY <1>1, <2>5, <6>1 DEF Watermarks
                    <6>3. QED
                        BY <2>1, <3>3, <4>3, <6>2
                <5>3. QED
                    BY <4>1, <5>1, <5>2
            <4>4. QED
                BY <3>1, <3>2, <4>2, <4>3 DEF Covered
        <3>6. QED
            BY <3>4, <3>5
    <2>14. NoneMissing'
        BY <1>1, <2>6, <2>12 DEF NoneMissing
    <2>15. NoneForeign'
        <3>1. ASSUME NEW q \in Missions!Marked', rebuild'[q].asked = version,
                     NEW s \in since'[q] \ relevant
              PROVE  ScoredBefore(s, {"stamped", "done"})
            BY <2>2, <2>5, <3>1 DEF NoneForeign
        <3>2. ASSUME active, rebuilt' = version, NEW s \in matches' \ relevant
              PROVE  ScoredBefore(s, {"stamped", "done"})
            <4>1. s \in matches \ relevant /\ s \in since[r] \ relevant
                BY <2>1, <2>2, <3>2
            <4>2. CASE rebuilt = version
                BY <3>2, <4>1, <4>2 DEF NoneForeign
            <4>3. CASE rebuild[r].asked = version
                BY <1>1, <4>1, <4>3 DEF NoneForeign
            <4>4. QED
                BY <2>6, <3>2, <4>2, <4>3
        <3>3. QED
            BY <1>1, <3>1, <3>2 DEF NoneForeign, ScoredBefore
    <2>16. QED
        BY <2>7, <2>8, <2>9, <2>10, <2>11, <2>13, <2>14, <2>15
<1>4. QED
    BY <1>2, <1>3

LEMMA MissionNext == ASSUME MissionInv, [Missions!Next]_Missions!vars PROVE MissionInv'
<1>1. ASSUME NEW s \in Stories,
             Missions!Store(s) \/ Missions!Score(s) \/ Missions!Stamp(s) \/ Missions!Record(s)
      PROVE  MissionInv'
    BY <1>1, ScoreKeeps, StampKeeps, RecordKeeps
<1>2. ASSUME NEW r \in Rebuilds, Missions!Abandon(r)
      PROVE  MissionInv'
    BY <1>2, FailKeeps DEF Missions!Abandon, Missions!mission
<1>3. ASSUME NEW r \in Rebuilds,
             \/ Missions!Launch(r) \/ Missions!ReadMission(r) \/ Missions!ReadStories(r)
             \/ Missions!Evaluate(r) \/ Missions!Commit(r) \/ Missions!Abandon(r)
      PROVE  MissionInv'
    BY <1>2, <1>3, LaunchKeeps, ReadsKeep, EvaluateKeeps, CommitKeeps
<1>4. CASE UNCHANGED Missions!vars
    BY <1>4 DEF Missions!vars, Missions!mission, MissionInv, MissionType, Versions, Watermarks, Planned,
       StampedCovered, DoneCovered, NoneMissing, NoneForeign, ScoredBefore, Covered, Live,
       Missions!Marked, Missions!At, Missions!Unchanged
<1>5. QED
    BY <1>1, <1>3, <1>4, UpdateKeeps DEF Missions!Next

LEMMA MissionInvariant == Missions!Spec => []MissionInv
<1>1. MissionInv /\ [Missions!Next]_Missions!vars => MissionInv'
    BY MissionNext
<1>2. QED
    BY <1>1, MissionInit, PTL DEF Missions!Spec

\* When the rebuild that was asked for the current definition of a mission has
\* committed, every story that matches is among its matches, however its ingest
\* and the rebuilds overlap, and no other is, but one scored before the
\* definition (replaceMissionStoryMatches and recordMissionMatch of db.ts).
THEOREM Matches_Current == Missions!Spec => []MatchesCurrent
<1>1. MissionInv => MatchesCurrent
    BY DEF MissionInv, MissionType, NoneMissing, NoneForeign, ScoredBefore,
       Missions!MatchesCurrent, MatchesCurrent
<1>2. QED
    BY <1>1, MissionInvariant, PTL

-----------------------------------------------------------------------------
(* The refresh of the memory graph. *)

Looking == {"look", "ask", "fail", "elect"}
Pending == {"spend", "create"}

Launch_ == [at : Looking \cup Pending \cup {"idle", "readRun", "writeRun", "await"},
            run : Launches \cup {None}, status : {"none", "queued", "running", "ended"}]

RefreshType ==
    /\ row \in [Launches -> {"queued", "running", "ended"}] /\ silent \in SUBSET Launches
    /\ launch \in [Launches -> Launch_] /\ exec \in [Launches -> Refresh!Working \cup {"none"}]

\* A launch that was elected and may yet start its execution, and an execution,
\* keep the run; there is one at a time.  Other active rows may be left over.
Owns(l) == launch[l].at \in Pending \/ exec[l] \in Refresh!Working

OneOwner ==
    \A l \in Launches : Owns(l) => /\ row[l] \in {"queued", "running"}
                                   /\ \A m \in Launches : Owns(m) => m = l

\* A launch starts its own execution only, and does not revive a run as ended
\* that is executed; the run it has found silent has no launch any more, nor an
\* execution once it was asked for.
Started ==
    \A l \in Launches :
        /\ launch[l].at \in Looking \cup Pending => exec[l] \notin Refresh!Working
        /\ launch[l].at = "writeRun" =>
               /\ launch[l].status # "none"
               /\ exec[l] \in Refresh!Working => launch[l].status # "ended"
        /\ launch[l].at \in {"ask", "fail"} =>
               /\ launch[l].run \in Launches
               /\ launch[launch[l].run] = Refresh!Idle
        /\ launch[l].at = "fail" => exec[launch[l].run] \notin Refresh!Working
        /\ l \in silent => launch[l] = Refresh!Idle /\ row[l] \in {"queued", "running"}

\* Nothing goes on in a process that was killed.
Stopped ==
    up = "down" => \A l \in Launches : launch[l] = Refresh!Idle /\ exec[l] = "none"

RefreshInv == RefreshType /\ OneOwner /\ Started /\ Stopped

LEMMA RefreshInit == Refresh!Init => RefreshInv
BY DEF Refresh!Init, RefreshInv, RefreshType, OneOwner, Started, Stopped, Owns, Refresh!Idle, Launch_,
  Refresh!Working, Looking, Pending

LEMMA IdleLaunch ==
    Refresh!Idle \in Launch_ /\ Refresh!Idle.at = "idle" /\ Refresh!Idle.run = None
BY DEF Refresh!Idle, Launch_

\* What a step of launch or execution l has to observe: x and e are what becomes
\* of them.  A run is owned from when none is active to when its own step ends
\* it, and the run of a launch that asks is nobody else's.
RefreshStep(l, x, e) ==
    /\ x \in Launch_ /\ launch' = [launch EXCEPT ![l] = x]
    /\ e \in Refresh!Working \cup {"none"} /\ exec' = [exec EXCEPT ![l] = e]
    /\ row' \in [Launches -> {"queued", "running", "ended"}] /\ silent' \in SUBSET silent
    /\ up' = up /\ (up = "down" => x = Refresh!Idle /\ e = "none")
    /\ \A m \in Launches \ {l} : row'[m] = row[m] \/ ~Owns(m)
    /\ \A m \in silent' : row'[m] \in {"queued", "running"}
    /\ x.at \in Pending \/ e \in Refresh!Working =>
           /\ row'[l] \in {"queued", "running"}
           /\ Owns(l) \/ Refresh!ActiveRuns = {}
    /\ x.at \in Looking \cup Pending => e \notin Refresh!Working
    /\ x.at = "writeRun" => /\ x.status # "none"
                            /\ e \in Refresh!Working => x.status # "ended"
    /\ x.at \in {"ask", "fail"} =>
           x.run \in Launches /\ x.run # l /\ launch[x.run] = Refresh!Idle
    /\ x.at = "fail" => exec[x.run] \notin Refresh!Working
    /\ x # Refresh!Idle => launch[l] # Refresh!Idle \/ ~Refresh!Looked(l)
    /\ x # Refresh!Idle => l \notin silent
    /\ e \in Refresh!Working => exec[l] \in Refresh!Working \/ launch[l] # Refresh!Idle

LEMMA RefreshKeeps ==
    ASSUME RefreshInv, NEW l \in Launches, NEW x, NEW e, RefreshStep(l, x, e)
    PROVE  RefreshInv'
<1> USE DEF RefreshInv
<1>1. /\ launch' \in [Launches -> Launch_] /\ launch'[l] = x
      /\ \A m \in Launches \ {l} : launch'[m] = launch[m]
      /\ exec' \in [Launches -> Refresh!Working \cup {"none"}] /\ exec'[l] = e
      /\ \A m \in Launches \ {l} : exec'[m] = exec[m]
    BY DEF RefreshStep, RefreshType
<1>2. RefreshType'
    BY <1>1 DEF RefreshStep, RefreshType
<1>3. OneOwner'
    <2>1. \A m \in Launches \ {l} : Owns(m)' <=> Owns(m)
        BY <1>1 DEF Owns
    <2>2. Owns(l)' <=> x.at \in Pending \/ e \in Refresh!Working
        BY <1>1 DEF Owns
    <2>3. ASSUME NEW m \in Launches, Owns(m) PROVE Refresh!ActiveRuns # {}
        BY <2>3 DEF OneOwner, Refresh!ActiveRuns, Refresh!Active
    <2>4. ASSUME NEW m \in Launches, Owns(m)' PROVE row'[m] \in {"queued", "running"}
        <3>1. CASE m = l
            BY <2>2, <2>4, <3>1 DEF RefreshStep
        <3>2. CASE m # l
            BY <2>1, <2>4, <3>2 DEF RefreshStep, OneOwner
        <3>3. QED
            BY <3>1, <3>2
    <2>5. ASSUME NEW m \in Launches, NEW n \in Launches, Owns(m)', Owns(n)', m # n PROVE FALSE
        <3>1. CASE m # l /\ n # l
            BY <2>1, <2>5, <3>1 DEF OneOwner
        <3>2. CASE m = l
            <4>1. Owns(n) /\ n # l
                BY <2>1, <2>5, <3>2
            <4>2. Owns(l)
                BY <2>2, <2>3, <2>5, <3>2, <4>1 DEF RefreshStep
            <4>3. QED
                BY <4>1, <4>2 DEF OneOwner
        <3>3. CASE n = l
            <4>1. Owns(m) /\ m # l
                BY <2>1, <2>5, <3>3
            <4>2. Owns(l)
                BY <2>2, <2>3, <2>5, <3>3, <4>1 DEF RefreshStep
            <4>3. QED
                BY <4>1, <4>2 DEF OneOwner
        <3>4. QED
            BY <3>1, <3>2, <3>3
    <2>6. QED
        BY <2>4, <2>5 DEF OneOwner
<1>4. Started'
    <2>1. ASSUME NEW m \in Launches, m # l, launch[m].at \in {"ask", "fail"}
          PROVE  /\ launch[m].run \in Launches /\ launch'[launch[m].run] = Refresh!Idle
                 /\ launch[m].at = "fail" => exec'[launch[m].run] \notin Refresh!Working
        <3>1. /\ launch[m].run \in Launches /\ launch[launch[m].run] = Refresh!Idle
              /\ launch[m].at = "fail" => exec[launch[m].run] \notin Refresh!Working
            BY <2>1 DEF Started
        <3>2. CASE launch[m].run = l
            <4>1. Refresh!Looked(l)
                BY <3>2 DEF Refresh!Looked
            <4>2. QED
                BY <1>1, <3>1, <3>2, <4>1 DEF RefreshStep
        <3>3. CASE launch[m].run # l
            BY <1>1, <3>1, <3>3
        <3>4. QED
            BY <3>2, <3>3
    <2>2. ASSUME x.at \in {"ask", "fail"}
          PROVE  /\ x.run \in Launches /\ launch'[x.run] = Refresh!Idle
                 /\ x.at = "fail" => exec'[x.run] \notin Refresh!Working
        BY <1>1, <2>2 DEF RefreshStep
    <2>3. \A m \in Launches : m \in silent' => launch'[m] = Refresh!Idle /\ row'[m] \in {"queued", "running"}
        BY <1>1 DEF RefreshStep, Started
    <2>4. ASSUME NEW m \in Launches
          PROVE  /\ launch'[m].at \in Looking \cup Pending => exec'[m] \notin Refresh!Working
                 /\ launch'[m].at = "writeRun" =>
                        /\ launch'[m].status # "none"
                        /\ exec'[m] \in Refresh!Working => launch'[m].status # "ended"
                 /\ launch'[m].at \in {"ask", "fail"} =>
                        /\ launch'[m].run \in Launches
                        /\ launch'[launch'[m].run] = Refresh!Idle
                 /\ launch'[m].at = "fail" => exec'[launch'[m].run] \notin Refresh!Working
        <3>1. CASE m = l
            BY <1>1, <2>2, <3>1 DEF RefreshStep
        <3>2. CASE m # l
            BY <1>1, <2>1, <3>2 DEF Started
        <3>3. QED
            BY <3>1, <3>2
    <2>5. Refresh!Idle' = Refresh!Idle
        BY DEF Refresh!Idle
    <2> HIDE DEF RefreshInv
    <2>6. QED
        BY <2>3, <2>4, <2>5 DEF Started
<1>5. Stopped'
    BY <1>1 DEF RefreshStep, Stopped
<1>6. QED
    BY <1>2, <1>3, <1>4, <1>5

\* A launch or an execution and its place, before and after a step.
LEMMA GotoRefresh ==
    ASSUME RefreshType, NEW l \in Launches,
           NEW at \in Looking \cup Pending \cup {"idle", "readRun", "writeRun", "await"},
           Refresh!Goto(l, at)
    PROVE  \E x \in Launch_ : /\ launch' = [launch EXCEPT ![l] = x]
                              /\ x.at = at /\ x.run = launch[l].run /\ x.status = launch[l].status
<1> DEFINE x == [launch[l] EXCEPT !.at = at]
<1>1. launch[l] \in Launch_ /\ launch' = [launch EXCEPT ![l] = x]
    BY DEF RefreshType, Refresh!Goto
<1>2. x \in Launch_ /\ x.at = at /\ x.run = launch[l].run /\ x.status = launch[l].status
    BY <1>1 DEF Launch_
<1>3. QED
    BY <1>1, <1>2

LEMMA RefreshFacts ==
    ASSUME RefreshInv, NEW l \in Launches
    PROVE  /\ launch[l] \in Launch_ /\ exec[l] \in Refresh!Working \cup {"none"}
           /\ row[l] \in {"queued", "running", "ended"}
           /\ row \in [Launches -> {"queued", "running", "ended"}] /\ silent \in SUBSET Launches
           /\ launch \in [Launches -> Launch_] /\ RefreshType
           /\ exec \in [Launches -> Refresh!Working \cup {"none"}]
           /\ launch[l].at \in Looking \cup Pending => exec[l] \notin Refresh!Working
           /\ launch[l].at # "idle" => launch[l] # Refresh!Idle /\ l \notin silent /\ up # "down"
           /\ exec[l] \in Refresh!Working => up # "down"
           /\ Owns(l) => row[l] \in {"queued", "running"}
BY IdleLaunch DEF RefreshInv, RefreshType, OneOwner, Started, Stopped, Refresh!Working

\* A launch returns, fails or goes on without having been elected yet, and
\* changes nothing else; with y it goes on to another place.
LEMMA LaunchGoesOn ==
    ASSUME RefreshInv, NEW l \in Launches, NEW x \in Launch_,
           launch' = [launch EXCEPT ![l] = x],
           UNCHANGED <<exec, up>>,
           row' \in [Launches -> {"queued", "running", "ended"}], silent' \in SUBSET silent,
           \A m \in Launches : row'[m] = row[m] \/ (m # l /\ ~Owns(m)),
           \A m \in silent' : row'[m] = row[m],
           x = Refresh!Idle \/ launch[l] # Refresh!Idle
                            \/ (up # "down" /\ ~Refresh!Looked(l) /\ l \notin silent),
           x.at \in Pending => launch[l].at \in Pending,
           x.at \in Looking \cup Pending => exec[l] \notin Refresh!Working,
           x.at = "writeRun" => x.status = row[l],
           x.at \in {"ask", "fail"} =>
               x.run \in Launches /\ x.run # l /\ launch[x.run] = Refresh!Idle,
           x.at = "fail" => exec[x.run] \notin Refresh!Working
    PROVE  RefreshInv'
<1>1. exec' = [exec EXCEPT ![l] = exec[l]] /\ exec[l] \in Refresh!Working \cup {"none"}
    BY RefreshFacts
<1>2. up = "down" => x = Refresh!Idle /\ exec[l] = "none"
    BY DEF RefreshInv, Stopped
<1>3. /\ x # Refresh!Idle => l \notin silent
      /\ exec[l] \in Refresh!Working => row[l] \in {"queued", "running"}
      /\ launch[l].at \in Pending => row[l] \in {"queued", "running"}
      /\ row[l] # "none"
    BY DEF RefreshInv, RefreshType, Started, OneOwner, Owns
<1>4. x.at \in Pending \/ exec[l] \in Refresh!Working => row'[l] \in {"queued", "running"} /\ Owns(l)
    BY <1>3 DEF Owns
<1>a. \A m \in silent' : row'[m] \in {"queued", "running"}
    BY DEF RefreshInv, RefreshType, Started
<1>5. RefreshStep(l, x, exec[l])
    BY <1>1, <1>2, <1>3, <1>4, <1>a DEF RefreshStep
<1>6. QED
    BY <1>1, <1>5, RefreshKeeps

LEMMA AskAllowanceIs ==
    ASSUME RefreshInv, NEW l \in Launches, Refresh!AskAllowance(l)
    PROVE  \E x \in Launch_ : /\ launch' = [launch EXCEPT ![l] = x]
                              /\ x.at \in {"idle", "elect"}
                              /\ x.at = "idle" => x = Refresh!Idle
<1>1. launch \in [Launches -> Launch_] /\ launch[l] \in Launch_
    BY RefreshFacts
<1>2. CASE spent
    BY <1>2, IdleLaunch DEF Refresh!AskAllowance, Refresh!Return
<1>3. CASE ~spent
    <2> DEFINE x == [launch[l] EXCEPT !.at = "elect", !.run = None]
    <2>1. x \in Launch_ /\ x.at = "elect"
        BY <1>1 DEF Launch_, Looking
    <2>2. launch' = [launch EXCEPT ![l] = [[launch[l] EXCEPT !.at = "elect"] EXCEPT !.run = None]]
        BY <1>1, <1>3 DEF Refresh!AskAllowance
    <2>3. [[launch[l] EXCEPT !.at = "elect"] EXCEPT !.run = None] = x
        BY <1>1 DEF Launch_
    <2>4. QED
        BY <2>1, <2>2, <2>3
<1>4. QED
    BY <1>2, <1>3

LEMMA LookKeeps ==
    ASSUME RefreshInv, NEW l \in Launches, NEW n,
           Refresh!Launch(l, n) \/ Refresh!Look(l) \/ Refresh!Ask(l) \/ Refresh!FailStale(l)
    PROVE  RefreshInv'
<1>1. UNCHANGED <<exec, up>>
    BY DEF Refresh!Launch, Refresh!Look, Refresh!Ask, Refresh!FailStale, Refresh!execVars, Refresh!ambient
<1>2. /\ launch[l] \in Launch_ /\ launch \in [Launches -> Launch_] /\ RefreshType
      /\ exec[l] \notin Refresh!Working \/ launch[l].at \notin Looking
      /\ row \in [Launches -> {"queued", "running", "ended"}] /\ silent \in SUBSET Launches
    BY RefreshFacts
<1>a. ASSUME NEW x \in Launch_, launch' = [launch EXCEPT ![l] = x],
             row' \in [Launches -> {"queued", "running", "ended"}], silent' \in SUBSET silent,
             \A m \in Launches : row'[m] = row[m] \/ (m # l /\ ~Owns(m)),
             \A m \in silent' : row'[m] = row[m],
             \/ x = Refresh!Idle
             \/ /\ x.at \in Looking /\ exec[l] \notin Refresh!Working
                /\ \/ launch[l] # Refresh!Idle
                   \/ up # "down" /\ ~Refresh!Looked(l) /\ l \notin silent
                /\ x.at \in {"ask", "fail"} =>
                       x.run \in Launches /\ x.run # l /\ launch[x.run] = Refresh!Idle
                /\ x.at = "fail" => exec[x.run] \notin Refresh!Working
      PROVE  RefreshInv'
    <2>1. UNCHANGED exec /\ UNCHANGED up
        BY <1>1
    <2>2. /\ x.at \in Pending => launch[l].at \in Pending
          /\ x.at = "writeRun" => x.status = row[l]
          /\ x.at \in Looking \cup Pending => exec[l] \notin Refresh!Working
          /\ x = Refresh!Idle \/ launch[l] # Refresh!Idle
                               \/ (up # "down" /\ ~Refresh!Looked(l) /\ l \notin silent)
          /\ x.at \in {"ask", "fail"} =>
                 x.run \in Launches /\ x.run # l /\ launch[x.run] = Refresh!Idle
          /\ x.at = "fail" => exec[x.run] \notin Refresh!Working
        <3>1. CASE x = Refresh!Idle
            <4>1. x.at = "idle"
                BY <3>1, IdleLaunch
            <4>2. QED
                BY <3>1, <4>1 DEF Looking, Pending
        <3>2. CASE x # Refresh!Idle
            <4>1. x.at \in Looking
                BY <1>a, <3>2
            <4>2. x.at \notin Pending /\ x.at # "writeRun"
                BY <4>1 DEF Looking, Pending
            <4>3. QED
                BY <1>a, <3>2, <4>2
        <3>3. QED
            BY <3>1, <3>2
    <2>3. QED
        BY <1>a, <2>1, <2>2, LaunchGoesOn
<1>b. ASSUME UNCHANGED <<row, silent>>
      PROVE  /\ row' \in [Launches -> {"queued", "running", "ended"}] /\ silent' \in SUBSET silent
             /\ \A m \in Launches : row'[m] = row[m] \/ (m # l /\ ~Owns(m))
             /\ \A m \in silent' : row'[m] = row[m]
    <2>1. row' = row /\ silent' = silent
        BY <1>b
    <2>2. QED
        BY <1>2, <2>1
<1>3. ASSUME Refresh!Return(l), UNCHANGED <<row, silent>> PROVE RefreshInv'
    BY <1>3, <1>a, <1>b, IdleLaunch DEF Refresh!Return
<1>4. ASSUME Refresh!AskAllowance(l), launch[l].at \in Looking,
             row' \in [Launches -> {"queued", "running", "ended"}], silent' \in SUBSET silent,
             \A m \in Launches : row'[m] = row[m] \/ (m # l /\ ~Owns(m)),
             \A m \in silent' : row'[m] = row[m]
      PROVE  RefreshInv'
    <2>1. PICK x \in Launch_ : /\ launch' = [launch EXCEPT ![l] = x]
                               /\ x.at \in {"idle", "elect"}
                               /\ x.at = "idle" => x = Refresh!Idle
        BY <1>4, AskAllowanceIs
    <2>2. launch[l] # Refresh!Idle /\ exec[l] \notin Refresh!Working
        BY <1>4, RefreshFacts DEF Looking
    <2>3. \/ x = Refresh!Idle
          \/ x.at \in Looking /\ x.at # "ask" /\ x.at # "fail"
        <3>1. CASE x.at = "idle"
            BY <2>1, <3>1
        <3>2. CASE x.at = "elect"
            BY <3>2 DEF Looking
        <3>3. QED
            BY <2>1, <3>1, <3>2
    <2>4. QED
        BY <1>4, <1>a, <2>1, <2>2, <2>3
<1>5. CASE Refresh!Launch(l, n)
    <2>1. /\ Refresh!Goto(l, "look") /\ UNCHANGED <<row, silent>> /\ up = "up" /\ Refresh!Free(l)
        BY <1>5 DEF Refresh!Launch, Refresh!runVars
    <2>2. PICK x \in Launch_ : launch' = [launch EXCEPT ![l] = x] /\ x.at = "look"
        BY <1>2, <2>1, GotoRefresh DEF Looking
    <2>3. ~Refresh!Looked(l) /\ exec[l] \notin Refresh!Working /\ row[l] \notin {"queued", "running"}
        BY <2>1 DEF Refresh!Free, Refresh!Active
    <2>4. l \notin silent
        BY <2>3 DEF RefreshInv, Started
    <2>5. QED
        BY <1>a, <1>b, <2>1, <2>2, <2>3, <2>4 DEF Looking
<1>6. CASE Refresh!Look(l)
    <2>1. /\ launch[l].at = "look" /\ UNCHANGED <<row, silent>> /\ launch[l] # Refresh!Idle
          /\ exec[l] \notin Refresh!Working
        BY <1>6, RefreshFacts DEF Refresh!Look, Refresh!At, Refresh!runVars, Looking
    <2>2. CASE Refresh!AskAllowance(l)
        BY <1>4, <1>b, <2>1, <2>2 DEF Looking
    <2>3. CASE Refresh!Return(l)
        BY <1>3, <2>1, <2>3
    <2>4. ASSUME NEW r \in Refresh!ActiveRuns, r \in silent,
                 launch' = [launch EXCEPT ![l].at = "ask", ![l].run = r]
          PROVE  RefreshInv'
        <3> DEFINE x == [launch[l] EXCEPT !.at = "ask", !.run = r]
        <3>1. r \in Launches /\ launch[r] = Refresh!Idle /\ r # l
            BY <2>1, <2>4 DEF Refresh!ActiveRuns, RefreshInv, Started
        <3>2. x \in Launch_ /\ x.at = "ask" /\ x.run = r
            BY <1>2, <3>1 DEF Launch_, Looking
        <3>3. launch' = [launch EXCEPT ![l] = [[launch[l] EXCEPT !.at = "ask"] EXCEPT !.run = r]]
            BY <1>2, <2>4
        <3>4. [[launch[l] EXCEPT !.at = "ask"] EXCEPT !.run = r] = x
            BY <1>2 DEF Launch_
        <3>5. launch' = [launch EXCEPT ![l] = x]
            BY <3>3, <3>4
        <3> HIDE DEF x
        <3>6. QED
            BY <1>a, <1>b, <2>1, <3>1, <3>2, <3>5 DEF Looking
    <2>5. QED
        BY <1>6, <2>2, <2>3, <2>4 DEF Refresh!Look
<1>7. CASE Refresh!Ask(l)
    <2>1. /\ launch[l].at = "ask" /\ UNCHANGED <<row, silent>> /\ launch[l] # Refresh!Idle
          /\ exec[l] \notin Refresh!Working
        BY <1>7, RefreshFacts DEF Refresh!Ask, Refresh!At, Refresh!runVars, Looking
    <2>2. CASE Refresh!Return(l)
        BY <1>3, <2>1, <2>2
    <2>3. CASE Refresh!Goto(l, "fail") /\ exec[launch[l].run] \notin Refresh!Working
        <3>1. PICK x \in Launch_ : /\ launch' = [launch EXCEPT ![l] = x]
                                   /\ x.at = "fail" /\ x.run = launch[l].run
            BY <1>2, <2>3, GotoRefresh DEF Looking
        <3>2. x.run \in Launches /\ launch[x.run] = Refresh!Idle /\ x.run # l
            BY <2>1, <3>1 DEF RefreshInv, Started
        <3>3. QED
            BY <1>a, <1>b, <2>1, <2>3, <3>1, <3>2 DEF Looking
    <2>4. QED
        BY <1>7, <2>2, <2>3 DEF Refresh!Ask
<1>8. CASE Refresh!FailStale(l)
    <2> DEFINE r == launch[l].run
    <2>1. /\ launch[l].at = "fail" /\ launch[l].at \in Looking
          /\ r \in Launches /\ launch[r] = Refresh!Idle /\ exec[r] \notin Refresh!Working
          /\ launch[l] # Refresh!Idle
        BY <1>8, RefreshFacts DEF Refresh!FailStale, Refresh!At, RefreshInv, Started, Looking
    <2>2. ~Owns(r) /\ r # l
        BY <2>1, IdleLaunch DEF Owns, Pending
    <2>3. CASE Refresh!EndRow(r) /\ Refresh!AskAllowance(l)
        <3>1. /\ row' = [row EXCEPT ![r] = "ended"] /\ silent' = silent \ {r}
            BY <2>3 DEF Refresh!EndRow
        <3>2. /\ row' \in [Launches -> {"queued", "running", "ended"}] /\ silent' \in SUBSET silent
              /\ \A m \in Launches : row'[m] = row[m] \/ (m # l /\ ~Owns(m))
              /\ \A m \in silent' : row'[m] = row[m]
            <4>1. row' \in [Launches -> {"queued", "running", "ended"}] /\ silent' \in SUBSET silent
                BY <1>2, <2>1, <3>1
            <4>2. \A m \in Launches \ {r} : row'[m] = row[m]
                BY <1>2, <3>1
            <4>3. \A m \in silent' : m \in Launches \ {r}
                BY <1>2, <3>1
            <4>4. QED
                BY <2>2, <4>1, <4>2, <4>3
        <3>3. QED
            BY <1>4, <2>1, <2>3, <3>2
    <2>4. CASE UNCHANGED <<row, silent>> /\ Refresh!AskAllowance(l)
        BY <1>4, <1>b, <2>1, <2>4
    <2>5. CASE UNCHANGED <<row, silent>> /\ Refresh!Return(l)
        BY <1>3, <2>5
    <2>6. QED
        BY <1>8, <2>3, <2>4, <2>5 DEF Refresh!FailStale, Refresh!runVars
<1>9. QED
    BY <1>5, <1>6, <1>7, <1>8

\* A launch is elected, starts its execution and registers it, or ends.
LEMMA ElectKeeps ==
    ASSUME RefreshInv, NEW l \in Launches, Refresh!Elect(l)
    PROVE  RefreshInv'
<1>1. /\ launch[l].at = "elect" /\ launch[l] # Refresh!Idle /\ launch[l] \in Launch_
      /\ exec[l] \notin Refresh!Working /\ exec[l] \in Refresh!Working \cup {"none"}
      /\ l \notin silent /\ up # "down" /\ RefreshType
      /\ row \in [Launches -> {"queued", "running", "ended"}] /\ silent \in SUBSET Launches
      /\ UNCHANGED <<silent, up>>
    BY RefreshFacts DEF Refresh!Elect, Refresh!At, Looking, Refresh!ambient
<1>2. \A m \in silent : row[m] \in {"queued", "running"}
    BY DEF RefreshInv, RefreshType, Started
<1>3. CASE Refresh!ActiveRuns # {}
    <2>1. Refresh!Return(l) /\ row' = row /\ exec' = exec
        BY <1>3 DEF Refresh!Elect
    <2>2. /\ Refresh!Idle.at \notin Looking \cup Pending /\ Refresh!Idle.at # "writeRun"
          /\ Refresh!Idle.at \notin {"ask", "fail"}
        BY IdleLaunch DEF Looking, Pending
    <2>3. exec' = [exec EXCEPT ![l] = exec[l]]
        BY <2>1, RefreshFacts
    <2>4. RefreshStep(l, Refresh!Idle, exec[l])
        BY <1>1, <1>2, <2>1, <2>2, <2>3, IdleLaunch DEF RefreshStep, Refresh!Return
    <2>5. QED
        BY <2>4, RefreshKeeps
<1>4. ASSUME Refresh!ActiveRuns = {}, NEW at \in {"spend", "await"}, Refresh!Goto(l, at),
             NEW e \in {"none", "queued"}, exec' = [exec EXCEPT ![l] = e],
             at = "spend" => e = "none",
             NEW new \in {"queued", "running"}, row' = [row EXCEPT ![l] = new]
      PROVE  RefreshInv'
    <2>1. PICK x \in Launch_ : launch' = [launch EXCEPT ![l] = x] /\ x.at = at
        BY <1>1, <1>4, GotoRefresh DEF Pending
    <2>2. /\ x.at \in {"spend", "await"} /\ x.at \notin Looking /\ x.at # "writeRun"
          /\ x.at \notin {"ask", "fail"} /\ (x.at \in Pending => e = "none")
        BY <1>4, <2>1 DEF Looking, Pending
    <2>3. e \in Refresh!Working \cup {"none"} /\ "none" \notin Refresh!Working
        BY <1>4 DEF Refresh!Working
    <2>4. /\ row' \in [Launches -> {"queued", "running", "ended"}] /\ row'[l] \in {"queued", "running"}
          /\ \A m \in Launches \ {l} : row'[m] = row[m]
          /\ \A m \in silent' : row'[m] \in {"queued", "running"}
        BY <1>1, <1>2, <1>4
    <2>5. RefreshStep(l, x, e)
        BY <1>1, <1>4, <2>1, <2>2, <2>3, <2>4 DEF RefreshStep
    <2>6. QED
        BY <2>5, RefreshKeeps
<1>5. CASE Refresh!ActiveRuns = {} /\ profile = "cloudflare"
    <2>1. exec' = exec /\ exec[l] = "none"
        BY <1>1, <1>5 DEF Refresh!Elect
    <2>2. exec' = [exec EXCEPT ![l] = "none"]
        BY <2>1, RefreshFacts
    <2>3. Refresh!Goto(l, "spend") /\ row' = [row EXCEPT ![l] = "queued"]
        BY <1>5 DEF Refresh!Elect
    <2>4. QED
        BY <1>4, <1>5, <2>2, <2>3
<1>6. CASE Refresh!ActiveRuns = {} /\ profile # "cloudflare"
    <2>1. /\ Refresh!Goto(l, "await") /\ row' = [row EXCEPT ![l] = "running"]
          /\ exec' = [exec EXCEPT ![l] = "queued"]
        BY <1>6 DEF Refresh!Elect
    <2>2. QED
        BY <1>4, <1>6, <2>1
<1>7. QED
    BY <1>3, <1>5, <1>6

LEMMA RegisterKeeps ==
    ASSUME RefreshInv, NEW l \in Launches,
           \/ Refresh!Spend(l) \/ Refresh!Create(l) \/ Refresh!ReadRun(l) \/ Refresh!WriteRun(l)
           \/ Refresh!Await(l) \/ Refresh!LaunchDies(l)
    PROVE  RefreshInv'
<1>1. /\ launch[l] # Refresh!Idle /\ launch[l] \in Launch_ /\ RefreshType
      /\ row \in [Launches -> {"queued", "running", "ended"}] /\ silent \in SUBSET Launches
      /\ l \notin silent /\ up # "down" /\ up' = up
      /\ row[l] \in {"queued", "running", "ended"}
      /\ exec[l] \in Refresh!Working \cup {"none"}
      /\ launch[l].at \in Pending => exec[l] \notin Refresh!Working /\ row[l] \in {"queued", "running"}
      /\ exec[l] \in Refresh!Working => row[l] \in {"queued", "running"}
    <2>1. launch[l] # Refresh!Idle
        BY IdleLaunch DEF Refresh!Spend, Refresh!Create, Refresh!ReadRun, Refresh!WriteRun, Refresh!Await,
           Refresh!LaunchDies, Refresh!At
    <2>2. up' = up
        BY DEF Refresh!Spend, Refresh!Create, Refresh!ReadRun, Refresh!WriteRun, Refresh!Await,
           Refresh!LaunchDies, Refresh!ambient
    <2>3. l \notin silent /\ up # "down"
        BY <2>1 DEF RefreshInv, Started, Stopped
    <2>4. QED
        BY <2>1, <2>2, <2>3, RefreshFacts DEF Owns
<1>2. \A m \in silent : row[m] \in {"queued", "running"}
    BY DEF RefreshInv, RefreshType, Started
<1>3. ASSUME NEW x \in Launch_, launch' = [launch EXCEPT ![l] = x],
             NEW e \in Refresh!Working \cup {"none"}, exec' = [exec EXCEPT ![l] = e],
             x.at \in {"idle", "create", "readRun", "writeRun", "await"},
             x.at = "create" => launch[l].at \in Pending /\ e \notin Refresh!Working,
             x.at = "writeRun" => x.status = row[l] /\ e = exec[l],
             e \in Refresh!Working => exec[l] \in Refresh!Working \/ launch[l].at \in Pending,
             e \in Refresh!Working \/ x.at = "create" => row'[l] \in {"queued", "running"},
             row' \in [Launches -> {"queued", "running", "ended"}],
             \A m \in Launches \ {l} : row'[m] = row[m],
             silent' \in {silent, silent \ {l}}
      PROVE  RefreshInv'
    <2>1. /\ x.at \notin Looking /\ x.at \notin {"ask", "fail"}
          /\ x.at \in Pending => x.at = "create"
        BY <1>3 DEF Looking, Pending
    <2>2. silent' \in SUBSET silent /\ \A m \in silent' : row'[m] \in {"queued", "running"}
        BY <1>1, <1>2, <1>3
    <2>3. x.at \in Pending \/ e \in Refresh!Working => row'[l] \in {"queued", "running"} /\ Owns(l)
        BY <1>3, <2>1 DEF Owns
    <2>4. x.at = "writeRun" => x.status # "none" /\ (e \in Refresh!Working => x.status # "ended")
        BY <1>1, <1>3
    <2>5. RefreshStep(l, x, e)
        BY <1>1, <1>3, <2>1, <2>2, <2>3, <2>4 DEF RefreshStep
    <2>6. QED
        BY <2>5, RefreshKeeps
<1>5. ASSUME exec' = exec PROVE exec' = [exec EXCEPT ![l] = exec[l]]
    BY <1>5, RefreshFacts
<1>6. ASSUME Refresh!Return(l), exec' = exec, UNCHANGED <<row, silent>>
      PROVE  RefreshInv'
    <2>1. /\ Refresh!Idle \in Launch_ /\ launch' = [launch EXCEPT ![l] = Refresh!Idle]
          /\ Refresh!Idle.at = "idle" /\ row' = row /\ silent' = silent
        BY <1>6, IdleLaunch DEF Refresh!Return
    <2>2. QED
        BY <1>1, <1>3, <1>5, <1>6, <2>1
<1>7. CASE Refresh!Spend(l)
    <2>1. launch[l].at = "spend" /\ launch[l].at \in Pending /\ exec' = exec
        BY <1>7 DEF Refresh!Spend, Refresh!At, Pending, Refresh!execVars
    <2>2. CASE Refresh!EndRow(l) /\ Refresh!Return(l)
        <3>1. /\ row' = [row EXCEPT ![l] = "ended"] /\ silent' = silent \ {l}
              /\ launch' = [launch EXCEPT ![l] = Refresh!Idle]
            BY <2>2 DEF Refresh!EndRow, Refresh!Return
        <3>2. /\ row' \in [Launches -> {"queued", "running", "ended"}]
              /\ \A m \in Launches \ {l} : row'[m] = row[m]
            BY <1>1, <3>1
        <3>3. exec[l] \notin Refresh!Working /\ Refresh!Idle \in Launch_ /\ Refresh!Idle.at = "idle"
            BY <1>1, <2>1, IdleLaunch
        <3>4. QED
            BY <1>1, <1>3, <1>5, <2>1, <3>1, <3>2, <3>3
    <2>3. CASE UNCHANGED <<row, silent>> /\ Refresh!Goto(l, "create")
        <3>1. PICK x \in Launch_ : launch' = [launch EXCEPT ![l] = x] /\ x.at = "create"
            BY <1>1, <2>3, GotoRefresh DEF Pending
        <3>2. row' = row /\ silent' = silent
            BY <2>3
        <3>3. QED
            BY <1>1, <1>3, <1>5, <2>1, <3>1, <3>2
    <2>4. CASE UNCHANGED <<row, silent>> /\ Refresh!Return(l)
        BY <1>6, <2>1, <2>4
    <2>5. QED
        BY <1>7, <2>2, <2>3, <2>4 DEF Refresh!Spend, Refresh!runVars
<1>8. CASE Refresh!Create(l)
    <2>1. launch[l].at \in Pending /\ row' = row /\ silent' = silent
        BY <1>8 DEF Refresh!Create, Refresh!At, Pending, Refresh!runVars
    <2>2. "queued" \in Refresh!Working
        BY DEF Refresh!Working
    <2>3. CASE exec' = [exec EXCEPT ![l] = "queued"] /\ Refresh!Goto(l, "readRun")
        <3>1. PICK x \in Launch_ : launch' = [launch EXCEPT ![l] = x] /\ x.at = "readRun"
            BY <1>1, <2>3, GotoRefresh
        <3>2. QED
            BY <1>1, <1>3, <2>1, <2>2, <2>3, <3>1
    <2>4. CASE Refresh!Return(l) /\ exec' = exec
        BY <1>6, <2>1, <2>4
    <2>5. CASE Refresh!Return(l) /\ exec' = [exec EXCEPT ![l] = "queued"]
        <3>1. /\ Refresh!Idle \in Launch_ /\ launch' = [launch EXCEPT ![l] = Refresh!Idle]
              /\ Refresh!Idle.at = "idle"
            BY <2>5, IdleLaunch DEF Refresh!Return
        <3>2. QED
            BY <1>1, <1>3, <2>1, <2>2, <2>5, <3>1
    <2>6. QED
        BY <1>8, <2>3, <2>4, <2>5 DEF Refresh!Create
<1>9. CASE Refresh!ReadRun(l)
    <2> DEFINE x == [launch[l] EXCEPT !.at = "writeRun", !.status = row[l]]
    <2>1. /\ launch' = [launch EXCEPT ![l].at = "writeRun", ![l].status = row[l]]
          /\ row' = row /\ silent' = silent /\ exec' = exec
        BY <1>9 DEF Refresh!ReadRun, Refresh!runVars, Refresh!execVars
    <2>2. x \in Launch_ /\ x.at = "writeRun" /\ x.status = row[l]
        BY <1>1 DEF Launch_
    <2>3. launch' = [launch EXCEPT ![l] = x]
        <3>1. launch' = [launch EXCEPT ![l] = [[launch[l] EXCEPT !.at = "writeRun"] EXCEPT !.status = row[l]]]
            BY <1>1, <2>1 DEF RefreshType
        <3>2. [[launch[l] EXCEPT !.at = "writeRun"] EXCEPT !.status = row[l]] = x
            BY <1>1 DEF Launch_
        <3>3. QED
            BY <3>1, <3>2
    <2> HIDE DEF x
    <2>4. QED
        BY <1>1, <1>3, <1>5, <2>1, <2>2, <2>3
<1>10. CASE Refresh!WriteRun(l)
    <2>1. /\ launch[l].at = "writeRun" /\ exec' = exec /\ silent' = silent \ {l}
          /\ row' = [row EXCEPT ![l] = launch[l].status] /\ launch' = [launch EXCEPT ![l] = Refresh!Idle]
        BY <1>10 DEF Refresh!WriteRun, Refresh!At, Refresh!Return, Refresh!execVars
    <2>2. /\ launch[l].status \in {"queued", "running", "ended"}
          /\ exec[l] \in Refresh!Working => launch[l].status \in {"queued", "running"}
        <3>1. launch[l].status \in {"none", "queued", "running", "ended"}
            BY <1>1 DEF Launch_
        <3>2. QED
            BY <2>1, <3>1 DEF RefreshInv, Started
    <2>3. /\ row' \in [Launches -> {"queued", "running", "ended"}]
          /\ row'[l] = launch[l].status /\ \A m \in Launches \ {l} : row'[m] = row[m]
        BY <1>1, <2>1, <2>2
    <2>4. Refresh!Idle \in Launch_ /\ Refresh!Idle.at = "idle"
        BY IdleLaunch
    <2>5. QED
        BY <1>1, <1>3, <1>5, <2>1, <2>2, <2>3, <2>4
<1>11. CASE Refresh!Await(l) \/ Refresh!LaunchDies(l)
    BY <1>6, <1>11 DEF Refresh!Await, Refresh!LaunchDies, Refresh!runVars, Refresh!execVars
<1>12. QED
    BY <1>7, <1>8, <1>9, <1>10, <1>11

\* An execution goes on or ends, and its run with it.
LEMMA ExecKeeps ==
    ASSUME RefreshInv, NEW l \in Launches, Refresh!Exec(l) \/ Refresh!ExecFails(l)
    PROVE  RefreshInv'
<1>1. exec[l] \in Refresh!Working /\ launch' = launch /\ up' = up
    BY DEF Refresh!Exec, Refresh!Plan, Refresh!Work, Refresh!Finalize, Refresh!Finish, Refresh!ExecFails,
           Refresh!Working, Refresh!ambient
<1>2. PICK e \in {"none", "working", "finalizing", "finishing"} :
          /\ exec' = [exec EXCEPT ![l] = e]
          /\ \/ UNCHANGED <<row, silent>>
             \/ e = "none" /\ Refresh!EndRow(l)
             \/ e = "working" /\ row' = [row EXCEPT ![l] = "running"] /\ silent' = silent \ {l}
    <2>1. CASE Refresh!Plan(l)
        BY <2>1 DEF Refresh!Plan, Refresh!EndExec
    <2>2. CASE Refresh!Work(l)
        BY <2>2 DEF Refresh!Work, Refresh!runVars
    <2>3. CASE Refresh!Finalize(l)
        BY <2>3 DEF Refresh!Finalize, Refresh!runVars
    <2>4. CASE Refresh!Finish(l)
        BY <2>4 DEF Refresh!Finish, Refresh!EndExec
    <2>5. CASE Refresh!ExecFails(l)
        BY <2>5 DEF Refresh!ExecFails, Refresh!EndExec, Refresh!runVars
    <2>6. QED
        BY <2>1, <2>2, <2>3, <2>4, <2>5 DEF Refresh!Exec
<1>3. /\ launch[l] \in Launch_ /\ launch' = [launch EXCEPT ![l] = launch[l]]
      /\ row \in [Launches -> {"queued", "running", "ended"}] /\ silent \in SUBSET Launches
      /\ row[l] \in {"queued", "running"} /\ Owns(l)
    BY <1>1, RefreshFacts DEF Owns
<1>4. /\ launch[l].at \notin Looking \cup Pending /\ launch[l].at \notin {"ask", "fail"}
      /\ launch[l].at = "writeRun" => launch[l].status # "none" /\ launch[l].status # "ended"
      /\ up # "down" /\ launch[l] # Refresh!Idle => l \notin silent
      /\ \A m \in silent : row[m] \in {"queued", "running"}
    BY <1>1, <1>3, RefreshFacts DEF RefreshInv, RefreshType, Started, Looking
<1>5. e \in Refresh!Working \cup {"none"} /\ up # "down"
    BY <1>1, <1>2, RefreshFacts DEF Refresh!Working
<1>6. /\ row' \in [Launches -> {"queued", "running", "ended"}] /\ silent' \in SUBSET silent
      /\ \A m \in Launches \ {l} : row'[m] = row[m]
      /\ e \in Refresh!Working => row'[l] \in {"queued", "running"}
      /\ \A m \in silent' : row'[m] \in {"queued", "running"}
    <2>1. CASE UNCHANGED <<row, silent>>
        BY <1>3, <1>4, <2>1
    <2>2. CASE e = "none" /\ Refresh!EndRow(l)
        <3>1. row' = [row EXCEPT ![l] = "ended"] /\ silent' = silent \ {l} /\ e \notin Refresh!Working
            BY <2>2 DEF Refresh!EndRow, Refresh!Working
        <3>2. QED
            BY <1>3, <1>4, <3>1
    <2>3. CASE row' = [row EXCEPT ![l] = "running"] /\ silent' = silent \ {l}
        BY <1>3, <1>4, <2>3
    <2>4. QED
        BY <1>2, <2>1, <2>2, <2>3
<1>7. RefreshStep(l, launch[l], e)
    <2>1. launch[l] # Refresh!Idle => l \notin silent
        BY DEF RefreshInv, Started
    <2>2. QED
        BY <1>1, <1>2, <1>3, <1>4, <1>5, <1>6, <2>1 DEF RefreshStep
<1>8. QED
    BY <1>7, RefreshKeeps

\* What is done beside launches and executions.
LEMMA AroundKeeps ==
    ASSUME RefreshInv, UNCHANGED <<row, launch, exec>>,
           \/ silent' = silent
           \/ \E r \in Launches : /\ row[r] \in {"queued", "running"} /\ launch[r] = Refresh!Idle
                                  /\ silent' = silent \cup {r},
           up' # "down" \/ up' = up
    PROVE  RefreshInv'
<1>1. RefreshType' /\ OneOwner' /\ Stopped'
    BY DEF RefreshInv, RefreshType, OneOwner, Stopped, Owns, Refresh!Idle
<1>2. Refresh!Idle' = Refresh!Idle
    BY DEF Refresh!Idle
<1>3. Started'
    BY <1>2 DEF RefreshInv, Started
<1>4. QED
    BY <1>1, <1>3 DEF RefreshInv

\* The self-hosted process is killed, and its predecessor's run is ended.
LEMMA ProcessKeeps ==
    ASSUME RefreshInv, Refresh!Kill \/ Refresh!Restart \/ Refresh!MarkDirty
    PROVE  RefreshInv'
<1>1. CASE Refresh!Kill
    <2>1. /\ launch' = [l \in Launches |-> Refresh!Idle] /\ exec' = [l \in Launches |-> "none"]
          /\ UNCHANGED <<row, silent>>
        BY <1>1 DEF Refresh!Kill, Refresh!runVars
    <2>2. RefreshType'
        BY <2>1, IdleLaunch DEF RefreshInv, RefreshType
    <2>3. Stopped'
        BY <2>1 DEF Stopped, Refresh!Idle
    <2>4. \A l \in Launches : /\ launch'[l].at = "idle" /\ exec'[l] \notin Refresh!Working
                              /\ launch'[l] = Refresh!Idle
        BY <2>1, IdleLaunch DEF Refresh!Working
    <2>5. OneOwner'
        BY <2>4 DEF OneOwner, Owns, Pending
    <2>6. Refresh!Idle' = Refresh!Idle
        BY DEF Refresh!Idle
    <2>7. Started'
        BY <2>1, <2>4, <2>6 DEF RefreshInv, Started, Looking, Pending
    <2>8. QED
        BY <2>2, <2>3, <2>5, <2>7 DEF RefreshInv
<1>2. CASE Refresh!MarkDirty
    BY <1>2, AroundKeeps DEF Refresh!MarkDirty, Refresh!runVars, Refresh!execVars
<1>3. CASE Refresh!Restart
    <2>1. CASE UNCHANGED <<row, silent>>
        BY <1>3, <2>1, AroundKeeps DEF Refresh!Restart, Refresh!execVars
    <2>2. ASSUME NEW r \in Refresh!ActiveRuns, Refresh!EndRow(r) PROVE RefreshInv'
        <3>1. /\ r \in Launches /\ row' = [row EXCEPT ![r] = "ended"] /\ silent' = silent \ {r}
              /\ UNCHANGED <<launch, exec>> /\ up = "down" /\ up' # "down"
            BY <1>3, <2>2 DEF Refresh!Restart, Refresh!EndRow, Refresh!ActiveRuns, Refresh!execVars
        <3>2. \A l \in Launches : launch[l] = Refresh!Idle /\ exec[l] = "none"
            BY <3>1 DEF RefreshInv, Stopped
        <3>3. \A l \in Launches : /\ launch'[l].at = "idle" /\ exec'[l] \notin Refresh!Working
                                  /\ launch'[l] = Refresh!Idle
            BY <3>1, <3>2, IdleLaunch DEF Refresh!Working
        <3>4. RefreshType' /\ Stopped' /\ \A l \in silent' : row'[l] \in {"queued", "running"}
            BY <3>1 DEF RefreshInv, RefreshType, Stopped, Started
        <3>5. OneOwner'
            BY <3>3 DEF OneOwner, Owns, Pending
        <3>6. Refresh!Idle' = Refresh!Idle
            BY DEF Refresh!Idle
        <3>7. Started'
            BY <3>3, <3>4, <3>6 DEF Started, Looking, Pending
        <3>8. QED
            BY <3>4, <3>5, <3>7 DEF RefreshInv
    <2>3. QED
        BY <1>3, <2>1, <2>2 DEF Refresh!Restart, Refresh!runVars
<1>4. QED
    BY <1>1, <1>2, <1>3

LEMMA RefreshNext == ASSUME RefreshInv, [Refresh!Next]_Refresh!vars PROVE RefreshInv'
<1>1. ASSUME NEW s \in GraphStories, Refresh!Ingest(s) \/ Refresh!Signal(s) PROVE RefreshInv'
    BY <1>1, AroundKeeps DEF Refresh!Ingest, Refresh!Signal, Refresh!runVars, Refresh!execVars,
       Refresh!ambient
<1>2. CASE Refresh!Clocks \/ Refresh!AllowanceUsedUp
    <2>1. CASE Refresh!RefreshPeriodPasses \/ Refresh!NextDay \/ Refresh!AllowanceUsedUp
        BY <2>1, AroundKeeps DEF Refresh!RefreshPeriodPasses, Refresh!NextDay, Refresh!AllowanceUsedUp,
           Refresh!runVars, Refresh!execVars, Refresh!ambient, Refresh!domain
    <2>2. ASSUME NEW r \in Launches, Refresh!RecoveryWindowPasses(r) PROVE RefreshInv'
        <3>1. /\ UNCHANGED <<row, launch, exec, up>> /\ silent' = silent \cup {r}
              /\ row[r] \in {"queued", "running"} /\ launch[r] = Refresh!Idle
            BY <2>2 DEF Refresh!RecoveryWindowPasses, Refresh!Active, Refresh!execVars, Refresh!ambient
        <3>2. QED
            BY <3>1, AroundKeeps
    <2>3. QED
        BY <1>2, <2>1, <2>2 DEF Refresh!Clocks
<1>3. ASSUME NEW l \in Launches,
             \/ Refresh!Tick(l) \/ Refresh!Request(l) \/ Refresh!LaunchStep(l) \/ Refresh!LaunchDies(l)
             \/ Refresh!Exec(l) \/ Refresh!ExecFails(l)
      PROVE  RefreshInv'
    <2>1. ASSUME NEW n, Refresh!Launch(l, n) PROVE RefreshInv'
        BY <2>1, LookKeeps
    <2>2. CASE Refresh!Tick(l) \/ Refresh!Request(l)
        BY <2>1, <2>2 DEF Refresh!Tick, Refresh!Request
    <2>3. ASSUME Refresh!Look(l) \/ Refresh!Ask(l) \/ Refresh!FailStale(l) PROVE RefreshInv'
        BY <2>3, LookKeeps
    <2>4. QED
        BY <1>3, <2>2, <2>3, ElectKeeps, RegisterKeeps, ExecKeeps DEF Refresh!LaunchStep
<1>a. CASE Refresh!SwitchAuto \/ \E w \in Windows : Refresh!SetProfile(w)
    BY <1>a, AroundKeeps DEF Refresh!SwitchAuto, Refresh!SetProfile, Refresh!runVars, Refresh!execVars,
       Refresh!ambient
<1>4. CASE UNCHANGED Refresh!vars
    BY <1>4, AroundKeeps DEF Refresh!vars, Refresh!runVars, Refresh!execVars, Refresh!ambient
<1>5. QED
    BY <1>1, <1>2, <1>3, <1>4, <1>a, ProcessKeeps DEF Refresh!Next

LEMMA RefreshInvariant == Refresh!Spec => []RefreshInv
<1>1. RefreshInv /\ [Refresh!Next]_Refresh!vars => RefreshInv'
    BY RefreshNext
<1>2. QED
    BY <1>1, RefreshInit, PTL DEF Refresh!Spec

\* The memory graph has one writer at a time: a run that was silent is replaced
\* only after the platform has said that it has no instance at work, and none is
\* elected beside one that may yet start (`a transient control-plane failure must
\* never authorize a duplicate canonical graph writer'; reconcileStaleMemoryGraphRun,
\* electMemoryGraphRun).
THEOREM One_Graph_Writer == Refresh!Spec => []OneGraphWriter
<1>1. RefreshInv => OneGraphWriter
    <2>1. SUFFICES ASSUME RefreshInv PROVE OneGraphWriter
        OBVIOUS
    <2> DEFINE writers == {l \in Launches : exec[l] \in Refresh!Working}
    <2>2. \A l, m \in writers : l = m
        BY <2>1 DEF RefreshInv, OneOwner, Owns
    <2>3. writers = {} \/ \E l : writers = {l}
        BY <2>2
    <2> HIDE DEF writers
    <2>4. Cardinality(writers) \in {0, 1}
        BY <2>3, FS_EmptySet, FS_Singleton
    <2>5. Cardinality(writers) <= 1
        BY <2>4
    <2>6. \A S : Refresh!Cardinality(S) = Cardinality(S)
        BY DEF Cardinality, Refresh!Cardinality, IsFiniteSet, Refresh!IsFiniteSet
    <2>7. QED
        BY <2>5, <2>6 DEF Refresh!OneGraphWriter, OneGraphWriter, writers
<1>2. QED
    BY <1>1, RefreshInvariant, PTL

-----------------------------------------------------------------------------
(* The scheduler of the sources. *)

SourceConstants == SourceRuns \in Nat

Call_ == [at : {"idle", "selected", "collect", "staging", "refused", "observe"}, run : 0..SourceRuns]

SourceType ==
    /\ status \in [1..SourceRuns -> {"none", "running", "queued", "ended"}]
    /\ outbox \in [1..SourceRuns -> {"none", "staging", "ready"}]
    /\ call \in [Sources!Callers -> Call_]
    /\ last \in Nat /\ elapsed \in Nat /\ cadence \in {Unobserved, "later", "passed"}

\* Runs are numbered as they begin, without a gap.
Numbered == \E n \in 0..SourceRuns : Sources!Begun = 1..n

\* A call works on a run that has begun and was not retired; none outlives its
\* process.
CallsSound ==
    \A c \in Sources!Callers :
        /\ process # "up" => call[c] = Sources!Idle
        /\ call[c].run # 0 => call[c].run \in Sources!Begun \ retired
        /\ call[c].at \notin {"idle", "selected"} => call[c].run # 0

\* What is retired has begun, has nothing in the outbox, and is over; when the
\* latest run is retired the source was made due.
RetiredSound ==
    /\ retired \subseteq Sources!Begun /\ ripe \subseteq Sources!Begun
    /\ Sources!NothingDurableRetired
    /\ \A n \in retired : (\A r \in Sources!Begun : r <= n) => last = 0

SourceInv == SourceType /\ Numbered /\ CallsSound /\ RetiredSound

LEMMA SourceInit == ASSUME SourceConstants PROVE Sources!Init => SourceInv
<1> SUFFICES ASSUME Sources!Init PROVE SourceInv
    OBVIOUS
<1>1. Sources!Idle \in Call_ /\ Sources!Idle.run = 0 /\ Sources!Idle.at = "idle"
    BY DEF SourceConstants, Sources!Idle, Call_
<1>2. SourceType
    BY <1>1 DEF Sources!Init, SourceType, Sources!RunIds
<1>3. Sources!Begun = {}
    BY DEF Sources!Init, Sources!Begun, Sources!RunIds
<1>4. Numbered
    BY <1>3 DEF SourceConstants, Numbered
<1>5. CallsSound /\ RetiredSound
    BY <1>1, <1>3 DEF Sources!Init, CallsSound, RetiredSound, Sources!NothingDurableRetired
<1>6. QED
    BY <1>2, <1>4, <1>5 DEF SourceInv

\* The number of the latest run.
LEMMA LatestRun ==
    ASSUME SourceConstants, SourceInv
    PROVE  \E n \in 0..SourceRuns :
               /\ Sources!Begun = 1..n /\ Sources!Max(Sources!Begun \cup {0}) = n
               /\ n > 0 => Sources!Max(Sources!Begun) = n
<1>1. PICK n \in 0..SourceRuns : Sources!Begun = 1..n
    BY DEF SourceInv, Numbered
<1>2. n \in Nat
    BY <1>1 DEF SourceConstants
<1>3. ASSUME NEW S, n \in S, \A m \in S : m \in 0..n PROVE Sources!Max(S) = n
    <2>1. \A y \in S : n >= y
        BY <1>2, <1>3
    <2>2. ASSUME NEW m \in S, \A y \in S : m >= y PROVE m = n
        BY <1>2, <1>3, <2>2
    <2>3. QED
        BY <1>3, <2>1, <2>2 DEF Sources!Max
<1>4. Sources!Max((1..n) \cup {0}) = n
    BY <1>2, <1>3
<1>5. n > 0 => Sources!Max(1..n) = n
    BY <1>2, <1>3
<1>6. QED
    BY <1>1, <1>4, <1>5

\* A step that begins no run and retires none: c goes on to x, and its run or r
\* may change what it is.
LEMMA SourceKeeps ==
    ASSUME SourceConstants, SourceInv,
           process' = "up" \/ call' = [c \in Sources!Callers |-> Sources!Idle]
                           \/ (call' = call /\ (process' # "up" => process # "up")),
           UNCHANGED retired, ripe' = ripe, last' \in {last, 0}, elapsed' \in Nat,
           cadence' \in {Unobserved, "later", "passed"},
           call' \in [Sources!Callers -> Call_],
           \A c \in Sources!Callers : /\ call'[c].run \in {0, call[c].run}
                                      /\ call'[c].at \notin {"idle", "selected"} => call'[c].run # 0,
           status' \in [1..SourceRuns -> {"none", "running", "queued", "ended"}],
           outbox' \in [1..SourceRuns -> {"none", "staging", "ready"}],
           \A r \in 1..SourceRuns : /\ status'[r] = "none" <=> status[r] = "none"
                                    /\ r \in retired => status'[r] = status[r] /\ outbox'[r] = outbox[r]
    PROVE  SourceInv'
<1> USE DEF SourceInv
<1>1. SourceType'
    BY DEF SourceType
<1>2. Sources!Begun' = Sources!Begun
    BY DEF Sources!Begun, Sources!RunIds
<1>3. Numbered'
    BY <1>2 DEF Numbered
<1>4. Sources!Idle' = Sources!Idle /\ Sources!Callers' = Sources!Callers
    BY DEF Sources!Idle, Sources!Callers
<1>5. CallsSound'
    BY <1>2, <1>4 DEF CallsSound
<1>6. \A r \in retired : r \in 1..SourceRuns
    BY DEF RetiredSound, Sources!Begun, Sources!RunIds
<1>7. Sources!NothingDurableRetired'
    BY <1>6 DEF RetiredSound, Sources!NothingDurableRetired
<1>8. RetiredSound'
    BY <1>2, <1>7 DEF RetiredSound
<1>9. QED
    BY <1>1, <1>3, <1>5, <1>8

LEMMA CallIs ==
    ASSUME SourceConstants, SourceInv, NEW c \in Sources!Callers,
           NEW at \in {"idle", "selected", "collect", "staging", "refused", "observe"},
           Sources!Goto(c, at)
    PROVE  /\ call' \in [Sources!Callers -> Call_] /\ call'[c].at = at /\ call'[c].run = call[c].run
           /\ \A p \in Sources!Callers \ {c} : call'[p] = call[p]
<1>1. call \in [Sources!Callers -> Call_]
    BY DEF SourceInv, SourceType
<1>2. [call[c] EXCEPT !.at = at] \in Call_
    BY <1>1 DEF Call_
<1>3. QED
    BY <1>1, <1>2 DEF Sources!Goto, Call_

\* A step of call c.
LEMMA CallKeeps ==
    ASSUME SourceConstants, SourceInv, NEW c \in Sources!Callers, process = "up", process' = process,
           \/ Sources!Leave(c)
           \/ \E at \in {"selected", "refused", "observe", "staging"} :
                  Sources!Goto(c, at) /\ (at # "selected" => call[c].at \notin {"idle", "selected"}),
           UNCHANGED <<retired, ripe, elapsed>>, last' \in {last, 0},
           cadence' \in {cadence, "later", "passed"},
           \/ UNCHANGED <<status, outbox>>
           \/ /\ call[c].at \notin {"idle", "selected"}
              /\ \E st \in {"running", "queued", "ended"} :
                     status' = [status EXCEPT ![call[c].run] = st] \/ status' = status
              /\ \E ob \in {"none", "staging", "ready"} :
                     outbox' = [outbox EXCEPT ![call[c].run] = ob] \/ outbox' = outbox
    PROVE  SourceInv'
<1> USE DEF SourceInv
<1>1. /\ call' \in [Sources!Callers -> Call_]
      /\ \A p \in Sources!Callers : /\ call'[p].run \in {0, call[p].run}
                                    /\ call'[p].at \notin {"idle", "selected"} => call'[p].run # 0
    <2>1. CASE Sources!Leave(c)
        <3>1. Sources!Idle \in Call_ /\ Sources!Idle.run = 0 /\ Sources!Idle.at = "idle"
            BY DEF SourceConstants, Sources!Idle, Call_
        <3>2. call \in [Sources!Callers -> Call_] /\ call' = [call EXCEPT ![c] = Sources!Idle]
            BY <2>1 DEF SourceType, Sources!Leave
        <3>3. QED
            BY <3>1, <3>2 DEF CallsSound
    <2>2. ASSUME NEW at \in {"selected", "refused", "observe", "staging"}, Sources!Goto(c, at),
                 at # "selected" => call[c].at \notin {"idle", "selected"}
          PROVE  /\ call' \in [Sources!Callers -> Call_]
                 /\ \A p \in Sources!Callers :
                        /\ call'[p].run \in {0, call[p].run}
                        /\ call'[p].at \notin {"idle", "selected"} => call'[p].run # 0
        BY <2>2, CallIs DEF CallsSound
    <2>3. QED
        BY <2>1, <2>2
<1>2. call[c].at \notin {"idle", "selected"} => call[c].run \in 1..SourceRuns \ retired /\ status[call[c].run] # "none"
    BY DEF CallsSound, Sources!Begun, Sources!RunIds
<1>3. /\ status' \in [1..SourceRuns -> {"none", "running", "queued", "ended"}]
      /\ outbox' \in [1..SourceRuns -> {"none", "staging", "ready"}]
      /\ \A r \in 1..SourceRuns : /\ status'[r] = "none" <=> status[r] = "none"
                                  /\ r \in retired => status'[r] = status[r] /\ outbox'[r] = outbox[r]
    <2>1. /\ status \in [1..SourceRuns -> {"none", "running", "queued", "ended"}]
          /\ outbox \in [1..SourceRuns -> {"none", "staging", "ready"}]
        BY DEF SourceType
    <2>2. QED
        BY <1>2, <2>1, ZenonT(60)
<1>4. elapsed' \in Nat /\ cadence' \in {Unobserved, "later", "passed"}
    BY DEF SourceType
<1>5. QED
    BY <1>1, <1>3, <1>4, SourceKeeps

LEMMA CollectKeeps ==
    ASSUME SourceConstants, SourceInv, NEW c \in Sources!Callers, Sources!CallStep(c)
    PROVE  SourceInv'
<1>1. /\ process = "up" /\ process' = process /\ UNCHANGED <<retired, ripe, elapsed>>
      /\ call[c].at \notin {"idle", "selected"} /\ cadence \in {Unobserved, "later", "passed"}
    BY DEF Sources!CallStep, Sources!Finish, Sources!GiveBack, Sources!Stage, Sources!Refuse,
           Sources!Activate, Sources!Observe, Sources!At, SourceInv, SourceType
<1>2. CASE Sources!Finish(c)
    BY <1>1, <1>2, CallKeeps DEF Sources!Finish, Sources!Ended
<1>3. CASE Sources!GiveBack(c)
    <2>1. /\ Sources!Leave(c) /\ status' = [status EXCEPT ![call[c].run] = "ended"] /\ outbox' = outbox
          /\ last' \in {last, 0} /\ cadence' \in {cadence, "later", "passed"}
        BY <1>3 DEF Sources!GiveBack, Sources!Ended
    <2>2. QED
        BY <1>1, <2>1, CallKeeps
<1>4. CASE Sources!Stage(c)
    BY <1>1, <1>4, CallKeeps DEF Sources!Stage
<1>5. CASE Sources!Refuse(c)
    BY <1>1, <1>5, CallKeeps DEF Sources!Refuse
<1>6. CASE Sources!Activate(c)
    <2>1. /\ last' = last /\ cadence' = cadence
          /\ Sources!Leave(c) \/ Sources!Goto(c, "observe")
          /\ Sources!Activated(call[c].run) \/ UNCHANGED <<status, outbox>>
        BY <1>6 DEF Sources!Activate
    <2>2. \/ UNCHANGED <<status, outbox>>
          \/ status' = [status EXCEPT ![call[c].run] = "queued"] /\ outbox' = [outbox EXCEPT ![call[c].run] = "ready"]
        BY <2>1 DEF Sources!Activated
    <2>3. QED
        BY <1>1, <2>1, <2>2, CallKeeps
<1>7. CASE Sources!Observe(c)
    <2>1. /\ Sources!Leave(c) /\ UNCHANGED <<status, outbox>> /\ last' = last
          /\ cadence' \in {cadence, "later", "passed"}
        BY <1>7 DEF Sources!Observe
    <2>2. QED
        BY <1>1, <2>1, CallKeeps
<1>8. QED
    BY <1>2, <1>3, <1>4, <1>5, <1>6, <1>7 DEF Sources!CallStep

\* What happens to no call: the outbox, the clock and the process.
LEMMA ElsewhereKeeps ==
    ASSUME SourceConstants, SourceInv,
           \/ Sources!Kill \/ Sources!Restart \/ Sources!TimePasses
           \/ \E r \in Sources!RunIds : Sources!OutboxStep(r)
    PROVE  SourceInv'
<1>1. /\ SourceType /\ UNCHANGED <<retired, ripe, last>>
      /\ \A c \in Sources!Callers : call[c].at \notin {"idle", "selected"} => call[c].run # 0
    BY DEF Sources!Kill, Sources!Restart, Sources!TimePasses, Sources!OutboxStep, Sources!ResumeStaged,
           Sources!EndStaged, Sources!ledger, SourceInv, CallsSound
<1>2. CASE Sources!Kill
    <2>1. /\ call' = [c \in Sources!Callers |-> Sources!Idle]
          /\ UNCHANGED <<status, outbox, elapsed, cadence>>
        BY <1>2 DEF Sources!Kill, Sources!ledger
    <2>2. Sources!Idle \in Call_ /\ Sources!Idle.run = 0 /\ Sources!Idle.at = "idle"
        BY DEF SourceConstants, Sources!Idle, Call_
    <2>3. /\ call' \in [Sources!Callers -> Call_]
          /\ \A c \in Sources!Callers : /\ call'[c].run \in {0, call[c].run}
                                        /\ call'[c].at \notin {"idle", "selected"} => call'[c].run # 0
        BY <2>1, <2>2
    <2>4. QED
        BY <1>1, <2>1, <2>3, SourceKeeps DEF SourceType
<1>3. CASE Sources!Restart
    <2>1. /\ UNCHANGED <<status, outbox, elapsed, cadence, call>> /\ process # "up"
        BY <1>3 DEF Sources!Restart, Sources!ledger
    <2>2. QED
        BY <1>1, <2>1, SourceKeeps DEF SourceType
<1>4. CASE Sources!TimePasses
    <2>1. /\ UNCHANGED <<status, outbox, call, process>> /\ elapsed' = Sources!Max(Sources!Begun \cup {0})
          /\ cadence' \in {"passed", cadence}
        BY <1>4 DEF Sources!TimePasses
    <2>2. elapsed' \in Nat
        <3>1. PICK n \in 0..SourceRuns : Sources!Max(Sources!Begun \cup {0}) = n
            BY LatestRun
        <3>2. QED
            BY <2>1, <3>1 DEF SourceConstants
    <2>3. cadence' \in {Unobserved, "later", "passed"}
        BY <1>1, <2>1 DEF SourceType
    <2>4. QED
        BY <1>1, <2>1, <2>2, <2>3, SourceKeeps DEF SourceType
<1>5. ASSUME NEW r \in Sources!RunIds, Sources!OutboxStep(r) PROVE SourceInv'
    <2>1. /\ UNCHANGED <<call, process, elapsed, cadence>> /\ r \in 1..SourceRuns
          /\ status[r] \in {"running", "queued"}
        BY <1>5 DEF Sources!OutboxStep, Sources!ResumeStaged, Sources!EndStaged, Sources!RunIds
    <2>2. /\ \E st \in {"queued", "ended"} : status' = [status EXCEPT ![r] = st]
          /\ \E ob \in {"ready", "none"} : outbox' = [outbox EXCEPT ![r] = ob]
        BY <1>5 DEF Sources!OutboxStep, Sources!ResumeStaged, Sources!EndStaged, Sources!Activated
    <2>3. r \notin retired
        BY <2>1 DEF SourceInv, RetiredSound, Sources!NothingDurableRetired
    <2>4. /\ status' \in [1..SourceRuns -> {"none", "running", "queued", "ended"}]
          /\ outbox' \in [1..SourceRuns -> {"none", "staging", "ready"}]
          /\ \A p \in 1..SourceRuns : /\ status'[p] = "none" <=> status[p] = "none"
                                      /\ p \in retired => status'[p] = status[p] /\ outbox'[p] = outbox[p]
        BY <1>1, <2>1, <2>2, <2>3 DEF SourceType
    <2>5. QED
        BY <1>1, <2>1, <2>4, SourceKeeps DEF SourceType
<1>6. QED
    BY <1>2, <1>3, <1>4, <1>5

\* The next run begins.
LEMMA BeginKeeps ==
    ASSUME SourceConstants, SourceInv, NEW c \in Sources!Callers, Sources!Begin(c)
    PROVE  SourceInv'
<1> USE DEF SourceInv
<1>1. PICK n \in 0..SourceRuns :
          Sources!Begun = 1..n /\ Sources!Max(Sources!Begun \cup {0}) = n
    BY LatestRun
<1>2. n \in Nat /\ n + 1 \in 1..SourceRuns /\ n + 1 \notin Sources!Begun
    BY <1>1 DEF SourceConstants, Sources!Begin, Sources!RunIds
<1>3. /\ status' = [status EXCEPT ![n + 1] = "running"] /\ last' = n + 1
      /\ ripe' \in {ripe, ripe \cup {n + 1}}
      /\ call' = [call EXCEPT ![c] = [at |-> "collect", run |-> n + 1]]
      /\ process = "up" /\ UNCHANGED <<process, outbox, cadence, retired, elapsed>>
    BY <1>1 DEF Sources!Begin, Sources!At
<1>4. SourceType'
    BY <1>2, <1>3 DEF SourceType, Call_
<1>5. Sources!Begun' = Sources!Begun \cup {n + 1}
    BY <1>2, <1>3 DEF SourceType, Sources!Begun, Sources!RunIds
<1>6. Numbered'
    <2>1. Sources!Begun' = 1..(n + 1)
        BY <1>1, <1>2, <1>5
    <2>2. QED
        BY <1>2, <2>1 DEF Numbered
<1>7. n + 1 \notin retired
    BY <1>2 DEF RetiredSound
<1>8. CallsSound'
    <2>1. /\ call'[c] = [at |-> "collect", run |-> n + 1]
          /\ \A p \in Sources!Callers \ {c} : call'[p] = call[p]
        BY <1>3 DEF SourceType
    <2>2. Sources!Callers' = Sources!Callers
        BY DEF Sources!Callers
    <2>3. QED
        BY <1>2, <1>3, <1>5, <1>7, <2>1, <2>2 DEF CallsSound
<1>9. RetiredSound'
    <2>1. retired' \subseteq Sources!Begun' /\ ripe' \subseteq Sources!Begun'
        BY <1>3, <1>5 DEF RetiredSound
    <2>2. Sources!NothingDurableRetired'
        <3>1. \A r \in retired : r \in 1..SourceRuns /\ r # n + 1
            BY <1>7 DEF RetiredSound, Sources!Begun, Sources!RunIds
        <3>2. QED
            BY <1>3, <3>1 DEF RetiredSound, SourceType, Sources!NothingDurableRetired
    <2>3. ASSUME NEW m \in retired', \A r \in Sources!Begun' : r <= m PROVE FALSE
        <3>1. m \in 1..n
            BY <1>1, <1>3, <2>3 DEF RetiredSound
        <3>2. n + 1 <= m
            BY <1>5, <2>3
        <3>3. QED
            BY <1>2, <3>1, <3>2
    <2>4. QED
        BY <2>1, <2>2, <2>3 DEF RetiredSound
<1>10. QED
    BY <1>4, <1>6, <1>8, <1>9

\* A start retires the runs that had nothing durable.
LEMMA RecoverKeeps ==
    ASSUME SourceConstants, SourceInv, Sources!Recover
    PROVE  SourceInv'
<1> USE DEF SourceInv
<1> DEFINE orphans == {r \in Sources!RunIds : Sources!Orphan(r)}
<1>1. /\ status' = [r \in Sources!RunIds |-> IF r \in orphans THEN "ended" ELSE status[r]]
      /\ retired' = retired \cup orphans
      /\ last' = IF orphans = {} THEN last ELSE 0
      /\ UNCHANGED <<call, outbox, cadence, elapsed, ripe>> /\ process # "up"
    BY DEF Sources!Recover, Sources!Restored
<1>2. \A r \in orphans : /\ r \in 1..SourceRuns /\ status[r] = "running" /\ outbox[r] = "none"
                         /\ r \in Sources!Begun
    BY DEF Sources!RunIds, Sources!Orphan, Sources!Begun
<1> HIDE DEF orphans
<1>3. /\ status' \in [1..SourceRuns -> {"none", "running", "queued", "ended"}]
      /\ \A r \in orphans : status'[r] = "ended"
      /\ \A r \in 1..SourceRuns : r \notin orphans => status'[r] = status[r]
      /\ \A r \in 1..SourceRuns : status'[r] = "none" <=> status[r] = "none"
    BY <1>1, <1>2 DEF SourceType, Sources!RunIds
<1>4. SourceType'
    BY <1>1, <1>3 DEF SourceType
<1>5. Sources!Begun' = Sources!Begun
    BY <1>3 DEF Sources!Begun, Sources!RunIds
<1>6. Numbered'
    BY <1>5 DEF Numbered
<1>7. CallsSound'
    <2>1. \A c \in Sources!Callers : call'[c] = Sources!Idle
        BY <1>1 DEF CallsSound
    <2>2. Sources!Idle' = Sources!Idle /\ Sources!Callers' = Sources!Callers
        BY DEF Sources!Idle, Sources!Callers
    <2>3. QED
        BY <2>1, <2>2 DEF CallsSound, Sources!Idle
<1>8. RetiredSound'
    <2>1. retired' \subseteq Sources!Begun' /\ ripe' \subseteq Sources!Begun'
        BY <1>1, <1>2, <1>5 DEF RetiredSound
    <2>2. Sources!NothingDurableRetired'
        <3>1. \A r \in retired : r \in 1..SourceRuns /\ outbox[r] = "none" /\ status[r] = "ended"
            BY DEF RetiredSound, Sources!NothingDurableRetired, Sources!Begun, Sources!RunIds
        <3>2. ASSUME NEW r \in retired' PROVE outbox'[r] = "none" /\ status'[r] = "ended"
            BY <1>1, <1>2, <1>3, <3>1
        <3>3. QED
            BY <3>2 DEF Sources!NothingDurableRetired
    <2>3. ASSUME NEW m \in retired', \A r \in Sources!Begun' : r <= m PROVE last' = 0
        <3>1. CASE orphans = {}
            BY <1>1, <1>5, <2>3, <3>1 DEF RetiredSound
        <3>2. CASE orphans # {}
            BY <1>1, <3>2
        <3>3. QED
            BY <3>1, <3>2
    <2>4. QED
        BY <2>1, <2>2, <2>3 DEF RetiredSound
<1>9. QED
    BY <1>4, <1>6, <1>7, <1>8

LEMMA SourceNext ==
    ASSUME SourceConstants, SourceInv, [Sources!Next]_Sources!vars
    PROVE  SourceInv'
<1>1. CASE Sources!Select
    <2>1. "tick" \in Sources!Callers /\ cadence \in {Unobserved, "later", "passed"}
        BY DEF Sources!Callers, SourceInv, SourceType
    <2>2. /\ Sources!Goto("tick", "selected") /\ process = "up" /\ process' = process
          /\ UNCHANGED <<status, outbox, retired, ripe, elapsed>> /\ last' = last /\ cadence' = cadence
        BY <1>1 DEF Sources!Select, Sources!At, Sources!ledger
    <2>3. QED
        BY <2>1, <2>2, CallKeeps
<1>2. CASE UNCHANGED Sources!vars
    BY <1>2 DEF Sources!vars, Sources!ledger, SourceInv, SourceType, Numbered, CallsSound, RetiredSound,
       Sources!NothingDurableRetired, Sources!Begun, Sources!Callers, Sources!Idle, Sources!RunIds
<1>3. QED
    BY <1>1, <1>2, ElsewhereKeeps, BeginKeeps, CollectKeeps, RecoverKeeps DEF Sources!Next

LEMMA SourceInvariant == ASSUME SourceConstants PROVE Sources!Spec => []SourceInv
<1>1. Sources!Init => SourceInv
    BY SourceInit
<1>2. SourceInv /\ [Sources!Next]_Sources!vars => SourceInv'
    BY SourceNext
<1>3. QED
    BY <1>1, <1>2, PTL DEF Sources!Spec

\* A restart retires no run of which something is, or will ever be, in the
\* outbox: nobody stages, activates or settles it afterwards
\* (orphanedCollectionPredicate of source-scheduler.ts).
THEOREM Nothing_Durable_Retired ==
    ASSUME SourceConstants PROVE Sources!Spec => []NothingDurableRetired
<1>1. SourceInv => NothingDurableRetired
    BY DEF SourceInv, RetiredSound, NothingDurableRetired
<1>2. QED
    BY <1>1, SourceInvariant, PTL

\* A source that was due is due again after every interrupted collection, however
\* many there are, unless its cadence was observed meanwhile (`so the interrupted
\* due source is eligible again', recoverInterruptedCollections).
THEOREM Interrupted_Due_Again ==
    ASSUME SourceConstants PROVE Sources!Spec => []InterruptedDueAgain
<1>1. SourceInv => InterruptedDueAgain
    <2>1. SUFFICES ASSUME SourceInv, NEW r \in ripe, Sources!OnlyInterrupted(r), cadence # "later"
                   PROVE  Sources!Due
        BY DEF Sources!InterruptedDueAgain, InterruptedDueAgain
    <2>2. PICK n \in 0..SourceRuns : Sources!Begun = 1..n
        BY <2>1 DEF SourceInv, Numbered
    <2>3. r \in 1..n /\ n \in Nat
        BY <2>1, <2>2 DEF SourceInv, RetiredSound, SourceConstants
    <2>4. n \in retired /\ \A m \in Sources!Begun : m <= n
        BY <2>1, <2>2, <2>3 DEF Sources!OnlyInterrupted
    <2>5. last = 0 /\ elapsed \in Nat /\ cadence \in {Unobserved, "later", "passed"}
        BY <2>1, <2>4 DEF SourceInv, RetiredSound, SourceType
    <2>6. QED
        BY <2>1, <2>5 DEF Sources!Due
<1>2. QED
    BY <1>1, SourceInvariant, PTL
=============================================================================
