--------------------------- MODULE LocalFilesProofs ---------------------------
(* Proofs about the protocols on plain files.  The lock: type correctness,   *)
(* and one owner at a time provided that no process is killed or that no two *)
(* processes acquire at the same time (the runs ProcessLock_contended and    *)
(* ProcessLock_torn show why the proviso cannot be dropped).  The outbox and *)
(* the pairing of the Companion: what the run LocalFiles_recovered checks of *)
(* them, for one process of the Companion at a time, whatever is killed and  *)
(* whatever fails, and for power failures where nothing is killed or fails.  *)
EXTENDS LocalFiles, FiniteSetTheorems, TLAPS

-----------------------------------------------------------------------------
(* The lock file (ProcessLock)                                               *)

LEMMA TypeStep == TypeOK /\ [Next]_vars => TypeOK'
<1> SUFFICES ASSUME TypeOK, [Next]_vars PROVE TypeOK'
    OBVIOUS
<1> USE LockAssumption DEF TypeOK
<1>1. ASSUME NEW p \in Processes, NEW next \in Phases, Goto(p, next)
      PROVE  phase' \in [Processes -> Phases]
    BY <1>1 DEF Goto
<1>2. ASSUME NEW p \in Processes, Start(p) \/ Open(p) \/ Read(p) \/ CheckOwner(p)
      PROVE  TypeOK'
    <2>1. phase' \in [Processes -> Phases]
        BY <1>1, <1>2 DEF Start, Open, Read, CheckOwner, Phases, Acquiring
    <2>2. file' \in {None} \cup [creator : Processes, written : BOOLEAN]
        <3>1. Empty(p) \in [creator : Processes, written : BOOLEAN]
            BY DEF Empty
        <3>2. file' = file \/ file' = Empty(p)
            BY <1>2 DEF Start, Open, Read, CheckOwner
        <3>3. QED
            BY <3>1, <3>2
    <2>3. observed' \in [Processes -> Processes \cup {None}]
        <3>1. Readable => file.creator \in Processes
            BY DEF Readable
        <3>2. QED
            BY <1>2, <3>1 DEF Start, Open, Read, CheckOwner
    <2>4. UNCHANGED <<attempt, kills, writeErrors>>
        BY <1>2 DEF Start, Open, Read, CheckOwner
    <2>5. QED
        BY <2>1, <2>2, <2>3, <2>4
<1>3. ASSUME NEW p \in Processes, ClearCheck(p) \/ ClearUnlink(p) \/ Write(p) \/ Secure(p)
      PROVE  TypeOK'
    <2>1. phase' \in [Processes -> Phases]
        BY <1>1, <1>3 DEF ClearCheck, ClearUnlink, Write, Secure, Phases, Acquiring, Leasing
    <2>2. file' \in {None} \cup [creator : Processes, written : BOOLEAN]
        <3>1. Written(p) \in [creator : Processes, written : BOOLEAN]
            BY DEF Written
        <3>2. file' \in {file, None, Written(p)}
            BY <1>3 DEF ClearCheck, ClearUnlink, Write, Secure
        <3>3. QED
            BY <3>1, <3>2
    <2>3. attempt' \in [Processes -> 0..1] /\ UNCHANGED <<observed, kills, writeErrors>>
        BY <1>3 DEF ClearCheck, ClearUnlink, Write, Secure
    <2>4. QED
        BY <2>1, <2>2, <2>3
<1>4. ASSUME NEW p \in Processes, WriteError(p) \/ ReleaseCheck(p) \/ ReleaseUnlink(p)
                                  \/ Exit(p) \/ Kill(p)
      PROVE  TypeOK'
    <2>1. phase' \in [Processes -> Phases]
        BY <1>1, <1>4 DEF WriteError, ReleaseCheck, ReleaseUnlink, Exit, Kill, Phases, Leasing
    <2>2. kills' \in 0..MaxKills /\ writeErrors' \in 0..MaxWriteErrors
        BY <1>4 DEF WriteError, ReleaseCheck, ReleaseUnlink, Exit, Kill
    <2>3. QED
        BY <1>4, <2>1, <2>2 DEF WriteError, ReleaseCheck, ReleaseUnlink, Exit, Kill
<1>5. CASE UNCHANGED vars
    BY <1>5 DEF vars
<1>6. QED
    BY <1>2, <1>3, <1>4, <1>5 DEF Next, Acquire, Finished

LEMMA TypeInit == Init => TypeOK
BY LockAssumption DEF Init, TypeOK, Phases

\* Every reachable state is well typed, for any number of processes.
THEOREM TypeCorrect == Spec => []TypeOK
BY TypeInit, TypeStep, PTL DEF Spec

-----------------------------------------------------------------------------
(* One owner *)

Owning == {"writing", "securing", "holding", "releasing"}

Dead(p) == phase[p] \in {"gone", "killed"}

\* Who believes to own the file does.
OwnersOwn ==
    \A p \in Processes : phase[p] \in Owning =>
        file = IF phase[p] = "writing" THEN Empty(p) ELSE Written(p)

CreatorStarted == file # None => phase[file.creator] # "new"

\* What a claimant knows of the owner whose record it read ...
ObservedStarted ==
    \A p \in Processes : phase[p] \in {"checking", "clearing", "unlinking"} =>
        observed[p] \in Processes /\ phase[observed[p]] # "new"

ObservedDead ==
    \A p \in Processes : phase[p] \in {"clearing", "unlinking"} => Dead(observed[p])

\* ... and what it is about to unlink.
UnlinksStale ==
    \A p \in Processes : phase[p] = "unlinking" => file = Written(observed[p])

\* The two ways to keep two claimants from unlinking one after the other.
Uncontended == \A p, q \in Contenders : p = q

Unkilled == /\ file # None => phase[file.creator] \in Owning
            /\ \A p \in Processes : phase[p] \notin {"unlinking", "killed"}

IInv == /\ TypeOK
        /\ OwnersOwn
        /\ CreatorStarted
        /\ ObservedStarted
        /\ ObservedDead
        /\ UnlinksStale
        /\ MaxContenders <= 1 => Uncontended
        /\ MaxKills = 0 => Unkilled

LEMMA InvInit == Init => IInv
<1> SUFFICES ASSUME Init PROVE IInv
    OBVIOUS
<1>1. \A p \in Processes : phase[p] = "new"
    BY DEF Init
<1>2. file = None
    BY DEF Init
<1>3. Contenders = {}
    BY <1>1 DEF Contenders, Acquiring
<1>4. QED
    BY <1>1, <1>2, <1>3, TypeInit
       DEF IInv, OwnersOwn, CreatorStarted, ObservedStarted, ObservedDead, UnlinksStale,
           Uncontended, Unkilled, Owning

\* The states of the files of two processes differ, and differ from no file.
LEMMA FileFacts ==
    ASSUME NEW p \in Processes, NEW q \in Processes
    PROVE  /\ Written(p).creator = p /\ Empty(p).creator = p
           /\ Written(p) # None /\ Empty(p) # None
           /\ (Written(p) = Written(q) => p = q)
           /\ (Empty(p) = Empty(q) => p = q)
           /\ Written(p) # Empty(q)
           /\ Written(p).written /\ ~Empty(p).written
<1>1. /\ Written(p).creator = p /\ Empty(p).creator = p
      /\ Written(q).creator = q /\ Empty(q).creator = q
      /\ Written(p).written = TRUE /\ Empty(p).written = FALSE
      /\ Empty(q).written = FALSE
    BY DEF Written, Empty
<1>2. /\ Written(p) \in [creator : Processes, written : BOOLEAN]
      /\ Empty(p) \in [creator : Processes, written : BOOLEAN]
    BY DEF Written, Empty
<1>3. Written(p) # None /\ Empty(p) # None
    BY <1>2, LockAssumption
<1>4. QED
    BY <1>1, <1>3

\* A file is one of the two states of its creator's.
LEMMA FileState ==
    ASSUME TypeOK, file # None
    PROVE  /\ file.creator \in Processes
           /\ file = Written(file.creator) \/ file = Empty(file.creator)
           /\ file.written <=> file = Written(file.creator)
BY DEF TypeOK, Written, Empty

LEMMA OneFewerContender ==
    ASSUME NEW p \in Processes,
           \A q \in Processes \ {p} : phase'[q] = phase[q],
           phase[p] \in Acquiring \/ phase'[p] \notin Acquiring,
           Uncontended
    PROVE  Uncontended'
BY DEF Uncontended, Contenders

\* A step of process p, as far as phases and the observed records go.
Moves(p) ==
    /\ phase' \in [Processes -> Phases]
    /\ \A q \in Processes \ {p} : phase'[q] = phase[q]
    /\ ~Dead(p)
    /\ phase'[p] # "new"

\* The facts about the observed records survive a step of a process that
\* neither observes a record nor concludes that an owner is dead.
LEMMA ObservedKept ==
    ASSUME IInv, NEW p \in Processes, Moves(p), observed' = observed,
           phase'[p] \notin {"checking", "clearing", "unlinking"}
             \/ (phase[p] = "clearing" /\ phase'[p] = "unlinking")
    PROVE  ObservedStarted' /\ ObservedDead'
<1>1. \A q \in Processes : phase[q] # "new" => phase'[q] # "new"
    BY DEF Moves
<1>2. \A q \in Processes : Dead(q) => Dead(q)'
    BY DEF Moves, Dead
<1>3. \A q \in Processes : phase'[q] \in {"checking", "clearing", "unlinking"} =>
          /\ phase[q] \in {"checking", "clearing", "unlinking"}
          /\ phase'[q] = "checking" <=> phase[q] = "checking"
    BY DEF Moves
<1>4. ObservedStarted'
    BY <1>1, <1>3 DEF IInv, ObservedStarted
<1>5. ASSUME NEW q \in Processes, phase'[q] \in {"clearing", "unlinking"}
      PROVE  Dead(observed[q])'
    <2>1. phase[q] \in {"clearing", "unlinking"}
        BY <1>3, <1>5
    <2>2. Dead(observed[q]) /\ observed[q] \in Processes
        BY <2>1 DEF IInv, ObservedDead, ObservedStarted
    <2>3. QED
        BY <1>2, <2>2 DEF Dead
<1>6. QED
    BY <1>4, <1>5 DEF ObservedDead

\* An owner is alone, and nobody is about to unlink its file.
LEMMA OwnerAlone ==
    ASSUME IInv, NEW p \in Processes, phase[p] \in Owning
    PROVE  /\ file # None /\ file.creator = p
           /\ phase[p] # "writing" => file = Written(p)
           /\ \A q \in Processes \ {p} : phase[q] \notin Owning
           /\ \A q \in Processes : phase[q] # "unlinking"
<1>1. file = IF phase[p] = "writing" THEN Empty(p) ELSE Written(p)
    BY DEF IInv, OwnersOwn
<1>2. file # None /\ file.creator = p
    BY <1>1, FileFacts
<1>3. ASSUME NEW q \in Processes, phase[q] \in Owning PROVE q = p
    <2>1. file = Empty(q) \/ file = Written(q)
        BY <1>3 DEF IInv, OwnersOwn
    <2>2. QED
        BY <1>2, <2>1, FileFacts
<1>4. ASSUME NEW q \in Processes, phase[q] = "unlinking" PROVE FALSE
    <2>1. file = Written(observed[q]) /\ Dead(observed[q]) /\ observed[q] \in Processes
        BY <1>4 DEF IInv, UnlinksStale, ObservedDead, ObservedStarted
    <2>2. observed[q] = p
        BY <1>2, <2>1, FileFacts
    <2>3. QED
        BY <2>1, <2>2 DEF Dead, Owning
<1>5. QED
    BY <1>1, <1>2, <1>3, <1>4

\* A step that leaves the file alone.
LEMMA FileKept ==
    ASSUME IInv, NEW p \in Processes, Moves(p), file' = file,
           phase'[p] \in Owning => /\ phase[p] \in Owning \ {"writing"}
                                  /\ phase'[p] # "writing",
           phase[p] \in Owning => phase'[p] \in Owning \/ phase'[p] = "killed",
           \A q \in Processes : phase'[q] = "unlinking" => file = Written(observed'[q]),
           MaxKills = 0 => phase'[p] \notin {"unlinking", "killed"}
    PROVE  /\ OwnersOwn' /\ CreatorStarted' /\ UnlinksStale'
           /\ (MaxKills = 0 => Unkilled')
<1>1. OwnersOwn'
    <2>1. SUFFICES ASSUME NEW q \in Processes, phase'[q] \in Owning
                   PROVE  file = IF phase'[q] = "writing" THEN Empty(q) ELSE Written(q)
        BY DEF OwnersOwn, Empty, Written
    <2>2. CASE q = p
        BY <2>1, <2>2 DEF IInv, OwnersOwn
    <2>3. CASE q # p
        BY <2>1, <2>3 DEF IInv, OwnersOwn, Moves
    <2>4. QED
        BY <2>2, <2>3
<1>2. CreatorStarted'
    BY FileState DEF IInv, CreatorStarted, Moves
<1>3. UnlinksStale'
    BY DEF UnlinksStale, Written
<1>4. ASSUME MaxKills = 0 PROVE Unkilled'
    BY <1>4, FileState DEF IInv, Unkilled, Moves
<1>5. QED
    BY <1>1, <1>2, <1>3, <1>4

LEMMA ActorMoves ==
    ASSUME IInv, NEW p \in Processes, NEW next \in Phases \ {"new"}, Goto(p, next), ~Dead(p)
    PROVE  Moves(p) /\ phase'[p] = next
BY DEF IInv, TypeOK, Moves, Goto

LEMMA KeptFileStep ==
    ASSUME IInv, NEW p \in Processes,
           \/ Start(p) \/ (Open(p) /\ file # None) \/ Read(p) \/ CheckOwner(p) \/ ClearCheck(p)
           \/ Secure(p) \/ ReleaseCheck(p) \/ Exit(p) \/ Kill(p)
    PROVE  /\ OwnersOwn' /\ CreatorStarted' /\ UnlinksStale'
           /\ ObservedStarted' /\ ObservedDead'
           /\ (MaxContenders <= 1 => Uncontended')
           /\ (MaxKills = 0 => Unkilled')
<1> USE DEF Owning, Phases, Acquiring, Leasing
<1>1. CASE Start(p)
    <2>1. Moves(p) /\ phase'[p] = "opening" /\ UNCHANGED <<file, observed>>
        BY <1>1, ActorMoves DEF Start, Dead
    <2>2. phase[p] = "new" /\ Cardinality(Contenders) < MaxContenders
        BY <1>1 DEF Start
    <2>3. MaxContenders <= 1 => Uncontended'
        <3>1. SUFFICES ASSUME MaxContenders <= 1 PROVE Uncontended'
            OBVIOUS
        <3>2. IsFiniteSet(Contenders)
            BY LockAssumption, FS_Subset DEF Contenders
        <3>3. Cardinality(Contenders) = 0
            BY <2>2, <3>1, <3>2, FS_CardinalityType, LockAssumption
        <3>4. Contenders = {}
            BY <3>2, <3>3, FS_EmptySet
        <3>5. QED
            BY <2>1, <3>4 DEF Uncontended, Contenders, Moves
    <2>4. \A q \in Processes : phase'[q] = "unlinking" => file = Written(observed'[q])
        BY <2>1 DEF IInv, UnlinksStale, Moves
    <2>5. QED
        BY <2>1, <2>2, <2>3, <2>4, FileKept, ObservedKept
<1>2. CASE Open(p) /\ file # None
    <2>1. Moves(p) /\ phase'[p] \in {"reading", "refused"} /\ UNCHANGED <<file, observed>>
        BY <1>2, ActorMoves DEF Open, Dead
    <2>2. phase[p] = "opening"
        BY <1>2 DEF Open
    <2>3. \A q \in Processes : phase'[q] = "unlinking" => file = Written(observed'[q])
        BY <2>1 DEF IInv, UnlinksStale, Moves
    <2>4. QED
        BY <2>1, <2>2, <2>3, FileKept, ObservedKept, OneFewerContender DEF Moves, IInv
<1>3. CASE Read(p)
    <2>1. Moves(p) /\ phase[p] = "reading" /\ UNCHANGED file
        BY <1>3, ActorMoves DEF Read, Dead
    <2>2. \/ /\ Readable /\ observed' = [observed EXCEPT ![p] = file.creator]
             /\ phase'[p] = "checking"
          \/ UNCHANGED observed /\ phase'[p] = "refused"
        BY <1>3, ActorMoves DEF Read, Dead
    <2>3. \A q \in Processes : phase'[q] \in {"clearing", "unlinking"} =>
              q # p /\ phase'[q] = phase[q] /\ observed'[q] = observed[q]
        BY <2>1, <2>2 DEF Moves, IInv, TypeOK
    <2>4. \A q \in Processes : phase'[q] = "unlinking" => file = Written(observed'[q])
        BY <2>3 DEF IInv, UnlinksStale
    <2>5. ObservedDead'
        <3>1. SUFFICES ASSUME NEW q \in Processes, phase'[q] \in {"clearing", "unlinking"}
                       PROVE  Dead(observed[q])'
            BY DEF ObservedDead
        <3>2. Dead(observed[q]) /\ observed[q] \in Processes /\ observed'[q] = observed[q]
            BY <2>3, <3>1 DEF IInv, ObservedDead, ObservedStarted
        <3>3. QED
            BY <2>1, <3>2 DEF Dead, Moves
    <2>6. ObservedStarted'
        <3>1. CASE UNCHANGED observed /\ phase'[p] = "refused"
            BY <2>1, <3>1, ObservedKept
        <3>2. CASE Readable /\ observed' = [observed EXCEPT ![p] = file.creator]
            <4>1. file.creator \in Processes /\ phase[file.creator] # "new"
                BY <3>2, FileState DEF Readable, IInv, CreatorStarted
            <4>2. /\ observed'[p] = file.creator
                  /\ \A q \in Processes \ {p} : observed'[q] = observed[q]
                BY <3>2 DEF IInv, TypeOK
            <4>3. \A q \in Processes : phase[q] # "new" => phase'[q] # "new"
                BY <2>1 DEF Moves
            <4>4. QED
                BY <2>1, <4>1, <4>2, <4>3 DEF ObservedStarted, IInv, Moves
        <3>3. QED
            BY <2>2, <3>1, <3>2
    <2>7. QED
        BY <2>1, <2>2, <2>4, <2>5, <2>6, FileKept, OneFewerContender DEF Moves, IInv
<1>4. CASE CheckOwner(p)
    <2>1. Moves(p) /\ phase[p] = "checking" /\ UNCHANGED <<file, observed>>
        BY <1>4, ActorMoves DEF CheckOwner, Dead
    <2>2. phase'[p] = "refused" \/ (phase'[p] = "clearing" /\ ~Living(observed[p]))
        BY <1>4, ActorMoves DEF CheckOwner, Dead
    <2>3. \A q \in Processes : phase'[q] = "unlinking" => file = Written(observed'[q])
        BY <2>1, <2>2 DEF IInv, UnlinksStale, Moves
    <2>4. ObservedStarted' /\ ObservedDead'
        <3>1. CASE phase'[p] = "refused"
            BY <2>1, <3>1, ObservedKept
        <3>2. CASE phase'[p] = "clearing" /\ ~Living(observed[p])
            <4>1. observed[p] \in Processes /\ Dead(observed[p])
                BY <2>1, <3>2 DEF IInv, ObservedStarted, Living, Dead
            <4>2. \A q \in Processes : Dead(q) => Dead(q)'
                BY <2>1 DEF Moves, Dead
            <4>3. \A q \in Processes : phase[q] # "new" => phase'[q] # "new"
                BY <2>1 DEF Moves
            <4>4. ObservedStarted'
                BY <2>1, <4>1, <4>3 DEF IInv, ObservedStarted, Moves
            <4>5. ASSUME NEW q \in Processes, phase'[q] \in {"clearing", "unlinking"}
                  PROVE  Dead(observed[q])'
                <5>1. Dead(observed[q]) /\ observed[q] \in Processes
                    BY <2>1, <3>2, <4>1, <4>5 DEF IInv, ObservedDead, ObservedStarted, Moves
                <5>2. QED
                    BY <2>1, <4>2, <5>1 DEF Dead
            <4>6. QED
                BY <4>4, <4>5 DEF ObservedDead
        <3>3. QED
            BY <2>2, <3>1, <3>2
    <2>5. QED
        BY <2>1, <2>2, <2>3, <2>4, FileKept, OneFewerContender DEF Moves, IInv
<1>5. CASE ClearCheck(p)
    <2>1. Moves(p) /\ phase[p] = "clearing" /\ UNCHANGED <<file, observed>>
        BY <1>5, ActorMoves DEF ClearCheck, Dead
    <2>2. \/ phase'[p] = "refused"
          \/ phase'[p] = "unlinking" /\ file = Written(observed[p])
        BY <1>5, ActorMoves DEF ClearCheck, Dead
    <2>3. \A q \in Processes : phase'[q] = "unlinking" => file = Written(observed'[q])
        BY <2>1, <2>2 DEF IInv, UnlinksStale, Moves
    <2>4. MaxKills = 0 => phase'[p] # "unlinking"
        <3>1. Dead(observed[p]) /\ observed[p] \in Processes
            BY <2>1 DEF IInv, ObservedDead, ObservedStarted
        <3>2. QED
            BY <2>2, <3>1, FileFacts DEF IInv, Unkilled, Dead
    <2>5. QED
        BY <2>1, <2>2, <2>3, <2>4, FileKept, ObservedKept, OneFewerContender DEF Moves, IInv
<1>6. CASE Secure(p) \/ ReleaseCheck(p)
    <2>1. file # None /\ file = Written(p) /\ phase[p] \in {"securing", "holding"}
        BY <1>6, OwnerAlone DEF Secure, ReleaseCheck
    <2>2. Moves(p) /\ phase'[p] \in {"holding", "releasing"} /\ UNCHANGED <<file, observed>>
        BY <1>6, <2>1, ActorMoves DEF Secure, ReleaseCheck, Dead
    <2>3. \A q \in Processes : phase'[q] = "unlinking" => file = Written(observed'[q])
        BY <2>2 DEF IInv, UnlinksStale, Moves
    <2>4. phase[p] \in Acquiring \/ phase'[p] \notin Acquiring
        BY <2>1, <2>2
    <2>5. QED
        BY <2>1, <2>2, <2>3, <2>4, FileKept, ObservedKept, OneFewerContender DEF Moves, IInv
<1>7. CASE Exit(p) \/ Kill(p)
    <2>1. Moves(p) /\ phase'[p] \in {"gone", "killed"} /\ UNCHANGED <<file, observed>>
        BY <1>7, ActorMoves DEF Exit, Kill, Dead, Living
    <2>2. phase'[p] = "gone" => phase[p] \in {"refused", "done"}
        BY <1>7, ActorMoves DEF Exit, Kill, Dead, Living
    <2>3. MaxKills = 0 => phase'[p] # "killed"
        BY <1>7, ActorMoves DEF Exit, Kill, Dead, IInv, TypeOK
    <2>4. \A q \in Processes : phase'[q] = "unlinking" => file = Written(observed'[q])
        BY <2>1 DEF IInv, UnlinksStale, Moves
    <2>5. QED
        BY <2>1, <2>2, <2>3, <2>4, FileKept, ObservedKept, OneFewerContender DEF Moves, IInv
<1>8. QED
    BY <1>1, <1>2, <1>3, <1>4, <1>5, <1>6, <1>7

\* The steps of an owner, or of a creator, that change the file.
LEMMA OwnFileStep ==
    ASSUME IInv, NEW p \in Processes,
           (Open(p) /\ file = None) \/ Write(p) \/ WriteError(p) \/ ReleaseUnlink(p)
    PROVE  /\ OwnersOwn' /\ CreatorStarted' /\ UnlinksStale'
           /\ ObservedStarted' /\ ObservedDead'
           /\ (MaxContenders <= 1 => Uncontended')
           /\ (MaxKills = 0 => Unkilled')
<1> USE DEF Owning, Phases, Acquiring, Leasing
<1>1. /\ \A q \in Processes \ {p} : phase[q] \notin Owning
      /\ \A q \in Processes : phase[q] # "unlinking"
    <2>1. CASE Open(p) /\ file = None
        BY <2>1, FileFacts DEF IInv, OwnersOwn, UnlinksStale, ObservedStarted
    <2>2. CASE Write(p) \/ WriteError(p) \/ ReleaseUnlink(p)
        BY <2>2, OwnerAlone DEF Write, WriteError, ReleaseUnlink
    <2>3. QED
        BY <2>1, <2>2
<1>2. \/ phase[p] = "opening" /\ phase'[p] = "writing" /\ file' = Empty(p)
      \/ phase[p] = "writing" /\ phase'[p] = "securing" /\ file' = Written(p)
      \/ phase[p] = "writing" /\ phase'[p] = "refused" /\ file' = None
      \/ phase[p] = "releasing" /\ phase'[p] = "done" /\ file' = None
    <2>1. CASE Open(p) /\ file = None
        BY <2>1, ActorMoves DEF Open, Dead
    <2>2. CASE Write(p)
        <3>1. file = Empty(p)
            BY <2>2 DEF Write, IInv, OwnersOwn
        <3>2. QED
            BY <2>2, <3>1, ActorMoves DEF Write, Dead
    <2>3. CASE WriteError(p)
        BY <2>3, ActorMoves DEF WriteError, Dead
    <2>4. CASE ReleaseUnlink(p)
        BY <2>4, ActorMoves DEF ReleaseUnlink, Dead
    <2>5. QED
        BY <2>1, <2>2, <2>3, <2>4
<1>3. Moves(p) /\ UNCHANGED observed
    BY ActorMoves DEF Open, Write, WriteError, ReleaseUnlink, Dead
<1>4. OwnersOwn'
    <2>1. SUFFICES ASSUME NEW q \in Processes, phase'[q] \in Owning
                   PROVE  file' = IF phase'[q] = "writing" THEN Empty(q) ELSE Written(q)
        BY DEF OwnersOwn, Empty, Written
    <2>2. q = p
        BY <1>1, <1>3, <2>1 DEF Moves
    <2>3. QED
        BY <1>2, <2>1, <2>2
<1>5. CreatorStarted'
    BY <1>2, <1>3, FileFacts DEF CreatorStarted, Moves
<1>6. UnlinksStale'
    BY <1>1, <1>2, <1>3 DEF UnlinksStale, Moves
<1>7. ASSUME MaxKills = 0 PROVE Unkilled'
    BY <1>2, <1>3, <1>7, FileFacts DEF IInv, Unkilled, Moves
<1>8. QED
    BY <1>2, <1>3, <1>4, <1>5, <1>6, <1>7, ObservedKept, OneFewerContender DEF IInv, Moves

\* The step that needs the proviso: the name a claimant unlinks still leads to
\* the stale record, and no other claimant is about to unlink it.
LEMMA ClearStep ==
    ASSUME IInv, MaxKills = 0 \/ MaxContenders <= 1, NEW p \in Processes, ClearUnlink(p)
    PROVE  /\ OwnersOwn' /\ CreatorStarted' /\ UnlinksStale'
           /\ ObservedStarted' /\ ObservedDead'
           /\ (MaxContenders <= 1 => Uncontended')
           /\ (MaxKills = 0 => Unkilled')
<1> USE DEF Owning, Phases, Acquiring, Leasing
<1>1. phase[p] = "unlinking" /\ file' = None
    BY DEF ClearUnlink
<1>2. MaxKills # 0
    BY <1>1 DEF IInv, Unkilled
<1>3. Uncontended
    BY <1>2 DEF IInv
<1>4. \A q \in Processes \ {p} : phase[q] # "unlinking"
    BY <1>1, <1>3 DEF Uncontended, Contenders
<1>5. \A q \in Processes : phase[q] \notin Owning
    BY <1>1, OwnerAlone
<1>6. Moves(p) /\ phase'[p] \in {"refused", "opening"} /\ UNCHANGED observed
    BY ActorMoves DEF ClearUnlink, Dead
<1>7. OwnersOwn' /\ CreatorStarted' /\ UnlinksStale'
    BY <1>1, <1>4, <1>5, <1>6 DEF OwnersOwn, CreatorStarted, UnlinksStale, Moves
<1>8. ObservedStarted' /\ ObservedDead'
    BY <1>6, ObservedKept
<1>9. Uncontended'
    BY <1>1, <1>3, <1>6, OneFewerContender DEF Moves
<1>10. QED
    BY <1>2, <1>7, <1>8, <1>9

LEMMA InvStep ==
    ASSUME MaxKills = 0 \/ MaxContenders <= 1, IInv, [Next]_vars
    PROVE  IInv'
<1>1. TypeOK'
    BY TypeStep DEF IInv
<1>2. CASE UNCHANGED vars
    BY <1>1, <1>2 DEF IInv, OwnersOwn, CreatorStarted, ObservedStarted, ObservedDead,
                      UnlinksStale, Uncontended, Unkilled, Contenders, Dead, Empty, Written,
                      vars
<1>3. ASSUME NEW p \in Processes,
             \/ Start(p) \/ Acquire(p) \/ WriteError(p)
             \/ ReleaseCheck(p) \/ ReleaseUnlink(p) \/ Exit(p) \/ Kill(p)
      PROVE  IInv'
    <2>1. CASE ClearUnlink(p)
        BY <1>1, <2>1, ClearStep DEF IInv
    <2>2. CASE (Open(p) /\ file = None) \/ Write(p) \/ WriteError(p) \/ ReleaseUnlink(p)
        BY <1>1, <2>2, OwnFileStep DEF IInv
    <2>3. CASE \/ Start(p) \/ (Open(p) /\ file # None) \/ Read(p) \/ CheckOwner(p)
               \/ ClearCheck(p) \/ Secure(p) \/ ReleaseCheck(p) \/ Exit(p) \/ Kill(p)
        BY <1>1, <2>3, KeptFileStep DEF IInv
    <2>4. QED
        BY <1>3, <2>1, <2>2, <2>3 DEF Acquire
<1>4. QED
    BY <1>2, <1>3 DEF Next, Finished

\* The lock serializes serve, backup, init and restore, for any number of
\* processes, if none of them is killed or if no two acquire it concurrently.
THEOREM Serialized ==
    ASSUME MaxKills = 0 \/ MaxContenders <= 1
    PROVE  Spec => []OneOwner
<1>1. Init => IInv
    BY InvInit
<1>2. IInv /\ [Next]_vars => IInv'
    BY InvStep
<1>3. IInv => OneOwner
    BY OwnerAlone DEF OneOwner, Owning, Leasing
<1>4. QED
    BY <1>1, <1>2, <1>3, PTL DEF Spec

-----------------------------------------------------------------------------
(* The result outbox (RelayOutbox): the invariant, what follows from it and   *)
(* from a step, the steps one by one, and the theorems.                       *)

\* Where a command is while it looks at the slot, and everywhere it can be when
\* it is the only one: its link is never refused.
Recovering == {"stat", "list", "read", "compare", "sort", "syncSorted", "choose", "syncLink",
               "sweep", "syncSwept", "reread"}
Persisting == {"create", "write", "fsync", "publish"}
Places_ == {"new", "idle", "poll", "syncPublished", "tidy", "syncTidied", "submit", "unlink",
            "syncCleared", "stopping", "forgetting", "gone", "killed"} \cup Recovering \cup Persisting

Process_ ==
    [at : Places_, why : {"inspect", "replay", "unpair", "persist", "clear"},
     own : Results \cup {None}, found : BOOLEAN, got : Results \cup {None},
     seen : SUBSET Results, live : SUBSET Results]

OutboxType ==
    /\ slot \in Results \cup {None} /\ temps \in SUBSET Results
    /\ disk \in [slot : Results \cup {None}, temps : SUBSET Results]
    /\ body \in [Results -> {"none", "torn", "whole", "synced"}]
    /\ proc \in [Outbox!Parties -> Process_]
    /\ paired \in BOOLEAN /\ offered \in SUBSET Results /\ acked \in SUBSET Results
    /\ outboxKills \in 0..OutboxKills /\ outages \in 0..OutboxOutages
    /\ errors \in 0..OutboxErrors

Alone == \A p, q \in Outbox!Parties : Outbox!Living(p) /\ Outbox!Living(q) => p = q

\* What a command that is at c knows of the files.
Knows(c) ==
    /\ c.at \in Recovering /\ c.why = "persist" => c.own \in Results
    /\ c.at \in Recovering /\ c.why = "clear" => c.own \in acked
    /\ c.at = "list" => c.found = (slot # None)
    /\ c.at \in {"read", "compare"} => slot # None /\ c.found /\ c.seen = temps
    /\ c.at = "compare" => c.got = slot
    /\ c.at \in {"sort", "syncSorted", "choose"} => slot = None /\ ~c.found /\ c.seen = temps
    /\ c.at \in {"syncSorted", "choose"} => \A r \in temps : Outbox!Whole(r)
    /\ c.at \in {"syncLink", "sweep"} => slot # None /\ c.seen = temps /\ (c.found => c.got = slot)
    /\ c.at \in {"syncSwept", "reread"} => slot # None /\ temps = {} /\ (c.found => c.got = slot)
    /\ c.at \in {"create", "poll", "stopping", "forgetting", "syncCleared"} => slot = None /\ temps = {}
    /\ c.at \in Persisting => c.own \in Results /\ slot = None
    /\ c.at \in {"write", "fsync", "publish"} => temps = {c.own}
    /\ c.at = "fsync" => body[c.own] = "whole"
    /\ c.at = "publish" => body[c.own] = "synced"
    /\ c.at \in {"syncPublished", "tidy"} => slot = c.own /\ c.own \in Results /\ temps = {c.own}
    /\ c.at \in {"syncTidied", "submit", "unlink"} => slot = c.own /\ c.own \in Results /\ temps = {}
    /\ c.at \in {"unlink", "syncCleared"} => c.own \in acked

Informed ==
    \A p \in Outbox!Parties : Outbox!Living(p) =>
        /\ Knows(proc[p])
        /\ p \in Doctors => proc[p].at \in Recovering /\ proc[p].why = "inspect"

\* What is offered and not acknowledged is in the slot, and the slot is whole;
\* without a pairing there is nothing.
Kept ==
    /\ slot # None => Outbox!Whole(slot)
    /\ \A r \in offered \ acked : slot = r
    /\ ~paired => /\ slot = None /\ temps = {}
                  /\ \A p \in Pollers \cup Unpairers : ~Outbox!Living(p)

\* The names on the disk are those in memory, but for the one process between a
\* call and the flush that follows it; what the slot leads to is on the disk.
Flushed == disk.slot = slot /\ disk.temps = temps

Unflushed(c) ==
    \/ c.at \in {"syncTidied", "syncSwept"} /\ disk.slot = slot
    \/ c.at \in {"write", "fsync", "publish", "syncPublished", "syncSorted", "syncLink"}
       /\ disk.slot = None
    \/ c.at = "syncCleared" /\ disk.slot \in acked

Durable ==
    /\ Flushed \/ \E p \in Outbox!Parties : Unflushed(proc[p])
    /\ slot # None => body[slot] = "synced"
    /\ disk.slot # None => body[disk.slot] = "synced"
    /\ \A r \in offered \ acked : disk.slot = r
    /\ ~paired => disk.slot = None /\ disk.temps = {}
    /\ \A r \in Results : body[r] = "whole" =>
           \E p \in Outbox!Parties : Outbox!At(p, "fsync") /\ proc[p].own = r

OnlyOutages == OutboxKills = 0 /\ OutboxErrors = 0

OutboxInv == OutboxType /\ Alone /\ Informed /\ Kept /\ (OnlyOutages => Durable)

FilesType ==
    /\ slot \in Results \cup {None} /\ temps \in SUBSET Results
    /\ disk \in [slot : Results \cup {None}, temps : SUBSET Results]
    /\ body \in [Results -> {"none", "torn", "whole", "synced"}]
    /\ paired \in BOOLEAN /\ offered \in SUBSET Results /\ acked \in SUBSET Results
    /\ outboxKills \in 0..OutboxKills /\ outages \in 0..OutboxOutages
    /\ errors \in 0..OutboxErrors

\* The record of a command that begins, ends or forgets what it read.
LEMMA InterruptedIs ==
    ASSUME NEW at \in Places_
    PROVE  /\ Outbox!Interrupted(at) \in Process_ /\ Outbox!Interrupted(at).at = at
           /\ Outbox!Interrupted(at).why = "inspect" /\ Outbox!Interrupted(at).own = None
<1>1. Outbox!Fresh \in Process_ /\ Outbox!Fresh.why = "inspect" /\ Outbox!Fresh.own = None
    BY DEF Outbox!Fresh, Process_, Places_, Recovering, Persisting
<1>2. QED
    BY <1>1 DEF Outbox!Interrupted, Process_

LEMMA ProcIs ==
    ASSUME OutboxInv, NEW p \in Outbox!Parties
    PROVE  /\ proc \in [Outbox!Parties -> Process_] /\ proc[p] \in Process_
           /\ proc[p].at \in Places_
           /\ proc[p].why \in {"inspect", "replay", "unpair", "persist", "clear"}
           /\ proc[p].own \in Results \cup {None} /\ proc[p].found \in BOOLEAN
           /\ proc[p].got \in Results \cup {None} /\ proc[p].seen \in SUBSET Results
           /\ proc[p].live \in SUBSET Results
<1>1. proc \in [Outbox!Parties -> Process_]
    BY DEF OutboxInv, OutboxType
<1>2. proc[p] \in Process_
    BY <1>1
<1>3. QED
    BY <1>1, <1>2 DEF Process_

\* Only the process that moves may be alive after its step.
LEMMA ProcessMoves ==
    ASSUME OutboxInv, OneAtATime, NEW p \in Outbox!Parties, NEW v \in Process_,
           proc' = [proc EXCEPT ![p] = v], Outbox!Living(p) \/ Outbox!Living(p)'
    PROVE  /\ proc' \in [Outbox!Parties -> Process_] /\ proc'[p] = v
           /\ \A q \in Outbox!Parties \ {p} :
                 proc'[q] = proc[q] /\ ~Outbox!Living(q) /\ ~Outbox!Living(q)'
           /\ Alone'
<1>1. /\ proc' \in [Outbox!Parties -> Process_] /\ proc'[p] = v
      /\ \A q \in Outbox!Parties \ {p} : proc'[q] = proc[q]
    BY DEF OutboxInv, OutboxType
<1>2. \A q \in Outbox!Parties \ {p} : Outbox!Living(q)' <=> Outbox!Living(q)
    BY <1>1 DEF Outbox!Living
<1>3. Alone'
    BY DEF OneAtATime, Alone
<1>4. \A q \in Outbox!Parties \ {p} : ~Outbox!Living(q)
    BY <1>2, <1>3 DEF OutboxInv, Alone
<1>5. QED
    BY <1>1, <1>2, <1>3, <1>4

\* What the process that moves must know after its step.
Ready(p) ==
    Outbox!Living(p) =>
        /\ Knows(proc[p])
        /\ p \in Doctors => proc[p].at \in Recovering /\ proc[p].why = "inspect"

LEMMA Advance ==
    ASSUME OutboxInv, OneAtATime, NEW p \in Outbox!Parties, NEW v \in Process_,
           proc' = [proc EXCEPT ![p] = v], Outbox!Living(p) \/ Outbox!Living(p)',
           FilesType', Ready(p)', Kept', OnlyOutages => Durable'
    PROVE  OutboxInv'
<1>1. OutboxType'
    BY ProcessMoves DEF FilesType, OutboxType
<1>2. Alone'
    BY ProcessMoves
<1>3. \A q \in Outbox!Parties : Outbox!Living(q)' => q = p
    BY ProcessMoves
<1>4. Informed'
    BY <1>3 DEF Informed, Ready
<1>5. QED
    BY <1>1, <1>2, <1>4 DEF OutboxInv, OnlyOutages

Pending == {"write", "fsync", "publish", "syncPublished", "syncTidied", "syncSwept", "syncSorted",
            "syncLink", "syncCleared"}

\* Where no flush is due, the names on the disk are those in memory.
LEMMA NoFlushDue ==
    ASSUME OutboxInv, OnlyOutages, NEW p \in Outbox!Parties,
           \A q \in Outbox!Parties \ {p} : ~Outbox!Living(q), proc[p].at \notin Pending
    PROVE  Flushed
<1>1. \A q \in Outbox!Parties : ~Unflushed(proc[q])
    <2>1. \A q \in Outbox!Parties : Unflushed(proc[q]) => proc[q].at \in Pending
        BY DEF Unflushed, Pending
    <2>2. \A q \in Outbox!Parties : proc[q].at \in Pending => Outbox!Living(q)
        BY DEF Pending, Outbox!Living
    <2>3. QED
        BY <2>1, <2>2
<1>2. QED
    BY <1>1 DEF OutboxInv, Durable

\* A step that leaves the files, the Worker and the pairing as they are, a flush
\* apart.
LEMMA Quiet ==
    ASSUME FilesConstants, OutboxInv, OneAtATime, NEW p \in Outbox!Parties, NEW v \in Process_,
           proc' = [proc EXCEPT ![p] = v], Outbox!Living(p) \/ Outbox!Living(p)',
           UNCHANGED <<slot, temps, body, paired, offered, acked>>, FilesType', Ready(p)',
           Outbox!Living(p) \/ paired \/ p \in Doctors,
           OnlyOutages => /\ proc[p].at # "fsync"
                          /\ \/ Flushed'
                             \/ proc[p].at \notin Pending /\ disk' = disk
    PROVE  OutboxInv'
<1>1. \A q \in Outbox!Parties \ {p} : proc'[q] = proc[q] /\ ~Outbox!Living(q) /\ ~Outbox!Living(q)'
    BY ProcessMoves
<1>2. Kept'
    <2>1. \A r \in Results : Outbox!Whole(r)' <=> Outbox!Whole(r)
        BY DEF Outbox!Whole
    <2>2. slot' # None => Outbox!Whole(slot)'
        BY <2>1 DEF OutboxInv, Kept, FilesType
    <2>3. ~paired' => \A q \in Pollers \cup Unpairers : ~Outbox!Living(q)'
        <3>1. SUFFICES ASSUME ~paired, NEW q \in Pollers \cup Unpairers
                       PROVE  ~Outbox!Living(q)'
            OBVIOUS
        <3>2. q \in Outbox!Parties /\ ~Outbox!Living(q) /\ q \notin Doctors
            BY <3>1 DEF OutboxInv, Kept, FilesConstants, Outbox!Parties
        <3>3. q # p
            BY <3>1, <3>2
        <3>4. QED
            BY <1>1, <3>2, <3>3
    <2>4. QED
        BY <2>2, <2>3 DEF OutboxInv, Kept
<1>3. ASSUME OnlyOutages PROVE Durable'
    <2>1. Flushed'
        <3>1. CASE proc[p].at \notin Pending /\ disk' = disk
            <4>1. Flushed
                BY <1>1, <1>3, <3>1, NoFlushDue
            <4>2. QED
                BY <3>1, <4>1 DEF Flushed
        <3>2. QED
            BY <1>3, <3>1
    <2>2. \A r \in Results : body[r] # "whole"
        <3>1. \A q \in Outbox!Parties : ~Outbox!At(q, "fsync")
            BY <1>1, <1>3 DEF Outbox!At, Outbox!Living
        <3>2. QED
            BY <1>3, <3>1 DEF OutboxInv, Durable
    <2>3. disk'.slot = slot /\ disk'.temps = temps
        BY <2>1 DEF Flushed
    <2>4. QED
        BY <1>3, <2>1, <2>2, <2>3 DEF OutboxInv, Durable, Kept
<1>4. QED
    BY <1>2, <1>3, Advance

Same == UNCHANGED <<slot, temps, body, paired, offered, acked>>

\* No flush is overdue after a step of p that leaves the other names alone.
Durably(p) ==
    OnlyOutages => /\ proc[p].at # "fsync"
                   /\ Flushed' \/ (proc[p].at \notin Pending /\ disk' = disk)

\* An error ends the command or the poll.
LEMMA Thrown ==
    ASSUME FilesConstants, OutboxInv, OneAtATime, NEW p \in Outbox!Parties, Outbox!Living(p),
           Outbox!Throw(p), Same, FilesType', Durably(p)
    PROVE  OutboxInv'
<1> DEFINE at == IF p \in Pollers THEN "idle" ELSE "gone"
           v  == Outbox!Interrupted(at)
<1>1. v \in Process_ /\ v.at = at
    BY InterruptedIs DEF Places_
<1> HIDE DEF v
<1>2. proc' = [proc EXCEPT ![p] = v]
    BY DEF Outbox!Throw, v
<1>3. proc'[p].at = at
    BY <1>1, <1>2, ProcessMoves
<1>4. Ready(p)'
    BY <1>3 DEF Ready, Knows, FilesConstants, Outbox!Living, Recovering, Persisting
<1>5. QED
    BY <1>1, <1>2, <1>4, Quiet DEF Same, Durably

\* readResultOutbox answers with what is in the slot, and no temporary file is
\* left.
LEMMA Answered ==
    ASSUME FilesConstants, OutboxInv, OneAtATime, NEW p \in Outbox!Parties,
           proc[p].at \in Recovering, Outbox!Return(p, slot), temps = {},
           Same, FilesType', Durably(p)
    PROVE  OutboxInv'
<1> DEFINE c == proc[p]
<1>1. c \in Process_ /\ c.why \in {"inspect", "replay", "unpair", "persist", "clear"}
      /\ c.own \in Results \cup {None}
    BY ProcIs
<1>2. Outbox!Living(p)
    BY DEF Outbox!Living, Recovering
<1>3. /\ Knows(c)
      /\ p \in Doctors => c.why = "inspect"
    BY <1>2 DEF OutboxInv, Informed
<1>4. slot \in Results \cup {None}
    BY DEF OutboxInv, OutboxType
<1>6. ASSUME NEW v \in Process_, proc' = [proc EXCEPT ![p] = v], p \notin Doctors,
             \/ v.at = "idle"
             \/ v.at \in {"submit", "unlink"} /\ v.own = slot /\ slot # None
                /\ (v.at = "unlink" => v.own \in acked)
             \/ v.at \in {"poll", "stopping"} /\ slot = None
             \/ v.at = "create" /\ v.own \in Results /\ slot = None
      PROVE  OutboxInv'
    <2>1. proc'[p] = v
        BY <1>2, <1>6, ProcessMoves
    <2>2. Ready(p)'
        BY <1>4, <1>6, <2>1 DEF Ready, Knows, Same, Recovering, Persisting
    <2>3. QED
        BY <1>2, <1>6, <2>2, Quiet DEF Same, Durably
<1>7. CASE c.why \in {"replay", "unpair"} /\ slot # None
    <2> DEFINE i == Outbox!Interrupted("submit")
               v == [i EXCEPT !.own = slot]
    <2>1. i \in Process_ /\ i.at = "submit"
        BY InterruptedIs DEF Places_
    <2>2. v \in Process_ /\ v.at = "submit" /\ v.own = slot
        BY <1>4, <2>1 DEF Process_
    <2>3. proc' = [proc EXCEPT ![p] = v]
        BY <1>7 DEF Outbox!Return
    <2>4. p \notin Doctors
        BY <1>3, <1>7
    <2> HIDE DEF v
    <2>5. QED
        BY <1>6, <1>7, <2>2, <2>3, <2>4
<1>8. CASE c.why \in {"replay", "unpair"} /\ slot = None
    <2>1. PICK at \in {"poll", "stopping"} : proc' = [proc EXCEPT ![p] = Outbox!Interrupted(at)]
        BY <1>8 DEF Outbox!Return
    <2>2. Outbox!Interrupted(at) \in Process_ /\ Outbox!Interrupted(at).at = at
        BY InterruptedIs DEF Places_
    <2>3. p \notin Doctors
        BY <1>3, <1>8
    <2>4. QED
        BY <1>6, <1>8, <2>1, <2>2, <2>3
<1>9. CASE c.why = "persist" /\ slot = None
    <2> DEFINE i == Outbox!Interrupted("create")
               v == [i EXCEPT !.own = c.own]
    <2>1. i \in Process_ /\ i.at = "create"
        BY InterruptedIs DEF Places_, Persisting
    <2>2. c.own \in Results
        BY <1>3, <1>9 DEF Knows
    <2>3. v \in Process_ /\ v.at = "create" /\ v.own = c.own
        BY <1>1, <2>1 DEF Process_
    <2>4. proc' = [proc EXCEPT ![p] = v]
        BY <1>9 DEF Outbox!Return
    <2>5. p \notin Doctors
        BY <1>3, <1>9
    <2> HIDE DEF v
    <2>6. QED
        BY <1>6, <1>9, <2>2, <2>3, <2>4, <2>5
<1>10. CASE c.why = "clear" /\ slot = None
    <2>1. PICK at \in {"idle", "stopping"} : proc' = [proc EXCEPT ![p] = Outbox!Interrupted(at)]
        <3>1. c.own # None
            BY <1>3, <1>10 DEF Knows, OutboxInv, OutboxType, FilesConstants
        <3>2. Outbox!Cleared(p)
            BY <1>10, <3>1 DEF Outbox!Return
        <3>3. CASE p \in Pollers
            BY <3>2, <3>3 DEF Outbox!Cleared
        <3>4. CASE p \notin Pollers
            BY <3>2, <3>4 DEF Outbox!Cleared
        <3>5. QED
            BY <3>3, <3>4
    <2>2. Outbox!Interrupted(at) \in Process_ /\ Outbox!Interrupted(at).at = at
        BY InterruptedIs DEF Places_
    <2>3. p \notin Doctors
        BY <1>3, <1>10
    <2>4. QED
        BY <1>6, <1>10, <2>1, <2>2, <2>3
<1>11. CASE c.why = "clear" /\ slot # None /\ slot = c.own
    <2> DEFINE v == [c EXCEPT !.at = "unlink"]
    <2>1. v \in Process_ /\ v.at = "unlink" /\ v.own = c.own
        BY <1>1 DEF Process_, Places_
    <2>2. proc' = [proc EXCEPT ![p] = v]
        BY <1>11, ProcIs DEF Outbox!Return, Outbox!Goto
    <2>3. p \notin Doctors /\ c.own \in acked
        BY <1>3, <1>11 DEF Knows
    <2> HIDE DEF v
    <2>4. QED
        BY <1>6, <1>11, <2>1, <2>2, <2>3
<1>12. CASE \/ c.why = "inspect"
            \/ c.why = "persist" /\ slot # None
            \/ c.why = "clear" /\ slot # None /\ slot # c.own
    <2>1. Outbox!Throw(p)
        BY <1>12 DEF Outbox!Return
    <2>2. QED
        BY <1>2, <2>1, Thrown
<1>13. QED
    BY <1>1, <1>7, <1>8, <1>9, <1>10, <1>11, <1>12

-----------------------------------------------------------------------------
(* The steps of the outbox, one by one. *)

LEMMA GoneTo ==
    ASSUME OutboxInv, NEW p \in Outbox!Parties, NEW x \in Places_, Outbox!Goto(p, x)
    PROVE  \E v \in Process_ :
               /\ proc' = [proc EXCEPT ![p] = v] /\ v.at = x
               /\ v.why = proc[p].why /\ v.own = proc[p].own /\ v.found = proc[p].found
               /\ v.got = proc[p].got /\ v.seen = proc[p].seen
<1> DEFINE v == [proc[p] EXCEPT !.at = x]
<1>1. /\ v \in Process_ /\ v.at = x
      /\ v.why = proc[p].why /\ v.own = proc[p].own /\ v.found = proc[p].found
      /\ v.got = proc[p].got /\ v.seen = proc[p].seen
    BY ProcIs, ZenonT(60) DEF Process_
<1>2. proc' = [proc EXCEPT ![p] = v]
    BY ProcIs DEF Outbox!Goto
<1> HIDE DEF v
<1>3. QED
    BY <1>1, <1>2

\* What is known of a process that is somewhere.
LEMMA Knowing ==
    ASSUME OutboxInv, NEW p \in Outbox!Parties, proc[p].at \notin {"new", "gone", "killed"}
    PROVE  /\ Outbox!Living(p) /\ Knows(proc[p])
           /\ p \in Doctors => proc[p].at \in Recovering /\ proc[p].why = "inspect"
           /\ \A q \in Outbox!Parties \ {p} : ~Outbox!Living(q)
BY DEF OutboxInv, Informed, Outbox!Living, Alone

LEMMA StillUnpaired ==
    ASSUME FilesConstants, OutboxInv, OneAtATime, NEW p \in Outbox!Parties, NEW v \in Process_,
           proc' = [proc EXCEPT ![p] = v], Outbox!Living(p), ~paired
    PROVE  \A q \in Pollers \cup Unpairers : ~Outbox!Living(q)'
<1>1. \A q \in Pollers \cup Unpairers : q \in Outbox!Parties /\ q # p
    BY DEF OutboxInv, Kept, Outbox!Parties
<1>2. QED
    BY <1>1, ProcessMoves

LEMMA NoneWhole ==
    ASSUME OutboxInv, OnlyOutages, NEW p \in Outbox!Parties,
           \A q \in Outbox!Parties \ {p} : ~Outbox!Living(q), proc[p].at # "fsync"
    PROVE  \A r \in Results : body[r] # "whole"
<1>1. \A q \in Outbox!Parties : ~Outbox!At(q, "fsync")
    BY DEF Outbox!At, Outbox!Living
<1>2. QED
    BY <1>1 DEF OutboxInv, Durable

LEMMA FilesTyped ==
    ASSUME OutboxInv PROVE FilesType
BY DEF OutboxInv, OutboxType, FilesType

LEMMA Flushes ==
    ASSUME OutboxInv, Outbox!Flush
    PROVE  /\ Flushed' /\ disk' \in [slot : Results \cup {None}, temps : SUBSET Results]
           /\ UNCHANGED <<slot, temps>>
BY DEF Outbox!Flush, Flushed, OutboxInv, OutboxType

LEMMA StepStat ==
    ASSUME FilesConstants, OutboxInv, OneAtATime, NEW p \in Outbox!Parties, Outbox!Stat(p)
    PROVE  OutboxInv'
<1> DEFINE v == [proc[p] EXCEPT !.at = "list", !.found = slot # None]
<1>1. proc[p].at = "stat" /\ UNCHANGED <<slot, temps, disk, body, paired, offered, acked,
                                         outboxKills, outages, errors>>
    BY DEF Outbox!Stat, Outbox!At, Outbox!files, Outbox!names, Outbox!server, Outbox!bounds
<1>2. /\ v \in Process_ /\ v.at = "list" /\ v.found = (slot # None)
      /\ v.why = proc[p].why /\ v.own = proc[p].own
    BY ProcIs, ZenonT(60) DEF Process_, Places_, Recovering
<1>3. proc' = [proc EXCEPT ![p] = v]
    BY ProcIs DEF Outbox!Stat
<1>4. /\ Outbox!Living(p) /\ Knows(proc[p])
      /\ p \in Doctors => proc[p].why = "inspect"
    BY <1>1, Knowing
<1> HIDE DEF v
<1>5. proc'[p] = v
    BY <1>2, <1>3, <1>4, ProcessMoves
<1>6. Ready(p)'
    BY <1>1, <1>2, <1>4, <1>5 DEF Ready, Knows, Recovering, Persisting
<1>7. FilesType'
    BY <1>1, FilesTyped DEF FilesType
<1>8. QED
    BY <1>1, <1>2, <1>3, <1>4, <1>6, <1>7, Quiet DEF Pending

LEMMA StepList ==
    ASSUME FilesConstants, OutboxInv, OneAtATime, NEW p \in Outbox!Parties, Outbox!List(p)
    PROVE  OutboxInv'
<1> DEFINE c == proc[p]
<1>1. c.at = "list" /\ UNCHANGED <<slot, temps, disk, body, paired, offered, acked,
                                   outboxKills, outages, errors>>
    BY DEF Outbox!List, Outbox!At, Outbox!files, Outbox!names, Outbox!server, Outbox!bounds
<1>2. FilesType' /\ temps \in SUBSET Results
    BY <1>1, FilesTyped DEF FilesType
<1>3. /\ Outbox!Living(p) /\ Knows(c) /\ c.found = (slot # None)
      /\ p \in Doctors => c.why = "inspect"
    BY <1>1, Knowing DEF Knows
<1>4. Same /\ Durably(p)
    BY <1>1 DEF Same, Durably, Pending
<1>5. c.found \in BOOLEAN /\ c \in Process_
    BY ProcIs
<1>6. Outbox!Active(temps) \in SUBSET Results
    BY <1>2 DEF Outbox!Active
<1>7. CASE c.found
    <2> DEFINE v == [c EXCEPT !.at = "read", !.seen = temps, !.live = Outbox!Active(temps)]
    <2>1. /\ v \in Process_ /\ v.at = "read" /\ v.seen = temps /\ v.found = c.found
          /\ v.why = c.why /\ v.own = c.own
        BY <1>2, <1>5, <1>6 DEF Process_, Places_, Recovering
    <2>2. proc' = [proc EXCEPT ![p] = v]
        BY <1>7, ProcIs DEF Outbox!List, Outbox!ListAnswer
    <2> HIDE DEF v
    <2>3. proc'[p] = v
        BY <1>3, <2>1, <2>2, ProcessMoves
    <2>4. Ready(p)'
        BY <1>1, <1>3, <1>7, <2>1, <2>3 DEF Ready, Knows, Recovering, Persisting
    <2>5. QED
        BY <1>1, <1>2, <1>3, <2>1, <2>2, <2>4, Quiet DEF Pending
<1>8. CASE ~c.found
    <2>1. slot = None
        BY <1>3, <1>8
    <2>2. CASE temps = {}
        <3>1. Outbox!Return(p, slot)
            BY <1>8, <2>1, <2>2 DEF Outbox!List, Outbox!ListAnswer
        <3>2. QED
            BY <1>1, <1>2, <1>4, <2>2, <3>1, Answered DEF Recovering
    <2>3. CASE temps # {} /\ Outbox!Active(temps) # {}
        <3>1. Outbox!Throw(p)
            BY <1>8, <2>3 DEF Outbox!List, Outbox!ListAnswer
        <3>2. QED
            BY <1>2, <1>3, <1>4, <3>1, Thrown
    <2>4. CASE temps # {} /\ Outbox!Active(temps) = {}
        <3> DEFINE v == [c EXCEPT !.at = "sort", !.seen = temps]
        <3>1. /\ v \in Process_ /\ v.at = "sort" /\ v.seen = temps /\ v.found = c.found
              /\ v.why = c.why /\ v.own = c.own
            BY <1>2, <1>5 DEF Process_, Places_, Recovering
        <3>2. proc' = [proc EXCEPT ![p] = v]
            BY <1>8, <2>4, ProcIs DEF Outbox!List, Outbox!ListAnswer
        <3> HIDE DEF v
        <3>3. proc'[p] = v
            BY <1>3, <3>1, <3>2, ProcessMoves
        <3>4. Ready(p)'
            BY <1>1, <1>3, <1>8, <2>1, <3>1, <3>3 DEF Ready, Knows, Recovering, Persisting
        <3>5. QED
            BY <1>1, <1>2, <1>3, <3>1, <3>2, <3>4, Quiet DEF Pending
    <2>5. QED
        BY <2>2, <2>3, <2>4
<1>9. QED
    BY <1>5, <1>7, <1>8

LEMMA StepRead ==
    ASSUME FilesConstants, OutboxInv, OneAtATime, NEW p \in Outbox!Parties, Outbox!Read(p)
    PROVE  OutboxInv'
<1> DEFINE c == proc[p]
<1>1. c.at = "read" /\ UNCHANGED <<slot, temps, disk, body, paired, offered, acked,
                                   outboxKills, outages, errors>>
    BY DEF Outbox!Read, Outbox!At, Outbox!files, Outbox!names, Outbox!server, Outbox!bounds
<1>2. FilesType' /\ slot \in Results \cup {None}
    BY <1>1, FilesTyped DEF FilesType
<1>3. /\ Outbox!Living(p) /\ Knows(c) /\ c.seen = temps
      /\ p \in Doctors => c.why = "inspect"
    BY <1>1, Knowing DEF Knows
<1>4. Same /\ Durably(p)
    BY <1>1 DEF Same, Durably, Pending
<1>5. c \in Process_
    BY ProcIs
<1>6. CASE slot = None \/ ~Outbox!Whole(slot)
    <2>1. Outbox!Throw(p)
        BY <1>6 DEF Outbox!Read
    <2>2. QED
        BY <1>2, <1>3, <1>4, <2>1, Thrown
<1>7. CASE ~(slot = None \/ ~Outbox!Whole(slot)) /\ c.seen = {}
    <2>1. Outbox!Return(p, slot) /\ temps = {}
        BY <1>3, <1>7 DEF Outbox!Read
    <2>2. QED
        BY <1>1, <1>2, <1>4, <2>1, Answered DEF Recovering
<1>8. CASE ~(slot = None \/ ~Outbox!Whole(slot)) /\ c.seen # {}
    <2> DEFINE v == [c EXCEPT !.at = "compare", !.got = slot]
    <2>1. /\ v \in Process_ /\ v.at = "compare" /\ v.got = slot /\ v.seen = c.seen
          /\ v.found = c.found /\ v.why = c.why /\ v.own = c.own
        BY <1>2, <1>5 DEF Process_, Places_, Recovering
    <2>2. proc' = [proc EXCEPT ![p] = v]
        BY <1>8, ProcIs DEF Outbox!Read
    <2> HIDE DEF v
    <2>3. proc'[p] = v
        BY <1>3, <2>1, <2>2, ProcessMoves
    <2>4. Ready(p)'
        BY <1>1, <1>3, <2>1, <2>3 DEF Ready, Knows, Recovering, Persisting
    <2>5. QED
        BY <1>1, <1>2, <1>3, <2>1, <2>2, <2>4, Quiet DEF Pending
<1>9. QED
    BY <1>6, <1>7, <1>8

LEMMA StepCompare ==
    ASSUME FilesConstants, OutboxInv, OneAtATime, NEW p \in Outbox!Parties, Outbox!Compare(p)
    PROVE  OutboxInv'
<1> DEFINE c == proc[p]
<1>1. c.at = "compare" /\ UNCHANGED <<slot, temps, disk, body, paired, offered, acked,
                                      outboxKills, outages, errors>>
    BY DEF Outbox!Compare, Outbox!At, Outbox!files, Outbox!names, Outbox!server, Outbox!bounds
<1>2. FilesType'
    BY <1>1, FilesTyped DEF FilesType
<1>3. /\ Outbox!Living(p) /\ Knows(c)
      /\ p \in Doctors => c.why = "inspect"
    BY <1>1, Knowing
<1>4. CASE Outbox!Throw(p)
    <2>1. Same /\ Durably(p)
        BY <1>1 DEF Same, Durably, Pending
    <2>2. QED
        BY <1>2, <1>3, <1>4, <2>1, Thrown
<1>5. CASE Outbox!Goto(p, "sweep")
    <2>1. PICK v \in Process_ :
              /\ proc' = [proc EXCEPT ![p] = v] /\ v.at = "sweep"
              /\ v.why = c.why /\ v.own = c.own /\ v.found = c.found
              /\ v.got = c.got /\ v.seen = c.seen
        BY <1>5, GoneTo DEF Places_, Recovering
    <2>2. proc'[p] = v
        BY <1>3, <2>1, ProcessMoves
    <2>3. Ready(p)'
        BY <1>1, <1>3, <2>1, <2>2 DEF Ready, Knows, Recovering, Persisting
    <2>4. QED
        BY <1>1, <1>2, <1>3, <2>1, <2>3, Quiet DEF Pending
<1>6. QED
    BY <1>4, <1>5 DEF Outbox!Compare

LEMMA StepSweep ==
    ASSUME FilesConstants, OutboxInv, OneAtATime, NEW p \in Outbox!Parties, Outbox!Sweep(p)
    PROVE  OutboxInv'
<1> DEFINE c == proc[p]
<1>1. /\ c.at = "sweep" /\ temps' = temps \ c.seen
      /\ UNCHANGED <<slot, disk, body, paired, offered, acked, outboxKills, outages, errors>>
    BY DEF Outbox!Sweep, Outbox!At, Outbox!server, Outbox!bounds
<1>2. /\ Outbox!Living(p) /\ Knows(c) /\ slot # None /\ c.seen = temps
      /\ p \in Doctors => c.why = "inspect"
      /\ \A q \in Outbox!Parties \ {p} : ~Outbox!Living(q)
    BY <1>1, Knowing DEF Knows
<1>3. temps' = {} /\ FilesType'
    BY <1>1, <1>2, FilesTyped DEF FilesType
<1>4. PICK v \in Process_ :
          /\ proc' = [proc EXCEPT ![p] = v] /\ v.at = "syncSwept"
          /\ v.why = c.why /\ v.own = c.own /\ v.found = c.found
          /\ v.got = c.got /\ v.seen = c.seen
    BY GoneTo DEF Outbox!Sweep, Places_, Recovering
<1>5. proc'[p] = v
    BY <1>2, <1>4, ProcessMoves
<1>6. Ready(p)'
    BY <1>1, <1>2, <1>3, <1>4, <1>5 DEF Ready, Knows, Recovering, Persisting
<1>7. paired /\ Kept'
    BY <1>1, <1>2 DEF OutboxInv, Kept, Outbox!Whole
<1>8. ASSUME OnlyOutages PROVE Durable'
    <2>1. Flushed /\ \A r \in Results : body[r] # "whole"
        BY <1>1, <1>2, <1>8, NoFlushDue, NoneWhole DEF Pending
    <2>2. Unflushed(proc[p])'
        BY <1>1, <1>4, <1>5, <2>1 DEF Unflushed, Flushed
    <2>3. QED
        BY <1>1, <1>7, <1>8, <2>1, <2>2 DEF OutboxInv, Durable
<1>9. QED
    BY <1>2, <1>3, <1>4, <1>6, <1>7, <1>8, Advance

\* A process at work is no doctor's unless it looks at the slot, so there is a
\* pairing.
LEMMA AtWorkPaired ==
    ASSUME FilesConstants, OutboxInv, NEW p \in Outbox!Parties, Outbox!Living(p), p \notin Doctors
    PROVE  paired
BY DEF OutboxInv, Kept, Outbox!Parties

\* Only the names of the process that moves may wait for a flush.
LEMMA OwnFlush ==
    ASSUME OutboxInv, OnlyOutages, NEW p \in Outbox!Parties,
           \A q \in Outbox!Parties \ {p} : ~Outbox!Living(q)
    PROVE  Flushed \/ Unflushed(proc[p])
<1>1. \A q \in Outbox!Parties : Unflushed(proc[q]) => Outbox!Living(q)
    BY DEF Unflushed, Outbox!Living
<1>2. QED
    BY <1>1 DEF OutboxInv, Durable

\* A flush, after which the process goes on to x.
LEMMA FlushedOnward ==
    ASSUME FilesConstants, OutboxInv, OneAtATime, NEW p \in Outbox!Parties, NEW x \in Places_,
           Outbox!Flush, Outbox!Goto(p, x), Outbox!Living(p), proc[p].at # "fsync",
           UNCHANGED <<body, paired, offered, acked, outboxKills, outages, errors>>,
           Ready(p)'
    PROVE  OutboxInv'
<1>1. /\ Flushed' /\ UNCHANGED <<slot, temps>>
      /\ disk' \in [slot : Results \cup {None}, temps : SUBSET Results]
    BY Flushes
<1>2. FilesType'
    BY <1>1, FilesTyped DEF FilesType
<1>3. PICK v \in Process_ : proc' = [proc EXCEPT ![p] = v]
    BY GoneTo
<1>4. QED
    BY <1>1, <1>2, <1>3, Quiet

LEMMA StepSyncSwept ==
    ASSUME FilesConstants, OutboxInv, OneAtATime, NEW p \in Outbox!Parties, Outbox!SyncSwept(p)
    PROVE  OutboxInv'
<1> DEFINE c == proc[p]
<1>1. c.at = "syncSwept" /\ Outbox!Flush
      /\ UNCHANGED <<body, paired, offered, acked, outboxKills, outages, errors>>
    BY DEF Outbox!SyncSwept, Outbox!At, Outbox!server, Outbox!bounds
<1>2. /\ Outbox!Living(p) /\ Knows(c) /\ slot # None /\ temps = {} /\ (c.found => c.got = slot)
      /\ p \in Doctors => c.why = "inspect"
    BY <1>1, Knowing DEF Knows
<1>3. /\ Flushed' /\ UNCHANGED <<slot, temps>>
      /\ disk' \in [slot : Results \cup {None}, temps : SUBSET Results]
    BY <1>1, Flushes
<1>4. FilesType' /\ Same /\ Durably(p)
    BY <1>1, <1>3, FilesTyped DEF FilesType, Same, Durably
<1>5. CASE c.found
    <2>1. Outbox!Return(p, slot)
        BY <1>2, <1>5 DEF Outbox!SyncSwept
    <2>2. QED
        BY <1>1, <1>2, <1>4, <2>1, Answered DEF Recovering
<1>6. CASE ~c.found
    <2>1. Outbox!Goto(p, "reread")
        BY <1>6 DEF Outbox!SyncSwept
    <2>2. PICK v \in Process_ :
              /\ proc' = [proc EXCEPT ![p] = v] /\ v.at = "reread"
              /\ v.why = c.why /\ v.own = c.own /\ v.found = c.found
              /\ v.got = c.got /\ v.seen = c.seen
        BY <2>1, GoneTo DEF Places_, Recovering
    <2>3. proc'[p] = v
        BY <1>2, <2>2, ProcessMoves
    <2>4. Ready(p)'
        BY <1>1, <1>2, <1>3, <2>2, <2>3 DEF Ready, Knows, Recovering, Persisting
    <2>5. QED
        BY <1>1, <1>2, <2>1, <2>4, FlushedOnward DEF Places_, Recovering
<1>7. c.found \in BOOLEAN
    BY ProcIs
<1>8. QED
    BY <1>5, <1>6, <1>7

LEMMA StepReread ==
    ASSUME FilesConstants, OutboxInv, OneAtATime, NEW p \in Outbox!Parties, Outbox!Reread(p)
    PROVE  OutboxInv'
<1>1. proc[p].at = "reread" /\ UNCHANGED <<slot, temps, disk, body, paired, offered, acked,
                                           outboxKills, outages, errors>>
    BY DEF Outbox!Reread, Outbox!At, Outbox!files, Outbox!names, Outbox!server, Outbox!bounds
<1>2. Outbox!Living(p) /\ temps = {}
    BY <1>1, Knowing DEF Knows
<1>3. FilesType' /\ Same /\ Durably(p)
    BY <1>1, FilesTyped DEF FilesType, Same, Durably, Pending
<1>4. Outbox!Throw(p) \/ Outbox!Return(p, slot)
    BY DEF Outbox!Reread
<1>5. QED
    BY <1>1, <1>2, <1>3, <1>4, Thrown, Answered DEF Recovering

LEMMA StepSort ==
    ASSUME FilesConstants, OutboxInv, OneAtATime, NEW p \in Outbox!Parties, Outbox!Sort(p)
    PROVE  OutboxInv'
<1> DEFINE c == proc[p]
           valid == {r \in temps : Outbox!Whole(r)}
           x == IF valid = temps THEN "choose" ELSE "syncSorted"
           v == [c EXCEPT !.seen = valid, !.at = x]
<1>1. c.at = "sort"
      /\ UNCHANGED <<slot, disk, body, paired, offered, acked, outboxKills, outages, errors>>
    BY DEF Outbox!Sort, Outbox!At, Outbox!server, Outbox!bounds
<1>2. /\ Outbox!Living(p) /\ Knows(c) /\ slot = None /\ ~c.found /\ c.seen = temps
      /\ p \in Doctors => c.why = "inspect"
      /\ \A q \in Outbox!Parties \ {p} : ~Outbox!Living(q)
    BY <1>1, Knowing DEF Knows
<1>3. {r \in c.seen \cap temps : Outbox!Whole(r)} = valid /\ c.seen \ (c.seen \ valid) = valid
    BY <1>2
<1>4. temps' = valid /\ proc' = [proc EXCEPT ![p] = v]
    BY <1>2, <1>3, ProcIs DEF Outbox!Sort
<1>5. temps \in SUBSET Results /\ valid \in SUBSET Results
    BY DEF OutboxInv, OutboxType
<1>6. v \in Process_ /\ v.at = x /\ v.seen = valid /\ v.found = c.found /\ v.why = c.why
      /\ v.own = c.own
    BY <1>5, ProcIs, ZenonT(60) DEF Process_, Places_, Recovering
<1> HIDE DEF v
<1>7. proc'[p] = v
    BY <1>2, <1>4, <1>6, ProcessMoves
<1>8. FilesType'
    BY <1>1, <1>4, <1>5, FilesTyped DEF FilesType
<1>9. \A r \in temps' : Outbox!Whole(r)'
    BY <1>1, <1>4 DEF Outbox!Whole
<1>10. Ready(p)'
    BY <1>1, <1>2, <1>4, <1>6, <1>7, <1>9 DEF Ready, Knows, Recovering, Persisting
<1>11. Kept'
    <2>1. ~paired' => \A q \in Pollers \cup Unpairers : ~Outbox!Living(q)'
        BY <1>1, <1>2, <1>4, <1>6, StillUnpaired
    <2>2. QED
        BY <1>1, <1>2, <1>4, <2>1 DEF OutboxInv, Kept
<1>12. ASSUME OnlyOutages PROVE Durable'
    <2>1. Flushed /\ \A r \in Results : body[r] # "whole"
        BY <1>1, <1>2, <1>12, NoFlushDue, NoneWhole DEF Pending
    <2>2. Flushed' \/ Unflushed(proc[p])'
        BY <1>1, <1>2, <1>4, <1>6, <1>7, <2>1 DEF Unflushed, Flushed
    <2>3. QED
        BY <1>1, <1>12, <2>1, <2>2 DEF OutboxInv, Durable
<1>13. QED
    BY <1>2, <1>4, <1>6, <1>8, <1>10, <1>11, <1>12, Advance

LEMMA StepSyncSorted ==
    ASSUME FilesConstants, OutboxInv, OneAtATime, NEW p \in Outbox!Parties, Outbox!SyncSorted(p)
    PROVE  OutboxInv'
<1> DEFINE c == proc[p]
<1>1. c.at = "syncSorted" /\ Outbox!Flush /\ Outbox!Goto(p, "choose")
      /\ UNCHANGED <<body, paired, offered, acked, outboxKills, outages, errors>>
    BY DEF Outbox!SyncSorted, Outbox!At, Outbox!server, Outbox!bounds
<1>2. Outbox!Living(p) /\ Knows(c) /\ (p \in Doctors => c.why = "inspect")
    BY <1>1, Knowing
<1>3. PICK v \in Process_ :
          /\ proc' = [proc EXCEPT ![p] = v] /\ v.at = "choose"
          /\ v.why = c.why /\ v.own = c.own /\ v.found = c.found
          /\ v.got = c.got /\ v.seen = c.seen
    BY <1>1, GoneTo DEF Places_, Recovering
<1>4. proc'[p] = v /\ UNCHANGED <<slot, temps>>
    BY <1>1, <1>2, <1>3, ProcessMoves, Flushes
<1>5. Ready(p)'
    BY <1>1, <1>2, <1>3, <1>4 DEF Ready, Knows, Recovering, Persisting, Outbox!Whole
<1>6. QED
    BY <1>1, <1>2, <1>5, FlushedOnward DEF Places_, Recovering

LEMMA StepLink ==
    ASSUME FilesConstants, OutboxInv, OneAtATime, NEW p \in Outbox!Parties, Outbox!Link(p)
    PROVE  OutboxInv'
<1> DEFINE c == proc[p]
<1>1. c.at = "choose" /\ UNCHANGED <<temps, disk, body, paired, offered, acked,
                                     outboxKills, outages, errors>>
    BY DEF Outbox!Link, Outbox!At, Outbox!server, Outbox!bounds
<1>2. /\ Outbox!Living(p) /\ Knows(c) /\ slot = None /\ ~c.found /\ c.seen = temps
      /\ \A r \in temps : Outbox!Whole(r)
      /\ p \in Doctors => c.why = "inspect"
      /\ \A q \in Outbox!Parties \ {p} : ~Outbox!Living(q)
    BY <1>1, Knowing DEF Knows
<1>3. CASE slot' = slot /\ (Outbox!Throw(p) \/ (c.seen = {} /\ Outbox!Return(p, None)))
    <2>1. FilesType' /\ Same /\ Durably(p)
        BY <1>1, <1>3, FilesTyped DEF FilesType, Same, Durably, Pending
    <2>2. QED
        BY <1>1, <1>2, <1>3, <2>1, Thrown, Answered DEF Recovering
<1>4. CASE slot' \in temps /\ Outbox!Goto(p, "syncLink")
    <2>1. temps \in SUBSET Results /\ FilesType'
        BY <1>1, <1>4, FilesTyped DEF FilesType
    <2>2. slot' # None /\ slot' \in Results /\ Outbox!Whole(slot')
        BY <1>2, <1>4, <2>1 DEF FilesConstants
    <2>3. PICK v \in Process_ :
              /\ proc' = [proc EXCEPT ![p] = v] /\ v.at = "syncLink"
              /\ v.why = c.why /\ v.own = c.own /\ v.found = c.found
              /\ v.got = c.got /\ v.seen = c.seen
        BY <1>4, GoneTo DEF Places_, Recovering
    <2>4. proc'[p] = v
        BY <1>2, <2>3, ProcessMoves
    <2>5. Ready(p)'
        BY <1>1, <1>2, <2>2, <2>3, <2>4 DEF Ready, Knows, Recovering, Persisting
    <2>6. paired /\ offered \subseteq acked
        BY <1>2, <1>4, <2>1 DEF OutboxInv, Kept, FilesConstants, OutboxType
    <2>7. Kept'
        BY <1>1, <2>2, <2>6 DEF Kept, Outbox!Whole
    <2>8. ASSUME OnlyOutages PROVE Durable'
        <3>1. Flushed /\ \A r \in Results : body[r] # "whole"
            BY <1>1, <1>2, <2>8, NoFlushDue, NoneWhole DEF Pending
        <3>2. Unflushed(proc[p])' /\ disk.slot = None
            BY <1>1, <1>2, <2>3, <2>4, <3>1 DEF Unflushed, Flushed
        <3>3. body[slot'] = "synced"
            BY <2>2, <3>1 DEF Outbox!Whole
        <3>4. QED
            BY <1>1, <2>6, <3>1, <3>2, <3>3 DEF Durable
    <2>9. QED
        BY <1>2, <2>1, <2>3, <2>5, <2>7, <2>8, Advance
<1>5. QED
    BY <1>2, <1>3, <1>4 DEF Outbox!Link

LEMMA StepSyncLink ==
    ASSUME FilesConstants, OutboxInv, OneAtATime, NEW p \in Outbox!Parties, Outbox!SyncLink(p)
    PROVE  OutboxInv'
<1> DEFINE c == proc[p]
<1>1. c.at = "syncLink" /\ Outbox!Flush /\ Outbox!Goto(p, "sweep")
      /\ UNCHANGED <<body, paired, offered, acked, outboxKills, outages, errors>>
    BY DEF Outbox!SyncLink, Outbox!At, Outbox!server, Outbox!bounds
<1>2. Outbox!Living(p) /\ Knows(c) /\ (p \in Doctors => c.why = "inspect")
    BY <1>1, Knowing
<1>3. PICK v \in Process_ :
          /\ proc' = [proc EXCEPT ![p] = v] /\ v.at = "sweep"
          /\ v.why = c.why /\ v.own = c.own /\ v.found = c.found
          /\ v.got = c.got /\ v.seen = c.seen
    BY <1>1, GoneTo DEF Places_, Recovering
<1>4. proc'[p] = v /\ UNCHANGED <<slot, temps>>
    BY <1>1, <1>2, <1>3, ProcessMoves, Flushes
<1>5. Ready(p)'
    BY <1>1, <1>2, <1>3, <1>4 DEF Ready, Knows, Recovering, Persisting
<1>6. QED
    BY <1>1, <1>2, <1>5, FlushedOnward DEF Places_, Recovering

\* A step that leaves the files and the Worker alone, for another place.
LEMMA CallIs ==
    ASSUME NEW why \in {"inspect", "replay", "unpair", "persist", "clear"},
           NEW own \in Results \cup {None}
    PROVE  /\ [Outbox!Interrupted("stat") EXCEPT !.why = why, !.own = own] \in Process_
           /\ [Outbox!Interrupted("stat") EXCEPT !.why = why, !.own = own].at = "stat"
           /\ [Outbox!Interrupted("stat") EXCEPT !.why = why, !.own = own].why = why
           /\ [Outbox!Interrupted("stat") EXCEPT !.why = why, !.own = own].own = own
           /\ [Outbox!Interrupted("stat") EXCEPT !.why = why] \in Process_
           /\ [Outbox!Interrupted("stat") EXCEPT !.why = why].at = "stat"
           /\ [Outbox!Interrupted("stat") EXCEPT !.why = why].why = why
<1> DEFINE i == Outbox!Interrupted("stat")
<1>1. i \in Process_ /\ i.at = "stat"
    BY InterruptedIs DEF Places_, Recovering
<1> HIDE DEF i
<1>2. /\ [i EXCEPT !.why = why, !.own = own] \in Process_
      /\ [i EXCEPT !.why = why, !.own = own].at = "stat"
      /\ [i EXCEPT !.why = why, !.own = own].why = why
      /\ [i EXCEPT !.why = why, !.own = own].own = own
      /\ [i EXCEPT !.why = why] \in Process_
      /\ [i EXCEPT !.why = why].at = "stat"
      /\ [i EXCEPT !.why = why].why = why
    BY <1>1 DEF Process_
<1>3. QED
    BY <1>2 DEF i

\* A step of which the record of p is all that changes.
LEMMA Aside ==
    ASSUME FilesConstants, OutboxInv, OneAtATime, NEW p \in Outbox!Parties, NEW v \in Process_,
           proc' = [proc EXCEPT ![p] = v], Outbox!Living(p) \/ Outbox!Living(p)',
           UNCHANGED <<slot, temps, disk, body, paired, offered, acked,
                       outboxKills, outages, errors>>,
           v.at \notin {"new", "gone", "killed"} =>
               /\ Knows(v)
               /\ p \in Doctors => v.at \in Recovering /\ v.why = "inspect",
           Outbox!Living(p) \/ paired \/ p \in Doctors, proc[p].at \notin Pending
    PROVE  OutboxInv'
<1>1. proc'[p] = v
    BY ProcessMoves
<1>2. Ready(p)'
    BY <1>1 DEF Ready, Knows, Outbox!Living, Outbox!Whole
<1>3. FilesType'
    BY FilesTyped DEF FilesType
<1>4. QED
    BY <1>2, <1>3, Quiet DEF Pending

LEMMA StepPoll ==
    ASSUME FilesConstants, OutboxInv, OneAtATime, NEW p \in Outbox!Parties,
           Outbox!Begin(p) \/ Outbox!PollNothing(p) \/ Outbox!Poll(p)
    PROVE  OutboxInv'
<1>1. UNCHANGED <<slot, temps, disk, body, paired, offered, acked, outboxKills, outages, errors>>
      /\ proc[p].at \in {"idle", "poll"} /\ (Outbox!Begin(p) => p \in Pollers)
    BY DEF Outbox!Begin, Outbox!PollNothing, Outbox!Poll, Outbox!At, Outbox!files,
           Outbox!names, Outbox!server, Outbox!bounds
<1>2. Outbox!Living(p) /\ p \notin Doctors
    BY <1>1, Knowing DEF Recovering
<1>3. CASE Outbox!Begin(p)
    <2> DEFINE v == [Outbox!Interrupted("stat") EXCEPT !.why = "replay"]
    <2>1. proc' = [proc EXCEPT ![p] = v]
        BY <1>3 DEF Outbox!Begin, Outbox!Call
    <2>2. v \in Process_ /\ v.at = "stat" /\ v.why = "replay"
        BY CallIs
    <2> HIDE DEF v
    <2>3. Knows(v)
        BY <2>2 DEF Knows, Recovering, Persisting
    <2>4. QED
        BY <1>1, <1>2, <2>1, <2>2, <2>3, Aside DEF Pending
<1>4. CASE Outbox!PollNothing(p)
    <2>1. PICK v \in Process_ : proc' = [proc EXCEPT ![p] = v] /\ v.at = "idle"
        BY <1>4, GoneTo DEF Outbox!PollNothing, Places_
    <2>2. QED
        BY <1>1, <1>2, <2>1, Aside DEF Knows, Recovering, Persisting, Pending
<1>5. CASE Outbox!Poll(p)
    <2>1. PICK r \in Results :
              proc' = [proc EXCEPT ![p] = [Outbox!Interrupted("stat") EXCEPT !.why = "persist",
                                                                             !.own = r]]
        BY <1>5 DEF Outbox!Poll
    <2> DEFINE v == [Outbox!Interrupted("stat") EXCEPT !.why = "persist", !.own = r]
    <2>2. v \in Process_ /\ v.at = "stat" /\ v.why = "persist" /\ v.own = r
        BY CallIs
    <2>3. proc' = [proc EXCEPT ![p] = v]
        BY <2>1
    <2> HIDE DEF v
    <2>4. Knows(v)
        BY <2>2 DEF Knows, Recovering, Persisting
    <2>5. QED
        BY <1>1, <1>2, <2>2, <2>3, <2>4, Aside DEF Pending
<1>6. QED
    BY <1>3, <1>4, <1>5

LEMMA StepCreate ==
    ASSUME FilesConstants, OutboxInv, OneAtATime, NEW p \in Outbox!Parties, Outbox!Create(p)
    PROVE  OutboxInv'
<1> DEFINE c == proc[p]
<1>1. /\ c.at = "create" /\ temps' = temps \cup {c.own} /\ body' = [body EXCEPT ![c.own] = "torn"]
      /\ Outbox!Goto(p, "write")
      /\ UNCHANGED <<slot, disk, paired, offered, acked, outboxKills, outages, errors>>
    BY DEF Outbox!Create, Outbox!At, Outbox!server, Outbox!bounds
<1>2. /\ Outbox!Living(p) /\ slot = None /\ temps = {} /\ c.own \in Results /\ p \notin Doctors
      /\ \A q \in Outbox!Parties \ {p} : ~Outbox!Living(q)
    BY <1>1, Knowing DEF Knows, Recovering, Persisting
<1>3. paired /\ offered \subseteq acked
    BY <1>2, AtWorkPaired DEF OutboxInv, Kept, FilesConstants, OutboxType
<1>4. temps' = {c.own} /\ FilesType'
    BY <1>1, <1>2, FilesTyped DEF FilesType
<1>5. PICK v \in Process_ : proc' = [proc EXCEPT ![p] = v] /\ v.at = "write" /\ v.own = c.own
    BY <1>1, GoneTo DEF Places_, Persisting
<1>6. proc'[p] = v
    BY <1>2, <1>5, ProcessMoves
<1>7. Ready(p)'
    BY <1>1, <1>2, <1>4, <1>5, <1>6 DEF Ready, Knows, Recovering, Persisting
<1>8. Kept'
    BY <1>1, <1>2, <1>3 DEF Kept
<1>9. ASSUME OnlyOutages PROVE Durable'
    <2>1. Flushed /\ \A r \in Results : body[r] # "whole"
        BY <1>1, <1>2, <1>9, NoFlushDue, NoneWhole DEF Pending
    <2>2. Unflushed(proc[p])' /\ disk.slot = None
        BY <1>1, <1>2, <1>5, <1>6, <2>1 DEF Unflushed, Flushed
    <2>3. \A r \in Results : body'[r] # "whole"
        BY <1>1, <2>1 DEF OutboxInv, OutboxType
    <2>4. QED
        BY <1>1, <1>2, <1>3, <2>2, <2>3 DEF Durable
<1>10. QED
    BY <1>2, <1>4, <1>5, <1>7, <1>8, <1>9, Advance

LEMMA StepWrite ==
    ASSUME FilesConstants, OutboxInv, OneAtATime, NEW p \in Outbox!Parties, Outbox!Write(p)
    PROVE  OutboxInv'
<1> DEFINE c == proc[p]
<1>1. /\ c.at = "write" /\ body' = [body EXCEPT ![c.own] = "whole"]
      /\ Outbox!Goto(p, "fsync")
      /\ UNCHANGED <<slot, temps, disk, paired, offered, acked, outboxKills, outages, errors>>
    BY DEF Outbox!Write, Outbox!At, Outbox!names, Outbox!server, Outbox!bounds
<1>2. /\ Outbox!Living(p) /\ slot = None /\ temps = {c.own} /\ c.own \in Results /\ p \notin Doctors
      /\ \A q \in Outbox!Parties \ {p} : ~Outbox!Living(q)
    BY <1>1, Knowing DEF Knows, Recovering, Persisting
<1>3. paired /\ offered \subseteq acked
    BY <1>2, AtWorkPaired DEF OutboxInv, Kept, FilesConstants, OutboxType
<1>4. body'[c.own] = "whole" /\ FilesType' /\ \A r \in Results : r # c.own => body'[r] = body[r]
    BY <1>1, <1>2, FilesTyped DEF FilesType
<1>5. PICK v \in Process_ : proc' = [proc EXCEPT ![p] = v] /\ v.at = "fsync" /\ v.own = c.own
    BY <1>1, GoneTo DEF Places_, Persisting
<1>6. proc'[p] = v
    BY <1>2, <1>5, ProcessMoves
<1>7. Ready(p)'
    BY <1>1, <1>2, <1>4, <1>5, <1>6 DEF Ready, Knows, Recovering, Persisting
<1>8. Kept'
    BY <1>1, <1>2, <1>3 DEF Kept
<1>9. ASSUME OnlyOutages PROVE Durable'
    <2>1. \A r \in Results : body[r] # "whole"
        BY <1>1, <1>2, <1>9, NoneWhole
    <2>2. disk.slot = None
        BY <1>1, <1>2, <1>9, OwnFlush DEF Unflushed, Flushed
    <2>3. Unflushed(proc[p])'
        BY <1>1, <1>5, <1>6, <2>2 DEF Unflushed
    <2>4. \A r \in Results : body'[r] = "whole" => Outbox!At(p, "fsync")' /\ proc'[p].own = r
        BY <1>4, <1>5, <1>6, <2>1 DEF Outbox!At
    <2>5. QED
        BY <1>1, <1>2, <1>3, <2>2, <2>3, <2>4 DEF Durable
<1>10. QED
    BY <1>2, <1>4, <1>5, <1>7, <1>8, <1>9, Advance

LEMMA StepWriteError ==
    ASSUME FilesConstants, OutboxInv, OneAtATime, NEW p \in Outbox!Parties, Outbox!WriteError(p)
    PROVE  OutboxInv'
<1>1. /\ proc[p].at = "write" /\ errors < OutboxErrors /\ errors' = errors + 1 /\ Outbox!Throw(p)
      /\ UNCHANGED <<slot, temps, disk, body, paired, offered, acked, outboxKills, outages>>
    BY DEF Outbox!WriteError, Outbox!At, Outbox!files, Outbox!names, Outbox!server
<1>2. Outbox!Living(p)
    BY <1>1, Knowing
<1>3. ~OnlyOutages /\ errors' \in 0..OutboxErrors
    BY <1>1 DEF OnlyOutages, OutboxInv, OutboxType, FilesConstants
<1>4. FilesType' /\ Same /\ Durably(p)
    BY <1>1, <1>3, FilesTyped DEF FilesType, Same, Durably
<1>5. QED
    BY <1>1, <1>2, <1>4, Thrown

LEMMA StepFsync ==
    ASSUME FilesConstants, OutboxInv, OneAtATime, NEW p \in Outbox!Parties, Outbox!Fsync(p)
    PROVE  OutboxInv'
<1> DEFINE c == proc[p]
<1>1. /\ c.at = "fsync" /\ body' = [body EXCEPT ![c.own] = "synced"]
      /\ Outbox!Goto(p, "publish")
      /\ UNCHANGED <<slot, temps, disk, paired, offered, acked, outboxKills, outages, errors>>
    BY DEF Outbox!Fsync, Outbox!At, Outbox!names, Outbox!server, Outbox!bounds
<1>2. /\ Outbox!Living(p) /\ slot = None /\ temps = {c.own} /\ c.own \in Results /\ p \notin Doctors
      /\ \A q \in Outbox!Parties \ {p} : ~Outbox!Living(q)
    BY <1>1, Knowing DEF Knows, Recovering, Persisting
<1>3. paired /\ offered \subseteq acked
    BY <1>2, AtWorkPaired DEF OutboxInv, Kept, FilesConstants, OutboxType
<1>4. body'[c.own] = "synced" /\ FilesType' /\ \A r \in Results : r # c.own => body'[r] = body[r]
    BY <1>1, <1>2, FilesTyped DEF FilesType
<1>5. PICK v \in Process_ : proc' = [proc EXCEPT ![p] = v] /\ v.at = "publish" /\ v.own = c.own
    BY <1>1, GoneTo DEF Places_, Persisting
<1>6. proc'[p] = v
    BY <1>2, <1>5, ProcessMoves
<1>7. Ready(p)'
    BY <1>1, <1>2, <1>4, <1>5, <1>6 DEF Ready, Knows, Recovering, Persisting
<1>8. Kept'
    BY <1>1, <1>2, <1>3 DEF Kept
<1>9. ASSUME OnlyOutages PROVE Durable'
    <2>1. \A r \in Results : body[r] = "whole" => r = c.own
        <3>1. \A q \in Outbox!Parties : Outbox!At(q, "fsync") => q = p
            BY <1>2 DEF Outbox!At, Outbox!Living
        <3>2. QED
            BY <1>9, <3>1 DEF OutboxInv, Durable
    <2>2. disk.slot = None
        BY <1>1, <1>2, <1>9, OwnFlush DEF Unflushed, Flushed
    <2>3. Unflushed(proc[p])'
        BY <1>1, <1>5, <1>6, <2>2 DEF Unflushed
    <2>4. \A r \in Results : body'[r] # "whole"
        BY <1>4, <2>1
    <2>5. QED
        BY <1>1, <1>2, <1>3, <2>2, <2>3, <2>4 DEF Durable
<1>10. QED
    BY <1>2, <1>4, <1>5, <1>7, <1>8, <1>9, Advance

LEMMA StepPublish ==
    ASSUME FilesConstants, OutboxInv, OneAtATime, NEW p \in Outbox!Parties, Outbox!Publish(p)
    PROVE  OutboxInv'
<1> DEFINE c == proc[p]
<1>1. /\ c.at = "publish"
      /\ UNCHANGED <<temps, disk, body, paired, offered, acked, outboxKills, outages, errors>>
    BY DEF Outbox!Publish, Outbox!At, Outbox!server, Outbox!bounds
<1>2. /\ Outbox!Living(p) /\ slot = None /\ temps = {c.own} /\ c.own \in Results /\ p \notin Doctors
      /\ body[c.own] = "synced"
      /\ \A q \in Outbox!Parties \ {p} : ~Outbox!Living(q)
    BY <1>1, Knowing DEF Knows, Recovering, Persisting
<1>3. paired /\ offered \subseteq acked
    BY <1>2, AtWorkPaired DEF OutboxInv, Kept, FilesConstants, OutboxType
<1>4. slot' = c.own /\ Outbox!Goto(p, "syncPublished") /\ FilesType'
    BY <1>1, <1>2, FilesTyped DEF FilesType, Outbox!Publish
<1>5. PICK v \in Process_ : proc' = [proc EXCEPT ![p] = v] /\ v.at = "syncPublished" /\ v.own = c.own
    BY <1>4, GoneTo DEF Places_, Persisting
<1>6. proc'[p] = v
    BY <1>2, <1>5, ProcessMoves
<1>7. Ready(p)'
    BY <1>1, <1>2, <1>4, <1>5, <1>6 DEF Ready, Knows, Recovering, Persisting
<1>8. Kept'
    BY <1>1, <1>2, <1>3, <1>4 DEF Kept, Outbox!Whole
<1>9. ASSUME OnlyOutages PROVE Durable'
    <2>1. \A r \in Results : body[r] # "whole"
        BY <1>1, <1>2, <1>9, NoneWhole
    <2>2. disk.slot = None
        BY <1>1, <1>2, <1>9, OwnFlush DEF Unflushed, Flushed
    <2>3. Unflushed(proc[p])'
        BY <1>1, <1>5, <1>6, <2>2 DEF Unflushed
    <2>4. QED
        BY <1>1, <1>2, <1>3, <1>4, <2>1, <2>2, <2>3 DEF Durable
<1>10. QED
    BY <1>2, <1>4, <1>5, <1>7, <1>8, <1>9, Advance

LEMMA StepSyncPublished ==
    ASSUME FilesConstants, OutboxInv, OneAtATime, NEW p \in Outbox!Parties,
           Outbox!SyncPublished(p)
    PROVE  OutboxInv'
<1> DEFINE c == proc[p]
<1>1. c.at = "syncPublished" /\ Outbox!Flush /\ Outbox!Goto(p, "tidy")
      /\ UNCHANGED <<body, paired, offered, acked, outboxKills, outages, errors>>
    BY DEF Outbox!SyncPublished, Outbox!At, Outbox!server, Outbox!bounds
<1>2. Outbox!Living(p) /\ Knows(c) /\ p \notin Doctors
    BY <1>1, Knowing DEF Recovering
<1>3. PICK v \in Process_ : proc' = [proc EXCEPT ![p] = v] /\ v.at = "tidy" /\ v.own = c.own
    BY <1>1, GoneTo DEF Places_
<1>4. proc'[p] = v /\ UNCHANGED <<slot, temps>>
    BY <1>1, <1>2, <1>3, ProcessMoves, Flushes
<1>5. Ready(p)'
    BY <1>1, <1>2, <1>3, <1>4 DEF Ready, Knows, Recovering, Persisting
<1>6. QED
    BY <1>1, <1>2, <1>5, FlushedOnward DEF Places_

LEMMA StepTidy ==
    ASSUME FilesConstants, OutboxInv, OneAtATime, NEW p \in Outbox!Parties, Outbox!Tidy(p)
    PROVE  OutboxInv'
<1> DEFINE c == proc[p]
<1>1. /\ c.at = "tidy" /\ temps' = temps \ {c.own}
      /\ UNCHANGED <<slot, disk, body, paired, offered, acked, outboxKills, outages, errors>>
    BY DEF Outbox!Tidy, Outbox!At, Outbox!server, Outbox!bounds
<1>2. /\ Outbox!Living(p) /\ slot = c.own /\ temps = {c.own} /\ c.own \in Results /\ p \notin Doctors
      /\ \A q \in Outbox!Parties \ {p} : ~Outbox!Living(q)
    BY <1>1, Knowing DEF Knows, Recovering
<1>3. paired
    BY <1>2, AtWorkPaired
<1>4. temps' = {} /\ Outbox!Goto(p, "syncTidied") /\ FilesType'
    BY <1>1, <1>2, FilesTyped DEF FilesType, Outbox!Tidy
<1>5. PICK v \in Process_ : proc' = [proc EXCEPT ![p] = v] /\ v.at = "syncTidied" /\ v.own = c.own
    BY <1>4, GoneTo DEF Places_
<1>6. proc'[p] = v
    BY <1>2, <1>5, ProcessMoves
<1>7. Ready(p)'
    BY <1>1, <1>2, <1>4, <1>5, <1>6 DEF Ready, Knows, Recovering, Persisting
<1>8. Kept'
    BY <1>1, <1>3 DEF OutboxInv, Kept, Outbox!Whole
<1>9. ASSUME OnlyOutages PROVE Durable'
    <2>1. Flushed /\ \A r \in Results : body[r] # "whole"
        BY <1>1, <1>2, <1>9, NoFlushDue, NoneWhole DEF Pending
    <2>2. Unflushed(proc[p])'
        BY <1>1, <1>5, <1>6, <2>1 DEF Unflushed, Flushed
    <2>3. QED
        BY <1>1, <1>3, <1>9, <2>1, <2>2 DEF OutboxInv, Durable
<1>10. QED
    BY <1>2, <1>4, <1>5, <1>7, <1>8, <1>9, Advance

LEMMA StepSyncTidied ==
    ASSUME FilesConstants, OutboxInv, OneAtATime, NEW p \in Outbox!Parties, Outbox!SyncTidied(p)
    PROVE  OutboxInv'
<1> DEFINE c == proc[p]
<1>1. c.at = "syncTidied" /\ Outbox!Flush /\ Outbox!Goto(p, "submit")
      /\ UNCHANGED <<body, paired, offered, acked, outboxKills, outages, errors>>
    BY DEF Outbox!SyncTidied, Outbox!At, Outbox!server, Outbox!bounds
<1>2. Outbox!Living(p) /\ Knows(c) /\ p \notin Doctors
    BY <1>1, Knowing DEF Recovering
<1>3. PICK v \in Process_ : proc' = [proc EXCEPT ![p] = v] /\ v.at = "submit" /\ v.own = c.own
    BY <1>1, GoneTo DEF Places_
<1>4. proc'[p] = v /\ UNCHANGED <<slot, temps>>
    BY <1>1, <1>2, <1>3, ProcessMoves, Flushes
<1>5. Ready(p)'
    BY <1>1, <1>2, <1>3, <1>4 DEF Ready, Knows, Recovering, Persisting
<1>6. QED
    BY <1>1, <1>2, <1>5, FlushedOnward DEF Places_

\* A result that is alone is never refused the slot.
LEMMA NeverDiscards ==
    ASSUME OutboxInv, NEW p \in Outbox!Parties
    PROVE  ~Outbox!Discard(p) /\ ~Outbox!SyncDiscarded(p)
BY ProcIs DEF Outbox!Discard, Outbox!SyncDiscarded, Outbox!At, Places_, Recovering, Persisting

LEMMA StepAcknowledge ==
    ASSUME FilesConstants, OutboxInv, OneAtATime, NEW p \in Outbox!Parties,
           Outbox!Acknowledge(p) \/ Outbox!Unacknowledged(p)
    PROVE  OutboxInv'
<1> DEFINE c == proc[p]
<1>1. /\ c.at = "submit" /\ offered' = offered \cup {c.own}
      /\ acked' \in {acked, acked \cup {c.own}}
      /\ UNCHANGED <<slot, temps, disk, body, paired, outboxKills, outages, errors>>
    BY DEF Outbox!Acknowledge, Outbox!Unacknowledged, Outbox!Offer, Outbox!At, Outbox!files,
           Outbox!names, Outbox!bounds
<1>2. /\ Outbox!Living(p) /\ slot = c.own /\ temps = {} /\ c.own \in Results /\ p \notin Doctors
      /\ \A q \in Outbox!Parties \ {p} : ~Outbox!Living(q)
    BY <1>1, Knowing DEF Knows, Recovering
<1>3. paired
    BY <1>2, AtWorkPaired
<1>4. FilesType' /\ acked \subseteq acked' /\ \A r \in offered' \ acked' : r = slot
    <2>1. FilesType /\ acked' \in SUBSET Results /\ offered' \in SUBSET Results
        BY <1>1, <1>2, FilesTyped DEF FilesType
    <2>2. FilesType'
        BY <1>1, <2>1 DEF FilesType
    <2>3. QED
        BY <1>1, <1>2, <2>2 DEF OutboxInv, Kept
<1>5. PICK v \in Process_ :
          /\ proc' = [proc EXCEPT ![p] = v]
          /\ \/ v.at \in {"idle", "gone"} /\ (p \in Pollers => v.at = "idle")
             \/ v.at = "stat" /\ v.why = "clear" /\ v.own \in acked'
    <2>1. CASE Outbox!Acknowledge(p)
        <3> DEFINE v == [c EXCEPT !.at = "stat", !.why = "clear"]
        <3>1. v \in Process_ /\ v.at = "stat" /\ v.why = "clear" /\ v.own = c.own
            BY ProcIs, ZenonT(60) DEF Process_, Places_, Recovering
        <3>2. proc' = [proc EXCEPT ![p] = v] /\ c.own \in acked'
            BY <2>1, ProcIs DEF Outbox!Acknowledge
        <3> HIDE DEF v
        <3>3. QED
            BY <3>1, <3>2
    <2>2. CASE Outbox!Unacknowledged(p)
        <3> DEFINE at == IF p \in Pollers THEN "idle" ELSE "gone"
        <3>1. /\ proc' = [proc EXCEPT ![p] = Outbox!Interrupted(at)]
              /\ Outbox!Interrupted(at) \in Process_ /\ Outbox!Interrupted(at).at = at
            BY <2>2, InterruptedIs DEF Outbox!Unacknowledged, Outbox!Throw, Places_
        <3>2. QED
            BY <3>1
    <2>3. QED
        BY <2>1, <2>2
<1>6. proc'[p] = v
    BY <1>2, <1>5, ProcessMoves
<1>7. Ready(p)'
    BY <1>2, <1>5, <1>6 DEF Ready, Knows, Recovering, Persisting, Outbox!Living
<1>8. Kept'
    BY <1>1, <1>3, <1>4 DEF OutboxInv, Kept, Outbox!Whole
<1>9. ASSUME OnlyOutages PROVE Durable'
    <2>1. Flushed /\ \A r \in Results : body[r] # "whole"
        BY <1>1, <1>2, <1>9, NoFlushDue, NoneWhole DEF Pending
    <2>2. Flushed'
        BY <1>1, <2>1 DEF Flushed
    <2>3. \A r \in offered' \ acked' : disk'.slot = r
        BY <1>1, <1>4, <2>1 DEF Flushed
    <2>4. QED
        BY <1>1, <1>3, <1>9, <2>1, <2>2, <2>3 DEF OutboxInv, Durable
<1>10. QED
    BY <1>2, <1>4, <1>5, <1>7, <1>8, <1>9, Advance

LEMMA StepUnlink ==
    ASSUME FilesConstants, OutboxInv, OneAtATime, NEW p \in Outbox!Parties, Outbox!Unlink(p)
    PROVE  OutboxInv'
<1> DEFINE c == proc[p]
<1>1. /\ c.at = "unlink" /\ slot' = None
      /\ UNCHANGED <<temps, disk, body, paired, offered, acked, outboxKills, outages, errors>>
    BY DEF Outbox!Unlink, Outbox!At, Outbox!server, Outbox!bounds
<1>2. /\ Outbox!Living(p) /\ slot = c.own /\ temps = {} /\ c.own \in Results /\ c.own \in acked
      /\ p \notin Doctors /\ \A q \in Outbox!Parties \ {p} : ~Outbox!Living(q)
    BY <1>1, Knowing DEF Knows, Recovering
<1>3. paired /\ offered \subseteq acked
    BY <1>2, AtWorkPaired DEF OutboxInv, Kept
<1>4. FilesType' /\ Outbox!Goto(p, "syncCleared")
    BY <1>1, <1>2, FilesTyped DEF FilesType, FilesConstants, Outbox!Unlink
<1>5. PICK v \in Process_ : proc' = [proc EXCEPT ![p] = v] /\ v.at = "syncCleared" /\ v.own = c.own
    BY <1>4, GoneTo DEF Places_
<1>6. proc'[p] = v
    BY <1>2, <1>5, ProcessMoves
<1>7. Ready(p)'
    BY <1>1, <1>2, <1>5, <1>6 DEF Ready, Knows, Recovering, Persisting
<1>8. Kept'
    BY <1>1, <1>3 DEF Kept
<1>9. ASSUME OnlyOutages PROVE Durable'
    <2>1. Flushed /\ \A r \in Results : body[r] # "whole"
        BY <1>1, <1>2, <1>9, NoFlushDue, NoneWhole DEF Pending
    <2>2. Unflushed(proc[p])'
        BY <1>1, <1>2, <1>5, <1>6, <2>1 DEF Unflushed, Flushed
    <2>3. QED
        BY <1>1, <1>3, <1>9, <2>1, <2>2 DEF OutboxInv, Durable
<1>10. QED
    BY <1>2, <1>4, <1>5, <1>7, <1>8, <1>9, Advance

LEMMA StepSyncCleared ==
    ASSUME FilesConstants, OutboxInv, OneAtATime, NEW p \in Outbox!Parties, Outbox!SyncCleared(p)
    PROVE  OutboxInv'
<1> DEFINE at == IF p \in Pollers THEN "idle" ELSE "stopping"
           v  == Outbox!Interrupted(at)
<1>1. /\ proc[p].at = "syncCleared" /\ Outbox!Flush /\ Outbox!Cleared(p)
      /\ UNCHANGED <<body, paired, offered, acked, outboxKills, outages, errors>>
    BY DEF Outbox!SyncCleared, Outbox!At, Outbox!server, Outbox!bounds
<1>2. Outbox!Living(p) /\ slot = None /\ temps = {} /\ p \notin Doctors
    BY <1>1, Knowing DEF Knows, Recovering
<1>3. /\ Flushed' /\ UNCHANGED <<slot, temps>>
      /\ disk' \in [slot : Results \cup {None}, temps : SUBSET Results]
    BY <1>1, Flushes
<1>4. FilesType'
    BY <1>1, <1>3, FilesTyped DEF FilesType
<1>5. v \in Process_ /\ v.at = at
    BY InterruptedIs DEF Places_
<1>6. proc' = [proc EXCEPT ![p] = v]
    BY <1>1 DEF Outbox!Cleared
<1> HIDE DEF v
<1>7. proc'[p] = v
    BY <1>2, <1>5, <1>6, ProcessMoves
<1>8. Ready(p)'
    BY <1>2, <1>3, <1>5, <1>7 DEF Ready, Knows, Recovering, Persisting
<1>9. QED
    BY <1>1, <1>2, <1>3, <1>4, <1>5, <1>6, <1>8, Quiet

\* uninstallService finds nothing else alive.
LEMMA StepStopService ==
    ASSUME FilesConstants, OutboxInv, OneAtATime, NEW p \in Outbox!Parties, Outbox!StopService(p)
    PROVE  OutboxInv'
<1> DEFINE v == Outbox!Interrupted("forgetting")
<1>1. /\ proc[p].at = "stopping"
      /\ UNCHANGED <<slot, temps, disk, body, paired, offered, acked, outboxKills, outages, errors>>
    BY DEF Outbox!StopService, Outbox!At, Outbox!files, Outbox!names, Outbox!server, Outbox!bounds
<1>2. /\ Outbox!Living(p) /\ slot = None /\ temps = {} /\ p \notin Doctors
      /\ \A q \in Outbox!Parties \ {p} : ~Outbox!Living(q)
    BY <1>1, Knowing DEF Knows, Recovering
<1>3. v \in Process_ /\ v.at = "forgetting"
    BY InterruptedIs DEF Places_
<1>4. proc' = [proc EXCEPT ![p] = v]
    <2>1. proc' = [q \in Outbox!Parties |-> IF q = p THEN v ELSE proc[q]]
        BY <1>2 DEF Outbox!StopService
    <2>2. QED
        BY <2>1, ProcIs
<1> HIDE DEF v
<1>5. Knows(v)
    BY <1>2, <1>3 DEF Knows, Recovering, Persisting
<1>6. QED
    BY <1>1, <1>2, <1>3, <1>4, <1>5, Aside DEF Pending

LEMMA StepForget ==
    ASSUME FilesConstants, OutboxInv, OneAtATime, NEW p \in Outbox!Parties, Outbox!Forget(p)
    PROVE  OutboxInv'
<1>1. /\ proc[p].at = "forgetting" /\ paired' = FALSE /\ Outbox!Goto(p, "gone")
      /\ UNCHANGED <<slot, temps, disk, body, offered, acked, outboxKills, outages, errors>>
    BY DEF Outbox!Forget, Outbox!At, Outbox!files, Outbox!names, Outbox!server, Outbox!bounds
<1>2. /\ Outbox!Living(p) /\ slot = None /\ temps = {}
      /\ \A q \in Outbox!Parties \ {p} : ~Outbox!Living(q)
    BY <1>1, Knowing DEF Knows
<1>3. FilesType'
    BY <1>1, FilesTyped DEF FilesType
<1>4. PICK v \in Process_ : proc' = [proc EXCEPT ![p] = v] /\ v.at = "gone"
    BY <1>1, GoneTo DEF Places_
<1>5. proc'[p] = v /\ \A q \in Outbox!Parties \ {p} : ~Outbox!Living(q)'
    BY <1>2, <1>4, ProcessMoves
<1>6. ~Outbox!Living(p)'
    BY <1>4, <1>5 DEF Outbox!Living
<1>7. Kept'
    BY <1>1, <1>2, <1>5, <1>6 DEF OutboxInv, Kept, Outbox!Parties
<1>8. ASSUME OnlyOutages PROVE Durable'
    <2>1. Flushed /\ \A r \in Results : body[r] # "whole"
        BY <1>1, <1>2, <1>8, NoFlushDue, NoneWhole DEF Pending
    <2>2. Flushed' /\ disk'.slot = None /\ disk'.temps = {}
        BY <1>1, <1>2, <2>1 DEF Flushed
    <2>3. QED
        BY <1>1, <1>2, <1>8, <2>1, <2>2 DEF OutboxInv, Durable
<1>9. QED
    BY <1>2, <1>3, <1>4, <1>6, <1>7, <1>8, Advance DEF Ready

LEMMA StepStart ==
    ASSUME FilesConstants, OutboxInv, OneAtATime, NEW p \in Outbox!Parties,
           Outbox!Run(p) \/ Outbox!Doctor(p) \/ Outbox!Unpair(p)
    PROVE  OutboxInv'
<1>1. /\ proc[p].at = "new"
      /\ UNCHANGED <<slot, temps, disk, body, paired, offered, acked, outboxKills, outages, errors>>
      /\ p \in Doctors \/ paired
    BY DEF Outbox!Run, Outbox!Doctor, Outbox!Unpair, Outbox!At, Outbox!files, Outbox!names,
           Outbox!server, Outbox!bounds
<1>2. PICK v \in Process_ :
          /\ proc' = [proc EXCEPT ![p] = v]
          /\ \/ v.at = "idle" /\ p \notin Doctors
             \/ v.at = "stat" /\ v.why = "inspect"
             \/ v.at = "stat" /\ v.why = "unpair" /\ p \notin Doctors
    <2>1. CASE Outbox!Run(p)
        <3>1. p \notin Doctors /\ Outbox!Goto(p, "idle")
            BY <2>1 DEF Outbox!Run, FilesConstants
        <3>2. QED
            BY <3>1, GoneTo DEF Places_
    <2>2. CASE Outbox!Doctor(p)
        <3> DEFINE v == [Outbox!Interrupted("stat") EXCEPT !.why = "inspect"]
        <3>1. proc' = [proc EXCEPT ![p] = v] /\ v \in Process_ /\ v.at = "stat" /\ v.why = "inspect"
            BY <2>2, CallIs DEF Outbox!Doctor, Outbox!Call
        <3> HIDE DEF v
        <3>2. QED
            BY <3>1
    <2>3. CASE Outbox!Unpair(p)
        <3>1. p \notin Doctors
            BY <2>3 DEF Outbox!Unpair, FilesConstants
        <3> DEFINE v == [Outbox!Interrupted("stat") EXCEPT !.why = "unpair"]
        <3>2. proc' = [proc EXCEPT ![p] = v] /\ v \in Process_ /\ v.at = "stat" /\ v.why = "unpair"
            BY <2>3, CallIs DEF Outbox!Unpair, Outbox!Call
        <3> HIDE DEF v
        <3>3. QED
            BY <3>1, <3>2
    <2>4. QED
        BY <2>1, <2>2, <2>3
<1>3. Outbox!Living(p)'
    BY <1>2, ProcIs DEF Outbox!Living
<1>4. Knows(v) /\ (p \in Doctors => v.at \in Recovering /\ v.why = "inspect")
    BY <1>2 DEF Knows, Recovering, Persisting
<1>5. QED
    BY <1>1, <1>2, <1>3, <1>4, Aside DEF Pending

LEMMA StepKill ==
    ASSUME FilesConstants, OutboxInv, OneAtATime, NEW p \in Outbox!Parties, Outbox!Kill(p)
    PROVE  OutboxInv'
<1> DEFINE v == Outbox!Interrupted("killed")
<1>1. /\ Outbox!Living(p) /\ outboxKills < OutboxKills /\ outboxKills' = outboxKills + 1
      /\ proc' = [proc EXCEPT ![p] = v]
      /\ UNCHANGED <<slot, temps, disk, body, paired, offered, acked, outages, errors>>
    BY DEF Outbox!Kill, Outbox!files, Outbox!names, Outbox!server
<1>2. v \in Process_ /\ v.at = "killed"
    BY InterruptedIs DEF Places_
<1> HIDE DEF v
<1>3. ~OnlyOutages /\ outboxKills' \in 0..OutboxKills
    BY <1>1 DEF OnlyOutages, OutboxInv, OutboxType, FilesConstants
<1>4. FilesType' /\ Same /\ Durably(p)
    BY <1>1, <1>3, FilesTyped DEF FilesType, Same, Durably
<1>5. proc'[p] = v
    BY <1>1, <1>2, ProcessMoves
<1>6. Ready(p)'
    BY <1>2, <1>5 DEF Ready, Outbox!Living
<1>7. QED
    BY <1>1, <1>2, <1>4, <1>6, Quiet DEF Same, Durably

\* A power failure ends every process; what it leaves in the slot was there.
LEMMA StepPowerFailure ==
    ASSUME FilesConstants, OutboxInv, OutboxOutages = 0 \/ OnlyOutages, Outbox!PowerFailure
    PROVE  OutboxInv'
<1>1. /\ outages < OutboxOutages /\ outages' = outages + 1
      /\ slot' \in {slot, disk.slot}
      /\ temps' \in SUBSET (temps \cup disk.temps)
      /\ disk' = [slot |-> slot', temps |-> temps']
      /\ UNCHANGED <<paired, offered, acked, outboxKills, errors>>
    BY DEF Outbox!PowerFailure, Outbox!server
<1>2. OnlyOutages /\ Durable
    BY <1>1 DEF OutboxInv, OutboxType, FilesConstants
<1>3. PICK survive \in SUBSET {r \in Results : body[r] = "whole"} :
          body' = [r \in Results |-> IF body[r] # "whole" THEN body[r]
                                     ELSE IF r \in survive THEN "synced" ELSE "torn"]
    BY DEF Outbox!PowerFailure
<1>4. \A p \in Outbox!Parties :
          /\ proc'[p] \in Process_ /\ ~Outbox!Living(p)'
          /\ proc'[p].at \notin Pending
    <2>1. TAKE p \in Outbox!Parties
    <2>2. proc'[p] = IF Outbox!Living(p) THEN Outbox!Interrupted("killed") ELSE proc[p]
        BY DEF Outbox!PowerFailure
    <2>3. Outbox!Interrupted("killed") \in Process_ /\ Outbox!Interrupted("killed").at = "killed"
        BY InterruptedIs DEF Places_
    <2>4. proc[p] \in Process_
        BY ProcIs
    <2>5. proc'[p] \in Process_ /\ proc'[p].at \in {"new", "gone", "killed"}
        BY <2>2, <2>3, <2>4 DEF Outbox!Living
    <2>6. QED
        BY <2>5 DEF Outbox!Living, Pending
<1>5. proc' \in [Outbox!Parties -> Process_]
    <2>1. proc' = [p \in Outbox!Parties |->
                      IF Outbox!Living(p) THEN Outbox!Interrupted("killed") ELSE proc[p]]
        BY DEF Outbox!PowerFailure
    <2>2. QED
        BY <1>4, <2>1
<1>6. OutboxType'
    <2>1. FilesType
        BY FilesTyped
    <2>2. slot' \in Results \cup {None} /\ temps' \in SUBSET Results
        BY <1>1, <2>1 DEF FilesType
    <2>3. body' \in [Results -> {"none", "torn", "whole", "synced"}]
        BY <1>3, <2>1 DEF FilesType
    <2>4. outages' \in 0..OutboxOutages
        BY <1>1, <2>1 DEF FilesType, FilesConstants
    <2>5. QED
        BY <1>1, <1>5, <2>1, <2>2, <2>3, <2>4 DEF FilesType, OutboxType
<1>7. Alone' /\ Informed'
    BY <1>4 DEF Alone, Informed
<1>8. \A r \in Results : /\ body'[r] # "whole"
                         /\ body[r] = "synced" => body'[r] = "synced"
    BY <1>3 DEF OutboxInv, OutboxType
<1>9. slot' # None => slot' \in Results /\ body'[slot'] = "synced"
    BY <1>1, <1>2, <1>8 DEF OutboxInv, OutboxType, Durable
<1>10. \A r \in offered' \ acked' : slot' = r
    BY <1>1, <1>2 DEF OutboxInv, Kept, Durable
<1>11. ~paired' => slot' = None /\ temps' = {}
    BY <1>1, <1>2 DEF OutboxInv, Kept, Durable
<1>12. Kept'
    BY <1>4, <1>9, <1>10, <1>11 DEF Kept, Outbox!Whole, Outbox!Parties
<1>13. Durable'
    BY <1>1, <1>8, <1>9, <1>10, <1>11 DEF Durable, Flushed
<1>14. QED
    BY <1>6, <1>7, <1>12, <1>13 DEF OutboxInv

\* The outbox with one process of the Companion at a time.
OutboxAlone == Outbox!Init /\ [][Outbox!Next /\ OneAtATime]_(Outbox!vars)

LEMMA OutboxStarts == ASSUME FilesConstants, Outbox!Init PROVE OutboxInv
<1>1. \A p \in Outbox!Parties : proc[p] \in Process_ /\ proc[p].at = "new"
    BY DEF Outbox!Init, Outbox!Fresh, Process_, Places_
<1>2. \A p \in Outbox!Parties : ~Outbox!Living(p)
    BY <1>1 DEF Outbox!Living
<1>3. OutboxType
    BY <1>1 DEF Outbox!Init, OutboxType, FilesConstants
<1>4. Alone /\ Informed
    BY <1>2 DEF Alone, Informed
<1>5. Kept
    BY <1>2 DEF Outbox!Init, Kept, Outbox!Parties
<1>6. Durable
    BY DEF Outbox!Init, Durable, Flushed
<1>7. QED
    BY <1>3, <1>4, <1>5, <1>6 DEF OutboxInv

LEMMA OutboxSteps ==
    ASSUME FilesConstants, OutboxOutages = 0 \/ OnlyOutages, OutboxInv,
           [Outbox!Next /\ OneAtATime]_(Outbox!vars)
    PROVE  OutboxInv'
<1>1. CASE UNCHANGED Outbox!vars
    BY <1>1 DEF Outbox!vars, Outbox!files, Outbox!names, Outbox!server, Outbox!bounds, OutboxInv,
           OutboxType, Alone, Informed, Knows, Kept, Durable, Flushed, Unflushed, Outbox!Living,
           Outbox!Whole, Outbox!At, OnlyOutages
<1>2. CASE OneAtATime /\ Outbox!Next
    <2>1. CASE Outbox!PowerFailure
        BY <2>1, StepPowerFailure
    <2>2. ASSUME NEW p \in Outbox!Parties, Outbox!Recover(p) PROVE OutboxInv'
        BY <1>2, <2>2, StepStat, StepList, StepRead, StepCompare, StepSweep, StepSyncSwept,
           StepSort, StepSyncSorted, StepLink, StepSyncLink, StepReread DEF Outbox!Recover
    <2>3. ASSUME NEW p \in Outbox!Parties, Outbox!Persist(p) PROVE OutboxInv'
        BY <1>2, <2>3, StepCreate, StepWrite, StepFsync, StepPublish, StepSyncPublished, StepTidy,
           StepSyncTidied, NeverDiscards DEF Outbox!Persist
    <2>4. ASSUME NEW p \in Outbox!Parties, Outbox!Step(p) PROVE OutboxInv'
        BY <1>2, <2>2, <2>3, <2>4, StepPoll, StepUnlink, StepSyncCleared, StepStopService,
           StepForget DEF Outbox!Step
    <2>5. ASSUME NEW p \in Outbox!Parties,
                 \/ Outbox!WriteError(p) \/ Outbox!Acknowledge(p) \/ Outbox!Unacknowledged(p)
                 \/ Outbox!Run(p) \/ Outbox!Doctor(p) \/ Outbox!Unpair(p) \/ Outbox!Kill(p)
          PROVE  OutboxInv'
        BY <1>2, <2>5, StepWriteError, StepAcknowledge, StepStart, StepKill
    <2>6. QED
        BY <1>2, <2>1, <2>4, <2>5 DEF Outbox!Next
<1>3. QED
    BY <1>1, <1>2

LEMMA OutboxHolds ==
    ASSUME FilesConstants, OutboxOutages = 0 \/ OnlyOutages
    PROVE  OutboxAlone => []OutboxInv
<1>1. Outbox!Init => OutboxInv
    BY OutboxStarts
<1>2. OutboxInv /\ [Outbox!Next /\ OneAtATime]_(Outbox!vars) => OutboxInv'
    BY OutboxSteps
<1>3. QED
    BY <1>1, <1>2, PTL DEF OutboxAlone

\* A result that was or may be submitted stays in the slot until the Worker has
\* acknowledged it, and its credential with it, for any number of processes,
\* results, kills, failed writes or power failures.
THEOREM ResultSubmittable ==
    ASSUME OutboxOutages = 0 \/ OnlyOutages
    PROVE  OutboxAlone => []Submittable
<1>1. OutboxInv => Submittable
    <2> SUFFICES ASSUME OutboxInv PROVE Submittable
        OBVIOUS
    <2>2. /\ slot # None => Outbox!Whole(slot)
          /\ offered \subseteq Results /\ \A r \in offered \ acked : slot = r
        BY DEF OutboxInv, OutboxType, Kept
    <2>3. ASSUME NEW q \in Outbox!Parties, Outbox!At(q, "submit")
          PROVE  slot = proc[q].own /\ proc[q].own \in Results
        <3>1. proc[q].at = "submit"
            BY <2>3 DEF Outbox!At
        <3>2. Knows(proc[q])
            BY <3>1, Knowing
        <3>3. QED
            BY <3>1, <3>2 DEF Knows
    <2>4. Outbox!KeptUntilAcked
        <3>1. SUFFICES ASSUME NEW r \in (offered \cup Outbox!Submitting) \ acked
                       PROVE  slot = r /\ Outbox!Whole(r)
            BY DEF Outbox!KeptUntilAcked
        <3>2. slot = r /\ r \in Results
            BY <2>2, <2>3, <3>1 DEF Outbox!Submitting
        <3>3. QED
            BY <2>2, <3>2, LocalFilesAssumption DEF FilesConstants
    <2>5. Outbox!CredentialOutlivesResult
        BY DEF OutboxInv, Kept, Outbox!CredentialOutlivesResult
    <2>6. QED
        BY <2>4, <2>5 DEF Submittable
<1>2. OutboxAlone => []OutboxInv
    BY LocalFilesAssumption, OutboxHolds
<1>3. QED
    BY <1>1, <1>2, PTL

\* A Companion polls only when nothing is left to replay, under the same
\* hypotheses.
THEOREM ReplayedBeforePoll ==
    ASSUME OutboxOutages = 0 \/ OnlyOutages
    PROVE  OutboxAlone => []ReplayedFirst
<1>1. OutboxInv => ReplayedFirst
    <2>1. SUFFICES ASSUME OutboxInv, NEW p \in Pollers, Outbox!At(p, "poll")
                   PROVE  slot = None /\ temps = {}
        BY DEF ReplayedFirst, Outbox!ReplayedFirst
    <2>2. QED
        BY <2>1, Knowing DEF Knows, Outbox!At, Outbox!Parties
<1>2. OutboxAlone => []OutboxInv
    BY LocalFilesAssumption, OutboxHolds
<1>3. QED
    BY <1>1, <1>2, PTL

-----------------------------------------------------------------------------
(* The pairing (CompanionPairing), in the same order.                         *)

\* Where a command of the pairing is, and what it has read.
Command_ ==
    [at : {"new", "gone", "killed", "read", "matching", "listing", "sweeping", "dropping",
           "clearing", "unjournaling", "unjournaled", "cleaning", "requesting", "announcing",
           "renaming", "preparing", "recording", "renamingAgain", "linking", "tidying",
           "configuring", "deleting", "forgetting"},
     why : {"none", "pair", "save", "catch", "doctor", "unpair"},
     read : Pairing!Journal \cup {None}, committed : BOOLEAN,
     state : Pairings \cup {None}, seen : SUBSET Pairings]

PairingFiles ==
    /\ journal \in Pairing!Journal \cup {None} /\ config \in Pairings \cup {None}
    /\ tokens \in SUBSET Pairings /\ tokenTemps \in SUBSET Pairings
    /\ pairingDisk \in [journal : Pairing!Journal \cup {None}, config : Pairings \cup {None},
                        tokens : SUBSET Pairings, temps : SUBSET Pairings]
    /\ pairingKills \in Nat /\ pairingOutages \in Nat /\ pairingErrors \in Nat

PairingType == PairingFiles /\ command \in [Pairing!Parties -> Command_]

OneAtWork == \A p, q \in Pairing!Parties : Pairing!Living(p) /\ Pairing!Living(q) => p = q

\* What a command that is at c, as process p, knows of the files.
Undoing == {"listing", "sweeping", "dropping"}
Linking == {"linking", "tidying", "configuring"}
Writing == {"requesting", "announcing", "renaming", "preparing", "recording", "renamingAgain"}
           \cup Linking

Sees(p, c) ==
    /\ p \in Pairings => c.why \in {"pair", "save", "catch"}
    /\ c.at \in Writing => p \in Pairings /\ c.why = "save" /\ config = None
    /\ c.at \in {"requesting", "announcing", "renaming", "unjournaled", "cleaning", "deleting",
                 "forgetting"} => journal = None
    /\ c.at \in {"preparing", "recording", "renamingAgain"} => journal = [tx |-> p, cred |-> FALSE]
    /\ c.at \in Linking => journal = [tx |-> p, cred |-> TRUE] /\ c.read = journal
    /\ c.at \in {"tidying", "configuring"} => p \in tokens
    /\ c.at \in {"configuring", "dropping"} => tokenTemps = {}
    /\ c.at \in Undoing \cup {"matching", "clearing", "unjournaling"} =>
           journal # None /\ c.read = journal
    /\ c.at \in Undoing => config = None
    /\ c.at = "sweeping" => c.seen = tokenTemps
    /\ c.at \in {"clearing", "unjournaling"} =>
           \/ config = c.read.tx
           \/ config = None /\ tokens = {} /\ tokenTemps = {} /\ c.why # "save"
    /\ c.at \in {"clearing", "unjournaling"} /\ c.why = "save" => tokenTemps = {}
    /\ c.at \in {"read", "matching"} \cup Undoing => c.why # "save"
    /\ c.at = "cleaning" /\ p \in Pairings => config = None
    /\ c.at = "deleting" => c.state # None
    /\ c.at = "forgetting" => tokens = {} /\ tokenTemps = {} /\ config \in retired

Seeing == \A p \in Pairing!Parties : Pairing!Living(p) => Sees(p, command[p])

\* Every name is accounted for: the configuration has its credential or it was
\* retired, and a credential has its configuration or its journal.
Explains(g, j, t, linked) == g = t \/ (j # None /\ j.tx = t /\ (t \in linked => j.cred))

Accounted ==
    /\ config # None => config \in tokens \/ config \in retired
    /\ \A t \in tokens \cup tokenTemps : Explains(config, journal, t, tokens)

\* The same of whatever a power failure may leave of the names.
Linked_    == tokens \cup pairingDisk.tokens
Everywhere == Linked_ \cup tokenTemps \cup pairingDisk.temps

Names ==
    /\ config # None => config \in pairingDisk.tokens \/ config \in retired
    /\ pairingDisk.config \notin {None, config} => pairingDisk.config \in retired
    /\ \A t \in Everywhere :
           \A g \in {config, pairingDisk.config} : \A j \in {journal, pairingDisk.journal} :
               Explains(g, j, t, Linked_)

\* What waits for a flush while p is at c, and no other command lives.
Waits(p, c) ==
    /\ \/ pairingDisk.journal = journal
       \/ c.at = "preparing" /\ pairingDisk.journal = None
       \/ c.at = "linking" /\ pairingDisk.journal = [tx |-> p, cred |-> FALSE]
       \/ c.at = "unjournaled"
    /\ config # None /\ pairingDisk.config # config => c.at = "clearing" /\ c.why = "save"
    /\ c.at = "unjournaling" /\ config = None => pairingDisk.tokens = {} /\ pairingDisk.temps = {}

Survives ==
    /\ Names
    /\ \A p \in Pairing!Parties :
           (\A q \in Pairing!Parties \ {p} : ~Pairing!Living(q)) => Waits(p, command[p])

PairingInv == PairingType /\ OneAtWork /\ Seeing /\ Accounted /\ (OnlyOutages => Survives)

LEMMA CommandIs ==
    ASSUME PairingInv, NEW p \in Pairing!Parties
    PROVE  /\ command \in [Pairing!Parties -> Command_] /\ command[p] \in Command_
           /\ command[p].why \in {"none", "pair", "save", "catch", "doctor", "unpair"}
           /\ command[p].read \in Pairing!Journal \cup {None}
           /\ command[p].state \in Pairings \cup {None} /\ command[p].seen \in SUBSET Pairings
<1>1. command \in [Pairing!Parties -> Command_]
    BY DEF PairingInv, PairingType
<1>2. command[p] \in Command_
    BY <1>1
<1>3. QED
    BY <1>1, <1>2 DEF Command_

LEMMA FreshIs ==
    ASSUME NEW at \in {"gone", "killed", "read"}, NEW why \in {"catch", "doctor", "unpair"},
           NEW state \in Pairings \cup {None}
    PROVE  /\ [Pairing!Fresh EXCEPT !.at = at] \in Command_
           /\ [Pairing!Fresh EXCEPT !.at = at].at = at
           /\ [Pairing!Fresh EXCEPT !.at = at, !.why = why] \in Command_
           /\ [Pairing!Fresh EXCEPT !.at = at, !.why = why].at = at
           /\ [Pairing!Fresh EXCEPT !.at = at, !.why = why].why = why
           /\ [Pairing!Fresh EXCEPT !.at = at, !.why = why, !.state = state] \in Command_
           /\ [Pairing!Fresh EXCEPT !.at = at, !.why = why, !.state = state].at = at
           /\ [Pairing!Fresh EXCEPT !.at = at, !.why = why, !.state = state].why = why
<1> DEFINE f == Pairing!Fresh
<1>1. f \in Command_
    BY DEF Pairing!Fresh, Command_
<1> HIDE DEF f
<1>2. /\ [f EXCEPT !.at = at] \in Command_ /\ [f EXCEPT !.at = at].at = at
    BY <1>1 DEF Command_
<1>3. /\ [f EXCEPT !.at = at, !.why = why] \in Command_
      /\ [f EXCEPT !.at = at, !.why = why].at = at
      /\ [f EXCEPT !.at = at, !.why = why].why = why
    BY <1>1 DEF Command_
<1>4. /\ [f EXCEPT !.at = at, !.why = why, !.state = state] \in Command_
      /\ [f EXCEPT !.at = at, !.why = why, !.state = state].at = at
      /\ [f EXCEPT !.at = at, !.why = why, !.state = state].why = why
    BY <1>1 DEF Command_
<1>5. QED
    BY <1>2, <1>3, <1>4 DEF f

LEMMA CommandGoes ==
    ASSUME PairingInv, NEW p \in Pairing!Parties,
           NEW x \in {"gone", "killed", "read", "matching", "listing", "sweeping", "dropping",
                      "clearing", "unjournaling", "unjournaled", "cleaning", "requesting",
                      "announcing", "renaming", "preparing", "recording", "renamingAgain",
                      "linking", "tidying", "configuring", "deleting", "forgetting"},
           Pairing!Goto(p, x)
    PROVE  \E v \in Command_ :
               /\ command' = [command EXCEPT ![p] = v] /\ v.at = x
               /\ v.why = command[p].why /\ v.read = command[p].read
               /\ v.state = command[p].state /\ v.seen = command[p].seen
<1> DEFINE v == [command[p] EXCEPT !.at = x]
<1>1. /\ v \in Command_ /\ v.at = x
      /\ v.why = command[p].why /\ v.read = command[p].read
      /\ v.state = command[p].state /\ v.seen = command[p].seen
    BY CommandIs, ZenonT(60) DEF Command_
<1>2. command' = [command EXCEPT ![p] = v]
    BY CommandIs DEF Pairing!Goto
<1> HIDE DEF v
<1>3. QED
    BY <1>1, <1>2

LEMMA CommandEnds ==
    ASSUME NEW p \in Pairing!Parties, Pairing!End(p)
    PROVE  \E v \in Command_ : command' = [command EXCEPT ![p] = v] /\ v.at = "gone"
<1> DEFINE v == [Pairing!Fresh EXCEPT !.at = "gone"]
<1>1. v \in Command_ /\ v.at = "gone"
    BY FreshIs
<1>2. command' = [command EXCEPT ![p] = v]
    BY DEF Pairing!End
<1> HIDE DEF v
<1>3. QED
    BY <1>1, <1>2

\* Only the command that moves may be alive after its step.
LEMMA CommandMoves ==
    ASSUME PairingInv, OneCommand, NEW p \in Pairing!Parties, NEW v \in Command_,
           command' = [command EXCEPT ![p] = v], Pairing!Living(p) \/ Pairing!Living(p)'
    PROVE  /\ command' \in [Pairing!Parties -> Command_] /\ command'[p] = v
           /\ \A q \in Pairing!Parties \ {p} :
                 command'[q] = command[q] /\ ~Pairing!Living(q) /\ ~Pairing!Living(q)'
           /\ OneAtWork'
<1>1. /\ command' \in [Pairing!Parties -> Command_] /\ command'[p] = v
      /\ \A q \in Pairing!Parties \ {p} : command'[q] = command[q]
    BY DEF PairingInv, PairingType
<1>2. \A q \in Pairing!Parties \ {p} : Pairing!Living(q)' <=> Pairing!Living(q)
    BY <1>1 DEF Pairing!Living
<1>3. OneAtWork'
    BY DEF OneCommand, OneAtWork
<1>4. \A q \in Pairing!Parties \ {p} : ~Pairing!Living(q)
    BY <1>2, <1>3 DEF PairingInv, OneAtWork
<1>5. QED
    BY <1>1, <1>2, <1>3, <1>4

\* What is known of a command that is somewhere.
LEMMA CommandKnows ==
    ASSUME PairingInv, NEW p \in Pairing!Parties, command[p].at \notin {"new", "gone", "killed"}
    PROVE  /\ Pairing!Living(p) /\ Sees(p, command[p])
           /\ \A q \in Pairing!Parties \ {p} : ~Pairing!Living(q)
           /\ OnlyOutages => Names /\ Waits(p, command[p])
<1>1. Pairing!Living(p)
    BY DEF Pairing!Living
<1>2. \A q \in Pairing!Parties \ {p} : ~Pairing!Living(q)
    BY <1>1 DEF PairingInv, OneAtWork
<1>3. QED
    BY <1>1, <1>2 DEF PairingInv, Seeing, Survives

PairReady(p) == Pairing!Living(p) => Sees(p, command[p])

LEMMA CommandAdvances ==
    ASSUME PairingInv, OneCommand, NEW p \in Pairing!Parties, NEW v \in Command_,
           command' = [command EXCEPT ![p] = v], Pairing!Living(p) \/ Pairing!Living(p)',
           PairingFiles', PairReady(p)', Accounted',
           OnlyOutages => Names' /\ Waits(p, command[p])'
    PROVE  PairingInv'
<1>1. PairingType' /\ OneAtWork'
    BY CommandMoves DEF PairingType
<1>2. \A q \in Pairing!Parties \ {p} : ~Pairing!Living(q)'
    BY CommandMoves
<1>3. Seeing'
    BY <1>2 DEF Seeing, PairReady
<1>4. ASSUME OnlyOutages PROVE Survives'
    <2>1. SUFFICES ASSUME NEW q \in Pairing!Parties, q # p,
                          \A o \in Pairing!Parties \ {q} : ~Pairing!Living(o)'
                   PROVE  Waits(q, command[q])'
        BY <1>4 DEF Survives
    <2>2. command'[p].at \in {"new", "gone", "killed"} /\ command'[q].at \in {"new", "gone", "killed"}
        BY <1>2, <2>1 DEF Pairing!Living
    <2>3. QED
        BY <1>4, <2>2 DEF Waits
<1>5. QED
    BY <1>1, <1>3, <1>4 DEF PairingInv, OnlyOutages

\* A step that writes no name: some are flushed, some go.
Sheds ==
    /\ PairingFiles' /\ UNCHANGED <<journal, config>>
    /\ tokens' \subseteq tokens /\ tokenTemps' \subseteq tokenTemps /\ retired \subseteq retired'
    /\ pairingDisk'.journal \in {pairingDisk.journal, journal}
    /\ pairingDisk'.config \in {pairingDisk.config, config}
    /\ pairingDisk'.tokens \subseteq tokens \cup pairingDisk.tokens
    /\ pairingDisk'.temps \subseteq tokenTemps \cup pairingDisk.temps
    /\ config # None => config \in tokens' \/ config \in retired'
    /\ config # None /\ OnlyOutages => config \in pairingDisk'.tokens \/ config \in retired'

LEMMA Shed ==
    ASSUME PairingInv, OneCommand, NEW p \in Pairing!Parties, NEW v \in Command_,
           command' = [command EXCEPT ![p] = v], Pairing!Living(p) \/ Pairing!Living(p)',
           Sheds, PairReady(p)', OnlyOutages => Waits(p, command[p])'
    PROVE  PairingInv'
<1>1. Accounted'
    BY DEF PairingInv, Sheds, Accounted, Explains
<1>2. ASSUME OnlyOutages PROVE Names'
    <2>1. Names
        BY <1>2 DEF PairingInv, Survives
    <2>2. Everywhere' \subseteq Everywhere /\ Linked_' \subseteq Linked_
        BY DEF Sheds, Everywhere, Linked_
    <2>3. /\ {config', pairingDisk'.config} \subseteq {config, pairingDisk.config}
          /\ {journal', pairingDisk'.journal} \subseteq {journal, pairingDisk.journal}
        BY DEF Sheds
    <2>4. ASSUME NEW t \in Everywhere', NEW g \in {config', pairingDisk'.config},
                 NEW j \in {journal', pairingDisk'.journal}
          PROVE  Explains(g, j, t, Linked_')
        <3>1. Explains(g, j, t, Linked_)
            BY <2>1, <2>2, <2>3 DEF Names
        <3>2. QED
            BY <2>2, <3>1 DEF Explains
    <2>5. pairingDisk'.config \notin {None, config'} => pairingDisk'.config \in retired'
        BY <2>1 DEF Names, Sheds
    <2>6. config' # None => config' \in pairingDisk'.tokens \/ config' \in retired'
        BY <1>2 DEF Sheds
    <2>7. QED
        BY <2>4, <2>5, <2>6 DEF Names
<1>3. QED
    BY <1>1, <1>2, CommandAdvances DEF Sheds

DiskRecords == [journal : Pairing!Journal \cup {None}, config : Pairings \cup {None},
                tokens : SUBSET Pairings, temps : SUBSET Pairings]

LEMMA PairingTyped ==
    ASSUME PairingInv
    PROVE  /\ PairingFiles /\ pairingDisk \in DiskRecords
           /\ pairingDisk.journal \in Pairing!Journal \cup {None}
           /\ pairingDisk.config \in Pairings \cup {None}
           /\ pairingDisk.tokens \in SUBSET Pairings /\ pairingDisk.temps \in SUBSET Pairings
           /\ config # None /\ OnlyOutages => config \in pairingDisk.tokens \/ config \in retired
<1>1. PairingFiles /\ pairingDisk \in DiskRecords
    BY DEF PairingInv, PairingType, PairingFiles, DiskRecords
<1>2. QED
    BY <1>1 DEF PairingInv, Survives, Names, DiskRecords

\* Nothing is written: a step of which the record of a command is all that
\* changes.
LEMMA StillSheds ==
    ASSUME PairingInv, UNCHANGED <<journal, tokens, tokenTemps, config, pairingDisk, retired>>,
           pairingKills' \in Nat, pairingOutages' \in Nat, pairingErrors' \in Nat
    PROVE  Sheds
BY PairingTyped DEF PairingFiles, Sheds, PairingInv, Accounted

LEMMA StateFlushed ==
    ASSUME PairingInv, Pairing!FlushState
    PROVE  /\ pairingDisk' \in DiskRecords /\ pairingDisk'.journal = journal
           /\ pairingDisk'.config = pairingDisk.config /\ pairingDisk'.tokens = pairingDisk.tokens
           /\ pairingDisk'.temps = pairingDisk.temps
BY PairingTyped DEF Pairing!FlushState, DiskRecords, PairingFiles

LEMMA TokensFlushed ==
    ASSUME PairingInv, Pairing!FlushTokens
    PROVE  /\ pairingDisk' \in DiskRecords /\ pairingDisk'.journal = pairingDisk.journal
           /\ pairingDisk'.config = pairingDisk.config /\ pairingDisk'.tokens = tokens
           /\ pairingDisk'.temps = tokenTemps
BY PairingTyped DEF Pairing!FlushTokens, DiskRecords, PairingFiles

LEMMA ConfigFlushed ==
    ASSUME PairingInv, Pairing!FlushConfig
    PROVE  /\ pairingDisk' \in DiskRecords /\ pairingDisk'.journal = pairingDisk.journal
           /\ pairingDisk'.config = config /\ pairingDisk'.tokens = pairingDisk.tokens
           /\ pairingDisk'.temps = pairingDisk.temps
BY PairingTyped DEF Pairing!FlushConfig, DiskRecords, PairingFiles

\* A flush writes no name either.
LEMMA FlushSheds ==
    ASSUME PairingInv, Pairing!FlushState \/ Pairing!FlushTokens \/ Pairing!FlushConfig,
           UNCHANGED <<journal, tokens, tokenTemps, config, retired,
                       pairingKills, pairingOutages, pairingErrors>>
    PROVE  Sheds
<1>1. /\ pairingDisk' \in DiskRecords
      /\ pairingDisk'.journal \in {pairingDisk.journal, journal}
      /\ pairingDisk'.config \in {pairingDisk.config, config}
      /\ pairingDisk'.tokens \in {pairingDisk.tokens, tokens}
      /\ pairingDisk'.temps \in {pairingDisk.temps, tokenTemps}
    BY StateFlushed, TokensFlushed, ConfigFlushed
<1>2. PairingFiles'
    BY <1>1, PairingTyped DEF PairingFiles, DiskRecords
<1>3. config # None => config \in tokens \/ config \in retired
    BY DEF PairingInv, Accounted
<1>4. QED
    BY <1>1, <1>2, <1>3, PairingTyped DEF Sheds

LEMMA CommandAside ==
    ASSUME PairingInv, OneCommand, NEW p \in Pairing!Parties, NEW v \in Command_,
           command' = [command EXCEPT ![p] = v], Pairing!Living(p) \/ Pairing!Living(p)',
           UNCHANGED <<journal, tokens, tokenTemps, config, pairingDisk, retired,
                       pairingKills, pairingOutages, pairingErrors>>,
           v.at \notin {"new", "gone", "killed"} => Sees(p, v), v.at # "unjournaling",
           command[p].at \notin {"preparing", "linking", "unjournaled", "clearing"}
    PROVE  PairingInv'
<1>1. /\ command'[p] = v
      /\ \A q \in Pairing!Parties \ {p} : ~Pairing!Living(q)
    BY CommandMoves
<1>2. Sheds
    BY StillSheds, PairingTyped DEF PairingFiles
<1>3. PairReady(p)'
    BY <1>1 DEF PairReady, Pairing!Living, Sees
<1>4. ASSUME OnlyOutages PROVE Waits(p, command[p])'
    <2>1. Waits(p, command[p])
        BY <1>1, <1>4 DEF PairingInv, Survives
    <2>2. QED
        BY <1>1, <2>1 DEF Waits
<1>5. QED
    BY <1>2, <1>3, <1>4, Shed

LEMMA CommandEnded ==
    ASSUME PairingInv, OneCommand, NEW p \in Pairing!Parties, Pairing!End(p), Pairing!Living(p),
           UNCHANGED <<journal, tokens, tokenTemps, config, pairingDisk, retired,
                       pairingKills, pairingOutages, pairingErrors>>,
           command[p].at \notin {"preparing", "linking", "unjournaled", "clearing"}
    PROVE  PairingInv'
<1>1. PICK v \in Command_ : command' = [command EXCEPT ![p] = v] /\ v.at = "gone"
    BY CommandEnds
<1>2. QED
    BY <1>1, CommandAside

\* A step that goes on and leaves all names as they are.
LEMMA CommandOnward ==
    ASSUME PairingInv, OneCommand, NEW p \in Pairing!Parties, Pairing!Living(p),
           NEW x \in {"listing", "announcing", "renaming", "renamingAgain"},
           Pairing!Goto(p, x),
           UNCHANGED <<journal, tokens, tokenTemps, config, pairingDisk, retired,
                       pairingKills, pairingOutages, pairingErrors>>,
           \A v \in Command_ :
               /\ v.at = x /\ v.why = command[p].why /\ v.read = command[p].read
               /\ v.state = command[p].state /\ v.seen = command[p].seen
               => Sees(p, v),
           command[p].at \notin {"preparing", "linking", "unjournaled", "clearing"}
    PROVE  PairingInv'
<1>1. PICK v \in Command_ :
          /\ command' = [command EXCEPT ![p] = v] /\ v.at = x
          /\ v.why = command[p].why /\ v.read = command[p].read
          /\ v.state = command[p].state /\ v.seen = command[p].seen
    BY CommandGoes
<1>2. QED
    BY <1>1, CommandAside

FlushesSome ==
    /\ pairingDisk' \in DiskRecords
    /\ pairingDisk'.journal \in {pairingDisk.journal, journal}
    /\ pairingDisk'.config \in {pairingDisk.config, config}
    /\ pairingDisk'.tokens \in {pairingDisk.tokens, tokens}
    /\ pairingDisk'.temps \in {pairingDisk.temps, tokenTemps}

LEMMA AFlush ==
    ASSUME PairingInv,
           \/ Pairing!FlushState \/ Pairing!FlushTokens \/ Pairing!FlushConfig
           \/ pairingDisk' = pairingDisk
    PROVE  FlushesSome
BY StateFlushed, TokensFlushed, ConfigFlushed, PairingTyped DEF FlushesSome

\* An error of a call takes away what savePrivateToken has written so far.
LEMMA CommandThrows ==
    ASSUME PairingInv, OneCommand, NEW p \in Pairing!Parties, Pairing!Living(p), Pairing!Throw(p),
           UNCHANGED <<journal, config, retired>>, FlushesSome,
           pairingKills' \in Nat, pairingOutages' \in Nat, pairingErrors' \in Nat,
           command[p].why # "save" \/ config = None \/ tokenTemps = {},
           OnlyOutages => /\ pairingDisk'.journal = journal
                          /\ config # None => pairingDisk'.config = config
    PROVE  PairingInv'
<1>1. PICK v \in Command_ :
          /\ command' = [command EXCEPT ![p] = v]
          /\ v.at = "gone" \/ (v.at = "read" /\ v.why = "catch")
    <2>1. CASE p \in Pairings /\ command[p].why = "save"
        <3> DEFINE v == [Pairing!Fresh EXCEPT !.at = "read", !.why = "catch"]
        <3>1. v \in Command_ /\ v.at = "read" /\ v.why = "catch"
            BY FreshIs DEF PairingInv, PairingType, PairingFiles
        <3>2. command' = [command EXCEPT ![p] = v]
            BY <2>1 DEF Pairing!Throw
        <3> HIDE DEF v
        <3>3. QED
            BY <3>1, <3>2
    <2>2. CASE ~(p \in Pairings /\ command[p].why = "save")
        BY <2>2, CommandEnds DEF Pairing!Throw
    <2>3. QED
        BY <2>1, <2>2
<1>2. /\ tokens' \subseteq tokens /\ tokenTemps' \subseteq tokenTemps
      /\ config # None => tokens' = tokens
    BY DEF Pairing!Throw, Pairing!Linked
<1>3. Sheds
    <2>1. PairingFiles'
        BY <1>2, PairingTyped DEF PairingFiles, FlushesSome, DiskRecords
    <2>2. config # None => config \in tokens' \/ config \in retired'
        BY <1>2 DEF PairingInv, Accounted
    <2>3. config # None /\ OnlyOutages => config \in pairingDisk'.tokens \/ config \in retired'
        BY <1>2, <2>2, PairingTyped DEF FlushesSome
    <2>4. QED
        BY <1>2, <2>1, <2>2, <2>3 DEF Sheds, FlushesSome
<1>4. command'[p] = v
    BY <1>1, CommandMoves
<1>5. PairReady(p)'
    BY <1>1, <1>4 DEF PairReady, Pairing!Living, Sees, Undoing, Linking, Writing
<1>6. OnlyOutages => Waits(p, command[p])'
    BY <1>1, <1>4 DEF Waits
<1>7. QED
    BY <1>1, <1>3, <1>5, <1>6, Shed

-----------------------------------------------------------------------------
(* The steps of the pairing, one by one. *)

LEMMA RecoveredIs ==
    ASSUME PairingInv, NEW p \in Pairing!Parties, Pairing!Recovered(p), Sees(p, command[p]),
           journal = None
    PROVE  \E v \in Command_ :
               /\ command' = [command EXCEPT ![p] = v]
               /\ v.at = "gone" \/ (v.at = "cleaning" /\ Sees(p, v))
<1>1. CASE Pairing!End(p)
    BY <1>1, CommandEnds
<1>2. CASE ~(command[p].why \in {"catch", "save"} \/ (command[p].why = "pair" /\ config # None))
    <2> DEFINE v == [command[p] EXCEPT !.at = "cleaning", !.read = None]
    <2>1. v \in Command_ /\ v.at = "cleaning" /\ v.why = command[p].why
        BY CommandIs, ZenonT(60) DEF Command_
    <2>2. command' = [command EXCEPT ![p] = v]
        BY <1>2, CommandIs DEF Pairing!Recovered
    <2> HIDE DEF v
    <2>3. Sees(p, v)
        BY <1>2, <2>1 DEF Sees, Undoing, Linking, Writing
    <2>4. QED
        BY <2>1, <2>2, <2>3
<1>3. QED
    BY <1>1, <1>2 DEF Pairing!Recovered

LEMMA StepReadJournal ==
    ASSUME PairingInv, OneCommand, NEW p \in Pairing!Parties, Pairing!ReadJournal(p)
    PROVE  PairingInv'
<1> DEFINE c == command[p]
<1>1. c.at = "read" /\ UNCHANGED <<journal, tokens, tokenTemps, config, pairingDisk, retired,
                                   pairingKills, pairingOutages, pairingErrors>>
    BY DEF Pairing!ReadJournal, Pairing!At, Pairing!bounds
<1>2. Pairing!Living(p) /\ Sees(p, c)
    BY <1>1, CommandKnows
<1>3. CASE Pairing!End(p)
    BY <1>1, <1>2, <1>3, CommandEnded
<1>4. CASE journal = None /\ Pairing!Recovered(p)
    <2>1. PICK v \in Command_ :
              /\ command' = [command EXCEPT ![p] = v]
              /\ v.at = "gone" \/ (v.at = "cleaning" /\ Sees(p, v))
        BY <1>2, <1>4, RecoveredIs
    <2>2. QED
        BY <1>1, <1>2, <2>1, CommandAside
<1>5. CASE /\ journal # None
           /\ command' = [command EXCEPT ![p].at = "matching", ![p].read = journal]
    <2> DEFINE v == [c EXCEPT !.at = "matching", !.read = journal]
    <2>1. v \in Command_ /\ v.at = "matching" /\ v.read = journal /\ v.why = c.why
        BY CommandIs, PairingTyped, ZenonT(60) DEF Command_, PairingFiles
    <2>2. command' = [command EXCEPT ![p] = v]
        BY <1>5, CommandIs
    <2> HIDE DEF v
    <2>3. Sees(p, v)
        BY <1>1, <1>2, <1>5, <2>1 DEF Sees, Undoing, Linking, Writing
    <2>4. QED
        BY <1>1, <1>2, <2>1, <2>2, <2>3, CommandAside
<1>6. QED
    BY <1>3, <1>4, <1>5 DEF Pairing!ReadJournal

LEMMA StepMatch ==
    ASSUME PairingInv, OneCommand, NEW p \in Pairing!Parties, Pairing!Match(p)
    PROVE  PairingInv'
<1> DEFINE c == command[p]
<1>1. c.at = "matching" /\ UNCHANGED <<journal, tokens, tokenTemps, config, pairingDisk, retired,
                                       pairingKills, pairingOutages, pairingErrors>>
    BY DEF Pairing!Match, Pairing!At, Pairing!files, Pairing!bounds
<1>2. Pairing!Living(p) /\ Sees(p, c)
    BY <1>1, CommandKnows
<1>3. CASE Pairing!End(p)
    BY <1>1, <1>2, <1>3, CommandEnded
<1>4. CASE config = None /\ Pairing!Goto(p, "listing")
    <2>1. \A v \in Command_ : v.at = "listing" /\ v.why = c.why /\ v.read = c.read => Sees(p, v)
        BY <1>1, <1>2, <1>4 DEF Sees, Undoing, Linking, Writing
    <2>2. QED
        BY <1>1, <1>2, <1>4, <2>1, CommandOnward
<1>5. CASE /\ config # None /\ config = c.read.tx
           /\ command' = [command EXCEPT ![p].at = "clearing", ![p].committed = TRUE]
    <2> DEFINE v == [c EXCEPT !.at = "clearing", !.committed = TRUE]
    <2>1. v \in Command_ /\ v.at = "clearing" /\ v.read = c.read /\ v.why = c.why
        BY CommandIs, ZenonT(60) DEF Command_
    <2>2. command' = [command EXCEPT ![p] = v]
        BY <1>5, CommandIs
    <2> HIDE DEF v
    <2>3. Sees(p, v)
        BY <1>1, <1>2, <1>5, <2>1 DEF Sees, Undoing, Linking, Writing
    <2>4. QED
        BY <1>1, <1>2, <2>1, <2>2, <2>3, CommandAside
<1>6. QED
    BY <1>3, <1>4, <1>5 DEF Pairing!Match

LEMMA StepTempList ==
    ASSUME PairingInv, OneCommand, NEW p \in Pairing!Parties, Pairing!List(p)
    PROVE  PairingInv'
<1> DEFINE c == command[p]
<1>1. c.at = "listing" /\ UNCHANGED <<journal, tokens, tokenTemps, config, pairingDisk, retired,
                                      pairingKills, pairingOutages, pairingErrors>>
    BY DEF Pairing!List, Pairing!At, Pairing!files, Pairing!bounds
<1>2. Pairing!Living(p) /\ Sees(p, c)
    BY <1>1, CommandKnows
<1>3. CASE Pairing!End(p)
    BY <1>1, <1>2, <1>3, CommandEnded
<1>4. CASE command' = [command EXCEPT ![p].at = "sweeping", ![p].seen = tokenTemps]
    <2> DEFINE v == [c EXCEPT !.at = "sweeping", !.seen = tokenTemps]
    <2>1. v \in Command_ /\ v.at = "sweeping" /\ v.read = c.read /\ v.why = c.why
          /\ v.seen = tokenTemps
        BY CommandIs, PairingTyped, ZenonT(60) DEF Command_, PairingFiles
    <2>2. command' = [command EXCEPT ![p] = v]
        BY <1>4, CommandIs
    <2> HIDE DEF v
    <2>3. Sees(p, v)
        BY <1>1, <1>2, <2>1 DEF Sees, Undoing, Linking, Writing
    <2>4. QED
        BY <1>1, <1>2, <2>1, <2>2, <2>3, CommandAside
<1>5. QED
    BY <1>3, <1>4 DEF Pairing!List

LEMMA StepTempSweep ==
    ASSUME PairingInv, OneCommand, NEW p \in Pairing!Parties, Pairing!Sweep(p)
    PROVE  PairingInv'
<1> DEFINE c == command[p]
<1>1. /\ c.at = "sweeping" /\ tokenTemps' = tokenTemps \ c.seen
      /\ UNCHANGED <<journal, tokens, config, pairingDisk, retired,
                     pairingKills, pairingOutages, pairingErrors>>
    BY DEF Pairing!Sweep, Pairing!At, Pairing!bounds
<1>2. Pairing!Living(p) /\ Sees(p, c) /\ (OnlyOutages => Waits(p, c))
    BY <1>1, CommandKnows
<1>3. config = None /\ tokenTemps' = {} /\ c.why # "save" /\ c.read = journal /\ journal # None
    BY <1>1, <1>2 DEF Sees, Undoing
<1>4. PICK v \in Command_ :
          /\ command' = [command EXCEPT ![p] = v] /\ v.at = "dropping"
          /\ v.why = c.why /\ v.read = c.read
    BY CommandGoes DEF Pairing!Sweep
<1>5. command'[p] = v
    BY <1>2, <1>4, CommandMoves
<1>6. Sheds
    BY <1>1, <1>3, PairingTyped DEF Sheds, PairingFiles
<1>7. PairReady(p)'
    BY <1>1, <1>2, <1>3, <1>4, <1>5 DEF PairReady, Sees, Undoing, Linking, Writing
<1>8. OnlyOutages => Waits(p, command[p])'
    BY <1>1, <1>2, <1>3, <1>4, <1>5 DEF Waits
<1>9. QED
    BY <1>2, <1>4, <1>6, <1>7, <1>8, Shed

LEMMA StepDrop ==
    ASSUME PairingConstants, PairingInv, OneCommand, NEW p \in Pairing!Parties, Pairing!Drop(p)
    PROVE  PairingInv'
<1> DEFINE c == command[p]
<1>1. /\ c.at = "dropping" /\ Pairing!FlushTokens
      /\ tokens' = IF c.read.cred THEN tokens \ {c.read.tx} ELSE tokens
      /\ UNCHANGED <<journal, tokenTemps, config, retired,
                     pairingKills, pairingOutages, pairingErrors>>
    BY DEF Pairing!Drop, Pairing!At, Pairing!bounds
<1>2. Pairing!Living(p) /\ Sees(p, c) /\ (OnlyOutages => Waits(p, c))
    BY <1>1, CommandKnows
<1>3. config = None /\ tokenTemps = {} /\ c.why # "save" /\ c.read = journal /\ journal # None
    BY <1>1, <1>2 DEF Sees, Undoing
<1>4. tokens' = {}
    <2>1. ASSUME NEW t \in tokens PROVE journal.tx = t /\ journal.cred
        <3>1. t # None
            BY PairingTyped DEF PairingFiles, PairingConstants
        <3>2. QED
            BY <1>3, <3>1 DEF PairingInv, Accounted, Explains
    <2>2. QED
        BY <1>1, <1>3, <2>1
<1>5. PICK v \in Command_ :
          /\ command' = [command EXCEPT ![p] = v] /\ v.at = "clearing"
          /\ v.why = c.why /\ v.read = c.read
    BY CommandGoes DEF Pairing!Drop
<1>6. command'[p] = v
    BY <1>2, <1>5, CommandMoves
<1>7. FlushesSome /\ pairingDisk'.journal = pairingDisk.journal
    BY <1>1, AFlush, TokensFlushed
<1>8. Sheds
    BY <1>1, <1>3, <1>4, <1>7, PairingTyped DEF Sheds, PairingFiles, FlushesSome, DiskRecords
<1>9. PairReady(p)'
    BY <1>1, <1>2, <1>3, <1>4, <1>5, <1>6 DEF PairReady, Sees, Undoing, Linking, Writing
<1>10. OnlyOutages => Waits(p, command[p])'
    BY <1>1, <1>2, <1>3, <1>5, <1>6, <1>7 DEF Waits
<1>11. QED
    BY <1>2, <1>5, <1>8, <1>9, <1>10, Shed

LEMMA StepClear ==
    ASSUME PairingConstants, PairingInv, OneCommand, NEW p \in Pairing!Parties, Pairing!Clear(p)
    PROVE  PairingInv'
<1> DEFINE c == command[p]
<1>1. /\ c.at = "clearing"
      /\ IF c.why = "save" THEN Pairing!FlushConfig ELSE Pairing!FlushTokens
      /\ UNCHANGED <<journal, config, retired, pairingKills, pairingOutages, pairingErrors>>
    BY DEF Pairing!Clear, Pairing!At, Pairing!bounds
<1>2. Pairing!Living(p) /\ Sees(p, c) /\ (OnlyOutages => Waits(p, c))
    BY <1>1, CommandKnows
<1>3. /\ journal # None /\ c.read = journal
      /\ c.why = "save" => tokenTemps = {}
      /\ \/ config = c.read.tx
         \/ config = None /\ tokens = {} /\ tokenTemps = {} /\ c.why # "save"
    BY <1>1, <1>2 DEF Sees
<1>4. config = None => tokens = {} /\ tokenTemps = {} /\ c.why # "save"
    BY <1>3, PairingTyped DEF PairingFiles, PairingConstants, Pairing!Journal
<1>5. FlushesSome
    BY <1>1, AFlush
<1>6. /\ OnlyOutages => pairingDisk'.journal = journal
      /\ OnlyOutages /\ config # None => pairingDisk'.config = config
      /\ config = None => pairingDisk'.tokens = {} /\ pairingDisk'.temps = {}
    <2>1. CASE c.why = "save"
        BY <1>1, <1>2, <1>4, <2>1, ConfigFlushed DEF Waits
    <2>2. CASE c.why # "save"
        BY <1>1, <1>2, <1>4, <2>2, TokensFlushed DEF Waits
    <2>3. QED
        BY <2>1, <2>2
<1>7. CASE Pairing!Throw(p)
    BY <1>1, <1>2, <1>3, <1>5, <1>6, <1>7, CommandThrows, PairingTyped DEF PairingFiles
<1>8. CASE Pairing!Goto(p, "unjournaling") /\ UNCHANGED <<tokens, tokenTemps>>
    <2>1. PICK v \in Command_ :
              /\ command' = [command EXCEPT ![p] = v] /\ v.at = "unjournaling"
              /\ v.why = c.why /\ v.read = c.read
        BY <1>8, CommandGoes
    <2>2. command'[p] = v
        BY <1>2, <2>1, CommandMoves
    <2>3. Sheds
        BY <1>1, <1>8, FlushSheds
    <2>4. PairReady(p)'
        BY <1>1, <1>2, <1>3, <1>8, <2>1, <2>2 DEF PairReady, Sees, Undoing, Linking, Writing
    <2>5. OnlyOutages => Waits(p, command[p])'
        BY <1>1, <1>6, <2>1, <2>2 DEF Waits
    <2>6. QED
        BY <1>2, <2>1, <2>3, <2>4, <2>5, Shed
<1>9. QED
    BY <1>1, <1>3, <1>7, <1>8 DEF Pairing!Clear

\* The journal goes when the configuration is there to lead to the credential,
\* or when nothing is left that it would explain.
LEMMA StepUnjournal ==
    ASSUME PairingConstants, PairingInv, OneCommand, NEW p \in Pairing!Parties,
           Pairing!Unjournal(p)
    PROVE  PairingInv'
<1> DEFINE c == command[p]
<1>1. /\ c.at = "unjournaling" /\ journal' = None
      /\ UNCHANGED <<config, pairingDisk, retired, pairingKills, pairingOutages, pairingErrors>>
    BY DEF Pairing!Unjournal, Pairing!At, Pairing!bounds
<1>2. Pairing!Living(p) /\ Sees(p, c) /\ (OnlyOutages => Names /\ Waits(p, c))
    BY <1>1, CommandKnows
<1>3. /\ journal # None /\ c.read = journal
      /\ \/ config = c.read.tx
         \/ config = None /\ tokens = {} /\ tokenTemps = {} /\ c.why # "save"
    BY <1>1, <1>2 DEF Sees
<1>4. UNCHANGED <<tokens, tokenTemps>> /\ Pairing!Goto(p, "unjournaled")
    BY <1>3 DEF Pairing!Unjournal
<1>5. PICK v \in Command_ :
          /\ command' = [command EXCEPT ![p] = v] /\ v.at = "unjournaled"
          /\ v.why = c.why /\ v.read = c.read
    BY <1>4, CommandGoes
<1>6. command'[p] = v
    BY <1>2, <1>5, CommandMoves
<1>7. journal.tx \in Pairings /\ journal.tx # None
    BY <1>3, PairingTyped DEF PairingFiles, Pairing!Journal, PairingConstants
<1>8. PairingFiles'
    BY <1>1, <1>4, PairingTyped DEF PairingFiles
<1>9. PairReady(p)'
    BY <1>1, <1>2, <1>5, <1>6 DEF PairReady, Sees, Undoing, Linking, Writing
<1>10. Accounted'
    <2>1. \A t \in tokens \cup tokenTemps : config = t
        BY <1>3, <1>7 DEF PairingInv, Accounted, Explains
    <2>2. QED
        BY <1>1, <1>4, <2>1 DEF PairingInv, Accounted, Explains
<1>11. ASSUME OnlyOutages PROVE Names'
    <2>1. \/ config = journal.tx /\ pairingDisk.config = config
          \/ config = None /\ Everywhere = {}
        BY <1>1, <1>2, <1>3, <1>7, <1>11 DEF Waits, Everywhere, Linked_
    <2>2. \A t \in Everywhere : config = t /\ pairingDisk.config = t
        BY <1>2, <1>7, <1>11, <2>1 DEF Names, Explains
    <2>3. Everywhere' = Everywhere
        BY <1>1, <1>4 DEF Everywhere, Linked_
    <2>4. QED
        BY <1>1, <1>2, <1>4, <1>11, <2>2, <2>3 DEF Names, Explains
<1>12. OnlyOutages => Waits(p, command[p])'
    BY <1>1, <1>2, <1>5, <1>6 DEF Waits
<1>13. QED
    BY <1>2, <1>5, <1>8, <1>9, <1>10, <1>11, <1>12, CommandAdvances

LEMMA StepSyncUnjournaled ==
    ASSUME PairingInv, OneCommand, NEW p \in Pairing!Parties, Pairing!SyncUnjournaled(p)
    PROVE  PairingInv'
<1> DEFINE c == command[p]
<1>1. /\ c.at = "unjournaled" /\ Pairing!FlushState /\ Pairing!Recovered(p)
      /\ UNCHANGED <<journal, tokens, tokenTemps, config, retired,
                     pairingKills, pairingOutages, pairingErrors>>
    BY DEF Pairing!SyncUnjournaled, Pairing!At, Pairing!bounds
<1>2. Pairing!Living(p) /\ Sees(p, c) /\ (OnlyOutages => Waits(p, c))
    BY <1>1, CommandKnows
<1>3. journal = None
    BY <1>1, <1>2 DEF Sees
<1>4. PICK v \in Command_ :
          /\ command' = [command EXCEPT ![p] = v]
          /\ v.at = "gone" \/ (v.at = "cleaning" /\ Sees(p, v))
    BY <1>1, <1>2, <1>3, RecoveredIs
<1>5. command'[p] = v
    BY <1>2, <1>4, CommandMoves
<1>6. Sheds
    BY <1>1, FlushSheds
<1>7. PairReady(p)'
    BY <1>1, <1>4, <1>5 DEF PairReady, Pairing!Living, Sees
<1>8. OnlyOutages => Waits(p, command[p])'
    BY <1>1, <1>2, <1>4, <1>5, StateFlushed DEF Waits
<1>9. QED
    BY <1>2, <1>4, <1>6, <1>7, <1>8, Shed

LEMMA StepClean ==
    ASSUME PairingConstants, PairingInv, OneCommand, NEW p \in Pairing!Parties, Pairing!Clean(p)
    PROVE  PairingInv'
<1> DEFINE c == command[p]
<1>1. /\ c.at = "cleaning"
      /\ UNCHANGED <<journal, tokens, config, pairingDisk, retired,
                     pairingKills, pairingOutages, pairingErrors>>
    BY DEF Pairing!Clean, Pairing!At, Pairing!bounds
<1>2. Pairing!Living(p) /\ Sees(p, c) /\ (OnlyOutages => Waits(p, c))
    BY <1>1, CommandKnows
<1>3. CASE Pairing!End(p) /\ UNCHANGED tokenTemps
    BY <1>1, <1>2, <1>3, CommandEnded
<1>4. CASE ~Pairing!Blocked
    <2>1. tokenTemps' = {}
        BY <1>4 DEF Pairing!Clean
    <2>2. PICK v \in Command_ :
              /\ command' = [command EXCEPT ![p] = v]
              /\ \/ v.at = "gone"
                 \/ p \in Pairings /\ v.at = "requesting" /\ v.why = "save"
                 \/ p \notin Pairings /\ v.at = "deleting" /\ v.state # None
        <3>1. CASE p \in Pairings
            <4> DEFINE v == [c EXCEPT !.at = "requesting", !.why = "save"]
            <4>1. v \in Command_ /\ v.at = "requesting" /\ v.why = "save"
                BY CommandIs, ZenonT(60) DEF Command_
            <4>2. p \notin Unpairers /\ p \notin Doctors
                BY <3>1 DEF PairingConstants
            <4>3. command' = [command EXCEPT ![p].at = "requesting", ![p].why = "save"]
                BY <1>4, <3>1, <4>2 DEF Pairing!Clean
            <4>4. command' = [command EXCEPT ![p] = v]
                BY <4>3, CommandIs
            <4> HIDE DEF v
            <4>5. QED
                BY <3>1, <4>1, <4>4
        <3>2. CASE p \in Unpairers /\ c.state # None
            <4>1. p \notin Pairings
                BY <3>2 DEF PairingConstants
            <4>2. Pairing!Goto(p, "deleting")
                BY <1>4, <3>2, <4>1 DEF Pairing!Clean
            <4>3. QED
                BY <3>2, <4>1, <4>2, CommandGoes
        <3>3. CASE p \notin Pairings /\ ~(p \in Unpairers /\ c.state # None)
            <4>1. Pairing!End(p)
                BY <1>4, <3>3 DEF Pairing!Clean
            <4>2. QED
                BY <4>1, CommandEnds
        <3>4. QED
            BY <3>1, <3>2, <3>3
    <2>3. command'[p] = v
        BY <1>2, <2>2, CommandMoves
    <2>4. Sheds
        BY <1>1, <2>1, PairingTyped DEF Sheds, PairingFiles, PairingInv, Accounted
    <2>5. PairReady(p)'
        BY <1>1, <1>2, <2>2, <2>3 DEF PairReady, Pairing!Living, Sees, Undoing, Linking, Writing
    <2>6. OnlyOutages => Waits(p, command[p])'
        BY <1>1, <1>2, <2>2, <2>3 DEF Waits
    <2>7. QED
        BY <1>2, <2>2, <2>4, <2>5, <2>6, Shed
<1>5. QED
    BY <1>3, <1>4 DEF Pairing!Clean

LEMMA StepRequest ==
    ASSUME PairingInv, OneCommand, NEW p \in Pairing!Parties, Pairing!Request(p)
    PROVE  PairingInv'
<1> DEFINE c == command[p]
<1>1. c.at = "requesting" /\ UNCHANGED <<journal, tokens, tokenTemps, config, pairingDisk, retired,
                                         pairingKills, pairingOutages, pairingErrors>>
    BY DEF Pairing!Request, Pairing!At, Pairing!files, Pairing!bounds
<1>2. Pairing!Living(p) /\ Sees(p, c)
    BY <1>1, CommandKnows
<1>3. CASE Pairing!End(p)
    BY <1>1, <1>2, <1>3, CommandEnded
<1>4. CASE Pairing!Goto(p, "announcing")
    <2>1. \A v \in Command_ : v.at = "announcing" /\ v.why = c.why => Sees(p, v)
        BY <1>1, <1>2 DEF Sees, Undoing, Linking, Writing
    <2>2. QED
        BY <1>1, <1>2, <1>4, <2>1, CommandOnward
<1>5. QED
    BY <1>3, <1>4 DEF Pairing!Request

LEMMA StepDraft ==
    ASSUME PairingInv, OneCommand, NEW p \in Pairing!Parties, Pairing!Draft(p)
    PROVE  PairingInv'
<1> DEFINE c == command[p]
<1>1. /\ c.at \in {"announcing", "recording"}
      /\ UNCHANGED <<journal, config, pairingDisk, retired,
                     pairingKills, pairingOutages, pairingErrors>>
    BY DEF Pairing!Draft, Pairing!bounds
<1>2. Pairing!Living(p) /\ Sees(p, c) /\ (OnlyOutages => Waits(p, c))
    BY <1>1, CommandKnows
<1>3. config = None
    BY <1>1, <1>2 DEF Sees, Writing
<1>4. CASE Pairing!Throw(p)
    <2>1. FlushesSome
        BY <1>1, AFlush
    <2>2. OnlyOutages => pairingDisk'.journal = journal
        BY <1>1, <1>2 DEF Waits
    <2>3. QED
        BY <1>1, <1>2, <1>3, <1>4, <2>1, <2>2, CommandThrows, PairingTyped DEF PairingFiles
<1>5. CASE UNCHANGED <<tokens, tokenTemps>> /\ c.at = "announcing" /\ Pairing!Goto(p, "renaming")
    <2>1. \A v \in Command_ : v.at = "renaming" /\ v.why = c.why => Sees(p, v)
        BY <1>2, <1>5 DEF Sees, Undoing, Linking, Writing
    <2>2. QED
        BY <1>1, <1>2, <1>5, <2>1, CommandOnward
<1>6. CASE /\ UNCHANGED <<tokens, tokenTemps>> /\ c.at = "recording"
           /\ Pairing!Goto(p, "renamingAgain")
    <2>1. \A v \in Command_ : v.at = "renamingAgain" /\ v.why = c.why => Sees(p, v)
        BY <1>2, <1>6 DEF Sees, Undoing, Linking, Writing
    <2>2. QED
        BY <1>1, <1>2, <1>6, <2>1, CommandOnward
<1>7. QED
    BY <1>1, <1>4, <1>5, <1>6 DEF Pairing!Draft, Pairing!At

LEMMA JournalIs ==
    ASSUME PairingConstants, NEW p \in Pairings
    PROVE  /\ [tx |-> p, cred |-> TRUE] \in Pairing!Journal
           /\ [tx |-> p, cred |-> FALSE] \in Pairing!Journal
           /\ [tx |-> p, cred |-> TRUE] # None /\ [tx |-> p, cred |-> FALSE] # None
           /\ [tx |-> p, cred |-> TRUE].tx = p /\ [tx |-> p, cred |-> FALSE].tx = p
           /\ [tx |-> p, cred |-> TRUE].cred = TRUE
           /\ p # None
<1>1. /\ [tx |-> p, cred |-> TRUE] \in Pairing!Journal
      /\ [tx |-> p, cred |-> FALSE] \in Pairing!Journal
    BY DEF Pairing!Journal
<1>2. QED
    BY <1>1 DEF PairingConstants

\* The journal is written over nothing, or over itself.
LEMMA StepRename ==
    ASSUME PairingConstants, PairingInv, OneCommand, NEW p \in Pairing!Parties, Pairing!Rename(p)
    PROVE  PairingInv'
<1> DEFINE c == command[p]
           again == c.at = "renamingAgain"
<1>1. /\ c.at \in {"renaming", "renamingAgain"}
      /\ journal' = [tx |-> p, cred |-> again]
      /\ UNCHANGED <<tokens, tokenTemps, config, pairingDisk, retired,
                     pairingKills, pairingOutages, pairingErrors>>
    BY DEF Pairing!Rename, Pairing!At, Pairing!bounds
<1>2. Pairing!Living(p) /\ Sees(p, c) /\ (OnlyOutages => Names /\ Waits(p, c))
    BY <1>1, CommandKnows
<1>3. p \in Pairings /\ config = None /\ c.why = "save"
    BY <1>1, <1>2 DEF Sees, Writing
<1>4. journal' \in Pairing!Journal /\ journal' # None /\ journal'.tx = p
      /\ (again => journal'.cred) /\ p # None
    <2>1. CASE again
        <3>1. again = TRUE
            BY <2>1
        <3>2. journal' = [tx |-> p, cred |-> TRUE]
            BY <1>1, <3>1, Zenon
        <3>3. QED
            BY <1>3, <3>2, JournalIs
    <2>2. CASE ~again
        <3>1. again = FALSE
            BY <2>2
        <3>2. journal' = [tx |-> p, cred |-> FALSE]
            BY <1>1, <3>1, Zenon
        <3>3. QED
            BY <1>3, <2>2, <3>2, JournalIs
    <2>3. QED
        BY <2>1, <2>2
<1>5. PICK v \in Command_ :
          /\ command' = [command EXCEPT ![p] = v] /\ v.read = journal' /\ v.why = "save"
          /\ \/ c.at = "renaming" /\ v.at = "preparing"
             \/ c.at = "renamingAgain" /\ v.at = "linking"
    <2> DEFINE x == IF again THEN "linking" ELSE "preparing"
               v == [c EXCEPT !.at = x, !.read = journal']
    <2>1. x \in {"linking", "preparing"}
        OBVIOUS
    <2> HIDE DEF x
    <2>3. v \in Command_ /\ v.at = x /\ v.read = journal' /\ v.why = c.why
        <3>1. PICK j \in Pairing!Journal : j = journal'
            BY <1>4
        <3>2. PICK y \in {"linking", "preparing"} : y = x
            BY <2>1
        <3> DEFINE w == [command[p] EXCEPT !.at = y, !.read = j]
        <3>3. w \in Command_ /\ w.at = y /\ w.read = j /\ w.why = c.why
            BY <3>1, CommandIs, ZenonT(60) DEF Command_
        <3>4. w = v
            BY <3>1, <3>2
        <3> HIDE DEF w, v
        <3>5. QED
            BY <3>1, <3>2, <3>3, <3>4
    <2>4. command' = [command EXCEPT ![p] = v]
        BY <1>1, CommandIs DEF Pairing!Rename, Pairing!At, x
    <2> HIDE DEF v
    <2> USE DEF x
    <2>5. QED
        BY <1>1, <1>3, <2>3, <2>4
<1>6. command'[p] = v
    BY <1>2, <1>5, CommandMoves
<1>7. PairingFiles'
    BY <1>1, <1>4, PairingTyped DEF PairingFiles
<1>8. \/ c.at = "renaming" /\ journal = None
      \/ c.at = "renamingAgain" /\ journal = [tx |-> p, cred |-> FALSE]
    BY <1>1, <1>2 DEF Sees
<1>9. ASSUME NEW t \in tokens \cup tokenTemps PROVE c.at = "renamingAgain" /\ t = p
    <2>1. t # None
        BY PairingTyped DEF PairingFiles, PairingConstants
    <2>2. QED
        BY <1>3, <1>8, <2>1 DEF PairingInv, Accounted, Explains
<1>10. PairReady(p)'
    BY <1>1, <1>3, <1>4, <1>5, <1>6 DEF PairReady, Sees, Undoing, Linking, Writing
<1>11. Accounted'
    BY <1>1, <1>3, <1>4, <1>9 DEF PairingInv, Accounted, Explains
<1>12. ASSUME OnlyOutages PROVE Names'
    <2>1. pairingDisk.journal = journal
        BY <1>1, <1>2, <1>12 DEF Waits
    <2>2. ASSUME NEW t \in Everywhere
          PROVE  c.at = "renamingAgain" /\ t = p /\ t \notin Linked_
        <3>1. t # None
            BY PairingTyped DEF PairingConstants, Everywhere, Linked_, PairingFiles
        <3>2. Explains(config, journal, t, Linked_)
            BY <1>2, <1>12 DEF Names
        <3>3. QED
            BY <1>3, <1>8, <3>1, <3>2 DEF Explains
    <2>3. Everywhere' = Everywhere /\ Linked_' = Linked_
        BY <1>1 DEF Everywhere, Linked_
    <2>4. ASSUME NEW t \in Everywhere', NEW g \in {config', pairingDisk'.config},
                 NEW j \in {journal', pairingDisk'.journal}
          PROVE  Explains(g, j, t, Linked_')
        <3>1. c.at = "renamingAgain" /\ t = p /\ t \notin Linked_
            BY <2>2, <2>3
        <3>2. journal # None /\ journal.tx = p
            BY <1>3, <1>8, <3>1, JournalIs
        <3>3. j # None /\ j.tx = p /\ g \in {config, pairingDisk.config}
            BY <1>1, <1>4, <2>1, <3>2
        <3>4. QED
            BY <2>3, <3>1, <3>3 DEF Explains
    <2>5. QED
        BY <1>1, <1>2, <1>12, <2>4 DEF Names
<1>13. OnlyOutages => Waits(p, command[p])'
    BY <1>1, <1>2, <1>3, <1>5, <1>6, <1>8 DEF Waits
<1>14. QED
    BY <1>2, <1>5, <1>7, <1>10, <1>11, <1>12, <1>13, CommandAdvances

LEMMA StepPrepare ==
    ASSUME PairingConstants, PairingInv, OneCommand, NEW p \in Pairing!Parties, Pairing!Prepare(p)
    PROVE  PairingInv'
<1> DEFINE c == command[p]
<1>1. /\ c.at = "preparing" /\ Pairing!FlushState
      /\ UNCHANGED <<journal, config, retired, pairingKills, pairingOutages, pairingErrors>>
    BY DEF Pairing!Prepare, Pairing!At, Pairing!bounds
<1>2. Pairing!Living(p) /\ Sees(p, c) /\ (OnlyOutages => Names)
    BY <1>1, CommandKnows
<1>3. p \in Pairings /\ config = None /\ c.why = "save" /\ journal = [tx |-> p, cred |-> FALSE]
    BY <1>1, <1>2 DEF Sees, Writing
<1>4. journal # None /\ journal.tx = p /\ ~journal.cred
    BY <1>3, JournalIs
<1>5. FlushesSome /\ pairingDisk'.journal = journal
    BY <1>1, AFlush, StateFlushed
<1>6. CASE Pairing!Throw(p)
    BY <1>1, <1>2, <1>3, <1>5, <1>6, CommandThrows, PairingTyped DEF PairingFiles
<1>7. CASE tokenTemps' = {p} /\ Pairing!Goto(p, "recording") /\ UNCHANGED tokens
    <2>1. PICK v \in Command_ :
              command' = [command EXCEPT ![p] = v] /\ v.at = "recording" /\ v.why = c.why
        BY <1>7, CommandGoes
    <2>2. command'[p] = v
        BY <1>2, <2>1, CommandMoves
    <2>3. PairingFiles'
        BY <1>1, <1>3, <1>5, <1>7, PairingTyped DEF PairingFiles, FlushesSome, DiskRecords
    <2>4. PairReady(p)'
        BY <1>1, <1>2, <1>3, <2>1, <2>2 DEF PairReady, Sees, Undoing, Linking, Writing
    <2>5. tokens = {}
        <3>1. ASSUME NEW t \in tokens PROVE FALSE
            <4>1. t # None
                BY PairingTyped DEF PairingFiles, PairingConstants
            <4>2. QED
                BY <1>3, <1>4, <4>1 DEF PairingInv, Accounted, Explains
        <3>2. QED
            BY <3>1
    <2>6. Accounted'
        BY <1>1, <1>3, <1>4, <1>7, <2>5 DEF Accounted, Explains
    <2>7. ASSUME OnlyOutages PROVE Names'
        <3>1. ASSUME NEW t \in Everywhere PROVE t = p /\ t \notin Linked_
            <4>1. t # None
                BY PairingTyped DEF PairingConstants, Everywhere, Linked_, PairingFiles
            <4>2. Explains(config, journal, t, Linked_)
                BY <1>2, <2>7 DEF Names
            <4>3. QED
                BY <1>3, <1>4, <4>1, <4>2 DEF Explains
        <3>2. Linked_ = {}
            BY <3>1 DEF Everywhere
        <3>3. Linked_' = {}
            BY <1>5, <1>7, <3>2 DEF FlushesSome, Linked_
        <3>4. Everywhere' \subseteq {p}
            BY <1>5, <1>7, <3>1, <3>3 DEF FlushesSome, Everywhere
        <3>5. ASSUME NEW t \in Everywhere', NEW g \in {config', pairingDisk'.config},
                     NEW j \in {journal', pairingDisk'.journal}
              PROVE  Explains(g, j, t, Linked_')
            <4>1. j = journal /\ t = p
                BY <1>1, <1>5, <3>4
            <4>2. QED
                BY <1>4, <3>3, <4>1 DEF Explains
        <3>6. pairingDisk'.config \notin {None, config'} => pairingDisk'.config \in retired'
            BY <1>1, <1>2, <1>5, <2>7 DEF Names, FlushesSome
        <3>7. QED
            BY <1>1, <1>3, <3>5, <3>6 DEF Names
    <2>8. OnlyOutages => Waits(p, command[p])'
        BY <1>1, <1>3, <1>5, <2>1, <2>2 DEF Waits
    <2>9. QED
        BY <1>2, <2>1, <2>3, <2>4, <2>6, <2>7, <2>8, CommandAdvances
<1>8. QED
    BY <1>6, <1>7 DEF Pairing!Prepare

\* While a pairing links its credential, every credential there is is its own.
LEMMA OnlyItsOwn ==
    ASSUME PairingConstants, PairingInv, NEW p \in Pairing!Parties,
           Sees(p, command[p]), command[p].at \in Linking
    PROVE  /\ p \in Pairings /\ config = None /\ command[p].why = "save"
           /\ journal # None /\ journal.tx = p /\ journal.cred /\ command[p].read = journal
           /\ \A t \in tokens \cup tokenTemps : t = p
           /\ OnlyOutages /\ Names => \A t \in Everywhere : t = p
<1>1. /\ p \in Pairings /\ config = None /\ command[p].why = "save"
      /\ journal = [tx |-> p, cred |-> TRUE] /\ command[p].read = journal
    BY DEF Sees, Writing
<1>2. journal # None /\ journal.tx = p /\ journal.cred
    BY <1>1, JournalIs
<1>3. None \notin tokens \cup tokenTemps \cup Everywhere
    BY PairingTyped DEF PairingConstants, Everywhere, Linked_, PairingFiles
<1>4. \A t \in tokens \cup tokenTemps : t = p
    BY <1>1, <1>2, <1>3 DEF PairingInv, Accounted, Explains
<1>5. OnlyOutages /\ Names => \A t \in Everywhere : t = p
    BY <1>1, <1>2, <1>3 DEF Names, Explains
<1>6. QED
    BY <1>1, <1>2, <1>4, <1>5

LEMMA StepLinkToken ==
    ASSUME PairingConstants, PairingInv, OneCommand, NEW p \in Pairing!Parties, Pairing!Link(p)
    PROVE  PairingInv'
<1> DEFINE c == command[p]
<1>1. /\ c.at = "linking" /\ Pairing!FlushState /\ tokens' = tokens \cup {p}
      /\ UNCHANGED <<journal, tokenTemps, config, retired,
                     pairingKills, pairingOutages, pairingErrors>>
    BY DEF Pairing!Link, Pairing!At, Pairing!bounds
<1>2. Pairing!Living(p) /\ Sees(p, c) /\ (OnlyOutages => Names)
    BY <1>1, CommandKnows
<1>3. /\ p \in Pairings /\ config = None /\ c.why = "save"
      /\ journal # None /\ journal.tx = p /\ journal.cred /\ c.read = journal
      /\ \A t \in tokens \cup tokenTemps : t = p
      /\ OnlyOutages => \A t \in Everywhere : t = p
    BY <1>1, <1>2, OnlyItsOwn DEF Linking
<1>4. PICK v \in Command_ :
          /\ command' = [command EXCEPT ![p] = v] /\ v.at = "tidying"
          /\ v.why = c.why /\ v.read = c.read
    BY CommandGoes DEF Pairing!Link
<1>5. command'[p] = v
    BY <1>2, <1>4, CommandMoves
<1>6. FlushesSome /\ pairingDisk'.journal = journal
    BY <1>1, AFlush, StateFlushed
<1>7. PairingFiles'
    BY <1>1, <1>3, <1>6, PairingTyped DEF PairingFiles, FlushesSome, DiskRecords
<1>8. PairReady(p)'
    BY <1>1, <1>2, <1>3, <1>4, <1>5 DEF PairReady, Sees, Undoing, Linking, Writing
<1>9. Accounted'
    BY <1>1, <1>3 DEF Accounted, Explains
<1>10. ASSUME OnlyOutages PROVE Names'
    <2>1. \A t \in Everywhere' : t = p
        BY <1>1, <1>3, <1>6, <1>10 DEF FlushesSome, Everywhere, Linked_
    <2>2. ASSUME NEW t \in Everywhere', NEW g \in {config', pairingDisk'.config},
                 NEW j \in {journal', pairingDisk'.journal}
          PROVE  Explains(g, j, t, Linked_')
        BY <1>1, <1>3, <1>6, <2>1 DEF Explains
    <2>3. pairingDisk'.config \notin {None, config'} => pairingDisk'.config \in retired'
        BY <1>1, <1>2, <1>6, <1>10 DEF Names, FlushesSome
    <2>4. QED
        BY <1>1, <1>3, <2>2, <2>3 DEF Names
<1>11. OnlyOutages => Waits(p, command[p])'
    BY <1>1, <1>3, <1>4, <1>5, <1>6 DEF Waits
<1>12. QED
    BY <1>2, <1>4, <1>7, <1>8, <1>9, <1>10, <1>11, CommandAdvances

LEMMA StepTidyToken ==
    ASSUME PairingConstants, PairingInv, OneCommand, NEW p \in Pairing!Parties, Pairing!Tidy(p)
    PROVE  PairingInv'
<1> DEFINE c == command[p]
<1>1. /\ c.at = "tidying" /\ Pairing!FlushTokens /\ tokenTemps' = tokenTemps \ {p}
      /\ UNCHANGED <<journal, tokens, config, retired,
                     pairingKills, pairingOutages, pairingErrors>>
    BY DEF Pairing!Tidy, Pairing!At, Pairing!bounds
<1>2. Pairing!Living(p) /\ Sees(p, c) /\ (OnlyOutages => Waits(p, c))
    BY <1>1, CommandKnows
<1>3. /\ p \in Pairings /\ config = None /\ c.why = "save"
      /\ journal # None /\ journal.tx = p /\ journal.cred /\ c.read = journal
      /\ \A t \in tokens \cup tokenTemps : t = p
    BY <1>1, <1>2, OnlyItsOwn DEF Linking
<1>4. PICK v \in Command_ :
          /\ command' = [command EXCEPT ![p] = v] /\ v.at = "configuring"
          /\ v.why = c.why /\ v.read = c.read
    BY CommandGoes DEF Pairing!Tidy
<1>5. command'[p] = v
    BY <1>2, <1>4, CommandMoves
<1>6. FlushesSome /\ pairingDisk'.journal = pairingDisk.journal
    BY <1>1, AFlush, TokensFlushed
<1>7. Sheds
    BY <1>1, <1>3, <1>6, PairingTyped DEF Sheds, PairingFiles, FlushesSome, DiskRecords
<1>8. tokenTemps' = {}
    BY <1>1, <1>3
<1>9. PairReady(p)'
    BY <1>1, <1>2, <1>3, <1>4, <1>5, <1>8 DEF PairReady, Sees, Undoing, Linking, Writing
<1>10. OnlyOutages => Waits(p, command[p])'
    BY <1>1, <1>2, <1>3, <1>4, <1>5, <1>6 DEF Waits
<1>11. QED
    BY <1>2, <1>4, <1>7, <1>9, <1>10, Shed

LEMMA StepConfigure ==
    ASSUME PairingConstants, PairingInv, OneCommand, NEW p \in Pairing!Parties,
           Pairing!Configure(p)
    PROVE  PairingInv'
<1> DEFINE c == command[p]
<1>1. /\ c.at = "configuring" /\ Pairing!FlushTokens /\ config' = p
      /\ UNCHANGED <<journal, tokens, tokenTemps, retired,
                     pairingKills, pairingOutages, pairingErrors>>
    BY DEF Pairing!Configure, Pairing!At, Pairing!bounds
<1>2. Pairing!Living(p) /\ Sees(p, c) /\ (OnlyOutages => Names /\ Waits(p, c))
    BY <1>1, CommandKnows
<1>3. /\ p \in Pairings /\ config = None /\ c.why = "save"
      /\ journal # None /\ journal.tx = p /\ journal.cred /\ c.read = journal
      /\ \A t \in tokens \cup tokenTemps : t = p
      /\ OnlyOutages => \A t \in Everywhere : t = p
    BY <1>1, <1>2, OnlyItsOwn DEF Linking
<1>4. p \in tokens /\ tokenTemps = {} /\ p # None
    BY <1>1, <1>2, <1>3, JournalIs DEF Sees
<1>5. PICK v \in Command_ :
          /\ command' = [command EXCEPT ![p] = v] /\ v.at = "clearing"
          /\ v.why = c.why /\ v.read = c.read
    BY CommandGoes DEF Pairing!Configure
<1>6. command'[p] = v
    BY <1>2, <1>5, CommandMoves
<1>7. FlushesSome /\ pairingDisk'.journal = pairingDisk.journal
      /\ pairingDisk'.config = pairingDisk.config /\ pairingDisk'.tokens = tokens
    BY <1>1, AFlush, TokensFlushed
<1>8. PairingFiles'
    BY <1>1, <1>3, <1>7, PairingTyped DEF PairingFiles, FlushesSome, DiskRecords
<1>9. PairReady(p)'
    BY <1>1, <1>2, <1>3, <1>4, <1>5, <1>6 DEF PairReady, Sees, Undoing, Linking, Writing
<1>10. Accounted'
    BY <1>1, <1>3, <1>4 DEF Accounted, Explains
<1>11. ASSUME OnlyOutages PROVE Names'
    <2>1. \A t \in Everywhere' : t = p
        BY <1>1, <1>3, <1>7, <1>11 DEF FlushesSome, Everywhere, Linked_
    <2>2. pairingDisk.journal = journal
        BY <1>1, <1>2, <1>11 DEF Waits
    <2>3. ASSUME NEW t \in Everywhere', NEW g \in {config', pairingDisk'.config},
                 NEW j \in {journal', pairingDisk'.journal}
          PROVE  Explains(g, j, t, Linked_')
        BY <1>1, <1>3, <1>7, <2>1, <2>2 DEF Explains
    <2>4. pairingDisk'.config \notin {None, config'} => pairingDisk'.config \in retired'
        BY <1>1, <1>2, <1>3, <1>7, <1>11 DEF Names
    <2>5. QED
        BY <1>1, <1>4, <1>7, <2>3, <2>4 DEF Names
<1>12. OnlyOutages => Waits(p, command[p])'
    BY <1>1, <1>2, <1>3, <1>5, <1>6, <1>7 DEF Waits
<1>13. QED
    BY <1>2, <1>5, <1>8, <1>9, <1>10, <1>11, <1>12, CommandAdvances

LEMMA StepDelete ==
    ASSUME PairingConstants, PairingInv, OneCommand, NEW p \in Pairing!Parties, Pairing!Delete(p)
    PROVE  PairingInv'
<1> DEFINE c == command[p]
<1>1. /\ c.at = "deleting"
      /\ UNCHANGED <<journal, config, pairingDisk, pairingKills, pairingOutages, pairingErrors>>
    BY DEF Pairing!Delete, Pairing!At, Pairing!bounds
<1>2. Pairing!Living(p) /\ Sees(p, c) /\ (OnlyOutages => Waits(p, c))
    BY <1>1, CommandKnows
<1>3. CASE Pairing!End(p) /\ UNCHANGED <<tokens, tokenTemps, retired>>
    BY <1>1, <1>2, <1>3, CommandEnded
<1>4. CASE /\ config = c.state /\ tokenTemps' = {} /\ tokens' = tokens \ {config}
           /\ retired' = retired \cup {config} /\ Pairing!Goto(p, "forgetting")
    <2>1. PICK v \in Command_ :
              command' = [command EXCEPT ![p] = v] /\ v.at = "forgetting" /\ v.why = c.why
        BY <1>4, CommandGoes
    <2>2. command'[p] = v
        BY <1>2, <2>1, CommandMoves
    <2>3. journal = None /\ config # None
        BY <1>1, <1>2, <1>4 DEF Sees
    <2>4. tokens' = {}
        BY <1>4, <2>3 DEF PairingInv, Accounted, Explains
    <2>5. FlushesSome
        BY <1>1, AFlush
    <2>6. Sheds
        BY <1>1, <1>4, <2>5, PairingTyped DEF Sheds, PairingFiles, FlushesSome, DiskRecords
    <2>7. PairReady(p)'
        BY <1>1, <1>2, <1>4, <2>1, <2>2, <2>3, <2>4
           DEF PairReady, Sees, Undoing, Linking, Writing
    <2>8. OnlyOutages => Waits(p, command[p])'
        BY <1>1, <1>2, <2>1, <2>2 DEF Waits
    <2>9. QED
        BY <1>2, <2>1, <2>6, <2>7, <2>8, Shed
<1>5. QED
    BY <1>3, <1>4 DEF Pairing!Delete

LEMMA StepForgetPairing ==
    ASSUME PairingInv, OneCommand, NEW p \in Pairing!Parties, Pairing!Forget(p)
    PROVE  PairingInv'
<1> DEFINE c == command[p]
<1>1. /\ c.at = "forgetting" /\ Pairing!FlushTokens /\ config' = None /\ Pairing!End(p)
      /\ UNCHANGED <<journal, tokens, tokenTemps, retired,
                     pairingKills, pairingOutages, pairingErrors>>
    BY DEF Pairing!Forget, Pairing!At, Pairing!bounds
<1>2. Pairing!Living(p) /\ Sees(p, c) /\ (OnlyOutages => Names /\ Waits(p, c))
    BY <1>1, CommandKnows
<1>3. PICK v \in Command_ : command' = [command EXCEPT ![p] = v] /\ v.at = "gone"
    BY <1>1, CommandEnds
<1>4. command'[p] = v
    BY <1>2, <1>3, CommandMoves
<1>5. tokens = {} /\ tokenTemps = {} /\ config \in retired
    BY <1>1, <1>2 DEF Sees
<1>6. FlushesSome /\ pairingDisk'.tokens = {} /\ pairingDisk'.temps = {}
      /\ pairingDisk'.journal = pairingDisk.journal /\ pairingDisk'.config = pairingDisk.config
    BY <1>1, <1>5, AFlush, TokensFlushed
<1>7. PairingFiles'
    BY <1>1, <1>6, PairingTyped DEF PairingFiles, FlushesSome, DiskRecords
<1>8. PairReady(p)'
    BY <1>3, <1>4 DEF PairReady, Pairing!Living
<1>9. Accounted'
    BY <1>1, <1>5 DEF Accounted
<1>10. ASSUME OnlyOutages PROVE Names'
    <2>1. Everywhere' = {}
        BY <1>1, <1>5, <1>6 DEF Everywhere, Linked_
    <2>2. pairingDisk'.config # None => pairingDisk'.config \in retired
        BY <1>2, <1>5, <1>6, <1>10 DEF Names
    <2>3. QED
        BY <1>1, <2>1, <2>2 DEF Names
<1>11. OnlyOutages => Waits(p, command[p])'
    BY <1>1, <1>2, <1>3, <1>4, <1>6 DEF Waits
<1>12. QED
    BY <1>2, <1>3, <1>7, <1>8, <1>9, <1>10, <1>11, CommandAdvances

\* A command starts, and knows nothing yet.
LEMMA StepCommandStarts ==
    ASSUME PairingConstants, PairingInv, OneCommand, NEW p \in Pairing!Parties,
           Pairing!Pair(p) \/ Pairing!Unpair(p) \/ Pairing!Doctor(p)
    PROVE  PairingInv'
<1>1. /\ UNCHANGED <<journal, tokens, tokenTemps, config, pairingDisk, retired,
                     pairingKills, pairingOutages, pairingErrors>>
      /\ command[p].at \in {"new", "gone", "killed"}
    BY DEF Pairing!Pair, Pairing!Unpair, Pairing!Doctor, Pairing!At, Pairing!Living,
           Pairing!files, Pairing!bounds
<1>2. PICK v \in Command_ :
          /\ command' = [command EXCEPT ![p] = v] /\ v.at = "read" /\ v.why # "save"
          /\ p \in Pairings => v.why = "pair"
    <2>1. CASE Pairing!Pair(p)
        <3> DEFINE v == [command[p] EXCEPT !.at = "read", !.why = "pair"]
        <3>1. v \in Command_ /\ v.at = "read" /\ v.why = "pair"
            BY CommandIs, ZenonT(60) DEF Command_
        <3>2. command' = [command EXCEPT ![p] = v]
            BY <2>1, CommandIs DEF Pairing!Pair
        <3> HIDE DEF v
        <3>3. QED
            BY <3>1, <3>2
    <2>2. CASE Pairing!Unpair(p)
        <3> DEFINE v == [Pairing!Fresh EXCEPT !.at = "read", !.why = "unpair", !.state = config]
        <3>1. v \in Command_ /\ v.at = "read" /\ v.why = "unpair"
            BY FreshIs, PairingTyped DEF PairingFiles
        <3>2. command' = [command EXCEPT ![p] = v]
            BY <2>2 DEF Pairing!Unpair
        <3> HIDE DEF v
        <3>3. p \notin Pairings
            BY <2>2 DEF Pairing!Unpair, PairingConstants
        <3>4. QED
            BY <3>1, <3>2, <3>3
    <2>3. CASE Pairing!Doctor(p)
        <3> DEFINE v == [Pairing!Fresh EXCEPT !.at = "read", !.why = "doctor"]
        <3>1. v \in Command_ /\ v.at = "read" /\ v.why = "doctor"
            BY FreshIs, PairingTyped DEF PairingFiles
        <3>2. command' = [command EXCEPT ![p] = v]
            BY <2>3 DEF Pairing!Doctor
        <3> HIDE DEF v
        <3>3. p \notin Pairings
            BY <2>3 DEF Pairing!Doctor, PairingConstants
        <3>4. QED
            BY <3>1, <3>2, <3>3
    <2>4. QED
        BY <2>1, <2>2, <2>3
<1>3. Sees(p, v)
    BY <1>2 DEF Sees, Undoing, Linking, Writing
<1>4. Pairing!Living(p)'
    <2>1. command'[p] = v
        BY <1>2, CommandIs
    <2>2. QED
        BY <1>2, <2>1 DEF Pairing!Living
<1>5. QED
    BY <1>1, <1>2, <1>3, <1>4, CommandAside

LEMMA StepError ==
    ASSUME PairingConstants, PairingInv, OneCommand, NEW p \in Pairing!Parties, Pairing!Error(p)
    PROVE  PairingInv'
<1> DEFINE c == command[p]
<1>1. /\ c.at \in Pairing!Saving /\ c.why = "save" /\ Pairing!Throw(p)
      /\ pairingErrors < OutboxErrors /\ pairingErrors' = pairingErrors + 1
      /\ UNCHANGED <<journal, config, pairingDisk, retired, pairingKills, pairingOutages>>
    BY DEF Pairing!Error
<1>2. ~OnlyOutages
    BY <1>1, PairingTyped DEF PairingFiles, OnlyOutages
<1>3. Pairing!Living(p) /\ Sees(p, c)
    BY <1>1, CommandKnows DEF Pairing!Saving
<1>4. config = None \/ tokenTemps = {}
    BY <1>1, <1>3 DEF Sees, Pairing!Saving, Writing, Linking
<1>5. pairingKills' \in Nat /\ pairingOutages' \in Nat /\ pairingErrors' \in Nat
    BY <1>1, PairingTyped DEF PairingFiles
<1>6. FlushesSome
    BY <1>1, AFlush
<1>7. QED
    BY <1>1, <1>2, <1>3, <1>4, <1>5, <1>6, CommandThrows

LEMMA StepKillCommand ==
    ASSUME PairingConstants, PairingInv, OneCommand, NEW p \in Pairing!Parties, Pairing!Kill(p)
    PROVE  PairingInv'
<1>1. /\ Pairing!Living(p) /\ pairingKills < OutboxKills /\ pairingKills' = pairingKills + 1
      /\ UNCHANGED <<journal, tokens, tokenTemps, config, pairingDisk, retired,
                     pairingOutages, pairingErrors>>
    BY DEF Pairing!Kill, Pairing!files
<1>2. ~OnlyOutages
    BY <1>1, PairingTyped DEF PairingFiles, OnlyOutages
<1>3. PICK v \in Command_ : command' = [command EXCEPT ![p] = v] /\ v.at = "killed"
    <2> DEFINE v == [Pairing!Fresh EXCEPT !.at = "killed"]
    <2>1. v \in Command_ /\ v.at = "killed"
        BY FreshIs, PairingTyped DEF PairingFiles
    <2>2. command' = [command EXCEPT ![p] = v]
        BY DEF Pairing!Kill
    <2> HIDE DEF v
    <2>3. QED
        BY <2>1, <2>2
<1>4. command'[p] = v
    BY <1>1, <1>3, CommandMoves
<1>5. Sheds
    BY <1>1, StillSheds, PairingTyped DEF PairingFiles
<1>6. PairReady(p)'
    BY <1>3, <1>4 DEF PairReady, Pairing!Living
<1>7. QED
    BY <1>1, <1>2, <1>3, <1>5, <1>6, Shed

LEMMA StepPairingOutage ==
    ASSUME PairingConstants, PairingInv, OutboxOutages = 0 \/ OnlyOutages, Pairing!PowerFailure
    PROVE  PairingInv'
<1>1. /\ pairingOutages < OutboxOutages /\ pairingOutages' = pairingOutages + 1
      /\ UNCHANGED <<retired, pairingKills, pairingErrors>>
      /\ journal' \in {journal, pairingDisk.journal}
      /\ config' \in {config, pairingDisk.config}
    BY DEF Pairing!PowerFailure
<1>2. /\ tokens \cap pairingDisk.tokens \subseteq tokens' /\ tokens' \subseteq Linked_
      /\ tokenTemps' \subseteq tokenTemps \cup pairingDisk.temps
    BY DEF Pairing!PowerFailure, Pairing!Survivors, Linked_
<1>3. OnlyOutages
    BY <1>1, PairingTyped DEF PairingFiles, PairingConstants
<1>4. Names
    BY <1>3 DEF PairingInv, Survives
<1>5. PairingFiles'
    <2>1. /\ journal' \in Pairing!Journal \cup {None} /\ config' \in Pairings \cup {None}
          /\ tokens' \in SUBSET Pairings /\ tokenTemps' \in SUBSET Pairings
        BY <1>1, <1>2, PairingTyped DEF PairingFiles, Linked_
    <2>2. pairingDisk' \in DiskRecords
        BY <2>1 DEF Pairing!PowerFailure, DiskRecords
    <2>3. QED
        BY <1>1, <2>1, <2>2, PairingTyped DEF PairingFiles, DiskRecords
<1>6. /\ pairingDisk'.journal = journal' /\ pairingDisk'.config = config'
      /\ pairingDisk'.tokens = tokens' /\ pairingDisk'.temps = tokenTemps'
    BY DEF Pairing!PowerFailure
<1>7. /\ command' \in [Pairing!Parties -> Command_]
      /\ \A q \in Pairing!Parties : command'[q].at \in {"new", "gone", "killed"}
    <2> DEFINE f == [Pairing!Fresh EXCEPT !.at = "killed"]
    <2>1. f \in Command_ /\ f.at = "killed"
        BY FreshIs, PairingTyped DEF PairingFiles
    <2>2. command' = [q \in Pairing!Parties |-> IF Pairing!Living(q) THEN f ELSE command[q]]
        BY DEF Pairing!PowerFailure
    <2> HIDE DEF f
    <2>3. \A q \in Pairing!Parties : command'[q] = IF Pairing!Living(q) THEN f ELSE command[q]
        BY <2>2
    <2>4. \A q \in Pairing!Parties : command[q] \in Command_
        BY CommandIs
    <2>5. QED
        BY <2>1, <2>2, <2>3, <2>4 DEF Pairing!Living
<1>8. config' # None => config' \in tokens' \/ config' \in retired'
    <2>1. CASE config' = config
        BY <1>1, <1>2, <1>4, <2>1 DEF PairingInv, Accounted, Names
    <2>2. CASE config' # config
        BY <1>1, <1>4, <2>2 DEF Names
    <2>3. QED
        BY <2>1, <2>2
<1>9. ASSUME NEW t \in tokens' \cup tokenTemps' PROVE Explains(config', journal', t, tokens')
    <2>1. t \in Everywhere
        BY <1>2 DEF Everywhere, Linked_
    <2>2. Explains(config', journal', t, Linked_)
        BY <1>1, <1>4, <2>1 DEF Names
    <2>3. QED
        BY <1>2, <2>2 DEF Explains
<1>10. Accounted'
    BY <1>8, <1>9 DEF Accounted
<1>11. Names'
    <2>1. Linked_' = tokens' /\ Everywhere' = tokens' \cup tokenTemps'
        BY <1>6 DEF Linked_, Everywhere
    <2>2. QED
        BY <1>6, <1>8, <1>9, <2>1 DEF Names
<1>12. OneAtWork' /\ Seeing'
    BY <1>7 DEF OneAtWork, Seeing, Pairing!Living
<1>13. Survives'
    BY <1>6, <1>7, <1>11 DEF Survives, Waits
<1>14. QED
    BY <1>5, <1>7, <1>10, <1>12, <1>13 DEF PairingInv, PairingType

LEMMA PairingStarts ==
    ASSUME PairingConstants, Pairing!Init
    PROVE  PairingInv
<1>1. /\ journal = None /\ config = None /\ tokens = {} /\ tokenTemps = {}
      /\ pairingDisk = [journal |-> None, tokens |-> {}, temps |-> {}, config |-> None]
      /\ command = [p \in Pairing!Parties |-> Pairing!Fresh]
      /\ pairingKills = 0 /\ pairingOutages = 0 /\ pairingErrors = 0
    BY DEF Pairing!Init
<1>2. Pairing!Fresh \in Command_ /\ Pairing!Fresh.at = "new"
    BY DEF Pairing!Fresh, Command_
<1>3. PairingType
    BY <1>1, <1>2 DEF PairingType, PairingFiles
<1>4. \A p \in Pairing!Parties : command[p].at = "new"
    BY <1>1, <1>2
<1>5. OneAtWork /\ Seeing
    BY <1>4 DEF OneAtWork, Seeing, Pairing!Living
<1>6. Accounted /\ Names
    BY <1>1 DEF Accounted, Names, Everywhere, Linked_
<1>7. Survives
    BY <1>1, <1>4, <1>6 DEF Survives, Waits
<1>8. QED
    BY <1>3, <1>5, <1>6, <1>7 DEF PairingInv

\* The pairing with one command at a time.
PairingAlone == Pairing!Init /\ [][Pairing!Next /\ OneCommand]_(Pairing!vars)

LEMMA PairingSteps ==
    ASSUME PairingConstants, OutboxOutages = 0 \/ OnlyOutages,
           PairingInv, [Pairing!Next /\ OneCommand]_(Pairing!vars)
    PROVE  PairingInv'
<1>1. CASE UNCHANGED Pairing!vars
    BY <1>1 DEF Pairing!vars, Pairing!files, Pairing!bounds, PairingInv, PairingType, PairingFiles,
       OneAtWork, Seeing, Sees, Accounted, Survives, Names, Waits, Everywhere, Linked_, Explains,
       Pairing!Living, OnlyOutages
<1>2. CASE OneCommand /\ Pairing!Next
    <2>1. CASE Pairing!PowerFailure
        BY <2>1, StepPairingOutage
    <2>2. ASSUME NEW p \in Pairing!Parties, Pairing!Recover(p) PROVE PairingInv'
        BY <1>2, <2>2, StepReadJournal, StepMatch, StepTempList, StepTempSweep, StepDrop, StepClear,
           StepUnjournal, StepSyncUnjournaled, StepClean DEF Pairing!Recover
    <2>3. ASSUME NEW p \in Pairing!Parties, Pairing!Save(p) PROVE PairingInv'
        BY <1>2, <2>3, StepRequest, StepDraft, StepRename, StepPrepare, StepLinkToken, StepTidyToken,
           StepConfigure DEF Pairing!Save
    <2>4. ASSUME NEW p \in Pairing!Parties, Pairing!Step(p) PROVE PairingInv'
        BY <1>2, <2>2, <2>3, <2>4, StepDelete, StepForgetPairing DEF Pairing!Step
    <2>5. ASSUME NEW p \in Pairing!Parties,
                 \/ Pairing!Pair(p) \/ Pairing!Unpair(p) \/ Pairing!Doctor(p)
                 \/ Pairing!Error(p) \/ Pairing!Kill(p)
          PROVE  PairingInv'
        BY <1>2, <2>5, StepCommandStarts, StepError, StepKillCommand
    <2>6. QED
        BY <1>2, <2>1, <2>4, <2>5 DEF Pairing!Next
<1>3. QED
    BY <1>1, <1>2

LEMMA PairingHolds ==
    ASSUME PairingConstants, OutboxOutages = 0 \/ OnlyOutages
    PROVE  PairingAlone => []PairingInv
<1>1. Pairing!Init => PairingInv
    BY PairingStarts
<1>2. PairingInv /\ [Pairing!Next /\ OneCommand]_(Pairing!vars) => PairingInv'
    BY PairingSteps
<1>3. QED
    BY <1>1, <1>2, PTL DEF PairingAlone

\* A committed pairing keeps its credential until `unpair' takes it, and no
\* credential is left that neither the configuration nor the journal leads to,
\* for any number of commands, kills, failed calls or power failures.
THEOREM CredentialKept ==
    ASSUME OutboxOutages = 0 \/ OnlyOutages
    PROVE  PairingAlone => []CredentialMatchesPairing
<1>1. PairingInv => CredentialMatchesPairing
    BY DEF PairingInv, Accounted, Explains, CredentialMatchesPairing,
       Pairing!PairedHasCredential, Pairing!NoStrayCredential
<1>2. PairingAlone => []PairingInv
    BY LocalFilesAssumption, PairingHolds
<1>3. QED
    BY <1>1, <1>2, PTL
=============================================================================
