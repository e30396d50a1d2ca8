-------------------------- MODULE ItemIngestProofs --------------------------
(* Proofs about ItemIngest, for any number of calls, messages, contents,     *)
(* faults and leases that expire.  IInv adds to the properties what each     *)
(* phase of a call may rely on although the lease may be lost at any moment. *)
EXTENDS ItemIngest, FiniteSetTheorems, TLAPS

-----------------------------------------------------------------------------
(* Who is where: a busy call has a message; past the look-up its item is     *)
(* there, and past the first check it is enrolled.                           *)
Located == \A w \in Workers :
  /\ phase[w] # "idle" => msg[w] \in Messages
  /\ phase[w] \notin {"idle", "insert"} => item[C(w)] # None
  /\ phase[w] \notin {"idle", "insert", "check"} => C(w) \in enrolled

(* The rows of an item: nothing is recorded before it is enrolled, except    *)
(* that a classified legacy item has the one story it is classified against. *)
RowsAgree == \A c \in Contents :
  /\ c \in enrolled => item[c] # None
  /\ c \notin enrolled =>
       /\ stage[c] = 0 /\ storyId[c] = 0 /\ lease[c] = None
       /\ lineage[c] # 0 => <<lineage[c], c>> \in links
       /\ \A l \in links : l[2] = c /\ lineage[c] # 0 => l[1] = lineage[c]
  /\ stage[c] = 0 => storyId[c] = 0
  /\ stage[c] = 4 => lease[c] = None

HolderPhases == {"resume", "renew", "commit", "lineage", "advance2", "missions",
                 "advance3", "signal", "complete"}

(* Only the call that claimed it holds an item's lease, and what it holds at *)
(* the renewal and the batch is an item without a story.                     *)
Held ==
  /\ \A c \in Contents, w \in Workers :
       lease[c] = w => phase[w] \in HolderPhases /\ C(w) = c
  /\ \A w \in Workers :
       phase[w] \in {"renew", "commit"} /\ lease[C(w)] = w => stage[C(w)] = 0

(* A lineage row is written for an item that is there, and of an enrolled    *)
(* item it names the story of its completion row.                            *)
Classified == \A c \in Contents :
  /\ item[c] = None => lineage[c] = 0
  /\ c \in enrolled /\ lineage[c] # 0 => lineage[c] = storyId[c]

(* Classified, or passed over because lineage was switched off.              *)
LineageDone(c) == lineage[c] # 0 \/ c \in skipped

(* What a call has behind it, whether or not it still holds the lease.       *)
Behind == \A w \in Workers :
  /\ phase[w] \in {"lineage", "advance2", "missions", "advance3", "signal", "complete"} =>
       stage[C(w)] >= 1 /\ chosen[w] = storyId[C(w)]
  /\ phase[w] \in {"advance2", "missions", "advance3", "signal", "complete"} =>
       LineageDone(C(w))
  /\ phase[w] \in {"advance3", "signal", "complete"} => chosen[w] \in matched
  /\ phase[w] = "complete" => C(w) \in dirtyFor
  /\ phase[w] = "return" => stage[C(w)] = 4

(* A story batch is only ever sent under a lease that is valid or was        *)
(* overrun, and the story it carries is the only one the item can have.      *)
Linked ==
  /\ \A w \in Workers : phase[w] = "commit" =>
       overrun[C(w)] \/ (lease[C(w)] = w /\ ~expired[C(w)])
  /\ \A w \in Workers :
       phase[w] \in {"renew", "commit"} /\ lease[C(w)] = w /\ ~overrun[C(w)] =>
         \A l \in links : l[2] = C(w) => l[1] = chosen[w]
  /\ \A c \in Contents : ~overrun[c] =>
       \A k, l \in links : k[2] = c /\ l[2] = c => k = l

(* The origin a completion row was inserted with, and who may claim it.      *)
Counted ==
  /\ \A w \in Workers : created[w] =>
       phase[w] # "idle" /\ C(w) \in enrolled /\ origin[C(w)] = OriginOf(msg[w])
  /\ \A v, w \in Workers : created[v] /\ created[w] /\ C(v) = C(w) => msg[v] = msg[w]
  /\ \A w \in Workers, r \in reports :
       created[w] /\ r.inserted /\ ContentOf[r.msg] = C(w) => r.msg = msg[w]
  /\ \A r \in reports : IF r.inserted THEN origin[ContentOf[r.msg]] = OriginOf(r.msg)
                        ELSE OriginOf(r.msg) # None =>
                               origin[ContentOf[r.msg]] # OriginOf(r.msg)

(* A raw object names its own content, and is deleted only when another      *)
(* message's item is already stored.                                         *)
RawNamed ==
  /\ \A c \in Contents : item[c] \in Messages => ContentOf[item[c]] = c
  /\ \A m \in rawGone : item[ContentOf[m]] # None /\ item[ContentOf[m]] # m

IInv ==
  /\ TypeOK /\ Located /\ RowsAgree /\ Held /\ Classified /\ Behind /\ StageHonest
  /\ Linked /\ ReturnsOnlyComplete /\ Counted /\ OriginCountedOnce /\ RawNamed

(* Resume goes to the phase of the stage it read, with the story of the row  *)
(* or, without one, a story linked to the item whenever there is any.        *)
Resumed(w) ==
  /\ phase[w] = "resume" /\ C(w) \in Contents /\ C(w) \in enrolled
  /\ phase' \in [Workers -> Phases] /\ chosen' \in [Workers -> StoryIds \cup {0}]
  /\ \A v \in Workers : v # w => phase'[v] = phase[v] /\ chosen'[v] = chosen[v]
  /\ stage[C(w)] = 0 => phase'[w] = "renew"
  /\ stage[C(w)] = 1 => phase'[w] = "lineage"
  /\ stage[C(w)] = 2 => phase'[w] = "missions"
  /\ stage[C(w)] = 3 => phase'[w] = "signal"
  /\ stage[C(w)] = 4 => phase'[w] = "return"
  /\ storyId[C(w)] # 0 => chosen'[w] = storyId[C(w)]
  /\ storyId[C(w)] = 0 => \A l \in links : l[2] = C(w) => <<chosen'[w], C(w)>> \in links
  /\ UNCHANGED <<rows, msg, created, queue, bounds>>

(* What Resume leaves behind. *)
LEMMA ResumeFacts == ASSUME IInv, NEW w \in Workers, Resume(w) PROVE Resumed(w)
<1>0. TypeOK /\ Located
    BY DEF IInv
<1>10. C(w) \in Contents /\ C(w) \in enrolled
    BY <1>0, WiringAssumption DEF Resume, At, Located, C, TypeOK
<1>1. Entry(0) = "renew" /\ Entry(1) = "lineage" /\ Entry(2) = "missions"
      /\ Entry(3) = "signal" /\ Entry(4) = "return"
    BY DEF Entry
<1>2. phase' = [phase EXCEPT ![w] = Entry(stage[C(w)])] /\ phase'[w] = Entry(stage[C(w)])
    BY <1>0 DEF Resume, GoTo, TypeOK
<1>3. PICK s \in IF storyId[C(w)] # 0 THEN {storyId[C(w)]} ELSE Candidates(C(w)) :
        chosen' = [chosen EXCEPT ![w] = s]
    BY DEF Resume
<1>4. chosen'[w] = s
    BY <1>0, <1>3 DEF TypeOK
<1>5. Candidates(C(w)) \subseteq StoryIds \cup {0}
    BY DEF Candidates, LinkedTo, OfTopic, StoryIds
<1>6. storyId[C(w)] \in StoryIds \cup {0}
    BY <1>0, <1>10 DEF TypeOK
<1>7. ASSUME storyId[C(w)] = 0, NEW l \in links, l[2] = C(w)
      PROVE  <<s, C(w)>> \in links
    <2>1. l[1] \in LinkedTo(C(w))
        <3>1. links \subseteq StoryIds \X Contents
            BY <1>0 DEF TypeOK
        <3>2. l[1] \in StoryIds /\ l = <<l[1], C(w)>>
            BY <1>7, <3>1
        <3>3. QED
            BY <3>2 DEF LinkedTo, StoryIds
    <2>2. s \in LinkedTo(C(w))
        BY <1>3, <1>7, <2>1 DEF Candidates
    <2>3. QED
        BY <2>2 DEF LinkedTo
<1>8. phase[w] = "resume" /\ UNCHANGED <<rows, msg, created, queue, bounds>>
    BY DEF Resume, At
<1>9. chosen' \in [Workers -> StoryIds \cup {0}]
      /\ \A v \in Workers : v # w => phase'[v] = phase[v] /\ chosen'[v] = chosen[v]
    BY <1>0, <1>2, <1>3, <1>5, <1>6 DEF TypeOK
<1>11. stage[C(w)] \in {0, 1, 2, 3, 4}
    BY <1>0, <1>10 DEF TypeOK, Stages
<1>12. phase' \in [Workers -> Phases]
    <2>1. phase'[w] \in Phases
        BY <1>1, <1>2, <1>11 DEF Phases
    <2>2. QED
        BY <1>0, <1>2, <2>1 DEF TypeOK
<1>13. QED
    BY <1>1, <1>2, <1>3, <1>4, <1>7, <1>8, <1>9, <1>10, <1>12 DEF Resumed

(* What Enroll writes: a stage and a story that the item's link and lineage  *)
(* account for, and nothing about any other item.                            *)
Enrolled(w) ==
  /\ phase[w] = "check" /\ C(w) \in Contents /\ C(w) \notin enrolled
  /\ enrolled' = enrolled \cup {C(w)}
  /\ phase' \in [Workers -> Phases] /\ phase'[w] = "claim"
  /\ \A v \in Workers : v # w => phase'[v] = phase[v]
  /\ stage' \in [Contents -> Stages] /\ storyId' \in [Contents -> StoryIds \cup {0}]
  /\ \A c \in Contents : c # C(w) => stage'[c] = stage[c] /\ storyId'[c] = storyId[c]
  /\ stage'[C(w)] \in {0, 1, 2}
  /\ stage'[C(w)] # 0 => <<storyId'[C(w)], C(w)>> \in links
  /\ stage'[C(w)] = 2 => lineage[C(w)] # 0 \/ C(w) \in skipped'
  /\ stage'[C(w)] = 0 => storyId'[C(w)] = 0 /\ lineage[C(w)] = 0
  /\ rawGone' = rawGone \cup Redundant(w)
  /\ skipped \subseteq skipped' /\ skipped' \subseteq skipped \cup {C(w)}
  /\ UNCHANGED <<item, origin, leases, storyRows, lineage, matched, dirtyFor, locals,
                 queue, bounds>>

(* What Enroll leaves behind. *)
LEMMA EnrollFacts == ASSUME IInv, NEW w \in Workers, Enroll(w) PROVE Enrolled(w)
<1>0. TypeOK /\ Located /\ RowsAgree
    BY DEF IInv
<1>5. C(w) \in Contents /\ C(w) \notin enrolled
    BY <1>0, WiringAssumption DEF Enroll, At, Located, C, TypeOK
<1>6. /\ stage[C(w)] = 0 /\ storyId[C(w)] = 0
      /\ lineage[C(w)] # 0 => <<lineage[C(w)], C(w)>> \in links
    BY <1>0, <1>5 DEF RowsAgree
<1> USE <1>0, <1>5, <1>6
<1> DEFINE Accounted ==
      /\ stage' \in [Contents -> Stages] /\ storyId' \in [Contents -> StoryIds \cup {0}]
      /\ \A c \in Contents : c # C(w) => stage'[c] = stage[c] /\ storyId'[c] = storyId[c]
      /\ stage'[C(w)] \in {0, 1, 2}
      /\ stage'[C(w)] # 0 => <<storyId'[C(w)], C(w)>> \in links
      /\ stage'[C(w)] = 2 => lineage[C(w)] # 0 \/ C(w) \in skipped'
      /\ stage'[C(w)] = 0 => storyId'[C(w)] = 0 /\ lineage[C(w)] = 0
      /\ skipped \subseteq skipped' /\ skipped' \subseteq skipped \cup {C(w)}
<1>1. ASSUME LinkedTo(C(w)) = {}, UNCHANGED <<progress, skipped>> PROVE Accounted
    <2>1. lineage[C(w)] = 0
        <3>1. links \subseteq StoryIds \X Contents
            BY DEF TypeOK
        <3>2. <<lineage[C(w)], C(w)>> \in links => lineage[C(w)] \in LinkedTo(C(w))
            BY <3>1 DEF LinkedTo, StoryIds
        <3>3. QED
            BY <1>1, <3>2
    <2>2. QED
        BY <1>1, <2>1 DEF TypeOK, progress
<1>2. ASSUME NEW s \in LinkedTo(C(w)), NEW enabled \in LineageSettings,
             storyId' = [storyId EXCEPT ![C(w)] = s],
             stage' = [stage EXCEPT ![C(w)] = IF lineage[C(w)] = 0 /\ enabled THEN 1 ELSE 2],
             skipped' = IF enabled THEN skipped ELSE Skip(C(w))
      PROVE  Accounted
    <2>1. s \in StoryIds /\ <<s, C(w)>> \in links
        BY DEF LinkedTo, StoryIds
    <2>2. enabled \in BOOLEAN
        BY WiringAssumption
    <2>3. QED
        BY <1>2, <2>1, <2>2 DEF TypeOK, Stages, Skip
<1>3. phase[w] = "check" /\ C(w) \notin enrolled /\ enrolled' = enrolled \cup {C(w)}
      /\ rawGone' = rawGone \cup Redundant(w)
      /\ UNCHANGED <<item, origin, leases, storyRows, lineage, matched, dirtyFor, locals,
                     queue, bounds>>
    BY DEF Enroll, At
<1>4. phase' \in [Workers -> Phases] /\ phase'[w] = "claim"
      /\ \A v \in Workers : v # w => phase'[v] = phase[v]
    BY DEF Enroll, GoTo, TypeOK, Phases
<1>7. Accounted
    <2> HIDE DEF Accounted
    <2>1. QED
        BY <1>1, <1>2 DEF Enroll
<1>8. QED
    BY <1>3, <1>4, <1>7 DEF Enrolled

(* A call that ends forgets its message and its locals.                      *)
Left(w) ==
  /\ phase' \in [Workers -> Phases] /\ phase'[w] = "idle"
  /\ msg' \in [Workers -> Messages \cup {None}]
  /\ created' \in [Workers -> BOOLEAN] /\ ~created'[w]
  /\ chosen' \in [Workers -> StoryIds \cup {0}]
  /\ \A v \in Workers : v # w =>
       /\ phase'[v] = phase[v] /\ msg'[v] = msg[v]
       /\ created'[v] = created[v] /\ chosen'[v] = chosen[v]

(* What Leave leaves behind. *)
LEMMA LeaveFacts == ASSUME IInv, NEW w \in Workers, Leave(w) PROVE Left(w)
<1>0. TypeOK
    BY DEF IInv
<1> USE <1>0
<1>1. phase' \in [Workers -> Phases] /\ phase'[w] = "idle"
    BY DEF Leave, GoTo, TypeOK, Phases
<1>2. created' \in [Workers -> BOOLEAN] /\ ~created'[w]
    BY DEF Leave, TypeOK
<1>3. QED
    BY <1>1, <1>2 DEF Leave, GoTo, TypeOK, Left

(* Only a call that is past its look-up has an item, and keeps it.            *)
LEMMA LocatedStep == IInv /\ [Next]_vars => Located'
<1> SUFFICES ASSUME IInv, [Next]_vars PROVE Located'
    OBVIOUS
<1>0. TypeOK /\ Located /\ RowsAgree /\ Held /\ Classified /\ Behind /\ StageHonest
      /\ Linked /\ ReturnsOnlyComplete /\ Counted /\ RawNamed
    BY DEF IInv
<1> USE <1>0, WiringAssumption, NullAssumption DEF TypeOK, Located, RowsAgree, C, vars,
      rows, items, progress, leases, storyRows, derived, locals, queue, bounds
<1>1. ASSUME NEW w \in Workers, NEW m \in Messages, Deliver(w, m) PROVE Located'
    BY <1>1 DEF Deliver, GoTo, At
<1>2. ASSUME NEW w \in Workers, InsertItem(w) PROVE Located'
    BY <1>2 DEF InsertItem, GoTo, At
<1>3. ASSUME NEW w \in Workers, AdoptItem(w) PROVE Located'
    BY <1>3 DEF AdoptItem, GoTo, At
<1>4. ASSUME NEW w \in Workers, Check(w) PROVE Located'
    BY <1>4 DEF Check, Redundant, Done, GoTo, At
<1>5. ASSUME NEW w \in Workers, Enroll(w) PROVE Located'
    BY <1>5 DEF Enroll, Redundant, LinkedTo, GoTo, At
<1>6. ASSUME NEW w \in Workers, Claim(w) PROVE Located'
    BY <1>6 DEF Claim, Claimable, GoTo, At
<1>7. ASSUME NEW w \in Workers, ClaimRefused(w) PROVE Located'
    <2>0. UNCHANGED <<rows, queue, bounds>>
        BY <1>7 DEF ClaimRefused
    <2>1. CASE Leave(w)
        <3>1. Left(w)
            BY <2>1, LeaveFacts
        <3>2. QED
            BY <1>7, <2>0, <3>1 DEF ClaimRefused, At, Left
    <2>2. CASE GoTo(w, "return") /\ UNCHANGED locals
        BY <1>7, <2>0, <2>2 DEF ClaimRefused, At, GoTo
    <2>3. QED
        BY <1>7, <2>1, <2>2 DEF ClaimRefused
<1>8. ASSUME NEW w \in Workers, Resume(w) PROVE Located'
    BY <1>8, SMTT(60) DEF Resume, Candidates, LinkedTo, OfTopic, Entry, GoTo, At
<1>9. ASSUME NEW w \in Workers, LoseLease(w) PROVE Located'
    BY <1>9 DEF LoseLease, Holds, Leave, GoTo, At
<1>10. ASSUME NEW w \in Workers, Renew(w) PROVE Located'
    BY <1>10 DEF Renew, Holds, GoTo, At
<1>11. ASSUME NEW w \in Workers, Commit(w) PROVE Located'
    BY <1>11 DEF Commit, CommitStory, Target, Holds, GoTo, At
<1>12. ASSUME NEW w \in Workers, CommitLost(w) PROVE Located'
    BY <1>12 DEF CommitLost, CommitStory, Target, Holds, Leave, GoTo, At
<1>13. ASSUME NEW w \in Workers, Classify(w) PROVE Located'
    BY <1>13 DEF Classify, GoTo, At
<1>14. ASSUME NEW w \in Workers, AdvanceLineage(w) PROVE Located'
    BY <1>14 DEF AdvanceLineage, Advance, Holds, GoTo, At
<1>15. ASSUME NEW w \in Workers, MatchMissions(w) PROVE Located'
    BY <1>15 DEF MatchMissions, GoTo, At
<1>16. ASSUME NEW w \in Workers, AdvanceMissions(w) PROVE Located'
    BY <1>16 DEF AdvanceMissions, Advance, Holds, GoTo, At
<1>17. ASSUME NEW w \in Workers, Signal(w) PROVE Located'
    BY <1>17 DEF Signal, GoTo, At
<1>18. ASSUME NEW w \in Workers, Complete(w) PROVE Located'
    BY <1>18 DEF Complete, Holds, GoTo, At
<1>19. ASSUME NEW w \in Workers, Return(w) PROVE Located'
    BY <1>19 DEF Return, InsertedOutcome, Leave, GoTo, At
<1>20. ASSUME NEW w \in Workers, NEW h \in {None, Orphan}, Break(w, h) PROVE Located'
    BY <1>20 DEF Break, Leave, GoTo, At
<1>21. ASSUME NEW c \in Contents, ExpireOrphan(c) PROVE Located'
    BY <1>21 DEF ExpireOrphan
<1>22. ASSUME NEW c \in Contents, ExpireLive(c) PROVE Located'
    BY <1>22 DEF ExpireLive, At
<1>23. CASE UNCHANGED vars
    BY <1>23
<1>24. QED
    BY <1>1, <1>2, <1>3, <1>4, <1>5, <1>6, <1>7, <1>8, <1>9, <1>10, <1>11, <1>12, <1>13,
       <1>14, <1>15, <1>16, <1>17, <1>18, <1>19, <1>20, <1>21, <1>22, <1>23 DEF Next,
       Step, Throw, Die

(* An item gets rows of progress only with its enrolment.                     *)
LEMMA RowsStep == IInv /\ [Next]_vars => RowsAgree'
<1> SUFFICES ASSUME IInv, [Next]_vars PROVE RowsAgree'
    OBVIOUS
<1>0. TypeOK /\ Located /\ RowsAgree /\ Held /\ Classified /\ Behind /\ StageHonest
      /\ Linked /\ ReturnsOnlyComplete /\ Counted /\ RawNamed
    BY DEF IInv
<1> USE <1>0, WiringAssumption, NullAssumption DEF TypeOK, Located, RowsAgree, Held, C,
      vars, rows, items, progress, leases, storyRows, derived, locals, queue, bounds
<1>1. ASSUME NEW w \in Workers, NEW m \in Messages, Deliver(w, m) PROVE RowsAgree'
    BY <1>1 DEF Deliver, GoTo, At
<1>2. ASSUME NEW w \in Workers, InsertItem(w) PROVE RowsAgree'
    BY <1>2 DEF InsertItem, GoTo, At
<1>3. ASSUME NEW w \in Workers, AdoptItem(w) PROVE RowsAgree'
    BY <1>3 DEF AdoptItem, GoTo, At
<1>4. ASSUME NEW w \in Workers, Check(w) PROVE RowsAgree'
    BY <1>4 DEF Check, Redundant, Done, GoTo, At
<1>5. ASSUME NEW w \in Workers, Enroll(w) PROVE RowsAgree'
    <2>1. Enrolled(w)
        BY <1>5, EnrollFacts
    <2>2. item[C(w)] # None /\ stage'[C(w)] # 4
        <3>1. phase[w] = "check" /\ stage'[C(w)] \in {0, 1, 2}
            BY <2>1 DEF Enrolled
        <3>2. item[C(w)] # None
            BY <3>1
        <3>3. \A n \in {0, 1, 2} : n # 4
            OBVIOUS
        <3>4. QED
            BY <3>1, <3>2, <3>3
    <2> SUFFICES ASSUME NEW c \in Contents
                 PROVE  /\ c \in enrolled' => item'[c] # None
                        /\ c \notin enrolled' =>
                             /\ stage'[c] = 0 /\ storyId'[c] = 0 /\ lease'[c] = None
                             /\ lineage'[c] # 0 => <<lineage'[c], c>> \in links'
                             /\ \A l \in links' : l[2] = c /\ lineage'[c] # 0 => l[1] = lineage'[c]
                        /\ stage'[c] = 0 => storyId'[c] = 0
                        /\ stage'[c] = 4 => lease'[c] = None
        OBVIOUS
    <2>3. UNCHANGED <<item, lease, lineage, links>>
        BY <2>1 DEF Enrolled
    <2>4. CASE c = C(w)
        BY <2>1, <2>2, <2>3, <2>4 DEF Enrolled
    <2>5. CASE c # C(w)
        <3>1. stage'[c] = stage[c] /\ storyId'[c] = storyId[c] /\ (c \in enrolled' <=> c \in enrolled)
            BY <2>1, <2>5 DEF Enrolled
        <3>2. QED
            BY <2>3, <3>1
    <2>6. QED
        BY <2>4, <2>5
<1>6. ASSUME NEW w \in Workers, Claim(w) PROVE RowsAgree'
    BY <1>6 DEF Claim, Claimable, GoTo, At
<1>7. ASSUME NEW w \in Workers, ClaimRefused(w) PROVE RowsAgree'
    BY <1>7 DEF ClaimRefused, Claimable, Done, Leave, GoTo, At
<1>8. ASSUME NEW w \in Workers, Resume(w) PROVE RowsAgree'
    BY <1>8 DEF Resume, Candidates, LinkedTo, OfTopic, Entry, GoTo, At
<1>9. ASSUME NEW w \in Workers, LoseLease(w) PROVE RowsAgree'
    BY <1>9 DEF LoseLease, Holds, Leave, GoTo, At
<1>10. ASSUME NEW w \in Workers, Renew(w) PROVE RowsAgree'
    BY <1>10 DEF Renew, Holds, GoTo, At
<1>11. ASSUME NEW w \in Workers, Commit(w) PROVE RowsAgree'
    BY <1>11 DEF Commit, CommitStory, Target, Holds, GoTo, At
<1>12. ASSUME NEW w \in Workers, CommitLost(w) PROVE RowsAgree'
    <2>1. C(w) \in Contents /\ C(w) \in enrolled
        BY <1>12 DEF CommitLost, At
    <2>2. \A c \in Contents : c # C(w) =>
            \A l : l[2] = c => (l \in links' <=> l \in links)
        BY <1>12 DEF CommitLost, CommitStory
    <2>3. links \subseteq links'
        BY <1>12 DEF CommitLost, CommitStory
    <2>4. UNCHANGED <<item, enrolled, stage, storyId, lease, lineage>>
        BY <1>12 DEF CommitLost
    <2>5. QED
        BY <2>1, <2>2, <2>3, <2>4
<1>13. ASSUME NEW w \in Workers, Classify(w) PROVE RowsAgree'
    <2>1. C(w) \in Contents /\ C(w) \in enrolled
        BY <1>13 DEF Classify, At
    <2>2. \A c \in Contents : c # C(w) => lineage'[c] = lineage[c]
        BY <1>13 DEF Classify
    <2>3. UNCHANGED <<item, enrolled, stage, storyId, lease, links>>
        BY <1>13 DEF Classify
    <2>4. QED
        BY <2>1, <2>2, <2>3, ZenonT(60)
<1>14. ASSUME NEW w \in Workers, AdvanceLineage(w) PROVE RowsAgree'
    BY <1>14 DEF AdvanceLineage, Advance, Holds, GoTo, At
<1>15. ASSUME NEW w \in Workers, MatchMissions(w) PROVE RowsAgree'
    BY <1>15 DEF MatchMissions, GoTo, At
<1>16. ASSUME NEW w \in Workers, AdvanceMissions(w) PROVE RowsAgree'
    BY <1>16 DEF AdvanceMissions, Advance, Holds, GoTo, At
<1>17. ASSUME NEW w \in Workers, Signal(w) PROVE RowsAgree'
    BY <1>17 DEF Signal, GoTo, At
<1>18. ASSUME NEW w \in Workers, Complete(w) PROVE RowsAgree'
    BY <1>18 DEF Complete, Holds, GoTo, At
<1>19. ASSUME NEW w \in Workers, Return(w) PROVE RowsAgree'
    BY <1>19 DEF Return, InsertedOutcome, Leave, GoTo, At
<1>20. ASSUME NEW w \in Workers, NEW h \in {None, Orphan}, Break(w, h) PROVE RowsAgree'
    BY <1>20 DEF Break, Leave, GoTo, At
<1>21. ASSUME NEW c \in Contents, ExpireOrphan(c) PROVE RowsAgree'
    BY <1>21 DEF ExpireOrphan
<1>22. ASSUME NEW c \in Contents, ExpireLive(c) PROVE RowsAgree'
    BY <1>22 DEF ExpireLive, At
<1>23. CASE UNCHANGED vars
    BY <1>23
<1>24. QED
    BY <1>1, <1>2, <1>3, <1>4, <1>5, <1>6, <1>7, <1>8, <1>9, <1>10, <1>11, <1>12, <1>13,
       <1>14, <1>15, <1>16, <1>17, <1>18, <1>19, <1>20, <1>21, <1>22, <1>23 DEF Next,
       Step, Throw, Die

(* A lease is taken at the claim and gone when the call leaves.               *)
LEMMA HeldStep == IInv /\ [Next]_vars => Held'
<1> SUFFICES ASSUME IInv, [Next]_vars PROVE Held'
    OBVIOUS
<1>0. TypeOK /\ Located /\ RowsAgree /\ Held /\ Classified /\ Behind /\ StageHonest
      /\ Linked /\ ReturnsOnlyComplete /\ Counted /\ RawNamed
    BY DEF IInv
<1> USE <1>0, WiringAssumption, NullAssumption DEF TypeOK, Located, RowsAgree, Held,
      HolderPhases, C, vars, rows, items, progress, leases, storyRows, derived, locals,
      queue, bounds
<1>1. ASSUME NEW w \in Workers, NEW m \in Messages, Deliver(w, m) PROVE Held'
    BY <1>1 DEF Deliver, GoTo, At
<1>2. ASSUME NEW w \in Workers, InsertItem(w) PROVE Held'
    BY <1>2 DEF InsertItem, GoTo, At
<1>3. ASSUME NEW w \in Workers, AdoptItem(w) PROVE Held'
    BY <1>3 DEF AdoptItem, GoTo, At
<1>4. ASSUME NEW w \in Workers, Check(w) PROVE Held'
    BY <1>4 DEF Check, Redundant, Done, GoTo, At
<1>5. ASSUME NEW w \in Workers, Enroll(w) PROVE Held'
    <2>1. Enrolled(w)
        BY <1>5, EnrollFacts
    <2>2. lease[C(w)] = None /\ phase[w] \notin HolderPhases
        BY <2>1 DEF Enrolled
    <2>3. UNCHANGED <<lease, msg>>
        BY <2>1 DEF Enrolled
    <2>4. \A c \in Contents, v \in Workers : lease[c] = v => v # w /\ c # C(w)
        BY <2>2
    <2>5. ASSUME NEW c \in Contents, NEW v \in Workers, lease'[c] = v
          PROVE  phase'[v] \in HolderPhases /\ C(v)' = c
        <3>1. v # w /\ phase'[v] = phase[v]
            BY <2>1, <2>3, <2>4, <2>5 DEF Enrolled
        <3>2. QED
            BY <2>3, <2>5, <3>1
    <2>6. ASSUME NEW v \in Workers, phase'[v] \in {"renew", "commit"}, lease'[C(v)'] = v
          PROVE  stage'[C(v)'] = 0
        <3>1. v # w /\ phase'[v] = phase[v]
            BY <2>1, <2>6 DEF Enrolled
        <3>2. C(v) \in Contents /\ C(v)' = C(v)
            BY <2>3, <2>6, <3>1
        <3>3. stage'[C(v)] = stage[C(v)]
            BY <2>1, <2>3, <2>4, <2>6, <3>2 DEF Enrolled
        <3>4. QED
            BY <2>3, <2>6, <3>1, <3>2, <3>3
    <2>7. QED
        BY <2>5, <2>6
<1>6. ASSUME NEW w \in Workers, Claim(w) PROVE Held'
    BY <1>6 DEF Claim, Claimable, GoTo, At
<1>7. ASSUME NEW w \in Workers, ClaimRefused(w) PROVE Held'
    <2>0. UNCHANGED <<rows, queue, bounds>>
        BY <1>7 DEF ClaimRefused
    <2>1. CASE Leave(w)
        <3>1. Left(w)
            BY <2>1, LeaveFacts
        <3>2. \A c \in Contents : lease[c] # w
            BY <1>7 DEF ClaimRefused, At
        <3>3. \A v \in Workers : v # w => phase'[v] = phase[v] /\ msg'[v] = msg[v]
            BY <3>1 DEF Left
        <3>4. phase'[w] = "idle"
            BY <3>1 DEF Left
        <3>5. QED
            BY <2>0, <3>2, <3>3, <3>4
    <2>2. CASE GoTo(w, "return") /\ UNCHANGED locals
        BY <1>7, <2>0, <2>2 DEF ClaimRefused, At, GoTo
    <2>3. QED
        BY <1>7, <2>1, <2>2 DEF ClaimRefused
<1>8. ASSUME NEW w \in Workers, Resume(w) PROVE Held'
    <2>1. Resumed(w)
        BY <1>8, ResumeFacts
    <2>2. UNCHANGED <<lease, stage, msg>>
        BY <2>1 DEF Resumed
    <2>3. stage[C(w)] = 4 => lease[C(w)] = None
        BY <2>1 DEF Resumed
    <2>10. stage[C(w)] \in {0, 1, 2, 3, 4}
        BY <2>1 DEF Resumed, Stages
    <2>4. phase'[w] \in HolderPhases \/ stage[C(w)] = 4
        BY <2>1, <2>10 DEF Resumed
    <2>5. phase'[w] \in {"renew", "commit"} => stage[C(w)] = 0
        BY <2>1, <2>10 DEF Resumed
    <2>6. \A v \in Workers : v # w => phase'[v] = phase[v]
        BY <2>1 DEF Resumed
    <2>7. \A c \in Contents, v \in Workers : lease'[c] = v => phase'[v] \in HolderPhases /\ C(v)' = c
        BY <2>2, <2>3, <2>4, <2>6
    <2>8. \A v \in Workers : phase'[v] \in {"renew", "commit"} /\ lease'[C(v)'] = v => stage'[C(v)'] = 0
        BY <2>2, <2>5, <2>6
    <2>9. QED
        BY <2>7, <2>8
<1>9. ASSUME NEW w \in Workers, LoseLease(w) PROVE Held'
    <2>1. phase[w] \in {"renew", "advance2", "advance3", "complete"} /\ C(w) \in Contents
        BY <1>9 DEF LoseLease
    <2>2. lease[C(w)] # w
        <3>1. stage[C(w)] \in Stages /\ (stage[C(w)] = 4 => lease[C(w)] = None)
            BY <2>1
        <3>2. \A n \in Stages : n = 4 \/ n < 4
            BY DEF Stages
        <3>3. QED
            BY <1>9, <3>1, <3>2 DEF LoseLease, Holds
    <2>3. Left(w) /\ UNCHANGED <<lease, stage>>
        BY <1>9, LeaveFacts DEF LoseLease
    <2>4. \A c \in Contents : lease[c] # w
        BY <2>2
    <2>5. \A v \in Workers : v # w => phase'[v] = phase[v] /\ msg'[v] = msg[v]
        BY <2>3 DEF Left
    <2>6. phase'[w] = "idle"
        BY <2>3 DEF Left
    <2>7. \A c \in Contents, v \in Workers : lease'[c] = v => phase'[v] \in HolderPhases /\ C(v)' = c
        BY <2>3, <2>4, <2>5
    <2>8. \A v \in Workers : phase'[v] \in {"renew", "commit"} /\ lease'[C(v)'] = v => stage'[C(v)'] = 0
        BY <2>3, <2>5, <2>6
    <2>9. QED
        BY <2>7, <2>8
<1>10. ASSUME NEW w \in Workers, Renew(w) PROVE Held'
    BY <1>10 DEF Renew, Holds, GoTo, At
<1>11. ASSUME NEW w \in Workers, Commit(w) PROVE Held'
    BY <1>11 DEF Commit, CommitStory, Target, Holds, GoTo, At
<1>12. ASSUME NEW w \in Workers, CommitLost(w) PROVE Held'
    BY <1>12 DEF CommitLost, CommitStory, Target, Holds, Leave, GoTo, At
<1>13. ASSUME NEW w \in Workers, Classify(w) PROVE Held'
    BY <1>13 DEF Classify, GoTo, At
<1>14. ASSUME NEW w \in Workers, AdvanceLineage(w) PROVE Held'
    BY <1>14 DEF AdvanceLineage, Advance, Holds, GoTo, At
<1>15. ASSUME NEW w \in Workers, MatchMissions(w) PROVE Held'
    BY <1>15 DEF MatchMissions, GoTo, At
<1>16. ASSUME NEW w \in Workers, AdvanceMissions(w) PROVE Held'
    BY <1>16 DEF AdvanceMissions, Advance, Holds, GoTo, At
<1>17. ASSUME NEW w \in Workers, Signal(w) PROVE Held'
    BY <1>17 DEF Signal, GoTo, At
<1>18. ASSUME NEW w \in Workers, Complete(w) PROVE Held'
    BY <1>18 DEF Complete, Holds, GoTo, At
<1>19. ASSUME NEW w \in Workers, Return(w) PROVE Held'
    BY <1>19 DEF Return, InsertedOutcome, Leave, GoTo, At
<1>20. ASSUME NEW w \in Workers, NEW h \in {None, Orphan}, Break(w, h) PROVE Held'
    BY <1>20 DEF Break, Leave, GoTo, At
<1>21. ASSUME NEW c \in Contents, ExpireOrphan(c) PROVE Held'
    BY <1>21 DEF ExpireOrphan
<1>22. ASSUME NEW c \in Contents, ExpireLive(c) PROVE Held'
    BY <1>22 DEF ExpireLive, At
<1>23. CASE UNCHANGED vars
    BY <1>23
<1>24. QED
    BY <1>1, <1>2, <1>3, <1>4, <1>5, <1>6, <1>7, <1>8, <1>9, <1>10, <1>11, <1>12, <1>13,
       <1>14, <1>15, <1>16, <1>17, <1>18, <1>19, <1>20, <1>21, <1>22, <1>23 DEF Next,
       Step, Throw, Die

(* Every step keeps the types.                                                *)
LEMMA TypeStep == IInv /\ [Next]_vars => TypeOK'
<1> SUFFICES ASSUME IInv, [Next]_vars PROVE TypeOK'
    OBVIOUS
<1>0. TypeOK /\ Located /\ RowsAgree /\ Held /\ Classified /\ Behind /\ StageHonest
      /\ Linked /\ ReturnsOnlyComplete /\ Counted /\ RawNamed
    BY DEF IInv
<1> USE <1>0, WiringAssumption, NullAssumption DEF TypeOK, Located, C, Phases, Stages,
      StoryIds, vars, rows, items, progress, leases, storyRows, derived, locals, queue,
      bounds
<1>1. ASSUME NEW w \in Workers, NEW m \in Messages, Deliver(w, m) PROVE TypeOK'
    BY <1>1 DEF Deliver, GoTo, At
<1>2. ASSUME NEW w \in Workers, InsertItem(w) PROVE TypeOK'
    <2>1. C(w) \in Contents /\ msg[w] \in Messages
        BY <1>2 DEF InsertItem, At
    <2>2. item' \in [Contents -> Messages \cup {NoRaw, None}]
        BY <1>2, <2>1 DEF InsertItem
    <2>3. origin' \in [Contents -> Messages \cup {None}]
        BY <1>2, <2>1 DEF InsertItem, OriginOf
    <2>4. created' \in [Workers -> BOOLEAN] /\ phase' \in [Workers -> Phases] /\ enrolled' \subseteq Contents
        BY <1>2, <2>1 DEF InsertItem, GoTo
    <2>5. QED
        BY <1>2, <2>2, <2>3, <2>4 DEF InsertItem
<1>3. ASSUME NEW w \in Workers, AdoptItem(w) PROVE TypeOK'
    BY <1>3 DEF AdoptItem, GoTo, At
<1>4. ASSUME NEW w \in Workers, Check(w) PROVE TypeOK'
    BY <1>4 DEF Check, Redundant, Done, GoTo, At
<1>5. ASSUME NEW w \in Workers, Enroll(w) PROVE TypeOK'
    <2>1. Enrolled(w)
        BY <1>5, EnrollFacts
    <2>2. Redundant(w) \subseteq HasRaw
        BY DEF Redundant
    <2>3. rawGone' \subseteq HasRaw /\ enrolled' \subseteq Contents
        BY <2>1, <2>2 DEF Enrolled
    <2>4. QED
        BY <2>1, <2>3 DEF Enrolled
<1>6. ASSUME NEW w \in Workers, Claim(w) PROVE TypeOK'
    BY <1>6 DEF Claim, Claimable, GoTo, At
<1>7. ASSUME NEW w \in Workers, ClaimRefused(w) PROVE TypeOK'
    <2>1. CASE Leave(w)
        BY <1>7, <2>1, LeaveFacts DEF ClaimRefused, Left
    <2>2. CASE GoTo(w, "return") /\ UNCHANGED locals
        BY <1>7, <2>2 DEF ClaimRefused, GoTo
    <2>3. QED
        BY <1>7, <2>1, <2>2 DEF ClaimRefused
<1>8. ASSUME NEW w \in Workers, Resume(w) PROVE TypeOK'
    <2>1. Resumed(w)
        BY <1>8, ResumeFacts
    <2>2. phase'[w] \in Phases
        BY <2>1 DEF Resumed
    <2>3. phase' \in [Workers -> Phases] /\ chosen' \in [Workers -> StoryIds \cup {0}]
        BY <2>1, <2>2 DEF Resumed
    <2>4. QED
        BY <2>1, <2>3 DEF Resumed
<1>9. ASSUME NEW w \in Workers, LoseLease(w) PROVE TypeOK'
    BY <1>9 DEF LoseLease, Holds, Leave, GoTo, At
<1>10. ASSUME NEW w \in Workers, Renew(w) PROVE TypeOK'
    BY <1>10 DEF Renew, Holds, GoTo, At
<1>11. ASSUME NEW w \in Workers, Commit(w) PROVE TypeOK'
    BY <1>11 DEF Commit, CommitStory, Target, Holds, GoTo, At
<1>12. ASSUME NEW w \in Workers, CommitLost(w) PROVE TypeOK'
    BY <1>12 DEF CommitLost, CommitStory, Target, Holds, Leave, GoTo, At
<1>13. ASSUME NEW w \in Workers, Classify(w) PROVE TypeOK'
    <2>1. C(w) \in Contents
        BY <1>13 DEF Classify, At
    <2>2. skipped' \subseteq Contents
        BY <1>13, <2>1 DEF Classify, Skip
    <2>3. lineage' \in [Contents -> StoryIds \cup {0}]
        <3>1. \/ lineage' = [lineage EXCEPT ![C(w)] = chosen[w]]
              \/ lineage' = lineage
            BY <1>13 DEF Classify
        <3>2. QED
            BY <3>1
    <2>4. phase' \in [Workers -> Phases]
        BY <1>13 DEF Classify, GoTo
    <2>5. UNCHANGED <<items, rawGone, progress, leases, storyRows, matched, dirtyFor, locals,
                      queue, bounds>>
        BY <1>13 DEF Classify
    <2>6. QED
        BY <2>2, <2>3, <2>4, <2>5
<1>14. ASSUME NEW w \in Workers, AdvanceLineage(w) PROVE TypeOK'
    BY <1>14 DEF AdvanceLineage, Advance, Holds, GoTo, At
<1>15. ASSUME NEW w \in Workers, MatchMissions(w) PROVE TypeOK'
    <2>1. chosen[w] \in StoryIds
        BY <1>15, ZenonT(60) DEF MatchMissions, At, Behind, StageHonest
    <2>2. QED
        BY <1>15, <2>1 DEF MatchMissions, GoTo
<1>16. ASSUME NEW w \in Workers, AdvanceMissions(w) PROVE TypeOK'
    BY <1>16 DEF AdvanceMissions, Advance, Holds, GoTo, At
<1>17. ASSUME NEW w \in Workers, Signal(w) PROVE TypeOK'
    BY <1>17 DEF Signal, GoTo, At
<1>18. ASSUME NEW w \in Workers, Complete(w) PROVE TypeOK'
    BY <1>18 DEF Complete, Holds, GoTo, At
<1>19. ASSUME NEW w \in Workers, Return(w) PROVE TypeOK'
    <2>1. [msg |-> msg[w], inserted |-> InsertedOutcome(w)] \in [msg : Messages, inserted : BOOLEAN]
        BY <1>19 DEF Return, At, InsertedOutcome
    <2>2. reports' \subseteq [msg : Messages, inserted : BOOLEAN]
        BY <1>19, <2>1 DEF Return
    <2>3. acked' \subseteq Messages /\ faults' \in 0..MaxFaults
        BY <1>19 DEF Return, At
    <2>4. UNCHANGED <<rows, expiries, overrun>> /\ Leave(w)
        BY <1>19 DEF Return
    <2>5. QED
        BY <2>2, <2>3, <2>4, LeaveFacts DEF Left
<1>20. ASSUME NEW w \in Workers, NEW h \in {None, Orphan}, Break(w, h) PROVE TypeOK'
    BY <1>20 DEF Break, Leave, GoTo, At
<1>21. ASSUME NEW c \in Contents, ExpireOrphan(c) PROVE TypeOK'
    BY <1>21 DEF ExpireOrphan
<1>22. ASSUME NEW c \in Contents, ExpireLive(c) PROVE TypeOK'
    BY <1>22 DEF ExpireLive, At
<1>23. CASE UNCHANGED vars
    BY <1>23
<1>24. QED
    BY <1>1, <1>2, <1>3, <1>4, <1>5, <1>6, <1>7, <1>8, <1>9, <1>10, <1>11, <1>12, <1>13,
       <1>14, <1>15, <1>16, <1>17, <1>18, <1>19, <1>20, <1>21, <1>22, <1>23 DEF Next,
       Step, Throw, Die

(* A row past its first stage has a story.                                   *)
LEMMA StoryGiven == IInv => \A c \in enrolled : stage[c] >= 1 => storyId[c] # 0
<1> SUFFICES ASSUME IInv, NEW c \in enrolled, stage[c] >= 1 PROVE storyId[c] # 0
    OBVIOUS
<1>1. <<storyId[c], c>> \in links /\ links \subseteq StoryIds \X Contents
    BY DEF IInv, StageHonest, TypeOK
<1>2. storyId[c] \in StoryIds
    BY <1>1
<1>3. QED
    BY <1>2 DEF StoryIds

LEMMA HonestDone == IInv => \A c \in enrolled : stage[c] >= 2 => LineageDone(c)
<1> SUFFICES ASSUME IInv, NEW c \in enrolled, stage[c] >= 2 PROVE LineageDone(c)
    OBVIOUS
<1>1. stage[c] \in {0, 1, 2, 3, 4}
    BY DEF IInv, TypeOK, Stages
<1>2. storyId[c] # 0
    BY <1>1, StoryGiven
<1>3. QED
    BY <1>2 DEF IInv, StageHonest, LineageDone

(* Classification writes the story of the completion row, or nothing.        *)
LEMMA ClassifyFacts ==
  ASSUME IInv, NEW w \in Workers, Classify(w)
  PROVE  /\ LineageDone(C(w))'
         /\ \A c \in Contents : LineageDone(c) => LineageDone(c)'
         /\ Classified'
<1>0. TypeOK /\ Located /\ Behind /\ Classified
    BY DEF IInv
<1>1. /\ C(w) \in Contents /\ C(w) \in enrolled /\ item[C(w)] # None
      /\ chosen[w] = storyId[C(w)] /\ stage[C(w)] >= 1
    BY <1>0, WiringAssumption DEF Classify, At, Located, Behind, C, TypeOK
<1>2. chosen[w] # 0
    BY <1>1, StoryGiven
<1>3. PICK enabled \in LineageSettings :
        /\ lineage' = IF enabled THEN [lineage EXCEPT ![C(w)] = chosen[w]] ELSE lineage
        /\ skipped' = IF enabled THEN skipped \ {C(w)} ELSE Skip(C(w))
    BY DEF Classify
<1>4. enabled \in BOOLEAN /\ C(w) \in DOMAIN lineage
    BY <1>0, <1>1, WiringAssumption DEF TypeOK
<1>5. /\ \A c \in Contents : c # C(w) => lineage'[c] = lineage[c] /\ (c \in skipped => c \in skipped')
      /\ \/ lineage'[C(w)] = storyId[C(w)]
         \/ lineage'[C(w)] = lineage[C(w)] /\ (lineage[C(w)] = 0 => C(w) \in skipped')
    BY <1>0, <1>1, <1>3, <1>4 DEF TypeOK, Skip
<1>6. UNCHANGED <<item, enrolled, storyId, msg>>
    BY DEF Classify, items, progress, locals
<1>7. C(w)' = C(w)
    BY <1>6 DEF C
<1>8. Classified'
    BY <1>0, <1>1, <1>5, <1>6 DEF Classified
<1>9. lineage'[C(w)] # 0 \/ C(w) \in skipped'
    BY <1>1, <1>2, <1>5
<1>10. QED
    BY <1>5, <1>7, <1>8, <1>9 DEF LineageDone

(* A lineage row and the completion row of an item name one story.           *)
LEMMA ClassifiedStep == IInv /\ [Next]_vars => Classified'
<1> SUFFICES ASSUME IInv, [Next]_vars PROVE Classified'
    OBVIOUS
<1>0. TypeOK /\ Located /\ RowsAgree /\ Held /\ Classified /\ Behind
    BY DEF IInv
<1>1. ASSUME NEW w \in Workers, InsertItem(w) PROVE Classified'
    <2>1. C(w) \in Contents /\ item[C(w)] = None
        BY <1>0, <1>1, WiringAssumption DEF InsertItem, At, Located, C, TypeOK
    <2>2. lineage[C(w)] = 0 /\ UNCHANGED <<lineage, storyId>>
        BY <1>0, <1>1, <2>1 DEF Classified, InsertItem, derived, progress
    <2>3. /\ \A c \in Contents : c # C(w) => item'[c] = item[c]
          /\ enrolled' = enrolled \cup {C(w)}
        BY <1>0, <1>1 DEF InsertItem, TypeOK
    <2>4. QED
        BY <1>0, <2>1, <2>2, <2>3 DEF Classified
<1>2. ASSUME NEW w \in Workers, Enroll(w) PROVE Classified'
    <2>1. Enrolled(w)
        BY <1>2, EnrollFacts
    <2>2. /\ C(w) \in Contents /\ C(w) \notin enrolled /\ enrolled' = enrolled \cup {C(w)}
          /\ UNCHANGED <<item, lineage>>
          /\ \A c \in Contents : c # C(w) => storyId'[c] = storyId[c]
        BY <2>1 DEF Enrolled
    <2>3. lineage[C(w)] # 0 => lineage[C(w)] = storyId'[C(w)]
        <3>1. lineage[C(w)] # 0 => <<storyId'[C(w)], C(w)>> \in links
            BY <2>1 DEF Enrolled
        <3>2. \A l \in links : l[2] = C(w) /\ lineage[C(w)] # 0 => l[1] = lineage[C(w)]
            BY <1>0, <2>2 DEF RowsAgree
        <3>3. \A x : <<x, C(w)>>[1] = x /\ <<x, C(w)>>[2] = C(w)
            OBVIOUS
        <3>4. QED
            BY <3>1, <3>2, <3>3
    <2>4. QED
        BY <1>0, <2>2, <2>3 DEF Classified
<1>3. ASSUME NEW w \in Workers, Commit(w) PROVE Classified'
    <2>1. /\ C(w) \in Contents /\ C(w) \in enrolled /\ lease[C(w)] = w /\ phase[w] = "commit"
        BY <1>0, <1>3, WiringAssumption DEF Commit, Holds, At, Located, C, TypeOK
    <2>2. storyId[C(w)] = 0
        BY <1>0, <2>1 DEF Held, RowsAgree
    <2>3. lineage[C(w)] = 0
        BY <1>0, <2>1, <2>2 DEF Classified
    <2>4. /\ UNCHANGED <<item, enrolled, lineage>>
          /\ \A c \in Contents : c # C(w) => storyId'[c] = storyId[c]
        BY <1>0, <1>3 DEF Commit, items, derived, TypeOK
    <2>5. QED
        BY <1>0, <2>3, <2>4 DEF Classified
<1>4. ASSUME NEW w \in Workers, Classify(w) PROVE Classified'
    BY <1>4, ClassifyFacts
<1>5. ASSUME NEW w \in Workers, AdvanceLineage(w) \/ AdvanceMissions(w) PROVE Classified'
    <2>1. C(w) \in Contents /\ chosen[w] = storyId[C(w)]
        BY <1>0, <1>5, WiringAssumption
           DEF AdvanceLineage, AdvanceMissions, Advance, At, Located, Behind, C, TypeOK
    <2>2. UNCHANGED <<item, enrolled, lineage>> /\ storyId' = [storyId EXCEPT ![C(w)] = chosen[w]]
        BY <1>5 DEF AdvanceLineage, AdvanceMissions, Advance, items, derived
    <2>3. storyId' = storyId
        BY <1>0, <2>1, <2>2 DEF TypeOK
    <2>4. QED
        BY <1>0, <2>2, <2>3 DEF Classified
<1>6. ASSUME UNCHANGED <<item, enrolled, lineage, storyId>> PROVE Classified'
    BY <1>0, <1>6 DEF Classified
<1>7. QED
    BY <1>1, <1>2, <1>3, <1>4, <1>5, <1>6
       DEF Next, Step, Deliver, AdoptItem, Check, Claim, ClaimRefused, Resume, LoseLease, Renew,
           CommitLost, MatchMissions, Signal, Complete, Return, Throw, Die, Break, ExpireOrphan,
           ExpireLive, vars, rows, items, progress, derived

(* What a call did stays done when another takes its lease over.              *)
LEMMA BehindStep == IInv /\ [Next]_vars => Behind'
<1> SUFFICES ASSUME IInv, [Next]_vars PROVE Behind'
    OBVIOUS
<1>0. TypeOK /\ Located /\ RowsAgree /\ Held /\ Classified /\ Behind /\ StageHonest
      /\ Linked /\ ReturnsOnlyComplete /\ Counted /\ RawNamed
    BY DEF IInv
<1> USE <1>0, WiringAssumption, NullAssumption DEF TypeOK, Located, RowsAgree, Held,
      Behind, LineageDone, StageHonest, HolderPhases, C, Stages, vars, rows, items,
      progress, leases, storyRows, derived, locals, queue, bounds
<1>1. ASSUME NEW w \in Workers, NEW m \in Messages, Deliver(w, m) PROVE Behind'
    BY <1>1 DEF Deliver, GoTo, At
<1>2. ASSUME NEW w \in Workers, InsertItem(w) PROVE Behind'
    BY <1>2, SMTT(30) DEF InsertItem, GoTo, At
<1>3. ASSUME NEW w \in Workers, AdoptItem(w) PROVE Behind'
    BY <1>3 DEF AdoptItem, GoTo, At
<1>4. ASSUME NEW w \in Workers, Check(w) PROVE Behind'
    BY <1>4 DEF Check, Redundant, Done, GoTo, At
<1>5. ASSUME NEW w \in Workers, Enroll(w) PROVE Behind'
    <2>1. Enrolled(w)
        BY <1>5, EnrollFacts
    <2>2. QED
        BY <2>1 DEF Enrolled
<1>6. ASSUME NEW w \in Workers, Claim(w) PROVE Behind'
    BY <1>6 DEF Claim, Claimable, GoTo, At
<1>7. ASSUME NEW w \in Workers, ClaimRefused(w) PROVE Behind'
    BY <1>7 DEF ClaimRefused, Claimable, Done, Leave, GoTo, At
<1>8. ASSUME NEW w \in Workers, Resume(w) PROVE Behind'
    <2>1. Resumed(w)
        BY <1>8, ResumeFacts
    <2>2. stage[C(w)] \in {0, 1, 2, 3, 4}
        BY <2>1 DEF Resumed
    <2>3. ASSUME stage[C(w)] >= 1 PROVE chosen'[w] = storyId[C(w)]
        <3>1. <<storyId[C(w)], C(w)>> \in links
            BY <2>1, <2>3 DEF Resumed
        <3>2. storyId[C(w)] \in StoryIds
            BY <3>1
        <3>3. storyId[C(w)] # 0
            BY <3>2 DEF StoryIds
        <3>4. QED
            BY <2>1, <3>3 DEF Resumed
    <2>4. UNCHANGED <<stage, storyId, lineage, skipped, matched, dirtyFor, msg>>
        BY <2>1 DEF Resumed
    <2>5. C(w) \in enrolled
        BY <2>1 DEF Resumed
    <2>6. /\ phase'[w] \in {"lineage", "advance2", "missions", "advance3", "signal", "complete"} =>
               stage[C(w)] >= 1 /\ chosen'[w] = storyId[C(w)]
          /\ phase'[w] \in {"advance2", "missions", "advance3", "signal", "complete"} =>
               LineageDone(C(w))
          /\ phase'[w] \in {"advance3", "signal", "complete"} => chosen'[w] \in matched
          /\ phase'[w] = "complete" => C(w) \in dirtyFor
          /\ phase'[w] = "return" => stage[C(w)] = 4
        <3>7. stage[C(w)] >= 2 => LineageDone(C(w))
            BY <2>5, HonestDone
        <3> HIDE DEF LineageDone
        <3>1. CASE stage[C(w)] = 0
            BY <2>1, <3>1 DEF Resumed
        <3>2. CASE stage[C(w)] = 1
            BY <2>1, <2>3, <3>2 DEF Resumed
        <3>3. CASE stage[C(w)] = 2
            BY <2>1, <2>3, <3>3, <3>7 DEF Resumed
        <3>4. CASE stage[C(w)] = 3
            BY <2>1, <2>3, <2>5, <3>4, <3>7 DEF Resumed
        <3>5. CASE stage[C(w)] = 4
            BY <2>1, <3>5 DEF Resumed
        <3>6. QED
            BY <2>2, <3>1, <3>2, <3>3, <3>4, <3>5
    <2>7. \A v \in Workers : v # w => phase'[v] = phase[v] /\ chosen'[v] = chosen[v]
        BY <2>1 DEF Resumed
    <2>8. QED
        BY <2>4, <2>6, <2>7
<1>9. ASSUME NEW w \in Workers, LoseLease(w) PROVE Behind'
    BY <1>9 DEF LoseLease, Holds, Leave, GoTo, At
<1>10. ASSUME NEW w \in Workers, Renew(w) PROVE Behind'
    BY <1>10 DEF Renew, Holds, GoTo, At
<1>11. ASSUME NEW w \in Workers, Commit(w) PROVE Behind'
    BY <1>11 DEF Commit, CommitStory, Target, Holds, GoTo, At
<1>12. ASSUME NEW w \in Workers, CommitLost(w) PROVE Behind'
    BY <1>12 DEF CommitLost, CommitStory, Target, Holds, Leave, GoTo, At
<1>13. ASSUME NEW w \in Workers, Classify(w) PROVE Behind'
    <2>1. \A c \in Contents : LineageDone(c) => LineageDone(c)'
        BY <1>13, ClassifyFacts
    <2>2. LineageDone(C(w))' /\ phase[w] = "lineage"
        BY <1>13, ClassifyFacts DEF Classify, At
    <2>3. UNCHANGED <<stage, storyId, matched, dirtyFor, msg, chosen>>
        BY <1>13 DEF Classify
    <2>4. phase'[w] = "advance2" /\ \A v \in Workers : v # w => phase'[v] = phase[v]
        BY <1>13 DEF Classify, GoTo
    <2> HIDE DEF LineageDone
    <2>5. QED
        BY <2>1, <2>2, <2>3, <2>4
<1>14. ASSUME NEW w \in Workers, AdvanceLineage(w) PROVE Behind'
    BY <1>14 DEF AdvanceLineage, Advance, Holds, GoTo, At
<1>15. ASSUME NEW w \in Workers, MatchMissions(w) PROVE Behind'
    BY <1>15 DEF MatchMissions, GoTo, At
<1>16. ASSUME NEW w \in Workers, AdvanceMissions(w) PROVE Behind'
    BY <1>16 DEF AdvanceMissions, Advance, Holds, GoTo, At
<1>17. ASSUME NEW w \in Workers, Signal(w) PROVE Behind'
    BY <1>17 DEF Signal, GoTo, At
<1>18. ASSUME NEW w \in Workers, Complete(w) PROVE Behind'
    BY <1>18 DEF Complete, Holds, GoTo, At
<1>19. ASSUME NEW w \in Workers, Return(w) PROVE Behind'
    BY <1>19 DEF Return, InsertedOutcome, Leave, GoTo, At
<1>20. ASSUME NEW w \in Workers, NEW h \in {None, Orphan}, Break(w, h) PROVE Behind'
    BY <1>20 DEF Break, Leave, GoTo, At
<1>21. ASSUME NEW c \in Contents, ExpireOrphan(c) PROVE Behind'
    BY <1>21 DEF ExpireOrphan
<1>22. ASSUME NEW c \in Contents, ExpireLive(c) PROVE Behind'
    BY <1>22 DEF ExpireLive, At
<1>23. CASE UNCHANGED vars
    BY <1>23
<1>24. ASSUME NEW w \in Workers, Step(w) PROVE Behind'
    BY <1>2, <1>3, <1>4, <1>5, <1>6, <1>7, <1>8, <1>9, <1>10, <1>11, <1>12, <1>13,
       <1>14, <1>15, <1>16, <1>17, <1>18, <1>19, <1>24 DEF Step
<1>25. QED
    BY <1>1, <1>20, <1>21, <1>22, <1>23, <1>24 DEF Next, Throw, Die

(* A call that advances a row has done what the new stage stands for.        *)
LEMMA Advanced ==
  ASSUME TypeOK, StageHonest, NEW k \in Contents, k \in enrolled, stage[k] >= 1,
         stage'[k] \in {2, 3, 4},
         \A c \in Contents : c # k => stage'[c] = stage[c],
         UNCHANGED <<enrolled, storyId, links, lineage, skipped, matched, dirtyFor>>,
         lineage[k] = storyId[k] \/ (lineage[k] = 0 /\ k \in skipped),
         stage'[k] >= 3 => stage[k] >= 3 \/ storyId[k] \in matched,
         stage'[k] = 4 => stage[k] = 4 \/ k \in dirtyFor
  PROVE  StageHonest'
<1> SUFFICES ASSUME NEW c \in enrolled
             PROVE  /\ stage'[c] >= 1 => <<storyId[c], c>> \in links
                    /\ stage'[c] >= 2 =>
                         lineage[c] = storyId[c] \/ (lineage[c] = 0 /\ c \in skipped)
                    /\ stage'[c] >= 3 => storyId[c] \in matched
                    /\ stage'[c] = 4 => c \in dirtyFor
    BY DEF StageHonest
<1>1. CASE c = k
    BY <1>1 DEF StageHonest
<1>2. CASE c # k
    BY <1>2 DEF StageHonest, TypeOK
<1>3. QED
    BY <1>1, <1>2

(* A stage advances only past what was done for it.                           *)
LEMMA StageStep == IInv /\ [Next]_vars => StageHonest'
<1> SUFFICES ASSUME IInv, [Next]_vars PROVE StageHonest'
    OBVIOUS
<1>0. TypeOK /\ Located /\ RowsAgree /\ Held /\ Classified /\ Behind /\ StageHonest
      /\ Linked /\ ReturnsOnlyComplete /\ Counted /\ RawNamed
    BY DEF IInv
<1> USE <1>0, WiringAssumption, NullAssumption DEF TypeOK, Located, RowsAgree, Held,
      Behind, StageHonest, HolderPhases, C, Stages, vars, rows, items, progress, leases,
      storyRows, derived, locals, queue, bounds
<1>1. ASSUME NEW w \in Workers, NEW m \in Messages, Deliver(w, m) PROVE StageHonest'
    BY <1>1 DEF Deliver, GoTo, At
<1>2. ASSUME NEW w \in Workers, InsertItem(w) PROVE StageHonest'
    <2>1. C(w) \in Contents /\ C(w) \notin enrolled
        BY <1>2, ZenonT(60) DEF InsertItem, At
    <2>2. stage[C(w)] = 0 /\ enrolled' = enrolled \cup {C(w)}
        BY <1>2, <2>1 DEF InsertItem
    <2>3. UNCHANGED <<stage, storyId, links, lineage, skipped, matched, dirtyFor>>
        BY <1>2 DEF InsertItem
    <2>4. QED
        BY <2>2, <2>3
<1>3. ASSUME NEW w \in Workers, AdoptItem(w) PROVE StageHonest'
    BY <1>3 DEF AdoptItem, GoTo, At
<1>4. ASSUME NEW w \in Workers, Check(w) PROVE StageHonest'
    BY <1>4 DEF Check, Redundant, Done, GoTo, At
<1>5. ASSUME NEW w \in Workers, Enroll(w) PROVE StageHonest'
    <2>1. Enrolled(w)
        BY <1>5, EnrollFacts
    <2>2. C(w) \in Contents /\ C(w) \notin enrolled /\ enrolled' = enrolled \cup {C(w)}
          /\ UNCHANGED <<links, lineage, matched, dirtyFor>>
        BY <2>1 DEF Enrolled
    <2>3. stage'[C(w)] \in {0, 1, 2} /\ (stage'[C(w)] # 0 => <<storyId'[C(w)], C(w)>> \in links)
        BY <2>1 DEF Enrolled
    <2>8. stage'[C(w)] = 2 => lineage[C(w)] # 0 \/ C(w) \in skipped'
        BY <2>1 DEF Enrolled
    <2>9. skipped \subseteq skipped'
        BY <2>1 DEF Enrolled
    <2>4. stage'[C(w)] = 2 =>
             lineage[C(w)] = storyId'[C(w)] \/ (lineage[C(w)] = 0 /\ C(w) \in skipped')
        <3>1. ASSUME stage'[C(w)] = 2
              PROVE  /\ <<storyId'[C(w)], C(w)>> \in links
                     /\ lineage[C(w)] # 0 \/ C(w) \in skipped'
            BY <2>3, <2>8, <3>1
        <3>2. \A l \in links : l[2] = C(w) /\ lineage[C(w)] # 0 => l[1] = lineage[C(w)]
            BY <2>2
        <3>3. \A x : <<x, C(w)>>[1] = x /\ <<x, C(w)>>[2] = C(w)
            OBVIOUS
        <3>5. stage'[C(w)] = 2 /\ lineage[C(w)] # 0 => lineage[C(w)] = storyId'[C(w)]
            BY <3>1, <3>2, <3>3, Zenon
        <3>6. stage'[C(w)] = 2 /\ lineage[C(w)] = 0 => C(w) \in skipped'
            BY <2>8, Zenon
        <3>4. QED
            BY <3>5, <3>6, Zenon
    <2>5. \A c \in enrolled : c # C(w) => stage'[c] = stage[c] /\ storyId'[c] = storyId[c]
        BY <2>1 DEF Enrolled
    <2>6. ASSUME NEW c \in enrolled'
          PROVE  /\ stage'[c] >= 1 => <<storyId'[c], c>> \in links
                 /\ stage'[c] >= 2 =>
                      lineage[c] = storyId'[c] \/ (lineage[c] = 0 /\ c \in skipped')
                 /\ stage'[c] >= 3 => storyId'[c] \in matched
                 /\ stage'[c] = 4 => c \in dirtyFor
        <3>1. CASE c = C(w)
            BY <2>3, <2>4, <3>1
        <3>2. CASE c # C(w)
            BY <2>2, <2>5, <2>9, <3>2
        <3>3. QED
            BY <3>1, <3>2
    <2>7. QED
        BY <2>2, <2>6
<1>6. ASSUME NEW w \in Workers, Claim(w) PROVE StageHonest'
    BY <1>6 DEF Claim, Claimable, GoTo, At
<1>7. ASSUME NEW w \in Workers, ClaimRefused(w) PROVE StageHonest'
    BY <1>7 DEF ClaimRefused, Claimable, Done, Leave, GoTo, At
<1>8. ASSUME NEW w \in Workers, Resume(w) PROVE StageHonest'
    BY <1>8 DEF Resume, Candidates, LinkedTo, OfTopic, Entry, GoTo, At
<1>9. ASSUME NEW w \in Workers, LoseLease(w) PROVE StageHonest'
    BY <1>9 DEF LoseLease, Holds, Leave, GoTo, At
<1>10. ASSUME NEW w \in Workers, Renew(w) PROVE StageHonest'
    BY <1>10 DEF Renew, Holds, GoTo, At
<1>11. ASSUME NEW w \in Workers, Commit(w) PROVE StageHonest'
    BY <1>11 DEF Commit, CommitStory, Target, Holds, GoTo, At
<1>12. ASSUME NEW w \in Workers, CommitLost(w) PROVE StageHonest'
    BY <1>12 DEF CommitLost, CommitStory, Target, Holds, Leave, GoTo, At
<1>13. ASSUME NEW w \in Workers, Classify(w) PROVE StageHonest'
    <2>1. UNCHANGED <<enrolled, stage, storyId, links, matched, dirtyFor>>
        BY <1>13 DEF Classify
    <2>2. \A c \in Contents : LineageDone(c) => LineageDone(c)'
        BY <1>13, ClassifyFacts
    <2>3. \A c \in enrolled : stage[c] >= 2 => LineageDone(c)
        BY HonestDone
    <2>4. Classified'
        BY <1>13, ClassifyFacts
    <2>5. ASSUME NEW c \in enrolled, stage[c] >= 2
          PROVE  lineage'[c] = storyId[c] \/ (lineage'[c] = 0 /\ c \in skipped')
        <3>1. c \in Contents
            OBVIOUS
        <3>2. LineageDone(c)'
            BY <2>2, <2>3, <2>5, <3>1
        <3>3. lineage'[c] # 0 => lineage'[c] = storyId[c]
            BY <2>1, <2>4, <3>1 DEF Classified
        <3>4. QED
            BY <3>2, <3>3 DEF LineageDone
    <2>6. QED
        BY <2>1, <2>5
<1>14. ASSUME NEW w \in Workers, AdvanceLineage(w) PROVE StageHonest'
    <2>1. /\ C(w) \in Contents /\ C(w) \in enrolled /\ stage[C(w)] \in {0, 1, 2, 3, 4}
          /\ chosen[w] = storyId[C(w)] /\ LineageDone(C(w)) /\ stage[C(w)] >= 1
        BY <1>14 DEF AdvanceLineage, Advance, At
    <2>2. storyId' = storyId
        BY <1>14, <2>1 DEF AdvanceLineage, Advance
    <2>3. /\ \A c \in Contents : c # C(w) => stage'[c] = stage[c]
          /\ stage'[C(w)] = IF stage[C(w)] < 2 THEN 2 ELSE stage[C(w)]
          /\ UNCHANGED <<enrolled, links, lineage, skipped, matched, dirtyFor>>
        BY <1>14, <2>1 DEF AdvanceLineage, Advance
    <2>4. lineage[C(w)] = storyId[C(w)] \/ (lineage[C(w)] = 0 /\ C(w) \in skipped)
        BY <2>1 DEF Classified, LineageDone
    <2>5. QED
        BY <2>1, <2>2, <2>3, <2>4, Advanced
<1>15. ASSUME NEW w \in Workers, MatchMissions(w) \/ Signal(w) PROVE StageHonest'
    <2>1. /\ UNCHANGED <<enrolled, stage, storyId, links, lineage, skipped>>
          /\ matched \subseteq matched' /\ dirtyFor \subseteq dirtyFor'
        BY <1>15 DEF MatchMissions, Signal
    <2>2. QED
        BY <2>1
<1>16. ASSUME NEW w \in Workers, AdvanceMissions(w) PROVE StageHonest'
    <2>1. /\ C(w) \in Contents /\ C(w) \in enrolled /\ stage[C(w)] \in {0, 1, 2, 3, 4}
          /\ chosen[w] = storyId[C(w)] /\ LineageDone(C(w)) /\ stage[C(w)] >= 1
          /\ chosen[w] \in matched
        BY <1>16 DEF AdvanceMissions, Advance, At
    <2>2. storyId' = storyId
        BY <1>16, <2>1 DEF AdvanceMissions, Advance
    <2>3. /\ \A c \in Contents : c # C(w) => stage'[c] = stage[c]
          /\ stage'[C(w)] = IF stage[C(w)] < 3 THEN 3 ELSE stage[C(w)]
          /\ UNCHANGED <<enrolled, links, lineage, skipped, matched, dirtyFor>>
        BY <1>16, <2>1 DEF AdvanceMissions, Advance
    <2>4. lineage[C(w)] = storyId[C(w)] \/ (lineage[C(w)] = 0 /\ C(w) \in skipped)
        BY <2>1 DEF Classified, LineageDone
    <2>5. QED
        BY <2>1, <2>2, <2>3, <2>4, Advanced
<1>18. ASSUME NEW w \in Workers, Complete(w) PROVE StageHonest'
    <2>1. /\ C(w) \in Contents /\ C(w) \in enrolled /\ stage[C(w)] \in {0, 1, 2, 3, 4}
          /\ chosen[w] = storyId[C(w)] /\ LineageDone(C(w)) /\ stage[C(w)] >= 1
          /\ chosen[w] \in matched /\ C(w) \in dirtyFor
        BY <1>18 DEF Complete, At
    <2>2. storyId' = storyId
        BY <1>18 DEF Complete
    <2>3. /\ \A c \in Contents : c # C(w) => stage'[c] = stage[c]
          /\ stage'[C(w)] = 4
          /\ UNCHANGED <<enrolled, links, lineage, skipped, matched, dirtyFor>>
        BY <1>18, <2>1 DEF Complete
    <2>4. lineage[C(w)] = storyId[C(w)] \/ (lineage[C(w)] = 0 /\ C(w) \in skipped)
        BY <2>1 DEF Classified, LineageDone
    <2>5. QED
        BY <2>1, <2>2, <2>3, <2>4, Advanced
<1>19. ASSUME NEW w \in Workers, Return(w) PROVE StageHonest'
    BY <1>19 DEF Return, InsertedOutcome, Leave, GoTo, At
<1>20. ASSUME NEW w \in Workers, NEW h \in {None, Orphan}, Break(w, h) PROVE StageHonest'
    BY <1>20 DEF Break, Leave, GoTo, At
<1>21. ASSUME NEW c \in Contents, ExpireOrphan(c) PROVE StageHonest'
    BY <1>21 DEF ExpireOrphan
<1>22. ASSUME NEW c \in Contents, ExpireLive(c) PROVE StageHonest'
    BY <1>22 DEF ExpireLive, At
<1>23. CASE UNCHANGED vars
    BY <1>23
<1>24. QED
    BY <1>1, <1>2, <1>3, <1>4, <1>5, <1>6, <1>7, <1>8, <1>9, <1>10, <1>11, <1>12, <1>13,
       <1>14, <1>15, <1>16, <1>18, <1>19, <1>20, <1>21, <1>22, <1>23 DEF Next, Step, Throw,
       Die

(* A second link needs a lease that ran out before the batch.                 *)
LEMMA LinkedStep == IInv /\ [Next]_vars => Linked'
<1> SUFFICES ASSUME IInv, [Next]_vars PROVE Linked'
    OBVIOUS
<1>0. TypeOK /\ Located /\ RowsAgree /\ Held /\ Classified /\ Behind /\ StageHonest
      /\ Linked /\ ReturnsOnlyComplete /\ Counted /\ RawNamed
    BY DEF IInv
<1> USE <1>0, WiringAssumption, NullAssumption DEF TypeOK, Located, RowsAgree, Held,
      Linked, HolderPhases, C, vars, rows, items, progress, leases, storyRows, derived,
      locals, queue, bounds
<1>1. ASSUME NEW w \in Workers, NEW m \in Messages, Deliver(w, m) PROVE Linked'
    BY <1>1 DEF Deliver, GoTo, At
<1>2. ASSUME NEW w \in Workers, InsertItem(w) PROVE Linked'
    BY <1>2 DEF InsertItem, GoTo, At
<1>3. ASSUME NEW w \in Workers, AdoptItem(w) PROVE Linked'
    BY <1>3 DEF AdoptItem, GoTo, At
<1>4. ASSUME NEW w \in Workers, Check(w) PROVE Linked'
    BY <1>4 DEF Check, Redundant, Done, GoTo, At
<1>5. ASSUME NEW w \in Workers, Enroll(w) PROVE Linked'
    BY <1>5 DEF Enroll, Redundant, LinkedTo, GoTo, At
<1>6. ASSUME NEW w \in Workers, Claim(w) PROVE Linked'
    BY <1>6 DEF Claim, Claimable, GoTo, At
<1>7. ASSUME NEW w \in Workers, ClaimRefused(w) PROVE Linked'
    BY <1>7, SMTT(60) DEF ClaimRefused, Claimable, Done, Leave, GoTo, At
<1>8. ASSUME NEW w \in Workers, Resume(w) PROVE Linked'
    <2>1. Resumed(w)
        BY <1>8, ResumeFacts
    <2>2. UNCHANGED <<lease, expired, links, overrun, msg>>
        BY <2>1 DEF Resumed
    <2>3. \A v \in Workers : v # w => phase'[v] = phase[v] /\ chosen'[v] = chosen[v]
        BY <2>1 DEF Resumed
    <2>4. phase'[w] # "commit" /\ (phase'[w] = "renew" => stage[C(w)] = 0)
        BY <2>1 DEF Resumed, Stages
    <2>5. ASSUME phase'[w] = "renew", ~overrun[C(w)], NEW l \in links, l[2] = C(w)
          PROVE  l[1] = chosen'[w]
        <3>1. CASE storyId[C(w)] = 0
            <4>1. <<chosen'[w], C(w)>> \in links /\ C(w) \in Contents
                BY <2>1, <2>5, <3>1 DEF Resumed
            <4>2. <<chosen'[w], C(w)>> = l
                BY <2>5, <4>1
            <4>3. QED
                BY <4>2
        <3>2. storyId[C(w)] = 0
            <4>1. C(w) \in Contents /\ stage[C(w)] = 0
                BY <2>1, <2>4, <2>5 DEF Resumed
            <4>2. QED
                BY <4>1
        <3>3. QED
            BY <3>1, <3>2
    <2>6. \A v \in Workers : phase'[v] = "commit" =>
             overrun'[C(v)'] \/ (lease'[C(v)'] = v /\ ~expired'[C(v)'])
        BY <2>2, <2>3, <2>4
    <2>7. \A v \in Workers :
             phase'[v] \in {"renew", "commit"} /\ lease'[C(v)'] = v /\ ~overrun'[C(v)'] =>
               \A l \in links' : l[2] = C(v)' => l[1] = chosen'[v]
        BY <2>2, <2>3, <2>4, <2>5
    <2>8. \A c \in Contents : ~overrun'[c] =>
             \A k, l \in links' : k[2] = c /\ l[2] = c => k = l
        BY <2>2
    <2>9. QED
        BY <2>6, <2>7, <2>8
<1>9. ASSUME NEW w \in Workers, LoseLease(w) PROVE Linked'
    BY <1>9 DEF LoseLease, Holds, Leave, GoTo, At
<1>10. ASSUME NEW w \in Workers, Renew(w) PROVE Linked'
    BY <1>10 DEF Renew, Holds, GoTo, At
<1>11. ASSUME NEW w \in Workers, Commit(w) PROVE Linked'
    <2>1. lease[C(w)] = w /\ C(w) \in Contents /\ phase[w] = "commit"
        BY <1>11 DEF Commit, Holds, At
    <2>2. links' = links \cup {<<Target(w), C(w)>>}
        BY <1>11 DEF Commit, CommitStory
    <2>3. phase'[w] = "lineage" /\ (\A v \in Workers : v # w => phase'[v] = phase[v] /\ chosen'[v] = chosen[v])
        BY <1>11 DEF Commit, GoTo
    <2>4. UNCHANGED <<lease, expired, overrun, msg>>
        BY <1>11 DEF Commit
    <2>5. \A v \in Workers : phase'[v] = "commit" =>
             overrun'[C(v)'] \/ (lease'[C(v)'] = v /\ ~expired'[C(v)'])
        BY <2>3, <2>4
    <2>6. ASSUME NEW v \in Workers, phase'[v] \in {"renew", "commit"}, lease'[C(v)'] = v,
                 ~overrun'[C(v)'], NEW l \in links', l[2] = C(v)'
          PROVE  l[1] = chosen'[v]
        <3>1. v # w /\ C(v)' = C(v) /\ C(v) # C(w)
            BY <2>1, <2>3, <2>4, <2>6
        <3>2. l \in links
            BY <2>2, <2>6, <3>1
        <3>3. phase[v] \in {"renew", "commit"} /\ chosen'[v] = chosen[v]
            BY <2>3, <2>6, <3>1
        <3>4. lease[C(v)] = v /\ ~overrun[C(v)] /\ l[2] = C(v)
            BY <2>4, <2>6, <3>1
        <3>5. QED
            BY <3>2, <3>3, <3>4
    <2>7. ASSUME NEW c \in Contents, ~overrun'[c], NEW k \in links', NEW l \in links',
                 k[2] = c, l[2] = c
          PROVE  k = l
        <3>1. CASE c # C(w)
            BY <2>2, <2>4, <2>7, <3>1
        <3>2. CASE c = C(w)
            <4>1. \A x \in links : x[2] = C(w) => x[1] = chosen[w]
                BY <2>1, <2>4, <2>7, <3>2
            <4>2. \A x \in links : x = <<x[1], x[2]>> /\ x[1] # 0
                BY DEF StoryIds
            <4>3. \A x \in links : x[2] = C(w) => x = <<Target(w), C(w)>>
                BY <4>1, <4>2 DEF Target
            <4>4. QED
                BY <2>2, <2>7, <3>2, <4>3
        <3>3. QED
            BY <3>1, <3>2
    <2>8. QED
        BY <2>5, <2>6, <2>7
<1>12. ASSUME NEW w \in Workers, CommitLost(w) PROVE Linked'
    BY <1>12 DEF CommitLost, CommitStory, Target, Holds, Leave, GoTo, At
<1>13. ASSUME NEW w \in Workers, Classify(w) PROVE Linked'
    BY <1>13 DEF Classify, GoTo, At
<1>14. ASSUME NEW w \in Workers, AdvanceLineage(w) PROVE Linked'
    BY <1>14 DEF AdvanceLineage, Advance, Holds, GoTo, At
<1>15. ASSUME NEW w \in Workers, MatchMissions(w) PROVE Linked'
    BY <1>15 DEF MatchMissions, GoTo, At
<1>16. ASSUME NEW w \in Workers, AdvanceMissions(w) PROVE Linked'
    BY <1>16 DEF AdvanceMissions, Advance, Holds, GoTo, At
<1>17. ASSUME NEW w \in Workers, Signal(w) PROVE Linked'
    BY <1>17 DEF Signal, GoTo, At
<1>18. ASSUME NEW w \in Workers, Complete(w) PROVE Linked'
    BY <1>18 DEF Complete, Holds, GoTo, At
<1>19. ASSUME NEW w \in Workers, Return(w) PROVE Linked'
    BY <1>19 DEF Return, InsertedOutcome, Leave, GoTo, At
<1>20. ASSUME NEW w \in Workers, NEW h \in {None, Orphan}, Break(w, h) PROVE Linked'
    BY <1>20, SMTT(30) DEF Break, Leave, GoTo, At
<1>21. ASSUME NEW c \in Contents, ExpireOrphan(c) PROVE Linked'
    BY <1>21 DEF ExpireOrphan
<1>22. ASSUME NEW c \in Contents, ExpireLive(c) PROVE Linked'
    <2>1. \A d \in Contents : overrun'[d] = (overrun[d] \/ (d = c /\ phase[lease[c]] = "commit"))
        BY <1>22 DEF ExpireLive, At
    <2>2. \A d \in Contents : d # c => expired'[d] = expired[d]
        BY <1>22 DEF ExpireLive
    <2>3. UNCHANGED <<lease, links, phase, msg, chosen>>
        BY <1>22 DEF ExpireLive
    <2>4. ASSUME NEW v \in Workers, phase'[v] = "commit"
          PROVE  overrun'[C(v)'] \/ (lease'[C(v)'] = v /\ ~expired'[C(v)'])
        <3>1. C(v) \in Contents /\ C(v)' = C(v) /\ phase[v] = "commit"
            BY <2>3, <2>4
        <3>2. overrun[C(v)] \/ (lease[C(v)] = v /\ ~expired[C(v)])
            BY <3>1
        <3>3. CASE C(v) = c
            BY <2>1, <3>1, <3>2, <3>3
        <3>4. CASE C(v) # c
            BY <2>1, <2>2, <2>3, <3>1, <3>2, <3>4
        <3>5. QED
            BY <3>3, <3>4
    <2>5. \A d \in Contents : ~overrun'[d] => ~overrun[d]
        BY <2>1
    <2>6. \A v \in Workers : phase'[v] \in {"renew", "commit"} => C(v) \in Contents
        BY <2>3
    <2>7. QED
        BY <2>3, <2>4, <2>5, <2>6
<1>23. CASE UNCHANGED vars
    BY <1>23
<1>24. QED
    BY <1>1, <1>2, <1>3, <1>4, <1>5, <1>6, <1>7, <1>8, <1>9, <1>10, <1>11, <1>12, <1>13,
       <1>14, <1>15, <1>16, <1>17, <1>18, <1>19, <1>20, <1>21, <1>22, <1>23 DEF Next,
       Step, Throw, Die

(* A completed item stays completed.                                          *)
LEMMA ReturnsStep == IInv /\ [Next]_vars => ReturnsOnlyComplete'
<1> SUFFICES ASSUME IInv, [Next]_vars PROVE ReturnsOnlyComplete'
    OBVIOUS
<1>0. TypeOK /\ Located /\ RowsAgree /\ Held /\ Classified /\ Behind /\ StageHonest
      /\ Linked /\ ReturnsOnlyComplete /\ Counted /\ RawNamed
    BY DEF IInv
<1> USE <1>0, WiringAssumption, NullAssumption DEF TypeOK, Located, RowsAgree, Behind,
      ReturnsOnlyComplete, Done, C, vars, rows, items, progress, leases, storyRows,
      derived, locals, queue, bounds
<1>1. ASSUME NEW w \in Workers, NEW m \in Messages, Deliver(w, m) PROVE ReturnsOnlyComplete'
    BY <1>1 DEF Deliver, GoTo, At
<1>2. ASSUME NEW w \in Workers, InsertItem(w) PROVE ReturnsOnlyComplete'
    BY <1>2 DEF InsertItem, GoTo, At
<1>3. ASSUME NEW w \in Workers, AdoptItem(w) PROVE ReturnsOnlyComplete'
    BY <1>3 DEF AdoptItem, GoTo, At
<1>4. ASSUME NEW w \in Workers, Check(w) PROVE ReturnsOnlyComplete'
    BY <1>4 DEF Check, Redundant, Done, GoTo, At
<1>5. ASSUME NEW w \in Workers, Enroll(w) PROVE ReturnsOnlyComplete'
    <2>1. Enrolled(w)
        BY <1>5, EnrollFacts
    <2>2. C(w) \notin enrolled /\ enrolled \subseteq enrolled' /\ reports' = reports
        BY <2>1 DEF Enrolled
    <2>3. \A c \in Contents : c # C(w) => stage'[c] = stage[c]
        BY <2>1 DEF Enrolled
    <2>4. QED
        BY <2>2, <2>3
<1>6. ASSUME NEW w \in Workers, Claim(w) PROVE ReturnsOnlyComplete'
    BY <1>6 DEF Claim, Claimable, GoTo, At
<1>7. ASSUME NEW w \in Workers, ClaimRefused(w) PROVE ReturnsOnlyComplete'
    BY <1>7 DEF ClaimRefused, Claimable, Done, Leave, GoTo, At
<1>8. ASSUME NEW w \in Workers, Resume(w) PROVE ReturnsOnlyComplete'
    BY <1>8 DEF Resume, Candidates, LinkedTo, OfTopic, Entry, GoTo, At
<1>9. ASSUME NEW w \in Workers, LoseLease(w) PROVE ReturnsOnlyComplete'
    BY <1>9 DEF LoseLease, Holds, Leave, GoTo, At
<1>10. ASSUME NEW w \in Workers, Renew(w) PROVE ReturnsOnlyComplete'
    BY <1>10 DEF Renew, Holds, GoTo, At
<1>11. ASSUME NEW w \in Workers, Commit(w) PROVE ReturnsOnlyComplete'
    BY <1>11 DEF Commit, CommitStory, Target, Holds, GoTo, At
<1>12. ASSUME NEW w \in Workers, CommitLost(w) PROVE ReturnsOnlyComplete'
    BY <1>12 DEF CommitLost, CommitStory, Target, Holds, Leave, GoTo, At
<1>13. ASSUME NEW w \in Workers, Classify(w) PROVE ReturnsOnlyComplete'
    BY <1>13 DEF Classify, GoTo, At
<1>14. ASSUME NEW w \in Workers, AdvanceLineage(w) PROVE ReturnsOnlyComplete'
    BY <1>14 DEF AdvanceLineage, Advance, Holds, GoTo, At
<1>15. ASSUME NEW w \in Workers, MatchMissions(w) PROVE ReturnsOnlyComplete'
    BY <1>15 DEF MatchMissions, GoTo, At
<1>16. ASSUME NEW w \in Workers, AdvanceMissions(w) PROVE ReturnsOnlyComplete'
    BY <1>16 DEF AdvanceMissions, Advance, Holds, GoTo, At
<1>17. ASSUME NEW w \in Workers, Signal(w) PROVE ReturnsOnlyComplete'
    BY <1>17 DEF Signal, GoTo, At
<1>18. ASSUME NEW w \in Workers, Complete(w) PROVE ReturnsOnlyComplete'
    BY <1>18 DEF Complete, Holds, GoTo, At
<1>19. ASSUME NEW w \in Workers, Return(w) PROVE ReturnsOnlyComplete'
    BY <1>19, SMTT(30) DEF Return, InsertedOutcome, Leave, GoTo, At
<1>20. ASSUME NEW w \in Workers, NEW h \in {None, Orphan}, Break(w, h) PROVE ReturnsOnlyComplete'
    BY <1>20 DEF Break, Leave, GoTo, At
<1>21. ASSUME NEW c \in Contents, ExpireOrphan(c) PROVE ReturnsOnlyComplete'
    BY <1>21 DEF ExpireOrphan
<1>22. ASSUME NEW c \in Contents, ExpireLive(c) PROVE ReturnsOnlyComplete'
    BY <1>22 DEF ExpireLive, At
<1>23. CASE UNCHANGED vars
    BY <1>23
<1>24. QED
    BY <1>1, <1>2, <1>3, <1>4, <1>5, <1>6, <1>7, <1>8, <1>9, <1>10, <1>11, <1>12, <1>13,
       <1>14, <1>15, <1>16, <1>17, <1>18, <1>19, <1>20, <1>21, <1>22, <1>23 DEF Next,
       Step, Throw, Die

(* The origin of a completion row never changes.                              *)
LEMMA CountedStep == IInv /\ [Next]_vars => Counted'
<1> SUFFICES ASSUME IInv, [Next]_vars PROVE Counted'
    OBVIOUS
<1>0. TypeOK /\ Located /\ RowsAgree /\ Held /\ Classified /\ Behind /\ StageHonest
      /\ Linked /\ ReturnsOnlyComplete /\ Counted /\ RawNamed
    BY DEF IInv
<1> USE <1>0, WiringAssumption, NullAssumption DEF TypeOK, Located, RowsAgree,
      ReturnsOnlyComplete, Done, Counted, OriginOf, C, vars, rows, items, progress,
      leases, storyRows, derived, locals, queue, bounds
<1>1. ASSUME NEW w \in Workers, NEW m \in Messages, Deliver(w, m) PROVE Counted'
    BY <1>1 DEF Deliver, GoTo, At
<1>2. ASSUME NEW w \in Workers, InsertItem(w) PROVE Counted'
    <2>1. C(w) \in Contents /\ C(w) \notin enrolled /\ phase[w] = "insert" /\ msg[w] \in Messages
        BY <1>2 DEF InsertItem, At
    <2>2. \A v \in Workers : created[v] => C(v) # C(w)
        BY <2>1
    <2>3. \A r \in reports : ContentOf[r.msg] \in Contents /\ ContentOf[r.msg] # C(w)
        BY <2>1
    <2>4. origin'[C(w)] = OriginOf(msg[w]) /\ (\A c \in Contents : c # C(w) => origin'[c] = origin[c])
        BY <1>2, <2>1 DEF InsertItem
    <2>5. created'[w] /\ (\A v \in Workers : v # w => created'[v] = created[v])
        BY <1>2 DEF InsertItem
    <2>6. phase'[w] = "check" /\ (\A v \in Workers : v # w => phase'[v] = phase[v])
        BY <1>2 DEF InsertItem, GoTo
    <2>7. enrolled' = enrolled \cup {C(w)} /\ UNCHANGED <<msg, reports>>
        BY <1>2 DEF InsertItem
    <2>8. \A v \in Workers : created'[v] =>
             phase'[v] # "idle" /\ C(v)' \in enrolled' /\ origin'[C(v)'] = OriginOf(msg'[v])
        <3>1. /\ w \in Workers /\ C(w)' = C(w) /\ msg' = msg
              /\ C(w)' \in enrolled' /\ origin'[C(w)'] = OriginOf(msg'[w]) /\ phase'[w] # "idle"
            BY <2>4, <2>6, <2>7
        <3>2. ASSUME NEW v \in Workers, v # w, created'[v]
              PROVE  /\ phase'[v] # "idle" /\ C(v)' \in enrolled'
                     /\ origin'[C(v)'] = OriginOf(msg'[v])
            <4>1. created[v] /\ C(v)' = C(v) /\ C(v) \in enrolled /\ C(v) \in Contents
                BY <2>5, <2>7, <3>2
            <4>2. origin'[C(v)] = origin[C(v)]
                BY <2>2, <2>4, <4>1
            <4>3. QED
                BY <2>6, <2>7, <3>2, <4>1, <4>2
        <3>3. QED
            BY <3>1, <3>2
    <2>9. \A u, v \in Workers : created'[u] /\ created'[v] /\ C(u)' = C(v)' => msg'[u] = msg'[v]
        <3>1. msg' = msg /\ \A v \in Workers : C(v)' = C(v)
            BY <2>7
        <3>2. \A v \in Workers : created'[v] /\ v # w => created[v] /\ C(v) # C(w)
            BY <2>2, <2>5
        <3>3. \A u, v \in Workers : created[u] /\ created[v] /\ C(u) = C(v) => msg[u] = msg[v]
            OBVIOUS
        <3> HIDE DEF C
        <3>4. QED
            BY <3>1, <3>2, <3>3
    <2>10. \A v \in Workers, r \in reports' :
             created'[v] /\ r.inserted /\ ContentOf[r.msg] = C(v)' => r.msg = msg'[v]
        BY <2>3, <2>5, <2>7, SMTT(30)
    <2>11. \A r \in reports' : origin'[ContentOf[r.msg]] = origin[ContentOf[r.msg]]
        BY <2>3, <2>4, <2>7
    <2>12. QED
        BY <2>7, <2>8, <2>9, <2>10, <2>11
<1>3. ASSUME NEW w \in Workers, AdoptItem(w) PROVE Counted'
    BY <1>3 DEF AdoptItem, GoTo, At
<1>4. ASSUME NEW w \in Workers, Check(w) PROVE Counted'
    BY <1>4 DEF Check, Redundant, Done, GoTo, At
<1>5. ASSUME NEW w \in Workers, Enroll(w) PROVE Counted'
    BY <1>5, SMTT(30) DEF Enroll, Redundant, LinkedTo, GoTo, At
<1>6. ASSUME NEW w \in Workers, Claim(w) PROVE Counted'
    BY <1>6 DEF Claim, Claimable, GoTo, At
<1>7. ASSUME NEW w \in Workers, ClaimRefused(w) PROVE Counted'
    <2>1. CASE Leave(w)
        <3>1. Left(w) /\ UNCHANGED <<enrolled, origin, reports>>
            BY <1>7, <2>1, LeaveFacts DEF ClaimRefused
        <3>2. \A v \in Workers : created'[v] =>
                 created[v] /\ v # w /\ msg'[v] = msg[v] /\ phase'[v] = phase[v]
            BY <3>1 DEF Left
        <3>3. QED
            BY <3>1, <3>2
    <2>2. CASE GoTo(w, "return") /\ UNCHANGED locals
        BY <1>7, <2>2 DEF ClaimRefused, GoTo, At
    <2>3. QED
        BY <1>7, <2>1, <2>2 DEF ClaimRefused
<1>8. ASSUME NEW w \in Workers, Resume(w) PROVE Counted'
    <2>1. Resumed(w)
        BY <1>8, ResumeFacts
    <2>2. UNCHANGED <<msg, created, enrolled, origin, reports>>
        BY <2>1 DEF Resumed
    <2>3. phase'[w] # "idle"
        <3>1. stage[C(w)] \in {0, 1, 2, 3, 4}
            BY <2>1 DEF Resumed, Stages
        <3>2. QED
            BY <2>1, <3>1 DEF Resumed
    <2>4. \A v \in Workers : v # w => phase'[v] = phase[v]
        BY <2>1 DEF Resumed
    <2>5. QED
        BY <2>2, <2>3, <2>4
<1>9. ASSUME NEW w \in Workers, LoseLease(w) PROVE Counted'
    BY <1>9 DEF LoseLease, Holds, Leave, GoTo, At
<1>10. ASSUME NEW w \in Workers, Renew(w) PROVE Counted'
    BY <1>10 DEF Renew, Holds, GoTo, At
<1>11. ASSUME NEW w \in Workers, Commit(w) PROVE Counted'
    BY <1>11 DEF Commit, CommitStory, Target, Holds, GoTo, At
<1>12. ASSUME NEW w \in Workers, CommitLost(w) PROVE Counted'
    BY <1>12 DEF CommitLost, CommitStory, Target, Holds, Leave, GoTo, At
<1>13. ASSUME NEW w \in Workers, Classify(w) PROVE Counted'
    BY <1>13 DEF Classify, GoTo, At
<1>14. ASSUME NEW w \in Workers, AdvanceLineage(w) PROVE Counted'
    BY <1>14 DEF AdvanceLineage, Advance, Holds, GoTo, At
<1>15. ASSUME NEW w \in Workers, MatchMissions(w) PROVE Counted'
    BY <1>15 DEF MatchMissions, GoTo, At
<1>16. ASSUME NEW w \in Workers, AdvanceMissions(w) PROVE Counted'
    BY <1>16 DEF AdvanceMissions, Advance, Holds, GoTo, At
<1>17. ASSUME NEW w \in Workers, Signal(w) PROVE Counted'
    BY <1>17 DEF Signal, GoTo, At
<1>18. ASSUME NEW w \in Workers, Complete(w) PROVE Counted'
    BY <1>18 DEF Complete, Holds, GoTo, At
<1>19. ASSUME NEW w \in Workers, Return(w) PROVE Counted'
    BY <1>19, SMTT(60) DEF Return, InsertedOutcome, Leave, GoTo, At
<1>20. ASSUME NEW w \in Workers, NEW h \in {None, Orphan}, Break(w, h) PROVE Counted'
    BY <1>20 DEF Break, Leave, GoTo, At
<1>21. ASSUME NEW c \in Contents, ExpireOrphan(c) PROVE Counted'
    BY <1>21 DEF ExpireOrphan
<1>22. ASSUME NEW c \in Contents, ExpireLive(c) PROVE Counted'
    BY <1>22 DEF ExpireLive, At
<1>23. CASE UNCHANGED vars
    BY <1>23
<1>24. QED
    BY <1>1, <1>2, <1>3, <1>4, <1>5, <1>6, <1>7, <1>8, <1>9, <1>10, <1>11, <1>12, <1>13,
       <1>14, <1>15, <1>16, <1>17, <1>18, <1>19, <1>20, <1>21, <1>22, <1>23 DEF Next,
       Step, Throw, Die

(* A deleted raw object was another message's.                                *)
LEMMA RawStep == IInv /\ [Next]_vars => RawNamed'
<1> SUFFICES ASSUME IInv, [Next]_vars PROVE RawNamed'
    OBVIOUS
<1>0. TypeOK /\ Located /\ RowsAgree /\ Held /\ Classified /\ Behind /\ StageHonest
      /\ Linked /\ ReturnsOnlyComplete /\ Counted /\ RawNamed
    BY DEF IInv
<1> USE <1>0, WiringAssumption, NullAssumption DEF TypeOK, Located, RowsAgree, RawNamed,
      C, vars, rows, items, progress, leases, storyRows, derived, locals, queue, bounds
<1>1. ASSUME NEW w \in Workers, NEW m \in Messages, Deliver(w, m) PROVE RawNamed'
    BY <1>1 DEF Deliver, GoTo, At
<1>2. ASSUME NEW w \in Workers, InsertItem(w) PROVE RawNamed'
    BY <1>2 DEF InsertItem, GoTo, At
<1>3. ASSUME NEW w \in Workers, AdoptItem(w) PROVE RawNamed'
    BY <1>3 DEF AdoptItem, GoTo, At
<1>4. ASSUME NEW w \in Workers, Check(w) PROVE RawNamed'
    BY <1>4 DEF Check, Redundant, Done, GoTo, At
<1>5. ASSUME NEW w \in Workers, Enroll(w) PROVE RawNamed'
    BY <1>5 DEF Enroll, Redundant, LinkedTo, GoTo, At
<1>6. ASSUME NEW w \in Workers, Claim(w) PROVE RawNamed'
    BY <1>6 DEF Claim, Claimable, GoTo, At
<1>7. ASSUME NEW w \in Workers, ClaimRefused(w) PROVE RawNamed'
    BY <1>7 DEF ClaimRefused, Claimable, Done, Leave, GoTo, At
<1>8. ASSUME NEW w \in Workers, Resume(w) PROVE RawNamed'
    BY <1>8 DEF Resume, Candidates, LinkedTo, OfTopic, Entry, GoTo, At
<1>9. ASSUME NEW w \in Workers, LoseLease(w) PROVE RawNamed'
    BY <1>9 DEF LoseLease, Holds, Leave, GoTo, At
<1>10. ASSUME NEW w \in Workers, Renew(w) PROVE RawNamed'
    BY <1>10 DEF Renew, Holds, GoTo, At
<1>11. ASSUME NEW w \in Workers, Commit(w) PROVE RawNamed'
    BY <1>11 DEF Commit, CommitStory, Target, Holds, GoTo, At
<1>12. ASSUME NEW w \in Workers, CommitLost(w) PROVE RawNamed'
    BY <1>12 DEF CommitLost, CommitStory, Target, Holds, Leave, GoTo, At
<1>13. ASSUME NEW w \in Workers, Classify(w) PROVE RawNamed'
    BY <1>13 DEF Classify, GoTo, At
<1>14. ASSUME NEW w \in Workers, AdvanceLineage(w) PROVE RawNamed'
    BY <1>14 DEF AdvanceLineage, Advance, Holds, GoTo, At
<1>15. ASSUME NEW w \in Workers, MatchMissions(w) PROVE RawNamed'
    BY <1>15 DEF MatchMissions, GoTo, At
<1>16. ASSUME NEW w \in Workers, AdvanceMissions(w) PROVE RawNamed'
    BY <1>16 DEF AdvanceMissions, Advance, Holds, GoTo, At
<1>17. ASSUME NEW w \in Workers, Signal(w) PROVE RawNamed'
    BY <1>17 DEF Signal, GoTo, At
<1>18. ASSUME NEW w \in Workers, Complete(w) PROVE RawNamed'
    BY <1>18 DEF Complete, Holds, GoTo, At
<1>19. ASSUME NEW w \in Workers, Return(w) PROVE RawNamed'
    BY <1>19 DEF Return, InsertedOutcome, Leave, GoTo, At
<1>20. ASSUME NEW w \in Workers, NEW h \in {None, Orphan}, Break(w, h) PROVE RawNamed'
    BY <1>20 DEF Break, Leave, GoTo, At
<1>21. ASSUME NEW c \in Contents, ExpireOrphan(c) PROVE RawNamed'
    BY <1>21 DEF ExpireOrphan
<1>22. ASSUME NEW c \in Contents, ExpireLive(c) PROVE RawNamed'
    BY <1>22 DEF ExpireLive, At
<1>23. CASE UNCHANGED vars
    BY <1>23
<1>24. QED
    BY <1>1, <1>2, <1>3, <1>4, <1>5, <1>6, <1>7, <1>8, <1>9, <1>10, <1>11, <1>12, <1>13,
       <1>14, <1>15, <1>16, <1>17, <1>18, <1>19, <1>20, <1>21, <1>22, <1>23 DEF Next,
       Step, Throw, Die
(* A second report about an origin or a content agrees with the first.       *)
LEMMA CountedOnceStep == IInv /\ [Next]_vars => OriginCountedOnce'
<1> SUFFICES ASSUME IInv, [Next]_vars PROVE OriginCountedOnce'
    OBVIOUS
<1>0. TypeOK /\ Located /\ Counted /\ OriginCountedOnce
    BY DEF IInv
<1>1. ASSUME NEW w \in Workers, Return(w) PROVE OriginCountedOnce'
    <2> DEFINE m == msg[w]
               fresh == [msg |-> m, inserted |-> InsertedOutcome(w)]
    <2>1. m \in Messages /\ C(w) = ContentOf[m] /\ reports' = reports \cup {fresh}
        BY <1>0, <1>1 DEF Return, At, Located, C
    <2>2. fresh.msg = m /\ fresh.inserted = InsertedOutcome(w)
        OBVIOUS
    <2>3. created[w] => origin[C(w)] = OriginOf(m)
        BY <1>0 DEF Counted
    <2>4. ASSUME NEW r \in reports, r.msg = m, OriginOf(m) # None
          PROVE  r.inserted = InsertedOutcome(w)
        <3>1. r.inserted \in BOOLEAN
            BY <1>0 DEF TypeOK
        <3>2. r.inserted <=> origin[C(w)] = OriginOf(m)
            BY <1>0, <2>1, <2>4 DEF Counted
        <3>3. InsertedOutcome(w) <=> origin[C(w)] = OriginOf(m)
            BY <2>3, <2>4 DEF InsertedOutcome
        <3>4. InsertedOutcome(w) \in BOOLEAN
            BY DEF InsertedOutcome
        <3>5. QED
            BY <3>1, <3>2, <3>3, <3>4
    <2>5. ASSUME NEW r \in reports, r.inserted, InsertedOutcome(w), ContentOf[r.msg] = ContentOf[m]
          PROVE  r.msg = m
        <3>1. origin[C(w)] = OriginOf(r.msg)
            BY <1>0, <2>1, <2>5 DEF Counted
        <3>2. CASE created[w]
            BY <1>0, <2>1, <2>5, <3>2 DEF Counted
        <3>3. CASE OriginOf(m) # None /\ origin[C(w)] = OriginOf(m)
            BY <3>1, <3>3 DEF OriginOf
        <3>4. QED
            BY <2>5, <3>2, <3>3 DEF InsertedOutcome
    <2>6. \A r \in reports : OriginOf(r.msg) = OriginOf(m) \/ r.msg # m
        OBVIOUS
    <2> HIDE DEF fresh, m
    <2>7. \A r1, r2 \in reports' :
            r1.msg = r2.msg /\ OriginOf(r1.msg) # None => r1.inserted = r2.inserted
        <3>1. \A r1, r2 \in reports :
                r1.msg = r2.msg /\ OriginOf(r1.msg) # None => r1.inserted = r2.inserted
            BY <1>0 DEF OriginCountedOnce
        <3>2. QED
            BY <2>1, <2>2, <2>4, <3>1
    <2>8. \A r1, r2 \in reports' :
            r1.inserted /\ r2.inserted /\ ContentOf[r1.msg] = ContentOf[r2.msg]
              => r1.msg = r2.msg
        <3>1. \A r1, r2 \in reports :
                r1.inserted /\ r2.inserted /\ ContentOf[r1.msg] = ContentOf[r2.msg]
                  => r1.msg = r2.msg
            BY <1>0 DEF OriginCountedOnce
        <3>2. QED
            BY <2>1, <2>2, <2>5, <3>1
    <2>9. QED
        BY <2>7, <2>8 DEF OriginCountedOnce, OriginOf
<1>2. ASSUME reports' = reports PROVE OriginCountedOnce'
    BY <1>0, <1>2 DEF OriginCountedOnce, OriginOf
<1>3. reports' = reports \/ \E w \in Workers : Return(w)
    BY DEF Next, Step, Deliver, InsertItem, AdoptItem, Check, Enroll, Claim, ClaimRefused,
           Resume, LoseLease, Renew, Commit, CommitLost, Classify, AdvanceLineage,
           MatchMissions, AdvanceMissions, Advance, Signal, Complete, Throw, Die, Break,
           ExpireOrphan, ExpireLive, vars, queue
<1>4. QED
    BY <1>1, <1>2, <1>3

(* The legacy rows agree: an item is linked to at most one story, and        *)
(* classified only against that one.                                         *)
LEMMA InitInv == Init => IInv
<1> SUFFICES ASSUME Init PROVE IInv
    OBVIOUS
<1>1. PICK present \in SUBSET Legacy : \E n \in 0..Cardinality(present) :
        \E linked \in Injection(1..n, present) : \E classified \in SUBSET (1..n) :
          /\ item = [c \in Contents |-> IF c \in present THEN NoRaw ELSE None]
          /\ stories = [s \in 1..n |-> TopicOf[linked[s]]]
          /\ links = {<<s, linked[s]>> : s \in 1..n}
          /\ lineage = [c \in Contents |->
                          IF \E s \in classified : linked[s] = c
                          THEN CHOOSE s \in classified : linked[s] = c ELSE 0]
    BY DEF Init
<1>2. PICK n \in 0..Cardinality(present) :
        \E linked \in Injection(1..n, present) : \E classified \in SUBSET (1..n) :
          /\ item = [c \in Contents |-> IF c \in present THEN NoRaw ELSE None]
          /\ stories = [s \in 1..n |-> TopicOf[linked[s]]]
          /\ links = {<<s, linked[s]>> : s \in 1..n}
          /\ lineage = [c \in Contents |->
                          IF \E s \in classified : linked[s] = c
                          THEN CHOOSE s \in classified : linked[s] = c ELSE 0]
    BY <1>1
<1>3. PICK linked \in Injection(1..n, present), classified \in SUBSET (1..n) :
          /\ item = [c \in Contents |-> IF c \in present THEN NoRaw ELSE None]
          /\ stories = [s \in 1..n |-> TopicOf[linked[s]]]
          /\ links = {<<s, linked[s]>> : s \in 1..n}
          /\ lineage = [c \in Contents |->
                          IF \E s \in classified : linked[s] = c
                          THEN CHOOSE s \in classified : linked[s] = c ELSE 0]
    BY <1>2
<1>4. n \in Nat
    <2>1. IsFiniteSet(present)
        BY <1>1, FS_Subset, WiringAssumption
    <2>2. Cardinality(present) \in Nat
        BY <2>1, FS_CardinalityType
    <2>3. QED
        BY <1>2, <2>2
<1>5. linked \in [1..n -> Contents] /\ (\A s, t \in 1..n : linked[s] = linked[t] => s = t)
    BY <1>3, WiringAssumption DEF Injection, IsInjective
<1>6. stories \in Seq(Topics) /\ Len(stories) = n /\ StoryIds = 1..n
    <2>1. stories \in [1..n -> Topics]
        BY <1>3, <1>5, WiringAssumption
    <2>2. stories \in Seq(Topics) /\ Len(stories) = n
        BY <1>4, <2>1
    <2>3. QED
        BY <2>2 DEF StoryIds
<1>7. /\ links \subseteq StoryIds \X Contents
      /\ \A l \in links : l[1] \in 1..n /\ l[2] = linked[l[1]] /\ l = <<l[1], l[2]>>
    BY <1>3, <1>5, <1>6
<1>8. \A c \in Contents : lineage[c] # 0 => lineage[c] \in 1..n /\ linked[lineage[c]] = c
    <2> SUFFICES ASSUME NEW c \in Contents, lineage[c] # 0
                 PROVE  lineage[c] \in 1..n /\ linked[lineage[c]] = c
        OBVIOUS
    <2>1. PICK s \in classified : linked[s] = c
        BY <1>3
    <2>2. lineage[c] = CHOOSE t \in classified : linked[t] = c
        BY <1>3, <2>1
    <2>3. lineage[c] \in classified /\ linked[lineage[c]] = c
        BY <2>1, <2>2
    <2>4. QED
        BY <1>3, <2>3
<1>9. lineage \in [Contents -> StoryIds \cup {0}]
    <2>1. \A c \in Contents : lineage[c] \in StoryIds \cup {0}
        BY <1>6, <1>8
    <2>2. lineage = [c \in Contents |-> lineage[c]]
        BY <1>3
    <2>3. QED
        BY <2>1, <2>2
<1>10. item \in [Contents -> {NoRaw, None}]
    BY <1>3
<1>11. \A k, l \in links : k[2] = l[2] => k = l
    BY <1>5, <1>7
<1>12. \A c \in Contents : lineage[c] # 0 =>
          /\ <<lineage[c], c>> \in links
          /\ \A l \in links : l[2] = c => l[1] = lineage[c]
    <2> SUFFICES ASSUME NEW c \in Contents, lineage[c] # 0
                 PROVE  /\ <<lineage[c], c>> \in links
                        /\ \A l \in links : l[2] = c => l[1] = lineage[c]
        OBVIOUS
    <2>1. lineage[c] \in 1..n /\ linked[lineage[c]] = c
        BY <1>8
    <2>2. <<lineage[c], linked[lineage[c]]>> \in links
        BY <1>3, <2>1
    <2>3. \A l \in links : l[2] = c => l[1] = lineage[c]
        BY <1>5, <1>7, <2>1
    <2>4. QED
        BY <2>1, <2>2, <2>3
<1>13. TypeOK
    BY <1>6, <1>7, <1>9, <1>10, WiringAssumption DEF Init, TypeOK, Phases, Stages
<1>14. Located /\ Held /\ Behind
    BY NullAssumption DEF Init, Located, Held, Behind
<1>20. Classified
    <2>1. enrolled = {} /\ \A c \in Contents : item[c] = None => c \notin present
        BY <1>3, NullAssumption DEF Init
    <2>2. \A c \in Contents : lineage[c] # 0 => c \in present
        BY <1>3, <1>8 DEF Injection
    <2>3. QED
        BY <2>1, <2>2 DEF Classified
<1>15. RowsAgree
    BY <1>12 DEF Init, RowsAgree
<1>16. Linked
    BY <1>11 DEF Init, Linked
<1>17. StageHonest /\ ReturnsOnlyComplete /\ Counted /\ OriginCountedOnce
    BY DEF Init, StageHonest, ReturnsOnlyComplete, Counted, OriginCountedOnce
<1>18. RawNamed
    BY <1>10, NullAssumption DEF Init, RawNamed
<1>19. QED
    BY <1>13, <1>14, <1>15, <1>16, <1>17, <1>18, <1>20 DEF IInv

(* The invariant holds in every reachable state, for any number of calls,    *)
(* messages, contents, faults and expired leases.                            *)
THEOREM Inductive == Spec => []IInv
<1>1. Init => IInv
    BY InitInv
<1>2. IInv /\ [Next]_vars => IInv'
    BY TypeStep, LocatedStep, RowsStep, HeldStep, ClassifiedStep, BehindStep, StageStep, LinkedStep,
       ReturnsStep, CountedStep, CountedOnceStep, RawStep DEF IInv
<1>3. QED
    BY <1>1, <1>2, PTL DEF Spec

(* Every row, local and report has its type.                                 *)
THEOREM TypeCorrect == Spec => []TypeOK
<1>1. IInv => TypeOK
    BY DEF IInv
<1>2. QED
    BY <1>1, Inductive, PTL

(* The stage of a completion row never runs ahead of the work it stands for; *)
(* only lineage may be missing, and only where a call found it switched off  *)
(* (resumeItemIngest, classifyEvidenceLineage, ensureItemIngestCompletion).  *)
THEOREM Honest == Spec => []StageHonest
<1>1. IInv => StageHonest
    BY DEF IInv
<1>2. QED
    BY <1>1, Inductive, PTL

(* ingestMessage never answers for an item that is only partly ingested.     *)
THEOREM AnswersComplete == Spec => []ReturnsOnlyComplete
<1>1. IInv => ReturnsOnlyComplete
    BY DEF IInv
<1>2. QED
    BY <1>1, Inductive, PTL

(* An origin is told one outcome, and one origin of a content that it        *)
(* inserted the item.                                                        *)
THEOREM CountedOnce == Spec => []OriginCountedOnce
<1>1. IInv => OriginCountedOnce
    BY DEF IInv
<1>2. QED
    BY <1>1, Inductive, PTL

(* The raw object an item refers to is not deleted as a duplicate's.         *)
THEOREM RawKept == Spec => []RawOfItemKept
<1>1. IInv => RawOfItemKept
    <2> SUFFICES ASSUME IInv, NEW c \in Contents, item[c] \in rawGone PROVE FALSE
        BY DEF RawOfItemKept
    <2>1. RawNamed /\ rawGone \subseteq Messages
        BY WiringAssumption DEF IInv, TypeOK
    <2>2. QED
        BY <2>1 DEF RawNamed
<1>2. QED
    BY <1>1, Inductive, PTL

(* An item none of whose leases ran out between its renewal and its story    *)
(* batch is in at most one story.                                            *)
THEOREM OneStory == Spec => []OneStoryPerItem
<1>1. IInv => OneStoryPerItem
    <2> SUFFICES ASSUME IInv, NEW c \in Contents, ~overrun[c]
                 PROVE  Cardinality(LinkedTo(c)) <= 1
        BY DEF OneStoryPerItem
    <2>1. \A s, t \in LinkedTo(c) : s = t
        <3> SUFFICES ASSUME NEW s \in LinkedTo(c), NEW t \in LinkedTo(c) PROVE s = t
            OBVIOUS
        <3>1. <<s, c>> \in links /\ <<t, c>> \in links
            BY DEF LinkedTo
        <3>2. \A k, l \in links : k[2] = c /\ l[2] = c => k = l
            BY DEF IInv, Linked
        <3>3. <<s, c>>[2] = c /\ <<t, c>>[2] = c
            OBVIOUS
        <3>4. <<s, c>> = <<t, c>>
            BY <3>1, <3>2, <3>3
        <3>5. QED
            BY <3>4
    <2>2. CASE LinkedTo(c) = {}
        BY <2>2, FS_EmptySet
    <2>3. ASSUME NEW s \in LinkedTo(c) PROVE Cardinality(LinkedTo(c)) = 1
        <3>1. LinkedTo(c) = {s}
            BY <2>1
        <3>2. QED
            BY <3>1, FS_Singleton
    <2>4. QED
        BY <2>2, <2>3
<1>2. QED
    BY <1>1, Inductive, PTL
=============================================================================
