----------------------------- MODULE ItemIngest -----------------------------
(* The resumable ingest of one queue message: ingestMessage and              *)
(* resumeItemIngest in src/ingest.ts over the statements of src/db.ts.       *)
(* Deliveries overlap (at-least-once), a worker may die or a statement may   *)
(* throw at any step, and the completion lease may expire under its holder.  *)
(*                                                                           *)
(* One item per content hash: migrations/0001_initial.sql makes              *)
(* (source_id, content_hash) unique.  A message is named by its origin; a    *)
(* message of HasRaw carries a public raw object of its own.                 *)
EXTENDS Integers, FiniteSets, Sequences, Functions

CONSTANTS
  Workers,      \* concurrent ingestMessage calls
  Messages,     \* queue messages; a redelivery is the same message again
  Contents,     \* content hashes, hence possible items
  Topics,       \* what matchStory tells apart
  ContentOf,    \* the content hash of each message
  TopicOf,      \* the topic of each content
  HasRaw,       \* messages with a managed raw object
  Tracked,      \* messages of a source run or an email receipt
  Legacy,       \* contents whose item may predate migration 0020
  LineageSettings, \* what reads of evidence_lineage_enabled may find: it can change
  MaxFaults,    \* bound: worker deaths, throwing statements, lost acks
  MaxExpiries,  \* bound: leases that expire under a live holder
  None, NoRaw, Orphan

ASSUME WiringAssumption ==
  /\ ContentOf \in [Messages -> Contents]
  /\ TopicOf \in [Contents -> Topics]
  /\ HasRaw \subseteq Messages /\ Tracked \subseteq Messages
  /\ Legacy \subseteq Contents /\ IsFiniteSet(Legacy)
  /\ LineageSettings \in (SUBSET BOOLEAN) \ {{}}
  /\ MaxFaults \in Nat /\ MaxExpiries \in Nat
ASSUME NullAssumption ==
  /\ None \notin Messages \cup Workers \cup {NoRaw, Orphan}
  /\ NoRaw \notin Messages
  /\ Orphan \notin Workers

VARIABLES
  item,       \* items: None, or the raw_r2_key its row was inserted with
  rawGone,    \* raw objects deleted as redundant
  enrolled,   \* contents with a row in item_ingest_completions, and its columns:
  origin, stage, storyId, lease, expired,
  stories,    \* stories, by id: the topic each was created for
  links,      \* story_items: <<story, content>>
  lineage,    \* evidence_lineage: the story classified against, 0 for none
  skipped,    \* history: contents without one because the setting skipped them
  matched,    \* stories matchStoryToMissions has been through
  dirtyFor,   \* items that have written memory_graph_dirty = '1'
  phase, msg, created, chosen,    \* the locals of each call
  reports,    \* what calls returned: message and inserted flag
  acked,      \* messages the queue will not deliver again
  faults, expiries,
  overrun     \* history: a lease expired between its renewal and the commit

items == <<item, enrolled, origin>>
progress == <<stage, storyId>>
leases == <<lease, expired>>
storyRows == <<stories, links>>
derived == <<lineage, skipped, matched, dirtyFor>>
rows == <<items, rawGone, progress, leases, storyRows, derived>>
locals == <<msg, created, chosen>>
queue == <<reports, acked>>
bounds == <<faults, expiries, overrun>>
vars == <<rows, phase, locals, queue, bounds>>

Phases == {"idle", "insert", "check", "claim", "resume", "renew", "commit",
           "lineage", "advance2", "missions", "advance3", "signal", "complete",
           "return"}
Stages == 0..4

C(w) == ContentOf[msg[w]]             \* the content a busy call is on
At(w, p) == phase[w] = p
GoTo(w, p) == phase' = [phase EXCEPT ![w] = p]
Done(c) == c \in enrolled /\ stage[c] = 4
Holds(w, c) == lease[c] = w /\ stage[c] < 4     \* the guard of the lease's statements

(* The call ends, by returning or by throwing.                               *)
Leave(w) ==
  /\ GoTo(w, "idle")
  /\ msg' = [msg EXCEPT ![w] = None]
  /\ created' = [created EXCEPT ![w] = FALSE]
  /\ chosen' = [chosen EXCEPT ![w] = 0]

(* ingestOriginKeyHash: a run item, an email claim or the raw key names the  *)
(* origin; a message with none of them has no origin.                        *)
OriginOf(m) == IF m \in Tracked \cup HasRaw THEN m ELSE None

LinkedTo(c) == {s \in 1..Len(stories) : <<s, c>> \in links}
OfTopic(t) == {s \in 1..Len(stories) : stories[s] = t}

(* findStoryForItem, and failing that matchStory; 0 asks for a new story.    *)
Candidates(c) ==
  IF LinkedTo(c) # {} THEN LinkedTo(c)
  ELSE IF OfTopic(TopicOf[c]) # {} THEN OfTopic(TopicOf[c])
  ELSE {0}

\* Mutant of InsertedOutcome: only the call that inserted may say so.
InsertedHere(w) == created[w]

(* insertedOutcome *)
InsertedOutcome(w) ==
  \/ created[w]
  \/ OriginOf(msg[w]) # None /\ origin[C(w)] = OriginOf(msg[w])
-----------------------------------------------------------------------------
(* Of the legacy contents some are there, without a completion row; some of  *)
(* these are linked, each to a story of its own, and of those some classified. *)
Init ==
  /\ \E present \in SUBSET Legacy : \E n \in 0..Cardinality(present) :
     \E linked \in Injection(1..n, present) : \E classified \in SUBSET (1..n) :
       /\ item = [c \in Contents |-> IF c \in present THEN NoRaw ELSE None]
       /\ stories = [s \in 1..n |-> TopicOf[linked[s]]]
       /\ links = {<<s, linked[s]>> : s \in 1..n}
       /\ lineage = [c \in Contents |->
                       IF \E s \in classified : linked[s] = c
                       THEN CHOOSE s \in classified : linked[s] = c ELSE 0]
  /\ rawGone = {} /\ enrolled = {} /\ skipped = {} /\ matched = {} /\ dirtyFor = {}
  /\ origin = [c \in Contents |-> None]
  /\ stage = [c \in Contents |-> 0] /\ storyId = [c \in Contents |-> 0]
  /\ lease = [c \in Contents |-> None] /\ expired = [c \in Contents |-> FALSE]
  /\ phase = [w \in Workers |-> "idle"] /\ msg = [w \in Workers |-> None]
  /\ created = [w \in Workers |-> FALSE] /\ chosen = [w \in Workers |-> 0]
  /\ reports = {} /\ acked = {}
  /\ faults = 0 /\ expiries = 0
  /\ overrun = [c \in Contents |-> FALSE]

(* The queue delivers a message and findExistingItem looks for its content.  *)
Deliver(w, m) ==
  /\ At(w, "idle") /\ m \notin acked
  /\ msg' = [msg EXCEPT ![w] = m]
  /\ GoTo(w, IF item[ContentOf[m]] = None THEN "insert" ELSE "check")
  /\ UNCHANGED <<rows, created, chosen, queue, bounds>>

(* insertItemWithIngestCompletion: item and completion row in one batch.     *)
InsertItem(w) ==
  /\ At(w, "insert") /\ item[C(w)] = None
  /\ item' = [item EXCEPT ![C(w)] = IF msg[w] \in HasRaw THEN msg[w] ELSE NoRaw]
  /\ enrolled' = enrolled \cup {C(w)}
  /\ origin' = [origin EXCEPT ![C(w)] = OriginOf(msg[w])]
  /\ created' = [created EXCEPT ![w] = TRUE]
  /\ GoTo(w, "check")
  /\ UNCHANGED <<rawGone, progress, leases, storyRows, derived, msg, chosen, queue, bounds>>

(* A delivery that lost the race for the unique key adopts the winner's item. *)
AdoptItem(w) ==
  /\ At(w, "insert") /\ item[C(w)] # None
  /\ GoTo(w, "check")
  /\ UNCHANGED <<rows, locals, queue, bounds>>

\* Mutant of Redundant: whoever did not insert is taken for a duplicate.
RedundantUnlessCreated(w) == IF msg[w] \in HasRaw /\ ~created[w] THEN {msg[w]} ELSE {}

(* cleanRedundantRawObject *)
Redundant(w) == IF msg[w] \in HasRaw /\ item[C(w)] # msg[w] THEN {msg[w]} ELSE {}

\* Mutant of Check: an item that was found is a finished duplicate.
CheckItemOnly(w) ==
  /\ At(w, "check")
  /\ rawGone' = rawGone \cup Redundant(w)
  /\ GoTo(w, IF created[w] /\ ~Done(C(w)) THEN "claim" ELSE "return")
  /\ UNCHANGED <<items, progress, leases, storyRows, derived, locals, queue, bounds>>

(* The clean-up, then the first read of the completion row: only             *)
(* completed_at lets the call return from here.                              *)
Check(w) ==
  /\ At(w, "check") /\ C(w) \in enrolled
  /\ rawGone' = rawGone \cup Redundant(w)
  /\ GoTo(w, IF Done(C(w)) THEN "return" ELSE "claim")
  /\ UNCHANGED <<items, progress, leases, storyRows, derived, locals, queue, bounds>>

Skip(c) == IF lineage[c] = 0 THEN skipped \cup {c} ELSE skipped

(* ensureItemIngestCompletion: a legacy item is enrolled, without an origin, *)
(* at the stage it already reached; with lineage switched off, past it.      *)
Enroll(w) ==
  /\ At(w, "check") /\ C(w) \notin enrolled
  /\ rawGone' = rawGone \cup Redundant(w)
  /\ enrolled' = enrolled \cup {C(w)}
  /\ \/ LinkedTo(C(w)) = {} /\ UNCHANGED <<progress, skipped>>
     \/ \E s \in LinkedTo(C(w)), enabled \in LineageSettings :
          /\ storyId' = [storyId EXCEPT ![C(w)] = s]
          /\ stage' = [stage EXCEPT ![C(w)] = IF lineage[C(w)] = 0 /\ enabled THEN 1 ELSE 2]
          /\ skipped' = IF enabled THEN skipped ELSE Skip(C(w))
  /\ GoTo(w, "claim")
  /\ UNCHANGED <<item, origin, leases, storyRows, lineage, matched, dirtyFor, locals,
                 queue, bounds>>

\* Mutant of Claimable: a lease that ran out still keeps others off.
ClaimableReleased(c) == stage[c] < 4 /\ lease[c] = None

Claimable(c) == stage[c] < 4 /\ (lease[c] = None \/ expired[c])

(* claimItemIngestCompletion *)
Claim(w) ==
  /\ At(w, "claim") /\ Claimable(C(w))
  /\ lease' = [lease EXCEPT ![C(w)] = w]
  /\ expired' = [expired EXCEPT ![C(w)] = FALSE]
  /\ GoTo(w, "resume")
  /\ UNCHANGED <<items, rawGone, progress, storyRows, derived, locals, queue, bounds>>

(* A refused claim re-reads the row, returns when it completed meanwhile and *)
(* throws "already in progress" otherwise.                                   *)
ClaimRefused(w) ==
  /\ At(w, "claim") /\ ~Claimable(C(w))
  /\ IF Done(C(w)) THEN GoTo(w, "return") /\ UNCHANGED locals ELSE Leave(w)
  /\ UNCHANGED <<rows, queue, bounds>>

Entry(n) == CASE n = 0 -> "renew" [] n = 1 -> "lineage" [] n = 2 -> "missions"
              [] n = 3 -> "signal" [] n = 4 -> "return"

(* resumeItemIngest reads the stage it resumes from and its story.  Both     *)
(* reads are one step: the lease is re-checked by every statement after it.  *)
Resume(w) ==
  /\ At(w, "resume")
  /\ GoTo(w, Entry(stage[C(w)]))
  /\ \E s \in IF storyId[C(w)] # 0 THEN {storyId[C(w)]} ELSE Candidates(C(w)) :
       chosen' = [chosen EXCEPT ![w] = s]
  /\ UNCHANGED <<rows, msg, created, queue, bounds>>
-----------------------------------------------------------------------------
(* A statement whose lease guard matches no row throws; the catch releases   *)
(* whatever this call still holds, nothing, and the queue retries.           *)
LoseLease(w) ==
  /\ phase[w] \in {"renew", "advance2", "advance3", "complete"}
  /\ ~Holds(w, C(w)) /\ Leave(w)
  /\ UNCHANGED <<rows, queue, bounds>>

\* Mutant of Renew: the token is not compared.
RenewAnyLease(w) ==
  /\ At(w, "renew")
  /\ expired' = [expired EXCEPT ![C(w)] = FALSE]
  /\ GoTo(w, "commit")
  /\ UNCHANGED <<items, rawGone, progress, lease, storyRows, derived, locals, queue, bounds>>

(* renewItemIngestCompletionLease: by token alone, so a lease that expired   *)
(* but was not taken over comes back to life.                                *)
Renew(w) ==
  /\ At(w, "renew") /\ Holds(w, C(w))
  /\ expired' = [expired EXCEPT ![C(w)] = FALSE]
  /\ GoTo(w, "commit")
  /\ UNCHANGED <<items, rawGone, progress, lease, storyRows, derived, locals, queue, bounds>>

Target(w) == IF chosen[w] = 0 THEN Len(stories) + 1 ELSE chosen[w]

(* The statements of commitItemStoryIngestStage ahead of the guarded one:    *)
(* the story, when it is new, and its link.                                  *)
CommitStory(w) ==
  /\ stories' = IF chosen[w] = 0 THEN Append(stories, TopicOf[C(w)]) ELSE stories
  /\ links' = links \cup {<<Target(w), C(w)>>}

\* Mutant of Commit: the last statement carries no lease guard.
CommitAnyLease(w) ==
  /\ At(w, "commit") /\ CommitStory(w)
  /\ stage' = [stage EXCEPT ![C(w)] = IF @ < 1 THEN 1 ELSE @]
  /\ storyId' = [storyId EXCEPT ![C(w)] = Target(w)]
  /\ chosen' = [chosen EXCEPT ![w] = Target(w)]
  /\ GoTo(w, "lineage")
  /\ UNCHANGED <<items, rawGone, leases, derived, msg, created, queue, bounds>>

(* commitItemStoryIngestStage: one batch, whose last statement alone carries *)
(* the lease guard...                                                        *)
Commit(w) ==
  /\ At(w, "commit") /\ CommitStory(w) /\ Holds(w, C(w))
  /\ stage' = [stage EXCEPT ![C(w)] = IF @ < 1 THEN 1 ELSE @]
  /\ storyId' = [storyId EXCEPT ![C(w)] = Target(w)]
  /\ chosen' = [chosen EXCEPT ![w] = Target(w)]
  /\ GoTo(w, "lineage")
  /\ UNCHANGED <<items, rawGone, leases, derived, msg, created, queue, bounds>>

(* ... and a guard that matches no row does not undo the rest of it.         *)
CommitLost(w) ==
  /\ At(w, "commit") /\ CommitStory(w)
  /\ ~Holds(w, C(w)) /\ Leave(w)
  /\ UNCHANGED <<items, rawGone, progress, leases, derived, queue, bounds>>

(* classifyEvidenceLineage, upserted by item: not fenced by the lease, and   *)
(* skipped while the owner has it switched off.                              *)
Classify(w) ==
  /\ At(w, "lineage") /\ GoTo(w, "advance2")
  /\ \E enabled \in LineageSettings :
       /\ lineage' = IF enabled THEN [lineage EXCEPT ![C(w)] = chosen[w]] ELSE lineage
       /\ skipped' = IF enabled THEN skipped \ {C(w)} ELSE Skip(C(w))
  /\ UNCHANGED <<items, rawGone, progress, leases, storyRows, matched, dirtyFor,
                 locals, queue, bounds>>

(* matchStoryToMissions, upserted by mission and story: not fenced either.   *)
MatchMissions(w) ==
  /\ At(w, "missions") /\ GoTo(w, "advance3")
  /\ matched' = matched \cup {chosen[w]}
  /\ UNCHANGED <<items, rawGone, progress, leases, storyRows, lineage, skipped, dirtyFor,
                 locals, queue, bounds>>

(* advanceItemIngestCompletion *)
Advance(w, from, n, to) ==
  /\ At(w, from) /\ Holds(w, C(w))
  /\ stage' = [stage EXCEPT ![C(w)] = IF @ < n THEN n ELSE @]
  /\ storyId' = [storyId EXCEPT ![C(w)] = chosen[w]]
  /\ GoTo(w, to)
  /\ UNCHANGED <<items, rawGone, leases, storyRows, derived, locals, queue, bounds>>

AdvanceLineage(w) == Advance(w, "advance2", 2, "missions")
AdvanceMissions(w) == Advance(w, "advance3", 3, "signal")

Signal(w) ==
  /\ At(w, "signal") /\ GoTo(w, "complete")
  /\ dirtyFor' = dirtyFor \cup {C(w)}
  /\ UNCHANGED <<items, rawGone, progress, leases, storyRows, lineage, skipped, matched,
                 locals, queue, bounds>>

(* completeItemIngest *)
Complete(w) ==
  /\ At(w, "complete") /\ Holds(w, C(w))
  /\ stage' = [stage EXCEPT ![C(w)] = 4]
  /\ lease' = [lease EXCEPT ![C(w)] = None]
  /\ expired' = [expired EXCEPT ![C(w)] = FALSE]
  /\ GoTo(w, "return")
  /\ UNCHANGED <<items, rawGone, storyId, storyRows, derived, locals, queue, bounds>>

(* ingestMessage returns and consumePrimaryMessage acknowledges the message; *)
(* an acknowledgement may be lost, and the message delivered again.          *)
Return(w) ==
  /\ At(w, "return") /\ Leave(w)
  /\ reports' = reports \cup {[msg |-> msg[w], inserted |-> InsertedOutcome(w)]}
  /\ \/ acked' = acked \cup {msg[w]} /\ UNCHANGED faults
     \/ faults < MaxFaults /\ faults' = faults + 1 /\ UNCHANGED acked
  /\ UNCHANGED <<rows, expiries, overrun>>
-----------------------------------------------------------------------------
(* A statement throws, before or after it took effect, and the catch of      *)
(* ingestMessage calls releaseItemIngestCompletionLease; or the call dies,   *)
(* or its release fails too, and nobody has its token any more.              *)
Break(w, holder) ==
  /\ ~At(w, "idle") /\ Leave(w)
  /\ faults < MaxFaults /\ faults' = faults + 1
  /\ lease' = [c \in Contents |-> IF lease[c] = w THEN holder ELSE lease[c]]
  /\ UNCHANGED <<items, rawGone, progress, expired, storyRows, derived, queue,
                 expiries, overrun>>

Throw(w) == Break(w, None)
Die(w) == Break(w, Orphan)

(* lease_expires_at passes for a lease nobody will renew...                  *)
ExpireOrphan(c) ==
  /\ lease[c] = Orphan /\ ~expired[c]
  /\ expired' = [expired EXCEPT ![c] = TRUE]
  /\ UNCHANGED <<items, rawGone, progress, lease, storyRows, derived, phase, locals,
                 queue, bounds>>

(* ... or under a call that is still running.                                *)
ExpireLive(c) ==
  /\ lease[c] \in Workers /\ ~expired[c]
  /\ expiries < MaxExpiries /\ expiries' = expiries + 1
  /\ expired' = [expired EXCEPT ![c] = TRUE]
  /\ overrun' = [overrun EXCEPT ![c] = @ \/ At(lease[c], "commit")]
  /\ UNCHANGED <<items, rawGone, progress, lease, storyRows, derived, phase, locals,
                 queue, faults>>

Step(w) ==
  \/ InsertItem(w) \/ AdoptItem(w) \/ Check(w) \/ Enroll(w)
  \/ Claim(w) \/ ClaimRefused(w) \/ Resume(w) \/ LoseLease(w)
  \/ Renew(w) \/ Commit(w) \/ CommitLost(w)
  \/ Classify(w) \/ AdvanceLineage(w) \/ MatchMissions(w) \/ AdvanceMissions(w)
  \/ Signal(w) \/ Complete(w) \/ Return(w)

Next ==
  \/ \E w \in Workers : (\E m \in Messages : Deliver(w, m)) \/ Step(w) \/ Throw(w) \/ Die(w)
  \/ \E c \in Contents : ExpireOrphan(c) \/ ExpireLive(c)

Spec == Init /\ [][Next]_vars

(* The queue redelivers what is not acknowledged, a running call makes       *)
(* progress, and a lease nobody renews runs out.                             *)
FairSpec ==
  /\ Spec
  /\ \A m \in Messages : WF_vars(\E w \in Workers : Deliver(w, m))
  /\ \A w \in Workers : WF_vars(Step(w))
  /\ \A c \in Contents : WF_vars(ExpireOrphan(c))
-----------------------------------------------------------------------------
StoryIds == 1..Len(stories)

TypeOK ==
  /\ item \in [Contents -> Messages \cup {NoRaw, None}]
  /\ rawGone \subseteq HasRaw /\ enrolled \subseteq Contents
  /\ origin \in [Contents -> Messages \cup {None}]
  /\ stage \in [Contents -> Stages]
  /\ storyId \in [Contents -> StoryIds \cup {0}]
  /\ lease \in [Contents -> Workers \cup {Orphan, None}]
  /\ expired \in [Contents -> BOOLEAN]
  /\ stories \in Seq(Topics)
  /\ links \subseteq StoryIds \X Contents
  /\ lineage \in [Contents -> StoryIds \cup {0}]
  /\ skipped \subseteq Contents
  /\ matched \subseteq StoryIds
  /\ dirtyFor \subseteq Contents
  /\ phase \in [Workers -> Phases]
  /\ msg \in [Workers -> Messages \cup {None}]
  /\ created \in [Workers -> BOOLEAN]
  /\ chosen \in [Workers -> StoryIds \cup {0}]
  /\ reports \subseteq [msg : Messages, inserted : BOOLEAN]
  /\ acked \subseteq Messages
  /\ faults \in 0..MaxFaults /\ expiries \in 0..MaxExpiries
  /\ overrun \in [Contents -> BOOLEAN]

(* The stage of a completion row never runs ahead of the work it stands for, *)
(* whoever did that work and whichever leases were lost meanwhile: the story *)
(* is linked from stage 1, the lineage row names that same story from        *)
(* stage 2, or is missing because a call found lineage switched off, its     *)
(* missions were matched by stage 3 and the memory signal was written by     *)
(* stage 4.                                                                  *)
StageHonest == \A c \in enrolled :
  /\ stage[c] >= 1 => <<storyId[c], c>> \in links
  /\ stage[c] >= 2 =>
       lineage[c] = storyId[c] \/ (lineage[c] = 0 /\ c \in skipped)
  /\ stage[c] >= 3 => storyId[c] \in matched
  /\ stage[c] = 4 => c \in dirtyFor

(* One item ends in one story, through every redelivery, crash and take-over *)
(* of its lease, unless a lease ran out in the one window the code leaves    *)
(* open: after the renewal that precedes the story batch, before the batch.  *)
OneStoryPerItem == \A c \in Contents : ~overrun[c] => Cardinality(LinkedTo(c)) <= 1

(* ingestMessage answers only for an item whose ingest is complete, so that  *)
(* no receipt is recorded and no message acknowledged for a partial one.     *)
ReturnsOnlyComplete == \A r \in reports : Done(ContentOf[r.msg])

(* However often a message is delivered, its origin is told the same         *)
(* outcome, and of all the messages with one content at most one origin is   *)
(* told that it inserted the item.                                           *)
OriginCountedOnce == \A r1, r2 \in reports :
  /\ r1.msg = r2.msg /\ OriginOf(r1.msg) # None => r1.inserted = r2.inserted
  /\ r1.inserted /\ r2.inserted /\ ContentOf[r1.msg] = ContentOf[r2.msg]
       => r1.msg = r2.msg

(* Cleaning a duplicate's raw object never deletes the object the stored     *)
(* item refers to, which a redelivery of the inserting message also names.   *)
RawOfItemKept == \A c \in Contents : item[c] \notin rawGone

(* Every message is eventually acknowledged: a dead call's lease does not    *)
(* block the item for good.                                                  *)
Settles == <>(acked = Messages)
=============================================================================
