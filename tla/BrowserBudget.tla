--------------------------- MODULE BrowserBudget ---------------------------
(* How a rendering attempt pays for its browser (rendering.ts, budget.ts,    *)
(* browser-admission.ts, reserveUsage of db.ts): it reserves the maximum of  *)
(* its calls from the day's allowance, claims a start slot of the whole      *)
(* deployment for each call, runs the call and settles once for what was     *)
(* measured.  A step is one database statement or one browser call; any      *)
(* other attempt, the owner and the clock may move in between, and an        *)
(* attempt may die at any step.                                              *)
EXTENDS Naturals, FiniteSets, FiniteSetsExt, Functions

CONSTANTS Attempts,
          SessionMax, \* KITESURF_SESSION_RESERVATION_MS
          CallMax,    \* BROWSER_CALL_RESERVATION_MS
          Intervals,  \* browserAdmissionInterval for each capacity
          MaxWait,    \* BROWSER_ADMISSION_MAX_WAIT_MS
          Limits,     \* limits of the day the owner may set
          DayLength,
          Horizon     \* bound: the clock stops here

ASSUME BudgetAssumption ==
    /\ IsFiniteSet(Attempts)
    /\ SessionMax \in Nat \ {0} /\ CallMax \in Nat \ {0}
    /\ Intervals \subseteq Nat \ {0} /\ Limits \subseteq Nat
    /\ MaxWait \in Nat /\ DayLength \in Nat \ {0} /\ Horizon \in Nat

Kinds == {"session", "quick-action"}
Days  == 0..(Horizon \div DayLength)

VARIABLES now,
          limit,     \* the effective limit of browser_ms_day
          highest,   \* ghost: the highest limit there was
          interval,  \* between two starts, by the execution capacity
          usage,     \* usage_daily: units of each day
          next,      \* browser_admission_next_*: the next free start, 0 for none
          attempt,   \* where each attempt is, and what it has read
          granted    \* ghost: the slots that were given out

settings == <<limit, highest, interval>>
vars     == <<now, settings, usage, next, attempt, granted>>

Today == now \div DayLength

\* A Kitesurf attempt uses one session, a Chromium attempt two Quick Actions,
\* for the text and for the links.
Kind(a)  == attempt[a].kind
Calls(a) == IF Kind(a) = "session" THEN 1 ELSE 2
Most(a)  == IF Kind(a) = "session" THEN SessionMax ELSE CallMax

\* What reserveBrowserCalls asks for.
Units(a) == Calls(a) * Most(a)

New(kind) == [at |-> "new", kind |-> kind, limit |-> 0, interval |-> 0, day |-> 0, reserved |-> 0,
              asked |-> 0, slot |-> 0, calls |-> 0, charged |-> 0, used |-> 0]

\* What is left of an attempt that has ended.
Over(a, at) == [New(Kind(a)) EXCEPT !.at = at, !.day = attempt[a].day, !.used = attempt[a].used]

At(a, at)    == attempt[a].at = at
Move(a, rec) == attempt' = [attempt EXCEPT ![a] = rec]
Goto(a, at)  == Move(a, [attempt[a] EXCEPT !.at = at])

Init ==
    /\ now = 0
    /\ limit \in Limits /\ highest = limit /\ interval \in Intervals
    /\ usage = [d \in Days |-> 0]
    /\ next = [k \in Kinds |-> 0]
    /\ \E kind \in [Attempts -> Kinds] : attempt = [a \in Attempts |-> New(kind[a])]
    /\ granted = {}

-----------------------------------------------------------------------------
Tick ==
    /\ now < Horizon /\ now' = now + 1
    /\ UNCHANGED <<settings, usage, next, attempt, granted>>

\* setBudgetProfile, setExecutionCapacity.
Configure ==
    /\ limit' \in Limits /\ interval' \in Intervals
    /\ highest' = IF limit' > highest THEN limit' ELSE highest
    /\ UNCHANGED <<now, usage, next, attempt, granted>>

\* getBudgetProfile; the day is taken after it and before the reservation.
ReadProfile(a) ==
    /\ At(a, "new")
    /\ Move(a, [attempt[a] EXCEPT !.at = "reserve", !.limit = limit, !.interval = interval,
                                  !.day = Today])
    /\ UNCHANGED <<now, settings, usage, next, granted>>

\* Mutant of Fits: only the update of an existing row is guarded.
FitsOrFirst(units, used, most) == used = 0 \/ used + units <= most

\* The conditions of reserveUsage: the first row of a day is checked in the
\* code, an existing one in the statement.
Fits(units, used, most) == units <= most /\ used + units <= most

Reserve(a) ==
    /\ At(a, "reserve")
    /\ LET day == attempt[a].day
       IN IF Fits(Units(a), usage[day], attempt[a].limit)
          THEN /\ usage' = [usage EXCEPT ![day] = @ + Units(a)]
               /\ Move(a, [attempt[a] EXCEPT !.at = "ask", !.reserved = Units(a)])
          ELSE Move(a, Over(a, "over")) /\ UNCHANGED usage
    /\ UNCHANGED <<now, settings, next, granted>>

\* claimBrowserAdmission takes the time before its statement.
Ask(a) ==
    /\ At(a, "ask")
    /\ Move(a, [attempt[a] EXCEPT !.at = "claim", !.asked = now])
    /\ UNCHANGED <<now, settings, usage, next, granted>>

\* Mutant of Start: a slot is taken at the time of asking.
StartAsked(asked, free) == asked

\* The start a claim gets: the next free one, but not in the past.
Start(asked, free) == IF free > asked THEN free ELSE asked

\* A slot too far ahead is refused: this call and those after it are skipped.
Claim(a) ==
    /\ At(a, "claim")
    /\ LET k    == Kind(a)
           slot == Start(attempt[a].asked, next[k])
       IN IF slot <= attempt[a].asked + MaxWait
          THEN /\ next' = [next EXCEPT ![k] = slot + attempt[a].interval]
               /\ granted' = granted \cup
                    {[kind |-> k, slot |-> slot, until |-> slot + attempt[a].interval, by |-> a]}
               /\ Move(a, [attempt[a] EXCEPT !.at = "wait", !.slot = slot])
          ELSE Goto(a, "settle") /\ UNCHANGED <<next, granted>>
    /\ UNCHANGED <<now, settings, usage>>

Begin(a) ==
    /\ At(a, "wait") /\ now >= attempt[a].slot
    /\ Move(a, [attempt[a] EXCEPT !.at = "running", !.slot = now])
    /\ UNCHANGED <<now, settings, usage, next, granted>>

Elapsed(a) == Min({Most(a), now - attempt[a].slot})

Spent(a, charged, used, at) ==
    Move(a, [attempt[a] EXCEPT !.at = at, !.calls = @ + 1,
                               !.charged = @ + charged, !.used = @ + used])

\* BrowserUsageMeter: a call that timed out, or a session whose close was not
\* confirmed, costs the maximum.
Charge(a, ended) == IF ended THEN Max({1, Elapsed(a)}) ELSE Most(a)

\* The call returns, fails or times out; what was not seen to end may go on
\* for the maximum.  The second call of Chromium follows a success only.
Call(a) ==
    /\ At(a, "running")
    /\ \/ /\ Spent(a, Charge(a, TRUE), Elapsed(a),
                   IF attempt[a].calls + 1 < Calls(a) THEN "ask" ELSE "settle")
       \/ Spent(a, Charge(a, TRUE), Elapsed(a), "settle")
       \/ Spent(a, Charge(a, FALSE), Most(a), "settle")
    /\ UNCHANGED <<now, settings, usage, next, granted>>

\* Mutant of Ledger: what is released is taken from today's row.
LedgerToday(a) == Today

\* The row a reservation is settled in.
Ledger(a) == attempt[a].day

\* settleReservation; its failure, before or after it commits, is not retried.
Settle(a) ==
    /\ At(a, "settle")
    /\ LET released == attempt[a].reserved - attempt[a].charged
           d == Ledger(a)
       IN \/ usage[d] >= released /\ usage' = [usage EXCEPT ![d] = @ - released]
          \/ UNCHANGED usage
    /\ Move(a, Over(a, "over"))
    /\ UNCHANGED <<now, settings, next, granted>>

\* The invocation dies; a running call may go on for the maximum.
Die(a) ==
    /\ attempt[a].at \notin {"new", "over"}
    /\ Move(a, [Over(a, "over") EXCEPT !.used = @ + IF At(a, "running") THEN Most(a) ELSE 0])
    /\ UNCHANGED <<now, settings, usage, next, granted>>

Next ==
    \/ Tick \/ Configure
    \/ \E a \in Attempts : \/ ReadProfile(a) \/ Reserve(a) \/ Ask(a) \/ Claim(a) \/ Begin(a)
                           \/ Call(a) \/ Settle(a) \/ Die(a)

Spec == Init /\ [][Next]_vars

-----------------------------------------------------------------------------
(* Properties *)

\* What the browser did for the attempts that reserved on a day.
UsedOn(d) == SumFunction([a \in Attempts |-> IF attempt[a].day = d THEN attempt[a].used ELSE 0])

\* The day's row never falls below what the browser did, whenever the attempts
\* settle and however they end, and attempts that reserve at once, on the first
\* row of the day or a later one, never pass a limit that was in force: nobody is
\* promised time that was already used (reserveUsage, settleReservation).
LedgerSound == \A d \in Days : UsedOn(d) <= usage[d] /\ usage[d] <= highest

\* Two starts of one kind are as far apart as the earlier claim asked for, also
\* when the capacity changes in between and attempts die (claimBrowserAdmission).
SlotsSpaced ==
    \A g, h \in granted : g # h /\ g.kind = h.kind => g.until <= h.slot \/ h.until <= g.slot
=============================================================================
