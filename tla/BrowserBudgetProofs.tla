------------------------- MODULE BrowserBudgetProofs -------------------------
(* Proofs about BrowserBudget, for any number of attempts and any settings.  *)
EXTENDS BrowserBudget, FiniteSetTheorems, WellFoundedInduction, TLAPS

-----------------------------------------------------------------------------
(* The sum of a function with a finite domain. *)

First(s) == CHOOSE x \in s : TRUE

IsPartial(g, f, D) ==
    g = [s \in D |-> IF s = {} THEN 0 ELSE f[First(s)] + g[s \ {First(s)}]]

\* The sums of f over the subsets of S.
Partial(f, S) == CHOOSE g : IsPartial(g, f, SUBSET S)

LEMMA SumIs ==
    ASSUME NEW S, NEW f \in [S -> Nat]
    PROVE  SumFunction(f) = Partial(f, S)[S]
BY DEF SumFunction, SumFunctionOnSet, FoldFunctionOnSet, MapThenFoldSet, Partial, IsPartial, First

\* A set of natural numbers has a least element.
LEMMA LeastElement ==
    ASSUME NEW S \in SUBSET Nat, S # {}
    PROVE  \E x \in S : \A y \in S : x <= y
<1> DEFINE R == OpToRel(<, Nat)
<1>1. IsWellFoundedOn(R, Nat)
    BY NatLessThanWellFounded
<1>2. \A x, y \in Nat : x < y => <<x, y>> \in R
    BY DEF OpToRel
<1> HIDE DEF R
<1>3. PICK x \in S : \A y \in S : <<y, x>> \notin R
    BY <1>1, WFMin
<1>4. ASSUME NEW y \in S PROVE x <= y
    <2>1. x \in Nat /\ y \in Nat /\ ~(y < x)
        BY <1>2, <1>3
    <2>2. QED
        BY <2>1
<1>5. QED
    BY <1>4

\* A set loses one element with its first.
LEMMA FirstIs ==
    ASSUME NEW S, IsFiniteSet(S), NEW s \in SUBSET S, s # {}
    PROVE  /\ First(s) \in s /\ First(s) \in S /\ s \ {First(s)} \in SUBSET S
           /\ IsFiniteSet(s)
           /\ Cardinality(s) \in Nat /\ Cardinality(s) # 0
           /\ Cardinality(s \ {First(s)}) = Cardinality(s) - 1
<1>1. First(s) \in s
    BY DEF First
<1>2. IsFiniteSet(s) /\ Cardinality(s) \in Nat
    BY FS_Subset, FS_CardinalityType
<1>3. Cardinality(s \ {First(s)}) = Cardinality(s) - 1
    BY <1>1, <1>2, FS_RemoveElement
<1>4. Cardinality(s) # 0
    BY <1>2, FS_EmptySet
<1>5. QED
    BY <1>1, <1>2, <1>3, <1>4

\* The subsets of S with at most n elements.
UpTo(S, n) == {s \in SUBSET S : Cardinality(s) <= n}

\* The partial sums over the subsets of every size exist.
LEMMA PartialUpTo ==
    ASSUME NEW S, IsFiniteSet(S), NEW f \in [S -> Nat], NEW n \in Nat
    PROVE  \E g : IsPartial(g, f, UpTo(S, n))
<1> DEFINE Good(k) == \E g : IsPartial(g, f, UpTo(S, k))
           Bad == {k \in Nat : ~Good(k)}
<1>1. Good(0)
    <2>1. \A s \in UpTo(S, 0) : s = {}
        <3>1. SUFFICES ASSUME NEW s \in UpTo(S, 0), s # {} PROVE FALSE
            OBVIOUS
        <3>2. s \in SUBSET S /\ Cardinality(s) <= 0
            BY <3>1 DEF UpTo
        <3>3. Cardinality(s) \in Nat /\ Cardinality(s) # 0
            BY <3>1, <3>2, FirstIs
        <3>4. QED
            BY <3>2, <3>3
    <2>2. IsPartial([s \in UpTo(S, 0) |-> 0], f, UpTo(S, 0))
        BY <2>1 DEF IsPartial
    <2>3. QED
        BY <2>2
<1>2. ASSUME NEW k \in Nat, k # 0, Good(k - 1) PROVE Good(k)
    <2>1. PICK g : IsPartial(g, f, UpTo(S, k - 1))
        BY <1>2
    <2> DEFINE step(s) == IF s = {} THEN 0 ELSE f[First(s)] + g[s \ {First(s)}]
               h == [s \in UpTo(S, k) |-> step(s)]
    <2>2. \A s \in UpTo(S, k - 1) : g[s] = step(s) /\ s \in UpTo(S, k)
        <3>1. SUFFICES ASSUME NEW s \in UpTo(S, k - 1) PROVE g[s] = step(s) /\ s \in UpTo(S, k)
            OBVIOUS
        <3>2. g[s] = step(s)
            BY <2>1 DEF IsPartial
        <3>3. s \in SUBSET S /\ Cardinality(s) <= k - 1
            BY DEF UpTo
        <3>4. IsFiniteSet(s) /\ Cardinality(s) \in Nat
            BY <3>3, FS_Subset, FS_CardinalityType
        <3>5. s \in UpTo(S, k)
            BY <3>3, <3>4, <1>2 DEF UpTo
        <3>6. QED
            BY <3>2, <3>5
    <2>3. \A s \in UpTo(S, k) : s # {} => s \ {First(s)} \in UpTo(S, k - 1)
        <3>1. SUFFICES ASSUME NEW s \in UpTo(S, k), s # {}
                       PROVE  s \ {First(s)} \in UpTo(S, k - 1)
            OBVIOUS
        <3>2. s \in SUBSET S /\ Cardinality(s) <= k
            BY DEF UpTo
        <3>3. /\ s \ {First(s)} \in SUBSET S /\ Cardinality(s) \in Nat
              /\ Cardinality(s \ {First(s)}) = Cardinality(s) - 1
            BY <3>1, <3>2, FirstIs
        <3>4. QED
            BY <3>2, <3>3, <1>2 DEF UpTo
    <2>4. \A s \in UpTo(S, k - 1) : h[s] = g[s]
        BY <2>2
    <2>5. \A s \in UpTo(S, k) :
              h[s] = IF s = {} THEN 0 ELSE f[First(s)] + h[s \ {First(s)}]
        BY <2>3, <2>4
    <2>6. h = [s \in UpTo(S, k) |-> IF s = {} THEN 0 ELSE f[First(s)] + h[s \ {First(s)}]]
        <3> DEFINE hh == [s \in UpTo(S, k) |-> IF s = {} THEN 0 ELSE f[First(s)] + h[s \ {First(s)}]]
        <3>1. \A s \in UpTo(S, k) : step(s) = IF s = {} THEN 0 ELSE f[First(s)] + h[s \ {First(s)}]
            BY <2>5
        <3> HIDE DEF step
        <3>2. QED
            BY <3>1
    <2>7. QED
        BY <2>6 DEF IsPartial
<1>3. SUFFICES ASSUME Bad # {} PROVE FALSE
    OBVIOUS
<1>4. PICK k \in Bad : \A j \in Bad : k <= j
    <2>1. Bad \in SUBSET Nat
        OBVIOUS
    <2> HIDE DEF Bad
    <2>2. QED
        BY <2>1, <1>3, LeastElement
<1>5. k \in Nat /\ k # 0 /\ ~Good(k)
    BY <1>1
<1>6. Good(k - 1)
    <2>1. k - 1 \in Nat /\ ~(k <= k - 1)
        BY <1>5
    <2>2. QED
        BY <2>1, <1>4
<1>7. QED
    BY <1>2, <1>5, <1>6

LEMMA PartialExists ==
    ASSUME NEW S, IsFiniteSet(S), NEW f \in [S -> Nat]
    PROVE  IsPartial(Partial(f, S), f, SUBSET S)
<1>1. Cardinality(S) \in Nat
    BY FS_CardinalityType
<1>2. UpTo(S, Cardinality(S)) = SUBSET S
    BY FS_Subset DEF UpTo
<1>3. \E g : IsPartial(g, f, SUBSET S)
    <2>1. \E g : IsPartial(g, f, UpTo(S, Cardinality(S)))
        BY <1>1, PartialUpTo
    <2>2. QED
        BY <2>1, <1>2
<1>4. QED
    BY <1>3 DEF Partial

\* What holds of the empty set, and of a set when it holds without its first
\* element, holds of every subset of S.
LEMMA SubsetsAreGood ==
    ASSUME NEW S, IsFiniteSet(S), NEW G, {} \in G,
           \A s \in SUBSET S : s # {} /\ s \ {First(s)} \in G => s \in G
    PROVE  \A s \in SUBSET S : s \in G
<1> DEFINE Sizes == {Cardinality(s) : s \in {t \in SUBSET S : t \notin G}}
<1>1. SUFFICES ASSUME NEW b \in SUBSET S, b \notin G PROVE FALSE
    OBVIOUS
<1>2. Sizes \in SUBSET Nat
    BY FS_Subset, FS_CardinalityType
<1>3. Cardinality(b) \in Sizes
    BY <1>1
<1>4. PICK n \in Sizes : \A j \in Sizes : n <= j
    <2> HIDE DEF Sizes
    <2>1. QED
        BY <1>2, <1>3, LeastElement
<1>5. PICK s \in SUBSET S : s \notin G /\ Cardinality(s) = n
    BY <1>4
<1>6. s # {}
    BY <1>5
<1>7. s \ {First(s)} \notin G
    BY <1>5, <1>6
<1>8. /\ s \ {First(s)} \in SUBSET S /\ Cardinality(s) \in Nat
      /\ Cardinality(s \ {First(s)}) = Cardinality(s) - 1
    BY <1>6, FirstIs
<1>9. Cardinality(s \ {First(s)}) \in Sizes
    BY <1>7, <1>8
<1>10. n <= n - 1 /\ n \in Nat
    <2>1. n <= Cardinality(s \ {First(s)})
        BY <1>4, <1>9
    <2>2. QED
        BY <2>1, <1>5, <1>8
<1>11. QED
    BY <1>10

\* The partial sum of a set is that of the set without its first element and
\* the value there.
LEMMA PartialIs ==
    ASSUME NEW S, IsFiniteSet(S), NEW f \in [S -> Nat]
    PROVE  /\ Partial(f, S)[{}] = 0
           /\ \A s \in SUBSET S :
                  s # {} => Partial(f, S)[s] = f[First(s)] + Partial(f, S)[s \ {First(s)}]
<1> DEFINE g == Partial(f, S)
<1>1. g = [s \in SUBSET S |-> IF s = {} THEN 0 ELSE f[First(s)] + g[s \ {First(s)}]]
    BY PartialExists DEF IsPartial
<1> HIDE DEF g
<1>2. /\ g[{}] = 0
      /\ \A s \in SUBSET S : s # {} => g[s] = f[First(s)] + g[s \ {First(s)}]
    BY <1>1
<1>3. QED
    BY <1>2 DEF g

LEMMA PartialType ==
    ASSUME NEW S, IsFiniteSet(S), NEW f \in [S -> Nat]
    PROVE  \A s \in SUBSET S : Partial(f, S)[s] \in Nat
<1> DEFINE G == {s \in SUBSET S : Partial(f, S)[s] \in Nat}
<1>1. {} \in G
    BY PartialIs
<1>2. ASSUME NEW s \in SUBSET S, s # {}, s \ {First(s)} \in G PROVE s \in G
    <2>1. Partial(f, S)[s] = f[First(s)] + Partial(f, S)[s \ {First(s)}]
        BY <1>2, PartialIs
    <2>2. f[First(s)] \in Nat
        BY <1>2, FirstIs
    <2>3. QED
        BY <1>2, <2>1, <2>2
<1> HIDE DEF G
<1>3. \A s \in SUBSET S : s \in G
    BY <1>1, <1>2, SubsetsAreGood
<1>4. QED
    BY <1>3 DEF G

\* The sum of the values of a function.
LEMMA SumType ==
    ASSUME NEW S, IsFiniteSet(S), NEW f \in [S -> Nat]
    PROVE  SumFunction(f) \in Nat
BY SumIs, PartialType

\* A sum changes by what one value changes.
LEMMA SumChange ==
    ASSUME NEW S, IsFiniteSet(S), NEW f \in [S -> Nat], NEW g \in [S -> Nat], NEW a \in S,
           \A x \in S : x # a => f[x] = g[x]
    PROVE  SumFunction(f) + g[a] = SumFunction(g) + f[a]
<1> DEFINE F(s) == Partial(f, S)[s]
           H(s) == Partial(g, S)[s]
           Good(s) == IF a \in s THEN F(s) + g[a] = H(s) + f[a] ELSE F(s) = H(s)
           G == {s \in SUBSET S : Good(s)}
<1>1. {} \in G
    BY PartialIs
<1>2. ASSUME NEW s \in SUBSET S, s # {}, s \ {First(s)} \in G PROVE s \in G
    <2> DEFINE x == First(s)
               r == s \ {x}
    <2>1. F(s) = f[x] + F(r) /\ H(s) = g[x] + H(r)
        BY <1>2, PartialIs
    <2>2. x \in S /\ x \in s /\ r \in SUBSET S
        BY <1>2, FirstIs
    <2>3. F(r) \in Nat /\ H(r) \in Nat /\ f[x] \in Nat /\ g[x] \in Nat /\ f[a] \in Nat /\ g[a] \in Nat
        BY <2>2, PartialType
    <2>4. Good(r)
        BY <1>2
    <2>5. a \in r <=> a \in s /\ a # x
        OBVIOUS
    <2>6. a # x => f[x] = g[x]
        BY <2>2
    <2> HIDE DEF F, H, x, r
    <2>7. Good(s)
        <3>1. CASE a = x
            BY <3>1, <2>1, <2>2, <2>3, <2>4, <2>5
        <3>2. CASE a # x /\ a \in s
            BY <3>2, <2>1, <2>3, <2>4, <2>5, <2>6
        <3>3. CASE a \notin s
            BY <3>3, <2>1, <2>2, <2>3, <2>4, <2>5, <2>6
        <3>4. QED
            BY <3>1, <3>2, <3>3
    <2>8. QED
        BY <2>7
<1>3. \A s \in SUBSET S : s \in G
    <2> HIDE DEF G
    <2>1. QED
        BY <1>1, <1>2, SubsetsAreGood
<1>4. F(S) + g[a] = H(S) + f[a]
    BY <1>3
<1>5. QED
    BY <1>4, SumIs

\* A sum of smaller values is smaller, and one of zeros is zero.
LEMMA SumAtMost ==
    ASSUME NEW S, IsFiniteSet(S), NEW f \in [S -> Nat], NEW g \in [S -> Nat],
           \A x \in S : f[x] <= g[x]
    PROVE  SumFunction(f) <= SumFunction(g)
<1> DEFINE F(s) == Partial(f, S)[s]
           H(s) == Partial(g, S)[s]
           G == {s \in SUBSET S : F(s) <= H(s)}
<1>1. {} \in G
    BY PartialIs
<1>2. ASSUME NEW s \in SUBSET S, s # {}, s \ {First(s)} \in G PROVE s \in G
    <2> DEFINE x == First(s)
               r == s \ {x}
    <2>1. F(s) = f[x] + F(r) /\ H(s) = g[x] + H(r)
        BY <1>2, PartialIs
    <2>2. x \in S /\ r \in SUBSET S
        BY <1>2, FirstIs
    <2>3. F(r) \in Nat /\ H(r) \in Nat /\ f[x] \in Nat /\ g[x] \in Nat /\ f[x] <= g[x]
        BY <2>2, PartialType
    <2>4. F(r) <= H(r)
        BY <1>2
    <2> HIDE DEF F, H, x, r
    <2>5. F(s) <= H(s)
        BY <2>1, <2>3, <2>4
    <2>6. QED
        BY <2>5
<1>3. \A s \in SUBSET S : s \in G
    <2> HIDE DEF G
    <2>1. QED
        BY <1>1, <1>2, SubsetsAreGood
<1>4. F(S) <= H(S)
    BY <1>3
<1>5. QED
    BY <1>4, SumIs

LEMMA SumZero ==
    ASSUME NEW S, IsFiniteSet(S), NEW f \in [S -> Nat], \A x \in S : f[x] = 0
    PROVE  SumFunction(f) = 0
<1> DEFINE G == {s \in SUBSET S : Partial(f, S)[s] = 0}
<1>1. {} \in G
    BY PartialIs
<1>2. ASSUME NEW s \in SUBSET S, s # {}, s \ {First(s)} \in G PROVE s \in G
    <2>1. Partial(f, S)[s] = f[First(s)] + Partial(f, S)[s \ {First(s)}]
        BY <1>2, PartialIs
    <2>2. f[First(s)] = 0
        BY <1>2, FirstIs
    <2>3. QED
        BY <1>2, <2>1, <2>2
<1>3. \A s \in SUBSET S : s \in G
    <2> HIDE DEF G
    <2>1. QED
        BY <1>1, <1>2, SubsetsAreGood
<1>4. QED
    BY <1>3, SumIs

-----------------------------------------------------------------------------
(* The inductive invariant: what each attempt has reserved covers what its   *)
(* calls have used and what they may still use, and the day's row covers the *)
(* reservations in flight and the time that attempts which have ended used.  *)

Working == {"ask", "claim", "wait", "running", "settle"}
Places  == {"new", "reserve", "over"} \cup Working

Attempt == [at : Places, kind : Kinds, limit : Nat, interval : Nat, day : Days, reserved : Nat,
            asked : Nat, slot : Nat, calls : Nat, charged : Nat, used : Nat]

Slot == [kind : Kinds, slot : Nat, until : Nat, by : Attempts]

TypeOK ==
    /\ now \in 0..Horizon
    /\ limit \in Limits /\ highest \in Nat /\ interval \in Nat
    /\ usage \in [Days -> Nat] /\ next \in [Kinds -> Nat]
    /\ attempt \in [Attempts -> Attempt]
    /\ granted \in SUBSET Slot

\* Calls and Most, of a record.
CallsOf(kind) == IF kind = "session" THEN 1 ELSE 2
MostOf(kind)  == IF kind = "session" THEN SessionMax ELSE CallMax

\* An attempt has used no more than it was charged, was charged no more than its
\* calls may cost, and has another call to make unless it settles.
Funded(p, time, most) ==
    /\ p.limit <= most
    /\ p.at \in {"new", "reserve"} => p.used = 0 /\ p.charged = 0 /\ p.calls = 0
    /\ p.at \in Working => /\ p.reserved = CallsOf(p.kind) * MostOf(p.kind)
                           /\ p.used <= p.charged /\ p.charged <= p.calls * MostOf(p.kind)
                           /\ p.calls <= CallsOf(p.kind)
                           /\ p.at = "settle" \/ p.calls < CallsOf(p.kind)
    /\ p.at = "running" => p.slot <= time

\* What the row of day d must keep for an attempt.
OwedBy(p, d) == IF p.day # d THEN 0 ELSE IF p.at \in Working THEN p.reserved ELSE p.used

UsedBy(p, d) == IF p.day = d THEN p.used ELSE 0

OwedOn(d) == SumFunction([a \in Attempts |-> OwedBy(attempt[a], d)])

Backed == \A d \in Days : OwedOn(d) <= usage[d] /\ usage[d] <= highest

IInv ==
    /\ TypeOK
    /\ limit <= highest
    /\ \A a \in Attempts : Funded(attempt[a], now, highest)
    /\ Backed

\* The lemmas of the numbers.
LEMMA DayIs ==
    ASSUME NEW t \in 0..Horizon
    PROVE  t \div DayLength \in Days
<1> DEFINE q == t \div DayLength
           r == Horizon \div DayLength
<1>1. DayLength \in Nat /\ DayLength > 0 /\ Horizon \in Nat /\ t \in Nat /\ t <= Horizon
    BY BudgetAssumption
<1>2. q \in Nat /\ r \in Nat /\ DayLength * q <= t /\ Horizon < DayLength * (r + 1)
    BY <1>1
<1> HIDE DEF q, r
<1>3. ASSUME q > r PROVE FALSE
    <2>1. q >= r + 1
        BY <1>2, <1>3
    <2>2. DayLength * q >= DayLength * (r + 1)
        BY <1>1, <1>2, <2>1
    <2>3. DayLength * q \in Nat /\ DayLength * (r + 1) \in Nat
        BY <1>1, <1>2
    <2>4. QED
        BY <1>1, <1>2, <2>2, <2>3
<1>4. QED
    BY <1>2, <1>3 DEF Days, q, r

LEMMA KindsAre ==
    ASSUME NEW kind \in Kinds
    PROVE  /\ MostOf(kind) \in Nat /\ MostOf(kind) >= 1
           /\ CallsOf(kind) \in {1, 2}
           /\ CallsOf(kind) * MostOf(kind) \in Nat
BY BudgetAssumption DEF Kinds, MostOf, CallsOf

LEMMA SmallerIs ==
    ASSUME NEW x \in Nat, NEW y \in Nat
    PROVE  Min({x, y}) \in Nat /\ Min({x, y}) <= x
BY DEF Min

LEMMA LargerIs ==
    ASSUME NEW x \in Nat, NEW y \in Nat
    PROVE  Max({x, y}) \in Nat /\ Max({x, y}) >= y /\ (Max({x, y}) = x \/ Max({x, y}) = y)
BY DEF Max

-----------------------------------------------------------------------------
(* What a step of an attempt leaves. *)

\* The attempt's record is replaced, and the row of each day keeps what is owed.
Moved(a) ==
    \E rec \in Attempt :
        /\ attempt' = [attempt EXCEPT ![a] = rec]
        /\ Funded(rec, now, highest)
        /\ usage' \in [Days -> Nat]
        /\ \A d \in Days : /\ usage[d] + OwedBy(rec, d) <= usage'[d] + OwedBy(attempt[a], d)
                           /\ usage'[d] <= highest
        /\ UNCHANGED <<now, settings>>

\* A step that leaves the rows alone owes no more than before.
LEMMA MovedAlone ==
    ASSUME IInv, NEW a \in Attempts, NEW rec \in Attempt,
           attempt' = [attempt EXCEPT ![a] = rec], Funded(rec, now, highest),
           \A d \in Days : OwedBy(rec, d) <= OwedBy(attempt[a], d),
           UNCHANGED <<now, settings, usage>>
    PROVE  Moved(a)
<1>1. attempt[a] \in Attempt /\ usage \in [Days -> Nat]
    BY DEF IInv, TypeOK
<1>2. ASSUME NEW d \in Days
      PROVE  /\ usage[d] + OwedBy(rec, d) <= usage'[d] + OwedBy(attempt[a], d)
             /\ usage'[d] <= highest
    <2>1. OwedBy(rec, d) \in Nat /\ OwedBy(attempt[a], d) \in Nat /\ usage[d] \in Nat
        BY <1>1 DEF OwedBy, Attempt
    <2>2. usage'[d] = usage[d] /\ usage[d] <= highest
        BY DEF IInv, Backed
    <2>3. QED
        BY <2>1, <2>2
<1>3. QED
    BY <1>1, <1>2 DEF Moved

LEMMA ReadProfileIs ==
    ASSUME IInv, NEW a \in Attempts, ReadProfile(a)
    PROVE  Moved(a)
<1> DEFINE p == attempt[a]
           rec == [p EXCEPT !.at = "reserve", !.limit = limit, !.interval = interval, !.day = Today]
<1>1. p \in Attempt /\ Funded(p, now, highest) /\ p.at = "new"
    BY DEF IInv, TypeOK, ReadProfile, At
<1>2. limit \in Nat /\ limit <= highest /\ interval \in Nat /\ Today \in Days
    BY BudgetAssumption, DayIs DEF IInv, TypeOK, Today
<1>3. /\ rec \in Attempt /\ rec.at = "reserve" /\ rec.limit = limit /\ rec.used = p.used
      /\ rec.charged = p.charged /\ rec.calls = p.calls
    BY <1>1, <1>2 DEF Attempt, Places
<1>4. attempt' = [attempt EXCEPT ![a] = rec] /\ UNCHANGED <<now, settings, usage>>
    BY DEF ReadProfile, Move
<1> HIDE DEF rec
<1>5. Funded(rec, now, highest)
    BY <1>1, <1>2, <1>3 DEF Funded, Working
<1>6. \A d \in Days : OwedBy(rec, d) = 0 /\ OwedBy(p, d) = 0
    BY <1>1, <1>3 DEF OwedBy, Funded, Working
<1>7. \A d \in Days : OwedBy(rec, d) <= OwedBy(p, d)
    BY <1>6
<1>8. QED
    BY <1>3, <1>4, <1>5, <1>7, MovedAlone

\* What is left of an attempt that has ended.
LEMMA OverIs ==
    ASSUME NEW a \in Attempts, attempt[a] \in Attempt, NEW u \in Nat, NEW most \in Nat, NEW rec,
           \/ rec = [Over(a, "over") EXCEPT !.used = u]
           \/ rec = Over(a, "over") /\ u = attempt[a].used
    PROVE  /\ rec \in Attempt /\ rec.at = "over" /\ rec.day = attempt[a].day /\ rec.used = u
           /\ Funded(rec, now, most)
<1> DEFINE k == attempt[a].kind
           o == Over(a, "over")
<1>1. New(k) \in Attempt
    <2>1. 0 \in Days /\ k \in Kinds
        BY DayIs, BudgetAssumption DEF Attempt, Days
    <2>2. QED
        BY <2>1 DEF New, Attempt, Places
<1>2. o = [New(k) EXCEPT !.at = "over", !.day = attempt[a].day, !.used = attempt[a].used]
    BY DEF Over, Kind
<1>3. attempt[a].day \in Days /\ attempt[a].used \in Nat
    BY DEF Attempt
<1>4. New(k).limit = 0
    BY DEF New
<1> HIDE DEF o
<1>5. /\ o \in Attempt /\ o.at = "over" /\ o.day = attempt[a].day /\ o.used = attempt[a].used
      /\ o.limit = 0
    BY <1>1, <1>2, <1>3, <1>4 DEF Attempt, Places
<1>6. /\ rec \in Attempt /\ rec.at = "over" /\ rec.day = attempt[a].day /\ rec.used = u
      /\ rec.limit = 0
    <2>1. CASE rec = [o EXCEPT !.used = u]
        BY <2>1, <1>5 DEF Attempt
    <2>2. CASE rec = o /\ u = attempt[a].used
        BY <2>2, <1>5
    <2>3. QED
        BY <2>1, <2>2 DEF o
<1>7. Funded(rec, now, most)
    BY <1>6 DEF Funded, Working
<1>8. QED
    BY <1>6, <1>7

LEMMA ReserveIs ==
    ASSUME IInv, NEW a \in Attempts, Reserve(a)
    PROVE  Moved(a)
<1> DEFINE p == attempt[a]
           n == CallsOf(p.kind) * MostOf(p.kind)
<1>1. p \in Attempt /\ Funded(p, now, highest) /\ p.at = "reserve" /\ p.kind \in Kinds
    BY DEF IInv, TypeOK, Reserve, At, Attempt
<1>2. Units(a) = n /\ n \in Nat /\ MostOf(p.kind) \in Nat /\ CallsOf(p.kind) \in {1, 2}
    BY <1>1, KindsAre DEF Units, Calls, Most, Kind, CallsOf, MostOf
<1>3. UNCHANGED <<now, settings>>
    BY DEF Reserve
<1>4. p.used = 0 /\ p.charged = 0 /\ p.calls = 0 /\ p.limit <= highest /\ p.limit \in Nat
      /\ p.day \in Days
    BY <1>1 DEF Funded, Attempt
<1>5. usage \in [Days -> Nat] /\ highest \in Nat /\ \A d \in Days : usage[d] <= highest
    BY DEF IInv, TypeOK, Backed
<1>6. \A d \in Days : OwedBy(p, d) = 0
    BY <1>1, <1>4 DEF OwedBy, Working
<1>7. CASE Fits(Units(a), usage[p.day], p.limit)
    <2> DEFINE rec == [p EXCEPT !.at = "ask", !.reserved = n]
    <2>1. /\ rec \in Attempt /\ rec.at = "ask" /\ rec.reserved = n /\ rec.used = 0
          /\ rec.charged = 0 /\ rec.calls = 0 /\ rec.kind = p.kind /\ rec.limit = p.limit
          /\ rec.day = p.day
        BY <1>1, <1>2, <1>4 DEF Attempt, Places, Working
    <2>2. attempt' = [attempt EXCEPT ![a] = rec]
        BY <1>2, <1>7 DEF Reserve, Move
    <2>3. usage' = [usage EXCEPT ![p.day] = @ + n]
        BY <1>2, <1>7 DEF Reserve
    <2> HIDE DEF rec, n
    <2>4. Funded(rec, now, highest)
        BY <1>2, <1>4, <2>1 DEF Funded, Working, n
    <2>5. usage[p.day] + n <= p.limit
        BY <1>2, <1>7 DEF Fits
    <2>6. usage' \in [Days -> Nat]
        BY <1>2, <1>4, <1>5, <2>3
    <2>7. ASSUME NEW d \in Days
          PROVE  /\ usage[d] + OwedBy(rec, d) <= usage'[d] + OwedBy(p, d)
                 /\ usage'[d] <= highest
        <3>1. CASE d = p.day
            <4>1. OwedBy(rec, d) = n /\ usage'[d] = usage[d] + n
                BY <3>1, <1>5, <2>1, <2>3 DEF OwedBy, Working
            <4>2. QED
                BY <3>1, <4>1, <1>2, <1>4, <1>5, <1>6, <2>5
        <3>2. CASE d # p.day
            <4>1. OwedBy(rec, d) = 0 /\ usage'[d] = usage[d]
                BY <3>2, <1>5, <2>1, <2>3 DEF OwedBy
            <4>2. QED
                BY <4>1, <1>5, <1>6
        <3>3. QED
            BY <3>1, <3>2
    <2>8. QED
        BY <1>3, <2>1, <2>2, <2>4, <2>6, <2>7 DEF Moved
<1>8. CASE ~Fits(Units(a), usage[p.day], p.limit)
    <2> DEFINE rec == Over(a, "over")
    <2>1. /\ rec \in Attempt /\ rec.at = "over" /\ rec.day = p.day /\ rec.used = 0
          /\ Funded(rec, now, highest)
        BY <1>1, <1>4, <1>5, OverIs
    <2>2. attempt' = [attempt EXCEPT ![a] = rec] /\ UNCHANGED usage
        BY <1>8 DEF Reserve, Move
    <2> HIDE DEF rec
    <2>3. \A d \in Days : OwedBy(rec, d) <= OwedBy(p, d)
        BY <2>1, <1>6 DEF OwedBy, Working
    <2>4. QED
        BY <1>3, <2>1, <2>2, <2>3, MovedAlone
<1>9. QED
    BY <1>7, <1>8

\* A step inside an attempt at work: the reservation stays, and so does the row.
LEMMA WorkingIs ==
    ASSUME IInv, NEW a \in Attempts, NEW rec \in Attempt, attempt[a].at \in Working,
           attempt' = [attempt EXCEPT ![a] = rec], UNCHANGED <<now, settings, usage>>,
           rec.at \in Working, rec.day = attempt[a].day, rec.kind = attempt[a].kind,
           rec.reserved = attempt[a].reserved, rec.limit = attempt[a].limit,
           rec.used <= rec.charged, rec.charged <= rec.calls * MostOf(rec.kind),
           rec.calls <= CallsOf(rec.kind), rec.at = "settle" \/ rec.calls < CallsOf(rec.kind),
           rec.at = "running" => rec.slot <= now
    PROVE  Moved(a)
<1>1. attempt[a] \in Attempt /\ Funded(attempt[a], now, highest)
    BY DEF IInv, TypeOK
<1>2. Funded(rec, now, highest)
    BY <1>1 DEF Funded, Working
<1>3. \A d \in Days : OwedBy(rec, d) = OwedBy(attempt[a], d)
    BY DEF OwedBy
<1>4. \A d \in Days : OwedBy(rec, d) \in Nat
    BY DEF OwedBy, Attempt
<1>5. \A d \in Days : OwedBy(rec, d) <= OwedBy(attempt[a], d)
    BY <1>3, <1>4
<1>6. QED
    BY <1>2, <1>5, MovedAlone

\* What is known of an attempt at work.
LEMMA AtWork ==
    ASSUME IInv, NEW a \in Attempts, attempt[a].at \in Working
    PROVE  /\ attempt[a] \in Attempt
           /\ attempt[a].kind \in Kinds /\ MostOf(attempt[a].kind) \in Nat
           /\ CallsOf(attempt[a].kind) \in {1, 2} /\ MostOf(attempt[a].kind) >= 1
           /\ Most(a) = MostOf(attempt[a].kind) /\ Calls(a) = CallsOf(attempt[a].kind)
           /\ attempt[a].reserved = CallsOf(attempt[a].kind) * MostOf(attempt[a].kind)
           /\ attempt[a].used <= attempt[a].charged
           /\ attempt[a].charged <= attempt[a].calls * MostOf(attempt[a].kind)
           /\ attempt[a].calls <= CallsOf(attempt[a].kind)
           /\ attempt[a].at = "settle" \/ attempt[a].calls < CallsOf(attempt[a].kind)
           /\ attempt[a].at = "running" => attempt[a].slot <= now
<1>1. attempt[a] \in Attempt /\ Funded(attempt[a], now, highest)
    BY DEF IInv, TypeOK
<1>2. attempt[a].kind \in Kinds
    BY <1>1 DEF Attempt
<1>3. QED
    BY <1>1, <1>2, KindsAre DEF Funded, Most, Calls, MostOf, CallsOf, Kind

LEMMA AskIs ==
    ASSUME IInv, NEW a \in Attempts, Ask(a)
    PROVE  Moved(a)
<1> DEFINE p == attempt[a]
           rec == [p EXCEPT !.at = "claim", !.asked = now]
<1>1. p.at = "ask" /\ now \in Nat
    BY DEF Ask, At, IInv, TypeOK
<1>2. p.at \in Working
    BY <1>1 DEF Working
<1>3. /\ rec \in Attempt /\ rec.at = "claim" /\ rec.day = p.day /\ rec.kind = p.kind
      /\ rec.reserved = p.reserved /\ rec.limit = p.limit /\ rec.used = p.used
      /\ rec.charged = p.charged /\ rec.calls = p.calls
    BY <1>1, <1>2, AtWork, ZenonT(60) DEF Attempt, Places, Working
<1>4. attempt' = [attempt EXCEPT ![a] = rec] /\ UNCHANGED <<now, settings, usage>>
    BY DEF Ask, Move
<1> HIDE DEF rec
<1>5. QED
    BY <1>1, <1>2, <1>3, <1>4, AtWork, WorkingIs DEF Working

LEMMA BeginIs ==
    ASSUME IInv, NEW a \in Attempts, Begin(a)
    PROVE  Moved(a)
<1> DEFINE p == attempt[a]
           rec == [p EXCEPT !.at = "running", !.slot = now]
<1>1. p.at = "wait" /\ now \in Nat
    BY DEF Begin, At, IInv, TypeOK
<1>2. p.at \in Working
    BY <1>1 DEF Working
<1>3. /\ rec \in Attempt /\ rec.at = "running" /\ rec.day = p.day /\ rec.kind = p.kind
      /\ rec.reserved = p.reserved /\ rec.limit = p.limit /\ rec.used = p.used
      /\ rec.charged = p.charged /\ rec.calls = p.calls /\ rec.slot = now
    BY <1>1, <1>2, AtWork, ZenonT(60) DEF Attempt, Places, Working
<1>4. attempt' = [attempt EXCEPT ![a] = rec] /\ UNCHANGED <<now, settings, usage>>
    BY DEF Begin, Move
<1> HIDE DEF rec
<1>5. /\ rec.used <= rec.charged /\ rec.charged <= rec.calls * MostOf(rec.kind)
      /\ rec.calls <= CallsOf(rec.kind) /\ rec.calls < CallsOf(rec.kind)
      /\ rec.at \in Working /\ rec.slot <= now
    BY <1>1, <1>2, <1>3, AtWork DEF Working
<1>6. QED
    BY <1>2, <1>3, <1>4, <1>5, WorkingIs

\* The start a claim gets is a number, and no earlier than the next free one.
LEMMA StartIs ==
    ASSUME NEW asked \in Nat, NEW free \in Nat
    PROVE  Start(asked, free) \in Nat /\ Start(asked, free) >= free
BY DEF Start

LEMMA ClaimIs ==
    ASSUME IInv, NEW a \in Attempts, Claim(a)
    PROVE  Moved(a)
<1> DEFINE p == attempt[a]
           slot == Start(p.asked, next[Kind(a)])
<1>1. p.at = "claim" /\ UNCHANGED <<now, settings, usage>>
    BY DEF Claim, At
<1>2. p.at \in Working
    BY <1>1 DEF Working
<1>3. slot \in Nat
    <2>1. p.asked \in Nat /\ next[Kind(a)] \in Nat
        BY <1>2, AtWork DEF Attempt, Kind, IInv, TypeOK
    <2>2. QED
        BY <2>1, StartIs
<1>4. CASE slot <= p.asked + MaxWait
    <2> DEFINE rec == [p EXCEPT !.at = "wait", !.slot = slot]
    <2>1. attempt' = [attempt EXCEPT ![a] = rec]
        BY <1>4 DEF Claim, Move
    <2> HIDE DEF slot
    <2>2. /\ rec \in Attempt /\ rec.at = "wait" /\ rec.day = p.day /\ rec.kind = p.kind
          /\ rec.reserved = p.reserved /\ rec.limit = p.limit /\ rec.used = p.used
          /\ rec.charged = p.charged /\ rec.calls = p.calls
        BY <1>2, <1>3, AtWork, ZenonT(60) DEF Attempt, Places, Working
    <2> HIDE DEF rec
    <2>3. QED
        BY <1>1, <1>2, <2>1, <2>2, AtWork, WorkingIs DEF Working
<1>5. CASE ~(slot <= p.asked + MaxWait)
    <2> DEFINE rec == [p EXCEPT !.at = "settle"]
    <2>1. attempt' = [attempt EXCEPT ![a] = rec]
        BY <1>5 DEF Claim, Move, Goto
    <2>2. /\ rec \in Attempt /\ rec.at = "settle" /\ rec.day = p.day /\ rec.kind = p.kind
          /\ rec.reserved = p.reserved /\ rec.limit = p.limit /\ rec.used = p.used
          /\ rec.charged = p.charged /\ rec.calls = p.calls
        BY <1>2, AtWork DEF Attempt, Places, Working
    <2> HIDE DEF rec
    <2>3. QED
        BY <1>1, <1>2, <2>1, <2>2, AtWork, WorkingIs DEF Working
<1>6. QED
    BY <1>4, <1>5

\* A call costs no more than the maximum, and no less than what it used.
LEMMA CallCosts ==
    ASSUME IInv, NEW a \in Attempts, attempt[a].at = "running"
    PROVE  /\ Elapsed(a) \in Nat /\ Most(a) \in Nat
           /\ Charge(a, TRUE) \in Nat /\ Charge(a, FALSE) = Most(a)
           /\ Elapsed(a) <= Charge(a, TRUE) /\ Charge(a, TRUE) <= Most(a)
<1>1. attempt[a].at \in Working
    BY DEF Working
<1>2. attempt[a].slot \in Nat /\ attempt[a].slot <= now /\ now \in Nat
    BY <1>1, AtWork DEF Attempt, IInv, TypeOK
<1>3. Most(a) \in Nat /\ Most(a) >= 1
    BY <1>1, AtWork
<1>4. now - attempt[a].slot \in Nat
    BY <1>2
<1>5. Elapsed(a) \in Nat /\ Elapsed(a) <= Most(a)
    BY <1>3, <1>4, SmallerIs DEF Elapsed
<1>6. /\ Max({1, Elapsed(a)}) \in Nat /\ Max({1, Elapsed(a)}) >= Elapsed(a)
      /\ (Max({1, Elapsed(a)}) = 1 \/ Max({1, Elapsed(a)}) = Elapsed(a))
    BY <1>5, LargerIs
<1>7. QED
    BY <1>3, <1>5, <1>6 DEF Charge

LEMMA SpentIs ==
    ASSUME IInv, NEW a \in Attempts, attempt[a].at = "running",
           NEW charged \in Nat, NEW used \in Nat, NEW at \in {"ask", "settle"},
           used <= charged, charged <= Most(a),
           at = "ask" => attempt[a].calls + 1 < Calls(a),
           Spent(a, charged, used, at), UNCHANGED <<now, settings, usage>>
    PROVE  Moved(a)
<1> DEFINE p == attempt[a]
           rec == [p EXCEPT !.at = at, !.calls = @ + 1, !.charged = @ + charged, !.used = @ + used]
<1>1. p.at \in Working
    BY DEF Working
<1>2. p \in Attempt /\ p.calls \in Nat /\ p.charged \in Nat /\ p.used \in Nat
    BY <1>1, AtWork DEF Attempt
<1>3. /\ rec \in Attempt /\ rec.at = at /\ rec.day = p.day /\ rec.kind = p.kind
      /\ rec.reserved = p.reserved /\ rec.limit = p.limit /\ rec.used = p.used + used
      /\ rec.charged = p.charged + charged /\ rec.calls = p.calls + 1
    <2>1. PICK i \in Nat, n \in Nat, u \in Nat :
              i = p.calls + 1 /\ n = p.charged + charged /\ u = p.used + used
        <3>1. p.calls + 1 \in Nat /\ p.charged + charged \in Nat /\ p.used + used \in Nat
            BY <1>2
        <3> HIDE DEF p
        <3>2. QED
            BY <3>1
    <2>2. rec = [p EXCEPT !.at = at, !.calls = i, !.charged = n, !.used = u]
        BY <2>1
    <2>3. at \in Places
        BY DEF Places, Working
    <2> HIDE DEF rec
    <2>4. QED
        BY <1>2, <2>1, <2>2, <2>3 DEF Attempt
<1>4. attempt' = [attempt EXCEPT ![a] = rec]
    BY DEF Spent, Move
<1> HIDE DEF rec
<1> DEFINE m == MostOf(p.kind)
           c == CallsOf(p.kind)
<1>5. /\ m \in Nat /\ c \in {1, 2} /\ Most(a) = m /\ Calls(a) = c /\ p.used <= p.charged
      /\ p.charged <= p.calls * m /\ p.calls < c
    BY <1>1, AtWork
<1> HIDE DEF m, c
<1>6. p.charged + charged <= (p.calls + 1) * m
    <2>1. p.calls = 0 \/ p.calls = 1
        BY <1>2, <1>5
    <2>2. QED
        BY <2>1, <1>2, <1>5
<1>7. /\ rec.used <= rec.charged /\ rec.charged <= rec.calls * m /\ rec.calls <= c
      /\ (rec.at = "settle" \/ rec.calls < c)
    BY <1>2, <1>3, <1>5, <1>6
<1>8. rec.at \in Working /\ rec.at # "running"
    BY <1>3 DEF Working
<1>9. QED
    BY <1>1, <1>3, <1>4, <1>7, <1>8, WorkingIs DEF m, c

LEMMA CallIs ==
    ASSUME IInv, NEW a \in Attempts, Call(a)
    PROVE  Moved(a)
<1>1. attempt[a].at = "running" /\ UNCHANGED <<now, settings, usage>>
    BY DEF Call, At
<1>2. PICK n \in Nat, u \in Nat, at \in {"ask", "settle"} :
          /\ Spent(a, n, u, at) /\ u <= n /\ n <= Most(a)
          /\ at = "ask" => attempt[a].calls + 1 < Calls(a)
    <2> DEFINE at == IF attempt[a].calls + 1 < Calls(a) THEN "ask" ELSE "settle"
    <2>1. /\ Elapsed(a) \in Nat /\ Most(a) \in Nat
          /\ Charge(a, TRUE) \in Nat /\ Charge(a, FALSE) = Most(a)
          /\ Elapsed(a) <= Charge(a, TRUE) /\ Charge(a, TRUE) <= Most(a)
        BY <1>1, CallCosts
    <2>2. CASE Spent(a, Charge(a, TRUE), Elapsed(a), at)
        BY <2>1, <2>2
    <2>3. CASE Spent(a, Charge(a, TRUE), Elapsed(a), "settle")
        BY <2>1, <2>3
    <2>4. CASE Spent(a, Charge(a, FALSE), Most(a), "settle")
        <3>1. Spent(a, Most(a), Most(a), "settle")
            BY <2>1, <2>4 DEF Spent
        <3>2. QED
            BY <2>1, <3>1
    <2>5. QED
        BY <2>2, <2>3, <2>4 DEF Call
<1>3. QED
    BY <1>1, <1>2, SpentIs

LEMMA SettleIs ==
    ASSUME IInv, NEW a \in Attempts, Settle(a)
    PROVE  Moved(a)
<1> DEFINE p == attempt[a]
           rec == Over(a, "over")
           n == p.reserved - p.charged
<1>1. p.at = "settle" /\ p.at \in Working /\ UNCHANGED <<now, settings>>
    BY DEF Settle, At, Working
<1>2. /\ p \in Attempt /\ p.reserved \in Nat /\ p.charged \in Nat /\ p.used \in Nat
      /\ p.used <= p.charged /\ p.day \in Days
    BY <1>1, AtWork DEF Attempt
<1>3. p.charged <= p.reserved
    <2> DEFINE m == MostOf(p.kind)
               c == CallsOf(p.kind)
    <2>1. /\ m \in Nat /\ c \in {1, 2} /\ p.reserved = c * m /\ p.charged <= p.calls * m
          /\ p.calls <= c /\ p.calls \in Nat
        BY <1>1, AtWork DEF Attempt
    <2> HIDE DEF m, c
    <2>2. p.calls = 0 \/ p.calls = 1 \/ p.calls = 2
        BY <2>1
    <2>3. QED
        BY <1>2, <2>1, <2>2
<1>4. usage \in [Days -> Nat] /\ highest \in Nat /\ \A d \in Days : usage[d] <= highest
    BY DEF IInv, TypeOK, Backed
<1>5. /\ rec \in Attempt /\ rec.at = "over" /\ rec.day = p.day /\ rec.used = p.used
      /\ Funded(rec, now, highest)
    BY <1>2, <1>4, OverIs
<1>6. attempt' = [attempt EXCEPT ![a] = rec]
    BY DEF Settle, Move
<1>7. \/ usage[p.day] >= n /\ usage' = [usage EXCEPT ![p.day] = @ - n]
      \/ UNCHANGED usage
    BY DEF Settle, Ledger
<1> HIDE DEF rec
<1>8. \A d \in Days : d = p.day => OwedBy(rec, d) = p.used /\ OwedBy(p, d) = p.reserved
    BY <1>1, <1>5 DEF OwedBy, Working
<1>9. \A d \in Days : d # p.day => OwedBy(rec, d) = 0 /\ OwedBy(p, d) = 0
    BY <1>1, <1>5 DEF OwedBy, Working
<1>10. CASE UNCHANGED usage
    <2>1. \A d \in Days : OwedBy(rec, d) <= OwedBy(p, d)
        BY <1>2, <1>3, <1>8, <1>9
    <2>2. QED
        BY <1>1, <1>5, <1>6, <1>10, <2>1, MovedAlone
<1>11. CASE usage[p.day] >= n /\ usage' = [usage EXCEPT ![p.day] = @ - n]
    <2>1. usage' \in [Days -> Nat]
        BY <1>2, <1>3, <1>4, <1>11
    <2>2. ASSUME NEW d \in Days
          PROVE  /\ usage[d] + OwedBy(rec, d) <= usage'[d] + OwedBy(p, d)
                 /\ usage'[d] <= highest
        <3>1. CASE d = p.day
            BY <3>1, <1>2, <1>3, <1>4, <1>8, <1>11
        <3>2. CASE d # p.day
            BY <3>2, <1>4, <1>9, <1>11
        <3>3. QED
            BY <3>1, <3>2
    <2>3. QED
        BY <1>1, <1>5, <1>6, <2>1, <2>2 DEF Moved
<1>12. QED
    BY <1>7, <1>10, <1>11

\* A running call that nobody waits for uses at most what is reserved for it.
LEMMA DieIs ==
    ASSUME IInv, NEW a \in Attempts, Die(a)
    PROVE  Moved(a)
<1> DEFINE p == attempt[a]
           more == IF p.at = "running" THEN Most(a) ELSE 0
           rec == [Over(a, "over") EXCEPT !.used = @ + more]
<1>1. p \in Attempt /\ Funded(p, now, highest) /\ p.kind \in Kinds /\ p.used \in Nat
      /\ highest \in Nat
    BY DEF IInv, TypeOK, Attempt
<1>2. p.at \in Places /\ p.at # "new" /\ p.at # "over" /\ UNCHANGED <<now, settings, usage>>
    BY <1>1 DEF Die, Attempt
<1>3. more \in Nat
    BY <1>1, KindsAre DEF Most, MostOf, Kind
<1>4. rec = [Over(a, "over") EXCEPT !.used = p.used + more]
    <2>1. Over(a, "over").used = p.used
        BY <1>1, OverIs
    <2>2. QED
        BY <2>1
<1>5. /\ rec \in Attempt /\ rec.at = "over" /\ rec.day = p.day /\ rec.used = p.used + more
      /\ Funded(rec, now, highest)
    <2> HIDE DEF rec, more
    <2>1. p.used + more \in Nat
        BY <1>1, <1>3
    <2>2. QED
        BY <1>1, <1>4, <2>1, OverIs
<1>6. attempt' = [attempt EXCEPT ![a] = rec]
    BY DEF Die, Move, At
<1>7. p.at \in Working => p.used + more <= p.reserved
    <2> DEFINE m == MostOf(p.kind)
               c == CallsOf(p.kind)
    <2>1. ASSUME p.at \in Working
          PROVE  /\ m \in Nat /\ c \in {1, 2} /\ p.reserved = c * m /\ p.charged <= p.calls * m
                 /\ p.calls <= c /\ p.calls \in Nat /\ p.charged \in Nat /\ p.used <= p.charged
                 /\ (p.at = "running" => p.calls < c) /\ Most(a) = m
        BY <2>1, AtWork DEF Attempt
    <2> HIDE DEF m, c
    <2>2. ASSUME p.at \in Working PROVE p.used + more <= p.reserved
        <3>1. p.calls = 0 \/ p.calls = 1 \/ p.calls = 2
            BY <2>1, <2>2
        <3>2. CASE p.at = "running"
            BY <3>1, <3>2, <2>1, <2>2, <1>1, SMTT(30)
        <3>3. CASE p.at # "running"
            BY <3>1, <3>3, <2>1, <2>2, <1>1, SMTT(30)
        <3>4. QED
            BY <3>2, <3>3
    <2>3. QED
        BY <2>2
<1>8. p.at = "reserve" => p.used + more = 0
    BY <1>1 DEF Funded
<1> HIDE DEF rec, more
<1>9. ASSUME NEW d \in Days PROVE OwedBy(rec, d) <= OwedBy(p, d)
    <2>1. CASE d # p.day
        BY <2>1, <1>5 DEF OwedBy
    <2>2. CASE d = p.day /\ p.at \in Working
        BY <2>2, <1>5, <1>7 DEF OwedBy, Working
    <2>3. CASE d = p.day /\ p.at \notin Working
        <3>1. p.at = "reserve"
            BY <2>3, <1>2 DEF Places
        <3>2. OwedBy(rec, d) = 0 /\ OwedBy(p, d) = 0
            BY <3>1, <2>3, <1>1, <1>5, <1>8 DEF OwedBy, Working, Funded
        <3>3. QED
            BY <3>2
    <2>4. QED
        BY <2>1, <2>2, <2>3
<1>10. QED
    BY <1>2, <1>5, <1>6, <1>9, MovedAlone

-----------------------------------------------------------------------------
(* The invariant is inductive. *)

LEMMA OwedIs ==
    ASSUME NEW d \in Days, attempt \in [Attempts -> Attempt]
    PROVE  [a \in Attempts |-> OwedBy(attempt[a], d)] \in [Attempts -> Nat]
BY DEF OwedBy, Attempt

LEMMA InitIs ==
    ASSUME Init
    PROVE  IInv
<1>1. PICK kind \in [Attempts -> Kinds] : attempt = [a \in Attempts |-> New(kind[a])]
    BY DEF Init
<1>2. 0 \in Days /\ 0 \in 0..Horizon /\ Horizon \in Nat
    BY BudgetAssumption DEF Days
<1>3. \A a \in Attempts : /\ attempt[a] \in Attempt /\ attempt[a].at = "new" /\ attempt[a].used = 0
                          /\ attempt[a].charged = 0 /\ attempt[a].calls = 0
                          /\ attempt[a].limit = 0
    BY <1>1, <1>2 DEF New, Attempt, Places
<1>4. attempt \in [Attempts -> Attempt]
    BY <1>1, <1>3
<1>5. limit \in Nat /\ highest = limit /\ interval \in Nat /\ limit \in Limits
    BY BudgetAssumption DEF Init
<1>6. TypeOK
    BY <1>2, <1>4, <1>5 DEF Init, TypeOK
<1>7. \A a \in Attempts : Funded(attempt[a], now, highest)
    BY <1>3, <1>5 DEF Funded, Working
<1>8. ASSUME NEW d \in Days PROVE OwedOn(d) <= usage[d] /\ usage[d] <= highest
    <2>1. \A a \in Attempts : OwedBy(attempt[a], d) = 0
        BY <1>3 DEF OwedBy, Working
    <2>2. OwedOn(d) = 0
        BY <2>1, <1>4, OwedIs, SumZero, BudgetAssumption DEF OwedOn
    <2>3. QED
        BY <2>2, <1>5 DEF Init
<1>9. QED
    BY <1>5, <1>6, <1>7, <1>8 DEF IInv, Backed

\* A step of an attempt keeps the invariant, apart from the slots.
LEMMA MovedKeeps ==
    ASSUME IInv, NEW a \in Attempts, Moved(a), next' \in [Kinds -> Nat], granted' \in SUBSET Slot
    PROVE  IInv'
<1>1. PICK rec \in Attempt :
          /\ attempt' = [attempt EXCEPT ![a] = rec]
          /\ Funded(rec, now, highest)
          /\ usage' \in [Days -> Nat]
          /\ \A d \in Days : /\ usage[d] + OwedBy(rec, d) <= usage'[d] + OwedBy(attempt[a], d)
                             /\ usage'[d] <= highest
          /\ UNCHANGED <<now, settings>>
    BY DEF Moved
<1>2. TypeOK /\ attempt \in [Attempts -> Attempt]
    BY DEF IInv, TypeOK
<1>3. attempt' \in [Attempts -> Attempt]
    BY <1>1, <1>2
<1>4. TypeOK'
    BY <1>1, <1>2, <1>3 DEF TypeOK, settings
<1>5. now' = now /\ limit' = limit /\ highest' = highest
    BY <1>1 DEF settings
<1>6. ASSUME NEW b \in Attempts PROVE Funded(attempt'[b], now, highest)
    BY <1>1, <1>2 DEF IInv
<1>7. ASSUME NEW d \in Days PROVE OwedOn(d)' <= usage'[d] /\ usage'[d] <= highest
    <2> DEFINE f == [b \in Attempts |-> OwedBy(attempt[b], d)]
               g == [b \in Attempts |-> OwedBy(attempt'[b], d)]
    <2>1. f \in [Attempts -> Nat] /\ g \in [Attempts -> Nat]
        BY <1>2, <1>3 DEF OwedBy, Attempt
    <2>2. f[a] = OwedBy(attempt[a], d) /\ g[a] = OwedBy(rec, d)
        BY <1>1, <1>2
    <2>3. \A b \in Attempts : b # a => f[b] = g[b]
        BY <1>1, <1>2
    <2>4. OwedOn(d) = SumFunction(f) /\ OwedOn(d)' = SumFunction(g)
        BY DEF OwedOn
    <2> HIDE DEF f, g
    <2>5. SumFunction(f) + g[a] = SumFunction(g) + f[a]
        BY <2>1, <2>3, SumChange, BudgetAssumption
    <2>6. SumFunction(f) \in Nat /\ SumFunction(g) \in Nat /\ f[a] \in Nat /\ g[a] \in Nat
        BY <2>1, SumType, BudgetAssumption
    <2>7. SumFunction(f) <= usage[d] /\ usage[d] \in Nat /\ usage'[d] \in Nat
        BY <1>1, <1>2, <2>4 DEF IInv, Backed, TypeOK
    <2>8. usage[d] + g[a] <= usage'[d] + f[a] /\ usage'[d] <= highest
        BY <1>1, <2>2
    <2>9. QED
        BY <2>4, <2>5, <2>6, <2>7, <2>8
<1>8. Backed'
    BY <1>5, <1>7 DEF Backed
<1>9. QED
    BY <1>4, <1>5, <1>6, <1>8 DEF IInv

LEMMA TickKeeps ==
    ASSUME IInv, Tick
    PROVE  IInv'
<1>1. /\ now' = now + 1 /\ now' \in 0..Horizon /\ now' >= now /\ now \in Nat /\ now' \in Nat
      /\ UNCHANGED <<limit, highest, interval, usage, next, attempt, granted>>
    BY BudgetAssumption DEF Tick, IInv, TypeOK, settings
<1>2. TypeOK'
    BY <1>1 DEF IInv, TypeOK
<1>3. ASSUME NEW a \in Attempts PROVE Funded(attempt[a], now', highest)
    <2>1. attempt[a] \in Attempt /\ Funded(attempt[a], now, highest)
        BY DEF IInv, TypeOK
    <2>2. attempt[a].slot \in Nat
        BY <2>1 DEF Attempt
    <2>3. attempt[a].at = "running" => attempt[a].slot <= now'
        BY <1>1, <2>1, <2>2 DEF Funded
    <2>4. QED
        BY <2>1, <2>3 DEF Funded
<1>4. Backed'
    BY <1>1 DEF IInv, Backed, OwedOn
<1>5. QED
    BY <1>1, <1>2, <1>3, <1>4 DEF IInv

LEMMA ConfigureKeeps ==
    ASSUME IInv, Configure
    PROVE  IInv'
<1>1. /\ limit' \in Limits /\ interval' \in Nat /\ limit' \in Nat
      /\ UNCHANGED <<now, usage, next, attempt, granted>>
    BY BudgetAssumption DEF Configure
<1>2. highest \in Nat /\ highest' \in Nat /\ highest <= highest' /\ limit' <= highest'
    BY <1>1 DEF Configure, IInv, TypeOK
<1>3. TypeOK'
    BY <1>1, <1>2 DEF IInv, TypeOK
<1>4. ASSUME NEW a \in Attempts PROVE Funded(attempt[a], now, highest')
    <2>1. attempt[a] \in Attempt /\ Funded(attempt[a], now, highest)
        BY DEF IInv, TypeOK
    <2>2. attempt[a].limit \in Nat
        BY <2>1 DEF Attempt
    <2>3. attempt[a].limit <= highest'
        BY <1>2, <2>1, <2>2 DEF Funded
    <2>4. QED
        BY <2>1, <2>3 DEF Funded
<1>5. ASSUME NEW d \in Days PROVE OwedOn(d)' <= usage'[d] /\ usage'[d] <= highest'
    <2>1. OwedOn(d)' = OwedOn(d) /\ usage' = usage
        BY <1>1 DEF OwedOn
    <2>2. OwedOn(d) <= usage[d] /\ usage[d] <= highest /\ usage[d] \in Nat
        BY DEF IInv, Backed, TypeOK
    <2>3. QED
        BY <1>2, <2>1, <2>2
<1>6. QED
    BY <1>1, <1>2, <1>3, <1>4, <1>5 DEF IInv, Backed

\* What a claim leaves of the slots.
LEMMA ClaimGrants ==
    ASSUME IInv, NEW a \in Attempts, Claim(a)
    PROVE  \/ UNCHANGED <<next, granted>>
           \/ \E g \in Slot :
                  /\ granted' = granted \cup {g} /\ next' \in [Kinds -> Nat]
                  /\ g.slot >= next[g.kind] /\ g.until >= g.slot
                  /\ next' = [next EXCEPT ![g.kind] = g.until]
<1> DEFINE p == attempt[a]
           slot == Start(p.asked, next[p.kind])
           g == [kind |-> p.kind, slot |-> slot, until |-> slot + p.interval, by |-> a]
<1>1. CASE ~(slot <= p.asked + MaxWait)
    BY <1>1 DEF Claim, Kind
<1>2. CASE slot <= p.asked + MaxWait
    <2>1. granted' = granted \cup {g} /\ next' = [next EXCEPT ![p.kind] = slot + p.interval]
        BY <1>2 DEF Claim, Kind
    <2>2. p \in Attempt /\ p.asked \in Nat /\ p.kind \in Kinds /\ p.interval \in Nat
          /\ next \in [Kinds -> Nat]
        BY DEF IInv, TypeOK, Attempt
    <2>3. slot \in Nat /\ slot >= next[p.kind]
        BY <2>2, StartIs
    <2> HIDE DEF slot
    <2>4. slot + p.interval \in Nat /\ slot + p.interval >= slot
        BY <2>2, <2>3
    <2>5. g \in Slot /\ g.kind = p.kind /\ g.slot = slot /\ g.until = slot + p.interval
        BY <2>2, <2>3, <2>4 DEF Slot
    <2> HIDE DEF g
    <2>6. g.slot >= next[g.kind] /\ g.until >= g.slot
        BY <2>3, <2>4, <2>5
    <2>7. next' = [next EXCEPT ![g.kind] = g.until] /\ next' \in [Kinds -> Nat]
        BY <2>1, <2>2, <2>4, <2>5
    <2>8. QED
        BY <2>1, <2>5, <2>6, <2>7
<1>3. QED
    BY <1>1, <1>2

LEMMA ClaimKeepsSlots ==
    ASSUME IInv, NEW a \in Attempts, Claim(a)
    PROVE  next' \in [Kinds -> Nat] /\ granted' \in SUBSET Slot
<1>1. next \in [Kinds -> Nat] /\ granted \in SUBSET Slot
    BY DEF IInv, TypeOK
<1>2. QED
    BY <1>1, ClaimGrants

LEMMA NextKeeps ==
    ASSUME IInv, [Next]_vars
    PROVE  IInv'
<1>1. next \in [Kinds -> Nat] /\ granted \in SUBSET Slot
    BY DEF IInv, TypeOK
<1>2. CASE UNCHANGED vars
    <2>1. /\ now' = now /\ limit' = limit /\ highest' = highest /\ interval' = interval
          /\ usage' = usage /\ next' = next /\ attempt' = attempt /\ granted' = granted
        BY <1>2 DEF vars, settings
    <2>2. TypeOK' /\ Backed'
        BY <2>1 DEF IInv, TypeOK, Backed, OwedOn
    <2>3. QED
        BY <2>1, <2>2 DEF IInv
<1>3. CASE Tick
    BY <1>3, TickKeeps
<1>4. CASE Configure
    BY <1>4, ConfigureKeeps
<1>5. ASSUME NEW a \in Attempts,
             ReadProfile(a) \/ Reserve(a) \/ Ask(a) \/ Begin(a) \/ Call(a) \/ Settle(a) \/ Die(a)
      PROVE  IInv'
    <2>1. Moved(a)
        BY <1>5, ReadProfileIs, ReserveIs, AskIs, BeginIs, CallIs, SettleIs, DieIs
    <2>2. UNCHANGED <<next, granted>>
        BY <1>5 DEF ReadProfile, Reserve, Ask, Begin, Call, Settle, Die
    <2>3. QED
        BY <1>1, <2>1, <2>2, MovedKeeps
<1>6. ASSUME NEW a \in Attempts, Claim(a) PROVE IInv'
    BY <1>6, ClaimIs, ClaimKeepsSlots, MovedKeeps
<1>7. QED
    BY <1>2, <1>3, <1>4, <1>5, <1>6 DEF Next

LEMMA Invariant == Spec => []IInv
<1>1. Init => IInv
    BY InitIs
<1>2. IInv /\ [Next]_vars => IInv'
    BY NextKeeps
<1>3. QED
    BY <1>1, <1>2, PTL DEF Spec

-----------------------------------------------------------------------------
(* The day's row. *)

LEMMA LedgerIsSound ==
    ASSUME IInv
    PROVE  LedgerSound
<1>1. SUFFICES ASSUME NEW d \in Days PROVE UsedOn(d) <= usage[d] /\ usage[d] <= highest
    BY DEF LedgerSound
<1> DEFINE f == [a \in Attempts |-> IF attempt[a].day = d THEN attempt[a].used ELSE 0]
           g == [a \in Attempts |-> OwedBy(attempt[a], d)]
<1>2. attempt \in [Attempts -> Attempt] /\ usage[d] \in Nat
    BY DEF IInv, TypeOK
<1>3. f \in [Attempts -> Nat] /\ g \in [Attempts -> Nat]
    BY <1>2 DEF OwedBy, Attempt
<1>4. ASSUME NEW a \in Attempts PROVE f[a] <= g[a]
    <2> DEFINE p == attempt[a]
    <2>1. p \in Attempt /\ p.used \in Nat
        BY <1>2 DEF Attempt
    <2>2. CASE p.at \in Working /\ p.day = d
        <3> DEFINE m == MostOf(p.kind)
                   c == CallsOf(p.kind)
        <3>1. /\ m \in Nat /\ c \in {1, 2} /\ p.reserved = c * m /\ p.charged <= p.calls * m
              /\ p.calls <= c /\ p.calls \in Nat /\ p.charged \in Nat /\ p.used <= p.charged
            BY <2>2, AtWork DEF Attempt
        <3> HIDE DEF m, c
        <3>2. p.calls = 0 \/ p.calls = 1 \/ p.calls = 2
            BY <3>1
        <3>3. p.used <= p.reserved
            BY <2>1, <3>1, <3>2
        <3>4. QED
            BY <2>2, <3>3 DEF OwedBy
    <2>3. CASE ~(p.at \in Working /\ p.day = d)
        BY <2>1, <2>3 DEF OwedBy
    <2>4. QED
        BY <2>2, <2>3
<1>5. UsedOn(d) = SumFunction(f) /\ OwedOn(d) = SumFunction(g)
    BY DEF UsedOn, OwedOn
<1>6. OwedOn(d) <= usage[d] /\ usage[d] <= highest
    BY DEF IInv, Backed
<1> HIDE DEF f, g
<1>7. SumFunction(f) <= SumFunction(g) /\ SumFunction(f) \in Nat /\ SumFunction(g) \in Nat
    BY <1>3, <1>4, SumAtMost, SumType, BudgetAssumption
<1>8. QED
    BY <1>2, <1>5, <1>6, <1>7

\* A day's row of usage_daily never falls below what the browser did for the
\* attempts that reserved on that day, and never passes the highest limit there
\* was, for any number of attempts, any limits and any length of a day
\* (reserveUsage and the settlement of db.ts, rendering.ts).
THEOREM Ledger_Sound == Spec => []LedgerSound
<1>1. IInv => LedgerSound
    BY LedgerIsSound
<1>2. QED
    BY <1>1, Invariant, PTL

-----------------------------------------------------------------------------
(* The start slots. *)

\* The next free start is past every slot that was given out, and so is every
\* slot that is given out later.
Ordered ==
    /\ \A g \in granted : g.until <= next[g.kind]
    /\ \A g \in granted : g.slot <= g.until
    /\ SlotsSpaced

LEMMA OrderedKept ==
    ASSUME IInv, Ordered, [Next]_vars
    PROVE  Ordered'
<1>1. next \in [Kinds -> Nat] /\ granted \in SUBSET Slot
    BY DEF IInv, TypeOK
<1>2. CASE UNCHANGED <<next, granted>>
    BY <1>2 DEF Ordered, SlotsSpaced
<1>3. ASSUME NEW a \in Attempts, Claim(a) PROVE Ordered'
    <2>1. CASE UNCHANGED <<next, granted>>
        BY <1>2, <2>1
    <2>2. ASSUME NEW g \in Slot,
                 granted' = granted \cup {g}, next' \in [Kinds -> Nat],
                 g.slot >= next[g.kind], g.until >= g.slot,
                 next' = [next EXCEPT ![g.kind] = g.until]
          PROVE  Ordered'
        <3>1. g.kind \in Kinds /\ g.slot \in Nat /\ g.until \in Nat /\ next[g.kind] \in Nat
            BY <1>1, <2>2 DEF Slot
        <3>2. ASSUME NEW h \in granted
              PROVE  /\ h.kind \in Kinds /\ h.slot \in Nat /\ h.until \in Nat
                     /\ h.slot <= h.until /\ h.until <= next[h.kind] /\ next[h.kind] \in Nat
                     /\ h.until <= next'[h.kind]
                     /\ h.kind = g.kind => h.until <= g.slot
            <4>1. h \in Slot /\ h.slot <= h.until /\ h.until <= next[h.kind]
                BY <1>1 DEF Ordered
            <4>2. h.kind \in Kinds /\ h.slot \in Nat /\ h.until \in Nat /\ next[h.kind] \in Nat
                BY <1>1, <4>1 DEF Slot
            <4>3. CASE h.kind = g.kind
                BY <1>1, <2>2, <3>1, <4>1, <4>2, <4>3
            <4>4. CASE h.kind # g.kind
                BY <1>1, <2>2, <3>1, <4>1, <4>2, <4>4
            <4>5. QED
                BY <4>1, <4>2, <4>3, <4>4
        <3>3. next'[g.kind] = g.until /\ g.until <= next'[g.kind]
            BY <1>1, <2>2, <3>1
        <3>4. \A h \in granted' : h.until <= next'[h.kind] /\ h.slot <= h.until
            BY <2>2, <3>1, <3>2, <3>3
        <3>5. SlotsSpaced'
            <4>1. SUFFICES ASSUME NEW x \in granted', NEW y \in granted', x # y, x.kind = y.kind
                           PROVE  x.until <= y.slot \/ y.until <= x.slot
                BY DEF SlotsSpaced
            <4>2. CASE x \in granted /\ y \in granted
                BY <4>1, <4>2 DEF Ordered, SlotsSpaced
            <4>3. CASE x \in granted /\ y = g
                BY <4>1, <4>3, <3>2
            <4>4. CASE x = g /\ y \in granted
                BY <4>1, <4>4, <3>2
            <4>5. QED
                BY <4>1, <4>2, <4>3, <4>4, <2>2
        <3>6. QED
            BY <3>4, <3>5 DEF Ordered
    <2>3. QED
        BY <1>3, <2>1, <2>2, ClaimGrants
<1>4. Next /\ ~(\E a \in Attempts : Claim(a)) => UNCHANGED <<next, granted>>
    BY DEF Next, Tick, Configure, ReadProfile, Reserve, Ask, Begin, Call, Settle, Die
<1>5. QED
    BY <1>2, <1>3, <1>4 DEF vars

\* Two starts of one kind are as far apart as the earlier of the claims asked
\* for, whatever attempts overlap or die and however often the capacity changes
\* (claimBrowserAdmission).
THEOREM Slots_Spaced == Spec => []SlotsSpaced
<1>1. Init => Ordered
    BY DEF Init, Ordered, SlotsSpaced
<1>2. IInv /\ Ordered /\ [Next]_vars => Ordered'
    BY OrderedKept
<1>3. Ordered => SlotsSpaced
    BY DEF Ordered
<1>4. QED
    BY <1>1, <1>2, <1>3, Invariant, PTL DEF Spec
=============================================================================
