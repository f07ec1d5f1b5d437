----------------------------- MODULE CoachProofs ----------------------------
(***************************************************************************)
(* The cards of the coach, proved for any flags, any number of checks and  *)
(* threads, any budget and any cache.                                      *)
(***************************************************************************)
EXTENDS Coach, SequenceTheorems, FiniteSetTheorems, TLAPS

Pcs == {"waiting", "look", "day", "take", "call", "save", "done"}
AtFlag == {"look", "day", "take", "call", "save"}

Copies(cardOrKey, written) == {cardOrKey.doc, cardOrKey.source} \cap written # {}

\* Where each check stands.
Typed ==
  /\ pc \in [Checks -> Pcs]
  /\ at \in [Checks -> Nat \ {0}]
  /\ \A c \in Checks : at[c] <= Len(FlagsOf[c]) + 1
  /\ \A c \in Checks : pc[c] \in AtFlag => at[c] <= Len(FlagsOf[c])
  /\ \A c \in Checks : pc[c] = "waiting" => at[c] = 1
  /\ DOMAIN data = Keys
  /\ card \in [Checks -> Cards]
  /\ DOMAIN shown = Checks
  /\ \A c \in Checks : DOMAIN shown[c] = DOMAIN FlagsOf[c]

\* A card is kept under the passage and the source it was filtered for.
CacheIsClean == \A k \in Keys : C!Present(k) => data[k].value \in Cards /\ ~Copies(k, data[k].value)

CardIsClean == \A c \in Checks : pc[c] = "save" => ~Copies(FlagAt(c), card[c])

ShownIsCard == \A c \in Checks : \A i \in DOMAIN FlagsOf[c] : shown[c][i] = None \/ shown[c][i] \in Cards

IInv == Typed /\ CacheIsClean /\ CardIsClean /\ NothingCopiedShown /\ ShownIsCard

-----------------------------------------------------------------------------

LEMMA FlagHasKey ==
  ASSUME Typed, NEW c \in Checks, pc[c] \in AtFlag
  PROVE  /\ at[c] \in DOMAIN FlagsOf[c] /\ FlagAt(c) \in Flags /\ Key(FlagAt(c)) \in Keys
         /\ Key(FlagAt(c)).doc = FlagAt(c).doc /\ Key(FlagAt(c)).source = FlagAt(c).source
<1>1. FlagsOf[c] \in Seq(Flags) /\ at[c] \in 1..Len(FlagsOf[c])
  BY CoachAssumption DEF Typed
<1>2. at[c] \in DOMAIN FlagsOf[c]
  BY <1>1
<1>3. FlagAt(c) \in Flags
  BY <1>2 DEF FlagAt, Flags
<1> QED
  BY <1>2, <1>3 DEF Keys, Key

\* The filter leaves nothing of the flag's own source and passage.
LEMMA FilterCleans ==
  ASSUME NEW f, NEW reply \in Cards
  PROVE  Filtered(f, reply) \in Cards /\ ~Copies(f, Filtered(f, reply))
  BY DEF Filtered, StaticCard, Cards, Copies

THEOREM InvariantStarts == Init => IInv
<1> SUFFICES ASSUME Init PROVE IInv
  OBVIOUS
<1>1. Typed
  <2>1. \A c \in Checks : FlagsOf[c] \in Seq(Flags)
    BY CoachAssumption
  <2>2. \A c \in Checks : Len(FlagsOf[c]) \in Nat
    BY <2>1
  <2> QED
    BY <2>2 DEF Init, C!Init, Typed, Pcs, AtFlag, StaticCard, Cards
<1>2. CacheIsClean
  BY DEF Init, C!Init, CacheIsClean, C!Present
<1> QED
  BY <1>1, <1>2 DEF Init, IInv, CardIsClean, NothingCopiedShown, ShownIsCard

LEMMA NextFlagTyped ==
  ASSUME Typed, NEW c \in Checks, NextFlag(c), pc[c] \in AtFlag
  PROVE  /\ pc' \in [Checks -> Pcs] /\ at' \in [Checks -> Nat \ {0}]
         /\ pc'[c] # "save" /\ at'[c] <= Len(FlagsOf[c]) + 1
         /\ pc'[c] \in AtFlag => at'[c] <= Len(FlagsOf[c])
         /\ pc'[c] # "waiting"
         /\ \A d \in Checks \ {c} : pc'[d] = pc[d] /\ at'[d] = at[d]
<1>1. Len(FlagsOf[c]) \in Nat /\ at[c] \in Nat \ {0} /\ at[c] <= Len(FlagsOf[c])
  BY FlagHasKey, CoachAssumption DEF Typed
<1>2. /\ at' = [at EXCEPT ![c] = at[c] + 1]
      /\ pc' = [pc EXCEPT ![c] = IF at[c] < Len(FlagsOf[c]) THEN "look" ELSE "done"]
  BY DEF NextFlag, Goto
<1> QED
  BY <1>1, <1>2 DEF Typed, Pcs, AtFlag

\* A check shows a clean card and goes on.
LEMMA ShowsCard ==
  ASSUME IInv, NEW c \in Checks, pc[c] \in AtFlag, NextFlag(c), UNCHANGED card,
         NEW v \in Cards, ~Copies(FlagAt(c), v), shown' = [shown EXCEPT ![c][at[c]] = v],
         DOMAIN data' = Keys, CacheIsClean'
  PROVE  IInv'
<1>1. at[c] \in DOMAIN FlagsOf[c] /\ FlagAt(c) = FlagsOf[c][at[c]]
  BY FlagHasKey DEF IInv, FlagAt
<1>2. /\ DOMAIN shown' = Checks
      /\ \A d \in Checks : DOMAIN shown'[d] = DOMAIN FlagsOf[d]
      /\ shown'[c][at[c]] = v
      /\ \A d \in Checks : \A i \in DOMAIN FlagsOf[d] : d # c \/ i # at[c] => shown'[d][i] = shown[d][i]
  BY <1>1 DEF IInv, Typed
<1>3. Typed'
  BY <1>2, NextFlagTyped, ZenonT(60) DEF IInv, Typed
<1>4. CardIsClean'
  BY NextFlagTyped DEF IInv, CardIsClean, FlagAt
<1>5. NothingCopiedShown' /\ ShownIsCard'
  BY <1>1, <1>2 DEF IInv, NothingCopiedShown, ShownIsCard, Copies
<1> QED
  BY <1>3, <1>4, <1>5 DEF IInv

LEMMA Looks == ASSUME IInv, NEW c \in Checks, Look(c) PROVE IInv'
<1> DEFINE k == Key(FlagAt(c))
<1>1. pc[c] = "look" /\ UNCHANGED card /\ k \in Keys /\ k.doc = FlagAt(c).doc /\ k.source = FlagAt(c).source
  BY FlagHasKey DEF Look, IInv, AtFlag
<1> HIDE DEF k
<1>2. CASE C!Hit(k) /\ shown' = [shown EXCEPT ![c][at[c]] = data[k].value] /\ NextFlag(c)
  <2>1. UNCHANGED data /\ C!Present(k)
    BY <1>2 DEF C!Hit, C!Fresh
  <2>2. data[k].value \in Cards /\ ~Copies(FlagAt(c), data[k].value)
    BY <1>1, <2>1 DEF IInv, CacheIsClean, Copies
  <2>3. CacheIsClean' /\ DOMAIN data' = Keys
    BY <2>1 DEF IInv, Typed, CacheIsClean, C!Present
  <2> QED
    BY <1>1, <1>2, <2>2, <2>3, ShowsCard DEF AtFlag
<1>3. CASE C!Miss(k) /\ Goto(c, "day") /\ UNCHANGED <<at, shown>>
  <2>1. data' = [data EXCEPT ![k] = C!NoEntry]
    BY <1>3 DEF C!Miss
  <2>2. DOMAIN data' = Keys /\ CacheIsClean'
    BY <2>1 DEF IInv, Typed, CacheIsClean, C!Present
  <2>3. pc' = [pc EXCEPT ![c] = "day"]
    BY <1>3 DEF Goto
  <2> QED
    BY <1>1, <1>3, <2>2, <2>3 DEF IInv, Typed, Pcs, AtFlag, CardIsClean, FlagAt, NothingCopiedShown, ShownIsCard
<1> QED
  BY <1>2, <1>3 DEF Look, k

\* The steps that neither show a card nor keep one.
LEMMA MovesOn ==
  ASSUME IInv, NEW c \in Checks, UNCHANGED <<data, shown, card>>,
         \/ UNCHANGED at /\ \E l \in Pcs \ {"save", "waiting"} : Goto(c, l) /\ (l \in AtFlag => at[c] <= Len(FlagsOf[c]))
         \/ pc[c] \in AtFlag /\ NextFlag(c)
  PROVE  IInv'
<1>1. /\ pc' \in [Checks -> Pcs] /\ at' \in [Checks -> Nat \ {0}]
      /\ pc'[c] # "save" /\ at'[c] <= Len(FlagsOf[c]) + 1
      /\ pc'[c] \in AtFlag => at'[c] <= Len(FlagsOf[c])
      /\ pc'[c] # "waiting"
      /\ \A d \in Checks \ {c} : pc'[d] = pc[d] /\ at'[d] = at[d]
  BY NextFlagTyped DEF IInv, Typed, Goto
<1> QED
  BY <1>1 DEF IInv, Typed, CacheIsClean, C!Present, CardIsClean, FlagAt, NothingCopiedShown, ShownIsCard

LEMMA Answers == ASSUME IInv, NEW c \in Checks, Answer(c) PROVE IInv'
<1>1. PICK reply \in Cards : card' = [card EXCEPT ![c] = Filtered(FlagAt(c), reply)]
  BY DEF Answer
<1>2. pc[c] = "call" /\ pc' = [pc EXCEPT ![c] = "save"] /\ UNCHANGED <<data, at, shown>>
  BY DEF Answer, Goto, cacheVars
<1>3. card' \in [Checks -> Cards] /\ ~Copies(FlagAt(c), card'[c])
  BY <1>1, FilterCleans DEF IInv, Typed
<1> QED
  BY <1>1, <1>2, <1>3 DEF IInv, Typed, Pcs, AtFlag, CacheIsClean, C!Present, CardIsClean, FlagAt,
     NothingCopiedShown, ShownIsCard, Copies

LEMMA Saves == ASSUME IInv, NEW c \in Checks, Save(c) PROVE IInv'
<1> DEFINE k == Key(FlagAt(c))
<1>1. /\ pc[c] = "save" /\ UNCHANGED card /\ NextFlag(c)
      /\ shown' = [shown EXCEPT ![c][at[c]] = card[c]]
      /\ card[c] \in Cards /\ ~Copies(FlagAt(c), card[c])
  BY DEF Save, IInv, Typed, CardIsClean
<1>2. k \in Keys /\ k.doc = FlagAt(c).doc /\ k.source = FlagAt(c).source
  BY <1>1, FlagHasKey DEF IInv, AtFlag
<1>3. C!Put(k, card[c])
  BY DEF Save
<1> HIDE DEF k
<1>4. /\ DOMAIN data' = Keys
      /\ \A x \in Keys : \/ data'[x] \in {C!NoEntry, data[x]}
                         \/ x = k /\ data'[x] = [at |-> now, value |-> card[c]]
  BY <1>3 DEF C!Put
<1>5. CacheIsClean'
  <2> SUFFICES ASSUME NEW x \in Keys, data'[x] # C!NoEntry
               PROVE  data'[x].value \in Cards /\ ~Copies(x, data'[x].value)
    BY DEF CacheIsClean, C!Present, C!NoEntry
  <2> QED
    BY <1>1, <1>2, <1>4 DEF IInv, CacheIsClean, C!Present, Copies
<1> QED
  BY <1>1, <1>4, <1>5, ShowsCard DEF AtFlag

THEOREM InvariantKept == IInv /\ [Next]_vars => IInv'
<1> SUFFICES ASSUME IInv, [Next]_vars PROVE IInv'
  OBVIOUS
<1>1. CASE UNCHANGED vars \/ Tick
  <2>1. UNCHANGED <<data, pc, at, card, shown>>
    BY <1>1 DEF vars, Tick, cacheVars, checkVars
  <2> QED
    BY <2>1 DEF IInv, Typed, CacheIsClean, C!Present, CardIsClean, FlagAt, NothingCopiedShown, ShownIsCard
<1>2. ASSUME NEW c \in Checks, CheckStep(c) PROVE IInv'
  <2>1. CASE Start(c)
    <3>1. Len(FlagsOf[c]) \in Nat /\ (FlagsOf[c] # <<>> => Len(FlagsOf[c]) >= 1)
      BY CoachAssumption, EmptySeq
    <3>2. at[c] = 1
      BY <2>1 DEF IInv, Typed, Start
    <3> QED
      BY <2>1, <3>1, <3>2, MovesOn DEF Start, cacheVars, checkVars, Pcs, AtFlag
  <2>2. CASE ReadDay(c) \/ Take(c)
    BY <2>2, MovesOn DEF ReadDay, Take, cacheVars, checkVars, Pcs, AtFlag, IInv, Typed
  <2>3. CASE Refuse(c) \/ Fail(c)
    BY <2>3, MovesOn DEF Refuse, Fail, cacheVars, Pcs, AtFlag
  <2> QED
    BY <1>2, <2>1, <2>2, <2>3, Looks, Answers, Saves DEF CheckStep
<1> QED
  BY <1>1, <1>2 DEF Next

THEOREM InvariantHolds == Spec => []IInv
  BY InvariantStarts, InvariantKept, PTL DEF Spec

\* No card that is shown copies the passage or the source of its flag, whichever
\* check paid for it and however the threads and the cache interleave.
THEOREM NoCopiedText == Spec => []NothingCopiedShown
  BY InvariantHolds, PTL DEF IInv

-----------------------------------------------------------------------------
(* The budget *)

\* Later times are on later days, or the same.
LEMMA DaysInOrder ==
  ASSUME NEW a \in Nat, NEW b \in Nat, a <= b
  PROVE  a \div DayLength \in Nat /\ a \div DayLength <= b \div DayLength
<1> DEFINE n == DayLength
           p == a \div n
           q == b \div n
<1>1. n \in Nat \ {0}
  BY CoachAssumption
<1> HIDE DEF n
<1>2. /\ p \in Nat /\ q \in Nat
      /\ n * p <= a /\ a < n * p + n /\ n * q <= b /\ b < n * q + n
  BY <1>1
<1> HIDE DEF p, q
<1>3. CASE q < p
  <2>1. n * (q + 1) <= n * p
    BY <1>1, <1>2, <1>3
  <2>2. n * (q + 1) = n * q + n
    BY <1>1, <1>2
  <2> QED
    BY <1>1, <1>2, <2>1, <2>2
<1> QED
  BY <1>2, <1>3 DEF p, q, n

LEMMA TodayIsADay ==
  ASSUME now \in 0..MaxTime
  PROVE  Today \in Days /\ Today \in Nat /\ MaxTime \div DayLength \in Nat
<1>1. now \in Nat /\ MaxTime \in Nat /\ now <= MaxTime
  BY CoachAssumption
<1> QED
  BY <1>1, DaysInOrder DEF Today, Days

BudgetTyped ==
  /\ now \in 0..MaxTime
  /\ budgetDay \in Days /\ calls \in Nat
  /\ pc \in [Checks -> Pcs]
  /\ day \in [Checks -> Days]
  /\ skipped \in [Checks -> BOOLEAN]
  /\ asked \in [Days -> Nat] /\ taken \in [Days -> Nat] /\ late \in [Days -> Nat]

\* No day that was read, and no place that was taken, is of the future.
NothingAhead ==
  /\ budgetDay <= Today
  /\ \A c \in Checks : day[c] <= Today
  /\ \A d \in Days : d > Today => taken[d] = 0 /\ late[d] = 0

\* The counter is of calls that were asked for under its day, and within the cap.
CallsAreAsked == calls <= asked[budgetDay] /\ (MaxCalls > 0 => calls <= MaxCalls)

\* Places taken in time: within one budget for each late place, and the calls of the
\* budget's own day; of a day that is over, one budget more.
InTime(d) == taken[d] - late[d]

TakesInv ==
  MaxCalls > 0 =>
    \A d \in Days :
      /\ late[d] <= taken[d]
      /\ d = Today /\ budgetDay = Today => InTime(d) <= MaxCalls * late[d] + calls
      /\ d = Today /\ budgetDay # Today => InTime(d) <= MaxCalls * late[d]
      /\ d < Today => InTime(d) <= MaxCalls * late[d] + MaxCalls

BudgetInv == BudgetTyped /\ NothingAhead /\ CallsAreAsked /\ TakesInv

LEMMA DaysAreNat == Days \subseteq Nat
  BY DaysInOrder, CoachAssumption DEF Days

LEMMA InitBudget == Init => BudgetInv
<1> SUFFICES ASSUME Init PROVE BudgetInv
  OBVIOUS
<1>1. now \in 0..MaxTime /\ MaxCalls \in Nat
  BY CoachAssumption DEF Init
<1>2. 0 \in Days /\ Today \in Nat /\ 0 <= Today
  BY <1>1, TodayIsADay DEF Days
<1>3. BudgetTyped
  BY <1>1, <1>2 DEF Init, BudgetTyped, Pcs
<1>4. NothingAhead /\ CallsAreAsked
  BY <1>1, <1>2 DEF Init, NothingAhead, CallsAreAsked
<1>5. TakesInv
  <2> SUFFICES ASSUME NEW d \in Days PROVE late[d] = 0 /\ taken[d] = 0 /\ calls = 0 /\ MaxCalls * late[d] = 0
    BY <1>1 DEF TakesInv, InTime
  <2> QED
    BY <1>1 DEF Init
<1> QED
  BY <1>3, <1>4, <1>5 DEF BudgetInv

\* A late place gives the day one more full budget, a place in time is one of the calls.
LEMMA TakeKeepsBudget == ASSUME BudgetInv, NEW c \in Checks, Take(c) PROVE BudgetInv'
<1> USE DEF BudgetInv
<1>1. /\ now' = now /\ Today' = Today /\ day' = day /\ skipped' = skipped
      /\ Today \in Days /\ Today \in Nat /\ day[c] \in Days /\ day[c] \in Nat /\ day[c] <= Today
      /\ MaxCalls \in Nat /\ calls \in Nat /\ budgetDay \in Nat
      /\ budgetDay' = day[c] /\ calls' = CallsOf(day[c]) + 1
      /\ MaxCalls = 0 \/ CallsOf(day[c]) < MaxCalls
  BY TodayIsADay, DaysAreNat, CoachAssumption
     DEF Take, checkVars, Today, BudgetTyped, NothingAhead, HasRoom
<1>2. /\ asked' = [asked EXCEPT ![day[c]] = asked[day[c]] + 1]
      /\ taken' = [taken EXCEPT ![Today] = taken[Today] + 1]
      /\ late' = IF day[c] < Today THEN [late EXCEPT ![Today] = late[Today] + 1] ELSE late
  BY DEF Take
<1>3. CallsOf(day[c]) \in Nat /\ calls' \in Nat
  BY <1>1 DEF CallsOf
<1>4. BudgetTyped'
  <2>1. pc' \in [Checks -> Pcs]
    BY DEF Take, Goto, BudgetTyped, Pcs
  <2> QED
    BY <1>1, <1>2, <1>3, <2>1 DEF BudgetTyped
<1>5. NothingAhead'
  <2>1. \A d \in Days : d > Today => taken'[d] = taken[d] /\ late'[d] = late[d]
    BY <1>1, <1>2, DaysAreNat DEF BudgetTyped
  <2> QED
    BY <1>1, <2>1 DEF NothingAhead
<1>6. CallsAreAsked'
  <2>1. asked'[day[c]] = asked[day[c]] + 1 /\ asked[day[c]] \in Nat
    BY <1>1, <1>2 DEF BudgetTyped
  <2>2. CallsOf(day[c]) <= asked[day[c]]
    BY <1>1, <2>1 DEF CallsOf, CallsAreAsked
  <2> QED
    BY <1>1, <1>3, <2>1, <2>2 DEF CallsAreAsked
<1>7. TakesInv'
  <2> SUFFICES ASSUME MaxCalls > 0, NEW d \in Days
               PROVE  /\ late'[d] <= taken'[d]
                      /\ d = Today /\ budgetDay' = Today =>
                           taken'[d] - late'[d] <= MaxCalls * late'[d] + calls'
                      /\ d = Today /\ budgetDay' # Today => taken'[d] - late'[d] <= MaxCalls * late'[d]
                      /\ d < Today => taken'[d] - late'[d] <= MaxCalls * late'[d] + MaxCalls
    BY <1>1 DEF TakesInv, InTime
  <2>1. /\ late[d] <= taken[d] /\ late[d] \in Nat /\ taken[d] \in Nat /\ d \in Nat
        /\ d = Today /\ budgetDay = Today => taken[d] - late[d] <= MaxCalls * late[d] + calls
        /\ d = Today /\ budgetDay # Today => taken[d] - late[d] <= MaxCalls * late[d]
        /\ d < Today => taken[d] - late[d] <= MaxCalls * late[d] + MaxCalls
    BY DaysAreNat DEF TakesInv, InTime, BudgetTyped
  <2>2. CASE d # Today
    <3>1. taken'[d] = taken[d] /\ late'[d] = late[d]
      BY <1>1, <1>2, <2>2 DEF BudgetTyped
    <3> QED
      BY <2>1, <2>2, <3>1
  <2>3. CASE d = Today /\ day[c] < Today
    <3>1. taken'[d] = taken[d] + 1 /\ late'[d] = late[d] + 1
      BY <1>1, <1>2, <2>3 DEF BudgetTyped
    <3>2. MaxCalls * late'[d] = MaxCalls * late[d] + MaxCalls /\ MaxCalls * late[d] \in Nat
      BY <1>1, <2>1, <3>1
    <3>3. taken[d] - late[d] <= MaxCalls * late[d] + MaxCalls
      BY <1>1, <2>1, <2>3, <3>2 DEF CallsAreAsked
    <3> QED
      BY <1>1, <2>1, <2>3, <3>1, <3>2, <3>3
  <2>4. CASE d = Today /\ day[c] = Today
    <3>1. taken'[d] = taken[d] + 1 /\ late'[d] = late[d] /\ budgetDay' = Today
      BY <1>1, <1>2, <2>4 DEF BudgetTyped
    <3>2. MaxCalls * late[d] \in Nat
      BY <1>1, <2>1
    <3>3. taken[d] - late[d] <= MaxCalls * late[d] + CallsOf(day[c])
      BY <1>1, <2>1, <2>4, <3>2 DEF CallsOf
    <3> QED
      BY <1>1, <1>3, <2>1, <2>4, <3>1, <3>2, <3>3
  <2>5. d # Today \/ (d = Today /\ day[c] < Today) \/ (d = Today /\ day[c] = Today)
    BY <1>1
  <2> QED
    BY <2>2, <2>3, <2>4, <2>5, Zenon
<1> QED
  BY <1>4, <1>5, <1>6, <1>7

\* Refusing turns the budget to no other day: a day that is not its own has all its calls.
LEMMA RefuseIsOfTheDay ==
  ASSUME BudgetInv, NEW c \in Checks, Refuse(c)
  PROVE  /\ MaxCalls > 0 /\ day[c] = budgetDay /\ calls >= MaxCalls
         /\ UNCHANGED <<budgetDay, calls>>
  BY CoachAssumption DEF Refuse, HasRoom, CallsOf, BudgetInv, BudgetTyped

\* The steps that leave the counter alone, the clock not going back.
LEMMA RestKeepsBudget ==
  ASSUME BudgetInv, now' \in 0..MaxTime, now <= now', UNCHANGED <<budgetDay, calls, takeVars>>,
         pc' \in [Checks -> Pcs], skipped' \in [Checks -> BOOLEAN],
         day' = day \/ \E c \in Checks : day' = [day EXCEPT ![c] = Today]
  PROVE  BudgetInv'
<1> USE DEF BudgetInv
<1>1. /\ Today \in Nat /\ Today \in Days /\ Today' \in Nat /\ Today <= Today' /\ MaxCalls \in Nat
      /\ budgetDay \in Nat /\ budgetDay <= Today
  <2>1. now \in Nat /\ now' \in Nat /\ now \in 0..MaxTime
    BY CoachAssumption DEF BudgetTyped
  <2>2. now \div DayLength <= now' \div DayLength /\ now \div DayLength \in Nat /\ now' \div DayLength \in Nat
    BY <2>1, DaysInOrder
  <2> QED
    BY <2>1, <2>2, TodayIsADay, DaysAreNat, CoachAssumption DEF Today, BudgetTyped, NothingAhead
<1>2. BudgetTyped'
  BY <1>1 DEF BudgetTyped, takeVars
<1>3. NothingAhead'
  <2>1. \A c \in Checks : day[c] \in Nat /\ day[c] <= Today
    BY DaysAreNat DEF BudgetTyped, NothingAhead
  <2>2. \A c \in Checks : day'[c] \in Nat /\ day'[c] <= Today'
    BY <1>1, <2>1 DEF BudgetTyped
  <2>3. \A d \in Days : d > Today' => d > Today
    BY <1>1, DaysAreNat
  <2> QED
    BY <1>1, <2>2, <2>3 DEF NothingAhead, takeVars
<1>4. CallsAreAsked'
  BY DEF CallsAreAsked, takeVars
<1>5. TakesInv'
  <2> SUFFICES ASSUME MaxCalls > 0, NEW d \in Days
               PROVE  /\ late[d] <= taken[d]
                      /\ d = Today' /\ budgetDay = Today' => taken[d] - late[d] <= MaxCalls * late[d] + calls
                      /\ d = Today' /\ budgetDay # Today' => taken[d] - late[d] <= MaxCalls * late[d]
                      /\ d < Today' => taken[d] - late[d] <= MaxCalls * late[d] + MaxCalls
    BY DEF TakesInv, InTime, takeVars
  <2>1. /\ late[d] <= taken[d] /\ late[d] \in Nat /\ taken[d] \in Nat /\ d \in Nat
        /\ d = Today /\ budgetDay = Today => taken[d] - late[d] <= MaxCalls * late[d] + calls
        /\ d = Today /\ budgetDay # Today => taken[d] - late[d] <= MaxCalls * late[d]
        /\ d < Today => taken[d] - late[d] <= MaxCalls * late[d] + MaxCalls
        /\ d > Today => taken[d] = 0 /\ late[d] = 0
        /\ calls \in Nat /\ calls <= MaxCalls /\ MaxCalls * late[d] \in Nat
    BY <1>1, DaysAreNat DEF TakesInv, InTime, BudgetTyped, NothingAhead, CallsAreAsked
  <2> DEFINE m == MaxCalls * late[d]
  <2>2. m \in Nat
    BY <2>1
  <2>3. /\ late[d] <= taken[d] /\ late[d] \in Nat /\ taken[d] \in Nat /\ d \in Nat
        /\ calls \in Nat /\ calls <= MaxCalls
        /\ d > Today => taken[d] = 0 /\ late[d] = 0
        /\ d = Today /\ budgetDay = Today => taken[d] - late[d] <= m + calls
        /\ d = Today /\ budgetDay # Today => taken[d] - late[d] <= m
        /\ d < Today => taken[d] - late[d] <= m + MaxCalls
    BY <2>1
  <2> HIDE DEF m
  <2>4. /\ d = Today' /\ budgetDay = Today' => taken[d] - late[d] <= m + calls
        /\ d = Today' /\ budgetDay # Today' => taken[d] - late[d] <= m
        /\ d < Today' => taken[d] - late[d] <= m + MaxCalls
    <3>1. CASE d > Today
      BY <1>1, <2>2, <2>3, <3>1
    <3>2. CASE d = Today
      BY <1>1, <2>2, <2>3, <3>2
    <3>3. CASE d < Today
      BY <1>1, <2>2, <2>3, <3>3
    <3> QED
      BY <1>1, <2>3, <3>1, <3>2, <3>3
  <2> QED
    BY <2>1, <2>4 DEF m
<1> QED
  BY <1>2, <1>3, <1>4, <1>5

LEMMA NextKeepsBudget == BudgetInv /\ [Next]_vars => BudgetInv'
<1> SUFFICES ASSUME BudgetInv, [Next]_vars PROVE BudgetInv'
  OBVIOUS
<1>1. /\ now \in 0..MaxTime /\ now \in Nat /\ MaxTime \in Nat /\ Today \in Days
      /\ pc \in [Checks -> Pcs] /\ skipped \in [Checks -> BOOLEAN]
  BY CoachAssumption, TodayIsADay DEF BudgetInv, BudgetTyped
<1>2. CASE Tick \/ UNCHANGED vars
  <2>1. UNCHANGED <<budgetDay, calls, takeVars, pc, skipped, day>> /\ (now' = now \/ (now' = now + 1 /\ now < MaxTime))
    <3>1. CASE Tick
      BY <3>1 DEF Tick, budgetVars, checkVars
    <3>2. CASE UNCHANGED vars
      BY <3>2 DEF vars, takeVars
    <3> QED
      BY <1>2, <3>1, <3>2
  <2>2. now' \in 0..MaxTime /\ now <= now'
    BY <1>1, <2>1
  <2> QED
    BY <1>1, <2>1, <2>2, RestKeepsBudget
<1>3. ASSUME NEW c \in Checks, CheckStep(c) PROVE BudgetInv'
  <2>1. now' = now /\ now <= now'
    BY <1>1, <1>3 DEF CheckStep, Start, Look, ReadDay, Take, Refuse, Answer, Fail, Save
  <2>2. pc' \in [Checks -> Pcs]
    BY <1>1, <1>3 DEF CheckStep, Start, Look, ReadDay, Take, Refuse, Answer, Fail, Save, NextFlag, Goto, Pcs
  <2>3. CASE Take(c)
    BY <2>3, TakeKeepsBudget
  <2>4. CASE ReadDay(c)
    BY <1>1, <2>1, <2>2, <2>4, RestKeepsBudget DEF ReadDay, budgetVars, takeVars
  <2>5. CASE Refuse(c)
    <3>1. UNCHANGED <<budgetDay, calls, takeVars, day>>
      BY <2>5, RefuseIsOfTheDay DEF Refuse, takeVars
    <3>2. skipped' \in [Checks -> BOOLEAN]
      BY <1>1, <2>5 DEF Refuse
    <3> QED
      BY <1>1, <2>1, <2>2, <3>1, <3>2, RestKeepsBudget
  <2>6. CASE Start(c) \/ Look(c) \/ Answer(c) \/ Fail(c) \/ Save(c)
    <3>1. UNCHANGED <<budgetDay, calls, takeVars, day, skipped>>
      BY <2>6 DEF Start, Look, Answer, Fail, Save, budgetVars, checkVars
    <3> QED
      BY <1>1, <2>1, <2>2, <3>1, RestKeepsBudget
  <2> QED
    BY <1>3, <2>3, <2>4, <2>5, <2>6 DEF CheckStep
<1> QED
  BY <1>2, <1>3 DEF Next

\* Each reading of the clock from before midnight that is used after it costs one more
\* full budget and no more, for any cap and any number of checks and threads
\* (coach.py:138-152).
THEOREM CapHoldsUpToLateTakes == Spec => []CapUpToLateTakes
<1>1. BudgetInv => CapUpToLateTakes
  <2> SUFFICES ASSUME BudgetInv, MaxCalls > 0, NEW d \in Days
               PROVE  taken[d] <= MaxCalls + late[d] * (MaxCalls + 1)
    BY DEF CapUpToLateTakes
  <2>1. /\ MaxCalls \in Nat /\ taken[d] \in Nat /\ late[d] \in Nat /\ calls \in Nat /\ calls <= MaxCalls
        /\ d \in Nat /\ Today \in Nat
    BY CoachAssumption, TodayIsADay, DaysAreNat DEF BudgetInv, BudgetTyped, CallsAreAsked
  <2>2. MaxCalls * late[d] \in Nat /\ late[d] * (MaxCalls + 1) = MaxCalls * late[d] + late[d]
    BY <2>1
  <2>3. taken[d] - late[d] <= MaxCalls * late[d] + MaxCalls
    <3>1. CASE d > Today
      <4>1. taken[d] = 0 /\ late[d] = 0 /\ MaxCalls * late[d] = 0
        BY <2>1, <3>1 DEF BudgetInv, NothingAhead
      <4> QED
        BY <2>1, <4>1
    <3>2. CASE d <= Today
      <4>1. /\ d = Today /\ budgetDay = Today => taken[d] - late[d] <= MaxCalls * late[d] + calls
            /\ d = Today /\ budgetDay # Today => taken[d] - late[d] <= MaxCalls * late[d]
            /\ d < Today => taken[d] - late[d] <= MaxCalls * late[d] + MaxCalls
        BY DEF BudgetInv, TakesInv, InTime
      <4> DEFINE m == MaxCalls * late[d]
      <4>2. /\ m \in Nat
            /\ d = Today /\ budgetDay = Today => taken[d] - late[d] <= m + calls
            /\ d = Today /\ budgetDay # Today => taken[d] - late[d] <= m
            /\ d < Today => taken[d] - late[d] <= m + MaxCalls
        BY <2>2, <4>1
      <4> HIDE DEF m
      <4>3. taken[d] - late[d] <= m + MaxCalls
        BY <2>1, <3>2, <4>2
      <4> QED
        BY <4>3 DEF m
    <3> QED
      BY <2>1, <3>1, <3>2
  <2> QED
    BY <2>1, <2>2, <2>3
<1> QED
  BY <1>1, InitBudget, NextKeepsBudget, PTL DEF Spec

\* A check is told that the cap is reached only when as many places as the cap were
\* taken for the very day it asked about (coach.py:147-150, 278-280).
THEOREM RefusalsAreEarned == Spec => RefusedOnlyWhenSpent
<1>1. BudgetInv /\ [Next]_vars =>
        [\A c \in Checks : skipped'[c] /\ ~skipped[c] => asked[day[c]] >= MaxCalls]_vars
  <2> SUFFICES ASSUME BudgetInv, Next, NEW c \in Checks, skipped'[c], ~skipped[c]
               PROVE  asked[day[c]] >= MaxCalls
    OBVIOUS
  <2>1. PICK b \in Checks : CheckStep(b)
    BY DEF Next, Tick, checkVars
  <2>2. Refuse(b) /\ b = c
    BY <2>1 DEF CheckStep, Start, Look, ReadDay, Take, Refuse, Answer, Fail, Save, checkVars,
                BudgetInv, BudgetTyped
  <2>3. MaxCalls \in Nat /\ asked[budgetDay] \in Nat /\ calls \in Nat
    BY CoachAssumption DEF BudgetInv, BudgetTyped
  <2> QED
    BY <2>2, <2>3, RefuseIsOfTheDay DEF BudgetInv, CallsAreAsked
<1> QED
  BY <1>1, InitBudget, NextKeepsBudget, PTL DEF Spec, RefusedOnlyWhenSpent

-----------------------------------------------------------------------------
(* The cache of cards, and what is paid for *)

NoRepeats(s) == \A i, j \in 1..Len(s) : s[i] = s[j] => i = j

CacheInv ==
  /\ order \in Seq(Keys) /\ NoRepeats(order)
  /\ data \in [Keys -> C!Entry \cup {C!NoEntry}]

LEMMA KeysAreFinite == IsFiniteSet(Keys)
<1>1. IsFiniteSet(Flags)
  <2> DEFINE FlagsIn(c) == {FlagsOf[c][i] : i \in DOMAIN FlagsOf[c]}
             All == {FlagsIn(c) : c \in Checks}
  <2>1. ASSUME NEW c \in Checks PROVE IsFiniteSet(FlagsIn(c))
    <3>1. FlagsOf[c] \in Seq(Flags)
      BY CoachAssumption
    <3>2. Len(FlagsOf[c]) \in Nat /\ DOMAIN FlagsOf[c] = 1..Len(FlagsOf[c])
      BY <3>1
    <3>3. IsFiniteSet(DOMAIN FlagsOf[c])
      BY <3>2, FS_Interval
    <3> DEFINE f == [i \in DOMAIN FlagsOf[c] |-> FlagsOf[c][i]]
    <3>4. f \in Surjection(DOMAIN FlagsOf[c], FlagsIn(c))
      BY DEF Surjection
    <3> QED
      BY <3>3, <3>4, FS_Surjection
  <2>2. IsFiniteSet(All)
    <3> DEFINE f == [c \in Checks |-> FlagsIn(c)]
    <3>1. f \in Surjection(Checks, All)
      BY DEF Surjection
    <3> QED
      BY <3>1, FS_Surjection, CoachAssumption
  <2>3. \A T \in All : IsFiniteSet(T)
    BY <2>1
  <2>4. Flags = UNION All
    BY DEF Flags
  <2> HIDE DEF All
  <2> QED
    BY <2>2, <2>3, <2>4, FS_UNION
<1> DEFINE f == [g \in Flags |-> Key(g)]
<1>2. f \in Surjection(Flags, Keys)
  BY DEF Surjection, Keys
<1> QED
  BY <1>1, <1>2, FS_Surjection

\* A list of keys without repetition is no longer than there are keys.
LEMMA NoRepeatsIsShort ==
  ASSUME NEW s \in Seq(Keys), NoRepeats(s)
  PROVE  Len(s) \in Nat /\ Len(s) <= Cardinality(Keys)
<1>1. Len(s) \in Nat /\ s \in [1..Len(s) -> Keys]
  OBVIOUS
<1>2. s \in Injection(1..Len(s), Keys)
  BY <1>1 DEF Injection, IsInjective, NoRepeats
<1>3. Cardinality(1..Len(s)) <= Cardinality(Keys)
  BY <1>2, KeysAreFinite, FS_Injection
<1>4. Cardinality(1..Len(s)) = Len(s)
  BY <1>1, FS_Interval
<1> QED
  BY <1>1, <1>3, <1>4

\* Taking a key out of a list without repetition, and putting it at the end.
LEMMA WithoutKey ==
  ASSUME NEW s \in Seq(Keys), NoRepeats(s), NEW k \in Keys
  PROVE  /\ C!Without(s, k) \in Seq(Keys) /\ NoRepeats(C!Without(s, k))
         /\ Append(C!Without(s, k), k) \in Seq(Keys) /\ NoRepeats(Append(C!Without(s, k), k))
<1> DEFINE t == C!Without(s, k)
<1>1. t \in Seq(Keys) /\ NoRepeats(t) /\ \A i \in 1..Len(t) : t[i] # k
  <2>1. CASE \E i \in 1..Len(s) : s[i] = k
    <3> DEFINE n == CHOOSE i \in 1..Len(s) : s[i] = k
    <3>1. n \in 1..Len(s) /\ s[n] = k /\ Len(s) \in Nat
      BY <2>1
    <3>2. t = SubSeq(s, 1, n - 1) \o SubSeq(s, n + 1, Len(s))
      BY <2>1 DEF C!Without
    <3> HIDE DEF n, t
    <3> DEFINE a == SubSeq(s, 1, n - 1)
               b == SubSeq(s, n + 1, Len(s))
    <3>3. \A i \in 1..Len(s) : s[i] \in Keys
      OBVIOUS
    <3>4. a \in Seq(Keys) /\ Len(a) = n - 1 /\ \A i \in 1..(n - 1) : a[i] = s[i]
      BY <3>1, <3>3, SubSeqProperties
    <3>5. b \in Seq(Keys) /\ Len(b) = Len(s) - n /\ \A i \in 1..(Len(s) - n) : b[i] = s[n + i]
      BY <3>1, <3>3, SubSeqProperties
    <3>7. t = a \o b
      BY <3>2
    <3> HIDE DEF a, b
    <3>6. /\ t \in Seq(Keys) /\ Len(t) = Len(s) - 1
          /\ \A i \in 1..Len(t) : t[i] = IF i < n THEN s[i] ELSE s[i + 1]
      <4>1. /\ t \in Seq(Keys) /\ Len(t) = Len(a) + Len(b)
            /\ \A i \in 1..(Len(a) + Len(b)) : t[i] = IF i <= Len(a) THEN a[i] ELSE b[i - Len(a)]
        BY <3>4, <3>5, <3>7, ConcatProperties
      <4>2. Len(t) = Len(s) - 1
        BY <3>1, <3>4, <3>5, <4>1
      <4>3. ASSUME NEW i \in 1..Len(t), i < n PROVE t[i] = s[i]
        <5>1. i \in 1..(n - 1) /\ i \in 1..(Len(a) + Len(b)) /\ i <= Len(a)
          BY <3>1, <3>4, <4>1, <4>2, <4>3
        <5> QED
          BY <3>4, <4>1, <5>1
      <4>4. ASSUME NEW i \in 1..Len(t), ~(i < n) PROVE t[i] = s[i + 1]
        <5>1. t[i] = b[i - (n - 1)]
          BY <3>1, <3>4, <3>5, <4>1, <4>2, <4>4
        <5>2. i - (n - 1) \in 1..(Len(s) - n) /\ n + (i - (n - 1)) = i + 1
          BY <3>1, <4>2, <4>4
        <5> QED
          BY <3>5, <5>1, <5>2
      <4> QED
        BY <4>1, <4>2, <4>3, <4>4
    <3> QED
      BY <3>1, <3>6, SMTT(60) DEF NoRepeats
  <2>2. CASE ~\E i \in 1..Len(s) : s[i] = k
    BY <2>2 DEF C!Without
  <2> QED
    BY <2>1, <2>2
<1> HIDE DEF t
<1>2. /\ Append(t, k) \in Seq(Keys) /\ Len(Append(t, k)) = Len(t) + 1 /\ Len(t) \in Nat
      /\ Append(t, k)[Len(t) + 1] = k
      /\ \A i \in 1..Len(t) : Append(t, k)[i] = t[i]
  BY <1>1
<1>3. NoRepeats(Append(t, k))
  BY <1>1, <1>2 DEF NoRepeats
<1> QED
  BY <1>1, <1>2, <1>3 DEF t

\* While the cache has room for every key, put() drops none.
LEMMA PutKeepsAll ==
  ASSUME CacheInv, NEW k \in Keys, NEW v \in Cards, C!Put(k, v), now \in Nat
  PROVE  /\ CacheInv'
         /\ Cardinality(Keys) <= CacheSize =>
              C!Present(k)' /\ \A x \in Keys \ {k} : data'[x] = data[x]
<1> DEFINE used == Append(C!Without(order, k), k)
           drop == IF Len(used) > CacheSize THEN Len(used) - CacheSize ELSE 0
<1>1. used \in Seq(Keys) /\ NoRepeats(used)
  BY WithoutKey DEF CacheInv
<1>2. Len(used) \in Nat /\ Len(used) <= Cardinality(Keys)
  BY <1>1, NoRepeatsIsShort
<1>3. /\ order' = SubSeq(used, drop + 1, Len(used))
      /\ data' = [x \in Keys |-> IF \E i \in 1..drop : used[i] = x THEN C!NoEntry
                                 ELSE IF x = k THEN [at |-> now, value |-> v] ELSE data[x]]
  BY DEF C!Put
<1>4. Len(used) >= 1
  BY WithoutKey DEF CacheInv
<1> HIDE DEF used
<1>5. drop \in Nat /\ drop <= Len(used)
  BY <1>2, CoachAssumption
<1> HIDE DEF drop
<1>6. order' \in Seq(Keys) /\ NoRepeats(order')
  <2>1. \A i \in 1..Len(used) : used[i] \in Keys
    BY <1>1
  <2>2. /\ SubSeq(used, drop + 1, Len(used)) \in Seq(Keys)
        /\ Len(SubSeq(used, drop + 1, Len(used))) = Len(used) - drop
        /\ \A i \in 1..(Len(used) - drop) : SubSeq(used, drop + 1, Len(used))[i] = used[drop + i]
    BY <1>1, <1>2, <1>5, <2>1, SubSeqProperties
  <2> QED
    BY <1>1, <1>2, <1>3, <1>5, <2>2 DEF NoRepeats
<1>7. [at |-> now, value |-> v] \in C!Entry /\ [at |-> now, value |-> v] # C!NoEntry
  BY DEF C!Entry, C!NoEntry
<1>8. data' \in [Keys -> C!Entry \cup {C!NoEntry}]
  BY <1>3, <1>7 DEF CacheInv
<1>9. ASSUME Cardinality(Keys) <= CacheSize
      PROVE  C!Present(k)' /\ \A x \in Keys \ {k} : data'[x] = data[x]
  <2>1. Cardinality(Keys) \in Nat
    BY KeysAreFinite, FS_CardinalityType
  <2>2. drop = 0
    BY <1>2, <1>9, <2>1, CoachAssumption DEF drop
  <2>3. data' = [x \in Keys |-> IF x = k THEN [at |-> now, value |-> v] ELSE data[x]]
    BY <1>3, <2>2
  <2> QED
    BY <1>7, <2>3 DEF C!Present, C!NoEntry
<1> QED
  BY <1>6, <1>8, <1>9 DEF CacheInv

\* Nothing expires and nothing is pushed out.
Lossless == Cardinality(Keys) <= CacheSize /\ MaxTime <= CacheTTL

\* The replies that were paid for and could be used.
Useful == [k \in Keys |-> paid[k] - wasted[k]]

\* The checks that are on their way to pay for a key, and those about to keep its card.
Paying(k) == {c \in Checks : pc[c] \in {"day", "take", "call"} /\ Key(FlagAt(c)) = k}
Saving(k) == {c \in Checks : pc[c] = "save" /\ Key(FlagAt(c)) = k}

\* While a key is not in the cache, who has paid for a card of it is still about to keep
\* that card; and those who have and those who may are no more than the threads.
PaidFor(k) ==
  /\ ~C!Present(k) => Useful[k] <= Cardinality(Saving(k))
  /\ Useful[k] + Cardinality(Paying(k)) <= Workers

PayTyped ==
  /\ paid \in [Keys -> Nat] /\ wasted \in [Keys -> Nat]
  /\ Useful \in [Keys -> Nat]

PaidInv ==
  /\ PayTyped
  /\ Cardinality(Busy) <= Workers
  /\ Lossless => \A k \in Keys : PaidFor(k)

CacheAndPay == CacheInv /\ PaidInv

LEMMA ChecksAreFinite ==
  ASSUME NEW T \in SUBSET Checks
  PROVE  IsFiniteSet(T) /\ Cardinality(T) \in Nat /\ \A S \in SUBSET T : Cardinality(S) <= Cardinality(T)
  BY FS_Subset, FS_CardinalityType, CoachAssumption

\* get() of a key that is there finds it, if nothing is lost.
LEMMA LooksFind ==
  ASSUME Lossless, CacheInv, now \in 0..MaxTime, NEW k \in Keys
  PROVE  C!Fresh(k) <=> C!Present(k)
<1>1. CacheTTL \in Nat /\ MaxTime \in Nat /\ now \in Nat /\ now <= CacheTTL
  BY CoachAssumption DEF Lossless
<1>2. C!Present(k) => data[k].at \in Nat
  BY DEF C!Present, CacheInv, C!Entry
<1> QED
  BY <1>1, <1>2 DEF C!Fresh

\* get() keeps the order of use and drops at most the key itself.
LEMMA GetKeepsCache ==
  ASSUME CacheInv, NEW k \in Keys, C!Hit(k) \/ C!Miss(k)
  PROVE  CacheInv'
<1>1. /\ C!Without(order, k) \in Seq(Keys) /\ NoRepeats(C!Without(order, k))
      /\ Append(C!Without(order, k), k) \in Seq(Keys) /\ NoRepeats(Append(C!Without(order, k), k))
  BY WithoutKey DEF CacheInv
<1> QED
  BY <1>1 DEF C!Hit, C!Miss, CacheInv

\* A check that pays for nothing may leave those who are about to pay, and join or leave
\* those about to keep a card of a key that is there.
LEMMA PaidForStays ==
  ASSUME NEW k \in Keys, PaidFor(k), Useful \in [Keys -> Nat], Useful'[k] = Useful[k],
         Paying(k)' \subseteq Paying(k),
         C!Present(k)' \/ (~C!Present(k) /\ Saving(k) \subseteq Saving(k)')
  PROVE  PaidFor(k)'
<1>1. /\ Paying(k) \in SUBSET Checks /\ Paying(k)' \in SUBSET Paying(k) /\ Paying(k)' \in SUBSET Checks
      /\ Saving(k) \in SUBSET Checks /\ Saving(k)' \in SUBSET Checks
  BY DEF Paying, Saving
<1>2. /\ Cardinality(Paying(k)) \in Nat /\ Cardinality(Paying(k)') \in Nat
      /\ Cardinality(Paying(k)') <= Cardinality(Paying(k))
      /\ Cardinality(Saving(k)) \in Nat /\ Cardinality(Saving(k)') \in Nat
      /\ Saving(k) \subseteq Saving(k)' => Cardinality(Saving(k)) <= Cardinality(Saving(k)')
  BY <1>1, ChecksAreFinite
<1>3. Useful[k] \in Nat /\ Workers \in Nat
  BY CoachAssumption
<1> QED
  BY <1>2, <1>3 DEF PaidFor

\* A step of one check moves no other.
LEMMA OthersStay ==
  ASSUME IInv, NEW c \in Checks, CheckStep(c)
  PROVE  /\ \A d \in Checks \ {c} : pc'[d] = pc[d] /\ at'[d] = at[d]
         /\ \A d \in Checks \ {c} : FlagAt(d)' = FlagAt(d)
         /\ pc[c] # "done" /\ pc' \in [Checks -> Pcs]
<1>1. /\ \A d \in Checks \ {c} : pc'[d] = pc[d] /\ at'[d] = at[d]
      /\ pc[c] # "done"
  BY DEF CheckStep, Start, Look, ReadDay, Take, Refuse, Answer, Fail, Save, NextFlag, Goto, checkVars,
     IInv, Typed
<1>2. IInv'
  BY InvariantKept DEF Next
<1> QED
  BY <1>1, <1>2 DEF FlagAt, IInv, Typed

LEMMA BusyStaysBounded ==
  ASSUME IInv, Cardinality(Busy) <= Workers, NEW c \in Checks, CheckStep(c)
  PROVE  Cardinality(Busy') <= Workers
<1>1. /\ Busy \in SUBSET Checks /\ Busy' \in SUBSET Checks
      /\ IsFiniteSet(Busy) /\ Cardinality(Busy) \in Nat /\ Cardinality(Busy') \in Nat /\ Workers \in Nat
  BY ChecksAreFinite, CoachAssumption DEF Busy
<1>2. CASE Start(c)
  <2>1. Cardinality(Busy) < Workers /\ Busy' \in SUBSET (Busy \cup {c})
    BY <1>2, OthersStay DEF Start, Busy
  <2>2. IsFiniteSet(Busy \cup {c}) /\ Cardinality(Busy \cup {c}) <= Cardinality(Busy) + 1
        /\ Cardinality(Busy \cup {c}) \in Nat
    <3>1. /\ IsFiniteSet(Busy \cup {c})
          /\ Cardinality(Busy \cup {c}) = IF c \in Busy THEN Cardinality(Busy) ELSE Cardinality(Busy) + 1
      BY <1>1, FS_AddElement
    <3> QED
      BY <1>1, <3>1
  <2>3. Cardinality(Busy') <= Cardinality(Busy \cup {c})
    BY <2>1, <2>2, FS_Subset
  <2> QED
    BY <1>1, <2>1, <2>2, <2>3
<1>3. CASE pc[c] # "waiting"
  <2>1. Busy' \in SUBSET Busy
    BY <1>3, OthersStay DEF Busy
  <2>2. Cardinality(Busy') <= Cardinality(Busy)
    BY <1>1, <2>1, FS_Subset
  <2> QED
    BY <1>1, <2>2
<1> QED
  BY <1>2, <1>3 DEF CheckStep, Look, ReadDay, Take, Refuse, Answer, Fail, Save

\* Only a reply that can be used adds to those that were of use.
LEMMA WhatIsPaid ==
  ASSUME IInv, PayTyped, NEW c \in Checks, CheckStep(c)
  PROVE  /\ PayTyped'
         /\ Start(c) \/ Look(c) \/ ReadDay(c) \/ Take(c) \/ Refuse(c) \/ Fail(c) \/ Save(c) => Useful' = Useful
         /\ Answer(c) => Useful' = [Useful EXCEPT ![Key(FlagAt(c))] = @ + 1]
<1> DEFINE k == Key(FlagAt(c))
<1>1. /\ \A x \in Keys : paid[x] \in Nat /\ wasted[x] \in Nat /\ Useful[x] = paid[x] - wasted[x] /\ Useful[x] \in Nat
      /\ Useful' = [x \in Keys |-> paid'[x] - wasted'[x]]
  BY DEF PayTyped, Useful
<1>2. CASE Start(c) \/ Look(c) \/ ReadDay(c) \/ Take(c) \/ Refuse(c) \/ Save(c)
  <2>1. UNCHANGED paidVars
    BY <1>2 DEF Start, Look, ReadDay, Take, Refuse, Save
  <2>2. UNCHANGED <<paid, wasted, Useful>>
    BY <2>1 DEF paidVars, Useful
  <2>3. ~Answer(c)
    BY <1>2 DEF Start, Look, ReadDay, Take, Refuse, Save, Answer
  <2> QED
    BY <2>2, <2>3 DEF PayTyped
<1>3. CASE Answer(c)
  <2>1. k \in Keys /\ paid' = [paid EXCEPT ![k] = paid[k] + 1] /\ wasted' = wasted
    BY <1>3, FlagHasKey DEF Answer, IInv, AtFlag
  <2>2. ~(Start(c) \/ Look(c) \/ ReadDay(c) \/ Take(c) \/ Refuse(c) \/ Fail(c) \/ Save(c))
    BY <1>3 DEF Start, Look, ReadDay, Take, Refuse, Save, Answer, Fail, Goto, NextFlag, IInv, Typed
  <2> HIDE DEF k
  <2>3. \A x \in Keys : Useful'[x] = IF x = k THEN Useful[x] + 1 ELSE Useful[x]
    BY <1>1, <2>1 DEF PayTyped
  <2>4. Useful \in [Keys -> Nat] /\ DOMAIN Useful' = Keys /\ Useful' = [x \in Keys |-> Useful'[x]]
    BY <1>1 DEF PayTyped
  <2>5. Useful' = [Useful EXCEPT ![k] = Useful[k] + 1]
    BY <2>1, <2>3, <2>4
  <2>6. Useful' \in [Keys -> Nat]
    BY <1>1, <2>1, <2>3, <2>4
  <2> QED
    BY <2>1, <2>2, <2>5, <2>6 DEF PayTyped, k
<1>4. CASE Fail(c)
  <2>1. /\ k \in Keys
        /\ \/ UNCHANGED <<paid, wasted>>
           \/ paid' = [paid EXCEPT ![k] = paid[k] + 1] /\ wasted' = [wasted EXCEPT ![k] = wasted[k] + 1]
    BY <1>4, FlagHasKey DEF Fail, IInv, AtFlag, paidVars
  <2>2. ~Answer(c)
    BY <1>4 DEF Answer, Fail, Goto, NextFlag, IInv, Typed
  <2> HIDE DEF k
  <2>3. \A x \in Keys : Useful'[x] = Useful[x]
    BY <1>1, <2>1 DEF PayTyped
  <2>4. Useful' = Useful
    BY <1>1, <2>3 DEF PayTyped
  <2> QED
    BY <2>1, <2>2, <2>4 DEF PayTyped
<1> QED
  BY <1>2, <1>3, <1>4 DEF CheckStep

\* The steps of one check that pay for nothing of use and touch no cache.
LEMMA QuietStepPays ==
  ASSUME IInv, CacheAndPay, NEW c \in Checks, CheckStep(c), UNCHANGED <<order, data>>, Useful' = Useful,
         pc'[c] # "save", pc[c] # "save",
         pc'[c] \in {"day", "take", "call"} => pc[c] \in {"day", "take", "call"} /\ at'[c] = at[c]
  PROVE  CacheAndPay'
<1>1. /\ CacheInv' /\ PayTyped' /\ Cardinality(Busy') <= Workers
  BY BusyStaysBounded, WhatIsPaid DEF CacheAndPay, CacheInv, PaidInv, PayTyped
<1>2. ASSUME Lossless, NEW k \in Keys PROVE PaidFor(k)'
  <2>1. Paying(k)' \subseteq Paying(k) /\ Saving(k) \subseteq Saving(k)'
    BY OthersStay DEF Paying, Saving, FlagAt
  <2>2. C!Present(k)' <=> C!Present(k)
    BY DEF C!Present
  <2> QED
    BY <1>2, <2>1, <2>2, PaidForStays DEF CacheAndPay, PaidInv, PayTyped
<1> QED
  BY <1>1, <1>2 DEF CacheAndPay, PaidInv, Lossless

LEMMA LookPays ==
  ASSUME IInv, now \in 0..MaxTime, CacheAndPay, NEW c \in Checks, Look(c)
  PROVE  CacheAndPay'
<1> DEFINE k == Key(FlagAt(c))
<1>1. pc[c] = "look" /\ k \in Keys /\ Useful' = Useful /\ CheckStep(c)
  BY FlagHasKey, WhatIsPaid DEF Look, IInv, AtFlag, CheckStep, CacheAndPay, PaidInv
<1>2. (C!Hit(k) /\ NextFlag(c)) \/ (C!Miss(k) /\ Goto(c, "day") /\ UNCHANGED at)
  BY DEF Look
<1> HIDE DEF k
<1>3. CacheInv' /\ PayTyped' /\ Cardinality(Busy') <= Workers
  BY <1>1, <1>2, GetKeepsCache, BusyStaysBounded, WhatIsPaid DEF CacheAndPay, PaidInv, PayTyped
<1>4. ASSUME Lossless, NEW x \in Keys PROVE PaidFor(x)'
  <2>1. PaidFor(x) /\ (C!Fresh(k) <=> C!Present(k)) /\ Useful[x] \in Nat
    BY <1>1, <1>4, LooksFind DEF CacheAndPay, PaidInv, PayTyped
  <2>2. CASE C!Hit(k) /\ NextFlag(c)
    <3>1. Paying(x)' \subseteq Paying(x) /\ Saving(x) \subseteq Saving(x)'
      BY <1>1, <2>2, OthersStay, NextFlagTyped DEF Paying, Saving, IInv, Typed, NextFlag, Goto
    <3>2. C!Present(x)' <=> C!Present(x)
      BY <2>2 DEF C!Hit, C!Present
    <3> QED
      BY <1>1, <2>1, <3>1, <3>2, PaidForStays DEF CacheAndPay, PaidInv, PayTyped
  <2>3. CASE C!Miss(k) /\ Goto(c, "day") /\ UNCHANGED at
    <3>1. ~C!Present(k) /\ (C!Present(x)' <=> C!Present(x))
      BY <1>1, <2>1, <2>3 DEF C!Miss, C!Present, CacheAndPay, CacheInv
    <3>2. Saving(x)' = Saving(x) /\ pc'[c] = "day"
      BY <1>1, <2>3, OthersStay DEF Saving, Goto, IInv, Typed
    <3>3. CASE x # k
      <4>1. Paying(x)' \subseteq Paying(x)
        BY <1>1, <2>3, <3>3, OthersStay DEF Paying, Goto, FlagAt, k
      <4> QED
        BY <1>1, <2>1, <3>1, <3>2, <4>1, PaidForStays DEF CacheAndPay, PaidInv, PayTyped
    <3>4. CASE x = k
      <4>1. Useful[x] <= Cardinality(Saving(x))
        BY <2>1, <3>1, <3>4 DEF PaidFor
      <4>2. /\ Paying(x)' \in SUBSET Checks /\ Saving(x) \in SUBSET Checks
            /\ Paying(x)' \cap Saving(x) = {} /\ Paying(x)' \cup Saving(x) \in SUBSET Busy'
            /\ Busy' \in SUBSET Checks
        BY <3>2 DEF Paying, Saving, Busy
      <4>3. /\ IsFiniteSet(Paying(x)') /\ IsFiniteSet(Saving(x)) /\ IsFiniteSet(Busy')
            /\ Cardinality(Paying(x)') \in Nat /\ Cardinality(Saving(x)) \in Nat
            /\ Cardinality(Busy') \in Nat
            /\ Cardinality(Paying(x)' \cup Saving(x)) <= Cardinality(Busy')
        BY <4>2, ChecksAreFinite
      <4>4. Cardinality(Paying(x)' \cup Saving(x)) = Cardinality(Paying(x)') + Cardinality(Saving(x))
        <5>1. Cardinality(Paying(x)' \cap Saving(x)) = 0
          BY <4>2, FS_EmptySet
        <5>2. Cardinality(Paying(x)' \cup Saving(x)) =
                Cardinality(Paying(x)') + Cardinality(Saving(x)) - Cardinality(Paying(x)' \cap Saving(x))
          BY <4>3, FS_Union
        <5> QED
          BY <4>3, <5>1, <5>2
      <4>5. Workers \in Nat
        BY CoachAssumption
      <4> QED
        BY <1>1, <1>3, <2>1, <3>2, <4>1, <4>3, <4>4, <4>5 DEF PaidFor
    <3> QED
      BY <3>3, <3>4
  <2> QED
    BY <1>2, <2>2, <2>3
<1> QED
  BY <1>3, <1>4 DEF CacheAndPay, PaidInv, Lossless

\* Who pays goes over to those about to keep the card.
LEMMA AnswerPays ==
  ASSUME IInv, CacheAndPay, NEW c \in Checks, Answer(c)
  PROVE  CacheAndPay'
<1> DEFINE k == Key(FlagAt(c))
<1>1. /\ pc[c] = "call" /\ k \in Keys /\ CheckStep(c) /\ UNCHANGED <<order, data, at>>
      /\ Useful' = [Useful EXCEPT ![k] = @ + 1] /\ pc' = [pc EXCEPT ![c] = "save"]
  BY FlagHasKey, WhatIsPaid DEF Answer, Goto, IInv, AtFlag, CheckStep, cacheVars, CacheAndPay, PaidInv
<1>2. /\ CacheInv' /\ PayTyped' /\ Cardinality(Busy') <= Workers
  BY <1>1, BusyStaysBounded, WhatIsPaid DEF CacheAndPay, CacheInv, PaidInv, PayTyped
<1>3. ASSUME Lossless, NEW x \in Keys PROVE PaidFor(x)'
  <2>1. PaidFor(x) /\ Useful[x] \in Nat /\ (C!Present(x)' <=> C!Present(x))
    BY <1>1, <1>3 DEF CacheAndPay, PaidInv, PayTyped, C!Present
  <2>2. CASE x # k
    <3>1. Paying(x)' \subseteq Paying(x) /\ Saving(x) \subseteq Saving(x)' /\ Useful'[x] = Useful[x]
      BY <1>1, <2>2 DEF Paying, Saving, FlagAt, IInv, Typed, CacheAndPay, PaidInv
    <3> QED
      BY <2>1, <3>1, PaidForStays DEF CacheAndPay, PaidInv, PayTyped
  <2>3. CASE x = k
    <3>0. Useful \in [Keys -> Nat] /\ x \in Keys /\ Useful'[x] = Useful[x] + 1
      BY <1>1, <2>3 DEF CacheAndPay, PaidInv, PayTyped
    <3>1. /\ Paying(x)' = Paying(x) \ {c} /\ c \in Paying(x) /\ Useful'[x] = Useful[x] + 1
          /\ Saving(x)' = Saving(x) \cup {c} /\ c \notin Saving(x)
      BY <1>1, <2>3, <3>0 DEF Paying, Saving, FlagAt, IInv, Typed
    <3>2. Paying(x) \in SUBSET Checks /\ Saving(x) \in SUBSET Checks
      BY DEF Paying, Saving
    <3>3. /\ IsFiniteSet(Paying(x)) /\ IsFiniteSet(Saving(x))
          /\ Cardinality(Paying(x)) \in Nat /\ Cardinality(Saving(x)) \in Nat
      BY <3>2, ChecksAreFinite
    <3>4. Cardinality(Paying(x)') = Cardinality(Paying(x)) - 1
      BY <3>1, <3>3, FS_RemoveElement
    <3>5. Cardinality(Saving(x)') = Cardinality(Saving(x)) + 1
      BY <3>1, <3>3, FS_AddElement
    <3>6. Workers \in Nat
      BY CoachAssumption
    <3> QED
      BY <2>1, <3>1, <3>3, <3>4, <3>5, <3>6 DEF PaidFor
  <2> QED
    BY <2>2, <2>3
<1> QED
  BY <1>2, <1>3 DEF CacheAndPay, PaidInv, Lossless

\* Once the card is kept, nobody who looks pays again.
LEMMA SavePays ==
  ASSUME IInv, now \in 0..MaxTime, CacheAndPay, NEW c \in Checks, Save(c)
  PROVE  CacheAndPay'
<1>0. PICK k \in Keys : k = Key(FlagAt(c))
  BY FlagHasKey DEF Save, IInv, AtFlag
<1>1. /\ pc[c] = "save" /\ CheckStep(c) /\ NextFlag(c) /\ Useful' = Useful
      /\ C!Put(k, card[c]) /\ card[c] \in Cards /\ now \in Nat
  <2>1. CheckStep(c)
    BY DEF CheckStep
  <2>2. Useful' = Useful
    BY <2>1, WhatIsPaid DEF CacheAndPay, PaidInv
  <2> QED
    BY <1>0, <2>1, <2>2, CoachAssumption DEF Save, IInv, Typed
<1>2. /\ CacheInv'
      /\ Lossless => C!Present(k)' /\ \A x \in Keys \ {k} : data'[x] = data[x]
  <2>1. /\ CacheInv'
        /\ Cardinality(Keys) <= CacheSize =>
             C!Present(k)' /\ \A x \in Keys \ {k} : data'[x] = data[x]
    BY <1>1, PutKeepsAll DEF CacheAndPay
  <2> QED
    BY <2>1 DEF Lossless
<1>3. PayTyped' /\ Cardinality(Busy') <= Workers
  BY <1>1, BusyStaysBounded, WhatIsPaid DEF CacheAndPay, PaidInv, PayTyped
<1>4. ASSUME Lossless, NEW x \in Keys PROVE PaidFor(x)'
  <2>1. pc'[c] \notin {"day", "take", "call", "save"}
    BY <1>1, OthersStay DEF NextFlag, Goto, IInv, Typed
  <2>2. Paying(x)' \subseteq Paying(x)
    BY <1>1, <2>1, OthersStay DEF Paying
  <2>3. CASE x = k
    <3>1. PaidFor(x) /\ Useful \in [Keys -> Nat] /\ C!Present(x)'
      BY <1>2, <1>4, <2>3 DEF CacheAndPay, PaidInv, PayTyped
    <3> QED
      BY <1>1, <2>2, <3>1, PaidForStays
  <2>4. CASE x # k
    <3>1. Saving(x) \subseteq Saving(x)'
      BY <1>0, <1>1, <2>4, OthersStay DEF Saving
    <3>2. C!Present(x)' <=> C!Present(x)
      BY <1>2, <1>4, <2>4 DEF C!Present
    <3> QED
      BY <1>1, <1>4, <2>2, <3>1, <3>2, PaidForStays DEF CacheAndPay, PaidInv, PayTyped
  <2> QED
    BY <2>3, <2>4
<1> QED
  BY <1>2, <1>3, <1>4 DEF CacheAndPay, PaidInv, Lossless

LEMMA NextKeepsPay ==
  IInv /\ now \in 0..MaxTime /\ CacheAndPay /\ [Next]_vars => CacheAndPay'
<1> SUFFICES ASSUME IInv, now \in 0..MaxTime, CacheAndPay, [Next]_vars PROVE CacheAndPay'
  OBVIOUS
<1>1. CASE Tick \/ UNCHANGED vars
  <2>1. UNCHANGED <<order, data, paid, wasted, pc, at>>
    BY <1>1 DEF Tick, vars, cacheVars, checkVars, paidVars
  <2> QED
    BY <2>1 DEF CacheAndPay, CacheInv, PaidInv, PayTyped, Useful, PaidFor, Paying, Saving, FlagAt, Busy, C!Present, Lossless
<1>2. ASSUME NEW c \in Checks, CheckStep(c) PROVE CacheAndPay'
  <2>1. CASE Start(c) \/ ReadDay(c) \/ Take(c) \/ Refuse(c) \/ Fail(c)
    <3>1. UNCHANGED <<order, data>> /\ Useful' = Useful
      BY <1>2, <2>1, WhatIsPaid DEF CacheAndPay, PaidInv, Start, ReadDay, Take, Refuse, Fail, cacheVars
    <3>2. /\ pc'[c] # "save" /\ pc[c] # "save"
          /\ pc'[c] \in {"day", "take", "call"} => pc[c] \in {"day", "take", "call"} /\ at'[c] = at[c]
      BY <2>1 DEF Start, ReadDay, Take, Refuse, Fail, NextFlag, Goto, IInv, Typed, checkVars
    <3> QED
      BY <1>2, <3>1, <3>2, QuietStepPays
  <2> QED
    BY <1>2, <2>1, LookPays, AnswerPays, SavePays DEF CheckStep
<1> QED
  BY <1>1, <1>2 DEF Next

LEMMA InitPay == Init => CacheAndPay
<1> SUFFICES ASSUME Init PROVE CacheAndPay
  OBVIOUS
<1>1. CacheInv
  BY DEF Init, C!Init, CacheInv, NoRepeats
<1>2. Busy = {} /\ \A k \in Keys : Paying(k) = {} /\ Saving(k) = {}
  BY DEF Init, Busy, Paying, Saving
<1>3. Workers \in Nat /\ Cardinality({}) = 0
  BY CoachAssumption, FS_EmptySet
<1>4. PayTyped /\ \A k \in Keys : Useful[k] = 0
  BY DEF Init, PayTyped, Useful
<1>5. \A k \in Keys : PaidFor(k)
  BY <1>2, <1>3, <1>4 DEF PaidFor
<1> QED
  BY <1>1, <1>2, <1>3, <1>4, <1>5 DEF CacheAndPay, PaidInv, PayTyped

LEMMA PayHolds == Spec => [](IInv /\ BudgetInv /\ CacheAndPay)
<1>1. BudgetInv => now \in 0..MaxTime
  BY DEF BudgetInv, BudgetTyped
<1> QED
  BY <1>1, InvariantStarts, InvariantKept, InitBudget, NextKeepsBudget, InitPay, NextKeepsPay, PTL DEF Spec

\* While the cache loses nothing, a flag is paid for again only for a reply that could not
\* be used, or by threads that missed the cache together: replies of use are no more than
\* the threads, for any number of checks, flags and threads (coach.py:271-302).
THEOREM PaysAgainForCause == Spec => []PaidAgainForCause
<1>1. CacheAndPay => PaidAgainForCause
  <2> SUFFICES ASSUME CacheAndPay, Lossless, NEW k \in Keys PROVE Useful[k] <= Workers
    BY CoachAssumption DEF PaidAgainForCause, Lossless, Useful, CacheAndPay, PaidInv, PayTyped
  <2>1. PaidFor(k) /\ Useful[k] \in Nat /\ Workers \in Nat
    BY CoachAssumption DEF CacheAndPay, PaidInv, PayTyped
  <2>2. Paying(k) \in SUBSET Checks
    BY DEF Paying
  <2>3. Cardinality(Paying(k)) \in Nat
    BY <2>2, ChecksAreFinite
  <2> QED
    BY <2>1, <2>3 DEF PaidFor
<1> QED
  BY <1>1, PayHolds, PTL

\* Every variable keeps its type; the counter of calls never passes the cap.
THEOREM TypeCorrect == Spec => []TypeOK
<1>1. IInv /\ BudgetInv /\ CacheAndPay => TypeOK
  <2> SUFFICES ASSUME IInv, BudgetInv, CacheAndPay PROVE TypeOK
    OBVIOUS
  <2>1. \A c \in Checks : Len(FlagsOf[c]) \in Nat
    BY CoachAssumption
  <2>2. \A c \in Checks : at[c] \in 1..(Len(FlagsOf[c]) + 1)
    BY <2>1 DEF IInv, Typed
  <2>3. calls \in IF MaxCalls = 0 THEN Nat ELSE 0..MaxCalls
    BY CoachAssumption DEF BudgetInv, BudgetTyped, CallsAreAsked
  <2> QED
    BY <2>2, <2>3 DEF TypeOK, C!TypeOK, IInv, Typed, ShownIsCard, BudgetInv, BudgetTyped, Pcs,
       CacheAndPay, CacheInv, PaidInv, PayTyped
<1> QED
  BY <1>1, PayHolds, PTL
=============================================================================
