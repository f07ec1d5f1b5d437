------------------------------- MODULE Coach -------------------------------
(***************************************************************************)
(* backend/services/coach.py: the cards a language model writes for the    *)
(* flags of a check, under a daily budget and through a cache of cards.    *)
(*                                                                         *)
(* The checks run on the pool's threads and share one CoachStage, so one   *)
(* cache and one budget (app/factory.py:114-120).  An action is one call   *)
(* into the cache, the reading of the clock, the critical section of       *)
(* CoachBudget.take(), or one completion of the model.                     *)
(*                                                                         *)
(* A text is what a passage says in its first 700 characters, which is all *)
(* that key, prompt and filter see of it.  A card is the set of texts that *)
(* what the model wrote on it copies; the rule's own words copy none.  The *)
(* four fields of a card are filtered alike and one by one: one stands for *)
(* all.                                                                    *)
(***************************************************************************)
EXTENDS Integers, FiniteSets, Sequences

CONSTANTS
  Checks,       \* the checks that reach this stage
  FlagsOf,      \* for each check, the flags _select chose, most urgent first
  Texts,        \* what the excerpts of these flags say
  Workers,      \* worker_threads
  MaxCalls,     \* coach_max_calls_per_day, 0 for no cap
  CacheSize,    \* coach_cache_entries
  CacheTTL,     \* 86400 seconds, in ticks
  DayLength,    \* the same in ticks: the clock's midnights
  MaxTime,      \* bound of the clock in the model
  None

Flags == UNION {{FlagsOf[c][i] : i \in DOMAIN FlagsOf[c]} : c \in Checks}

\* _cache_key: the rule, the passage and the source; one model is configured.  `doc` and `source`
\* stand for the excerpts as the call and the filter see them, cut at 700 characters.
Key_NoSource(f) == [rule |-> f.rule, doc |-> f.doc]
Key(f) == [rule |-> f.rule, doc |-> f.doc, source |-> f.source]
Keys == {Key(f) : f \in Flags}

Cards == SUBSET Texts
StaticCard == {}

ASSUME CoachAssumption ==
  /\ IsFiniteSet(Checks) /\ IsFiniteSet(Texts)
  /\ \A c \in Checks : FlagsOf[c] \in Seq(Flags)
  /\ \A f \in Flags : f.doc \in Texts /\ f.source \in Texts
  /\ Workers \in Nat \ {0} /\ DayLength \in Nat \ {0}
  /\ MaxCalls \in Nat /\ CacheSize \in Nat \ {0} /\ CacheTTL \in Nat /\ MaxTime \in Nat

VARIABLES
  order, data, now,  \* the cache of cards, the clock
  budgetDay, calls,  \* CoachBudget._day and ._calls
  pc,      \* where coach_matches stands in each check
  at,      \* which of its flags it is at
  day,     \* take()'s `day`
  card,    \* `card`
  shown,   \* m["coach"] of each flag, None while it shows the rule's own words
  skipped, \* stats.skipped_reason: the cap was reached
  asked,   \* history: how many places in the budget were taken, by the day that was read
  taken,   \* history: the same by the day on which they were taken
  late,    \* history: those of them taken on a reading of an earlier day
  paid,    \* history: how many replies were paid for, by key
  wasted   \* history: those of them that could not be used

cacheVars  == <<order, data>>
budgetVars == <<budgetDay, calls>>
checkVars  == <<at, day, card, shown, skipped>>
takeVars   == <<asked, taken, late>>
paidVars   == <<paid, wasted>>
vars == <<order, data, now, budgetDay, calls, pc, at, day, card, shown, skipped,
          asked, taken, late, paid, wasted>>

C == INSTANCE TTLCache WITH Values <- Cards, MaxSize <- CacheSize, TTL <- CacheTTL

Today == now \div DayLength
Days  == 0..(MaxTime \div DayLength)

Busy == {c \in Checks : pc[c] \notin {"waiting", "done"}}

TypeOK ==
  /\ C!TypeOK
  /\ now \in 0..MaxTime
  /\ budgetDay \in Days
  /\ calls \in IF MaxCalls = 0 THEN Nat ELSE 0..MaxCalls
  /\ pc \in [Checks -> {"waiting", "look", "day", "take", "call", "save", "done"}]
  /\ \A c \in Checks : at[c] \in 1..(Len(FlagsOf[c]) + 1)
  /\ day \in [Checks -> Days]
  /\ card \in [Checks -> Cards]
  /\ \A c \in Checks : \A i \in DOMAIN FlagsOf[c] : shown[c][i] = None \/ shown[c][i] \in Cards
  /\ skipped \in [Checks -> BOOLEAN]
  /\ asked \in [Days -> Nat] /\ taken \in [Days -> Nat] /\ late \in [Days -> Nat]
  /\ paid \in [Keys -> Nat] /\ wasted \in [Keys -> Nat]

\* Any day but this one will do for the budget's own, which starts in 1970.
Init ==
  /\ C!Init /\ now = 0
  /\ budgetDay = 0 /\ calls = 0
  /\ pc = [c \in Checks |-> "waiting"]
  /\ at = [c \in Checks |-> 1]
  /\ day = [c \in Checks |-> 0]
  /\ card = [c \in Checks |-> StaticCard]
  /\ shown = [c \in Checks |-> [i \in DOMAIN FlagsOf[c] |-> None]]
  /\ skipped = [c \in Checks |-> FALSE]
  /\ asked = [d \in Days |-> 0] /\ taken = asked /\ late = asked
  /\ paid = [k \in Keys |-> 0] /\ wasted = paid

-----------------------------------------------------------------------------

Goto(c, l) == pc' = [pc EXCEPT ![c] = l]

\* The loop's next flag, or its end.
NextFlag(c) ==
  /\ at' = [at EXCEPT ![c] = @ + 1]
  /\ Goto(c, IF at[c] < Len(FlagsOf[c]) THEN "look" ELSE "done")

FlagAt(c) == FlagsOf[c][at[c]]

\* A thread takes up a check; a check without flags worth a call is done at once.
Start(c) ==
  /\ pc[c] = "waiting"
  /\ Cardinality(Busy) < Workers
  /\ Goto(c, IF FlagsOf[c] = <<>> THEN "done" ELSE "look")
  /\ UNCHANGED <<cacheVars, now, budgetVars, checkVars, takeVars, paidVars>>

\* cache.get(): the card goes into the match, or take() begins.
Look(c) ==
  LET k == Key(FlagAt(c))
  IN  /\ pc[c] = "look"
      /\ \/ /\ C!Hit(k)
            /\ shown' = [shown EXCEPT ![c][at[c]] = data[k].value]
            /\ NextFlag(c)
         \/ /\ C!Miss(k)
            /\ Goto(c, "day")
            /\ UNCHANGED <<at, shown>>
      /\ UNCHANGED <<now, budgetVars, day, card, skipped, takeVars, paidVars>>

\* take() reads the clock before it takes the lock.
ReadDay(c) ==
  /\ pc[c] = "day"
  /\ day' = [day EXCEPT ![c] = Today]
  /\ Goto(c, "take")
  /\ UNCHANGED <<cacheVars, now, budgetVars, at, card, shown, skipped, takeVars, paidVars>>

\* The calls of the day read: none yet, if it is another than the budget's.
CallsOf_NeverReset(d) == calls
CallsOf(d) == IF d = budgetDay THEN calls ELSE 0

HasRoom_OffByOne(d) == MaxCalls = 0 \/ CallsOf(d) <= MaxCalls
HasRoom(d) == MaxCalls = 0 \/ CallsOf(d) < MaxCalls

\* The critical section of take(): a call is allowed and counted.
Take(c) ==
  /\ pc[c] = "take" /\ HasRoom(day[c])
  /\ budgetDay' = day[c]
  /\ calls' = CallsOf(day[c]) + 1
  /\ asked' = [asked EXCEPT ![day[c]] = @ + 1]
  /\ taken' = [taken EXCEPT ![Today] = @ + 1]
  /\ late' = IF day[c] < Today THEN [late EXCEPT ![Today] = @ + 1] ELSE late
  /\ Goto(c, "call")
  /\ UNCHANGED <<cacheVars, now, checkVars, paidVars>>

\* The same when the cap is reached: the loop over the flags ends.
Refuse(c) ==
  /\ pc[c] = "take" /\ ~HasRoom(day[c])
  /\ budgetDay' = day[c]
  /\ calls' = CallsOf(day[c])
  /\ skipped' = [skipped EXCEPT ![c] = TRUE]
  /\ Goto(c, "done")
  /\ UNCHANGED <<cacheVars, now, at, day, card, shown, takeVars, paidVars>>

\* What post_filter leaves of a reply: the rule's words for a field that copies
\* the source or the passage (or coaches evasion).
Filtered(f, reply) == IF {f.doc, f.source} \cap reply # {} THEN StaticCard ELSE reply

\* The model answers, whatever it likes, and its card is filtered.
Answer(c) ==
  /\ pc[c] = "call"
  /\ \E reply \in Cards : card' = [card EXCEPT ![c] = Filtered(FlagAt(c), reply)]
  /\ paid' = [paid EXCEPT ![Key(FlagAt(c))] = @ + 1]
  /\ Goto(c, "save")
  /\ UNCHANGED <<cacheVars, now, budgetVars, at, day, shown, skipped, takeVars, wasted>>

\* A timeout, an error or bad JSON: this flag keeps the rule's words.  Nothing is
\* cached, although a reply that is no JSON object was paid for, and a call that was
\* given up may have been.
Fail(c) ==
  /\ pc[c] = "call"
  /\ \/ UNCHANGED paidVars
     \/ /\ paid' = [paid EXCEPT ![Key(FlagAt(c))] = @ + 1]
        /\ wasted' = [wasted EXCEPT ![Key(FlagAt(c))] = @ + 1]
  /\ NextFlag(c)
  /\ UNCHANGED <<cacheVars, now, budgetVars, day, card, shown, skipped, takeVars>>

Save_Never(c) ==
  /\ pc[c] = "save"
  /\ shown' = [shown EXCEPT ![c][at[c]] = card[c]]
  /\ NextFlag(c)
  /\ UNCHANGED <<cacheVars, now, budgetVars, day, card, skipped, takeVars, paidVars>>

\* cache.put(), and the card goes into the match.
Save(c) ==
  /\ pc[c] = "save"
  /\ C!Put(Key(FlagAt(c)), card[c])
  /\ shown' = [shown EXCEPT ![c][at[c]] = card[c]]
  /\ NextFlag(c)
  /\ UNCHANGED <<now, budgetVars, day, card, skipped, takeVars, paidVars>>

Tick ==
  /\ now < MaxTime
  /\ now' = now + 1
  /\ UNCHANGED <<cacheVars, budgetVars, pc, checkVars, takeVars, paidVars>>

CheckStep(c) ==
  \/ Start(c) \/ Look(c) \/ ReadDay(c) \/ Take(c) \/ Refuse(c)
  \/ Answer(c) \/ Fail(c) \/ Save(c)

Next == Tick \/ \E c \in Checks : CheckStep(c)

Spec == Init /\ [][Next]_vars

-----------------------------------------------------------------------------
(* Properties *)

\* coach.py:11-15, "Coaching can never hand the author copied text": no card that
\* is shown copies the flag's source or passage, not even one that was written
\* and filtered for another flag and came through the cache.
NothingCopiedShown ==
  \A c \in Checks : \A i \in DOMAIN FlagsOf[c] :
    shown[c][i] # None => {FlagsOf[c][i].doc, FlagsOf[c][i].source} \cap shown[c][i] = {}

\* What the daily cap is worth when checks run on several threads: a thread that
\* read the clock before midnight and takes its place after it turns the budget
\* back, and each such place gives the new day one more full budget, no more.
CapUpToLateTakes ==
  MaxCalls > 0 =>
    \A d \in Days : taken[d] <= MaxCalls + late[d] * (MaxCalls + 1)

\* No check is told "daily call cap reached" unless max_calls_per_day places were
\* taken for the day it asked about: yesterday's calls never count.
RefusedOnlyWhenSpent ==
  [][\A c \in Checks : skipped'[c] /\ ~skipped[c] => asked[day[c]] >= MaxCalls]_vars

\* What is left of coach.py:20-21, "so the same flag never costs twice": while the
\* cache loses nothing, a flag is paid for again for two reasons only, a reply that
\* could not be used, which is not remembered, and threads that missed the cache
\* together.  Replies that could be used are no more than the threads.
PaidAgainForCause ==
  (Cardinality(Keys) <= CacheSize /\ MaxTime <= CacheTTL) =>
    \A k \in Keys : paid[k] <= Workers + wasted[k]

=============================================================================
