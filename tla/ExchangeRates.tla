--------------------------- MODULE ExchangeRates ---------------------------
(***************************************************************************)
(* The exchange rates of the server: NBS first, which quotes every         *)
(* currency in RSD on working days, NBP when NBS has nothing, and a table  *)
(* that keeps what a lookup may store under the day it was asked for.      *)
(* Lookups run in threads (requests, the drains) and in the prefetch task, *)
(* which wants the rate of the day stored every day after eight.           *)
(* Abstractions:                                                           *)
(*   - a quote is the day of NBS or the bank NBP it comes from, for every  *)
(*     leg, not its number; both directions of a pair are stored together  *)
(*     and are one entry; nobody converts an amount of a day to come;      *)
(*   - a bank that failed is not asked again for 15 minutes; the rates in  *)
(*     the same cache are in the table too; NBP is seen through its cache; *)
(*   - a lookup of the prefetch task is over before eight or midnight.     *)
(***************************************************************************)
EXTENDS Integers, Sequences, FiniteSets

CONSTANTS
    Currencies,  \* those NBS quotes in RSD
    Pairs,       \* converted: <<c>> is c/RSD, <<c, d>> bridges c/d through RSD
    Home,        \* prefetched: app_currency against the accounting currency
    LastDay,     \* bound: days 1..LastDay
    Working,     \* the days NBS publishes a rate for
    Lookback,    \* _RATE_LOOKBACK_DAYS
    Threads,     \* threads that convert amounts
    Prefetch,    \* the thread of the prefetch task
    MaxOutages   \* bound: requests NBS does not answer

Days == 1..LastDay
NBP == 0
Quote == SUBSET (Days \cup {NBP})   \* of NBS on a day, or of NBP; of all legs
NoQuote == {}                       \* no row
Keys == Pairs \cup {Home} \cup {<<c>> : c \in Currencies}
All == Threads \cup {Prefetch}
LastWorking(day) == CHOOSE d \in Working : d <= day /\ \A w \in Working : w <= day => w <= d

ASSUME PairsAssumption ==
    Pairs \cup {Home} \subseteq {<<c>> : c \in Currencies} \cup (Currencies \X Currencies)
ASSUME DaysAssumption ==
    /\ LastDay \in Nat \ {0} /\ Lookback \in Nat \ {0} /\ MaxOutages \in Nat
    /\ Working \subseteq Days /\ 1 \in Working
ASSUME ThreadsAssumption == Prefetch \notin Threads

VARIABLES
    now, early,  \* the day in Belgrade, and whether it is before eight
    published,   \* the working days NBS has published
    outages,     \* requests NBS did not answer so far
    failed,      \* the failures in the TTLCache of _fetch_nbs_rate
    stored,      \* table exchange_rates
    look,        \* the lookup of every thread
    task         \* the prefetch task, and the day it sleeps for

clock == <<now, early>>
world == <<published, outages>>
vars == <<clock, world, failed, stored, look, task>>

Idle == [pc |-> "idle", pair |-> Home, day |-> 1, legs |-> <<>>, back |-> 0,
         seen |-> FALSE, quote |-> {}]

TypeOK ==
    /\ now \in Days /\ early \in BOOLEAN
    /\ published \subseteq Working /\ \A d \in published : d <= now
    /\ outages \in 0..MaxOutages
    /\ failed \subseteq Currencies \X Days
    /\ stored \in [Keys -> [Days -> Quote]]
    /\ look \in [All -> [pc: {"idle", "nbs", "nbp"}, pair: Pairs \cup {Home}, day: Days,
                         legs: Seq(Currencies), back: 0..Lookback, seen: BOOLEAN,
                         quote: Quote]]
    /\ \A t \in All : look[t].pc = "nbs" => look[t].legs # <<>>
    /\ task \in [pc: {"sleep", "retry", "check", "lookup"}, until: 1..(LastDay + 1)]
    /\ look[Prefetch].pc # "idle" => task.pc = "lookup"

--------------------------------------------------------------------------
(* The table *)

\* save_db_rate: ON CONFLICT DO NOTHING.
Save(table, key, day, quote) ==
    IF table[key][day] = NoQuote THEN [table EXCEPT ![key][day] = quote] ELSE table

AliasAny(t, day) == day \notin Working   \* mutant: whatever was skipped
\* A rate found on an earlier day stands for a day off, unless a working day
\* without a rate was passed on the way.
Alias(t, day) == day \notin Working /\ ~look[t].seen

SaveAlias(table, t, key, quote) ==
    IF Alias(t, look[t].day) THEN Save(table, key, look[t].day, quote) ELSE table

--------------------------------------------------------------------------
(* get_rate *)

Begun(pair, day) ==
    [Idle EXCEPT !.pc = "nbs", !.pair = pair, !.day = day, !.legs = pair]

\* convert_to_accounting_amount: offline, what the table has is the answer.
Ask(t, pair, day) ==
    /\ t \in Threads /\ look[t].pc = "idle" /\ day <= now
    /\ stored[pair][day] = NoQuote
    /\ look' = [look EXCEPT ![t] = Begun(pair, day)]
    /\ UNCHANGED <<clock, world, failed, stored, task>>

MoreLegs(t) == Len(look[t].legs) > 1

\* A leg is found: the next one follows, or the pair is known; a bridged one
\* is stored under the day asked for, however old its legs are.
FoundLeg(t, table, quote) ==
    LET l == look[t]
        sum == l.quote \cup quote
    IN  IF MoreLegs(t)
        THEN /\ look' = [look EXCEPT ![t].legs = Tail(@), ![t].back = 0,
                                     ![t].seen = FALSE, ![t].quote = sum]
             /\ stored' = table
        ELSE /\ look' = [look EXCEPT ![t] = Idle]
             /\ stored' = IF Len(l.pair) = 1 THEN table ELSE Save(table, l.pair, l.day, sum)

Checked(t) == look[t].day - look[t].back
Key(t) == <<Head(look[t].legs)>>

\* resolve_from_nbs, one day of the lookback: the table has it,
TableHit(t) ==
    /\ look[t].pc = "nbs" /\ look[t].back < Lookback /\ Checked(t) \in Days
    /\ stored[Key(t)][Checked(t)] # NoQuote
    /\ LET quote == stored[Key(t)][Checked(t)]
       IN  FoundLeg(t, IF look[t].back = 0 THEN stored ELSE SaveAlias(stored, t, Key(t), quote),
                    quote)
    /\ UNCHANGED <<clock, world, failed, task>>

Miss(t) ==
    /\ look[t].pc = "nbs" /\ look[t].back < Lookback /\ Checked(t) \in Days
    /\ stored[Key(t)][Checked(t)] = NoQuote

\* or it is a day off,
DayOff(t) ==
    /\ Miss(t) /\ Checked(t) \notin Working
    /\ look' = [look EXCEPT ![t].back = @ + 1]
    /\ UNCHANGED <<clock, world, failed, stored, task>>

\* _fetch_nbs_rate: NBS has a rate, unless a failure is remembered.
Answers(t) ==
    <<Head(look[t].legs), Checked(t)>> \notin failed /\ Checked(t) \in published

\* or NBS has a rate for it,
Fetch(t) ==
    /\ Miss(t) /\ Checked(t) \in Working /\ Answers(t)
    /\ LET quote == {Checked(t)}
       IN  FoundLeg(t, SaveAlias(Save(stored, Key(t), Checked(t), quote), t, Key(t), quote),
                    quote)
    /\ UNCHANGED <<clock, world, failed, task>>

\* or not, or does not answer, which is remembered in the cache and the lookup.
FetchFails(t) ==
    /\ Miss(t) /\ Checked(t) \in Working
    /\ \/ ~Answers(t) /\ UNCHANGED outages
       \/ Answers(t) /\ outages < MaxOutages /\ outages' = outages + 1
    /\ failed' = failed \cup {<<Head(look[t].legs), Checked(t)>>}
    /\ look' = [look EXCEPT ![t].back = @ + 1, ![t].seen = TRUE]
    /\ UNCHANGED <<clock, published, stored, task>>

LookbackEnds(t) ==
    /\ look[t].pc = "nbs"
    /\ look[t].back = Lookback \/ Checked(t) \notin Days
    /\ look' = [look EXCEPT ![t].pc = "nbp"]
    /\ UNCHANGED <<clock, world, failed, stored, task>>

\* resolve_from_nbp: the rate of the day or else the latest one, stored under
\* the day; without an answer get_rate raises.
AskNbp(t) ==
    /\ look[t].pc = "nbp"
    /\ \/ stored' = Save(stored, look[t].pair, look[t].day, {NBP})
       \/ UNCHANGED stored
    /\ look' = [look EXCEPT ![t] = Idle]
    /\ UNCHANGED <<clock, world, failed, task>>

LookStep(t) ==
    \/ TableHit(t) \/ DayOff(t) \/ Fetch(t) \/ FetchFails(t)
    \/ LookbackEnds(t) \/ AskNbp(t)

\* Fifteen minutes later.
CacheExpires ==
    /\ failed # {} /\ failed' = {}
    /\ UNCHANGED <<clock, world, stored, look, task>>

--------------------------------------------------------------------------
(* rate_prefetch_task *)

Today == stored[Home][now] # NoQuote
UntilEight == [pc |-> "sleep", until |-> IF early THEN now ELSE now + 1]

WakeUp ==
    /\ \/ task.pc = "sleep" /\ ~early /\ now >= task.until
       \/ task.pc = "retry"
    /\ task' = [task EXCEPT !.pc = "check"]
    /\ UNCHANGED <<clock, world, failed, stored, look>>

CheckToday ==
    /\ task.pc = "check"
    /\ IF early \/ Today
       THEN task' = UntilEight /\ UNCHANGED look
       ELSE /\ task' = [task EXCEPT !.pc = "lookup"]
            /\ look' = [look EXCEPT ![Prefetch] = Begun(Home, now)]
    /\ UNCHANGED <<clock, world, failed, stored>>

AfterAny == UntilEight   \* mutant: any rate will do
\* An older rate that was returned but not stored does not do.
After == IF Today THEN UntilEight ELSE [task EXCEPT !.pc = "retry"]

LookupDone ==
    /\ task.pc = "lookup" /\ look[Prefetch].pc = "idle"
    /\ task' = After
    /\ UNCHANGED <<clock, world, failed, stored, look>>

--------------------------------------------------------------------------
(* Time and the banks *)

Tick ==
    /\ task.pc \in {"sleep", "retry"}
    /\ IF early THEN early' = FALSE /\ UNCHANGED now
                ELSE now < LastDay /\ now' = now + 1 /\ early' = TRUE
    /\ UNCHANGED <<world, failed, stored, look, task>>

\* NBS publishes around eight, or later, or days later.
Publish(d) ==
    /\ d \in Working \ published /\ d <= now
    /\ published' = published \cup {d}
    /\ UNCHANGED <<clock, outages, failed, stored, look, task>>

--------------------------------------------------------------------------

Init ==
    /\ now = 1 /\ early = TRUE
    /\ published = {} /\ outages = 0
    /\ failed = {}
    /\ stored = [k \in Keys |-> [d \in Days |-> NoQuote]]
    /\ look = [t \in All |-> Idle]
    /\ task = [pc |-> "check", until |-> 1]

TaskStep == WakeUp \/ CheckToday \/ LookupDone

Next ==
    \/ \E t \in Threads, p \in Pairs, d \in Days : Ask(t, p, d)
    \/ \E t \in All : LookStep(t)
    \/ CacheExpires \/ TaskStep \/ Tick
    \/ \E d \in Days : Publish(d)

Spec == Init /\ [][Next]_vars

\* The task and its lookups go on, time passes, and a cached answer expires.
Fairness ==
    /\ WF_vars(TaskStep) /\ WF_vars(LookStep(Prefetch))
    /\ WF_vars(Tick) /\ SF_vars(CacheExpires)

FairSpec == Spec /\ Fairness

--------------------------------------------------------------------------
(* Properties *)

\* resolve_from_nbs: a rate of NBS is stored only under its own day or the days
\* off that follow it; a stale one never masquerades as current, whichever way
\* the lookback got to it and whoever stored what it found.
NothingMasquerades ==
    \A c \in Currencies, d \in Days :
        \A q \in stored[<<c>>][d] : q # NBP => q = LastWorking(d)

\* currencies.md: the converted amount is derived deterministically from the
\* rate of the day; a rate once stored is the one of every later conversion.
RateStays ==
    [][\A k \in Keys, d \in Days : stored[k][d] # NoQuote => stored'[k][d] = stored[k][d]]_vars

\* architecture.md: the task stores a rate every calendar day.  It keeps trying
\* as long as the bank answers and has published what the day stands for.
RateOfTheDay ==
    []<>(Today \/ LastWorking(now) \notin published)
=============================================================================
