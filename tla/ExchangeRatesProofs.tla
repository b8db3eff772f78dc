------------------------ MODULE ExchangeRatesProofs ------------------------
(***************************************************************************)
(* Theorems about ExchangeRates, for any calendar, any set of currencies,  *)
(* pairs and threads, and any number of failures.                          *)
(***************************************************************************)
EXTENDS ExchangeRates, TLAPS

Lookup == [pc: {"idle", "nbs", "nbp"}, pair: Pairs \cup {Home}, day: Days,
           legs: Seq(Currencies), back: 0..Lookback, seen: BOOLEAN, quote: Quote]

\* q is the day off's last working day, or d itself.
StandsFor(q, d) ==
    q \in Working /\ q <= d /\ \A w \in Working : w <= d => w <= q

TableSound ==
    \A c \in Currencies, d \in Days :
        \A q \in stored[<<c>>][d] : q # NBP => StandsFor(q, d)

\* What a lookup may store an alias for: on its way back from a day off it has
\* passed days off only, unless it saw a working day without a rate.
WayBack(l) ==
    l.pc = "nbs" /\ ~l.seen /\ l.day \notin Working
        => \A w \in Working : w <= l.day => w <= l.day - l.back

LooksSound == \A t \in All : WayBack(look[t])

IInv == TypeOK /\ TableSound /\ LooksSound

--------------------------------------------------------------------------
(* The table *)

LEMMA KeyTypes ==
    /\ Pairs \cup {Home} \subseteq Keys
    /\ \A c \in Currencies : <<c>> \in Keys
    /\ \A p \in Pairs \cup {Home} : p \in Seq(Currencies) /\ p # <<>>
    /\ Home \in Pairs \cup {Home} /\ 1 \in Days /\ Working \subseteq Days
    /\ Lookback \in Nat \ {0} /\ LastDay \in Nat
<1>1. \A c \in Currencies : <<c>> \in Seq(Currencies) /\ <<c>> # <<>>
  OBVIOUS
<1>2. \A p \in Currencies \X Currencies : p \in Seq(Currencies) /\ p # <<>>
  <2>1. \A c, d \in Currencies : <<c, d>> \in Seq(Currencies) /\ <<c, d>> # <<>>
    OBVIOUS
  <2>2. TAKE p \in Currencies \X Currencies
  <2>3. p = <<p[1], p[2]>> /\ p[1] \in Currencies /\ p[2] \in Currencies
    OBVIOUS
  <2> QED
    BY <2>1, <2>3, Zenon
<1> QED
  BY <1>1, <1>2, PairsAssumption, DaysAssumption DEF Keys, Days

\* The entries of a table may be filled, never changed.
Extends(new, old) ==
    /\ new \in [Keys -> [Days -> Quote]]
    /\ \A k \in Keys, d \in Days : old[k][d] # NoQuote => new[k][d] = old[k][d]

Sound(table) ==
    \A c \in Currencies, d \in Days : \A q \in table[<<c>>][d] : q # NBP => StandsFor(q, d)

\* save_db_rate writes an empty entry only, and only the one it is asked for.
LEMMA SaveExtends ==
    ASSUME NEW table \in [Keys -> [Days -> Quote]], NEW k \in Keys, NEW d \in Days,
           NEW q \in Quote
    PROVE  Extends(Save(table, k, d, q), table)
<1>1. CASE table[k][d] = NoQuote
  <2>1. Save(table, k, d, q) = [table EXCEPT ![k][d] = q]
    BY <1>1 DEF Save
  <2> QED
    BY <1>1, <2>1 DEF Extends
<1>2. CASE table[k][d] # NoQuote
  BY <1>2 DEF Save, Extends
<1> QED
  BY <1>1, <1>2

LEMMA SaveSound ==
    ASSUME NEW table \in [Keys -> [Days -> Quote]], NEW k \in Keys, NEW d \in Days,
           NEW q \in Quote, Sound(table),
           (\E c \in Currencies : k = <<c>>) => \A x \in q : x # NBP => StandsFor(x, d)
    PROVE  Sound(Save(table, k, d, q))
<1>1. CASE table[k][d] # NoQuote
  BY <1>1 DEF Save
<1>2. CASE table[k][d] = NoQuote
  <2> DEFINE new == [table EXCEPT ![k][d] = q]
  <2>1. Save(table, k, d, q) = new
    BY <1>2 DEF Save
  <2>2. SUFFICES ASSUME NEW c \in Currencies, NEW e \in Days, NEW x \in new[<<c>>][e],
                        x # NBP
                 PROVE  StandsFor(x, e)
    BY <2>1 DEF Sound
  <2>3. <<c>> \in Keys
    BY KeyTypes
  <2>4. CASE <<c>> = k /\ e = d
    BY <2>2, <2>4
  <2>5. CASE ~(<<c>> = k /\ e = d)
    BY <2>2, <2>3, <2>5 DEF Sound
  <2> QED
    BY <2>4, <2>5
<1> QED
  BY <1>1, <1>2

--------------------------------------------------------------------------
(* One leg of a lookup *)

\* A lookup in the middle of a leg works on a row of the table that exists.
LEMMA Underway ==
    ASSUME IInv, NEW t \in All, look[t].pc = "nbs"
    PROVE  /\ look[t] \in Lookup /\ look[t].legs # <<>>
           /\ Head(look[t].legs) \in Currencies /\ Tail(look[t].legs) \in Seq(Currencies)
           /\ Key(t) \in Keys /\ \E c \in Currencies : Key(t) = <<c>>
<1>1. look[t] \in Lookup /\ look[t].legs # <<>>
  BY DEF IInv, TypeOK, Lookup
<1>2. look[t].legs \in Seq(Currencies)
  BY <1>1 DEF Lookup
<1>3. Head(look[t].legs) \in Currencies /\ Tail(look[t].legs) \in Seq(Currencies)
  BY <1>1, <1>2
<1> QED
  BY <1>1, <1>3, KeyTypes DEF Key

LEMMA AliasSound ==
    ASSUME IInv, NEW t \in All, look[t].pc = "nbs", Checked(t) \in Days,
           NEW table, table \in [Keys -> [Days -> Quote]], Sound(table),
           NEW q \in Quote, \A x \in q : x # NBP => StandsFor(x, Checked(t))
    PROVE  /\ Extends(SaveAlias(table, t, Key(t), q), table)
           /\ Sound(SaveAlias(table, t, Key(t), q))
<1>1. look[t] \in Lookup /\ Key(t) \in Keys /\ look[t].day \in Days /\ look[t].back \in Nat
  BY Underway, KeyTypes DEF Lookup
<1>2. CASE ~Alias(t, look[t].day)
  BY <1>2 DEF SaveAlias, Extends
<1>3. CASE Alias(t, look[t].day)
  <2>1. \A w \in Working : w <= look[t].day => w <= Checked(t)
    BY <1>3 DEF IInv, LooksSound, WayBack, Alias, Checked
  <2>2. \A x \in q : x # NBP => StandsFor(x, look[t].day)
    <3>1. SUFFICES ASSUME NEW x \in q, x # NBP PROVE StandsFor(x, look[t].day)
      OBVIOUS
    <3>2. StandsFor(x, Checked(t))
      BY <3>1
    <3>3. Checked(t) = look[t].day - look[t].back
      BY DEF Checked
    <3>4. Working \subseteq Int /\ look[t].day \in Int
      BY <1>1, KeyTypes DEF Days
    <3> QED
      BY <1>1, <2>1, <3>2, <3>3, <3>4 DEF StandsFor
  <2>3. SaveAlias(table, t, Key(t), q) = Save(table, Key(t), look[t].day, q)
    BY <1>3 DEF SaveAlias
  <2> QED
    BY <1>1, <2>2, <2>3, SaveExtends, SaveSound
<1> QED
  BY <1>2, <1>3


--------------------------------------------------------------------------
(* The steps of a lookup *)

\* Whatever moves one lookup on: its new row is sound, and the table only grew.
LEMMA OneLookup ==
    ASSUME IInv, NEW t \in All, NEW l \in Lookup,
           look' = [look EXCEPT ![t] = l], l.pc = "nbs" => l.legs # <<>>, WayBack(l),
           t = Prefetch => task.pc = "lookup",
           Extends(stored', stored), Sound(stored'),
           outages' \in 0..MaxOutages, failed' \subseteq Currencies \X Days,
           UNCHANGED <<clock, published, task>>
    PROVE  IInv'
<1>1. look \in [All -> Lookup] /\ look' \in [All -> Lookup] /\ look'[t] = l
  BY DEF IInv, TypeOK, Lookup
<1>2. \A u \in All \ {t} : look'[u] = look[u]
  BY <1>1
<1>3. \A u \in All : look'[u].pc = "nbs" => look'[u].legs # <<>>
  BY <1>1, <1>2 DEF IInv, TypeOK
<1>4. look'[Prefetch].pc # "idle" => task.pc = "lookup"
  BY <1>2 DEF IInv, TypeOK, All
<1>5. TypeOK'
  BY <1>1, <1>3, <1>4 DEF IInv, TypeOK, Lookup, Extends, clock
<1>6. LooksSound'
  BY <1>1, <1>2 DEF IInv, LooksSound, WayBack
<1> QED
  BY <1>5, <1>6 DEF IInv, TableSound, Sound

LEMMA IdleRow == Idle \in Lookup /\ WayBack(Idle) /\ Idle.pc # "nbs"
<1>1. <<>> \in Seq(Currencies) /\ 0 \in 0..Lookback
  BY KeyTypes
<1> QED
  BY <1>1, KeyTypes DEF Idle, Lookup, WayBack, Quote

LEMMA BegunRow ==
    ASSUME NEW p \in Pairs \cup {Home}, NEW d \in Days
    PROVE  /\ Begun(p, d) \in Lookup /\ Begun(p, d).legs # <<>>
           /\ WayBack(Begun(p, d))
<1>1. p \in Seq(Currencies) /\ p # <<>> /\ 0 \in 0..Lookback /\ d \in Int
  BY KeyTypes DEF Days
<1>2. Idle \in Lookup /\ Idle.back = 0
  BY IdleRow DEF Idle
<1>3. Begun(p, d) \in Lookup
  BY <1>1, <1>2 DEF Begun, Lookup
<1>4. /\ Begun(p, d).legs = p /\ Begun(p, d).day = d
      /\ Begun(p, d).back = 0
  BY <1>2 DEF Begun, Lookup
<1> QED
  BY <1>1, <1>3, <1>4, KeyTypes DEF WayBack, Days

LEMMA Same == ASSUME IInv PROVE Extends(stored, stored) /\ Sound(stored)
BY DEF IInv, TypeOK, TableSound, Sound, Extends

LEMMA ExtendsTwice ==
    ASSUME NEW a \in [Keys -> [Days -> Quote]], NEW b, NEW c,
           Extends(b, a), Extends(c, b)
    PROVE  Extends(c, a)
BY DEF Extends

LEMMA FoundLegStep ==
    ASSUME IInv, NEW t \in All, look[t].pc = "nbs",
           NEW table, Extends(table, stored), Sound(table), NEW q \in Quote,
           FoundLeg(t, table, q), UNCHANGED <<clock, world, failed, task>>
    PROVE  IInv' /\ Extends(stored', stored)
<1> DEFINE l == look[t]
           sum == l.quote \cup q
<1>1. l \in Lookup /\ Tail(l.legs) \in Seq(Currencies) /\ l.legs \in Seq(Currencies)
  BY Underway DEF Lookup
<1>2. sum \in Quote /\ stored \in [Keys -> [Days -> Quote]]
  BY <1>1 DEF Lookup, Quote, IInv, TypeOK
<1>3. t = Prefetch => task.pc = "lookup"
  BY DEF IInv, TypeOK
<1>4. outages' \in 0..MaxOutages /\ failed' \subseteq Currencies \X Days
      /\ UNCHANGED <<clock, published, task>>
  BY DEF IInv, TypeOK, world
<1>5. CASE MoreLegs(t)
  <2> DEFINE m == [l EXCEPT !.legs = Tail(@), !.back = 0, !.seen = FALSE, !.quote = sum]
  <2>1. look' = [look EXCEPT ![t] = m] /\ stored' = table
    BY <1>5 DEF FoundLeg
  <2>2. m \in Lookup /\ m.legs = Tail(l.legs) /\ m.back = 0 /\ m.day \in Days
    <3>1. 0 \in 0..Lookback
      BY KeyTypes
    <3>2. m \in Lookup
      BY <1>1, <1>2, <3>1 DEF Lookup
    <3> QED
      BY <1>1, <3>2 DEF Lookup
  <2>3. m.legs # <<>>
    BY <1>1, <1>5, <2>2 DEF MoreLegs
  <2>4. WayBack(m)
    BY <2>2 DEF WayBack, Days
  <2> QED
    BY <1>3, <1>4, <2>1, <2>2, <2>3, <2>4, OneLookup
<1>6. CASE ~MoreLegs(t)
  <2>1. look' = [look EXCEPT ![t] = Idle]
    BY <1>6 DEF FoundLeg
  <2>2. Extends(stored', stored) /\ Sound(stored')
    <3>1. CASE Len(l.pair) = 1
      BY <1>6, <3>1 DEF FoundLeg
    <3>2. CASE Len(l.pair) # 1
      <4>1. stored' = Save(table, l.pair, l.day, sum)
        BY <1>6, <3>2 DEF FoundLeg
      <4>2. l.pair \in Keys /\ l.day \in Days /\ table \in [Keys -> [Days -> Quote]]
        BY <1>1, KeyTypes DEF Lookup, Extends
      <4>3. \A c \in Currencies : l.pair # <<c>>
        BY <3>2
      <4> QED
        BY <1>2, <4>1, <4>2, <4>3, SaveExtends, SaveSound, ExtendsTwice
    <3> QED
      BY <3>1, <3>2
  <2> QED
    BY <1>3, <1>4, <2>1, <2>2, IdleRow, OneLookup
<1> QED
  BY <1>5, <1>6

LEMMA TableHitStep ==
    ASSUME IInv, NEW t \in All, TableHit(t)
    PROVE  IInv' /\ Extends(stored', stored)
<1> DEFINE q == stored[Key(t)][Checked(t)]
           table == IF look[t].back = 0 THEN stored ELSE SaveAlias(stored, t, Key(t), q)
<1>1. look[t].pc = "nbs" /\ Checked(t) \in Days
  BY DEF TableHit
<1>2. stored \in [Keys -> [Days -> Quote]] /\ Key(t) \in Keys
      /\ \E c \in Currencies : Key(t) = <<c>>
  BY <1>1, Underway DEF IInv, TypeOK
<1>3. q \in Quote /\ \A x \in q : x # NBP => StandsFor(x, Checked(t))
  BY <1>1, <1>2 DEF IInv, TableSound
<1>4. Extends(table, stored) /\ Sound(table)
  BY <1>1, <1>2, <1>3, Same, AliasSound
<1>5. FoundLeg(t, table, q) /\ UNCHANGED <<clock, world, failed, task>>
  BY DEF TableHit
<1> QED
  BY <1>1, <1>3, <1>4, <1>5, FoundLegStep

LEMMA FetchStep ==
    ASSUME IInv, NEW t \in All, Fetch(t)
    PROVE  IInv' /\ Extends(stored', stored)
<1> DEFINE q == {Checked(t)}
           once == Save(stored, Key(t), Checked(t), q)
           table == SaveAlias(once, t, Key(t), q)
<1>1. look[t].pc = "nbs" /\ Checked(t) \in Days /\ Checked(t) \in Working
  BY DEF Fetch, Miss
<1>2. stored \in [Keys -> [Days -> Quote]] /\ Key(t) \in Keys
  BY <1>1, Underway DEF IInv, TypeOK
<1>3. q \in Quote /\ \A x \in q : x # NBP => StandsFor(x, Checked(t))
  BY <1>1 DEF Quote, StandsFor, Days
<1>4. Extends(once, stored) /\ Sound(once)
  BY <1>1, <1>2, <1>3, Same, SaveExtends, SaveSound
<1>5. once \in [Keys -> [Days -> Quote]]
  BY <1>4 DEF Extends
<1>6. Extends(table, once) /\ Sound(table)
  BY <1>1, <1>3, <1>4, <1>5, AliasSound
<1>7. Extends(table, stored)
  BY <1>2, <1>4, <1>6, ExtendsTwice
<1>8. FoundLeg(t, table, q) /\ UNCHANGED <<clock, world, failed, task>>
  BY DEF Fetch
<1> QED
  BY <1>1, <1>3, <1>6, <1>7, <1>8, FoundLegStep

LEMMA OtherLookSteps ==
    ASSUME IInv, NEW t \in All, DayOff(t) \/ FetchFails(t) \/ LookbackEnds(t) \/ AskNbp(t)
    PROVE  IInv' /\ Extends(stored', stored)
<1> DEFINE l == look[t]
<1>1. l.pc \in {"nbs", "nbp"}
  BY DEF DayOff, FetchFails, Miss, LookbackEnds, AskNbp
<1>2. l \in Lookup /\ (t = Prefetch => task.pc = "lookup")
  BY <1>1 DEF IInv, TypeOK, Lookup
<1>3. outages \in 0..MaxOutages /\ failed \subseteq Currencies \X Days
      /\ MaxOutages \in Nat /\ stored \in [Keys -> [Days -> Quote]]
  BY DaysAssumption DEF IInv, TypeOK
<1>4. CASE DayOff(t)
  <2> DEFINE m == [l EXCEPT !.back = @ + 1]
  <2>1. l.pc = "nbs" /\ l.back < Lookback /\ Checked(t) \notin Working
    BY <1>4 DEF DayOff, Miss
  <2>2. m \in Lookup /\ m.legs = l.legs /\ m.back = l.back + 1 /\ m.day = l.day
        /\ m.seen = l.seen
    <3>1. l.back + 1 \in 0..Lookback
      BY <1>2, <2>1, KeyTypes DEF Lookup
    <3>2. m \in Lookup
      BY <1>2, <3>1 DEF Lookup
    <3> QED
      BY <1>2, <3>2 DEF Lookup
  <2>3. WayBack(m)
    <3>1. SUFFICES ASSUME ~l.seen, l.day \notin Working, NEW w \in Working, w <= l.day
                   PROVE  w <= l.day - (l.back + 1)
      BY <2>2, <3>1 DEF WayBack
    <3>2. w <= l.day - l.back /\ w # l.day - l.back
      BY <2>1, <3>1 DEF IInv, LooksSound, WayBack, Checked
    <3>3. w \in Int /\ l.day \in Int /\ l.back \in Int
      BY <2>1, Underway, KeyTypes DEF Lookup, Days
    <3> QED
      BY <3>2, <3>3
  <2>4. m.legs # <<>>
    BY <2>1, <2>2, Underway
  <2>5. look' = [look EXCEPT ![t] = m] /\ UNCHANGED <<clock, world, failed, stored, task>>
    BY <1>4 DEF DayOff
  <2>6. UNCHANGED <<clock, published, task>> /\ outages' \in 0..MaxOutages
        /\ failed' \subseteq Currencies \X Days
    BY <1>3, <2>5 DEF world
  <2>7. Extends(stored', stored) /\ Sound(stored')
    BY <2>5, Same
  <2> QED
    BY <1>2, <2>1, <2>2, <2>3, <2>4, <2>5, <2>6, <2>7, OneLookup
<1>5. CASE FetchFails(t)
  <2> DEFINE m == [l EXCEPT !.back = @ + 1, !.seen = TRUE]
  <2>1. l.pc = "nbs" /\ l.back < Lookback /\ Checked(t) \in Days
    BY <1>5 DEF FetchFails, Miss
  <2>2. m \in Lookup /\ m.legs = l.legs /\ m.seen
    <3>1. l.back + 1 \in 0..Lookback
      BY <1>2, <2>1, KeyTypes DEF Lookup
    <3>2. m \in Lookup
      BY <1>2, <3>1 DEF Lookup
    <3> QED
      BY <1>2, <3>2 DEF Lookup
  <2>3. WayBack(m) /\ m.legs # <<>>
    BY <2>1, <2>2, Underway DEF WayBack
  <2>4. look' = [look EXCEPT ![t] = m] /\ UNCHANGED <<clock, published, stored, task>>
    BY <1>5 DEF FetchFails
  <2>5. outages' \in 0..MaxOutages
    BY <1>3, <1>5 DEF FetchFails
  <2>6. failed' \subseteq Currencies \X Days
    BY <1>3, <1>5, <2>1, Underway DEF FetchFails
  <2>7. Extends(stored', stored) /\ Sound(stored')
    BY <2>4, Same
  <2> QED
    BY <1>2, <2>1, <2>2, <2>3, <2>4, <2>5, <2>6, <2>7, OneLookup
<1>6. CASE LookbackEnds(t)
  <2> DEFINE m == [l EXCEPT !.pc = "nbp"]
  <2>1. l.pc = "nbs"
    BY <1>6 DEF LookbackEnds
  <2>2. m \in Lookup /\ m.pc = "nbp" /\ WayBack(m)
    BY <2>1, Underway DEF Lookup, WayBack
  <2>3. look' = [look EXCEPT ![t] = m] /\ UNCHANGED <<clock, published, outages, failed, stored, task>>
    BY <1>6 DEF LookbackEnds, world
  <2>4. Extends(stored', stored) /\ Sound(stored')
    BY <2>3, Same
  <2> QED
    BY <1>2, <1>3, <2>1, <2>2, <2>3, <2>4, OneLookup
<1>7. CASE AskNbp(t)
  <2>1. l.pc = "nbp" /\ l \in Lookup
    BY <1>7 DEF AskNbp, IInv, TypeOK, Lookup
  <2>2. look' = [look EXCEPT ![t] = Idle] /\ UNCHANGED <<clock, published, outages, failed, task>>
    BY <1>7 DEF AskNbp, world
  <2>3. l.pair \in Keys /\ l.day \in Days /\ {NBP} \in Quote
    BY <2>1, KeyTypes DEF Lookup, Quote
  <2>4. Extends(stored', stored) /\ Sound(stored')
    <3>1. CASE stored' = Save(stored, l.pair, l.day, {NBP})
      BY <1>3, <2>3, <3>1, Same, SaveExtends, SaveSound
    <3>2. CASE UNCHANGED stored
      BY <3>2, Same
    <3> QED
      BY <1>7, <3>1, <3>2 DEF AskNbp
  <2> QED
    BY <1>2, <1>3, <2>1, <2>2, <2>4, IdleRow, OneLookup
<1> QED
  BY <1>4, <1>5, <1>6, <1>7

--------------------------------------------------------------------------
(* The theorems *)

LEMMA AskStep ==
    ASSUME IInv, NEW t \in Threads, NEW p \in Pairs, NEW d \in Days, Ask(t, p, d)
    PROVE  IInv' /\ Extends(stored', stored)
<1>1. /\ look' = [look EXCEPT ![t] = Begun(p, d)]
      /\ UNCHANGED <<clock, published, outages, failed, stored, task>>
  BY DEF Ask, world
<1>2. t \in All /\ t # Prefetch /\ p \in Pairs \cup {Home}
  BY ThreadsAssumption DEF All
<1>3. outages \in 0..MaxOutages /\ failed \subseteq Currencies \X Days
  BY DEF IInv, TypeOK
<1>4. Extends(stored', stored) /\ Sound(stored')
  BY <1>1, Same
<1> QED
  BY <1>1, <1>2, <1>3, <1>4, BegunRow, OneLookup

LEMMA CheckTodayStep ==
    ASSUME IInv, CheckToday
    PROVE  IInv' /\ Extends(stored', stored)
<1>1. Extends(stored', stored) /\ Sound(stored')
  BY Same DEF CheckToday
<1>2. Prefetch \in All /\ look \in [All -> Lookup] /\ now \in Days /\ LastDay \in Nat
  BY DaysAssumption DEF All, IInv, TypeOK, Lookup
<1>3. CASE early \/ Today
  <2>1. task' = UntilEight /\ UNCHANGED <<clock, world, failed, stored, look>>
    BY <1>3 DEF CheckToday
  <2>2. look[Prefetch].pc = "idle"
    BY DEF CheckToday, IInv, TypeOK
  <2>3. UntilEight \in [pc: {"sleep", "retry", "check", "lookup"}, until: 1..(LastDay + 1)]
    BY <1>2 DEF UntilEight, Days
  <2> QED
    BY <1>1, <2>1, <2>2, <2>3
       DEF IInv, TypeOK, TableSound, LooksSound, WayBack, clock, world
<1>4. CASE ~(early \/ Today)
  <2> DEFINE l == Begun(Home, now)
  <2>1. /\ task' = [task EXCEPT !.pc = "lookup"] /\ look' = [look EXCEPT ![Prefetch] = l]
        /\ UNCHANGED <<clock, world, failed, stored>>
    BY <1>4 DEF CheckToday
  <2>2. l \in Lookup /\ l.legs # <<>> /\ WayBack(l)
    BY <1>2, BegunRow
  <2>3. task' \in [pc: {"sleep", "retry", "check", "lookup"}, until: 1..(LastDay + 1)]
        /\ task'.pc = "lookup"
    BY <2>1 DEF IInv, TypeOK
  <2>4. look' \in [All -> Lookup] /\ \A t \in All : look'[t].pc = "nbs" => look'[t].legs # <<>>
    BY <1>2, <2>1, <2>2 DEF IInv, TypeOK
  <2>5. TypeOK'
    BY <2>1, <2>3, <2>4 DEF IInv, TypeOK, Lookup, clock, world
  <2>6. LooksSound'
    BY <1>2, <2>1, <2>2 DEF IInv, LooksSound, WayBack
  <2> QED
    BY <1>1, <2>5, <2>6 DEF IInv, TableSound, Sound
<1> QED
  BY <1>1, <1>3, <1>4

\* Time, the banks and the task's other steps touch neither table nor lookups.
LEMMA QuietStep ==
    ASSUME IInv, \/ CacheExpires \/ WakeUp \/ LookupDone \/ Tick \/ UNCHANGED vars
                 \/ \E d \in Days : Publish(d)
    PROVE  IInv' /\ Extends(stored', stored)
<1>1. UNCHANGED <<stored, look>>
  BY DEF CacheExpires, WakeUp, LookupDone, Tick, vars, Publish
<1>2. Extends(stored', stored) /\ TableSound' /\ LooksSound'
  BY <1>1, Same DEF IInv, TableSound, LooksSound, WayBack
<1>3. TypeOK'
  <2>1. CASE CacheExpires
    BY <2>1 DEF CacheExpires, IInv, TypeOK, clock, world
  <2>2. CASE WakeUp
    BY <2>2 DEF WakeUp, IInv, TypeOK, clock, world
  <2>3. CASE LookupDone
    <3>1. task' \in [pc: {"sleep", "retry", "check", "lookup"}, until: 1..(LastDay + 1)]
      <4>1. now \in 1..(LastDay + 1) /\ now + 1 \in 1..(LastDay + 1)
        BY DaysAssumption DEF IInv, TypeOK, Days
      <4>2. task' = UntilEight \/ task' = [task EXCEPT !.pc = "retry"]
        BY <2>3 DEF LookupDone, After
      <4> QED
        BY <4>1, <4>2 DEF UntilEight, IInv, TypeOK
    <3> QED
      BY <2>3, <3>1 DEF LookupDone, IInv, TypeOK, clock, world
  <2>4. CASE Tick
    <3>1. now' \in Days /\ early' \in BOOLEAN /\ now <= now' /\ Working \subseteq Int
          /\ now \in Int /\ now' \in Int
      <4>1. now \in Days /\ early \in BOOLEAN /\ Days \subseteq Int /\ Working \subseteq Int
        BY DaysAssumption DEF IInv, TypeOK, Days
      <4>2. CASE early
        <5>1. early' = FALSE /\ now' = now
          BY <2>4, <4>2 DEF Tick
        <5>2. now' \in Days /\ now <= now' /\ now \in Int /\ now' \in Int
          BY <4>1, <5>1
        <5>3. early' \in BOOLEAN
          BY <5>1, Zenon
        <5> QED
          BY <4>1, <5>2, <5>3, Zenon
      <4>3. CASE ~early
        <5>1. now < LastDay /\ now' = now + 1 /\ early'
          BY <2>4, <4>3 DEF Tick
        <5> QED
          BY <4>1, <5>1, DaysAssumption DEF Days
      <4> QED
        BY <4>2, <4>3
    <3>2. UNCHANGED <<published, outages, failed, stored, look, task>>
      BY <2>4 DEF Tick, world
    <3>3. \A d \in published : d <= now'
      BY <3>1 DEF IInv, TypeOK
    <3> QED
      BY <3>1, <3>2, <3>3 DEF IInv, TypeOK
  <2>5. CASE \E d \in Days : Publish(d)
    BY <2>5 DEF Publish, IInv, TypeOK, clock
  <2>6. CASE UNCHANGED vars
    BY <2>6 DEF vars, IInv, TypeOK, clock, world
  <2> QED
    BY <2>1, <2>2, <2>3, <2>4, <2>5, <2>6
<1> QED
  BY <1>2, <1>3 DEF IInv

LEMMA NextIInv == IInv /\ [Next]_vars => IInv' /\ Extends(stored', stored)
<1>1. SUFFICES ASSUME IInv, [Next]_vars PROVE IInv' /\ Extends(stored', stored)
  OBVIOUS
<1>2. CASE \E t \in Threads, p \in Pairs, d \in Days : Ask(t, p, d)
  BY <1>1, <1>2, AskStep
<1>3. CASE \E t \in All : LookStep(t)
  BY <1>1, <1>3, TableHitStep, FetchStep, OtherLookSteps DEF LookStep
<1>4. CASE CheckToday
  BY <1>1, <1>4, CheckTodayStep
<1>5. CASE \/ CacheExpires \/ WakeUp \/ LookupDone \/ Tick \/ UNCHANGED vars
           \/ \E d \in Days : Publish(d)
  BY <1>1, <1>5, QuietStep
<1> QED
  BY <1>1, <1>2, <1>3, <1>4, <1>5 DEF Next, TaskStep

LEMMA InitIInv == Init => IInv
<1>1. SUFFICES ASSUME Init PROVE IInv
  OBVIOUS
<1>2. TypeOK
  <2>1. stored \in [Keys -> [Days -> Quote]]
    BY <1>1 DEF Init, Quote, NoQuote
  <2>2. look \in [All -> Lookup] /\ \A t \in All : look[t].pc = "idle"
    BY <1>1, IdleRow DEF Init, Idle
  <2>3. /\ now \in Days /\ early \in BOOLEAN /\ outages \in 0..MaxOutages
        /\ published = {} /\ failed = {}
        /\ task \in [pc: {"sleep", "retry", "check", "lookup"}, until: 1..(LastDay + 1)]
    BY <1>1, DaysAssumption DEF Init, Days
  <2>4. Prefetch \in All
    BY DEF All
  <2> QED
    BY <2>1, <2>2, <2>3, <2>4 DEF TypeOK, Lookup
<1>3. TableSound
  BY <1>1, KeyTypes DEF Init, TableSound, NoQuote
<1>4. LooksSound
  BY <1>1, IdleRow DEF Init, LooksSound
<1> QED
  BY <1>2, <1>3, <1>4 DEF IInv

\* There is one day only that stands for another.
LEMMA StandsForIsLast ==
    ASSUME NEW d \in Days, NEW q, StandsFor(q, d)
    PROVE  q = LastWorking(d)
<1>1. \E x \in Working : x <= d /\ \A w \in Working : w <= d => w <= x
  BY DEF StandsFor
<1>2. StandsFor(LastWorking(d), d)
  BY <1>1 DEF LastWorking, StandsFor
<1>3. Working \subseteq Int
  BY KeyTypes DEF Days
<1> DEFINE l == LastWorking(d)
<1>4. q \in Int /\ l \in Int
  BY <1>2, <1>3 DEF StandsFor
<1>5. q <= l /\ l <= q
  BY <1>2 DEF StandsFor
<1> HIDE DEF l
<1>6. q = l
  BY <1>4, <1>5
<1> QED
  BY <1>6 DEF l

\* The tables, lookups and the task stay well formed: a lookup always knows a leg.
THEOREM TypeCorrect == Spec => []TypeOK
<1>1. IInv => TypeOK
  BY DEF IInv
<1> QED
  BY <1>1, InitIInv, NextIInv, PTL DEF Spec

\* Whatever the calendar, the late publications, the failures and the lookups under way,
\* a rate of NBS is stored under its own day and the days off after it only.
THEOREM NoMasquerade == Spec => []NothingMasquerades
<1>1. IInv => NothingMasquerades
  BY StandsForIsLast DEF IInv, TableSound, NothingMasquerades
<1> QED
  BY <1>1, InitIInv, NextIInv, PTL DEF Spec

\* No lookup changes a rate that another one stored.
THEOREM RatesStay == Spec => RateStays
<1>1. IInv /\ [Next]_vars
        => [\A k \in Keys, d \in Days : stored[k][d] # NoQuote => stored'[k][d] = stored[k][d]]_vars
  BY NextIInv DEF Extends
<1> QED
  BY <1>1, InitIInv, NextIInv, PTL DEF Spec, RateStays
=============================================================================
