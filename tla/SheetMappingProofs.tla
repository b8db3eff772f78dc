------------------------- MODULE SheetMappingProofs -------------------------
(***************************************************************************)
(* Theorems about SheetMapping, for any catalog, any contents of the map   *)
(* tab and any number of edits, changes, failures and restarts.            *)
(***************************************************************************)
EXTENDS SheetMapping, FiniteSetTheorems, TLAPS

\* The reloads are records; whatever rows they hold, the swap checks them.
Pcs == {"idle", "compare", "reload", "read", "parse", "swap", "after", "sweep"}
Held(R) == [pc: Pcs, time: Times \cup {NoTime}, raw: Tabs \cup {NoTab}, rows: R]
Shaped(r) == \E R : r \in [Reloaders -> Held(R)]

Typed ==
    /\ modified \in Times /\ cache \in Times \cup {NoTime}
    /\ boot \in {"waits", "runs", "late"}
    /\ name \in [Ids -> Names \cup {Gone}]
    /\ tab \in Tabs \cup {NoTab}
    /\ Shaped(reload)

\* Until boot loses patience only one of the two reloads is under way.
Alone ==
    /\ boot = "waits" => reload["drain"].pc = "idle"
    /\ boot = "runs" => reload["preload"].pc = "idle"

\* A tab read and not yet swapped in is the current one while Drive's time is
\* still that of the beginning of the reload, or the cached one.
RawCurrent ==
    \A p \in Reloaders :
        /\ reload[p].pc \in {"parse", "swap"} /\ reload[p].time = modified => reload[p].raw = tab
        /\ boot # "late" /\ reload[p].pc \in {"parse", "swap"} /\ cache = modified
              => reload[p].raw = tab

\* So are the tables between the swap and the second question for the time.
SwapCurrent ==
    boot # "late" => \A p \in Reloaders :
        reload[p].pc = "after" /\ reload[p].time = modified => source = tab

IInv ==
    /\ Typed /\ Alone /\ RawCurrent /\ SwapCurrent
    /\ CacheVouches /\ MappingRefersToCatalog

-----------------------------------------------------------------------------
(* A new modifiedTime is one that nobody remembers *)

LEMMA OneMore ==
    ASSUME NEW S, NEW x, NEW k \in Nat, IsFiniteSet(S), Cardinality(S) <= k
    PROVE  IsFiniteSet(S \cup {x}) /\ Cardinality(S \cup {x}) <= k + 1
<1>1. Cardinality(S) \in Nat
  BY FS_CardinalityType
<1>2. /\ IsFiniteSet(S \cup {x})
      /\ Cardinality(S \cup {x}) = IF x \in S THEN Cardinality(S) ELSE Cardinality(S) + 1
  BY FS_AddElement
<1> QED
  BY <1>1, <1>2

LEMMA SomeTimeIsNew ==
    ASSUME NEW a, NEW b, NEW c, NEW d
    PROVE  \E t \in Times : t \notin {a, b, c, d}
<1>1. SUFFICES ASSUME Times \subseteq {a, b, c, d} PROVE FALSE
  OBVIOUS
<1>2. IsFiniteSet({a}) /\ Cardinality({a}) <= 1
  <2>1. IsFiniteSet({a}) /\ Cardinality({a}) = 1
    BY FS_Singleton
  <2> QED
    BY <2>1
<1>3. IsFiniteSet({a} \cup {b}) /\ Cardinality({a} \cup {b}) <= 1 + 1
  BY <1>2, OneMore
<1>4. /\ IsFiniteSet(({a} \cup {b}) \cup {c})
      /\ Cardinality(({a} \cup {b}) \cup {c}) <= 2 + 1
  <2>1. 1 + 1 = 2
    OBVIOUS
  <2> QED
    BY <1>3, <2>1, OneMore
<1>5. /\ IsFiniteSet((({a} \cup {b}) \cup {c}) \cup {d})
      /\ Cardinality((({a} \cup {b}) \cup {c}) \cup {d}) <= 3 + 1
  <2>1. 2 + 1 = 3
    OBVIOUS
  <2> QED
    BY <1>4, <2>1, OneMore
<1>6. {a, b, c, d} = (({a} \cup {b}) \cup {c}) \cup {d}
  OBVIOUS
<1>7. Cardinality(Times) \in Nat /\ Cardinality(Times) <= 4
  <2>1. IsFiniteSet({a, b, c, d}) /\ Cardinality({a, b, c, d}) <= 4
    <3>1. 3 + 1 = 4
      OBVIOUS
    <3> QED
      BY <1>5, <1>6, <3>1
  <2>2. IsFiniteSet(Times) /\ Cardinality(Times) <= Cardinality({a, b, c, d})
    BY <1>1, <2>1, FS_Subset
  <2>3. Cardinality(Times) \in Nat /\ Cardinality({a, b, c, d}) \in Nat
    BY <2>1, <2>2, FS_CardinalityType
  <2> QED
    BY <2>1, <2>2, <2>3
<1> QED
  BY <1>7, TimesAssumption

LEMMA TouchedIsNew ==
    ASSUME Touched
    PROVE  /\ modified' \in Times /\ modified' # cache
           /\ \A p \in Reloaders : modified' # reload[p].time
<1>1. Remembered = {modified, cache, reload["preload"].time, reload["drain"].time}
  BY DEF Remembered, Reloaders
<1>2. \E t \in Times : t \notin Remembered
  BY <1>1, SomeTimeIsNew
<1>3. modified' \in Times /\ modified' \notin Remembered
  BY <1>2 DEF Touched
<1> QED
  BY <1>3 DEF Remembered

LEMMA IsShaped == IInv => Shaped(reload)
BY DEF IInv, Typed

\* The tables and the names change only together with what they refer to.
LEMMA StillRefers ==
    ASSUME Typed, MappingRefersToCatalog, UNCHANGED <<mapping, name>>
    PROVE  MappingRefersToCatalog'
BY DEF MappingRefersToCatalog, RefsExist, Refers

-----------------------------------------------------------------------------
(* The operator, the catalog and the sweep *)

\* The spreadsheet is touched, and a reloader at most goes idle.
LEMMA Touches ==
    ASSUME IInv, Touched, UNCHANGED <<name, tables, cache, boot>>,
           tab' \in Tabs \cup {NoTab},
           \/ reload' = reload
           \/ reload' = [reload EXCEPT !["drain"].pc = "idle"]
    PROVE  IInv'
<1>1. /\ modified' \in Times /\ modified' # cache
      /\ \A p \in Reloaders : modified' # reload[p].time
  BY TouchedIsNew
<1>2. /\ Shaped(reload')
      /\ \A p \in Reloaders : /\ reload'[p].time = reload[p].time
                              /\ reload'[p].raw = reload[p].raw
                              /\ reload'[p].pc \in {reload[p].pc, "idle"}
  <2>1. PICK R : reload \in [Reloaders -> Held(R)]
    BY IsShaped DEF Shaped
  <2>2. CASE reload' = [reload EXCEPT !["drain"].pc = "idle"]
    <3>1. reload' \in [Reloaders -> Held(R)]
      BY <2>1, <2>2 DEF Held, Pcs, Reloaders
    <3> QED
      BY <2>1, <2>2, <3>1 DEF Shaped, Held, Reloaders
  <2>3. CASE reload' = reload
    BY <2>1, <2>3 DEF Shaped
  <2> QED
    BY <2>2, <2>3
<1>3. UNCHANGED <<name, mapping, source, cache, boot>>
  BY DEF tables
<1>4. Typed' /\ Alone'
  BY <1>1, <1>2, <1>3 DEF IInv, Typed, Alone, Reloaders
<1>5. RawCurrent' /\ SwapCurrent' /\ CacheVouches'
  BY <1>1, <1>2, <1>3 DEF RawCurrent, SwapCurrent, CacheVouches
<1> QED
  BY <1>3, <1>4, <1>5, StillRefers DEF IInv

LEMMA NamesChange ==
    ASSUME IInv, NEW i \in Ids, (\E n \in Names : Rename(i, n)) \/ Delete(i)
    PROVE  IInv'
<1>1. UNCHANGED <<tab, modified, mapping, source, cache, boot, reload>>
  BY DEF Rename, Delete, tables
<1>2. name' \in [Ids -> Names \cup {Gone}]
  BY DEF Rename, Delete, IInv, Typed
<1>3. MappingRefersToCatalog'
  <2>1. \A j \in Ids : Refers(mapping, j) => name[j] # Gone
    BY DEF IInv, MappingRefersToCatalog, RefsExist
  <2>2. \A j \in Ids : Refers(mapping, j) => name'[j] # Gone
    <3>1. CASE \E n \in Names : Rename(i, n)
      BY <2>1, <3>1, CatalogAssumption DEF Rename, IInv, Typed
    <3>2. CASE Delete(i)
      BY <2>1, <3>2 DEF Delete, IInv, Typed
    <3> QED
      BY <3>1, <3>2
  <2> QED
    BY <1>1, <2>2 DEF MappingRefersToCatalog, RefsExist, Refers
<1>4. Typed' /\ Alone'
  BY <1>1, <1>2 DEF IInv, Typed, Alone
<1>5. RawCurrent' /\ SwapCurrent' /\ CacheVouches'
  BY <1>1 DEF IInv, RawCurrent, SwapCurrent, CacheVouches
<1> QED
  BY <1>3, <1>4, <1>5 DEF IInv

-----------------------------------------------------------------------------
(* A reloader moves *)

\* It moves without touching the tables, the cache or the spreadsheet.
LEMMA Moves ==
    ASSUME IInv, NEW p \in Reloaders, UNCHANGED <<world, tables, cache>>,
           Shaped(reload'), \A q \in Reloaders : q # p => reload'[q] = reload[q],
           reload'[p].time \in Times \cup {NoTime},
           boot' \in {"waits", "runs", "late"}, boot' # "late" => boot # "late",
           boot' = "waits" => reload'["drain"].pc = "idle",
           boot' = "runs" => reload'["preload"].pc = "idle",
           reload'[p].pc \in {"parse", "swap"} =>
              \/ reload'[p].raw = tab
              \/ /\ reload[p].pc \in {"parse", "swap"}
                 /\ reload'[p].raw = reload[p].raw /\ reload'[p].time = reload[p].time,
           reload'[p].pc # "after"
    PROVE  IInv'
<1>1. UNCHANGED <<tab, modified, name, mapping, source, cache>>
  BY DEF world, tables
<1>2. Typed' /\ Alone'
  BY <1>1 DEF IInv, Typed, Alone
<1>3. RawCurrent'
  <2>1. SUFFICES ASSUME NEW q \in Reloaders, reload'[q].pc \in {"parse", "swap"},
                        \/ reload'[q].time = modified
                        \/ boot' # "late" /\ cache = modified
                 PROVE  reload'[q].raw = tab
    BY <1>1 DEF RawCurrent
  <2>2. CASE q = p
    BY <2>1, <2>2 DEF IInv, RawCurrent
  <2>3. CASE q # p
    <3>1. reload'[q] = reload[q]
      BY <2>3
    <3> QED
      BY <2>1, <3>1 DEF IInv, RawCurrent
  <2> QED
    BY <2>2, <2>3
<1>4. SwapCurrent' /\ CacheVouches'
  <2>1. SUFFICES ASSUME boot' # "late"
                 PROVE  /\ \A q \in Reloaders :
                              reload'[q].pc = "after" /\ reload'[q].time = modified => source = tab
                        /\ cache = modified => source = tab
    BY <1>1 DEF SwapCurrent, CacheVouches
  <2>2. ASSUME NEW q \in Reloaders, reload'[q].pc = "after" PROVE reload'[q] = reload[q]
    BY <2>2
  <2> QED
    BY <2>1, <2>2 DEF IInv, SwapCurrent, CacheVouches
<1> QED
  BY <1>1, <1>2, <1>3, <1>4, StillRefers DEF IInv

\* reload_now ends: boot or the drain goes on.
LEMMA OverIs ==
    ASSUME IInv, NEW p \in Reloaders, Over(p), reload[p].pc # "idle" \/ boot # "waits"
    PROVE  /\ Shaped(reload') /\ \A q \in Reloaders : q # p => reload'[q] = reload[q]
           /\ reload'[p].pc \in {"idle", "sweep"} /\ reload'[p].time \in Times \cup {NoTime}
           /\ boot' \in {"waits", "runs", "late"} /\ (boot' # "late" => boot # "late")
           /\ boot' = "waits" => reload'["drain"].pc = "idle"
           /\ boot' = "runs" => reload'["preload"].pc = "idle"
<1>1. /\ reload' = [reload EXCEPT ![p] = IF p = "drain" THEN [Idle EXCEPT !.pc = "sweep"]
                                        ELSE Idle]
      /\ boot' = IF p = "preload" /\ boot = "waits" THEN "runs" ELSE boot
  BY DEF Over
<1>2. /\ Shaped(reload') /\ \A q \in Reloaders : q # p => reload'[q] = reload[q]
      /\ reload'[p].pc = (IF p = "drain" THEN "sweep" ELSE "idle")
      /\ reload'[p].time = NoTime
  <2> DEFINE new == IF p = "drain" THEN [Idle EXCEPT !.pc = "sweep"] ELSE Idle
  <2>1. PICK R : reload \in [Reloaders -> Held(R)]
    BY IsShaped DEF Shaped
  <2>2. /\ new \in Held(R \cup {<<>>}) /\ new.time = NoTime
        /\ new.pc = (IF p = "drain" THEN "sweep" ELSE "idle")
    BY DEF Idle, Held, Pcs
  <2>3. reload' = [reload EXCEPT ![p] = new]
    BY <1>1
  <2> HIDE DEF new
  <2>4. reload' \in [Reloaders -> Held(R \cup {<<>>})]
    BY <2>1, <2>2, <2>3 DEF Held
  <2> QED
    BY <2>1, <2>2, <2>3, <2>4 DEF Shaped
<1>4. p = "preload" \/ p = "drain"
  BY DEF Reloaders
<1> QED
  BY <1>1, <1>2, <1>4 DEF IInv, Typed, Alone, Reloaders

LEMMA OverStep ==
    ASSUME IInv, NEW p \in Reloaders, Over(p), reload[p].pc # "idle" \/ boot # "waits",
           UNCHANGED <<world, tables, cache>>
    PROVE  IInv'
BY OverIs, Moves

LEMMA ReadStep ==
    ASSUME IInv, NEW p \in Reloaders, AskBefore(p) \/ ReadTab(p) \/ Parse(p)
    PROVE  IInv'
<1>1. /\ UNCHANGED <<world, tables, cache>> /\ Shaped(reload) /\ modified \in Times
      /\ reload[p].pc \in {"reload", "read", "parse"} /\ reload[p].time \in Times \cup {NoTime}
  BY IsShaped DEF AskBefore, ReadTab, Parse, At, IInv, Typed, Shaped, Held
<1>2. CASE Over(p)
  BY <1>1, <1>2, OverStep
<1>3. CASE ~Over(p)
  <2>1. UNCHANGED boot
    BY <1>3 DEF AskBefore, ReadTab, Parse
  <2>2. /\ Shaped(reload') /\ \A q \in Reloaders : q # p => reload'[q] = reload[q]
        /\ reload'[p].time \in Times \cup {NoTime} /\ reload'[p].pc \in {"read", "parse", "swap"}
        /\ reload'[p].pc \in {"parse", "swap"} =>
              \/ reload'[p].raw = tab
              \/ /\ reload[p].pc \in {"parse", "swap"}
                 /\ reload'[p].raw = reload[p].raw /\ reload'[p].time = reload[p].time
    <3>1. PICK R : reload \in [Reloaders -> Held(R)]
      BY <1>1 DEF Shaped
    <3>2. CASE AskBefore(p)
      <4> DEFINE m == [reload[p] EXCEPT !.pc = "read", !.time = modified]
      <4>1. reload' = [reload EXCEPT ![p] = m]
        BY <3>2 DEF AskBefore
      <4>2. m \in Held(R) /\ m.pc = "read" /\ m.time = modified /\ m.raw = reload[p].raw
        BY <1>1, <3>1 DEF Held, Pcs
      <4> HIDE DEF m
      <4>3. reload' \in [Reloaders -> Held(R)] /\ reload'[p] = m
        BY <3>1, <4>1, <4>2 DEF Held
      <4>4. Shaped(reload') /\ \A q \in Reloaders : q # p => reload'[q] = reload[q]
        BY <3>1, <4>1, <4>3 DEF Shaped
      <4> QED
        BY <1>1, <4>1, <4>2, <4>3, <4>4
    <3>3. CASE ReadTab(p)
      <4> DEFINE m == [reload[p] EXCEPT !.pc = "parse", !.raw = tab]
      <4>1. reload' = [reload EXCEPT ![p] = m]
        BY <1>3, <3>3 DEF ReadTab
      <4>2. m \in Held(R) /\ m.pc = "parse" /\ m.time = reload[p].time /\ m.raw = tab
        BY <3>1 DEF Held, Pcs, IInv, Typed
      <4> HIDE DEF m
      <4>3. reload' \in [Reloaders -> Held(R)] /\ reload'[p] = m
        BY <3>1, <4>1, <4>2 DEF Held
      <4>4. Shaped(reload') /\ \A q \in Reloaders : q # p => reload'[q] = reload[q]
        BY <3>1, <4>1, <4>3 DEF Shaped
      <4> QED
        BY <1>1, <4>1, <4>2, <4>3, <4>4
    <3>4. CASE Parse(p)
      <4> DEFINE new == ParseRows(reload[p].raw)
      <4> DEFINE m == [reload[p] EXCEPT !.pc = "swap", !.rows = new]
      <4>1. reload' = [reload EXCEPT ![p] = m] /\ reload[p].pc = "parse"
        BY <1>3, <3>4 DEF Parse, At
      <4> HIDE DEF new
      <4>2. m \in Held(R \cup {new}) /\ m.pc = "swap" /\ m.time = reload[p].time /\ m.raw = reload[p].raw
        BY <3>1 DEF Held, Pcs
      <4> HIDE DEF m
      <4>3. reload' \in [Reloaders -> Held(R \cup {new})] /\ reload'[p] = m
        BY <3>1, <4>1, <4>2 DEF Held
      <4>4. Shaped(reload') /\ \A q \in Reloaders : q # p => reload'[q] = reload[q]
        BY <3>1, <4>1, <4>3 DEF Shaped
      <4> QED
        BY <1>1, <4>1, <4>2, <4>3, <4>4
    <3> QED
      BY <3>2, <3>3, <3>4
  <2>3. /\ boot' = "waits" => reload'["drain"].pc = "idle"
        /\ boot' = "runs" => reload'["preload"].pc = "idle"
    <3>1. p \in {"preload", "drain"} /\ (p = "preload" => boot # "runs")
          /\ (p = "drain" => boot # "waits")
      BY <1>1 DEF Reloaders, IInv, Alone
    <3> QED
      BY <2>1, <2>2, <3>1 DEF IInv, Alone, Reloaders
  <2>4. boot' \in {"waits", "runs", "late"} /\ (boot' # "late" => boot # "late")
    BY <2>1 DEF IInv, Typed
  <2> QED
    BY <1>1, <2>2, <2>3, <2>4, Moves
<1> QED
  BY <1>2, <1>3

\* The swap puts in the tab it read; the rows it refuses leave the old ones.
LEMMA SwapStep == ASSUME IInv, NEW p \in Reloaders, AtomicSwap(p) PROVE IInv'
<1>1. UNCHANGED <<world, cache>> /\ reload[p].pc = "swap"
  BY DEF AtomicSwap, At
<1>2. CASE ~RefsExist(reload[p].rows)
  <2>1. Over(p) /\ UNCHANGED tables
    BY <1>2 DEF AtomicSwap
  <2> QED
    BY <1>1, <2>1, OverStep
<1>3. CASE RefsExist(reload[p].rows)
  <2> DEFINE new == [Idle EXCEPT !.pc = "after", !.time = reload[p].time]
  <2>1. /\ mapping' = reload[p].rows /\ source' = reload[p].raw /\ UNCHANGED boot
        /\ reload' = [reload EXCEPT ![p] = new]
        /\ UNCHANGED <<tab, modified, name, cache>>
    BY <1>1, <1>3 DEF AtomicSwap, world
  <2>2. PICK R : reload \in [Reloaders -> Held(R)]
    BY IsShaped DEF Shaped
  <2>3. reload[p].time \in Times \cup {NoTime}
    BY <2>2 DEF Held
  <2>4. new \in Held(R \cup {<<>>}) /\ new.pc = "after" /\ new.time = reload[p].time
    BY <2>3 DEF Idle, Held, Pcs
  <2> HIDE DEF new
  <2>5. /\ reload' \in [Reloaders -> Held(R \cup {<<>>})] /\ reload'[p] = new
        /\ \A q \in Reloaders : q # p => reload'[q] = reload[q]
    BY <2>1, <2>2, <2>4 DEF Held
  <2>6. \A q \in Reloaders : q # p /\ boot # "late" => reload[q].pc = "idle"
    BY <1>1 DEF IInv, Typed, Alone, Reloaders
  <2>7. Typed' /\ Alone'
    BY <1>1, <2>1, <2>4, <2>5 DEF IInv, Typed, Alone, Shaped, Reloaders
  <2>8. RawCurrent'
    BY <2>1, <2>4, <2>5 DEF IInv, RawCurrent
  <2>9. SwapCurrent' /\ CacheVouches'
    BY <1>1, <2>1, <2>4, <2>5, <2>6 DEF IInv, RawCurrent, SwapCurrent, CacheVouches
  <2>10. MappingRefersToCatalog'
    BY <1>3, <2>1 DEF MappingRefersToCatalog, RefsExist, Refers
  <2> QED
    BY <2>7, <2>8, <2>9, <2>10 DEF IInv
<1> QED
  BY <1>2, <1>3

\* The time is remembered only when it is still that of the beginning.
LEMMA AfterStep == ASSUME IInv, NEW p \in Reloaders, AskAfter(p) PROVE IInv'
<1>1. /\ UNCHANGED <<tab, modified, name, mapping, source>> /\ reload[p].pc = "after" /\ Over(p)
      /\ cache' = IF modified = reload[p].time THEN modified ELSE cache
  BY DEF AskAfter, At, world, tables
<1>2. /\ Shaped(reload') /\ \A q \in Reloaders : q # p => reload'[q] = reload[q]
      /\ reload'[p].pc \in {"idle", "sweep"}
      /\ boot' \in {"waits", "runs", "late"} /\ (boot' # "late" => boot # "late")
      /\ boot' = "waits" => reload'["drain"].pc = "idle"
      /\ boot' = "runs" => reload'["preload"].pc = "idle"
  BY <1>1, OverIs
<1>3. \A q \in Reloaders : q # p /\ boot # "late" => reload[q].pc = "idle"
  BY <1>1 DEF IInv, Typed, Alone, Reloaders
<1>4. Typed' /\ Alone'
  BY <1>1, <1>2 DEF IInv, Typed, Alone
<1>5. RawCurrent'
  BY <1>1, <1>2, <1>3 DEF IInv, RawCurrent
<1>6. SwapCurrent' /\ CacheVouches'
  BY <1>1, <1>2 DEF IInv, SwapCurrent, CacheVouches
<1> QED
  BY <1>1, <1>4, <1>5, <1>6, StillRefers DEF IInv

LEMMA DrainStep ==
    ASSUME IInv, AskDrive \/ Compare \/ NothingToLog \/ DriveFails
    PROVE  IInv'
<1>1. /\ UNCHANGED <<world, tables, cache>> /\ "drain" \in Reloaders
      /\ reload["drain"].pc # "idle" \/ boot # "waits"
  BY DEF AskDrive, Compare, NothingToLog, DriveFails, At, Reloaders
<1>2. CASE Over("drain")
  BY <1>1, <1>2, OverStep
<1>3. CASE ~Over("drain")
  <2>1. PICK R : reload \in [Reloaders -> Held(R)]
    BY IsShaped DEF Shaped
  <2>2. UNCHANGED boot /\ boot # "waits" /\ modified \in Times
    BY <1>1, <1>3 DEF AskDrive, Compare, NothingToLog, DriveFails, IInv, Typed, Alone
  <2>3. /\ Shaped(reload') /\ \A q \in Reloaders : q # "drain" => reload'[q] = reload[q]
        /\ reload'["drain"].pc \in {"compare", "reload", "idle"}
        /\ reload'["drain"].time \in Times \cup {NoTime}
    <3>1. CASE AskDrive
      <4>1. reload' = [reload EXCEPT !["drain"].pc = "compare", !["drain"].time = modified]
        BY <3>1 DEF AskDrive
      <4>2. reload' \in [Reloaders -> Held(R)]
        BY <2>1, <2>2, <4>1 DEF Held, Pcs, Reloaders
      <4> QED
        BY <1>1, <2>1, <2>2, <4>1, <4>2 DEF Shaped, Held
    <3>2. CASE Compare
      <4> DEFINE new == [Idle EXCEPT !.pc = "reload"]
      <4>1. reload' = [reload EXCEPT !["drain"] = new]
        BY <1>3, <3>2 DEF Compare
      <4>2. new \in Held(R \cup {<<>>}) /\ new.pc = "reload" /\ new.time = NoTime
        BY DEF Idle, Held, Pcs
      <4> HIDE DEF new
      <4>3. reload' \in [Reloaders -> Held(R \cup {<<>>})]
        BY <2>1, <4>1, <4>2 DEF Held
      <4> QED
        BY <1>1, <2>1, <4>1, <4>2, <4>3 DEF Shaped
    <3>3. CASE NothingToLog
      <4>1. reload' = [reload EXCEPT !["drain"].pc = "idle"]
        BY <3>3 DEF NothingToLog, Goto
      <4>2. reload' \in [Reloaders -> Held(R)]
        BY <2>1, <4>1 DEF Held, Pcs, Reloaders
      <4> QED
        BY <1>1, <2>1, <4>1, <4>2 DEF Shaped, Held
    <3> QED
      BY <1>3, <3>1, <3>2, <3>3 DEF DriveFails
  <2>4. /\ boot' \in {"waits", "runs", "late"} /\ (boot' # "late" => boot # "late")
        /\ boot' # "waits" /\ (boot' = "runs" => reload'["preload"].pc = "idle")
    BY <2>2, <2>3 DEF IInv, Typed, Alone, Reloaders
  <2> QED
    BY <1>1, <2>3, <2>4, Moves
<1> QED
  BY <1>2, <1>3

LEMMA OthersStep ==
    ASSUME IInv, NEW p \in Reloaders,
           (\E new \in Tabs \cup {NoTab} : EditTab(new)) \/ Log \/ Fails(p) \/ BootTimeout
    PROVE  IInv'
<1>1. CASE \E new \in Tabs \cup {NoTab} : EditTab(new)
  BY <1>1, Touches DEF EditTab
<1>2. CASE Log
  <2>1. tab' \in Tabs \cup {NoTab}
    BY <1>2 DEF Log, IInv, Typed
  <2> QED
    BY <1>2, <2>1, Touches DEF Log, Goto
<1>3. CASE Fails(p)
  BY <1>3, OverStep DEF Fails
<1>4. CASE BootTimeout
  <2>1. UNCHANGED <<tab, modified, name, mapping, source, cache, reload>> /\ boot' = "late"
    BY <1>4 DEF BootTimeout, world, tables
  <2>2. Typed' /\ Alone' /\ RawCurrent' /\ SwapCurrent' /\ CacheVouches'
    BY <2>1 DEF IInv, Typed, Alone, RawCurrent, SwapCurrent, CacheVouches
  <2> QED
    BY <2>1, <2>2, StillRefers DEF IInv
<1> QED
  BY <1>1, <1>2, <1>3, <1>4

-----------------------------------------------------------------------------

LEMMA BootingIs ==
    /\ Shaped(Booting) /\ Booting["drain"].pc = "idle"
    /\ \A p \in Reloaders : Booting[p].pc \in {"idle", "reload"}
<1>1. Booting \in [Reloaders -> Held({<<>>})]
  BY DEF Booting, Idle, Held, Pcs
<1>2. \A p \in Reloaders : Booting[p].pc = (IF p = "preload" THEN "reload" ELSE "idle")
  BY DEF Booting, Idle
<1> QED
  BY <1>1, <1>2 DEF Shaped, Reloaders

LEMMA RestartStep == ASSUME IInv, Restart PROVE IInv'
<1>1. /\ UNCHANGED <<tab, modified, name, mapping, source>> /\ cache' = NoTime
      /\ boot' = "waits" /\ reload' = Booting
  BY DEF Restart, world, tables
<1>2. Typed' /\ Alone'
  BY <1>1, BootingIs DEF IInv, Typed, Alone
<1>3. RawCurrent' /\ SwapCurrent'
  BY <1>1, BootingIs DEF RawCurrent, SwapCurrent
<1>4. CacheVouches'
  BY <1>1, TimesAssumption DEF IInv, Typed, CacheVouches
<1> QED
  BY <1>1, <1>2, <1>3, <1>4, StillRefers DEF IInv

LEMMA Starts == ASSUME Init PROVE IInv
<1>1. modified \in Times
  <2>1. \E t \in Times : TRUE
    BY SomeTimeIsNew
  <2> QED
    BY <2>1 DEF Init
<1>2. Typed /\ Alone
  BY <1>1, BootingIs, CatalogAssumption DEF Init, Typed, Alone
<1>3. RawCurrent /\ SwapCurrent /\ CacheVouches
  BY <1>1, BootingIs, TimesAssumption DEF Init, RawCurrent, SwapCurrent, CacheVouches
<1>4. MappingRefersToCatalog
  BY CatalogAssumption DEF Init, MappingRefersToCatalog, RefsExist, Refers
<1> QED
  BY <1>2, <1>3, <1>4 DEF IInv

LEMMA StepsKeep == ASSUME IInv, [Next]_vars PROVE IInv'
<1>1. CASE \E new \in Tabs \cup {NoTab} : EditTab(new)
  BY <1>1, OthersStep DEF Reloaders
<1>2. CASE \E i \in Ids : Delete(i) \/ \E n \in Names : Rename(i, n)
  BY <1>2, NamesChange
<1>3. CASE \E p \in Reloaders : Reload(p) \/ Fails(p)
  BY <1>3, ReadStep, SwapStep, AfterStep, OthersStep DEF Reload
<1>4. CASE Drain \/ DriveFails \/ BootTimeout \/ Restart
  BY <1>4, DrainStep, OthersStep, RestartStep DEF Drain, Reloaders
<1>5. CASE UNCHANGED vars
  <2>1. UNCHANGED <<tab, modified, name, mapping, source, cache, boot, reload>>
    BY <1>5 DEF vars
  <2>2. Typed' /\ Alone' /\ RawCurrent' /\ SwapCurrent' /\ CacheVouches'
    BY <2>1 DEF IInv, Typed, Alone, RawCurrent, SwapCurrent, CacheVouches
  <2> QED
    BY <2>1, <2>2, StillRefers DEF IInv
<1> QED
  BY <1>1, <1>2, <1>3, <1>4, <1>5 DEF Next

LEMMA Always == Spec => []IInv
<1>1. Init => IInv
  BY Starts
<1>2. IInv /\ [Next]_vars => IInv'
  BY StepsKeep
<1> QED
  BY <1>1, <1>2, PTL DEF Spec

-----------------------------------------------------------------------------
(* Theorems *)

\* ensure_fresh may trust the tables whenever Drive's time is the cached one,
\* unless a preload outlived boot's patience.
THEOREM Vouched == Spec => []CacheVouches
<1>1. IInv => CacheVouches
  BY DEF IInv
<1> QED
  BY <1>1, Always, PTL

\* A row of the mapping never refers to a deleted event or tag: the foreign keys
\* refuse the swap, and the deletes count the references.
THEOREM RefersToCatalog == Spec => []MappingRefersToCatalog
<1>1. IInv => MappingRefersToCatalog
  BY DEF IInv
<1> QED
  BY <1>1, Always, PTL

-----------------------------------------------------------------------------
(* Loops over rows: recursive functions of the number of rows behind them *)

LEMMA LeastExists ==
    ASSUME NEW k \in Nat, NEW S, S \subseteq 1..k, S # {}
    PROVE  \E m \in S : \A j \in S : m <= j
<1> DEFINE Below(i) == {j \in S : j < i}
           T == {Below(i) : i \in S}
<1>1. IsWellFoundedOn(StrictSubsetOrdering(S), SUBSET S)
  <2>1. IsFiniteSet(S)
    <3>1. IsFiniteSet(1..k)
      BY FS_Interval
    <3> QED
      BY <3>1, FS_Subset
  <2> QED
    BY <2>1, FS_StrictSubsetOrderingWellFounded, FS_FiniteSubsetsOfFinite
<1>2. T \subseteq SUBSET S /\ T # {}
  OBVIOUS
<1>3. \E x \in T : \A y \in T : ~ (<<y, x>> \in StrictSubsetOrdering(S))
  <2> HIDE DEF T
  <2> QED
    BY <1>1, <1>2, WFMin
<1>4. PICK m \in S : \A j \in S : ~ (<<Below(j), Below(m)>> \in StrictSubsetOrdering(S))
  BY <1>3
<1>5. ASSUME NEW j \in S, ~(m <= j) PROVE FALSE
  <2>1. j < m /\ j \in Int /\ m \in Int
    BY <1>5
  <2>2. Below(j) \subseteq Below(m)
    <3>1. SUFFICES ASSUME NEW i \in S, i < j PROVE i < m
      OBVIOUS
    <3>2. i \in Int
      OBVIOUS
    <3> QED
      BY <2>1, <3>1, <3>2
  <2>3. j \in Below(m) /\ j \notin Below(j)
    BY <2>1
  <2>4. <<Below(j), Below(m)>> \in StrictSubsetOrdering(S)
    <3>1. Below(j) \in SUBSET S /\ Below(m) \in SUBSET S /\ Below(j) # Below(m)
      BY <2>2, <2>3
    <3> HIDE DEF Below
    <3> QED
      BY <2>2, <3>1 DEF StrictSubsetOrdering
  <2> QED
    BY <1>4, <2>4
<1> QED
  BY <1>5

\* What holds before the first row and survives each row holds behind the last.
LEMMA RowByRow ==
    ASSUME NEW L \in Nat, NEW P, 0 \in P, \A n \in 1..L : n - 1 \in P => n \in P
    PROVE  \A n \in 0..L : n \in P
<1> DEFINE S == (1..L) \ P
<1>1. SUFFICES ASSUME S # {} PROVE FALSE
  OBVIOUS
<1>2. PICK m \in S : \A j \in S : m <= j
  BY <1>1, LeastExists
<1>3. m \in 1..L /\ m \notin P
  BY <1>2
<1>4. m = 1 \/ (m - 1 \in 1..L /\ ~(m <= m - 1))
  BY <1>3
<1>5. m - 1 \in P
  BY <1>2, <1>4
<1> QED
  BY <1>3, <1>5

-----------------------------------------------------------------------------
(* Both projections find the first row that has a value *)

\* The rows of fitting up to the n-th that have a value in a column, and the
\* value of the first of them.
Having(rows, fitting, n, f) == {k \in fitting : k \in 1..n /\ rows[k][f] # Wild}
Least(S) == CHOOSE k \in S : \A j \in S : k <= j
FirstOf(rows, fitting, n, f) ==
    LET at == Having(rows, fitting, n, f)
    IN  IF at = {} THEN Wild ELSE rows[Least(at)][f]

LEMMA LeastIs ==
    ASSUME NEW n \in Nat, NEW S, S \subseteq 1..n, S # {}
    PROVE  Least(S) \in S /\ \A j \in S : Least(S) <= j
<1>1. \E m \in S : \A j \in S : m <= j
  BY LeastExists
<1> QED
  BY <1>1 DEF Least

LEMMA FirstGrows ==
    ASSUME NEW rows, NEW fitting, NEW f, NEW n \in Nat \ {0}
    PROVE  FirstOf(rows, fitting, n, f) =
              IF n \in fitting THEN Fill(FirstOf(rows, fitting, n - 1, f), rows[n][f])
              ELSE FirstOf(rows, fitting, n - 1, f)
<1> DEFINE old == Having(rows, fitting, n - 1, f)
           new == Having(rows, fitting, n, f)
<1>1. /\ old \subseteq 1..(n - 1) /\ new \subseteq 1..n /\ n - 1 \in Nat
      /\ \A k \in old : k < n /\ rows[k][f] # Wild
      /\ new = IF n \in fitting /\ rows[n][f] # Wild THEN old \cup {n} ELSE old
      /\ \A k \in new : k = n \/ k \in old
  BY DEF Having
<1> HIDE DEF old, new
<1>2. CASE old = {}
  <2>1. FirstOf(rows, fitting, n - 1, f) = Wild
    BY <1>2 DEF FirstOf, old
  <2>2. CASE new = {}
    <3>1. FirstOf(rows, fitting, n, f) = Wild
      BY <2>2 DEF FirstOf, new
    <3>2. n \in fitting => rows[n][f] = Wild
      BY <1>1, <2>2
    <3> QED
      BY <2>1, <3>1, <3>2 DEF Fill
  <2>3. CASE new # {}
    <3>1. new = {n} /\ n \in fitting
      BY <1>1, <1>2, <2>3
    <3>2. Least(new) = n
      BY <1>1, <3>1, LeastIs
    <3>3. FirstOf(rows, fitting, n, f) = rows[n][f]
      BY <2>3, <3>2 DEF FirstOf, new
    <3> QED
      BY <2>1, <3>1, <3>3 DEF Fill
  <2> QED
    BY <2>2, <2>3
<1>3. CASE old # {}
  <2>1. Least(old) \in old /\ \A j \in old : Least(old) <= j
    BY <1>1, <1>3, LeastIs
  <2>2. Least(new) \in new /\ \A j \in new : Least(new) <= j
    <3>1. new # {}
      BY <1>1, <1>3
    <3> QED
      BY <1>1, <3>1, LeastIs
  <2>3. Least(old) \in new /\ Least(old) < n /\ Least(old) \in 1..(n - 1) /\ Least(new) \in 1..n
    BY <1>1, <2>1, <2>2
  <2>4. Least(new) # n /\ (Least(new) = n \/ Least(new) \in old)
    <3>1. Least(new) <= Least(old)
      BY <2>2, <2>3
    <3>2. Least(new) # n
      BY <2>3, <3>1
    <3> QED
      BY <1>1, <2>2, <3>2
  <2>5. Least(new) = Least(old)
    BY <2>1, <2>2, <2>3, <2>4
  <2>6. /\ FirstOf(rows, fitting, n, f) = rows[Least(old)][f]
        /\ FirstOf(rows, fitting, n - 1, f) = rows[Least(old)][f]
        /\ rows[Least(old)][f] # Wild
    BY <1>1, <1>3, <2>1, <2>2, <2>5 DEF FirstOf, new, old
  <2> QED
    BY <2>6 DEF Fill
<1> QED
  BY <1>2, <1>3

\* The loop of the projections, with `continue` at a row that does not fit.
LEMMA ScanFindsFirst ==
    ASSUME NEW R, NEW rows \in Seq(R), NEW fitting
    PROVE  Scan(rows, fitting) =
              <<FirstOf(rows, fitting, Len(rows), "sheet_category"),
                FirstOf(rows, fitting, Len(rows), "sheet_group")>>
<1> DEFINE L == Len(rows)
           First(n) == <<FirstOf(rows, fitting, n, "sheet_category"),
                         FirstOf(rows, fitting, n, "sheet_group")>>
           Body(h, n) == IF n = 0 THEN <<Wild, Wild>>
                         ELSE IF n \notin fitting THEN h[n - 1]
                         ELSE <<Fill(h[n - 1][1], rows[n].sheet_category),
                                Fill(h[n - 1][2], rows[n].sheet_group)>>
           Loop(h) == h = [n \in 0..L |-> Body(h, n)]
           got == CHOOSE h : Loop(h)
<1>1. L \in Nat
  OBVIOUS
<1>2. Scan(rows, fitting) = got[L]
  BY DEF Scan
<1>3. First(0) = <<Wild, Wild>>
  BY DEF FirstOf, Having
<1>4. ASSUME NEW n \in 1..L
      PROVE  First(n) = IF n \notin fitting THEN First(n - 1)
                        ELSE <<Fill(First(n - 1)[1], rows[n].sheet_category),
                               Fill(First(n - 1)[2], rows[n].sheet_group)>>
  <2>1. n \in Nat \ {0}
    BY <1>1
  <2> QED
    BY <2>1, FirstGrows
<1> HIDE DEF L, First
<1>5. Loop([n \in 0..L |-> First(n)])
  <2> DEFINE g == [n \in 0..L |-> First(n)]
  <2>1. ASSUME NEW n \in 0..L PROVE First(n) = Body(g, n)
    <3>1. CASE n = 0
      BY <1>3, <3>1
    <3>2. CASE n # 0
      <4>1. n \in 1..L /\ n - 1 \in 0..L
        BY <1>1, <3>2
      <4>2. g[n - 1] = First(n - 1)
        BY <4>1
      <4> HIDE DEF g
      <4> QED
        BY <1>4, <3>2, <4>1, <4>2
    <3> QED
      BY <3>1, <3>2
  <2> QED
    BY <2>1
<1>6. Loop(got)
  <2> HIDE DEF Loop
  <2> QED
    BY <1>5
<1> HIDE DEF got
<1>7. \A n \in 0..L : got[n] = Body(got, n)
  BY <1>6
<1>8. \A n \in 0..L : n \in {i \in 0..L : got[i] = First(i)}
  <2> DEFINE P == {i \in 0..L : got[i] = First(i)}
  <2>1. 0 \in P
    <3>1. 0 \in 0..L
      BY <1>1
    <3>2. got[0] = First(0)
      BY <1>3, <1>7, <3>1
    <3> QED
      BY <3>1, <3>2
  <2>2. ASSUME NEW n \in 1..L, n - 1 \in P PROVE n \in P
    <3>1. n \in 0..L /\ n # 0 /\ got[n - 1] = First(n - 1)
      BY <1>1, <2>2
    <3>2. got[n] = Body(got, n)
      BY <1>7, <3>1
    <3>3. got[n] = First(n)
      BY <1>4, <3>1, <3>2
    <3> QED
      BY <3>1, <3>3
  <2> HIDE DEF P
  <2>3. \A n \in 0..L : n \in P
    BY <1>1, <2>1, <2>2, RowByRow
  <2> QED
    BY <2>3 DEF P
<1>9. got[L] = First(L)
  BY <1>1, <1>8
<1> QED
  BY <1>2, <1>9 DEF First, L

-----------------------------------------------------------------------------
(* The rows of the tables *)

LEMMA ResolvedIs ==
    ASSUME NEW ids, NEW cell, Named(ids, cell) # {}
    PROVE  Resolve(ids, cell) \in ids \cup {Wild}
BY DEF Named, Found, Resolve

LEMMA RowParses ==
    ASSUME NEW row \in Row, Known(row)
    PROVE  ParseRow(row) \in MapRow
<1>1. Resolve(Categories, row.category) \in Categories \cup {Wild}
  BY ResolvedIs DEF Known, Resolve
<1>2. Resolve(Events, row.event) \in Events \cup {Wild}
  BY ResolvedIs DEF Known, Resolve
<1>3. ASSUME NEW t \in row.tags PROVE Found(Tags, t) \in Tags
  <2>1. Named(Tags, t) # {}
    BY DEF Known
  <2> QED
    BY <2>1 DEF Named, Found
<1>4. {Found(Tags, t) : t \in row.tags} \in SUBSET Tags
  BY <1>3
<1>5. row.sheet_category \in Cells \cup {Wild} /\ row.sheet_group \in Cells \cup {Wild}
  BY DEF Row
<1> QED
  BY <1>1, <1>2, <1>4, <1>5 DEF ParseRow, MapRow

LEMMA NoRows == <<>> \in Seq(MapRow)
OBVIOUS

LEMMA TabParses ==
    ASSUME NEW raw \in Seq(Row), Valid(raw)
    PROVE  ParseRows(raw) \in Seq(MapRow)
<1> DEFINE L == Len(raw)
           Body(h, n) == IF n = 0 THEN <<>>
                         ELSE IF Blank(raw[n]) THEN h[n - 1]
                         ELSE Append(h[n - 1], ParseRow(raw[n]))
           Loop(h, k) == h = [n \in 0..k |-> Body(h, n)]
           parsed == CHOOSE h : Loop(h, L)
<1>1. L \in Nat
  OBVIOUS
<1>2. ParseRows(raw) = parsed[L]
  BY DEF ParseRows
<1>3. ASSUME NEW n \in 1..L PROVE ParseRow(raw[n]) \in MapRow
  <2>1. n \in DOMAIN raw /\ raw[n] \in Row
    OBVIOUS
  <2> QED
    BY <2>1, RowParses DEF Valid
<1> HIDE DEF L
<1>4. \E h : Loop(h, L)
  <2> DEFINE P == {k \in 0..L : \E h : Loop(h, k)}
  <2>1. 0 \in P
    <3>1. Loop([n \in 0..0 |-> <<>>], 0)
      OBVIOUS
    <3>2. 0 \in 0..L
      BY <1>1
    <3> HIDE DEF Loop
    <3> QED
      BY <3>1, <3>2
  <2>2. ASSUME NEW k \in 1..L, k - 1 \in P PROVE k \in P
    <3>1. PICK h : Loop(h, k - 1)
      BY <2>2
    <3>2. k \in Nat /\ k # 0 /\ k - 1 \in 0..(k - 1) /\ \A n \in 0..k : n = k \/ n \in 0..(k - 1)
      BY <1>1
    <3> DEFINE g == [n \in 0..k |-> IF n = k THEN Body(h, k) ELSE h[n]]
    <3>3. ASSUME NEW n \in 0..k PROVE g[n] = Body(g, n)
      <4>1. n # 0 => n - 1 \in 0..k /\ n - 1 # k /\ g[n - 1] = h[n - 1]
        BY <3>2
      <4>2. Body(g, n) = Body(h, n)
        <5> HIDE DEF g
        <5> QED
          BY <4>1
      <4>3. n # k => h[n] = Body(h, n)
        BY <3>1, <3>2
      <4>4. g[n] = IF n = k THEN Body(h, k) ELSE h[n]
        OBVIOUS
      <4> HIDE DEF Body, g
      <4> QED
        BY <4>2, <4>3, <4>4
    <3>4. Loop(g, k)
      <4>1. g = [n \in 0..k |-> g[n]]
        OBVIOUS
      <4> HIDE DEF Body, g
      <4> QED
        BY <3>3, <4>1
    <3> HIDE DEF Loop, g
    <3>5. k \in 0..L
      BY <1>1
    <3> QED
      BY <3>4, <3>5
  <2> HIDE DEF P
  <2>3. \A k \in 0..L : k \in P
    BY <1>1, <2>1, <2>2, RowByRow
  <2>4. L \in 0..L
    BY <1>1
  <2> HIDE DEF Loop
  <2> QED
    BY <2>3, <2>4 DEF P
<1>5. Loop(parsed, L)
  <2> HIDE DEF Loop
  <2> QED
    BY <1>4
<1> HIDE DEF parsed
<1>6. \A n \in 0..L : parsed[n] = Body(parsed, n)
  BY <1>5
<1> DEFINE Q == {n \in 0..L : parsed[n] \in Seq(MapRow)}
<1>7. 0 \in Q
  <2>1. 0 \in 0..L
    BY <1>1
  <2>2. parsed[0] = <<>>
    BY <1>6, <2>1
  <2> QED
    BY <2>1, <2>2, NoRows
<1>8. ASSUME NEW n \in 1..L, n - 1 \in Q PROVE n \in Q
  <2>1. n \in 0..L /\ n # 0
    BY <1>1
  <2>2. parsed[n] = parsed[n - 1] \/ parsed[n] = Append(parsed[n - 1], ParseRow(raw[n]))
    BY <1>6, <2>1
  <2>3. parsed[n - 1] \in Seq(MapRow) /\ ParseRow(raw[n]) \in MapRow
    BY <1>3, <1>8
  <2>4. Append(parsed[n - 1], ParseRow(raw[n])) \in Seq(MapRow)
    BY <2>3
  <2> QED
    BY <2>1, <2>2, <2>3, <2>4
<1> HIDE DEF Q
<1>9. \A n \in 0..L : n \in Q
  BY <1>1, <1>7, <1>8, RowByRow
<1>10. parsed[L] \in Seq(MapRow)
  BY <1>1, <1>9 DEF Q
<1> QED
  BY <1>2, <1>10

\* Whatever the catalog did meanwhile, a reload in progress and the tables hold rows
\* of ids.
Rowed == mapping \in Seq(MapRow) /\ \A p \in Reloaders : reload[p].rows \in Seq(MapRow)

LEMMA OverRowed ==
    ASSUME IInv, Rowed, NEW p \in Reloaders, Over(p)
    PROVE  \A q \in Reloaders : reload'[q].rows \in Seq(MapRow)
<1> DEFINE new == IF p = "drain" THEN [Idle EXCEPT !.pc = "sweep"] ELSE Idle
<1>1. new.rows = <<>>
  BY DEF Idle
<1>2. reload' = [reload EXCEPT ![p] = new]
  BY DEF Over
<1> HIDE DEF new
<1>3. PICK R : reload \in [Reloaders -> Held(R)]
  BY IsShaped DEF Shaped
<1>4. \A q \in Reloaders : reload'[q] = IF q = p THEN new ELSE reload[q]
  BY <1>2, <1>3
<1> QED
  BY <1>1, <1>4, NoRows DEF Rowed

\* Only the parser makes rows.
LEMMA ReloadKeepsRows ==
    ASSUME IInv, Rowed, NEW p \in Reloaders, Reload(p) \/ Fails(p)
    PROVE  Rowed'
<1>1. PICK R : reload \in [Reloaders -> Held(R)]
  BY IsShaped DEF Shaped
<1>2. CASE Over(p)
  <2>1. mapping' = mapping \/ mapping' = reload[p].rows
    BY <1>2 DEF Reload, AskBefore, ReadTab, Parse, AtomicSwap, AskAfter, Fails, tables
  <2> QED
    BY <1>2, <2>1, OverRowed DEF Rowed
<1>3. CASE AskBefore(p)
  <2>1. /\ reload' = [reload EXCEPT ![p].pc = "read", ![p].time = modified]
        /\ mapping' = mapping
    BY <1>3 DEF AskBefore, tables
  <2>2. \A q \in Reloaders : reload'[q].rows = reload[q].rows
    BY <1>1, <2>1 DEF Held
  <2> QED
    BY <2>1, <2>2 DEF Rowed
<1>4. CASE ReadTab(p) /\ ~Over(p)
  <2>1. /\ reload' = [reload EXCEPT ![p].pc = "parse", ![p].raw = tab]
        /\ mapping' = mapping
    BY <1>4 DEF ReadTab, tables
  <2>2. \A q \in Reloaders : reload'[q].rows = reload[q].rows
    BY <1>1, <2>1 DEF Held
  <2> QED
    BY <2>1, <2>2 DEF Rowed
<1>5. CASE Parse(p) /\ ~Over(p)
  <2> DEFINE new == ParseRows(reload[p].raw)
  <2>1. /\ Valid(reload[p].raw)
        /\ reload' = [reload EXCEPT ![p].pc = "swap", ![p].rows = new]
        /\ mapping' = mapping
    BY <1>5 DEF Parse, tables
  <2>2. reload[p].raw \in Seq(Row)
    BY <1>1, <2>1, TabsAssumption DEF Valid, Held
  <2>3. new \in Seq(MapRow)
    BY <2>1, <2>2, TabParses
  <2> HIDE DEF new
  <2>4. \A q \in Reloaders : reload'[q].rows = IF q = p THEN new ELSE reload[q].rows
    BY <1>1, <2>1 DEF Held
  <2> QED
    BY <2>1, <2>3, <2>4 DEF Rowed
<1>6. CASE AtomicSwap(p) /\ ~Over(p)
  <2> DEFINE new == [Idle EXCEPT !.pc = "after", !.time = reload[p].time]
  <2>1. mapping' = reload[p].rows /\ reload' = [reload EXCEPT ![p] = new]
    BY <1>6 DEF AtomicSwap
  <2>2. new.rows = <<>>
    BY DEF Idle
  <2> HIDE DEF new
  <2>3. \A q \in Reloaders : reload'[q] = IF q = p THEN new ELSE reload[q]
    BY <1>1, <2>1
  <2> QED
    BY <2>1, <2>2, <2>3, NoRows DEF Rowed
<1> QED
  BY <1>2, <1>3, <1>4, <1>5, <1>6 DEF Reload, AskAfter, Fails

LEMMA StepsKeepRows == ASSUME IInv, Rowed, [Next]_vars PROVE Rowed'
<1>1. PICK R : reload \in [Reloaders -> Held(R)]
  BY IsShaped DEF Shaped
<1>2. CASE UNCHANGED <<mapping, reload>>
  BY <1>2 DEF Rowed
<1>3. CASE \E p \in Reloaders : Reload(p) \/ Fails(p)
  BY <1>3, ReloadKeepsRows
<1>4. CASE DriveFails \/ Compare \/ AskDrive \/ Log \/ NothingToLog
  <2>1. mapping' = mapping /\ "drain" \in Reloaders
    BY <1>4 DEF DriveFails, Compare, AskDrive, Log, NothingToLog, tables, Reloaders
  <2>2. CASE Over("drain")
    BY <2>1, <2>2, OverRowed DEF Rowed
  <2>3. CASE ~Over("drain")
    <3> DEFINE new == [Idle EXCEPT !.pc = "reload"]
    <3>1. new.rows = <<>>
      BY DEF Idle
    <3>2. \/ reload' = [reload EXCEPT !["drain"].pc = "compare", !["drain"].time = modified]
          \/ reload' = [reload EXCEPT !["drain"].pc = "idle"]
          \/ reload' = [reload EXCEPT !["drain"] = new]
      BY <1>4, <2>3 DEF DriveFails, Compare, AskDrive, Log, NothingToLog, Goto
    <3> HIDE DEF new
    <3>3. \A q \in Reloaders : reload'[q].rows \in {reload[q].rows, <<>>}
      BY <1>1, <2>1, <3>1, <3>2 DEF Held
    <3> QED
      BY <2>1, <3>3, NoRows DEF Rowed
  <2> QED
    BY <2>2, <2>3
<1>5. CASE Restart
  <2>1. \A p \in Reloaders : Booting[p].rows = <<>>
    BY DEF Booting, Idle
  <2>2. mapping' = mapping /\ reload' = Booting
    BY <1>5 DEF Restart, tables
  <2> QED
    BY <2>1, <2>2, NoRows DEF Rowed
<1> QED
  BY <1>2, <1>3, <1>4, <1>5
     DEF Next, Drain, EditTab, Rename, Delete, BootTimeout, vars, tables

LEMMA AlwaysRowed == Spec => []Rowed
<1>1. Init => Rowed
  <2>1. \A p \in Reloaders : Booting[p].rows = <<>>
    BY DEF Booting, Idle
  <2> QED
    BY <2>1, NoRows DEF Init, Rowed
<1>2. IInv /\ Rowed /\ [Next]_vars => Rowed'
  BY StepsKeepRows
<1> QED
  BY <1>1, <1>2, Always, PTL DEF Spec

-----------------------------------------------------------------------------

\* The values of the first fitting rows with a value, in the form the promise has it.
LEMMA FirstIsReference ==
    ASSUME NEW R, NEW rows \in Seq(R), NEW fitting, NEW f, NEW default
    PROVE  LET at == {k \in DOMAIN rows : k \in fitting /\ rows[k][f] # Wild}
           IN  Fill(FirstOf(rows, fitting, Len(rows), f), default) =
                  IF at = {} THEN default ELSE rows[CHOOSE k \in at : \A j \in at : k <= j][f]
<1> DEFINE at == {k \in DOMAIN rows : k \in fitting /\ rows[k][f] # Wild}
<1>1. at = Having(rows, fitting, Len(rows), f) /\ at \subseteq 1..Len(rows)
  BY DEF Having
<1>2. \A k \in at : rows[k][f] # Wild
  OBVIOUS
<1> HIDE DEF at
<1>3. FirstOf(rows, fitting, Len(rows), f) = IF at = {} THEN Wild ELSE rows[Least(at)][f]
  BY <1>1 DEF FirstOf
<1>4. at # {} => Least(at) \in at
  BY <1>1, LeastIs
<1>5. Least(at) = CHOOSE k \in at : \A j \in at : k <= j
  BY DEF Least
<1>6. Fill(FirstOf(rows, fitting, Len(rows), f), default) =
         IF at = {} THEN default ELSE rows[Least(at)][f]
  BY <1>2, <1>3, <1>4 DEF Fill
<1> QED
  BY <1>5, <1>6 DEF at

\* The rows that fit, as the promise has them, are those each loop goes on with.
LEMMA Agree ==
    ASSUME Rowed, NEW x
    PROVE  /\ LoggingProjection(mapping, x) = Reference(x)
           /\ ResolveProjection(mapping, x) = Reference(x)
<1> DEFINE fits(k) == /\ mapping[k].category \in {Wild, x.category}
                      /\ mapping[k].event \in {Wild, x.event}
                      /\ mapping[k].tags \subseteq x.tags
           fitting == {k \in DOMAIN mapping : fits(k)}
           pair(got) == <<Fill(got[1], x.category), got[2]>>
           first(f, default) ==
               LET at == {k \in DOMAIN mapping : fits(k) /\ mapping[k][f] # Wild}
               IN  IF at = {} THEN default
                   ELSE mapping[CHOOSE k \in at : \A j \in at : k <= j][f]
           value(f) == FirstOf(mapping, fitting, Len(mapping), f)
<1>1. LoggingProjection(mapping, x) = pair(Scan(mapping, fitting))
  <2>1. {k \in Candidates(mapping, x.category) :
            /\ mapping[k].event # Wild => mapping[k].event = x.event
            /\ mapping[k].tags \subseteq x.tags} = fitting
    BY DEF Candidates
  <2> HIDE DEF fitting
  <2> QED
    BY <2>1 DEF LoggingProjection
<1>2. ResolveProjection(mapping, x) = pair(Scan(mapping, fitting))
  <2>1. {k \in DOMAIN mapping :
            /\ mapping[k].category # Wild => mapping[k].category = x.category
            /\ mapping[k].event # Wild => mapping[k].event = x.event
            /\ mapping[k].tags \subseteq x.tags} = fitting
    OBVIOUS
  <2> HIDE DEF fitting
  <2> QED
    BY <2>1 DEF ResolveProjection
<1>3. Scan(mapping, fitting) = <<value("sheet_category"), value("sheet_group")>>
  BY ScanFindsFirst DEF Rowed
<1>4. ASSUME NEW f, NEW default PROVE Fill(value(f), default) = first(f, default)
  <2>1. {k \in DOMAIN mapping : k \in fitting /\ mapping[k][f] # Wild}
           = {k \in DOMAIN mapping : fits(k) /\ mapping[k][f] # Wild}
    OBVIOUS
  <2>2. mapping \in Seq(MapRow)
    BY DEF Rowed
  <2> DEFINE at == {k \in DOMAIN mapping : k \in fitting /\ mapping[k][f] # Wild}
  <2>3. Fill(value(f), default) =
           IF at = {} THEN default ELSE mapping[CHOOSE k \in at : \A j \in at : k <= j][f]
    <3> HIDE DEF fitting
    <3> QED
      BY <2>2, FirstIsReference
  <2> QED
    BY <2>1, <2>3, Zenon
<1>5. Reference(x) = <<first("sheet_category", x.category), first("sheet_group", Wild)>>
  BY DEF Reference
<1> HIDE DEF value, first, fitting
<1>6. Fill(value("sheet_group"), Wild) = value("sheet_group")
  BY DEF Fill
<1>7. pair(Scan(mapping, fitting)) = Reference(x)
  BY <1>3, <1>4, <1>5, <1>6
<1> QED
  BY <1>1, <1>2, <1>7

\* The pure projection and the one over the query both give every expense the value of
\* the first row that fits and has one, column by column, however long the tab is.
THEOREM BothProject == Spec => []ProjectionsAgree
<1>1. Rowed => ProjectionsAgree
  BY Agree DEF ProjectionsAgree
<1> QED
  BY <1>1, AlwaysRowed, PTL
=============================================================================
