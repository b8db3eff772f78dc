---------------------------- MODULE SheetMapping ----------------------------
(***************************************************************************)
(* The map tab of the logging spreadsheet and the tables derived from it.  *)
(* The operator edits the tab.  A thread started at boot and every drain   *)
(* ask Drive for the modifiedTime of the spreadsheet, and when it is not   *)
(* the one they know they read the tab, resolve its names against the      *)
(* catalog and swap the tables in one transaction.  Boot waits for its     *)
(* thread for some seconds and goes on without it.  The drain then         *)
(* projects every expense to two cells of the sheet through the tables;    *)
(* its own rows change the modifiedTime as well.                           *)
(* Abstractions:                                                           *)
(*   - a modifiedTime is only compared with another: one nobody remembers  *)
(*     is given out again;                                                 *)
(*   - "" and "*" are the same cell, and a row of them is no row;          *)
(*   - the catalog is the names of its rows, hidden ones included.         *)
(***************************************************************************)
EXTENDS Naturals, Sequences, FiniteSets

CONSTANTS
    Categories, Events, Tags,  \* ids
    Names,        \* of the rows of the catalog
    FirstName,    \* id -> name
    Wild,         \* the cell that matches everything, and NULL
    Gone,         \* the name of a deleted row
    Cells,        \* the values of the last two columns
    Tabs,         \* the contents the map tab may have: sequences of rows
    NoTab,        \* the worksheet does not exist
    Times,        \* values of modifiedTime
    NoTime,       \* nothing remembered
    MaxEdits,     \* bound: edits of the tab
    MaxChanges,   \* bound: changes of the catalog
    MaxFaults     \* bound: restarts, and requests Google fails

Ids == Categories \cup Events \cup Tags
Reloaders == {"preload", "drain"}

\* A row of the tab, with names in it, and a MapRow, with ids.
Row == [category: Names \cup {Wild}, event: Names \cup {Wild}, tags: SUBSET Names,
        sheet_category: Cells \cup {Wild}, sheet_group: Cells \cup {Wild}]
MapRow == [category: Categories \cup {Wild}, event: Events \cup {Wild}, tags: SUBSET Tags,
           sheet_category: Cells \cup {Wild}, sheet_group: Cells \cup {Wild}]

ASSUME TabsAssumption == Tabs \subseteq Seq(Row)
ASSUME TimesAssumption == NoTime \notin Times /\ Cardinality(Times) > 4
ASSUME CatalogAssumption ==
    /\ Categories \cap Events = {} /\ Categories \cap Tags = {} /\ Events \cap Tags = {}
    /\ FirstName \in [Ids -> Names] /\ Gone \notin Names
    /\ \A i, j \in Ids : FirstName[i] = FirstName[j] => i = j

VARIABLES
    tab,         \* the map tab
    modified,    \* modifiedTime of the spreadsheet
    name,        \* the catalog: id -> name
    mapping,     \* sheet_mapping and sheet_mapping_tags, in row_order
    source,      \* (history) the tab the mapping was made from
    cache,       \* _last_seen_modified_time
    boot,        \* "waits" for the preload, "runs" after it, or "late": it gave up
    reload,      \* reload_now of the preload thread, ensure_fresh of the drain
    used         \* edits, changes and faults so far

vars == <<tab, modified, name, mapping, source, cache, boot, reload, used>>
world == <<tab, modified, name>>
tables == <<mapping, source>>

Idle == [pc |-> "idle", time |-> NoTime, raw |-> NoTab, rows |-> <<>>]

TypeOK ==
    /\ tab \in Tabs \cup {NoTab} /\ source \in Tabs \cup {NoTab}
    /\ modified \in Times /\ cache \in Times \cup {NoTime}
    /\ name \in [Ids -> Names \cup {Gone}]
    /\ mapping \in Seq(MapRow)
    /\ boot \in {"waits", "runs", "late"}
    /\ reload \in [Reloaders -> [
           pc: {"idle", "compare", "reload", "read", "parse", "swap", "after", "sweep"},
           time: Times \cup {NoTime}, raw: Tabs \cup {NoTab}, rows: Seq(MapRow)]]
    /\ used \in [edits: 0..MaxEdits, changes: 0..MaxChanges, faults: 0..MaxFaults]

-----------------------------------------------------------------------------
(* Parsing *)

Named(ids, n) == {i \in ids : name[i] = n}
Found(ids, n) == CHOOSE i \in Named(ids, n) : TRUE
Resolve(ids, cell) == IF cell = Wild THEN Wild ELSE Found(ids, cell)

\* MapTabError: a name that is not in the catalog.
Known(row) ==
    /\ row.category # Wild => Named(Categories, row.category) # {}
    /\ row.event # Wild => Named(Events, row.event) # {}
    /\ \A t \in row.tags : Named(Tags, t) # {}

Valid(raw) == raw # NoTab /\ \A i \in DOMAIN raw : Known(raw[i])

Blank(row) == row = [category |-> Wild, event |-> Wild, tags |-> {},
                     sheet_category |-> Wild, sheet_group |-> Wild]

\* A written row with the ids of its names.
ParseRow(row) ==
    [category |-> Resolve(Categories, row.category),
     event |-> Resolve(Events, row.event),
     tags |-> {Found(Tags, t) : t \in row.tags},
     sheet_category |-> row.sheet_category,
     sheet_group |-> row.sheet_group]

\* A loop over the rows of the tab, without the blank ones.
ParseRows(raw) ==
    LET parsed[n \in 0..Len(raw)] ==
            IF n = 0 THEN <<>>
            ELSE IF Blank(raw[n]) THEN parsed[n - 1]
            ELSE Append(parsed[n - 1], ParseRow(raw[n]))
    IN  parsed[Len(raw)]

-----------------------------------------------------------------------------
(* Projection of an expense to a pair of cells; "" is Wild, the name of its *)
(* category is its id.                                                      *)

Fill(cell, value) == IF cell = Wild THEN value ELSE cell

\* A loop over the rows that fit: a column keeps the first value that is not a wildcard.
Scan(rows, fitting) ==
    LET got[n \in 0..Len(rows)] ==
            IF n = 0 THEN <<Wild, Wild>>
            ELSE IF n \notin fitting THEN got[n - 1]
            ELSE <<Fill(got[n - 1][1], rows[n].sheet_category),
                   Fill(got[n - 1][2], rows[n].sheet_group)>>
    IN  got[Len(rows)]

\* resolve_projection, over all rows.
ResolveProjection(rows, x) ==
    LET fitting == {k \in DOMAIN rows :
                        /\ rows[k].category # Wild => rows[k].category = x.category
                        /\ rows[k].event # Wild => rows[k].event = x.event
                        /\ rows[k].tags \subseteq x.tags}
        got == Scan(rows, fitting)
    IN  <<Fill(got[1], x.category), got[2]>>

\* mutant: rows for every category are not asked for
CandidatesExact(rows, category) == {k \in DOMAIN rows : rows[k].category = category}

\* The query for the rows that may concern a category.
Candidates(rows, category) ==
    {k \in DOMAIN rows : rows[k].category = Wild \/ rows[k].category = category}

\* logging_projection, over the rows of the query.
LoggingProjection(rows, x) ==
    LET fitting == {k \in Candidates(rows, x.category) :
                        /\ rows[k].event # Wild => rows[k].event = x.event
                        /\ rows[k].tags \subseteq x.tags}
        got == Scan(rows, fitting)
    IN  <<Fill(got[1], x.category), got[2]>>

-----------------------------------------------------------------------------
(* The operator and the catalog *)

Remembered == {modified, cache} \cup {reload[p].time : p \in Reloaders}
Touched == modified' = CHOOSE t \in Times : t \notin Remembered

Count(kind, max) == used[kind] < max /\ used' = [used EXCEPT ![kind] = @ + 1]

\* The operator edits the tab, or renames it away.
EditTab(new) ==
    /\ Count("edits", MaxEdits)
    /\ new # tab
    /\ tab' = new /\ Touched
    /\ UNCHANGED <<name, tables, cache, boot, reload>>

Rename(i, n) ==
    /\ Count("changes", MaxChanges)
    /\ name[i] # Gone /\ \A j \in Ids : name[j] # n
    /\ name' = [name EXCEPT ![i] = n]
    /\ UNCHANGED <<tab, modified, tables, cache, boot, reload>>

Refers(rows, i) == \E k \in DOMAIN rows :
    i = rows[k].category \/ i = rows[k].event \/ i \in rows[k].tags

\* mutant: the tags of the mapping are not counted
DeleteBlind(i) ==
    /\ Count("changes", MaxChanges)
    /\ i \in Events \cup Tags /\ name[i] # Gone
    /\ \A k \in DOMAIN mapping : mapping[k].event # i
    /\ name' = [name EXCEPT ![i] = Gone]
    /\ UNCHANGED <<tab, modified, tables, cache, boot, reload>>

\* delete_event, delete_tag: a row the mapping refers to is only hidden.
Delete(i) ==
    /\ Count("changes", MaxChanges)
    /\ i \in Events \cup Tags /\ name[i] # Gone
    /\ ~Refers(mapping, i)
    /\ name' = [name EXCEPT ![i] = Gone]
    /\ UNCHANGED <<tab, modified, tables, cache, boot, reload>>

-----------------------------------------------------------------------------
(* reload_now *)

At(p, pc) == reload[p].pc = pc
Goto(p, pc) == reload' = [reload EXCEPT ![p].pc = pc]

\* What follows reload_now: the drain goes on with the sweep, boot with the tasks.
Over(p) ==
    /\ reload' = [reload EXCEPT ![p] = IF p = "drain" THEN [Idle EXCEPT !.pc = "sweep"]
                                       ELSE Idle]
    /\ boot' = IF p = "preload" /\ boot = "waits" THEN "runs" ELSE boot

AskBefore(p) ==
    /\ At(p, "reload")
    /\ reload' = [reload EXCEPT ![p].pc = "read", ![p].time = modified]
    /\ UNCHANGED <<world, tables, cache, boot, used>>

ReadTab(p) ==
    /\ At(p, "read")
    /\ \/ /\ tab # NoTab
          /\ reload' = [reload EXCEPT ![p].pc = "parse", ![p].raw = tab]
          /\ UNCHANGED boot
       \/ tab = NoTab /\ Over(p)
    /\ UNCHANGED <<world, tables, cache, used>>

Parse(p) ==
    /\ At(p, "parse")
    /\ \/ /\ Valid(reload[p].raw)
          /\ reload' = [reload EXCEPT ![p].pc = "swap", ![p].rows = ParseRows(reload[p].raw)]
          /\ UNCHANGED boot
       \/ ~Valid(reload[p].raw) /\ Over(p)
    /\ UNCHANGED <<world, tables, cache, used>>

\* The foreign keys of the two tables hold.
RefsExist(rows) == \A i \in Ids : Refers(rows, i) => name[i] # Gone

AtomicSwap(p) ==
    /\ At(p, "swap")
    /\ \/ /\ RefsExist(reload[p].rows)
          /\ mapping' = reload[p].rows
          /\ source' = reload[p].raw
          /\ reload' = [reload EXCEPT ![p] = [Idle EXCEPT !.pc = "after",
                                                             !.time = reload[p].time]]
          /\ UNCHANGED boot
       \/ ~RefsExist(reload[p].rows) /\ Over(p) /\ UNCHANGED tables
    /\ UNCHANGED <<world, cache, used>>

\* mutant: the time is remembered without a comparison
AskAfterTrusting(p) ==
    /\ At(p, "after")
    /\ cache' = modified
    /\ Over(p)
    /\ UNCHANGED <<world, tables, used>>

\* A time that moved during the reload is not remembered: the next drain reloads.
AskAfter(p) ==
    /\ At(p, "after")
    /\ cache' = IF modified = reload[p].time THEN modified ELSE cache
    /\ Over(p)
    /\ UNCHANGED <<world, tables, used>>

-----------------------------------------------------------------------------
(* ensure_fresh and the sweep after it *)

AskDrive ==
    /\ boot # "waits" /\ At("drain", "idle")
    /\ reload' = [reload EXCEPT !["drain"].pc = "compare", !["drain"].time = modified]
    /\ UNCHANGED <<world, tables, cache, boot, used>>

\* mutant: the tab is read once in the life of the process
CompareOnce ==
    /\ At("drain", "compare")
    /\ \/ cache # NoTime /\ Over("drain")
       \/ /\ cache = NoTime
          /\ reload' = [reload EXCEPT !["drain"] = [Idle EXCEPT !.pc = "reload"]]
          /\ UNCHANGED boot
    /\ UNCHANGED <<world, tables, cache, used>>

Compare ==
    /\ At("drain", "compare")
    /\ \/ reload["drain"].time = cache /\ Over("drain")
       \/ /\ reload["drain"].time # cache
          /\ reload' = [reload EXCEPT !["drain"] = [Idle EXCEPT !.pc = "reload"]]
          /\ UNCHANGED boot
    /\ UNCHANGED <<world, tables, cache, used>>

\* The sweep appends rows to the sheet.
Log ==
    /\ At("drain", "sweep")
    /\ Touched
    /\ Goto("drain", "idle")
    /\ UNCHANGED <<tab, name, tables, cache, boot, used>>

\* Or every expense was logged before.
NothingToLog ==
    /\ At("drain", "sweep")
    /\ Goto("drain", "idle")
    /\ UNCHANGED <<world, tables, cache, boot, used>>

\* Google fails a request.
Fails(p) ==
    /\ Count("faults", MaxFaults)
    /\ reload[p].pc \in {"reload", "read", "after"}
    /\ Over(p)
    /\ UNCHANGED <<world, tables, cache>>

DriveFails ==
    /\ Count("faults", MaxFaults)
    /\ boot # "waits" /\ At("drain", "idle")
    /\ Over("drain")
    /\ UNCHANGED <<world, tables, cache>>

\* asyncio.wait_for gives up; the thread goes on.
BootTimeout ==
    /\ boot = "waits" /\ boot' = "late"
    /\ UNCHANGED <<world, tables, cache, reload, used>>

Booting == [p \in Reloaders |-> IF p = "preload" THEN [Idle EXCEPT !.pc = "reload"] ELSE Idle]

Restart ==
    /\ Count("faults", MaxFaults)
    /\ cache' = NoTime /\ boot' = "waits" /\ reload' = Booting
    /\ UNCHANGED <<world, tables>>

-----------------------------------------------------------------------------

Init ==
    /\ tab = NoTab
    /\ modified = CHOOSE t \in Times : TRUE
    /\ name = FirstName
    /\ mapping = <<>> /\ source = NoTab
    /\ cache = NoTime /\ boot = "waits" /\ reload = Booting
    /\ used = [edits |-> 0, changes |-> 0, faults |-> 0]

Reload(p) == AskBefore(p) \/ ReadTab(p) \/ Parse(p) \/ AtomicSwap(p) \/ AskAfter(p)

Drain == AskDrive \/ Compare \/ Log \/ NothingToLog

Next ==
    \/ \E new \in Tabs \cup {NoTab} : EditTab(new)
    \/ \E i \in Ids, n \in Names : Rename(i, n)
    \/ \E i \in Ids : Delete(i)
    \/ \E p \in Reloaders : Reload(p) \/ Fails(p)
    \/ Drain \/ DriveFails \/ BootTimeout \/ Restart

Spec == Init /\ [][Next]_vars

\* Every thread goes on; the drain runs on its interval.
FairSpec == Spec /\ WF_vars(Reload("preload")) /\ WF_vars(Reload("drain") \/ Drain)

-----------------------------------------------------------------------------
(* Properties *)

\* The drain trusts the tables without a look at the tab when Drive's time is the
\* cached one: then they were made from the tab as it is now, whatever edits, failed
\* requests and restarts came between.  Only a preload that outlived boot's patience
\* can put an older tab under a newer time.
CacheVouches == boot # "late" /\ cache = modified => source = tab

\* However the catalog changes between the reading of its names and the swap, the
\* tables never refer to a deleted row, and neither do the deletes leave one behind.
MappingRefersToCatalog == RefsExist(mapping)

\* The first matching row with a value decides a column.
Reference(x) ==
    LET fits(k) == /\ mapping[k].category \in {Wild, x.category}
                   /\ mapping[k].event \in {Wild, x.event}
                   /\ mapping[k].tags \subseteq x.tags
        first(f, default) ==
            LET at == {k \in DOMAIN mapping : fits(k) /\ mapping[k][f] # Wild}
            IN  IF at = {} THEN default
                ELSE mapping[CHOOSE k \in at : \A j \in at : k <= j][f]
    IN  <<first("sheet_category", x.category), first("sheet_group", Wild)>>

\* The two implementations of the projection, the pure one and the one over the
\* query, agree on every expense and give what the map tab promises.
ProjectionsAgree ==
    \A x \in [category: Categories, event: Events \cup {Wild}, tags: SUBSET Tags] :
        /\ LoggingProjection(mapping, x) = Reference(x)
        /\ ResolveProjection(mapping, x) = Reference(x)

\* As long as rows are logged, the last edit of the tab reaches the tables, a late
\* preload or not, unless the tab or its names are bad.
EditReachesTables == []<><<Log>>_vars => <>[](source = tab \/ ~Valid(tab))
=============================================================================
