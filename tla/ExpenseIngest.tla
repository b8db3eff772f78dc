--------------------------- MODULE ExpenseIngest ---------------------------
(***************************************************************************)
(* From the form to the table: an expense the user enters is queued on the *)
(* device (IndexedDB, shared by the tabs of the app), posted by a flush,   *)
(* and recorded once by the server, whatever is lost on the way.  A POST   *)
(* runs in a thread of the server that checks its references one after the *)
(* other, converts the amount and inserts the row in a transaction, while  *)
(* the catalog, the rate and the row itself are changed by others.         *)
(* Abstractions:                                                           *)
(*   - an expense is its client id, event and tags, and the kind of rate   *)
(*     its amount was converted with; all expenses share one category and  *)
(*     one day and currency;                                               *)
(*   - the writers of the catalog are those of module Catalog, seen as the *)
(*     status they give to a category, an event or a tag;                  *)
(*   - the rate is what module ExchangeRates looks up: an official rate is *)
(*     stored and stays, an older one is used but not stored.              *)
(***************************************************************************)
EXTENDS Naturals, Sequences, FiniteSets

CONSTANTS
    Clients,     \* client_expense_ids: what the user enters
    Events, Tags,
    Payload,     \* Payload[c]: the event and the tags the user chose
    FirstCategory, FirstRates,  \* what the category and the rate may be at first
    Tabs,        \* tabs of the PWA on one device
    Requests,    \* threads of the server that serve POST /api/expenses
    MaxRows,     \* bound: rows of expenses
    MaxFaults,   \* bound: lost requests and answers, restarts
    MaxChanges,  \* bound: changes of the catalog, the rate and the rows
    NoRow, NoEvent, NoTab, NoClient

CategoryStatus == {"active", "inactive", "hidden", "retired", "unplaced"}
RowStatus == {"active", "inactive", "gone"}
Rates == {"none", "stale", "official", "stored"}
Used == {"stale", "official"}   \* what an amount was converted with
RowIds == 1..MaxRows
Row == [client: Clients, event: Events \cup {NoEvent}, tags: SUBSET Tags,
        rate: Used, edited: BOOLEAN]
Steps == {"category", "activate", "event", "tags", "convert", "attach", "insert", "compare"}
Results == {"ok", "duplicate", "conflict", "refused", "error"}
Request == [pc: Steps \cup {"idle", "answer"}, tab: Tabs \cup {NoTab},
            client: Clients \cup {NoClient}, tags: SUBSET Tags, rate: Used,
            result: Results]

ASSUME PayloadAssumption ==
    Payload \in [Clients -> [event: Events \cup {NoEvent}, tags: SUBSET Tags]]
ASSUME FirstAssumption ==
    FirstCategory \subseteq {"active", "inactive", "unplaced"} /\ FirstRates \subseteq Rates
ASSUME BoundsAssumption == MaxRows \in Nat /\ MaxFaults \in Nat /\ MaxChanges \in Nat
ASSUME NullsAssumption ==
    NoRow \notin Row /\ NoEvent \notin Events /\ NoTab \notin Tabs /\ NoClient \notin Clients

VARIABLES
    entered,   \* expenses the user saved
    queue,     \* pending_expenses, in the order of their ids
    tab,       \* the flush of a tab: what is left of its copy of the queue
    req,       \* the requests in the server
    rows,      \* table expenses with expense_tags
    lastRow,   \* the AUTOINCREMENT counter of expenses
    deleting,  \* rows whose DELETE has removed the tags, not yet the row
    deleted,   \* expenses the user deleted on the server
    category, event, tag, auto,  \* statuses, and auto_tags of the events
    retagged,  \* events whose auto_tags changed after the start
    rate,      \* what a lookup of the rate finds
    faults, changes

catalog == <<category, event, tag, auto, retagged>>
table == <<rows, lastRow, deleting, deleted>>
device == <<entered, queue, tab>>
vars == <<device, req, table, catalog, rate, faults, changes>>

Recorded == {i \in RowIds : rows[i] # NoRow}
Queued == {queue[n] : n \in 1..Len(queue)}
Idle == [pc |-> "idle", tab |-> NoTab, client |-> NoClient, tags |-> {},
         rate |-> "official", result |-> "ok"]
Free == {r \in Requests : req[r].pc = "idle"}

TypeOK ==
    /\ entered \subseteq Clients
    /\ queue \in Seq(Clients) /\ Queued \subseteq entered /\ Len(queue) = Cardinality(Queued)
    /\ tab \in [Tabs -> [pc: {"idle", "flush", "wait"}, items: Seq(Clients)]]
    /\ req \in [Requests -> Request]
    /\ \A t \in Tabs :
          Cardinality({r \in Requests : req[r].tab = t}) = (IF tab[t].pc = "wait" THEN 1 ELSE 0)
    /\ rows \in [RowIds -> Row \cup {NoRow}]
    /\ lastRow \in 0..MaxRows /\ Recorded \subseteq 1..lastRow /\ deleting \subseteq Recorded
    /\ deleted \subseteq entered
    /\ category \in CategoryStatus
    /\ event \in [Events -> RowStatus] /\ tag \in [Tags -> RowStatus]
    /\ auto \in [Events -> SUBSET Tags] /\ retagged \subseteq Events
    /\ rate \in Rates
    /\ faults \in 0..MaxFaults /\ changes \in 0..MaxChanges

--------------------------------------------------------------------------
(* The device *)

\* ExpenseForm.save: queue.enqueue stamps the client id and adds the item.
Enter(c) ==
    /\ c \notin entered
    /\ entered' = entered \cup {c}
    /\ queue' = Append(queue, c)
    /\ UNCHANGED <<tab, req, table, catalog, rate, faults, changes>>

\* flushQueue copies the queue, unless a flush of this tab is in flight; the
\* flag that says so belongs to the tab, the queue to all of them.
FlushStart(t) ==
    /\ tab[t].pc = "idle" /\ queue # <<>>
    /\ tab' = [tab EXCEPT ![t] = [pc |-> "flush", items |-> queue]]
    /\ UNCHANGED <<entered, queue, req, table, catalog, rate, faults, changes>>

Stopped == [pc |-> "idle", items |-> <<>>]

\* A flush ends with its last item.
Rest(items) == IF items = <<>> THEN Stopped ELSE [pc |-> "flush", items |-> items]

\* postExpense sends the first item of the copy; any idle thread serves it.
Send(t) ==
    /\ tab[t].pc = "flush" /\ Free # {}
    /\ tab' = [tab EXCEPT ![t].pc = "wait"]
    /\ req' = [req EXCEPT ![CHOOSE r \in Free : TRUE] =
                  [Idle EXCEPT !.pc = "category", !.tab = t, !.client = Head(tab[t].items)]]
    /\ UNCHANGED <<entered, queue, table, catalog, rate, faults, changes>>

SettledAll == Results                       \* mutant: a refused item is dropped
SettledOk == {"ok", "duplicate"}            \* mutant: a conflict stops the flush
\* The answers after which an item leaves the queue: success and 409.
Settled == {"ok", "duplicate", "conflict"}

\* queue.remove deletes the item by its id and reads the queue anew; another
\* tab may have deleted it before.
Without(q, c) ==
    IF \E n \in 1..Len(q) : q[n] = c
    THEN LET n == CHOOSE n \in 1..Len(q) : q[n] = c
         IN  SubSeq(q, 1, n - 1) \o SubSeq(q, n + 1, Len(q))
    ELSE q

\* The answer arrives.  It settles the item, or stops the flush.
Answered(t, r) ==
    /\ req[r].tab = t /\ req[r].pc = "answer"
    /\ IF req[r].result \in Settled
       THEN /\ queue' = Without(queue, req[r].client)
            /\ tab' = [tab EXCEPT ![t] = Rest(Tail(@.items))]
       ELSE tab' = [tab EXCEPT ![t] = Stopped] /\ UNCHANGED queue
    /\ req' = [req EXCEPT ![r] = Idle]
    /\ UNCHANGED <<entered, table, catalog, rate, faults, changes>>

\* The thread that serves tab t goes on for nobody.
Orphaned(t) == [r \in Requests |-> IF req[r].tab = t THEN [req[r] EXCEPT !.tab = NoTab] ELSE req[r]]

\* No answer in 30 s, or the tab is closed or reloaded: the flush ends, the
\* item stays queued, and the server does not hear of it.
GiveUp(t) ==
    /\ faults < MaxFaults /\ faults' = faults + 1
    /\ tab[t].pc # "idle"
    /\ tab' = [tab EXCEPT ![t] = Stopped]
    /\ req' = Orphaned(t)
    /\ UNCHANGED <<entered, queue, table, catalog, rate, changes>>

--------------------------------------------------------------------------
(* POST /api/expenses: create_expense_sync, step by step *)

RowsOf(c) == {i \in Recorded : rows[i].client = c}
ReplayNever(r) == FALSE   \* mutant: the checks do not ask for a replay
Replay(r) == RowsOf(req[r].client) # {}   \* _is_replay

GoOn(r, step) == req' = [req EXCEPT ![r].pc = step]
Answer(r, result) == req' = [req EXCEPT ![r].pc = "answer", ![r].result = result]
reading == <<device, table, catalog, rate, faults, changes>>

\* _resolve_category_for_write.
CheckCategory(r) ==
    /\ req[r].pc = "category"
    /\ CASE category \in {"hidden", "retired"} ->
               IF Replay(r) THEN GoOn(r, "event") ELSE Answer(r, "refused")
         [] category \in {"inactive", "unplaced"} -> GoOn(r, "activate")
         [] category = "active" -> GoOn(r, "event")
    /\ UNCHANGED reading

\* activate_category, a transaction of its own: it clears is_hidden and is
\* refused when no template gives the category a group.
ActivateCategory(r) ==
    /\ req[r].pc = "activate"
    /\ IF category = "unplaced"
       THEN Answer(r, "refused") /\ UNCHANGED category
       ELSE GoOn(r, "event") /\ category' = IF category = "retired" THEN category ELSE "active"
    /\ UNCHANGED <<device, table, event, tag, auto, retagged, rate, faults, changes>>

\* The event of an expense has to be active, unless the request is a replay.
ValidateEvent(r) ==
    LET e == Payload[req[r].client].event
    IN  /\ req[r].pc = "event"
        /\ IF e = NoEvent \/ (event[e] = "inactive" /\ Replay(r)) \/ event[e] = "active"
           THEN GoOn(r, "tags") ELSE Answer(r, "refused")
        /\ UNCHANGED reading

ValidateTags(r) ==
    LET chosen == {tag[t] : t \in Payload[req[r].client].tags}
    IN  /\ req[r].pc = "tags"
        /\ IF chosen \subseteq {"active"} \/ ("gone" \notin chosen /\ Replay(r))
           THEN GoOn(r, "convert") ELSE Answer(r, "refused")
        /\ UNCHANGED reading

\* convert_to_accounting_amount: the rate it uses, and what it leaves stored.
Found == IF rate = "stale" THEN "stale" ELSE "official"
Kept == IF rate = "official" THEN "stored" ELSE rate

Convert(r) ==
    /\ req[r].pc = "convert"
    /\ IF rate = "none"
       THEN Answer(r, "refused") /\ UNCHANGED rate
       ELSE /\ req' = [req EXCEPT ![r].pc = "attach", ![r].rate = Found]
            /\ rate' = Kept
    /\ UNCHANGED <<device, table, catalog, faults, changes>>

\* resolve_effective_tag_ids: the tags chosen and the auto_tags of the event.
AttachTags(r) ==
    LET p == Payload[req[r].client]
    IN  /\ req[r].pc = "attach"
        /\ req' = [req EXCEPT ![r].pc = "insert",
                ![r].tags = IF p.event = NoEvent THEN p.tags ELSE p.tags \cup auto[p.event]]
        /\ UNCHANGED reading

SameChosen(i, r) ==   \* mutant: the auto_tags are not compared as stored
    /\ rows[i].event = Payload[req[r].client].event
    /\ rows[i].tags = Payload[req[r].client].tags
    /\ rows[i].rate = req[r].rate /\ ~rows[i].edited
\* The stored row is the one this request would insert.
SameData(i, r) ==
    /\ rows[i].event = Payload[req[r].client].event
    /\ rows[i].tags = req[r].tags
    /\ rows[i].rate = req[r].rate /\ ~rows[i].edited

TakenData(r) ==   \* mutant: a repetition is told by its data
    {i \in RowsOf(req[r].client) : SameData(i, r)}
\* ON CONFLICT (client_expense_id).
Taken(r) == RowsOf(req[r].client)

RefsExist(r) ==
    LET e == Payload[req[r].client].event
    IN  (e # NoEvent => event[e] # "gone") /\ \A t \in req[r].tags : tag[t] # "gone"

NewRow(r) == [client |-> req[r].client, event |-> Payload[req[r].client].event,
              tags |-> req[r].tags, rate |-> req[r].rate, edited |-> FALSE]

\* insert_expense: row, tags and logging job in one transaction, or, when the
\* client id is taken, a rollback and then a look at the row that has it.
Insert(r) ==
    /\ req[r].pc = "insert"
    /\ \/ ~RefsExist(r) /\ Answer(r, "refused") /\ UNCHANGED <<rows, lastRow>>
       \/ RefsExist(r) /\ Taken(r) # {} /\ GoOn(r, "compare") /\ UNCHANGED <<rows, lastRow>>
       \/ /\ RefsExist(r) /\ Taken(r) = {} /\ lastRow < MaxRows
          /\ lastRow' = lastRow + 1
          /\ rows' = [rows EXCEPT ![lastRow + 1] = NewRow(r)]
          /\ Answer(r, "ok")
    /\ UNCHANGED <<deleting, deleted, device, catalog, rate, faults, changes>>

\* _compare_with_stored, outside the transaction: the row may be gone by now.
Compare(r) ==
    /\ req[r].pc = "compare"
    /\ \/ Taken(r) = {} /\ Answer(r, "error")
       \/ \E i \in Taken(r) : Answer(r, IF SameData(i, r) THEN "duplicate" ELSE "conflict")
    /\ UNCHANGED reading

\* The answer to a request whose sender has given up.
Unheard(r) ==
    /\ req[r].pc = "answer" /\ req[r].tab = NoTab
    /\ req' = [req EXCEPT ![r] = Idle]
    /\ UNCHANGED reading

Serve(r) ==
    \/ CheckCategory(r) \/ ActivateCategory(r) \/ ValidateEvent(r) \/ ValidateTags(r)
    \/ Convert(r) \/ AttachTags(r) \/ Insert(r) \/ Compare(r) \/ Unheard(r)

\* The server stops and starts again: its threads are gone, and so are the
\* second halves of the deletions.  A new package may retire the category, or
\* bring it back.
Restart ==
    /\ faults < MaxFaults /\ faults' = faults + 1
    /\ req' = [r \in Requests |-> Idle]
    /\ tab' = [t \in Tabs |-> IF tab[t].pc = "wait" THEN Stopped ELSE tab[t]]
    /\ deleting' = {}
    /\ category' \in {category, IF category = "retired" THEN "inactive" ELSE "retired"}
    /\ UNCHANGED <<entered, queue, rows, lastRow, deleted, event, tag, auto, retagged,
                   rate, changes>>

--------------------------------------------------------------------------
(* Others change the rows, the catalog and the rate *)

Changed == changes < MaxChanges /\ changes' = changes + 1

\* _update_amount: a new amount is converted at the rate of the day.
Reamounted(row) == rate # "none" /\ row.rate = Found /\ rate' = Kept

\* PATCH /api/expenses/{id}: the tags are replaced, event and amount may be.
Edit(i, e, ts) ==
    /\ Changed /\ i \in Recorded
    /\ e # NoEvent => event[e] # "gone"
    /\ \A t \in ts : tag[t] # "gone"
    /\ \E used \in Used :
          LET row == [rows[i] EXCEPT !.event = e, !.tags = ts, !.rate = used, !.edited = TRUE]
          IN  /\ rows' = [rows EXCEPT ![i] = row]
              /\ \/ used = rows[i].rate /\ UNCHANGED rate
                 \/ Reamounted(row)
    /\ UNCHANGED <<lastRow, deleting, deleted, device, req, catalog, faults>>

\* DELETE /api/expenses/{id} is two statements, each committed at once: the
\* second fails on the foreign key while the logging job of the row is there,
\* which is as long as SheetLogging takes.
DeleteTags(i) ==
    /\ Changed /\ i \in Recorded \ deleting
    /\ rows' = [rows EXCEPT ![i].tags = {}, ![i].edited = TRUE]
    /\ deleting' = deleting \cup {i}
    /\ UNCHANGED <<lastRow, deleted, device, req, catalog, rate, faults>>

DeleteRow(i) ==
    /\ i \in deleting
    /\ deleting' = deleting \ {i}
    /\ \/ UNCHANGED <<rows, deleted>>
       \/ rows' = [rows EXCEPT ![i] = NoRow] /\ deleted' = deleted \cup {rows[i].client}
    /\ UNCHANGED <<lastRow, device, req, catalog, rate, faults, changes>>

\* Hidden, shown, put in a group, or switched off by a template that does not
\* show it and finds no expense of it.
ChangeCategory(status) ==
    /\ Changed
    /\ \/ category # "retired" /\ status = "hidden"
       \/ category \in {"hidden", "inactive", "unplaced"} /\ status = "active"
       \/ category = "active" /\ Recorded = {} /\ status = "inactive"
    /\ category' = status
    /\ UNCHANGED <<device, req, table, event, tag, auto, retagged, rate, faults>>

\* An event is deactivated, or deleted when nothing refers to it.
ChangeEvent(e, status) ==
    /\ Changed /\ event[e] \notin {"gone", status}
    /\ status = "gone" => \A i \in Recorded : rows[i].event # e
    /\ event' = [event EXCEPT ![e] = status]
    /\ auto' = IF status = "gone" THEN [auto EXCEPT ![e] = {}] ELSE auto
    /\ UNCHANGED <<device, req, table, category, tag, retagged, rate, faults>>

Retag(e, ts) ==
    /\ Changed /\ event[e] # "gone" /\ ts # auto[e]
    /\ \A t \in ts : tag[t] # "gone"
    /\ auto' = [auto EXCEPT ![e] = ts]
    /\ retagged' = retagged \cup {e}
    /\ UNCHANGED <<device, req, table, category, event, tag, rate, faults>>

ChangeTag(t, status) ==
    /\ Changed /\ tag[t] \notin {"gone", status}
    /\ status = "gone" => /\ \A i \in Recorded : t \notin rows[i].tags
                          /\ \A e \in Events : t \notin auto[e]
    /\ tag' = [tag EXCEPT ![t] = status]
    /\ UNCHANGED <<device, req, table, category, event, auto, retagged, rate, faults>>

\* The banks publish, or stop answering; a stored rate stays.
ChangeRate(found) ==
    /\ Changed /\ rate # "stored" /\ found \in Rates \ {rate, "stored"}
    /\ rate' = found
    /\ UNCHANGED <<device, req, table, catalog, faults>>

--------------------------------------------------------------------------

Init ==
    /\ entered = {} /\ queue = <<>>
    /\ tab = [t \in Tabs |-> Stopped]
    /\ req = [r \in Requests |-> Idle]
    /\ rows = [i \in RowIds |-> NoRow] /\ lastRow = 0 /\ deleting = {} /\ deleted = {}
    /\ category \in FirstCategory
    /\ event = [e \in Events |-> "active"] /\ tag = [t \in Tags |-> "active"]
    /\ auto = [e \in Events |-> Tags] /\ retagged = {}
    /\ rate \in FirstRates
    /\ faults = 0 /\ changes = 0

DeviceStep ==
    \/ \E c \in Clients : Enter(c)
    \/ \E t \in Tabs : FlushStart(t) \/ Send(t) \/ GiveUp(t)
    \/ \E t \in Tabs, r \in Requests : Answered(t, r)

RowStep ==
    \/ \E i \in RowIds, e \in Events \cup {NoEvent}, ts \in SUBSET Tags : Edit(i, e, ts)
    \/ \E i \in RowIds : DeleteTags(i) \/ DeleteRow(i)

CatalogStep ==
    \/ \E s \in CategoryStatus : ChangeCategory(s)
    \/ \E e \in Events, s \in RowStatus : ChangeEvent(e, s)
    \/ \E e \in Events, ts \in SUBSET Tags : Retag(e, ts)
    \/ \E t \in Tags, s \in RowStatus : ChangeTag(t, s)
    \/ \E f \in Rates : ChangeRate(f)

Next == DeviceStep \/ (\E r \in Requests : Serve(r)) \/ Restart \/ RowStep \/ CatalogStep

Spec == Init /\ [][Next]_vars

\* The retry timer of every tab starts a flush each 30 s, a flush goes on by
\* itself, and a thread of the server runs to its end.
Fairness ==
    /\ \A t \in Tabs :
          /\ WF_vars(FlushStart(t))
          /\ WF_vars(Send(t))
          /\ WF_vars(\E r \in Requests : Answered(t, r))
    /\ \A r \in Requests : WF_vars(Serve(r))
    /\ \A i \in RowIds : WF_vars(DeleteRow(i))

FairSpec == Spec /\ Fairness

--------------------------------------------------------------------------
(* Properties *)

\* What the user saved is in the queue or recorded, until the user deletes it
\* on the server: no lost answer, timeout, restart, refusal or second tab makes
\* the device drop an expense the server does not have.
NothingLost ==
    \A c \in entered : c \in Queued \/ RowsOf(c) # {} \/ c \in deleted

\* However often an expense is sent, by whichever tab, and whatever became of
\* its row in between, it has one row.
RecordedOnce == \A c \in Clients : Cardinality(RowsOf(c)) <= 1

\* _is_replay: the checks of the references never refuse a repetition of an
\* expense that is recorded as sent, although its category was hidden or
\* retired, or its event or tags deactivated, in the meantime; else the item
\* would stay in front of the queue for good.
ReplayPasses ==
    [][\A r \in Requests :
          (req[r].pc \in {"category", "activate", "event", "tags"} /\ req'[r].pc = "answer")
             => \A i \in RowsOf(req[r].client) : rows[i].edited]_vars

\* A repetition is a 409 ("already recorded with different data") only when the
\* row was edited, the auto_tags of the event changed, or a rate that was not
\* stored has moved on.
ConflictHasCause ==
    [][\A r \in Requests :
          (req[r].pc = "compare" /\ req'[r].pc = "answer" /\ req'[r].result = "conflict")
             => \E i \in RowsOf(req[r].client) :
                   \/ rows[i].edited
                   \/ rows[i].event \in retagged
                   \/ rows[i].rate # req[r].rate]_vars

\* No rate, a category or a reference that is not accepted: the item in front
\* of the queue, and all those behind it, wait for the user or the bank.
Refusable(c) ==
    \/ rate = "none"
    \/ category \notin {"active", "inactive"}
    \/ Payload[c].event # NoEvent /\ event[Payload[c].event] # "active"
    \/ \E t \in Payload[c].tags : tag[t] # "active"

\* The queue empties: an item leaves it unless some item in it is refused.
QueueEmpties ==
    \A c \in Clients : []<>(c \notin Queued \/ \E d \in Queued : Refusable(d))
=============================================================================
