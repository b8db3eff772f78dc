---------------------------- MODULE SheetLogging ----------------------------
(***************************************************************************)
(* Logging expenses to Google Sheets: a new expense gets a job in          *)
(* sheet_logging_jobs in its own transaction, and drain_pending works the  *)
(* queue off in sweeps, one row after the other, in a worker thread.  The  *)
(* spreadsheet holds one row per (month, category, group); an expense is   *)
(* appended to the formula of its row, and column J of the row names the   *)
(* expense appended last, so that a repeated append can be recognised.     *)
(*                                                                         *)
(* One action is one SQLite transaction or one request to the Sheets API;  *)
(* between two of them users and the operator act.  Abstractions:          *)
(*   - the (year, month, category, group) of a row is its rank in the      *)
(*     sheet's sort order, 0 for a row whose cells are still empty;        *)
(*   - the snapshot's years are spliced instead of read again after an     *)
(*     insertion: the same, unless an insertion was refused before;        *)
(*   - a formula is the number of times each expense is in it;             *)
(*   - claim tokens are left out: there is one drain thread, so a job in   *)
(*     progress carries either its token or one of an earlier server run,  *)
(*     which a new claim replaces;                                         *)
(*   - the wakeup of the sweep is left out: the 300 second timeout is      *)
(*     always there, and a notification only makes the sweep come earlier. *)
(***************************************************************************)
EXTENDS Integers, SequencesExt

CONSTANTS
    MaxExpenses,  \* bound: expenses ever created (ids are AUTOINCREMENT)
    MaxKeys,      \* bound: (month, category, group) combinations
    PerMonth,     \* how many consecutive ones belong to one month
    Cap,          \* sheet_logging_drain_max_attempts_per_iteration
    Unrated,      \* expenses no exchange rate is ever found for
    MaxFaults,    \* bound: failures of requests and of the database
    MaxCrashes,   \* bound: crashes or shutdowns of the server process
    Faults        \* which failures may happen, see FaultKinds

FaultKinds ==
    { "transient",  \* a request is not carried out: network, 429, 5xx
      "lost",       \* a request is carried out and its answer lost: a timeout
      "permanent",  \* a request is refused (another 4xx), or a Python error
      "norate",     \* no exchange rate for the date of the expense at the moment
      "locked",     \* "database is locked" in a statement of the drain
      "requeue",    \* the operator runs requeue-sheet-jobs
      "remap" }     \* the map tab or the expense's category changes

ASSUME BoundsAssumption ==
    /\ MaxExpenses \in Nat /\ MaxKeys \in Nat
    /\ PerMonth \in Nat \ {0} /\ Cap \in Nat \ {0}
    /\ MaxFaults \in Nat /\ MaxCrashes \in Nat
ASSUME FaultsAssumption == Faults \subseteq FaultKinds
ASSUME UnratedAssumption == Unrated \subseteq 1..MaxExpenses

Expenses == 1..MaxExpenses
Keys == 1..MaxKeys

VARIABLES
    expense,   \* table expenses, with expense_tags and the row it projects to
    job,       \* table sheet_logging_jobs
    sheet,     \* the rows of the first worksheet below its header
    view,      \* the drain's snapshot of the row keys, one per sweep
    pc,        \* where the drain is
    todo,      \* the listed jobs this sweep has not come to yet
    cur,       \* the expense being drained
    target,    \* the row key it was projected to
    row,       \* the position of that row
    tries,     \* attempts of this sweep
    err,       \* what went wrong with it
    backoff,   \* the circuit breaker is open
    faults,    \* failures so far
    crashes    \* how often the server went down

memory == <<view, todo, cur, target, row, tries, err>>
vars == <<expense, job, sheet, view, pc, todo, cur, target, row, tries, err, backoff,
          faults, crashes>>
-----------------------------------------------------------------------------
ExpenseRow == [state : {"absent", "live", "deleted"}, source : {"manual", "receipt"},
               key : 0..MaxKeys, tags : BOOLEAN]
NoExpense(s) == [state |-> s, source |-> "manual", key |-> 0, tags |-> FALSE]

JobRow == [status : {"none", "pending", "in_progress", "poisoned"}, age : {"fresh", "old"}]
Job(s) == [status |-> s, age |-> "fresh"]

SheetRow == [key : 0..MaxKeys, marker : 0..MaxExpenses,
             times : [Expenses -> 0..2]]   \* 2 stands for "more than once"
EmptyRow(k) == [key |-> k, marker |-> 0, times |-> [e \in Expenses |-> 0]]
BlankRow == EmptyRow(0)
KeysOf(s) == [i \in 1..Len(s) |-> s[i].key]

DrainPC == {"down", "wait", "open", "next", "resolve", "rate", "insert", "fill", "reread",
            "read", "write", "clear", "release", "poison"}

Init ==
    /\ expense = [e \in Expenses |-> NoExpense("absent")]
    /\ job = [e \in Expenses |-> Job("none")]
    /\ sheet = <<>>
    /\ view = <<>>
    /\ pc = "wait"
    /\ todo = {}
    /\ cur = 0 /\ target = 0 /\ row = 0 /\ tries = 0
    /\ err = "none"
    /\ backoff = FALSE
    /\ faults = 0 /\ crashes = 0

Live(e) == expense[e].state = "live"
ServerUp == pc # "down"
Working == pc \notin {"down", "wait", "open", "next"}   \* a job is in hand

May(f) == f \in Faults /\ faults < MaxFaults
-----------------------------------------------------------------------------
(* Users and the operator. *)

\* insert_expense or the receipt pipeline: the expense, its tags and its job commit
\* together (enqueue_for_logging).
Create(e) ==
    /\ ServerUp
    /\ expense[e].state = "absent"
    /\ \A q \in Expenses : q < e => expense[q].state # "absent"
    /\ \E k \in Keys, src \in {"manual", "receipt"} :
         expense' = [expense EXCEPT ![e] = [state |-> "live", source |-> src, key |-> k,
                                            tags |-> src = "manual"]]
    /\ job' = [job EXCEPT ![e] = Job("pending")]
    /\ UNCHANGED <<sheet, memory, pc, backoff, faults, crashes>>

\* delete_receipt_cascade: the jobs first, then the expenses, in one transaction.
DeleteReceipt(e) ==
    /\ ServerUp /\ Live(e) /\ expense[e].source = "receipt"
    /\ expense' = [expense EXCEPT ![e] = NoExpense("deleted")]
    /\ job' = [job EXCEPT ![e] = Job("none")]
    /\ UNCHANGED <<sheet, memory, pc, backoff, faults, crashes>>

\* delete_expense_sync: two statements, each committed on its own.  The first removes
\* the tags; the second violates the foreign key of sheet_logging_jobs while a job
\* is left, and the request fails.
DeleteManual(e) ==
    /\ ServerUp /\ Live(e) /\ expense[e].source = "manual"
    /\ expense' = [expense EXCEPT ![e] =
                     IF job[e].status = "none" THEN NoExpense("deleted")
                     ELSE [expense[e] EXCEPT !.tags = FALSE]]
    /\ UNCHANGED <<job, sheet, memory, pc, backoff, faults, crashes>>

\* A category correction, or an edit of the map tab: nothing is enqueued.
Remap(e, k) ==
    /\ "remap" \in Faults
    /\ Live(e)
    /\ expense' = [expense EXCEPT ![e] = [expense[e] EXCEPT !.key = k]]
    /\ UNCHANGED <<job, sheet, memory, pc, backoff, faults, crashes>>

\* inv requeue-sheet-jobs, in a process of its own: every poisoned job.
Requeue ==
    /\ "requeue" \in Faults
    /\ \E e \in Expenses : job[e].status = "poisoned"
    /\ job' = [e \in Expenses |-> IF job[e].status = "poisoned" THEN Job("pending") ELSE job[e]]
    /\ UNCHANGED <<expense, sheet, memory, pc, backoff, faults, crashes>>
-----------------------------------------------------------------------------
(* The sweep: list, open, then one job after the other. *)

\* list_logging_jobs: pending jobs, and claims older than the stale timeout.
PendingOnly(e) == job[e].status = "pending"    \* mutant: orphans stay
Claimable(e) ==
    \/ job[e].status = "pending"
    \/ job[e].status = "in_progress" /\ job[e].age = "old"
Listed == {e \in Expenses : Claimable(e)}

BreakerClosed == ~backoff

StartSweep ==
    /\ pc = "wait" /\ BreakerClosed
    /\ Listed # {}
    /\ todo' = Listed
    /\ pc' = "open"
    /\ UNCHANGED <<expense, job, sheet, view, cur, target, row, tries, err, backoff, faults, crashes>>

Forget ==
    /\ view' = <<>> /\ todo' = {}
    /\ cur' = 0 /\ target' = 0 /\ row' = 0 /\ tries' = 0 /\ err' = "none"
EndSweep == pc' = "wait" /\ Forget

\* _open_sheet_view reads the keys of all rows once for the whole sweep.
OpenSheetView ==
    /\ pc = "open"
    /\ \/ /\ view' = KeysOf(sheet)
          /\ pc' = "next"
          /\ UNCHANGED <<todo, cur, target, row, tries, err, backoff, faults>>
       \/ May("transient") /\ EndSweep /\ backoff' = TRUE /\ faults' = faults + 1
       \/ May("permanent") /\ EndSweep /\ UNCHANGED backoff /\ faults' = faults + 1
    /\ UNCHANGED <<expense, job, sheet, crashes>>

CapReached == tries >= Cap

SweepDone ==
    /\ pc = "next"
    /\ todo = {} \/ CapReached
    /\ EndSweep
    /\ UNCHANGED <<expense, job, sheet, backoff, faults, crashes>>

\* The job in hand is finished, however it went.
Finish ==
    /\ pc' = "next"
    /\ tries' = tries + 1
    /\ cur' = 0 /\ target' = 0 /\ row' = 0 /\ err' = "none"
    /\ UNCHANGED <<view, todo>>

\* claim_logging_job; a lost race or a locked database counts as an attempt.
ClaimJob ==
    /\ pc = "next" /\ todo # {} /\ ~CapReached
    /\ \E e \in todo :
         /\ \A q \in todo : e <= q
         /\ todo' = todo \ {e}
         /\ \/ /\ Claimable(e)
               /\ job' = [job EXCEPT ![e] = Job("in_progress")]
               /\ cur' = e /\ pc' = "resolve"
               /\ UNCHANGED <<tries, faults>>
            \/ /\ ~Claimable(e)
               /\ tries' = tries + 1
               /\ UNCHANGED <<job, cur, pc, faults>>
            \/ /\ May("locked") /\ faults' = faults + 1
               /\ tries' = tries + 1
               /\ UNCHANGED <<job, cur, pc>>
    /\ UNCHANGED <<expense, sheet, view, target, row, err, backoff, crashes>>

\* poison_logging_job updates whatever row is there.
PoisonJob(e) ==
    job' = [job EXCEPT ![e] = IF job[e].status = "none" THEN job[e]
                              ELSE [job[e] EXCEPT !.status = "poisoned"]]

\* An exception on the way: the claim is released, then the sweep looks at its kind.
Fail(kind) ==
    /\ pc' = "release" /\ err' = kind
    /\ faults' = faults + 1
    /\ UNCHANGED <<view, todo, cur, target, row, tries>>

\* _claim_and_resolve after the claim.
Resolve ==
    /\ pc = "resolve"
    /\ \/ /\ ~Live(cur)     \* the orphan's job went with its expense
          /\ job' = [job EXCEPT ![cur] = Job("none")]
          /\ Finish /\ UNCHANGED faults
       \/ /\ Live(cur)
          /\ target' = expense[cur].key
          /\ pc' = "rate"
          /\ UNCHANGED <<job, view, todo, cur, row, tries, err, faults>>
       \/ /\ May("permanent")   \* no client_expense_id, or no projection: poisoned
          /\ PoisonJob(cur)
          /\ faults' = faults + 1
          /\ Finish
       \/ May("locked") /\ Fail("permanent") /\ UNCHANGED job
    /\ UNCHANGED <<expense, sheet, backoff, crashes>>

\* Positions in the snapshot: the row of a key; the block of its month; where a missing
\* row belongs, which is inside the block of its month or before the next block.  The
\* API does not return empty rows at the end, so "after all rows" is after the last
\* one that has a key.
First(S) == {i \in S : \A j \in S : i <= j}
AfterLast(S) == {i \in 1..(Len(view) + 1) : (i = 1 \/ i - 1 \in S) /\ \A j \in S : j < i}
RowsOf(k) == {i \in 1..Len(view) : view[i] = k}
Month(k) == (k + PerMonth - 1) \div PerMonth
Filled == {i \in 1..Len(view) : view[i] > 0}
Block(k) == {i \in Filled : Month(view[i]) = Month(k)}
Behind(k) == {i \in IF Block(k) # {} THEN Block(k) ELSE Filled : view[i] > k}
PlaceFor(k) ==
    IF Behind(k) # {} THEN First(Behind(k))
    ELSE IF Block(k) # {} THEN AfterLast(Block(k)) ELSE AfterLast(Filled)

\* get_rate and _derive_app_currency_amount_for_sheet, then ensure_category_row: use
\* the row the snapshot shows, or make one.
Rate ==
    /\ pc = "rate"
    /\ \/ /\ cur \notin Unrated
          /\ \/ row' \in First(RowsOf(target)) /\ pc' = "read"
             \/ RowsOf(target) = {} /\ row' \in PlaceFor(target) /\ pc' = "insert"
          /\ UNCHANGED <<view, todo, cur, target, tries, err, faults>>
       \/ /\ cur \in Unrated
          /\ pc' = "release" /\ err' = "norate"
          /\ UNCHANGED <<view, todo, cur, target, row, tries, faults>>
       \/ May("norate") /\ Fail("norate")
    /\ UNCHANGED <<expense, job, sheet, backoff, crashes>>

\* One request that changes the sheet to s and goes on at next.
Request(s, next) ==
    \/ /\ sheet' = s
       /\ pc' = next
       /\ UNCHANGED <<view, todo, cur, target, row, tries, err, faults>>
    \/ May("lost") /\ sheet' = s /\ Fail("transient")
    \/ May("transient") /\ UNCHANGED sheet /\ Fail("transient")
    \/ May("permanent") /\ UNCHANGED sheet /\ Fail("permanent")

\* insert_logging_row: an empty row, then its cells, B and J empty.
InsertRow ==
    /\ pc = "insert"
    /\ Request(InsertAt(sheet, row, BlankRow), "fill")
    /\ UNCHANGED <<expense, job, backoff, crashes>>

FillRow ==
    /\ pc = "fill"
    /\ Request([sheet EXCEPT ![row] = EmptyRow(target)], "reread")
    /\ UNCHANGED <<expense, job, backoff, crashes>>

\* ensure_category_row refreshes the snapshot after an insertion.
NotRefreshed == view      \* mutant: the sweep keeps its first snapshot
Refreshed == KeysOf(sheet)

Reread ==
    /\ pc = "reread"
    /\ \/ /\ view' = Refreshed
          /\ pc' = "read"
          /\ UNCHANGED <<todo, cur, target, row, tries, err, faults>>
       \/ May("transient") /\ Fail("transient")
       \/ May("permanent") /\ Fail("permanent")
    /\ UNCHANGED <<expense, job, sheet, backoff, crashes>>

\* append_expense_atomic, the read: is this expense the last one of the row?
NotRecorded(e, r) == FALSE    \* mutant: column J is not looked at
Recorded(e, r) == sheet[r].marker = e

ReadMarker ==
    /\ pc = "read"
    /\ \/ /\ pc' = IF Recorded(cur, row) THEN "clear" ELSE "write"
          /\ UNCHANGED <<memory, faults>>
       \/ May("transient") /\ Fail("transient")
       \/ May("permanent") /\ Fail("permanent")
    /\ UNCHANGED <<expense, job, sheet, backoff, crashes>>

\* ... the write: formula and marker in one batch_update.
Plus(r, e) == [key |-> r.key, marker |-> e,
               times |-> [r.times EXCEPT ![e] = IF @ < 2 THEN @ + 1 ELSE @]]
Appended(e, r) == [sheet EXCEPT ![r] = Plus(sheet[r], e)]

WriteRow ==
    /\ pc = "write"
    /\ Request(Appended(cur, row), "clear")
    /\ UNCHANGED <<expense, job, backoff, crashes>>

\* clear_logging_job; a job that is gone is cleared "by force", which changes nothing.
ClearJob ==
    /\ pc = "clear"
    /\ \/ /\ job' = [job EXCEPT ![cur] = Job("none")]
          /\ Finish
          /\ UNCHANGED faults
       \/ May("locked") /\ Fail("permanent") /\ UNCHANGED job
    /\ UNCHANGED <<expense, sheet, backoff, crashes>>

\* release_logging_claim.
ReleaseForgets(e) ==   \* mutant: an exception drops the job
    job' = [job EXCEPT ![e] = Job("none")]
ReleaseClaim(e) ==
    job' = [job EXCEPT ![e] = IF @.status = "none" THEN @ ELSE Job("pending")]

HaltContinues ==   \* mutant: the sweep goes on after a transient failure
    Finish /\ backoff' = TRUE
Halt == EndSweep /\ backoff' = TRUE

\* The claim is released, best effort.  Then a transient failure halts the sweep behind
\* the circuit breaker, another one poisons this job, and without a rate the sweep just
\* goes on.
Release ==
    /\ pc = "release"
    /\ \/ ReleaseClaim(cur) /\ UNCHANGED faults
       \/ May("locked") /\ UNCHANGED job /\ faults' = faults + 1
    /\ \/ err = "transient" /\ Halt
       \/ err = "permanent" /\ pc' = "poison" /\ UNCHANGED <<memory, backoff>>
       \/ err = "norate" /\ Finish /\ UNCHANGED backoff
    /\ UNCHANGED <<expense, sheet, crashes>>

\* _poison_failing_job; an exception here leaves drain_pending.
Poison ==
    /\ pc = "poison"
    /\ \/ /\ PoisonJob(cur)
          /\ Finish
          /\ UNCHANGED faults
       \/ May("locked") /\ EndSweep /\ UNCHANGED job /\ faults' = faults + 1
    /\ UNCHANGED <<expense, sheet, backoff, crashes>>
-----------------------------------------------------------------------------
(* Time, crashes and restarts. *)

BackoffOver ==
    /\ backoff
    /\ backoff' = FALSE
    /\ UNCHANGED <<expense, job, sheet, memory, pc, faults, crashes>>

\* The drain finishes a job it holds within the stale timeout of ten minutes.
ClaimAges(e) ==
    /\ job[e].status = "in_progress" /\ job[e].age = "fresh"
    /\ ~(Working /\ cur = e)
    /\ job' = [job EXCEPT ![e] = [status |-> "in_progress", age |-> "old"]]
    /\ UNCHANGED <<expense, sheet, memory, pc, backoff, faults, crashes>>

Crash ==
    /\ crashes < MaxCrashes
    /\ ServerUp
    /\ pc' = "down" /\ Forget
    /\ backoff' = FALSE
    /\ crashes' = crashes + 1
    /\ UNCHANGED <<expense, job, sheet, faults>>

\* The task sweeps once before it first waits.
Restart ==
    /\ pc = "down"
    /\ pc' = "wait"
    /\ UNCHANGED <<expense, job, sheet, memory, backoff, faults, crashes>>
-----------------------------------------------------------------------------
DrainStep ==
    \/ StartSweep \/ OpenSheetView \/ SweepDone \/ ClaimJob \/ Resolve \/ Rate
    \/ InsertRow \/ FillRow \/ Reread \/ ReadMarker \/ WriteRow \/ ClearJob
    \/ Release \/ Poison \/ Restart

Next ==
    \/ \E e \in Expenses : Create(e) \/ DeleteReceipt(e) \/ DeleteManual(e) \/ ClaimAges(e)
    \/ \E e \in Expenses, k \in Keys : Remap(e, k)
    \/ Requeue \/ BackoffOver \/ DrainStep \/ Crash

Spec == Init /\ [][Next]_vars

\* The drain thread runs, the loop waits 300 seconds at most, the circuit breaker
\* closes after half an hour at most, claims age.
Fairness ==
    /\ WF_vars(DrainStep)
    /\ WF_vars(BackoffOver)
    /\ \A e \in Expenses : WF_vars(ClaimAges(e))

FairSpec == Spec /\ Fairness
-----------------------------------------------------------------------------
(* Properties. *)

TypeOK ==
    /\ expense \in [Expenses -> ExpenseRow]
    /\ job \in [Expenses -> JobRow]
    /\ sheet \in Seq(SheetRow)
    /\ view \in Seq(0..MaxKeys)
    /\ pc \in DrainPC
    /\ todo \subseteq Expenses
    /\ cur \in 0..MaxExpenses /\ (Working => cur \in Expenses)
    /\ target \in 0..MaxKeys
    /\ row \in Nat
    /\ tries \in 0..Cap
    /\ err \in {"none", "transient", "permanent", "norate"}
    /\ backoff \in BOOLEAN
    /\ faults \in 0..MaxFaults
    /\ crashes \in 0..MaxCrashes

InSheet(e) == \E i \in 1..Len(sheet) : sheet[i].times[e] > 0

\* No expense is forgotten: one without a logging job is in the sheet, whatever
\* failed or crashed on the way (clear_logging_job comes after the append).
NothingForgotten ==
    \A e \in Expenses : Live(e) /\ job[e].status = "none" => InSheet(e)

\* What the outbox sees: which expenses are stored, which have a job, which are in the sheet.
OutboxStage == [e \in Expenses |-> expense[e].state]
OutboxOwed == {e \in Expenses : job[e].status # "none"}
OutboxShown == {e \in Expenses : InSheet(e)}

OUTBOX == INSTANCE ExpenseOutbox
    WITH Expenses <- Expenses, stage <- OutboxStage, owed <- OutboxOwed, shown <- OutboxShown

\* The drain implements the outbox, over failures, crashes and re-queues: a stored expense
\* is owed until it is in the sheet or deleted, one that is settled is never queued again,
\* a request adds one expense at most, which is still owed or deleted, and none disappears.
ImplementsOutbox == OUTBOX!Spec

\* "If a previous append for the same expense reached Google but the response was
\* lost (timeout), the next attempt sees the marker and skips the duplicate write"
\* (google-sheets-setup.md): an expense is in the sheet once.
LoggedOnce ==
    \A e \in Expenses :
        /\ \A i \in 1..Len(sheet) : sheet[i].times[e] <= 1
        /\ \A i, j \in 1..Len(sheet) :
              sheet[i].times[e] > 0 /\ sheet[j].times[e] > 0 => i = j

\* An expense is added to the row of its month, category and group, though positions
\* are looked up in a snapshot taken before rows were inserted (_append_row_to_sheet).
RightRow ==
    \A i \in 1..Len(sheet), e \in Expenses :
        sheet[i].times[e] > 0 /\ Live(e) => sheet[i].key = expense[e].key

\* One row per month, category and group, in the sort order of _find_insertion_row,
\* also when an insertion broke off half-way and was repeated.
RowsInOrder ==
    \A i, j \in 1..Len(sheet) :
        i < j /\ sheet[i].key > 0 /\ sheet[j].key > 0 => sheet[i].key < sheet[j].key

\* The rows stay unique and sorted and every expense goes to its own one, over
\* broken-off insertions and snapshots that insertions shifted.
SheetInOrder == RowsInOrder /\ RightRow

\* "The drain is the sheet's only writer, so the snapshot only goes stale on a manual
\* edit mid-sweep" (_SheetView): between two jobs it shows the rows as they are.
SnapshotCurrent == pc = "next" => view = KeysOf(sheet)

\* "Transient Sheets errors halt the sweep": while the circuit breaker is open no
\* request changes the sheet.
QuietInBackoff == [][backoff => UNCHANGED sheet]_vars

\* "Pending jobs are retried automatically": every job of an expense that has a rate
\* leaves the queue, logged, poisoned or deleted, as long as fewer expenses are without
\* a rate than a sweep has attempts.
QueueMoves ==
    \A e \in Expenses \ Unrated :
        job[e].status \in {"pending", "in_progress"} ~>
            job[e].status \notin {"pending", "in_progress"}
=============================================================================
