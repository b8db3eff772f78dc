--------------------------- MODULE IncomeLogging ---------------------------
(***************************************************************************)
(* Logging income to the "Income" worksheet: one job and one sheet row per *)
(* month.  Every change of a month's income sets its job back to pending;  *)
(* drain_income_pending claims the jobs one after the other, sums the      *)
(* month up, writes the sum into the row of the month and deletes the job. *)
(*                                                                         *)
(* One action is one SQLite transaction or one request to the Sheets API;  *)
(* reads that follow each other are one.  A month is a number, later ones  *)
(* greater, with a year and a place in it.  The drain creates the          *)
(* worksheet in two requests, looks the row of the month up below the      *)
(* first row, and updates it or appends one.  Unlike the jobs of expenses  *)
(* these have no claim token and are never stale.                          *)
(* The names differ from those of SheetLogging, whose drain runs before    *)
(* this one in the same task, for a module that speaks of both.            *)
(***************************************************************************)
EXTENDS Integers, Sequences, Functions

CONSTANTS
    Incomes,      \* ids of income records (AUTOINCREMENT, never used again)
    MaxMonth,     \* bound: months 1..MaxMonth
    InYear,       \* months of a year: 12
    Undated,      \* months whose row has no date in column A that can be read
    MaxAmount,    \* bound: amount of one record
    MaxFailures,  \* bound: failures of requests and of the database
    MaxOutages,   \* bound: crashes or shutdowns of the server process
    Failures      \* what may happen beside the drain, see FailureKinds

FailureKinds ==
    { "transient",  \* a request is not carried out: network, 429, 5xx
      "lost",       \* a request is carried out and its answer lost
      "permanent",  \* a request is refused (another 4xx)
      "locked",     \* "database is locked" in a statement of the drain
      "norate",     \* no exchange rate for the first of the month at the moment
      "requeue",    \* the operator runs requeue-sheet-jobs
      "busy",       \* the user changes a month the drain has in hand
      "thin" }      \* the user deletes one of several records of a month

ASSUME MonthsAssumption ==
    /\ MaxMonth \in Nat /\ InYear \in Nat \ {0}
    /\ MaxAmount \in Nat /\ MaxFailures \in Nat /\ MaxOutages \in Nat
ASSUME FailuresAssumption == Failures \subseteq FailureKinds

Months == 1..MaxMonth
ASSUME UndatedAssumption == Undated \subseteq Months

Year(m) == (m - 1) \div InYear
Number(m) == (m - 1) % InYear

VARIABLES
    income,       \* table income: month 0 for a record not there
    monthJob,     \* table income_logging_jobs: the status of each month's row
    created,      \* the worksheet "Income" exists
    worksheet,    \* its rows
    drain,        \* where the drain is
    due,          \* the listed months this sweep has not come to yet
    month,        \* the month in hand
    cell,         \* what the drain is going to write for it
    found,        \* the row it found for it, 0 for none
    paused,       \* the circuit breaker of the income drain is open
    failures, outages

sweep == <<due, month, cell, found>>
spreadsheet == <<created, worksheet>>
incomeVars == <<income, monthJob, created, worksheet, drain, due, month, cell, found, paused,
                failures, outages>>

Record == [month : 0..MaxMonth, amount : 0..MaxAmount]
NoRecord == [month |-> 0, amount |-> 0]
JobStatus == {"none", "pending", "in_progress", "poisoned"}
Cell == [amount : Nat, currency : {"none", "app", "accounting"}]
NoCell == [amount |-> 0, currency |-> "none"]
\* columns A and E: the month; B: the amount; F: the marker
MonthRow == [month : 0..MaxMonth, cell : Cell, marker : 0..MaxMonth]
Header == [month |-> 0, cell |-> NoCell, marker |-> 0]
DrainPlaces == {"down", "wait", "next", "sum", "open", "create", "header", "look", "write",
                "clear", "raise", "poison", "mark"}

Of(m) == {i \in Incomes : income[i].month = m}
Amounts(m) == [i \in Of(m) |-> income[i].amount]
Sum(f) == FoldFunction(+, 0, f)
Total(m) == Sum(Amounts(m))

IncomeInit ==
    /\ income = [i \in Incomes |-> NoRecord]
    /\ monthJob = [m \in Months |-> "none"]
    /\ created = FALSE /\ worksheet = <<>>
    /\ drain = "wait"
    /\ due = {} /\ month = 0 /\ cell = NoCell /\ found = 0
    /\ paused = FALSE
    /\ failures = 0 /\ outages = 0

Serving == drain # "down"
InHand(m) == drain \notin {"down", "wait", "next"} /\ month = m
Editable(m) == Serving /\ (InHand(m) => "busy" \in Failures)
Possible(f) == f \in Failures /\ failures < MaxFailures
-----------------------------------------------------------------------------
(* The user's requests, each one transaction, and the operator. *)

\* _enqueue_logging: insert the row, or set it back to pending whatever it was.
Enqueue(m) == [monthJob EXCEPT ![m] = "pending"]

Insert(i, m, a) ==
    /\ Editable(m)
    /\ income[i] = NoRecord
    /\ income' = [income EXCEPT ![i] = [month |-> m, amount |-> a]]
    /\ monthJob' = Enqueue(m)
    /\ UNCHANGED <<spreadsheet, drain, sweep, paused, failures, outages>>

\* update_income: the new month is queued; the old one too while it has records,
\* otherwise its job goes.
Update(i, m, a) ==
    LET old == income[i].month IN
    /\ old # 0 /\ Editable(m) /\ Editable(old)
    /\ income' = [income EXCEPT ![i] = [month |-> m, amount |-> a]]
    /\ monthJob' = IF old = m THEN Enqueue(m)
                   ELSE [Enqueue(m) EXCEPT ![old] = IF Of(old) = {i} THEN "none" ELSE "pending"]
    /\ UNCHANGED <<spreadsheet, drain, sweep, paused, failures, outages>>

\* delete_income: the job goes with the last record; otherwise it stays as it is.
Delete(i) ==
    LET m == income[i].month IN
    /\ m # 0 /\ Editable(m)
    /\ Of(m) # {i} => "thin" \in Failures
    /\ income' = [income EXCEPT ![i] = NoRecord]
    /\ monthJob' = IF Of(m) = {i} THEN [monthJob EXCEPT ![m] = "none"] ELSE monthJob
    /\ UNCHANGED <<spreadsheet, drain, sweep, paused, failures, outages>>

RequeueMonths ==
    /\ "requeue" \in Failures
    /\ \E m \in Months : monthJob[m] = "poisoned"
    /\ monthJob' = [m \in Months |-> IF monthJob[m] = "poisoned" THEN "pending" ELSE monthJob[m]]
    /\ UNCHANGED <<income, spreadsheet, drain, sweep, paused, failures, outages>>
-----------------------------------------------------------------------------
(* The sweep. *)

\* _list_income_jobs: pending ones only.
ListedNewest ==   \* mutant: one month a sweep
    {m \in Months : /\ monthJob[m] = "pending"
                    /\ \A n \in Months : monthJob[n] = "pending" => n <= m}
ListedMonths == {m \in Months : monthJob[m] = "pending"}

StartIncomeDrain ==
    /\ drain = "wait" /\ ~paused
    /\ ListedMonths # {}
    /\ due' = ListedMonths
    /\ drain' = "next"
    /\ UNCHANGED <<income, monthJob, spreadsheet, month, cell, found, paused, failures, outages>>

ForgetMonths == due' = {} /\ month' = 0 /\ cell' = NoCell /\ found' = 0
MonthDone == drain' = "next" /\ month' = 0 /\ cell' = NoCell /\ found' = 0 /\ UNCHANGED due

IncomeDrainDone ==
    /\ drain = "next" /\ due = {}
    /\ drain' = "wait" /\ ForgetMonths
    /\ UNCHANGED <<income, monthJob, spreadsheet, paused, failures, outages>>

\* _claim_income_job, newest month first; without a claim the month is skipped.
ClaimIncomeJob ==
    /\ drain = "next"
    /\ \E m \in due :
         /\ \A n \in due : n <= m
         /\ due' = due \ {m}
         /\ \/ /\ monthJob[m] = "pending"
               /\ monthJob' = [monthJob EXCEPT ![m] = "in_progress"]
               /\ month' = m /\ drain' = "sum"
               /\ UNCHANGED failures
            \/ /\ monthJob[m] # "pending" /\ UNCHANGED <<monthJob, month, drain, failures>>
            \/ /\ Possible("locked") /\ failures' = failures + 1
               /\ UNCHANGED <<monthJob, month, drain>>
    /\ UNCHANGED <<income, spreadsheet, cell, found, paused, outages>>

\* get_income_total_for_month, and the amount to write: converted when there is a
\* rate, as it is in the accounting currency when there is none.
Unconverted == [amount |-> Total(month), currency |-> "accounting"]
Converted == [amount |-> Total(month), currency |-> "app"]

SumUp ==
    /\ drain = "sum"
    /\ \/ /\ Of(month) = {}     \* an orphan: its job is cleared
          /\ monthJob' = [monthJob EXCEPT ![month] = "none"]
          /\ MonthDone
          /\ UNCHANGED failures
       \/ /\ Of(month) # {}
          /\ cell' = Converted
          /\ drain' = "open"
          /\ UNCHANGED <<monthJob, due, month, found, failures>>
       \/ /\ Of(month) # {} /\ Possible("norate")
          /\ cell' = Unconverted
          /\ drain' = "open"
          /\ failures' = failures + 1
          /\ UNCHANGED <<monthJob, due, month, found>>
    /\ UNCHANGED <<income, spreadsheet, paused, outages>>

\* An exception: what was read and computed is gone.
Fails(kind) ==
    /\ drain' = kind
    /\ failures' = failures + 1
    /\ cell' = NoCell /\ found' = 0
    /\ UNCHANGED <<due, month>>

\* A read or a write of the spreadsheet that is not carried out.
Refused ==
    \/ Possible("transient") /\ Fails("raise")
    \/ Possible("permanent") /\ Fails("poison")

\* get_sheet and the search for the title in _get_or_create_income_worksheet.
OpenWorksheet ==
    /\ drain = "open"
    /\ \/ /\ drain' = IF created THEN "look" ELSE "create"
          /\ UNCHANGED <<sweep, failures>>
       \/ Refused
    /\ UNCHANGED <<income, monthJob, spreadsheet, paused, outages>>

\* add_worksheet, and in a request of its own the header, into row 1.
AddWorksheet ==
    /\ drain = "create"
    /\ \/ /\ created' = TRUE
          /\ drain' = "header"
          /\ UNCHANGED <<sweep, failures>>
       \/ Possible("lost") /\ created' = TRUE /\ Fails("raise")
       \/ Refused /\ UNCHANGED created
    /\ UNCHANGED <<income, monthJob, worksheet, paused, outages>>

WriteHeader ==
    /\ drain = "header"
    /\ \/ /\ worksheet' = <<Header>>
          /\ drain' = "look"
          /\ UNCHANGED <<sweep, failures>>
       \/ Possible("lost") /\ worksheet' = <<Header>> /\ Fails("raise")
       \/ Refused /\ UNCHANGED worksheet
    /\ UNCHANGED <<income, monthJob, created, paused, outages>>

\* _find_income_row: the first row of the month below the first row, which is taken
\* for the header; a row whose year cannot be read is one of any year.
MatchesNumber(i, m) == Number(worksheet[i].month) = Number(m)   \* mutant: of any year
Matches(i, m) ==
    /\ Number(worksheet[i].month) = Number(m)
    /\ worksheet[i].month \notin Undated => Year(worksheet[i].month) = Year(m)
RowsFound(m) == {i \in 2..Len(worksheet) : Matches(i, m)}

\* A row that shows the amount already is skipped.
Shown(i) == worksheet[i].marker = month /\ worksheet[i].cell = cell

\* get_all_values and fetch_row_years.
LookUp ==
    /\ drain = "look"
    /\ \/ \E i \in RowsFound(month) :
             /\ \A j \in RowsFound(month) : i <= j
             /\ found' = i
             /\ drain' = IF Shown(i) THEN "clear" ELSE "write"
             /\ UNCHANGED <<due, month, cell, failures>>
       \/ /\ RowsFound(month) = {}
          /\ found' = 0
          /\ drain' = "write"
          /\ UNCHANGED <<due, month, cell, failures>>
       \/ Refused
    /\ UNCHANGED <<income, monthJob, spreadsheet, paused, outages>>

\* batch_update of the row found, which leaves columns A and E alone, or append_row.
NewMonthRow == [month |-> month, cell |-> cell, marker |-> month]
SheetWritten ==
    worksheet' = IF found = 0 THEN Append(worksheet, NewMonthRow)
                 ELSE [worksheet EXCEPT ![found].cell = cell, ![found].marker = month]

WriteMonth ==
    /\ drain = "write"
    /\ \/ /\ SheetWritten
          /\ drain' = "clear"
          /\ UNCHANGED <<sweep, failures>>
       \/ Possible("lost") /\ SheetWritten /\ Fails("raise")
       \/ Refused /\ UNCHANGED worksheet
    /\ UNCHANGED <<income, monthJob, created, paused, outages>>

\* _clear_income_job deletes the row, whatever its status is by now.
ClearIncomeJob ==
    /\ drain = "clear"
    /\ \/ /\ monthJob' = [monthJob EXCEPT ![month] = "none"]
          /\ MonthDone
          /\ UNCHANGED failures
       \/ Possible("locked") /\ Fails("poison") /\ UNCHANGED monthJob
    /\ UNCHANGED <<income, spreadsheet, paused, outages>>

\* The exception handler of _drain_one gives the claim back; its own failure is
\* suppressed.
GiveUpClaim == [monthJob EXCEPT ![month] = IF @ = "in_progress" THEN "none" ELSE @]  \* mutant
GiveBack == [monthJob EXCEPT ![month] = IF @ = "in_progress" THEN "pending" ELSE @]

HandleException ==
    \/ monthJob' = GiveBack /\ UNCHANGED failures
    \/ Possible("locked") /\ UNCHANGED monthJob /\ failures' = failures + 1

\* A transient failure ends the sweep behind the circuit breaker ...
RaiseTransient ==
    /\ drain = "raise"
    /\ HandleException
    /\ drain' = "wait" /\ ForgetMonths
    /\ paused' = TRUE
    /\ UNCHANGED <<income, spreadsheet, outages>>

\* ... any other one poisons the job, and the sweep goes on; an exception of
\* _poison_income_job itself leaves drain_income_pending.
RaisePermanent ==
    /\ drain = "poison"
    /\ HandleException
    /\ drain' = "mark"
    /\ UNCHANGED <<income, spreadsheet, sweep, paused, outages>>

MarkPoisoned ==
    /\ drain = "mark"
    /\ \/ /\ monthJob' = [monthJob EXCEPT ![month] = IF @ = "none" THEN @ ELSE "poisoned"]
          /\ MonthDone
          /\ UNCHANGED failures
       \/ /\ Possible("locked") /\ UNCHANGED monthJob /\ failures' = failures + 1
          /\ drain' = "wait" /\ ForgetMonths
    /\ UNCHANGED <<income, spreadsheet, paused, outages>>
-----------------------------------------------------------------------------
PauseOver ==
    /\ paused
    /\ paused' = FALSE
    /\ UNCHANGED <<income, monthJob, spreadsheet, drain, sweep, failures, outages>>

Outage ==
    /\ outages < MaxOutages
    /\ Serving
    /\ drain' = "down" /\ ForgetMonths
    /\ paused' = FALSE
    /\ outages' = outages + 1
    /\ UNCHANGED <<income, monthJob, spreadsheet, failures>>

ComeBack ==
    /\ drain = "down"
    /\ drain' = "wait"
    /\ UNCHANGED <<income, monthJob, spreadsheet, sweep, paused, failures, outages>>

IncomeStep ==
    \/ StartIncomeDrain \/ IncomeDrainDone \/ ClaimIncomeJob \/ SumUp
    \/ OpenWorksheet \/ AddWorksheet \/ WriteHeader \/ LookUp \/ WriteMonth
    \/ ClearIncomeJob \/ RaiseTransient \/ RaisePermanent \/ MarkPoisoned \/ ComeBack

IncomeNext ==
    \/ \E i \in Incomes, m \in Months, a \in 1..MaxAmount : Insert(i, m, a) \/ Update(i, m, a)
    \/ \E i \in Incomes : Delete(i)
    \/ RequeueMonths \/ IncomeStep \/ PauseOver \/ Outage

IncomeSpec == IncomeInit /\ [][IncomeNext]_incomeVars

\* The drain thread runs, the loop waits 300 seconds at most, the circuit breaker
\* closes after half an hour at most.
FairIncomeSpec == IncomeSpec /\ WF_incomeVars(IncomeStep) /\ WF_incomeVars(PauseOver)
-----------------------------------------------------------------------------
(* Properties. *)

IncomeTypeOK ==
    /\ income \in [Incomes -> Record]
    /\ monthJob \in [Months -> JobStatus]
    /\ created \in BOOLEAN /\ worksheet \in Seq(MonthRow)
    /\ drain \in DrainPlaces
    /\ due \subseteq Months
    /\ month \in 0..MaxMonth /\ (drain \notin {"down", "wait", "next"} => month \in Months)
    /\ cell \in Cell /\ found \in 0..Len(worksheet)
    /\ paused \in BOOLEAN
    /\ failures \in 0..MaxFailures /\ outages \in 0..MaxOutages

\* "Writes one row per calendar month ... B = App-currency amount" (income_sheet_logging.py):
\* a month without a job is in the sheet with the sum of its records, and in no other
\* row, whatever was retried, moved to another month, poisoned and re-queued or cut short
\* on the way.  Only row 1 may hold an older sum of it, when the header was not written.
WrittenFor(m) == {i \in 1..Len(worksheet) : worksheet[i].month = m}
Current(m) ==
    \E i \in WrittenFor(m) :
        /\ worksheet[i].cell.amount = Total(m)
        /\ \A j \in WrittenFor(m) \ {i} : j = 1
SheetCurrent == \A m \in Months : monthJob[m] = "none" /\ Of(m) # {} => Current(m)

\* "The timer remains the fallback" (task.py): a month does not stay pending, though
\* newer months are drained first and the user may keep changing them.  ([]<>~P is the
\* same as P ~> ~P.)
PendingIsTried == \A m \in Months : []<>(monthJob[m] # "pending")
=============================================================================
