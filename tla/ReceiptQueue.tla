---------------------------- MODULE ReceiptQueue ----------------------------
(***************************************************************************)
(* The receipt classification queue: POST /api/receipts stores a receipt   *)
(* and its job, the drain loop claims every due job and processes them     *)
(* concurrently (fetch, save, resolve the store, rules, LLM, persist), and *)
(* meanwhile the user resolves or deletes receipts and the operator        *)
(* re-queues them from another process.                                    *)
(*                                                                         *)
(* One action is one SQLite transaction or one await; everything between   *)
(* two of them runs undisturbed in the code as well.  Data are abstracted  *)
(* to what the properties tell apart:                                      *)
(*   - a printed line costs 1, so the rows of a receipt are a number, and  *)
(*     Total is the total the fiscal service declares for each receipt;    *)
(*   - categories, stores and rules are left out: the steps that look them *)
(*     up keep their outcomes (done, transient error, permanent error);    *)
(*   - time is relative: a retry_after is due or not yet, a claim is       *)
(*     "fresh", "old" (more than ten minutes) or "day" (old, and claimed   *)
(*     on an earlier UTC date than ten minutes ago);                       *)
(*   - a uuid claim token is a member of Tokens no running job holds.      *)
(***************************************************************************)
EXTENDS Integers

CONSTANTS
    MaxReceipts,  \* bound: receipt rows ever created (ids are AUTOINCREMENT)
    Clients,      \* client_receipt_ids the phones generate
    NoClient,     \* not a client id
    Decodable,    \* those whose QR link carries the amount (decode_qr_payload)
    Requests,     \* concurrent POST /api/receipts handlers
    Tokens,       \* claim tokens, and with them concurrent _process_job coroutines
    NoToken,      \* the NULL of claim_token
    Total,        \* declared total of a receipt, in prices of one line
    ChildRows,    \* tables whose rows reference an expense: "sheet_job", "tags"
    MaxRows,      \* bound: lines one fetch returns
    MaxRetry,     \* retry_count is kept up to here ("this many or more")
    MaxCrashes,   \* bound: crashes or shutdowns of the server process
    Faults        \* what else may go wrong, see FaultKinds

FaultKinds ==
    { "error",        \* an unexpected exception ("database is locked") in a step
      "cancel",       \* a network await of one job raises CancelledError
      "drain_error",  \* the same inside claim_next_job, outside every handler
      "requeue",      \* the operator runs reclassify-receipts
      "midclaim" }    \* ... even between two claims of one drain

ASSUME BoundsAssumption ==
    /\ MaxReceipts \in Nat
    /\ MaxRows \in Nat
    /\ MaxRetry \in Nat \ {0}
    /\ MaxCrashes \in Nat
ASSUME TotalAssumption == Total \in Nat \ {0}
ASSUME NoneAssumption == NoClient \notin Clients /\ NoToken \notin Tokens
ASSUME ChildRowsAssumption == ChildRows \subseteq {"sheet_job", "tags"}
ASSUME FaultsAssumption == Faults \subseteq FaultKinds

Receipts == 1..MaxReceipts

VARIABLES
    receipt,   \* table receipts, with the number of its receipt_items rows
    job,       \* table receipt_classification_jobs
    book,      \* the expenses of each receipt
    held,      \* child rows that reference those expenses, see ChildRows
    drain,     \* where the drain loop is
    proc,      \* the _process_job coroutines, by claim token
    wake,      \* the asyncio.Event of the drain loop
    timers,    \* receipts with a call_later(delay, event.set) outstanding
    api,       \* the POST handlers
    crashes,   \* how often the server went down
    promised   \* history: pending jobs whose creator undertook to wake the loop

vars == <<receipt, job, book, held, drain, proc, wake, timers, api, crashes, promised>>
-----------------------------------------------------------------------------
(* The rows and their initial values. *)

ReceiptRow == [state : {"absent", "live", "deleted"}, client : Clients \union {NoClient},
               parsed : BOOLEAN, fallback : BOOLEAN, rows : Nat,
               listed : Nat]  \* history: lines of the fetch saved last
NoReceipt(s) == [state |-> s, client |-> NoClient, parsed |-> FALSE,
                 fallback |-> FALSE, rows |-> 0, listed |-> 0]

JobStatus == {"none", "pending", "in_progress", "poisoned"}
JobRow == [status : JobStatus, token : Tokens \union {NoToken}, retry : 0..MaxRetry,
           due : BOOLEAN, age : {"fresh", "old", "day"}]
NoJob == [status |-> "none", token |-> NoToken, retry |-> 0, due |-> TRUE, age |-> "fresh"]
NewJob == [NoJob EXCEPT !.status = "pending"]

\* the expenses of a receipt: one per line, one correction, or one manual entry
Booking == [kind : {"none", "lines", "manual"}, lines : Nat, correction : Nat]
NoBooking == [kind |-> "none", lines |-> 0, correction |-> 0]
Amount(b) == b.lines + b.correction
\* a new expense has a logging job, and perhaps tags
NewRefs == {refs \in SUBSET ChildRows : "sheet_job" \in ChildRows => "sheet_job" \in refs}

ProcPC == {"free", "parse", "save", "store", "items", "rules", "llm", "persist",
           "release", "poison", "cancelled"}
Proc == [pc : ProcPC, r : 0..MaxReceipts, retry : 0..MaxRetry, fallback : BOOLEAN,
         rows : Nat, corr : BOOLEAN, delayed : BOOLEAN]
FreeProc == [pc |-> "free", r |-> 0, retry |-> 0, fallback |-> FALSE,
             rows |-> 0, corr |-> FALSE, delayed |-> FALSE]

Request == [pc : {"idle", "insert", "requery", "notify"},
            client : Clients \union {NoClient}, r : 0..MaxReceipts]
IdleRequest == [pc |-> "idle", client |-> NoClient, r |-> 0]

DrainPC == {"down", "dead", "wait", "claim", "run"}

Init ==
    /\ receipt = [r \in Receipts |-> NoReceipt("absent")]
    /\ job = [r \in Receipts |-> NoJob]
    /\ book = [r \in Receipts |-> NoBooking]
    /\ held = [r \in Receipts |-> {}]
    /\ drain = "claim"      \* the loop drains once before it first waits
    /\ proc = [t \in Tokens |-> FreeProc]
    /\ wake = FALSE
    /\ timers = {}
    /\ api = [a \in Requests |-> IdleRequest]
    /\ crashes = 0
    /\ promised = {}

Live(r) == receipt[r].state = "live"
ServerUp == drain # "down"
Listening == drain \notin {"down", "dead"}   \* the wake channel is registered
Finished(t) == proc[t].pc \in {"free", "cancelled"}

Bump(n) == IF n < MaxRetry THEN n + 1 ELSE n
-----------------------------------------------------------------------------
(* The statements of db/receipts.py on the two tables. *)

\* get_receipt_by_client_id, and the UNIQUE constraint behind it
Known(c) == \E r \in Receipts : Live(r) /\ receipt[r].client = c
Taken(c) == Known(c)

\* complete_job: whatever the row holds, and whoever claimed it
CompleteClaimed(r) ==     \* mutant: WHERE status = 'in_progress'
    /\ job' = [job EXCEPT ![r] = IF @.status = "in_progress" THEN NoJob ELSE @]
    /\ promised' = promised \ {r}
CompleteJob(r) ==
    /\ job' = [job EXCEPT ![r] = NoJob]
    /\ promised' = promised \ {r}

\* release_job matches on the claim token.
Released(r, retry, due) ==
    [job[r] EXCEPT !.status = "pending", !.token = NoToken, !.retry = retry, !.due = due,
                   !.age = "fresh"]
ReleaseJob(r, t, retry, due) ==
    job' = [job EXCEPT ![r] = IF @.token = t THEN Released(r, retry, due) ELSE @]
-----------------------------------------------------------------------------
(* POST /api/receipts: look the client id up, insert, notify. *)

Lookup(a, c) ==
    /\ ServerUp /\ api[a].pc = "idle"
    /\ ~Known(c)                       \* otherwise the answer is "duplicate"
    /\ api' = [api EXCEPT ![a] = [pc |-> "insert", client |-> c, r |-> 0]]
    /\ UNCHANGED <<receipt, job, book, held, drain, proc, wake, timers, crashes, promised>>

InsertReceipt(a) ==
    /\ api[a].pc = "insert"
    /\ ~Taken(api[a].client)
    /\ \E r \in Receipts :
         /\ receipt[r].state = "absent"
         /\ \A q \in Receipts : q < r => receipt[q].state # "absent"
         /\ receipt' = [receipt EXCEPT ![r] =
                          [NoReceipt("live") EXCEPT !.client = api[a].client]]
         /\ job' = [job EXCEPT ![r] = NewJob]
         /\ api' = [api EXCEPT ![a] = [@ EXCEPT !.pc = "notify", !.r = r]]
         /\ promised' = promised \union {r}
    /\ UNCHANGED <<book, held, drain, proc, wake, timers, crashes>>

\* UNIQUE(client_receipt_id) refuses the insert: a concurrent request won.
InsertConflict(a) ==
    /\ api[a].pc = "insert"
    /\ Taken(api[a].client)
    /\ api' = [api EXCEPT ![a].pc = "requery"]
    /\ UNCHANGED <<receipt, job, book, held, drain, proc, wake, timers, crashes, promised>>

\* Answer "duplicate" with the winner's id, or re-raise when it is gone again.
Requery(a) ==
    /\ api[a].pc = "requery"
    /\ api' = [api EXCEPT ![a] = IdleRequest]
    /\ UNCHANGED <<receipt, job, book, held, drain, proc, wake, timers, crashes, promised>>

Notify(a) ==
    /\ api[a].pc = "notify"
    /\ api' = [api EXCEPT ![a] = IdleRequest]
    /\ wake' = (wake \/ Listening)
    /\ UNCHANGED <<receipt, job, book, held, drain, proc, timers, crashes, promised>>
-----------------------------------------------------------------------------
(* The user and the operator. *)

\* POST /api/receipts/{id}/resolve: allowed while a job row exists, whatever its
\* status; the amount comes from the QR payload.
Resolve(r) ==
    /\ ServerUp
    /\ job[r].status # "none"
    /\ receipt[r].client \in Decodable   \* otherwise the answer is 422
    /\ book' = [book EXCEPT ![r] = [kind |-> "manual", lines |-> 0,
                                    correction |-> Amount(@) + Total]]
    /\ \E refs \in NewRefs : held' = [held EXCEPT ![r] = @ \union refs]
    /\ CompleteJob(r)
    /\ UNCHANGED <<receipt, drain, proc, wake, timers, api, crashes>>

\* DELETE /api/receipts/{id}: the row, its items and its job cascade.
Delete(r) ==
    /\ ServerUp /\ Live(r)
    /\ receipt' = [receipt EXCEPT ![r] = NoReceipt("deleted")]
    /\ job' = [job EXCEPT ![r] = NoJob]
    /\ book' = [book EXCEPT ![r] = NoBooking]
    /\ held' = [held EXCEPT ![r] = {}]
    /\ promised' = promised \ {r}
    /\ UNCHANGED <<drain, proc, wake, timers, api, crashes>>

\* inv reclassify-receipts, one transaction in a process of its own.  A child row
\* of one of the expenses makes the DELETE fail, and everything is rolled back.
Requeue(rs) ==
    /\ "requeue" \in Faults
    /\ drain = "claim" => "midclaim" \in Faults
    /\ \A r \in rs : Live(r) /\ held[r] = {}
    /\ book' = [r \in Receipts |-> IF r \in rs THEN NoBooking ELSE book[r]]
    /\ job' = [r \in Receipts |->
                 IF r \in rs
                 THEN [job[r] EXCEPT !.status = "pending", !.retry = 0, !.due = TRUE]
                 ELSE job[r]]
    /\ promised' = promised \ rs
    /\ UNCHANGED <<receipt, held, drain, proc, wake, timers, api, crashes>>

\* The sheet-logging drain (a module of its own) removes the last logging job.
SheetLogged(r) ==
    /\ ServerUp /\ "sheet_job" \in held[r]
    /\ held' = [held EXCEPT ![r] = @ \ {"sheet_job"}]
    /\ UNCHANGED <<receipt, job, book, drain, proc, wake, timers, api, crashes, promised>>
-----------------------------------------------------------------------------
(* The drain loop. *)

\* The loop clears the event before it drains.
WakeByEvent ==
    /\ drain = "wait" /\ wake
    /\ drain' = "claim" /\ wake' = FALSE
    /\ UNCHANGED <<receipt, job, book, held, proc, timers, api, crashes, promised>>

\* wait_for(event.wait(), timeout=300) gives up waiting.
WakeByTimeout ==
    /\ drain = "wait"
    /\ drain' = "claim" /\ wake' = FALSE
    /\ UNCHANGED <<receipt, job, book, held, proc, timers, api, crashes, promised>>

\* claimed_at is ISO text with a 'T' and is compared as text with the output of
\* datetime('now', ...), which has a blank there: on one UTC date never smaller.
AnyClaim(r) == job[r].status = "in_progress"   \* mutant: no cutoff
NoClaim(r) == FALSE                            \* mutant: claims are never stale
StaleClaim(r) == job[r].status = "in_progress" /\ job[r].age = "day"
ClaimableAfterOlder(r) ==   \* mutant: strictly in order, one at a time
    /\ (job[r].status = "pending" /\ job[r].due) \/ StaleClaim(r)
    /\ \A q \in Receipts : q < r => job[q].status = "none"
Claimable(r) == (job[r].status = "pending" /\ job[r].due) \/ StaleClaim(r)

\* claim_next_job: the oldest claimable job, under a new token.
Claim(t, r) ==
    /\ drain = "claim" /\ proc[t].pc = "free"
    /\ Claimable(r)
    /\ \A q \in Receipts : Claimable(q) => r <= q
    /\ LET n == IF job[r].status = "in_progress" THEN Bump(job[r].retry) ELSE job[r].retry
       IN  /\ job' = [job EXCEPT ![r] = [@ EXCEPT !.status = "in_progress", !.token = t,
                                                  !.retry = n, !.age = "fresh"]]
           /\ proc' = [proc EXCEPT ![t] =
                         [FreeProc EXCEPT !.pc = IF receipt[r].parsed THEN "store" ELSE "parse",
                                          !.r = r, !.retry = n,
                                          !.fallback = receipt[r].fallback]]
    /\ promised' = promised \ {r}
    /\ UNCHANGED <<receipt, book, held, drain, wake, timers, api, crashes>>

\* No claimable job is left: run the claimed ones together.
ClaimedAll ==
    /\ drain = "claim"
    /\ \A r \in Receipts : ~Claimable(r)
    /\ drain' = "run"
    /\ UNCHANGED <<receipt, job, book, held, proc, wake, timers, api, crashes, promised>>

\* An exception from claim_next_job leaves the task function: it is never restarted.
ClaimRaises ==
    /\ "drain_error" \in Faults
    /\ drain = "claim"
    /\ drain' = "dead" /\ wake' = FALSE
    /\ proc' = [t \in Tokens |-> FreeProc]
    /\ UNCHANGED <<receipt, job, book, held, timers, api, crashes, promised>>

\* After the gather the loop releases the jobs whose coroutine was cancelled, and
\* wakes nobody for them.
ReleaseCancelled(t) ==
    /\ drain = "run" /\ \A u \in Tokens : Finished(u)
    /\ proc[t].pc = "cancelled"
    /\ \/ ReleaseJob(proc[t].r, t, proc[t].retry, TRUE)
       \/ "error" \in Faults /\ UNCHANGED job
    /\ proc' = [proc EXCEPT ![t] = FreeProc]
    /\ UNCHANGED <<receipt, book, held, drain, wake, timers, api, crashes, promised>>

DrainDoneClears ==   \* mutant: the event is cleared after the drain
    /\ drain = "run" /\ \A t \in Tokens : proc[t].pc = "free"
    /\ drain' = "wait" /\ wake' = FALSE
    /\ UNCHANGED <<receipt, job, book, held, proc, timers, api, crashes, promised>>
DrainDone ==
    /\ drain = "run" /\ \A t \in Tokens : proc[t].pc = "free"
    /\ drain' = "wait"
    /\ UNCHANGED <<receipt, job, book, held, proc, wake, timers, api, crashes, promised>>
-----------------------------------------------------------------------------
(* _process_job.  Running(t, pc) is the guard of each of its steps. *)

Running(t, pc) == drain = "run" /\ proc[t].pc = pc
OnlyProc == UNCHANGED <<receipt, job, book, held, drain, wake, timers, api, crashes, promised>>
Become(t, p) == proc' = [proc EXCEPT ![t] = p] /\ OnlyProc
Goto(t, pc) == Become(t, [proc[t] EXCEPT !.pc = pc])

\* The coroutine returns.
Return(t) == proc' = [proc EXCEPT ![t] = FreeProc]

\* An exception ends the work: only what its handler uses is kept.
Aborted(t, pc, delayed) ==
    [FreeProc EXCEPT !.pc = pc, !.r = proc[t].r, !.retry = proc[t].retry, !.delayed = delayed]
Abort(t, pc, delayed) == Become(t, Aborted(t, pc, delayed))

\* _retry_delay(0) = 0: the first transient failure is retried at once.
Transient(t) == Abort(t, "release", proc[t].retry > 0)
Permanent(t) == Abort(t, "poison", FALSE)
Cancelled(t) == "cancel" \in Faults /\ Abort(t, "cancelled", FALSE)
Unexpected(t) == "error" \in Faults /\ Permanent(t)

\* parse_receipt.  The journal fallback yields at least one line; a structured
\* answer whose entries are all malformed yields none.
Parse(t) ==
    /\ Running(t, "parse")
    /\ \/ \E n \in 0..MaxRows, fb \in BOOLEAN :
            /\ fb => n > 0
            /\ Become(t, [proc[t] EXCEPT !.pc = "save", !.rows = n, !.fallback = fb])
       \/ Transient(t)          \* network failure, receipt not indexed yet
       \/ Abort(t, "release", TRUE)   \* ParserItemsPendingError: always fifteen seconds
       \/ Permanent(t)         \* ParserParseError
       \/ Cancelled(t)

\* _save_parsed: the receipt row and its items in one transaction; the counters of
\* record_journal_fallback in a second one, which may fail on its own.
Saved(r, p) == [receipt[r] EXCEPT !.parsed = TRUE, !.fallback = p.fallback,
                                  !.rows = receipt[r].rows + p.rows, !.listed = p.rows]
Save(t) ==
    /\ Running(t, "save")
    /\ LET r == proc[t].r IN
       \/ /\ Live(r)
          /\ receipt' = [receipt EXCEPT ![r] = Saved(r, proc[t])]
          /\ \/ proc' = [proc EXCEPT ![t] = [@ EXCEPT !.pc = "store"]]
             \/ /\ "error" \in Faults /\ proc[t].fallback
                /\ proc' = [proc EXCEPT ![t] = Aborted(t, "poison", FALSE)]
          /\ UNCHANGED <<job, book, held, drain, wake, timers, api, crashes, promised>>
       \/ ~Live(r) /\ proc[t].rows > 0 /\ Permanent(t)   \* FOREIGN KEY on receipt_items
       \/ ~Live(r) /\ proc[t].rows = 0 /\ Goto(t, "store")
       \/ Unexpected(t)

\* _ensure_store: nothing to look up, already known, or resolved through the LLM.
EnsureStore(t) ==
    /\ Running(t, "store")
    /\ Goto(t, "items") \/ Transient(t) \/ Cancelled(t) \/ Unexpected(t)

\* _get_items: no items is an error unless the journal was used.
GetItems(t) ==
    /\ Running(t, "items")
    /\ LET n == receipt[proc[t].r].rows IN
       \/ n = 0 /\ ~proc[t].fallback /\ Permanent(t)
       \/ /\ n > 0 \/ proc[t].fallback
          /\ Become(t, [proc[t] EXCEPT !.pc = "rules", !.rows = n])
       \/ Unexpected(t)

\* First half of _classify_and_persist: for a journal receipt compare the stored
\* lines with the declared total, keep none when they exceed it, and look up the
\* category of the correction (InsufficientCategoriesError is transient).
RulesPass(t) ==
    /\ Running(t, "rules")
    /\ LET r == proc[t].r
           stored == receipt[r].rows
           journal == proc[t].fallback /\ Live(r)
       IN  \/ Become(t, [proc[t] EXCEPT !.pc = "llm", !.corr = journal /\ stored # Total,
                                         !.rows = IF journal /\ stored > Total THEN 0 ELSE @])
           \/ journal /\ stored # Total /\ Transient(t)
           \/ Unexpected(t)

\* _run_llm_pass and its fallback: broker unavailable or too few categories is
\* transient, exhausted attempts end in the fallback categories.
LlmPass(t) ==
    /\ Running(t, "llm")
    /\ \/ Goto(t, "persist")
       \/ proc[t].rows > 0 /\ (Transient(t) \/ Cancelled(t))
       \/ Unexpected(t)

\* _journal_reconciliation of what is stored now.
CorrectionOfTotal(r, fb) ==   \* mutant: the lines kept are not deducted
    IF fb /\ receipt[r].rows # Total THEN Total ELSE 0
Correction(r, fb) ==
    IF ~fb THEN 0
    ELSE IF receipt[r].rows < Total THEN Total - receipt[r].rows
    ELSE IF receipt[r].rows > Total THEN Total ELSE 0

\* The idempotency check inside the transaction.
HasLineExpenses(r) == book[r].kind = "lines"   \* mutant: only the pipeline's own
HasExpenses(r) == book[r].kind # "none"

\* persist_classification_results on a live receipt without expenses.
PersistBook(t) ==
    LET r == proc[t].r
        c == Correction(r, proc[t].fallback)
        discard == proc[t].fallback /\ receipt[r].rows > Total
        lines == IF discard THEN 0 ELSE proc[t].rows
    IN  /\ Live(r) /\ ~HasExpenses(r)
        /\ c > 0 => proc[t].corr
        /\ receipt' = [receipt EXCEPT ![r].rows = IF discard THEN 0 ELSE @]
        /\ book' = [book EXCEPT ![r] =
                      IF lines + c = 0 THEN NoBooking
                      ELSE [kind |-> "lines", lines |-> lines, correction |-> c]]
        /\ \E refs \in NewRefs :
             held' = [held EXCEPT ![r] = IF lines + c = 0 THEN {} ELSE refs]
        /\ CompleteJob(r)
        /\ Return(t)
        /\ UNCHANGED <<drain, wake, timers, api, crashes>>

\* ... on a receipt that has expenses already: complete_job and return.
PersistAgain(t) ==
    LET r == proc[t].r IN
    /\ HasExpenses(r)
    /\ CompleteJob(r)
    /\ Return(t)
    /\ UNCHANGED <<receipt, book, held, drain, wake, timers, api, crashes>>

\* ... on a deleted receipt: the foreign key of expenses fails, if there is
\* anything to insert; ... or the correction has no category.
PersistRaises(t) ==
    LET r == proc[t].r IN
    \/ ~Live(r) /\ proc[t].rows > 0 /\ Permanent(t)
    \/ ~Live(r) /\ proc[t].rows = 0 /\ Return(t) /\ OnlyProc
    \/ /\ Live(r) /\ ~HasExpenses(r)
       /\ Correction(r, proc[t].fallback) > 0 /\ ~proc[t].corr
       /\ Permanent(t)

Persist(t) ==
    /\ Running(t, "persist")
    /\ \/ PersistBook(t)
       \/ PersistAgain(t)
       \/ PersistRaises(t)
       \/ Transient(t)          \* RateMissingError
       \/ Unexpected(t)

\* The transient-error handler: release under the claim token, then wake the loop
\* at once or through a timer.  A release that raises is only logged.
Release(t) ==
    /\ Running(t, "release")
    /\ LET r == proc[t].r
           delayed == proc[t].delayed
       IN  \/ /\ ReleaseJob(r, t, Bump(proc[t].retry), ~delayed)
              /\ promised' = IF job[r].token = t THEN promised \union {r} ELSE promised
              /\ wake' = (wake \/ ~delayed)
              /\ timers' = IF delayed THEN timers \union {r} ELSE timers
           \/ "error" \in Faults /\ UNCHANGED <<job, promised, wake, timers>>
    /\ Return(t)
    /\ UNCHANGED <<receipt, book, held, drain, api, crashes>>

\* poison_job: whatever the row holds by now.  It may raise: the job stays claimed.
Poison(t) ==
    /\ Running(t, "poison")
    /\ LET r == proc[t].r IN
       \/ /\ job' = [job EXCEPT ![r].status = IF @ = "none" THEN @ ELSE "poisoned"]
          /\ promised' = promised \ {r}
       \/ "error" \in Faults /\ UNCHANGED <<job, promised>>
    /\ Return(t)
    /\ UNCHANGED <<receipt, book, held, drain, wake, timers, api, crashes>>
-----------------------------------------------------------------------------
(* Time, crashes and restarts. *)

RetryDue(r) ==
    /\ job[r].status = "pending" /\ ~job[r].due
    /\ job' = [job EXCEPT ![r].due = TRUE]
    /\ UNCHANGED <<receipt, book, held, drain, proc, wake, timers, api, crashes, promised>>

\* The delay is over, so the retry_after computed before it is due as well.
TimerFires(r) ==
    /\ r \in timers
    /\ job[r].status = "pending" => job[r].due
    /\ timers' = timers \ {r}
    /\ wake' = (wake \/ Listening)
    /\ UNCHANGED <<receipt, job, book, held, drain, proc, api, crashes, promised>>

\* The claims of one drain take less than ten minutes together.
ClaimAges(r) ==
    /\ drain = "claim" => \A t \in Tokens : proc[t].r # r
    /\ job[r].status = "in_progress" /\ job[r].age # "day"
    /\ job' = [job EXCEPT ![r].age = IF @ = "fresh" THEN "old" ELSE "day"]
    /\ UNCHANGED <<receipt, book, held, drain, proc, wake, timers, api, crashes, promised>>

\* A crash or a shutdown: the database stays, everything in memory is gone.
Crash ==
    /\ crashes < MaxCrashes
    /\ ServerUp
    /\ drain' = "down"
    /\ proc' = [t \in Tokens |-> FreeProc]
    /\ wake' = FALSE
    /\ timers' = {}
    /\ api' = [a \in Requests |-> IdleRequest]
    /\ crashes' = crashes + 1
    /\ promised' = {}
    /\ UNCHANGED <<receipt, job, book, held>>

Restart ==
    /\ drain = "down"
    /\ drain' = "claim"
    /\ UNCHANGED <<receipt, job, book, held, proc, wake, timers, api, crashes, promised>>
-----------------------------------------------------------------------------
RequestStep(a) == InsertReceipt(a) \/ InsertConflict(a) \/ Requery(a) \/ Notify(a)

ProcessStep(t) ==
    \/ Parse(t) \/ Save(t) \/ EnsureStore(t) \/ GetItems(t) \/ RulesPass(t)
    \/ LlmPass(t) \/ Persist(t) \/ Release(t) \/ Poison(t) \/ ReleaseCancelled(t)

DrainStep ==
    \/ \E t \in Tokens, r \in Receipts : Claim(t, r)
    \/ ClaimedAll \/ DrainDone \/ Restart

Next ==
    \/ \E a \in Requests, c \in Clients : Lookup(a, c)
    \/ \E a \in Requests : RequestStep(a)
    \/ \E r \in Receipts : Resolve(r) \/ Delete(r) \/ SheetLogged(r)
    \/ \E rs \in (SUBSET Receipts) \ {{}} : Requeue(rs)
    \/ DrainStep \/ WakeByEvent \/ WakeByTimeout \/ ClaimRaises
    \/ \E t \in Tokens : ProcessStep(t)
    \/ \E r \in Receipts : RetryDue(r) \/ TimerFires(r) \/ ClaimAges(r)
    \/ Crash

Spec == Init /\ [][Next]_vars

\* What the server and the clock must eventually do: the service manager restarts
\* the server, the loop waits 300 seconds at most, every await has a time limit,
\* time passes.  No user, operator or fault has to act.
Fairness ==
    /\ WF_vars(DrainStep)
    /\ WF_vars(WakeByTimeout)
    /\ \A a \in Requests : WF_vars(RequestStep(a))
    /\ \A t \in Tokens : WF_vars(ProcessStep(t))
    /\ \A r \in Receipts : WF_vars(RetryDue(r)) /\ WF_vars(ClaimAges(r))

FairSpec == Spec /\ Fairness
-----------------------------------------------------------------------------
(* Properties. *)

TypeOK ==
    /\ receipt \in [Receipts -> ReceiptRow]
    /\ job \in [Receipts -> JobRow]
    /\ book \in [Receipts -> Booking]
    /\ held \in [Receipts -> SUBSET ChildRows]
    /\ drain \in DrainPC
    /\ proc \in [Tokens -> Proc]
    /\ \A t \in Tokens : proc[t].pc # "free" => proc[t].r \in Receipts
    /\ wake \in BOOLEAN
    /\ timers \subseteq Receipts
    /\ api \in [Requests -> Request]
    /\ crashes \in 0..MaxCrashes
    /\ promised \subseteq Receipts

\* No receipt is lost or processed twice: a stored receipt either still has its
\* job, so that the drain or the user can finish it, or it has expenses, never
\* both and never neither; a deleted one leaves neither behind, whatever a
\* coroutine that still works on it does (persist, resolve, delete, requeue).
JobXorExpenses ==
    \A r \in Receipts :
        IF Live(r) THEN (job[r].status = "none") <=> (book[r].kind # "none")
        ELSE job[r].status = "none" /\ book[r].kind = "none" /\ held[r] = {}

\* What is booked is what the receipt says: the declared total after a journal
\* fallback (the correction makes up for lines lost or read twice) or a manual
\* resolution, every listed line exactly once otherwise, across retries, crashes,
\* stale claims and re-queues (persist_classification_results, save_parsed_receipt).
BookedOnce ==
    \A r \in Receipts :
        /\ book[r].kind = "manual" => Amount(book[r]) = Total
        /\ book[r].kind = "lines" =>
              Amount(book[r]) = IF receipt[r].fallback THEN Total ELSE receipt[r].listed

\* At most one coroutine works on a receipt: what the claim is for.
OneWorker ==
    \A t, u \in Tokens :
        proc[t].pc # "free" /\ proc[u].pc # "free" /\ proc[t].r = proc[u].r => t = u

\* Two POSTs of one client_receipt_id store one receipt, however they interleave.
OneReceiptPerClient ==
    \A q, r \in Receipts :
        Live(q) /\ Live(r) /\ receipt[q].client = receipt[r].client => q = r

\* No lost wakeup: when the loop waits, a due job whose creator undertook to wake
\* it (a POST, a transient failure) has the event set, a timer running or a
\* handler about to notify.  The five-minute timeout is not needed for it.
NoLostWakeup ==
    drain = "wait" =>
        \A r \in promised :
            \/ ~(job[r].status = "pending" /\ job[r].due)
            \/ wake
            \/ r \in timers
            \/ \E a \in Requests : api[a].pc = "notify" /\ api[a].r = r

\* A claimed job goes back to "pending" only by the coroutine that holds its token,
\* or by the operator: a release under an older token does nothing.
HolderKeepsClaim ==
    [][\A r \in Receipts, t \in Tokens :
          /\ job[r].status = "in_progress" /\ job[r].token = t
          /\ proc[t].pc # "free" /\ proc[t].r = r
          /\ job'[r].status = "pending" /\ job'[r].token = NoToken
          => proc'[t].pc = "free"]_vars

\* "An outage of every provider never holds a receipt in processing": every claim
\* ends, after a crash as well (specs/reference/classification-pipeline.md).  For any
\* P, []<>~P says the same as P ~> ~P.
ClaimsEnd == \A r \in Receipts : []<>(job[r].status # "in_progress")

\* "... and never stops newer receipts from being picked up": a due receipt is claimed
\* though older ones fail again and again (claim_next_job, the delays of release_job).
DueIsPickedUp == \A r \in Receipts : []<>~(job[r].status = "pending" /\ job[r].due)
-----------------------------------------------------------------------------
(* Why JobXorExpenses, BookedOnce and OneWorker hold while no re-queue falls between
   two claims: what they say is not inductive, these are the missing parts. *)

Working(t) == proc[t].pc # "free"

\* Coroutines exist between the first claim of a drain and its end; until the
\* gather starts they have not run, and nobody can claim their receipts again.
ClaimsHeld ==
    \A t \in Tokens :
        Working(t) =>
            /\ drain \in {"claim", "run"}
            /\ receipt[proc[t].r].state # "absent"
            /\ drain = "claim" => /\ proc[t].pc \in {"parse", "store"}
                                  /\ job[proc[t].r].status # "pending"
                                  /\ ~StaleClaim(proc[t].r)

\* Items come from the one save that sets parsed_at, or are discarded as a whole.
ItemsAsListed ==
    \A r \in Receipts :
        IF receipt[r].parsed
        THEN receipt[r].rows = receipt[r].listed \/ (receipt[r].fallback /\ receipt[r].rows = 0)
        ELSE receipt[r].rows = 0 /\ receipt[r].listed = 0 /\ book[r].kind # "lines"

NoHalfRows ==
    \A r \in Receipts :
        /\ job[r].status = "none" => job[r].token = NoToken
        /\ book[r].kind = "none" => book[r] = NoBooking

\* What a coroutine read before an await is still so after it.
ReadsCurrent ==
    \A t \in Tokens :
        LET p == proc[t]
            row == receipt[p.r]
        IN  Working(t) /\ Live(p.r) =>
              /\ p.pc \in {"parse", "save"} => ~row.parsed
              /\ p.pc \in {"store", "items", "rules", "llm", "persist"} =>
                    row.parsed /\ p.fallback = row.fallback
              /\ p.pc = "rules" => p.rows = row.rows /\ (p.rows > 0 \/ p.fallback)
              /\ p.pc \in {"llm", "persist"} =>
                    IF p.fallback /\ row.rows > Total THEN p.rows = 0
                    ELSE p.rows = row.rows /\ (p.rows > 0 \/ p.fallback)

Inductive ==
    /\ TypeOK /\ OneWorker /\ JobXorExpenses /\ BookedOnce
    /\ ClaimsHeld /\ ItemsAsListed /\ NoHalfRows /\ ReadsCurrent
-----------------------------------------------------------------------------
(* Why NoLostWakeup holds: it is not inductive either. *)

\* Only a pending job without a token is promised, and its delay has a timer.
PromisesPending ==
    \A r \in promised :
        /\ job[r].status = "pending" /\ job[r].token = NoToken
        /\ ~job[r].due => r \in timers

\* The event that ends the wait is there, or about to come.
Woken(r) == wake \/ r \in timers \/ \E a \in Requests : api[a].pc = "notify" /\ api[a].r = r

\* What is promised after the last claim of a drain wakes the next one.
PromisesKept == drain \in {"run", "wait"} => \A r \in promised : job[r].due => Woken(r)

WakeInductive == PromisesPending /\ PromisesKept
-----------------------------------------------------------------------------
\* What the ledger sees of a receipt.
LedgerStatus == [r \in Receipts |->
    IF ~Live(r) THEN receipt[r].state
    ELSE IF book[r].kind = "none" THEN "queued" ELSE "booked"]
LedgerAmount == [r \in Receipts |-> Amount(book[r])]

LEDGER == INSTANCE ReceiptLedger
    WITH Receipts <- Receipts, status <- LedgerStatus, amount <- LedgerAmount

\* The pipeline implements the ledger: one booking per receipt, of its whole amount
\* in one step, however many workers, retries and crashes it takes.
ImplementsLedger == LEDGER!Spec

=============================================================================
