------------------------- MODULE ReceiptQueueProofs -------------------------
(***************************************************************************)
(* Theorems about ReceiptQueue, for every number of receipts, clients,     *)
(* requests and tokens, every total and every set of faults.               *)
(***************************************************************************)
EXTENDS ReceiptQueue, TLAPS

\* Rows and program counters a step may write.
LEMMA RowTypes ==
    /\ Receipts \subseteq Nat /\ Receipts \subseteq 0..MaxReceipts
    /\ \A s \in {"absent", "live", "deleted"} : NoReceipt(s) \in ReceiptRow
    /\ NoJob \in JobRow /\ NewJob \in JobRow
    /\ NoBooking \in Booking
    /\ FreeProc \in Proc
    /\ IdleRequest \in Request
    /\ 0 \in 0..MaxRetry /\ 0 \in 0..MaxReceipts
    /\ \A n \in 0..MaxRetry : Bump(n) \in 0..MaxRetry
<1>1. Receipts \subseteq Nat /\ Receipts \subseteq 0..MaxReceipts
  BY BoundsAssumption DEF Receipts
<1>2. \A s \in {"absent", "live", "deleted"} : NoReceipt(s) \in ReceiptRow
  BY DEF NoReceipt, ReceiptRow
<1>3. 0 \in 0..MaxRetry /\ 0 \in 0..MaxReceipts
  BY BoundsAssumption
<1>4. NoJob \in JobRow /\ NewJob \in JobRow
  BY <1>3 DEF NoJob, NewJob, JobRow, JobStatus
<1>5. NoBooking \in Booking
  BY DEF NoBooking, Booking
<1>6. FreeProc \in Proc
  BY <1>3 DEF FreeProc, Proc, ProcPC
<1>7. IdleRequest \in Request
  BY <1>3 DEF IdleRequest, Request
<1>8. \A n \in 0..MaxRetry : Bump(n) \in 0..MaxRetry
  BY BoundsAssumption DEF Bump
<1> QED
  BY <1>1, <1>2, <1>3, <1>4, <1>5, <1>6, <1>7, <1>8

\* A step that only moves one coroutine on preserves the types.
LEMMA BecomeType ==
    ASSUME TypeOK, NEW t \in Tokens, NEW p \in Proc, p.r \in Receipts, Become(t, p)
    PROVE  TypeOK'
<1>1. proc' = [proc EXCEPT ![t] = p] /\ OnlyProc
  BY DEF Become
<1>2. proc' \in [Tokens -> Proc] /\ \A u \in Tokens : proc'[u].pc # "free" => proc'[u].r \in Receipts
  BY <1>1 DEF TypeOK
<1> QED
  BY <1>1, <1>2 DEF TypeOK, OnlyProc

\* So does the end of a coroutine.
LEMMA ReturnType ==
    ASSUME TypeOK, NEW t \in Tokens, Return(t)
    PROVE  /\ proc' \in [Tokens -> Proc]
           /\ \A u \in Tokens : proc'[u].pc # "free" => proc'[u].r \in Receipts
BY RowTypes DEF TypeOK, Return, FreeProc

\* The record of a coroutine, and the ones a step may replace it with.
LEMMA ProcTypes ==
    ASSUME TypeOK, NEW t \in Tokens, proc[t].pc # "free"
    PROVE  /\ proc[t] \in Proc /\ proc[t].r \in Receipts
           /\ \A pc \in ProcPC, d \in BOOLEAN :
                 Aborted(t, pc, d) \in Proc /\ Aborted(t, pc, d).r = proc[t].r
           /\ \A pc \in ProcPC : [proc[t] EXCEPT !.pc = pc] \in Proc
           /\ \A pc \in ProcPC, n \in Nat : [proc[t] EXCEPT !.pc = pc, !.rows = n] \in Proc
           /\ \A pc \in ProcPC, n \in Nat, b \in BOOLEAN :
                 /\ [proc[t] EXCEPT !.pc = pc, !.rows = n, !.fallback = b] \in Proc
                 /\ [proc[t] EXCEPT !.pc = pc, !.corr = b, !.rows = n] \in Proc
<1>1. proc[t] \in Proc /\ proc[t].r \in Receipts
  BY DEF TypeOK
<1>2. FreeProc \in Proc /\ proc[t].r \in 0..MaxReceipts /\ proc[t].retry \in 0..MaxRetry
  BY <1>1, RowTypes DEF Proc
<1>3. \A pc \in ProcPC, d \in BOOLEAN :
        Aborted(t, pc, d) \in Proc /\ Aborted(t, pc, d).r = proc[t].r
  BY <1>2 DEF Aborted, Proc
<1>4. /\ \A pc \in ProcPC : [proc[t] EXCEPT !.pc = pc] \in Proc
      /\ \A pc \in ProcPC, n \in Nat : [proc[t] EXCEPT !.pc = pc, !.rows = n] \in Proc
  BY <1>1 DEF Proc
<1>5. \A pc \in ProcPC, n \in Nat, b \in BOOLEAN :
        /\ [proc[t] EXCEPT !.pc = pc, !.rows = n, !.fallback = b] \in Proc
        /\ [proc[t] EXCEPT !.pc = pc, !.corr = b, !.rows = n] \in Proc
  BY <1>1 DEF Proc
<1> QED
  BY <1>1, <1>3, <1>4, <1>5

\* The handlers an exception reaches.
LEMMA FailureType ==
    ASSUME TypeOK, NEW t \in Tokens, proc[t].pc # "free",
           Transient(t) \/ Permanent(t) \/ Cancelled(t) \/ Unexpected(t)
             \/ Abort(t, "release", TRUE)
    PROVE  TypeOK'
<1>1. {"release", "poison", "cancelled"} \subseteq ProcPC /\ (proc[t].retry > 0) \in BOOLEAN
  BY DEF ProcPC
<1>2. PICK pc \in ProcPC, d \in BOOLEAN : Abort(t, pc, d)
  BY <1>1 DEF Transient, Permanent, Cancelled, Unexpected
<1> QED
  BY <1>2, ProcTypes, BecomeType DEF Abort

\* A step that changes only a program counter.
LEMMA GotoType ==
    ASSUME TypeOK, NEW t \in Tokens, proc[t].pc # "free", NEW pc \in ProcPC, Goto(t, pc)
    PROVE  TypeOK'
<1>1. [proc[t] EXCEPT !.pc = pc].r = proc[t].r
  BY DEF TypeOK, Proc
<1> QED
  BY <1>1, ProcTypes, BecomeType DEF Goto

\* release_job under a matching token, or none.
LEMMA ReleasedType ==
    ASSUME TypeOK, NEW r \in Receipts, NEW n \in 0..MaxRetry, NEW d \in BOOLEAN
    PROVE  Released(r, n, d) \in JobRow
<1>1. job[r] \in JobRow /\ NoToken \in Tokens \union {NoToken}
  BY DEF TypeOK
<1>2. "pending" \in JobStatus /\ "fresh" \in {"fresh", "old", "day"}
  BY DEF JobStatus
<1> QED
  BY <1>1, <1>2 DEF Released, JobRow

\* Every step of a coroutine preserves the types.
LEMMA ProcessType ==
    ASSUME TypeOK, NEW t \in Tokens, ProcessStep(t)
    PROVE  TypeOK'
<1> DEFINE p == proc[t]
           r == proc[t].r
<1>1. p.pc # "free"
  BY DEF ProcessStep, Parse, Save, EnsureStore, GetItems, RulesPass, LlmPass, Persist, Release,
         Poison, ReleaseCancelled, Running
<1>2. p \in Proc /\ r \in Receipts
  BY <1>1, ProcTypes
<1>3. {"save", "store", "items", "rules", "llm", "persist", "poison"} \subseteq ProcPC
  BY DEF ProcPC
<1>4. CASE Parse(t)
  <2>1. ASSUME NEW n \in 0..MaxRows, NEW fb \in BOOLEAN,
               Become(t, [p EXCEPT !.pc = "save", !.rows = n, !.fallback = fb])
        PROVE  TypeOK'
    <3>0. n \in Nat
      BY BoundsAssumption
    <3>1. [p EXCEPT !.pc = "save", !.rows = n, !.fallback = fb] \in Proc
      BY <1>1, <1>3, <3>0, ProcTypes
    <3>2. [p EXCEPT !.pc = "save", !.rows = n, !.fallback = fb].r = r
      BY <1>2 DEF Proc
    <3> QED
      BY <1>2, <2>1, <3>1, <3>2, BecomeType
  <2> QED
    BY <1>1, <1>4, <2>1, FailureType DEF Parse
<1>5. CASE Save(t)
  <2>1. CASE Permanent(t) \/ Unexpected(t) \/ Goto(t, "store")
    BY <1>1, <1>3, <2>1, FailureType, GotoType
  <2>2. ASSUME receipt' = [receipt EXCEPT ![r] = Saved(r, p)],
               \/ proc' = [proc EXCEPT ![t] = [@ EXCEPT !.pc = "store"]]
               \/ proc' = [proc EXCEPT ![t] = Aborted(t, "poison", FALSE)],
               UNCHANGED <<job, book, held, drain, wake, timers, api, crashes, promised>>
        PROVE  TypeOK'
    <3>1. receipt[r].rows \in Nat /\ p.rows \in Nat /\ p.fallback \in BOOLEAN
      BY <1>2 DEF TypeOK, ReceiptRow, Proc
    <3>2. receipt[r] \in ReceiptRow /\ receipt[r].rows + p.rows \in Nat
      BY <1>2, <3>1 DEF TypeOK
    <3>3. Saved(r, p) \in ReceiptRow
      BY <3>1, <3>2 DEF Saved, ReceiptRow
    <3>4. receipt' \in [Receipts -> ReceiptRow]
      BY <2>2, <3>3 DEF TypeOK
    <3>5. PICK q \in Proc : q.r \in Receipts /\ proc' = [proc EXCEPT ![t] = q]
      <4>1. CASE proc' = [proc EXCEPT ![t] = [@ EXCEPT !.pc = "store"]]
        <5>1. [p EXCEPT !.pc = "store"] \in Proc /\ [p EXCEPT !.pc = "store"].r = r
          BY <1>1, <1>2, <1>3, ProcTypes DEF Proc
        <5> QED
          BY <1>2, <4>1, <5>1
      <4>2. CASE proc' = [proc EXCEPT ![t] = Aborted(t, "poison", FALSE)]
        BY <1>1, <1>2, <1>3, <4>2, ProcTypes
      <4> QED
        BY <2>2, <4>1, <4>2
    <3>6. /\ proc' \in [Tokens -> Proc]
          /\ \A u \in Tokens : proc'[u].pc # "free" => proc'[u].r \in Receipts
      BY <3>5 DEF TypeOK
    <3> QED
      BY <2>2, <3>4, <3>6 DEF TypeOK
  <2> QED
    BY <1>5, <2>1, <2>2 DEF Save
<1>6. CASE EnsureStore(t)
  BY <1>1, <1>3, <1>6, FailureType, GotoType DEF EnsureStore
<1>7. CASE GetItems(t)
  <2>1. [p EXCEPT !.pc = "rules", !.rows = receipt[r].rows] \in Proc
    <3>1. receipt[r].rows \in Nat
      BY <1>2 DEF TypeOK, ReceiptRow
    <3> QED
      BY <1>1, <1>3, <3>1, ProcTypes
  <2>2. [p EXCEPT !.pc = "rules", !.rows = receipt[r].rows].r = r
    BY <1>2 DEF Proc
  <2>3. Permanent(t) \/ Unexpected(t) \/ Become(t, [p EXCEPT !.pc = "rules", !.rows = receipt[r].rows])
    BY <1>7 DEF GetItems
  <2> QED
    BY <1>1, <1>2, <2>1, <2>2, <2>3, FailureType, BecomeType
<1>8. CASE RulesPass(t)
  <2> DEFINE journal == p.fallback /\ Live(r)
             q == [p EXCEPT !.pc = "llm", !.corr = journal /\ receipt[r].rows # Total,
                            !.rows = IF journal /\ receipt[r].rows > Total THEN 0 ELSE @]
  <2>1. Transient(t) \/ Unexpected(t) \/ Become(t, q)
    BY <1>8 DEF RulesPass
  <2>2. q \in Proc /\ q.r = r
    <3>1. (journal /\ receipt[r].rows # Total) \in BOOLEAN
      BY <1>2 DEF Proc
    <3>2. (IF journal /\ receipt[r].rows > Total THEN 0 ELSE p.rows) \in Nat
      BY <1>2 DEF Proc
    <3> QED
      BY <1>2, <1>3, <3>1, <3>2 DEF Proc
  <2> QED
    BY <1>1, <1>2, <2>1, <2>2, FailureType, BecomeType
<1>9. CASE LlmPass(t)
  BY <1>1, <1>3, <1>9, FailureType, GotoType DEF LlmPass
<1>10. CASE Persist(t)
  <2>1. CASE PersistBook(t)
    <3>1. receipt[r] \in ReceiptRow /\ receipt[r].rows \in Nat /\ p.rows \in Nat
      BY <1>2 DEF TypeOK, ReceiptRow, Proc
    <3>2. Correction(r, p.fallback) \in Nat
      BY <3>1, TotalAssumption DEF Correction
    <3>3. \A n \in Nat : [receipt[r] EXCEPT !.rows = n] \in ReceiptRow
      BY <3>1 DEF ReceiptRow
    <3>4. receipt' \in [Receipts -> ReceiptRow]
      BY <2>1, <3>1, <3>3 DEF PersistBook, TypeOK
    <3>5. \A m, n \in Nat : [kind |-> "lines", lines |-> m, correction |-> n] \in Booking
      BY DEF Booking
    <3>6. book' \in [Receipts -> Booking]
      BY <2>1, <3>1, <3>2, <3>5, RowTypes DEF PersistBook, TypeOK
    <3>7. held' \in [Receipts -> SUBSET ChildRows]
      BY <2>1 DEF PersistBook, TypeOK, NewRefs
    <3>8. job' \in [Receipts -> JobRow] /\ promised' \subseteq Receipts
      BY <2>1, RowTypes DEF PersistBook, CompleteJob, TypeOK
    <3>9. Return(t) /\ UNCHANGED <<drain, wake, timers, api, crashes>>
      BY <2>1 DEF PersistBook
    <3> QED
      BY <3>4, <3>6, <3>7, <3>8, <3>9, ReturnType DEF TypeOK
  <2>2. CASE PersistAgain(t) \/ (Return(t) /\ OnlyProc)
    <3>1. Return(t) /\ UNCHANGED <<receipt, book, held, drain, wake, timers, api, crashes>>
      BY <2>2 DEF PersistAgain, OnlyProc
    <3>2. CompleteJob(r) \/ (job' = job /\ promised' = promised)
      BY <2>2 DEF PersistAgain, OnlyProc
    <3>3. job \in [Receipts -> JobRow] /\ promised \subseteq Receipts /\ NoJob \in JobRow
      BY RowTypes DEF TypeOK
    <3> HIDE DEF p, r
    <3>4. job' \in [Receipts -> JobRow] /\ promised' \subseteq Receipts
      BY <3>2, <3>3 DEF CompleteJob
    <3> QED
      BY <3>1, <3>4, ReturnType DEF TypeOK
  <2>3. CASE Transient(t) \/ Unexpected(t) \/ Permanent(t)
    BY <1>1, <2>3, FailureType
  <2> QED
    BY <1>10, <2>1, <2>2, <2>3 DEF Persist, PersistRaises
<1>11. CASE Release(t)
  <2>1. Bump(p.retry) \in 0..MaxRetry /\ (~p.delayed) \in BOOLEAN
    BY <1>2, RowTypes DEF Proc
  <2>2. Released(r, Bump(p.retry), ~p.delayed) \in JobRow
    BY <1>2, <2>1, ReleasedType
  <2>3. job' \in [Receipts -> JobRow]
    <3>1. job' = job \/ ReleaseJob(r, t, Bump(p.retry), ~p.delayed)
      BY <1>11 DEF Release
    <3> HIDE DEF p, r
    <3>2. job \in [Receipts -> JobRow]
      BY DEF TypeOK
    <3> QED
      BY <2>2, <3>1, <3>2 DEF ReleaseJob
  <2>4. promised' \subseteq Receipts /\ timers' \subseteq Receipts /\ wake' \in BOOLEAN
    BY <1>2, <1>11 DEF Release, TypeOK
  <2> QED
    BY <1>11, <2>3, <2>4, ReturnType DEF Release, TypeOK
<1>12. CASE Poison(t)
  <2>1. job' \in [Receipts -> JobRow]
    BY <1>2, <1>12 DEF Poison, TypeOK, JobRow, JobStatus
  <2>2. promised' \subseteq Receipts
    BY <1>12 DEF Poison, TypeOK
  <2> QED
    BY <1>12, <2>1, <2>2, ReturnType DEF Poison, TypeOK
<1>13. CASE ReleaseCancelled(t)
  <2>1. Released(r, p.retry, TRUE) \in JobRow
    BY <1>2, ReleasedType DEF Proc
  <2>2. Return(t) /\ UNCHANGED <<receipt, book, held, drain, wake, timers, api, crashes, promised>>
    BY <1>13 DEF ReleaseCancelled, Return
  <2>3. job' \in [Receipts -> JobRow]
    BY <1>2, <1>13, <2>1 DEF ReleaseCancelled, ReleaseJob, TypeOK
  <2> QED
    BY <2>2, <2>3, ReturnType DEF TypeOK
<1> QED
  BY <1>4, <1>5, <1>6, <1>7, <1>8, <1>9, <1>10, <1>11, <1>12, <1>13 DEF ProcessStep

\* Every step preserves the types.
LEMMA TypeStep == TypeOK /\ [Next]_vars => TypeOK'
<1> SUFFICES ASSUME TypeOK, [Next]_vars PROVE TypeOK'
  OBVIOUS
<1> USE RowTypes
<1>1. ASSUME NEW a \in Requests, NEW c \in Clients, Lookup(a, c) PROVE TypeOK'
  BY <1>1 DEF Lookup, TypeOK, Request
<1>2. ASSUME NEW a \in Requests, InsertReceipt(a) PROVE TypeOK'
  <2>1. PICK r \in Receipts :
           /\ receipt' = [receipt EXCEPT ![r] =
                            [NoReceipt("live") EXCEPT !.client = api[a].client]]
           /\ job' = [job EXCEPT ![r] = NewJob]
           /\ api' = [api EXCEPT ![a] = [@ EXCEPT !.pc = "notify", !.r = r]]
           /\ promised' = promised \union {r}
    BY <1>2 DEF InsertReceipt
  <2>2. api[a] \in Request /\ NoReceipt("live") \in ReceiptRow
    BY DEF TypeOK
  <2>3. [NoReceipt("live") EXCEPT !.client = api[a].client] \in ReceiptRow
    BY <2>2 DEF ReceiptRow, Request, NoReceipt
  <2>4. [api[a] EXCEPT !.pc = "notify", !.r = r] \in Request
    BY <2>2 DEF Request
  <2> QED
    BY <1>2, <2>1, <2>3, <2>4 DEF InsertReceipt, TypeOK
<1>3. ASSUME NEW a \in Requests, InsertConflict(a) \/ Requery(a) \/ Notify(a) PROVE TypeOK'
  <2>1. [api[a] EXCEPT !.pc = "requery"] \in Request
    BY DEF TypeOK, Request
  <2>2. api' \in [Requests -> Request] /\ wake' \in BOOLEAN
    BY <1>3, <2>1 DEF InsertConflict, Requery, Notify, TypeOK, Listening
  <2> QED
    BY <1>3, <2>2 DEF InsertConflict, Requery, Notify, TypeOK
<1>4. ASSUME NEW r \in Receipts, Resolve(r) PROVE TypeOK'
  <2>1. [kind |-> "manual", lines |-> 0, correction |-> Amount(book[r]) + Total] \in Booking
    BY TotalAssumption DEF Booking, TypeOK, Amount
  <2> QED
    BY <1>4, <2>1 DEF Resolve, CompleteJob, NewRefs, TypeOK
<1>5. ASSUME NEW r \in Receipts, Delete(r) PROVE TypeOK'
  BY <1>5 DEF Delete, TypeOK
<1>6. ASSUME NEW r \in Receipts, SheetLogged(r) PROVE TypeOK'
  BY <1>6 DEF SheetLogged, TypeOK
<1>7. ASSUME NEW rs \in SUBSET Receipts, Requeue(rs) PROVE TypeOK'
  <2>1. \A r \in Receipts :
          [job[r] EXCEPT !.status = "pending", !.retry = 0, !.due = TRUE] \in JobRow
    BY DEF TypeOK, JobRow, JobStatus
  <2> QED
    BY <1>7, <2>1 DEF Requeue, TypeOK
<1>8. CASE WakeByEvent \/ WakeByTimeout \/ ClaimedAll \/ DrainDone \/ Restart
  BY <1>8 DEF WakeByEvent, WakeByTimeout, ClaimedAll, DrainDone, Restart, TypeOK, DrainPC
<1>9. ASSUME NEW t \in Tokens, NEW r \in Receipts, Claim(t, r) PROVE TypeOK'
  <2> DEFINE n == IF job[r].status = "in_progress" THEN Bump(job[r].retry) ELSE job[r].retry
  <2>1. n \in 0..MaxRetry
    BY DEF TypeOK, JobRow
  <2>2. [job[r] EXCEPT !.status = "in_progress", !.token = t, !.retry = n, !.age = "fresh"] \in JobRow
    BY <2>1 DEF TypeOK, JobRow, JobStatus
  <2>3. [FreeProc EXCEPT !.pc = IF receipt[r].parsed THEN "store" ELSE "parse",
                         !.r = r, !.retry = n, !.fallback = receipt[r].fallback] \in Proc
    <3>1. receipt[r].fallback \in BOOLEAN /\ FreeProc \in Proc
      BY RowTypes DEF TypeOK, ReceiptRow
    <3>2. (IF receipt[r].parsed THEN "store" ELSE "parse") \in ProcPC
      BY DEF ProcPC
    <3> HIDE DEF n
    <3> QED
      BY <2>1, <3>1, <3>2 DEF Proc
  <2> QED
    BY <1>9, <2>2, <2>3 DEF Claim, TypeOK
<1>10. CASE ClaimRaises
  <2>1. /\ proc' \in [Tokens -> Proc] /\ drain' \in DrainPC
        /\ \A t \in Tokens : proc'[t].pc = "free"
    BY <1>10 DEF ClaimRaises, DrainPC, FreeProc
  <2> QED
    BY <1>10, <2>1 DEF ClaimRaises, TypeOK
<1>11. ASSUME NEW t \in Tokens, ProcessStep(t) PROVE TypeOK'
  BY <1>11, ProcessType
<1>12. ASSUME NEW r \in Receipts, RetryDue(r) \/ TimerFires(r) \/ ClaimAges(r) PROVE TypeOK'
  <2>1. \A b \in BOOLEAN : [job[r] EXCEPT !.due = b] \in JobRow
    BY DEF TypeOK, JobRow
  <2>2. \A g \in {"fresh", "old", "day"} : [job[r] EXCEPT !.age = g] \in JobRow
    BY DEF TypeOK, JobRow
  <2> QED
    BY <1>12, <2>1, <2>2 DEF RetryDue, TimerFires, ClaimAges, TypeOK, Listening
<1>13. CASE Crash
  <2>1. /\ proc' \in [Tokens -> Proc] /\ drain' \in DrainPC
        /\ \A t \in Tokens : proc'[t].pc = "free"
    BY <1>13 DEF Crash, DrainPC, FreeProc
  <2>2. crashes' \in 0..MaxCrashes
    BY <1>13, BoundsAssumption DEF Crash, TypeOK
  <2> QED
    BY <1>13, <2>1, <2>2 DEF Crash, TypeOK
<1>14. CASE UNCHANGED vars
  BY <1>14 DEF vars, TypeOK
<1> QED
  BY <1>1, <1>2, <1>3, <1>4, <1>5, <1>6, <1>7, <1>8, <1>9, <1>10, <1>11, <1>12, <1>13, <1>14
     DEF Next, RequestStep, DrainStep

\* The fresh database and the freshly started server.
LEMMA TypeInit == Init => TypeOK
<1> SUFFICES ASSUME Init PROVE TypeOK
  OBVIOUS
<1> USE RowTypes DEF Init
<1>1. receipt \in [Receipts -> ReceiptRow] /\ job \in [Receipts -> JobRow]
  OBVIOUS
<1>2. book \in [Receipts -> Booking] /\ held \in [Receipts -> SUBSET ChildRows]
  OBVIOUS
<1>3. /\ proc \in [Tokens -> Proc]
      /\ \A t \in Tokens : proc[t].pc = "free"
  BY DEF FreeProc
<1>4. api \in [Requests -> Request]
  OBVIOUS
<1>5. crashes \in 0..MaxCrashes
  BY BoundsAssumption
<1> QED
  BY <1>1, <1>2, <1>3, <1>4, <1>5 DEF TypeOK, DrainPC

\* Whatever the interleaving, every row and every coroutine stays well formed.
THEOREM TypeCorrect == Spec => []TypeOK
BY TypeInit, TypeStep, PTL DEF Spec
-----------------------------------------------------------------------------
(* Inductive is an invariant while no re-queue falls between two claims. *)

\* The fields of the initial rows.
LEMMA Fields ==
    /\ NoJob.status = "none" /\ NoJob.token = NoToken /\ NewJob.status = "pending"
    /\ NoBooking.kind = "none" /\ NoBooking.lines = 0 /\ NoBooking.correction = 0
    /\ FreeProc.pc = "free"
    /\ \A s \in {"absent", "live", "deleted"} :
          /\ NoReceipt(s).state = s /\ ~NoReceipt(s).parsed
          /\ NoReceipt(s).rows = 0 /\ NoReceipt(s).listed = 0
BY DEF NoJob, NewJob, NoBooking, FreeProc, NoReceipt

\* What an invariant of the rows looks at; the rest of the state may change freely.
LEMMA Unread ==
    ASSUME Inductive, TypeOK', UNCHANGED <<receipt, job, book, held, drain, proc>>
    PROVE  Inductive'
BY DEF Inductive, OneWorker, JobXorExpenses, BookedOnce, ClaimsHeld, ItemsAsListed, NoHalfRows,
       ReadsCurrent, Live, Working, Amount, StaleClaim

\* The drain loop itself moves on only when it may.
LEMMA DrainMoves ==
    ASSUME Inductive, TypeOK', UNCHANGED <<receipt, job, book, held, proc>>,
           \A t \in Tokens : Working(t) => drain = "claim" /\ drain' = "run"
    PROVE  Inductive'
BY DEF Inductive, OneWorker, JobXorExpenses, BookedOnce, ClaimsHeld, ItemsAsListed, NoHalfRows,
       ReadsCurrent, Live, Working, Amount, StaleClaim

\* Every coroutine is gone.
LEMMA AllGone ==
    ASSUME Inductive, TypeOK', UNCHANGED <<receipt, job, book, held>>,
           proc' = [t \in Tokens |-> FreeProc]
    PROVE  Inductive'
<1>1. \A t \in Tokens : proc'[t].pc = "free"
  BY Fields
<1> QED
  BY <1>1 DEF Inductive, OneWorker, JobXorExpenses, BookedOnce, ClaimsHeld, ItemsAsListed,
              NoHalfRows, ReadsCurrent, Live, Working, Amount, StaleClaim

\* A condition on what a coroutine holds in memory.
Reads(p) ==
    LET row == receipt[p.r] IN
    Live(p.r) =>
      /\ p.pc \in {"parse", "save"} => ~row.parsed
      /\ p.pc \in {"store", "items", "rules", "llm", "persist"} =>
            row.parsed /\ p.fallback = row.fallback
      /\ p.pc = "rules" => p.rows = row.rows /\ (p.rows > 0 \/ p.fallback)
      /\ p.pc \in {"llm", "persist"} =>
            IF p.fallback /\ row.rows > Total THEN p.rows = 0
            ELSE p.rows = row.rows /\ (p.rows > 0 \/ p.fallback)

\* ReadsCurrent, coroutine by coroutine.
LEMMA ReadsOfWorkers == ReadsCurrent <=> \A t \in Tokens : Working(t) => Reads(proc[t])
BY DEF ReadsCurrent, Reads, Working

\* One coroutine moves on.
LEMMA Moves ==
    ASSUME Inductive, TypeOK', NEW t \in Tokens, Working(t), drain = "run",
           NEW p \in Proc, p.r = proc[t].r, p.pc # "free", Become(t, p), Reads(p)
    PROVE  Inductive'
<1>1. /\ proc'[t] = p /\ \A u \in Tokens : u # t => proc'[u] = proc[u]
      /\ UNCHANGED <<receipt, job, book, held, drain>>
  BY DEF Become, OnlyProc, Inductive, TypeOK
<1>2. OneWorker'
  BY <1>1 DEF Inductive, OneWorker, Working
<1>3. JobXorExpenses' /\ BookedOnce' /\ ItemsAsListed' /\ NoHalfRows'
  BY <1>1 DEF Inductive, JobXorExpenses, BookedOnce, ItemsAsListed, NoHalfRows, Live, Amount
<1>4. ClaimsHeld'
  BY <1>1 DEF Inductive, ClaimsHeld, Working, StaleClaim
<1>5. ReadsCurrent'
  BY <1>1 DEF Inductive, ReadsCurrent, Reads, Working, Live
<1> QED
  BY <1>2, <1>3, <1>4, <1>5 DEF Inductive

\* No job row appears or goes, and a missing one has no token.
JobsRemain ==
    \A q \in Receipts :
        /\ (job'[q].status = "none") <=> (job[q].status = "none")
        /\ job'[q].status = "none" => job'[q].token = NoToken

\* One coroutine returns; at most the job it worked on changes.
LEMMA Returns ==
    ASSUME Inductive, TypeOK', NEW t \in Tokens, Working(t), drain = "run", Return(t),
           UNCHANGED <<receipt, book, held, drain>>,
           JobsRemain
    PROVE  Inductive'
<1>1. proc'[t].pc = "free" /\ \A u \in Tokens : u # t => proc'[u] = proc[u]
  BY Fields DEF Return, Inductive, TypeOK
<1>2. OneWorker'
  BY <1>1 DEF Inductive, OneWorker
<1>3. BookedOnce' /\ ItemsAsListed'
  BY DEF Inductive, BookedOnce, ItemsAsListed, Amount
<1>4. JobXorExpenses'
  BY DEF Inductive, JobXorExpenses, Live, JobsRemain
<1>5. NoHalfRows'
  BY DEF Inductive, NoHalfRows, JobsRemain
<1>6. ClaimsHeld'
  BY <1>1 DEF Inductive, ClaimsHeld, Working
<1>7. ReadsCurrent'
  BY <1>1 DEF Inductive, ReadsCurrent, Working, Live
<1> QED
  BY <1>2, <1>3, <1>4, <1>5, <1>6, <1>7 DEF Inductive

\* A stored receipt is new: nobody works on it.
LEMMA InsertKeeps ==
    ASSUME Inductive, TypeOK', NEW a \in Requests, InsertReceipt(a)
    PROVE  Inductive'
<1>1. PICK r \in Receipts :
         /\ receipt[r].state = "absent"
         /\ receipt' = [receipt EXCEPT ![r] = [NoReceipt("live") EXCEPT !.client = api[a].client]]
         /\ job' = [job EXCEPT ![r] = NewJob]
         /\ UNCHANGED <<book, held, drain, proc>>
  BY DEF InsertReceipt
<1>2. /\ \A q \in Receipts : q # r => receipt'[q] = receipt[q] /\ job'[q] = job[q]
      /\ receipt'[r].state = "live" /\ ~receipt'[r].parsed
      /\ receipt'[r].rows = 0 /\ receipt'[r].listed = 0
      /\ job'[r].status = "pending"
  <2>1. receipt'[r] = [NoReceipt("live") EXCEPT !.client = api[a].client] /\ job'[r] = NewJob
    BY <1>1 DEF Inductive, TypeOK
  <2>2. /\ receipt'[r].state = NoReceipt("live").state
        /\ receipt'[r].parsed = NoReceipt("live").parsed
        /\ receipt'[r].rows = NoReceipt("live").rows
        /\ receipt'[r].listed = NoReceipt("live").listed
    BY <2>1, RowTypes DEF ReceiptRow
  <2> QED
    BY <1>1, <2>1, <2>2, Fields DEF Inductive, TypeOK
<1>3. ~Live(r) /\ book[r].kind = "none"
  BY <1>1 DEF Live, Inductive, JobXorExpenses
<1>4. \A t \in Tokens : Working(t) => proc[t].r \in Receipts /\ proc[t].r # r
  BY <1>1 DEF Inductive, ClaimsHeld, Working, TypeOK
<1>5. OneWorker'
  BY <1>1 DEF Inductive, OneWorker
<1>6. JobXorExpenses' /\ NoHalfRows'
  BY <1>1, <1>2, <1>3 DEF Inductive, JobXorExpenses, NoHalfRows, Live
<1>7. BookedOnce' /\ ItemsAsListed'
  BY <1>1, <1>2, <1>3 DEF Inductive, BookedOnce, ItemsAsListed, Amount
<1>8. ClaimsHeld' /\ ReadsCurrent'
  BY <1>1, <1>2, <1>4 DEF Inductive, ClaimsHeld, ReadsCurrent, Working, StaleClaim, Live
<1> QED
  BY <1>5, <1>6, <1>7, <1>8 DEF Inductive

\* A manual resolution books the declared total once, since a job means no expenses.
LEMMA ResolveKeeps ==
    ASSUME Inductive, TypeOK', NEW r \in Receipts, Resolve(r)
    PROVE  Inductive'
<1>1. Live(r) /\ book[r] = NoBooking
  BY DEF Resolve, Inductive, JobXorExpenses, NoHalfRows
<1>2. /\ UNCHANGED <<receipt, drain, proc>>
      /\ \A q \in Receipts : q # r => /\ job'[q] = job[q] /\ book'[q] = book[q]
                                     /\ held'[q] = held[q]
      /\ job'[r].status = "none" /\ job'[r].token = NoToken
      /\ book'[r].kind = "manual" /\ Amount(book'[r]) = Total
  <2>1. job'[r] = NoJob /\ book'[r] = [kind |-> "manual", lines |-> 0,
                                       correction |-> Amount(book[r]) + Total]
    BY DEF Resolve, CompleteJob, Inductive, TypeOK
  <2>2. Amount(book[r]) = 0
    BY <1>1, Fields DEF Amount
  <2>3. book'[r].kind = "manual" /\ Amount(book'[r]) = Total
    BY <2>1, <2>2, TotalAssumption DEF Amount
  <2> QED
    BY <2>1, <2>3, Fields DEF Resolve, CompleteJob, Inductive, TypeOK
<1>3. OneWorker' /\ ReadsCurrent'
  BY <1>2 DEF Inductive, OneWorker, ReadsCurrent, Working, Live
<1>4. JobXorExpenses' /\ NoHalfRows'
  BY <1>1, <1>2 DEF Inductive, JobXorExpenses, NoHalfRows, Live
<1>5. BookedOnce' /\ ItemsAsListed'
  BY <1>2 DEF Inductive, BookedOnce, ItemsAsListed
<1>6. ClaimsHeld'
  <2>1. \A t \in Tokens : Working(t) => proc[t].r \in Receipts
    BY DEF Inductive, TypeOK, Working
  <2> QED
    BY <1>2, <2>1 DEF Inductive, ClaimsHeld, Working, StaleClaim
<1> QED
  BY <1>3, <1>4, <1>5, <1>6 DEF Inductive

\* A deleted receipt leaves no row behind; a coroutine still on it can only run dry.
LEMMA DeleteKeeps ==
    ASSUME Inductive, TypeOK', NEW r \in Receipts, Delete(r)
    PROVE  Inductive'
<1>1. /\ UNCHANGED <<drain, proc>>
      /\ \A q \in Receipts : q # r => /\ job'[q] = job[q] /\ book'[q] = book[q]
                                     /\ held'[q] = held[q] /\ receipt'[q] = receipt[q]
      /\ job'[r] = NoJob /\ book'[r] = NoBooking /\ held'[r] = {}
      /\ receipt'[r] = NoReceipt("deleted")
  BY DEF Delete, Inductive, TypeOK
<1>2. receipt'[r].state = "deleted" /\ ~receipt'[r].parsed
      /\ receipt'[r].rows = 0 /\ receipt'[r].listed = 0
      /\ job'[r].status = "none" /\ job'[r].token = NoToken /\ book'[r].kind = "none"
  BY <1>1, Fields
<1>3. OneWorker'
  BY <1>1 DEF Inductive, OneWorker
<1>4. JobXorExpenses' /\ NoHalfRows'
  BY <1>1, <1>2 DEF Inductive, JobXorExpenses, NoHalfRows, Live
<1>5. BookedOnce' /\ ItemsAsListed'
  BY <1>1, <1>2 DEF Inductive, BookedOnce, ItemsAsListed, Amount
<1>6. ClaimsHeld' /\ ReadsCurrent'
  <2>1. \A t \in Tokens : Working(t) => proc[t].r \in Receipts
    BY DEF Inductive, TypeOK, Working
  <2> QED
    BY <1>1, <1>2, <2>1 DEF Inductive, ClaimsHeld, ReadsCurrent, Working, StaleClaim, Live
<1> QED
  BY <1>3, <1>4, <1>5, <1>6 DEF Inductive

\* A re-queue outside of the claiming phase finds no claim it could undo unnoticed.
LEMMA RequeueKeeps ==
    ASSUME Inductive, TypeOK', NEW rs \in SUBSET Receipts, Requeue(rs), "midclaim" \notin Faults
    PROVE  Inductive'
<1>1. /\ UNCHANGED <<receipt, held, drain, proc>> /\ drain # "claim"
      /\ \A q \in rs : Live(q) /\ book'[q] = NoBooking /\ job'[q].status = "pending"
      /\ \A q \in Receipts \ rs : job'[q] = job[q] /\ book'[q] = book[q]
  <2>1. \A q \in rs : job'[q].status = "pending"
    <3>1. \A q \in rs : /\ job[q] \in JobRow
                        /\ job'[q] = [job[q] EXCEPT !.status = "pending", !.retry = 0, !.due = TRUE]
      BY DEF Requeue, Inductive, TypeOK
    <3> QED
      BY <3>1 DEF JobRow
  <2> QED
    BY <2>1 DEF Requeue
<1>2. OneWorker' /\ ReadsCurrent'
  BY <1>1 DEF Inductive, OneWorker, ReadsCurrent, Working, Live
<1>3. JobXorExpenses' /\ NoHalfRows'
  BY <1>1, Fields DEF Inductive, JobXorExpenses, NoHalfRows, Live
<1>4. BookedOnce' /\ ItemsAsListed'
  BY <1>1, Fields DEF Inductive, BookedOnce, ItemsAsListed, Amount
<1>5. ClaimsHeld'
  BY <1>1 DEF Inductive, ClaimsHeld, Working
<1> QED
  BY <1>2, <1>3, <1>4, <1>5 DEF Inductive

\* A logged expense loses its logging job, nothing else.
LEMMA SheetLoggedKeeps ==
    ASSUME Inductive, TypeOK', NEW r \in Receipts, SheetLogged(r)
    PROVE  Inductive'
<1>1. /\ UNCHANGED <<receipt, job, book, drain, proc>>
      /\ \A q \in Receipts : held[q] = {} => held'[q] = {}
  BY DEF SheetLogged, Inductive, TypeOK
<1>2. OneWorker' /\ ReadsCurrent' /\ ClaimsHeld'
  BY <1>1 DEF Inductive, OneWorker, ReadsCurrent, ClaimsHeld, Working, Live, StaleClaim
<1>3. JobXorExpenses'
  BY <1>1 DEF Inductive, JobXorExpenses, Live
<1>4. BookedOnce' /\ ItemsAsListed' /\ NoHalfRows'
  BY <1>1 DEF Inductive, BookedOnce, ItemsAsListed, NoHalfRows, Amount
<1> QED
  BY <1>2, <1>3, <1>4 DEF Inductive

\* A claim takes a receipt nobody works on: the job of such a one is not claimable.
LEMMA ClaimKeeps ==
    ASSUME Inductive, TypeOK', NEW t \in Tokens, NEW r \in Receipts, Claim(t, r)
    PROVE  Inductive'
<1> DEFINE n == IF job[r].status = "in_progress" THEN Bump(job[r].retry) ELSE job[r].retry
           j == [job[r] EXCEPT !.status = "in_progress", !.token = t, !.retry = n, !.age = "fresh"]
           p == [FreeProc EXCEPT !.pc = IF receipt[r].parsed THEN "store" ELSE "parse",
                                 !.r = r, !.retry = n, !.fallback = receipt[r].fallback]
<1>1. /\ UNCHANGED <<receipt, book, held, drain>> /\ drain = "claim" /\ ~Working(t)
      /\ Claimable(r)
      /\ proc'[t] = p /\ \A u \in Tokens : u # t => proc'[u] = proc[u]
      /\ job'[r] = j /\ \A q \in Receipts : q # r => job'[q] = job[q]
  BY DEF Claim, Working, Inductive, TypeOK
<1>2. /\ job'[r].status = "in_progress" /\ job'[r].age = "fresh"
      /\ job[r].status # "none"
  <2>1. job[r] \in JobRow
    BY DEF Inductive, TypeOK
  <2>2. j.status = "in_progress" /\ j.age = "fresh"
    BY <2>1 DEF JobRow
  <2> QED
    BY <1>1, <2>2 DEF Claimable, StaleClaim
<1>3. /\ p.r = r /\ p.fallback = receipt[r].fallback
      /\ p.pc = IF receipt[r].parsed THEN "store" ELSE "parse"
  BY RowTypes DEF Proc
<1> HIDE DEF j, p
<1>4. Live(r) /\ receipt[r].state # "absent"
  BY <1>2 DEF Inductive, JobXorExpenses, Live
<1>5. \A u \in Tokens : Working(u) => proc[u].r \in Receipts /\ proc[u].r # r
  BY <1>1 DEF Inductive, ClaimsHeld, Claimable, Working, TypeOK
<1>6. OneWorker'
  BY <1>1, <1>3, <1>5 DEF Inductive, OneWorker, Working
<1>7. JobXorExpenses'
  BY <1>1, <1>2 DEF Inductive, JobXorExpenses, Live
<1>8. NoHalfRows'
  BY <1>1, <1>2 DEF Inductive, NoHalfRows
<1>9. BookedOnce' /\ ItemsAsListed'
  BY <1>1 DEF Inductive, BookedOnce, ItemsAsListed
<1>10. ClaimsHeld'
  BY <1>1, <1>2, <1>3, <1>4, <1>5 DEF Inductive, ClaimsHeld, Working, StaleClaim
<1>11. ReadsCurrent'
  BY <1>1, <1>3, <1>5 DEF Inductive, ReadsCurrent, Working, Live
<1> QED
  BY <1>6, <1>7, <1>8, <1>9, <1>10, <1>11 DEF Inductive

\* Time changes no status, and ages no claim of the drain that is claiming.
LEMMA TimeKeeps ==
    ASSUME Inductive, TypeOK', NEW r \in Receipts, RetryDue(r) \/ ClaimAges(r)
    PROVE  Inductive'
<1>1. /\ UNCHANGED <<receipt, book, held, drain, proc>>
      /\ \A q \in Receipts : q # r => job'[q] = job[q]
      /\ job'[r].status = job[r].status /\ job'[r].token = job[r].token
      /\ drain = "claim" /\ (\E t \in Tokens : proc[t].r = r) => job'[r].age = job[r].age
  <2>1. job[r] \in JobRow
    BY DEF Inductive, TypeOK
  <2>2. \A x : /\ [job[r] EXCEPT !.due = x].status = job[r].status
               /\ [job[r] EXCEPT !.due = x].token = job[r].token
               /\ [job[r] EXCEPT !.due = x].age = job[r].age
               /\ [job[r] EXCEPT !.age = x].status = job[r].status
               /\ [job[r] EXCEPT !.age = x].token = job[r].token
    BY <2>1 DEF JobRow
  <2>3. CASE RetryDue(r)
    BY <2>2, <2>3 DEF RetryDue, Inductive, TypeOK
  <2>4. CASE ClaimAges(r)
    BY <2>2, <2>4 DEF ClaimAges, Inductive, TypeOK
  <2> QED
    BY <2>3, <2>4
<1>2. OneWorker' /\ ReadsCurrent'
  BY <1>1 DEF Inductive, OneWorker, ReadsCurrent, Working, Live
<1>3. JobXorExpenses' /\ NoHalfRows'
  BY <1>1 DEF Inductive, JobXorExpenses, NoHalfRows, Live
<1>4. BookedOnce' /\ ItemsAsListed'
  BY <1>1 DEF Inductive, BookedOnce, ItemsAsListed
<1>5. ClaimsHeld'
  <2>1. \A t \in Tokens : Working(t) => proc[t].r \in Receipts
    BY DEF Inductive, TypeOK, Working
  <2> QED
    BY <1>1, <2>1 DEF Inductive, ClaimsHeld, Working, StaleClaim
<1> QED
  BY <1>2, <1>3, <1>4, <1>5 DEF Inductive

\* The one save of a receipt: its items are exactly the lines of this fetch.
LEMMA SaveKeeps ==
    ASSUME Inductive, TypeOK', NEW t \in Tokens, Working(t), drain = "run", proc[t].pc = "save",
           Live(proc[t].r), receipt' = [receipt EXCEPT ![proc[t].r] = Saved(proc[t].r, proc[t])],
           NEW p \in Proc, p.r = proc[t].r, proc' = [proc EXCEPT ![t] = p],
           \/ p.pc = "store" /\ p.fallback = proc[t].fallback
           \/ p.pc = "poison",
           UNCHANGED <<job, book, held, drain>>
    PROVE  Inductive'
<1> DEFINE r == proc[t].r
<1>1. /\ proc'[t] = p /\ \A u \in Tokens : u # t => proc'[u] = proc[u]
      /\ r \in Receipts /\ \A q \in Receipts : q # r => receipt'[q] = receipt[q]
      /\ receipt'[r] = Saved(r, proc[t])
  BY DEF Inductive, TypeOK, Working
<1>2. ~receipt[r].parsed /\ receipt[r].rows = 0 /\ book[r].kind # "lines"
  BY <1>1 DEF Inductive, ReadsCurrent, ItemsAsListed
<1>3. proc[t].rows \in Nat /\ receipt[r].rows + proc[t].rows = proc[t].rows
  BY <1>1, <1>2 DEF Inductive, TypeOK, Proc
<1>4. /\ receipt'[r].state = "live" /\ receipt'[r].parsed /\ receipt'[r].fallback = proc[t].fallback
      /\ receipt'[r].rows = proc[t].rows /\ receipt'[r].listed = proc[t].rows
  <2>1. receipt[r] \in ReceiptRow
    BY <1>1 DEF Inductive, TypeOK
  <2>2. /\ Saved(r, proc[t]).state = receipt[r].state /\ Saved(r, proc[t]).parsed
        /\ Saved(r, proc[t]).fallback = proc[t].fallback
        /\ Saved(r, proc[t]).rows = receipt[r].rows + proc[t].rows
        /\ Saved(r, proc[t]).listed = proc[t].rows
    BY <2>1 DEF Saved, ReceiptRow
  <2> QED
    BY <1>1, <1>3, <2>2 DEF Live
<1>5. \A u \in Tokens : Working(u) /\ u # t => proc[u].r \in Receipts /\ proc[u].r # r
  BY DEF Inductive, OneWorker, Working, TypeOK
<1>6. OneWorker'
  BY <1>1, <1>5 DEF OneWorker, Working, Inductive
<1>7. JobXorExpenses' /\ NoHalfRows'
  BY <1>1, <1>4 DEF Inductive, JobXorExpenses, NoHalfRows, Live
<1>8. BookedOnce' /\ ItemsAsListed'
  BY <1>1, <1>2, <1>4 DEF Inductive, BookedOnce, ItemsAsListed, Amount
<1>9. ClaimsHeld'
  BY <1>1, <1>4, <1>5 DEF Inductive, ClaimsHeld, Working
<1>10. ReadsCurrent'
  BY <1>1, <1>4, <1>5 DEF Inductive, ReadsCurrent, Working, Live
<1> QED
  BY <1>6, <1>7, <1>8, <1>9, <1>10 DEF Inductive

\* The transaction of persist books the whole amount: every line, or the declared total.
LEMMA BookKeeps ==
    ASSUME Inductive, TypeOK', NEW t \in Tokens, drain = "run", proc[t].pc = "persist",
           PersistBook(t)
    PROVE  Inductive'
<1> DEFINE r == proc[t].r
           row == receipt[r]
           c == Correction(r, proc[t].fallback)
           discard == proc[t].fallback /\ row.rows > Total
           lines == IF discard THEN 0 ELSE proc[t].rows
<1>1. /\ proc'[t].pc = "free" /\ \A u \in Tokens : u # t => proc'[u] = proc[u]
      /\ r \in Receipts /\ Live(r) /\ book[r].kind = "none" /\ Working(t)
      /\ UNCHANGED drain
  BY Fields DEF PersistBook, Return, HasExpenses, Inductive, TypeOK, Working
<1>2. \A q \in Receipts : q # r => /\ receipt'[q] = receipt[q] /\ book'[q] = book[q]
                                   /\ held'[q] = held[q] /\ job'[q] = job[q]
  BY DEF PersistBook, CompleteJob, Inductive, TypeOK
<1>3. job'[r].status = "none" /\ job'[r].token = NoToken
  BY <1>1, Fields DEF PersistBook, CompleteJob, Inductive, TypeOK
<1>4. /\ row.rows \in Nat /\ row.listed \in Nat /\ proc[t].rows \in Nat /\ row.parsed
      /\ proc[t].fallback = row.fallback /\ row.fallback \in BOOLEAN
      /\ IF row.fallback /\ row.rows > Total THEN proc[t].rows = 0
         ELSE proc[t].rows = row.rows /\ (proc[t].rows > 0 \/ row.fallback)
      /\ row.rows = row.listed \/ (row.fallback /\ row.rows = 0)
  BY <1>1 DEF Inductive, TypeOK, ReceiptRow, Proc, ReadsCurrent, ItemsAsListed
<1>5. /\ lines \in Nat /\ c \in Nat /\ lines + c # 0
      /\ lines + c = IF row.fallback THEN Total ELSE row.listed
  BY <1>4, TotalAssumption DEF Correction
<1>6. book'[r] = [kind |-> "lines", lines |-> lines, correction |-> c]
  BY <1>1, <1>5 DEF PersistBook, Inductive, TypeOK
<1>7. /\ receipt'[r].state = row.state /\ receipt'[r].parsed /\ receipt'[r].fallback = row.fallback
      /\ receipt'[r].listed = row.listed
      /\ receipt'[r].rows = IF discard THEN 0 ELSE row.rows
  <2>1. row \in ReceiptRow /\ receipt'[r] = [row EXCEPT !.rows = IF discard THEN 0 ELSE row.rows]
    BY <1>1 DEF PersistBook, Inductive, TypeOK
  <2>2. \A x : /\ [row EXCEPT !.rows = x].state = row.state
               /\ [row EXCEPT !.rows = x].parsed = row.parsed
               /\ [row EXCEPT !.rows = x].fallback = row.fallback
               /\ [row EXCEPT !.rows = x].listed = row.listed
               /\ [row EXCEPT !.rows = x].rows = x
    BY <2>1 DEF ReceiptRow
  <2> QED
    BY <1>4, <2>1, <2>2
<1>8. \A u \in Tokens : Working(u) /\ u # t => proc[u].r \in Receipts /\ proc[u].r # r
  BY <1>1 DEF Inductive, OneWorker, Working, TypeOK
<1>9. OneWorker'
  BY <1>1 DEF OneWorker, Inductive
<1>10. JobXorExpenses' /\ NoHalfRows'
  BY <1>1, <1>2, <1>3, <1>6, <1>7 DEF Inductive, JobXorExpenses, NoHalfRows, Live
<1>11. BookedOnce'
  BY <1>1, <1>2, <1>5, <1>6, <1>7 DEF Inductive, BookedOnce, Amount
<1>12. ItemsAsListed'
  BY <1>1, <1>2, <1>4, <1>7 DEF Inductive, ItemsAsListed
<1>13. ClaimsHeld' /\ ReadsCurrent'
  BY <1>1, <1>2, <1>8 DEF Inductive, ClaimsHeld, ReadsCurrent, Working, Live
<1> QED
  BY <1>9, <1>10, <1>11, <1>12, <1>13 DEF Inductive

\* A coroutine that fails keeps only its receipt for the handler.
LEMMA FailureKeeps ==
    ASSUME Inductive, TypeOK', NEW t \in Tokens, Working(t), drain = "run",
           Transient(t) \/ Permanent(t) \/ Cancelled(t) \/ Unexpected(t)
             \/ Abort(t, "release", TRUE)
    PROVE  Inductive'
<1>1. (proc[t].retry > 0) \in BOOLEAN
  OBVIOUS
<1>2. PICK pc \in {"release", "poison", "cancelled"}, d \in BOOLEAN : Abort(t, pc, d)
  BY <1>1 DEF Transient, Permanent, Cancelled, Unexpected
<1>3. pc \in ProcPC
  BY DEF ProcPC
<1>4. Aborted(t, pc, d) \in Proc /\ Aborted(t, pc, d).r = proc[t].r
  BY <1>3, ProcTypes DEF Inductive, Working
<1>5. Aborted(t, pc, d).pc = pc
  BY RowTypes DEF Aborted, Proc
<1>6. Reads(Aborted(t, pc, d))
  BY <1>5 DEF Reads
<1> QED
  BY <1>2, <1>4, <1>5, <1>6, Moves DEF Abort

\* A step that changes nothing but the program counter.
LEMMA GotoKeeps ==
    ASSUME Inductive, TypeOK', NEW t \in Tokens, drain = "run", NEW pc \in ProcPC, Goto(t, pc),
           \/ proc[t].pc = "store" /\ pc = "items"
           \/ proc[t].pc = "llm" /\ pc = "persist"
           \/ proc[t].pc = "save" /\ ~Live(proc[t].r) /\ pc = "store"
    PROVE  Inductive'
<1> DEFINE p == [proc[t] EXCEPT !.pc = pc]
<1>1. Working(t)
  BY DEF Working
<1>2. p \in Proc /\ p.r = proc[t].r /\ p.pc = pc /\ p.rows = proc[t].rows
      /\ p.fallback = proc[t].fallback
  <2>1. proc[t] \in Proc
    BY DEF Inductive, TypeOK
  <2> QED
    BY <2>1 DEF Proc
<1>3. Become(t, p)
  BY DEF Goto
<1> HIDE DEF p
<1>4. Reads(proc[t])
  BY <1>1, ReadsOfWorkers DEF Inductive
<1>5. Reads(p)
  BY <1>2, <1>4 DEF Reads
<1> QED
  BY <1>1, <1>2, <1>3, <1>5, Moves

\* Every step of a coroutine keeps the invariant.
LEMMA ProcessKeeps ==
    ASSUME Inductive, TypeOK', NEW t \in Tokens, ProcessStep(t)
    PROVE  Inductive'
<1> DEFINE r == proc[t].r
<1>1. Working(t) /\ drain = "run"
  BY DEF ProcessStep, Parse, Save, EnsureStore, GetItems, RulesPass, LlmPass, Persist, Release,
         Poison, ReleaseCancelled, Running, Working
<1>2. proc[t] \in Proc /\ r \in Receipts /\ Reads(proc[t])
  BY <1>1, ReadsOfWorkers DEF Inductive, TypeOK, Working
<1>3. {"save", "store", "items", "rules", "llm", "persist", "poison"} \subseteq ProcPC
  BY DEF ProcPC
<1>4. CASE Parse(t)
  <2>1. ASSUME NEW n \in 0..MaxRows, NEW fb \in BOOLEAN,
               Become(t, [proc[t] EXCEPT !.pc = "save", !.rows = n, !.fallback = fb])
        PROVE  Inductive'
    <3> DEFINE p == [proc[t] EXCEPT !.pc = "save", !.rows = n, !.fallback = fb]
    <3>0. n \in Nat
      BY BoundsAssumption
    <3>1. n \in Nat /\ proc[t].pc = "parse"
      BY <1>4, <3>0 DEF Parse, Running
    <3>2. p \in Proc /\ p.r = r /\ p.pc = "save"
      BY <1>2, <1>3, <3>1 DEF Proc
    <3> HIDE DEF p
    <3>3. Reads(p)
      BY <1>2, <3>1, <3>2 DEF Reads
    <3> QED
      BY <1>1, <2>1, <3>2, <3>3, Moves DEF p
  <2> QED
    BY <1>1, <1>4, <2>1, FailureKeeps DEF Parse
<1>5. CASE Save(t)
  <2>0. proc[t].pc = "save"
    BY <1>5 DEF Save, Running
  <2>1. CASE Permanent(t) \/ Unexpected(t)
    BY <1>1, <2>1, FailureKeeps
  <2>2. CASE ~Live(r) /\ Goto(t, "store")
    BY <1>1, <1>3, <2>0, <2>2, GotoKeeps
  <2>3. ASSUME Live(r), receipt' = [receipt EXCEPT ![r] = Saved(r, proc[t])],
               \/ proc' = [proc EXCEPT ![t] = [@ EXCEPT !.pc = "store"]]
               \/ proc' = [proc EXCEPT ![t] = Aborted(t, "poison", FALSE)],
               UNCHANGED <<job, book, held, drain>>
        PROVE  Inductive'
    <3>1. [proc[t] EXCEPT !.pc = "store"] \in Proc /\ [proc[t] EXCEPT !.pc = "store"].r = r
          /\ [proc[t] EXCEPT !.pc = "store"].pc = "store"
          /\ [proc[t] EXCEPT !.pc = "store"].fallback = proc[t].fallback
      BY <1>2, <1>3 DEF Proc
    <3>2. Aborted(t, "poison", FALSE) \in Proc /\ Aborted(t, "poison", FALSE).r = r
      BY <1>1, <1>3, ProcTypes DEF Inductive, Working
    <3>3. Aborted(t, "poison", FALSE).pc = "poison"
      BY RowTypes DEF Aborted, Proc
    <3>4. CASE proc' = [proc EXCEPT ![t] = [@ EXCEPT !.pc = "store"]]
      BY <1>1, <2>0, <2>3, <3>1, <3>4, SaveKeeps
    <3>5. CASE proc' = [proc EXCEPT ![t] = Aborted(t, "poison", FALSE)]
      BY <1>1, <2>0, <2>3, <3>2, <3>3, <3>5, SaveKeeps
    <3> QED
      BY <2>3, <3>4, <3>5
  <2> QED
    BY <1>5, <2>1, <2>2, <2>3 DEF Save
<1>6. CASE EnsureStore(t)
  BY <1>1, <1>3, <1>6, FailureKeeps, GotoKeeps DEF EnsureStore, Running
<1>7. CASE GetItems(t)
  <2> DEFINE p == [proc[t] EXCEPT !.pc = "rules", !.rows = receipt[r].rows]
  <2>1. ASSUME Become(t, p), receipt[r].rows > 0 \/ proc[t].fallback
        PROVE  Inductive'
    <3>1. p \in Proc /\ p.r = r /\ p.pc = "rules" /\ p.rows = receipt[r].rows
          /\ p.fallback = proc[t].fallback
      <4>1. receipt[r].rows \in Nat
        BY <1>2 DEF Inductive, TypeOK, ReceiptRow
      <4> QED
        BY <1>2, <1>3, <4>1 DEF Proc
    <3> HIDE DEF p
    <3>2. proc[t].pc = "items"
      BY <1>7 DEF GetItems, Running
    <3>3. Reads(p)
      BY <1>2, <2>1, <3>1, <3>2 DEF Reads
    <3> QED
      BY <1>1, <2>1, <3>1, <3>3, Moves
  <2> QED
    BY <1>1, <1>7, <2>1, FailureKeeps DEF GetItems
<1>8. CASE RulesPass(t)
  <2> DEFINE journal == proc[t].fallback /\ Live(r)
             p == [proc[t] EXCEPT !.pc = "llm", !.corr = journal /\ receipt[r].rows # Total,
                     !.rows = IF journal /\ receipt[r].rows > Total THEN 0 ELSE @]
  <2>1. Transient(t) \/ Unexpected(t) \/ Become(t, p)
    BY <1>8 DEF RulesPass
  <2>2. p \in Proc /\ p.r = r /\ p.pc = "llm" /\ p.fallback = proc[t].fallback
        /\ p.rows = IF journal /\ receipt[r].rows > Total THEN 0 ELSE proc[t].rows
    <3>1. (journal /\ receipt[r].rows # Total) \in BOOLEAN
      BY <1>2 DEF Proc
    <3>2. (IF journal /\ receipt[r].rows > Total THEN 0 ELSE proc[t].rows) \in Nat
      BY <1>2 DEF Proc
    <3> QED
      BY <1>2, <1>3, <3>1, <3>2 DEF Proc
  <2> HIDE DEF p
  <2>3. proc[t].pc = "rules"
    BY <1>8 DEF RulesPass, Running
  <2>4. Reads(p)
    BY <1>2, <2>2, <2>3 DEF Reads
  <2> QED
    BY <1>1, <2>1, <2>2, <2>4, FailureKeeps, Moves
<1>9. CASE LlmPass(t)
  BY <1>1, <1>3, <1>9, FailureKeeps, GotoKeeps DEF LlmPass, Running
<1>10. CASE Persist(t)
  <2>1. CASE PersistBook(t)
    BY <1>1, <1>10, <2>1, BookKeeps DEF Persist, Running
  <2>2. CASE PersistAgain(t)
    <3>1. job[r].status = "none"
      BY <1>2, <2>2 DEF PersistAgain, HasExpenses, Inductive, JobXorExpenses
    <3>2. /\ job'[r].status = "none" /\ job'[r].token = NoToken
          /\ \A q \in Receipts : q # r => job'[q] = job[q]
      BY <2>2, Fields DEF PersistAgain, CompleteJob, Inductive, TypeOK
    <3>3. JobsRemain
      BY <3>1, <3>2 DEF Inductive, NoHalfRows, JobsRemain
    <3> QED
      BY <1>1, <2>2, <3>3, Returns DEF PersistAgain
  <2>3. CASE Return(t) /\ OnlyProc
    <3>1. JobsRemain
      BY <2>3 DEF OnlyProc, Inductive, NoHalfRows, JobsRemain
    <3> QED
      BY <1>1, <2>3, <3>1, Returns DEF OnlyProc
  <2>4. CASE Transient(t) \/ Unexpected(t) \/ Permanent(t)
    BY <1>1, <2>4, FailureKeeps
  <2> QED
    BY <1>10, <2>1, <2>2, <2>3, <2>4 DEF Persist, PersistRaises
<1>11. ASSUME NEW n, NEW d, \/ ReleaseJob(r, t, n, d)
                            \/ UNCHANGED job
       PROVE  JobsRemain
  <2>1. Released(r, n, d).status = "pending"
    <3>1. job[r] \in JobRow
      BY <1>2 DEF Inductive, TypeOK
    <3> QED
      BY <3>1 DEF Released, JobRow
  <2>2. job[r].token = t => job[r].status # "none"
    BY <1>2, NoneAssumption DEF Inductive, NoHalfRows
  <2> QED
    BY <1>2, <1>11, <2>1, <2>2 DEF ReleaseJob, Inductive, NoHalfRows, TypeOK, JobsRemain
<1>12. CASE Release(t)
  <2>1. ReleaseJob(r, t, Bump(proc[t].retry), ~proc[t].delayed) \/ UNCHANGED job
    BY <1>12 DEF Release
  <2>2. JobsRemain
    BY <1>11, <2>1
  <2> QED
    BY <1>1, <1>12, <2>2, Returns DEF Release
<1>13. CASE ReleaseCancelled(t)
  <2>1. ReleaseJob(r, t, proc[t].retry, TRUE) \/ UNCHANGED job
    BY <1>13 DEF ReleaseCancelled
  <2>2. JobsRemain
    BY <1>11, <2>1
  <2> QED
    BY <1>1, <1>13, <2>2, Returns DEF ReleaseCancelled, Return
<1>14. CASE Poison(t)
  <2>1. JobsRemain
    <3>1. job[r] \in JobRow
      BY <1>2 DEF Inductive, TypeOK
    <3>2. \A x : /\ [job[r] EXCEPT !.status = x].status = x
                 /\ [job[r] EXCEPT !.status = x].token = job[r].token
      BY <3>1 DEF JobRow
    <3> DEFINE st == IF job[r].status = "none" THEN job[r].status ELSE "poisoned"
    <3>5. (st = "none") <=> (job[r].status = "none")
      OBVIOUS
    <3>3. UNCHANGED job \/ job' = [job EXCEPT ![r] = [job[r] EXCEPT !.status = st]]
      BY <1>14 DEF Poison
    <3> HIDE DEF st
    <3>4. /\ (job'[r].status = "none") <=> (job[r].status = "none")
          /\ job'[r].token = job[r].token
          /\ \A q \in Receipts : q # r => job'[q] = job[q]
      <4>1. CASE UNCHANGED job
        BY <4>1
      <4>2. CASE job' = [job EXCEPT ![r] = [job[r] EXCEPT !.status = st]]
        <5>1. job'[r] = [job[r] EXCEPT !.status = st] /\ \A q \in Receipts : q # r => job'[q] = job[q]
          BY <1>2, <4>2 DEF Inductive, TypeOK
        <5> QED
          BY <3>5, <3>2, <5>1
      <4> QED
        BY <3>3, <4>1, <4>2
    <3> QED
      BY <3>4 DEF Inductive, NoHalfRows, JobsRemain
  <2> QED
    BY <1>1, <1>14, <2>1, Returns DEF Poison
<1> QED
  BY <1>4, <1>5, <1>6, <1>7, <1>8, <1>9, <1>10, <1>12, <1>13, <1>14 DEF ProcessStep

\* Every step keeps the invariant.
LEMMA InductiveStep ==
    ASSUME "midclaim" \notin Faults
    PROVE  Inductive /\ [Next]_vars => Inductive'
<1> SUFFICES ASSUME Inductive, [Next]_vars PROVE Inductive'
  OBVIOUS
<1>0. TypeOK'
  BY TypeStep DEF Inductive
<1>1. ASSUME NEW a \in Requests, NEW c \in Clients, Lookup(a, c) PROVE Inductive'
  BY <1>0, <1>1, Unread DEF Lookup
<1>2. ASSUME NEW a \in Requests, RequestStep(a) PROVE Inductive'
  BY <1>0, <1>2, InsertKeeps, Unread DEF RequestStep, InsertConflict, Requery, Notify
<1>3. ASSUME NEW r \in Receipts, Resolve(r) \/ Delete(r) \/ SheetLogged(r) PROVE Inductive'
  BY <1>0, <1>3, ResolveKeeps, DeleteKeeps, SheetLoggedKeeps
<1>4. ASSUME NEW rs \in SUBSET Receipts, Requeue(rs) PROVE Inductive'
  BY <1>0, <1>4, RequeueKeeps
<1>5. ASSUME NEW t \in Tokens, NEW r \in Receipts, Claim(t, r) PROVE Inductive'
  BY <1>0, <1>5, ClaimKeeps
<1>6. CASE ClaimedAll
  <2>1. \A t \in Tokens : Working(t) => drain = "claim" /\ drain' = "run"
    BY <1>6 DEF ClaimedAll
  <2> QED
    BY <1>0, <1>6, <2>1, DrainMoves DEF ClaimedAll
<1>7. CASE DrainDone \/ Restart \/ WakeByEvent \/ WakeByTimeout
  <2>1. \A t \in Tokens : ~Working(t)
    BY <1>7 DEF DrainDone, Restart, WakeByEvent, WakeByTimeout, Inductive, ClaimsHeld, Working
  <2> QED
    BY <1>0, <1>7, <2>1, DrainMoves DEF DrainDone, Restart, WakeByEvent, WakeByTimeout
<1>8. CASE ClaimRaises \/ Crash
  BY <1>0, <1>8, AllGone DEF ClaimRaises, Crash
<1>9. ASSUME NEW t \in Tokens, ProcessStep(t) PROVE Inductive'
  BY <1>0, <1>9, ProcessKeeps
<1>10. ASSUME NEW r \in Receipts, RetryDue(r) \/ TimerFires(r) \/ ClaimAges(r) PROVE Inductive'
  BY <1>0, <1>10, TimeKeeps, Unread DEF TimerFires
<1>11. CASE UNCHANGED vars
  BY <1>0, <1>11, Unread DEF vars
<1> QED
  BY <1>1, <1>2, <1>3, <1>4, <1>5, <1>6, <1>7, <1>8, <1>9, <1>10, <1>11 DEF Next, DrainStep

\* Nothing is stored and nobody works yet.
LEMMA InductiveInit == Init => Inductive
<1> SUFFICES ASSUME Init PROVE Inductive
  OBVIOUS
<1>1. /\ \A r \in Receipts : /\ receipt[r].state = "absent" /\ ~receipt[r].parsed
                             /\ receipt[r].rows = 0 /\ receipt[r].listed = 0
                             /\ job[r].status = "none" /\ job[r].token = NoToken
                             /\ book[r] = NoBooking /\ book[r].kind = "none" /\ held[r] = {}
      /\ \A t \in Tokens : proc[t].pc = "free"
  BY Fields DEF Init
<1>2. TypeOK
  BY TypeInit
<1>3. OneWorker /\ ClaimsHeld /\ ReadsCurrent
  BY <1>1 DEF OneWorker, ClaimsHeld, ReadsCurrent, Working
<1>4. JobXorExpenses /\ BookedOnce /\ ItemsAsListed /\ NoHalfRows
  BY <1>1 DEF JobXorExpenses, BookedOnce, ItemsAsListed, NoHalfRows, Live
<1> QED
  BY <1>2, <1>3, <1>4 DEF Inductive

\* The strengthening holds in every state, which is what the theorems below use.
LEMMA InductiveAlways ==
    ASSUME "midclaim" \notin Faults
    PROVE  Spec => []Inductive
<1>1. Inductive /\ [Next]_vars => Inductive'
  BY InductiveStep
<1> QED
  BY <1>1, InductiveInit, PTL DEF Spec

\* No receipt is lost: a stored one has its job or its expenses, whatever happens, as
\* long as the operator does not re-queue between two claims (requeue_receipts).
THEOREM NothingLost ==
    ASSUME "midclaim" \notin Faults
    PROVE  Spec => []JobXorExpenses
<1>1. Inductive => JobXorExpenses
  BY DEF Inductive
<1> QED
  BY <1>1, InductiveAlways, PTL

\* What persist_classification_results and a manual resolution book is the declared
\* total, or every listed line once, under the same assumption.
THEOREM BookedExactly ==
    ASSUME "midclaim" \notin Faults
    PROVE  Spec => []BookedOnce
<1>1. Inductive => BookedOnce
  BY DEF Inductive
<1> QED
  BY <1>1, InductiveAlways, PTL

\* The claims of claim_next_job exclude each other: no receipt has two coroutines.
THEOREM ClaimsExclude ==
    ASSUME "midclaim" \notin Faults
    PROVE  Spec => []OneWorker
<1>1. Inductive => OneWorker
  BY DEF Inductive
<1> QED
  BY <1>1, InductiveAlways, PTL
-----------------------------------------------------------------------------
(* What holds whenever the operator re-queues, between two claims as well. *)

\* A receipt id that was never used has no job, and a missing job has no token.
JobsOfStored ==
    \A r \in Receipts :
        /\ receipt[r].state = "absent" => job[r].status = "none"
        /\ job[r].status = "none" => job[r].token = NoToken

\* No step of a coroutine stores or removes a receipt, and the only one that makes its
\* job pending ends the coroutine.
KeepsReceipts ==
    \A r \in Receipts :
        receipt'[r].state = receipt[r].state /\ receipt'[r].client = receipt[r].client

LEMMA ProcessRows ==
    ASSUME TypeOK, NEW t \in Tokens, ProcessStep(t)
    PROVE  /\ KeepsReceipts
           /\ \/ job' = job
              \/ job' = [job EXCEPT ![proc[t].r] = NoJob]
              \/ job' = [job EXCEPT ![proc[t].r].status = IF @ = "none" THEN @ ELSE "poisoned"]
              \/ /\ proc'[t].pc = "free"
                 /\ \E n \in Int, d \in BOOLEAN : ReleaseJob(proc[t].r, t, n, d)
<1> DEFINE r == proc[t].r
           Effect == \/ job' = job
                     \/ job' = [job EXCEPT ![r] = NoJob]
                     \/ job' = [job EXCEPT ![r].status = IF @ = "none" THEN @ ELSE "poisoned"]
                     \/ /\ proc'[t].pc = "free"
                        /\ \E n \in Int, d \in BOOLEAN : ReleaseJob(r, t, n, d)
<1>0. /\ UNCHANGED receipt => KeepsReceipts
      /\ \A pc, d : Abort(t, pc, d) => UNCHANGED <<receipt, job>>
      /\ \A p : Become(t, p) => UNCHANGED <<receipt, job>>
      /\ OnlyProc => UNCHANGED <<receipt, job>>
  BY DEF KeepsReceipts, Abort, Become, OnlyProc
<1>1. \A pc : Goto(t, pc) => UNCHANGED <<receipt, job>>
  BY DEF Goto, Become, OnlyProc
<1>2. Transient(t) \/ Permanent(t) \/ Cancelled(t) \/ Unexpected(t) => UNCHANGED <<receipt, job>>
  BY <1>0 DEF Transient, Permanent, Cancelled, Unexpected
<1>3. Return(t) => proc'[t].pc = "free"
  BY RowTypes DEF Return, FreeProc, TypeOK
<1>4. CASE Parse(t) \/ EnsureStore(t) \/ GetItems(t) \/ RulesPass(t) \/ LlmPass(t)
  <2>1. UNCHANGED <<receipt, job>>
    BY <1>0, <1>1, <1>2, <1>4 DEF Parse, EnsureStore, GetItems, RulesPass, LlmPass
  <2> QED
    BY <1>0, <2>1
<1>5. CASE Save(t)
  <2>1. CASE receipt' = [receipt EXCEPT ![r] = Saved(r, proc[t])] /\ job' = job
    BY <2>1 DEF KeepsReceipts, Saved, TypeOK
  <2>2. CASE UNCHANGED <<receipt, job>>
    BY <1>0, <2>2
  <2> QED
    BY <1>1, <1>2, <1>5, <2>1, <2>2 DEF Save
<1>6. CASE Persist(t)
  <2>1. CASE PersistBook(t)
    <3>1. \E rows \in {0, receipt[r].rows} : receipt' = [receipt EXCEPT ![r].rows = rows]
      BY <2>1 DEF PersistBook
    <3>2. KeepsReceipts
      BY <3>1 DEF KeepsReceipts, TypeOK
    <3> QED
      BY <2>1, <3>2 DEF PersistBook, CompleteJob
  <2>2. CASE PersistAgain(t)
    BY <1>0, <2>2 DEF PersistAgain, CompleteJob
  <2>3. CASE PersistRaises(t)
    <3>1. UNCHANGED <<receipt, job>>
      BY <1>0, <1>2, <2>3 DEF PersistRaises
    <3> QED
      BY <1>0, <3>1
  <2> QED
    BY <1>0, <1>2, <1>6, <2>1, <2>2, <2>3 DEF Persist
<1>7. CASE Release(t)
  <2>0. proc[t].retry \in 0..MaxRetry /\ proc[t].delayed \in BOOLEAN
    BY DEF TypeOK, Proc
  <2>1. Bump(proc[t].retry) \in Int /\ (~proc[t].delayed) \in BOOLEAN
    BY <2>0, BoundsAssumption DEF Bump
  <2> QED
    BY <1>0, <1>3, <1>7, <2>1 DEF Release
<1>8. CASE Poison(t)
  BY <1>0, <1>8 DEF Poison
<1>9. CASE ReleaseCancelled(t)
  <2>1. proc[t].retry \in Int
    BY DEF TypeOK, Proc
  <2>2. proc'[t].pc = "free"
    BY <1>9 DEF ReleaseCancelled, FreeProc, TypeOK
  <2> QED
    BY <1>0, <1>9, <2>1, <2>2 DEF ReleaseCancelled
<1> QED
  BY <1>4, <1>5, <1>6, <1>7, <1>8, <1>9 DEF ProcessStep

\* A re-queue makes jobs pending and leaves every token alone.
LEMMA RequeuedJobs ==
    ASSUME TypeOK, NEW rs \in SUBSET Receipts, Requeue(rs), NEW q \in Receipts
    PROVE  /\ q \in rs => job'[q].status = "pending"
           /\ q \notin rs => job'[q] = job[q]
           /\ job'[q].token = job[q].token
<1>1. job[q] \in JobRow
  BY DEF TypeOK
<1>2. job'[q] = IF q \in rs
                THEN [job[q] EXCEPT !.status = "pending", !.retry = 0, !.due = TRUE]
                ELSE job[q]
  BY DEF Requeue
<1> QED
  BY <1>1, <1>2 DEF JobRow

\* The steps that touch neither a receipt nor a job.
OtherStep ==
    \/ \E a \in Requests, c \in Clients : Lookup(a, c)
    \/ \E a \in Requests : InsertConflict(a) \/ Requery(a) \/ Notify(a)
    \/ \E r \in Receipts : SheetLogged(r) \/ TimerFires(r)
    \/ ClaimedAll \/ DrainDone \/ Restart \/ WakeByEvent \/ WakeByTimeout
    \/ ClaimRaises \/ Crash \/ UNCHANGED vars

LEMMA OtherRows == OtherStep => UNCHANGED <<receipt, job>>
BY DEF OtherStep, Lookup, InsertConflict, Requery, Notify, SheetLogged, ClaimedAll, DrainDone,
       Restart, WakeByEvent, WakeByTimeout, ClaimRaises, TimerFires, Crash, vars

Stored == TypeOK /\ JobsOfStored /\ OneReceiptPerClient

\* A step that keeps the receipts can only go wrong in the jobs.
LEMMA KeepsClients ==
    ASSUME OneReceiptPerClient, KeepsReceipts
    PROVE  OneReceiptPerClient'
BY DEF OneReceiptPerClient, KeepsReceipts, Live

LEMMA StoredInit == Init => Stored
<1> SUFFICES ASSUME Init PROVE Stored
  OBVIOUS
<1>1. \A r \in Receipts : /\ receipt[r].state = "absent"
                          /\ job[r].status = "none" /\ job[r].token = NoToken
  BY Fields DEF Init
<1> QED
  BY <1>1, TypeInit DEF Stored, JobsOfStored, OneReceiptPerClient, Live

LEMMA StoredStep == Stored /\ [Next]_vars => Stored'
<1> SUFFICES ASSUME Stored, [Next]_vars PROVE Stored'
  OBVIOUS
<1>0. TypeOK /\ TypeOK' /\ JobsOfStored /\ OneReceiptPerClient
  BY TypeStep DEF Stored
<1>1. CASE OtherStep
  BY <1>0, <1>1, OtherRows DEF Stored, JobsOfStored, OneReceiptPerClient, Live
<1>2. ASSUME NEW a \in Requests, InsertReceipt(a) PROVE Stored'
  <2>1. PICK r \in Receipts :
           /\ receipt' = [receipt EXCEPT ![r] =
                            [NoReceipt("live") EXCEPT !.client = api[a].client]]
           /\ job' = [job EXCEPT ![r] = NewJob]
    BY <1>2 DEF InsertReceipt
  <2>2. /\ receipt'[r].state = "live" /\ receipt'[r].client = api[a].client
        /\ job'[r].status = "pending"
        /\ \A q \in Receipts : q # r => receipt'[q] = receipt[q] /\ job'[q] = job[q]
    BY <1>0, <2>1, Fields DEF TypeOK, NoReceipt
  <2>3. \A q \in Receipts : ~(Live(q) /\ receipt[q].client = api[a].client)
    BY <1>2 DEF InsertReceipt, Taken, Known
  <2> QED
    BY <1>0, <2>2, <2>3 DEF Stored, JobsOfStored, OneReceiptPerClient, Live
<1>3. ASSUME NEW r \in Receipts, Resolve(r) \/ Delete(r) PROVE Stored'
  <2>1. job' = [job EXCEPT ![r] = NoJob]
    BY <1>3 DEF Resolve, Delete, CompleteJob
  <2>2. \/ receipt' = receipt
        \/ receipt' = [receipt EXCEPT ![r] = NoReceipt("deleted")]
    BY <1>3 DEF Resolve, Delete
  <2>3. \A q \in Receipts : \/ receipt'[q] = receipt[q]
                            \/ q = r /\ receipt'[q].state = "deleted"
    BY <1>0, <2>2, Fields DEF TypeOK
  <2>4. \A q \in Receipts : \/ job'[q] = job[q]
                            \/ q = r /\ job'[q].status = "none" /\ job'[q].token = NoToken
    BY <1>0, <2>1, Fields DEF TypeOK
  <2>5. JobsOfStored'
    BY <1>0, <2>1, <2>3, <2>4, Fields DEF JobsOfStored, TypeOK
  <2> QED
    BY <1>0, <2>3, <2>5 DEF Stored, OneReceiptPerClient, Live
<1>4. ASSUME NEW rs \in SUBSET Receipts, Requeue(rs) PROVE Stored'
  <2>1. \A q \in Receipts : /\ q \in rs => receipt[q].state = "live" /\ job'[q].status = "pending"
                            /\ q \notin rs => job'[q] = job[q]
    BY <1>0, <1>4, RequeuedJobs DEF Requeue, Live
  <2> QED
    BY <1>0, <1>4, <2>1 DEF Requeue, Stored, JobsOfStored, OneReceiptPerClient, Live
<1>5. ASSUME NEW t \in Tokens, NEW r \in Receipts, Claim(t, r) PROVE Stored'
  <2>1. \A q \in Receipts : /\ q # r => job'[q] = job[q]
                            /\ job'[r].status = "in_progress" /\ job[r].status # "none"
    BY <1>0, <1>5 DEF Claim, Claimable, StaleClaim, TypeOK, JobRow
  <2> QED
    BY <1>0, <1>5, <2>1 DEF Claim, Stored, JobsOfStored, OneReceiptPerClient, Live
<1>6. ASSUME NEW r \in Receipts, RetryDue(r) \/ ClaimAges(r) PROVE Stored'
  <2>1. \A q \in Receipts : job'[q].status = job[q].status /\ job'[q].token = job[q].token
    BY <1>0, <1>6 DEF RetryDue, ClaimAges, TypeOK, JobRow
  <2> QED
    BY <1>0, <1>6, <2>1 DEF RetryDue, ClaimAges, Stored, JobsOfStored, OneReceiptPerClient, Live
<1>7. ASSUME NEW t \in Tokens, ProcessStep(t) PROVE Stored'
  <2>0. proc[t].r \in Receipts
    BY <1>0, <1>7 DEF ProcessStep, Parse, Save, EnsureStore, GetItems, RulesPass, LlmPass,
         Persist, Release, Poison, ReleaseCancelled, Running, TypeOK
  <2>1. KeepsReceipts
    BY <1>0, <1>7, ProcessRows
  <2>2. \A q \in Receipts :
           /\ job[q].status = "none" /\ job[q].token = NoToken => job'[q].status = "none"
           /\ job'[q].status = "none" =>
                 \/ job'[q].token = NoToken
                 \/ job[q].status = "none" /\ job'[q].token = job[q].token
    <3>1. CASE job' = job
      BY <3>1
    <3>2. CASE job' = [job EXCEPT ![proc[t].r] = NoJob]
      BY <1>0, <2>0, <3>2, Fields DEF TypeOK
    <3>3. CASE job' = [job EXCEPT ![proc[t].r].status = IF @ = "none" THEN @ ELSE "poisoned"]
      BY <1>0, <2>0, <3>3 DEF TypeOK, JobRow
    <3>4. ASSUME NEW n \in Int, NEW d \in BOOLEAN, ReleaseJob(proc[t].r, t, n, d)
          PROVE  \A q \in Receipts : \/ job'[q] = job[q]
                                     \/ job[q].token = t /\ job'[q].status = "pending"
      BY <1>0, <3>4 DEF ReleaseJob, Released, TypeOK, JobRow
    <3> QED
      BY <1>0, <1>7, <3>1, <3>2, <3>3, <3>4, ProcessRows, NoneAssumption
  <2>3. JobsOfStored'
    BY <1>0, <2>1, <2>2 DEF JobsOfStored, KeepsReceipts
  <2> QED
    BY <1>0, <2>1, <2>3, KeepsClients DEF Stored
<1> QED
  BY <1>1, <1>2, <1>3, <1>4, <1>5, <1>6, <1>7 DEF Next, DrainStep, RequestStep, OtherStep

\* One client_receipt_id is stored once at a time, however many POSTs carry it and
\* however requests, deletions and re-queues interleave (_create_receipt_sync).
THEOREM StoredOnce == Spec => []OneReceiptPerClient
<1>1. Stored => OneReceiptPerClient
  BY DEF Stored
<1> QED
  BY <1>1, StoredInit, StoredStep, PTL DEF Spec

\* The claim token of claim_next_job: while a coroutine that holds the claim of a
\* receipt runs, no step of another one hands the job out again as unclaimed, not
\* even after a re-queue between two claims put two coroutines on the receipt.
THEOREM HolderKeeps == Spec => HolderKeepsClaim
<1> DEFINE Kept == \A r \in Receipts, t \in Tokens :
                      /\ job[r].status = "in_progress" /\ job[r].token = t
                      /\ proc[t].pc # "free" /\ proc[t].r = r
                      /\ job'[r].status = "pending" /\ job'[r].token = NoToken
                      => proc'[t].pc = "free"
<1>1. Stored /\ [Next]_vars => [Kept]_vars
  <2> SUFFICES ASSUME Stored, [Next]_vars, NEW r \in Receipts, NEW t \in Tokens,
                      job[r].status = "in_progress", job[r].token = t,
                      proc[t].pc # "free", proc[t].r = r,
                      job'[r].status = "pending", job'[r].token = NoToken
               PROVE  proc'[t].pc = "free"
    OBVIOUS
  <2>0. TypeOK /\ JobsOfStored /\ t # NoToken
    BY NoneAssumption DEF Stored
  <2>1. CASE OtherStep
    BY <2>1, OtherRows
  <2>2. ASSUME NEW a \in Requests, InsertReceipt(a) PROVE FALSE
    <3>1. PICK q \in Receipts : receipt[q].state = "absent" /\ job' = [job EXCEPT ![q] = NewJob]
      BY <2>2 DEF InsertReceipt
    <3> QED
      BY <2>0, <3>1 DEF JobsOfStored, TypeOK
  <2>3. ASSUME NEW q \in Receipts, Resolve(q) \/ Delete(q) PROVE FALSE
    BY <2>0, <2>3, Fields DEF Resolve, Delete, CompleteJob, TypeOK
  <2>4. ASSUME NEW rs \in SUBSET Receipts, Requeue(rs) PROVE FALSE
    BY <2>0, <2>4, RequeuedJobs
  <2>5. ASSUME NEW u \in Tokens, NEW q \in Receipts, Claim(u, q) PROVE FALSE
    BY <2>0, <2>5 DEF Claim, TypeOK, JobRow
  <2>6. ASSUME NEW q \in Receipts, RetryDue(q) \/ ClaimAges(q) PROVE FALSE
    BY <2>0, <2>6 DEF RetryDue, ClaimAges, TypeOK, JobRow
  <2>7. ASSUME NEW u \in Tokens, ProcessStep(u) PROVE proc'[t].pc = "free"
    <3>1. CASE job' = job \/ job' = [job EXCEPT ![proc[u].r] = NoJob]
      BY <2>0, <3>1, Fields DEF TypeOK
    <3>2. CASE job' = [job EXCEPT ![proc[u].r].status = IF @ = "none" THEN @ ELSE "poisoned"]
      BY <2>0, <3>2 DEF TypeOK, JobRow
    <3>3. ASSUME NEW n \in Int, NEW d \in BOOLEAN, ReleaseJob(proc[u].r, u, n, d),
                 proc'[u].pc = "free"
          PROVE  proc'[t].pc = "free"
      <4>1. CASE u = t
        BY <3>3, <4>1
      <4>2. CASE u # t
        <5>1. job'[r] = job[r]
          BY <2>0, <3>3, <4>2 DEF ReleaseJob, TypeOK
        <5> QED
          BY <5>1
      <4> QED
        BY <4>1, <4>2
    <3> QED
      BY <2>0, <2>7, <3>1, <3>2, <3>3, ProcessRows
  <2> QED
    BY <2>1, <2>2, <2>3, <2>4, <2>5, <2>6, <2>7 DEF Next, DrainStep, RequestStep, OtherStep
<1> QED
  BY <1>1, StoredInit, StoredStep, PTL DEF Spec, HolderKeepsClaim
-----------------------------------------------------------------------------
(* No lost wakeup, whatever fails and whenever the operator re-queues. *)

\* Promises that stay as they are keep their wakeup.
LEMMA PromisesStay ==
    ASSUME WakeInductive,
           \A r \in promised' : r \in promised /\ job'[r] = job[r],
           timers \subseteq timers', wake => wake',
           \A a \in Requests : api[a].pc = "notify" => api'[a] = api[a],
           drain' \in {"run", "wait"} => drain \in {"run", "wait"}
    PROVE  WakeInductive'
<1>1. PromisesPending'
  BY DEF WakeInductive, PromisesPending
<1>2. PromisesKept'
  BY DEF WakeInductive, PromisesKept, Woken
<1> QED
  BY <1>1, <1>2 DEF WakeInductive

\* A receipt is promised by the request that stores it.
LEMMA InsertWakes ==
    ASSUME TypeOK, WakeInductive, NEW a \in Requests, InsertReceipt(a)
    PROVE  WakeInductive'
<1>1. PICK r \in Receipts :
          /\ job' = [job EXCEPT ![r] = NewJob]
          /\ api' = [api EXCEPT ![a] = [@ EXCEPT !.pc = "notify", !.r = r]]
          /\ promised' = promised \union {r}
          /\ UNCHANGED <<drain, wake, timers>>
  BY DEF InsertReceipt
<1>2. api[a] \in Request /\ api[a].pc = "insert"
  BY DEF TypeOK, InsertReceipt
<1>3. api'[a].pc = "notify" /\ api'[a].r = r /\ \A b \in Requests : b # a => api'[b] = api[b]
  BY <1>1, <1>2 DEF TypeOK, Request
<1>4. /\ job'[r].status = "pending" /\ job'[r].token = NoToken /\ job'[r].due
      /\ \A q \in Receipts : q # r => job'[q] = job[q]
  BY <1>1 DEF TypeOK, NewJob, NoJob
<1>5. PromisesPending'
  BY <1>1, <1>4 DEF WakeInductive, PromisesPending, TypeOK
<1>6. PromisesKept'
  BY <1>1, <1>2, <1>3, <1>4 DEF WakeInductive, PromisesKept, Woken, TypeOK
<1> QED
  BY <1>5, <1>6 DEF WakeInductive

\* A transient failure promises a retry, at once or when the timer fires.
LEMMA ReleaseWakes ==
    ASSUME TypeOK, WakeInductive, NEW t \in Tokens, Release(t)
    PROVE  WakeInductive'
<1> DEFINE r == proc[t].r
           delayed == proc[t].delayed
<1>1. r \in Receipts /\ drain = "run" /\ delayed \in BOOLEAN
  BY DEF Release, Running, TypeOK, Proc
<1>2. UNCHANGED <<api, drain>>
  BY DEF Release
<1>3. CASE UNCHANGED <<job, promised, wake, timers>>
  BY <1>2, <1>3, PromisesStay
<1>4. ASSUME ReleaseJob(r, t, Bump(proc[t].retry), ~delayed),
             promised' = IF job[r].token = t THEN promised \union {r} ELSE promised,
             wake' = (wake \/ ~delayed),
             timers' = IF delayed THEN timers \union {r} ELSE timers
      PROVE  WakeInductive'
  <2>1. \A q \in Receipts : q # r => job'[q] = job[q]
    BY <1>1, <1>4 DEF ReleaseJob, TypeOK
  <2>2. IF job[r].token = t
        THEN job'[r].status = "pending" /\ job'[r].token = NoToken /\ job'[r].due = (~delayed)
        ELSE job'[r] = job[r]
    <3>1. job[r] \in JobRow
      BY <1>1 DEF TypeOK
    <3>2. \A n, d : /\ Released(r, n, d).status = "pending" /\ Released(r, n, d).token = NoToken
                    /\ Released(r, n, d).due = d
      BY <3>1 DEF Released, JobRow
    <3>3. job'[r] = IF job[r].token = t THEN Released(r, Bump(proc[t].retry), ~delayed)
                    ELSE job[r]
      BY <1>1, <1>4 DEF ReleaseJob, TypeOK
    <3> QED
      BY <3>2, <3>3
  <2> HIDE DEF r, delayed
  <2>3. PromisesPending'
    BY <1>1, <1>4, <2>1, <2>2 DEF WakeInductive, PromisesPending, TypeOK
  <2>4. PromisesKept'
    BY <1>1, <1>2, <1>4, <2>1, <2>2 DEF WakeInductive, PromisesKept, PromisesPending, Woken, TypeOK
  <2> QED
    BY <2>3, <2>4 DEF WakeInductive
<1> QED
  BY <1>3, <1>4 DEF Release

\* The other steps of a coroutine promise nothing.
LEMMA ProcessWakes ==
    ASSUME TypeOK, WakeInductive, NEW t \in Tokens, ProcessStep(t)
    PROVE  WakeInductive'
<1> DEFINE r == proc[t].r
           Calm == UNCHANGED <<drain, wake, timers, api>>
<1>0. /\ \A pc, d : Abort(t, pc, d) => Calm /\ UNCHANGED <<job, promised>>
      /\ \A p : Become(t, p) => Calm /\ UNCHANGED <<job, promised>>
      /\ \A pc : Goto(t, pc) => Calm /\ UNCHANGED <<job, promised>>
      /\ OnlyProc => Calm /\ UNCHANGED <<job, promised>>
  BY DEF Abort, Become, Goto, OnlyProc
<1>1. Transient(t) \/ Permanent(t) \/ Cancelled(t) \/ Unexpected(t)
        => Calm /\ UNCHANGED <<job, promised>>
  BY <1>0 DEF Transient, Permanent, Cancelled, Unexpected
<1>2. ASSUME Calm, promised' \subseteq promised, \A q \in promised' : job'[q] = job[q]
      PROVE  WakeInductive'
  BY <1>2, PromisesStay
<1>3. CASE Parse(t) \/ Save(t) \/ EnsureStore(t) \/ GetItems(t) \/ RulesPass(t) \/ LlmPass(t)
  <2>1. Calm /\ UNCHANGED <<job, promised>>
    BY <1>0, <1>1, <1>3 DEF Parse, Save, EnsureStore, GetItems, RulesPass, LlmPass
  <2> QED
    BY <1>2, <2>1
<1>4. CASE Persist(t)
  <2>1. CASE Calm /\ CompleteJob(r)
    BY <1>2, <2>1 DEF CompleteJob, TypeOK
  <2>2. CASE Calm /\ UNCHANGED <<job, promised>>
    BY <1>2, <2>2
  <2> QED
    BY <1>0, <1>1, <1>4, <2>1, <2>2 DEF Persist, PersistBook, PersistAgain, PersistRaises
<1>5. CASE Poison(t)
  <2>1. Calm /\ promised' \subseteq promised /\ \A q \in promised' : job'[q] = job[q]
    BY <1>5 DEF Poison, TypeOK
  <2> QED
    BY <1>2, <2>1
<1>6. CASE ReleaseCancelled(t)
  <2>1. Calm /\ promised' = promised
    BY <1>6 DEF ReleaseCancelled
  <2>2. \A q \in promised : job'[q] = job[q]
    BY <1>6, NoneAssumption DEF ReleaseCancelled, ReleaseJob, WakeInductive, PromisesPending, TypeOK
  <2> QED
    BY <1>2, <2>1, <2>2
<1> QED
  BY <1>3, <1>4, <1>5, <1>6, ReleaseWakes DEF ProcessStep

\* Every step keeps the promises.
LEMMA WakeStep == TypeOK /\ WakeInductive /\ [Next]_vars => WakeInductive'
<1> SUFFICES ASSUME TypeOK, WakeInductive, [Next]_vars PROVE WakeInductive'
  OBVIOUS
<1>1. ASSUME NEW a \in Requests, NEW c \in Clients, Lookup(a, c) PROVE WakeInductive'
  BY <1>1, PromisesStay DEF Lookup, TypeOK
<1>2. ASSUME NEW a \in Requests, RequestStep(a) PROVE WakeInductive'
  <2>1. CASE InsertConflict(a) \/ Requery(a)
    BY <2>1, PromisesStay DEF InsertConflict, Requery, TypeOK
  <2>2. CASE Notify(a)
    BY <2>2 DEF Notify, Listening, WakeInductive, PromisesPending, PromisesKept, Woken
  <2> QED
    BY <1>2, <2>1, <2>2, InsertWakes DEF RequestStep
<1>3. ASSUME NEW r \in Receipts, Resolve(r) \/ Delete(r) \/ SheetLogged(r) PROVE WakeInductive'
  BY <1>3, PromisesStay DEF Resolve, Delete, SheetLogged, CompleteJob, TypeOK
<1>4. ASSUME NEW rs \in SUBSET Receipts, Requeue(rs) PROVE WakeInductive'
  BY <1>4, RequeuedJobs, PromisesStay DEF Requeue, TypeOK
<1>5. ASSUME NEW t \in Tokens, NEW r \in Receipts, Claim(t, r) PROVE WakeInductive'
  BY <1>5, PromisesStay DEF Claim, TypeOK
<1>6. CASE ClaimedAll
  BY <1>6 DEF ClaimedAll, Claimable, WakeInductive, PromisesPending, PromisesKept, TypeOK
<1>7. CASE DrainDone
  BY <1>7, PromisesStay DEF DrainDone
<1>8. CASE Restart \/ WakeByEvent \/ WakeByTimeout \/ ClaimRaises
  BY <1>8 DEF Restart, WakeByEvent, WakeByTimeout, ClaimRaises, WakeInductive, PromisesPending,
              PromisesKept
<1>9. CASE Crash
  BY <1>9 DEF Crash, WakeInductive, PromisesPending, PromisesKept
<1>10. ASSUME NEW t \in Tokens, ProcessStep(t) PROVE WakeInductive'
  BY <1>10, ProcessWakes
<1>11. ASSUME NEW r \in Receipts, RetryDue(r) PROVE WakeInductive'
  <2>1. /\ job'[r].status = job[r].status /\ job'[r].token = job[r].token /\ job'[r].due
        /\ ~job[r].due
        /\ \A q \in Receipts : q # r => job'[q] = job[q]
    <3>1. job[r] \in JobRow
      BY DEF TypeOK
    <3> QED
      BY <1>11, <3>1 DEF RetryDue, TypeOK, JobRow
  <2> QED
    BY <1>11, <2>1 DEF RetryDue, WakeInductive, PromisesPending, PromisesKept, Woken, TypeOK
<1>12. ASSUME NEW r \in Receipts, TimerFires(r) PROVE WakeInductive'
  BY <1>12 DEF TimerFires, Listening, WakeInductive, PromisesPending, PromisesKept, Woken
<1>13. ASSUME NEW r \in Receipts, ClaimAges(r) PROVE WakeInductive'
  <2>1. r \notin promised
    BY <1>13 DEF ClaimAges, WakeInductive, PromisesPending
  <2> QED
    BY <1>13, <2>1, PromisesStay DEF ClaimAges, TypeOK
<1>14. CASE UNCHANGED vars
  BY <1>14, PromisesStay DEF vars
<1> QED
  BY <1>1, <1>2, <1>3, <1>4, <1>5, <1>6, <1>7, <1>8, <1>9, <1>10, <1>11, <1>12, <1>13, <1>14
  DEF Next, DrainStep

\* No lost wakeup (classification/task.py): a job that a POST or a transient failure
\* made due never waits for the five-minute timeout only, for any number of requests
\* and coroutines and with every fault.
THEOREM NeverSleepsThrough == Spec => []NoLostWakeup
<1>1. Init => WakeInductive
  BY DEF Init, WakeInductive, PromisesPending, PromisesKept
<1>2. WakeInductive => NoLostWakeup
  BY DEF WakeInductive, PromisesKept, Woken, NoLostWakeup
<1> QED
  BY <1>1, <1>2, WakeStep, TypeCorrect, PTL DEF Spec
-----------------------------------------------------------------------------
(* The pipeline implements the ledger, while no re-queue falls between two claims. *)

\* What the ledger sees depends on the state of a receipt and on its expenses only: a
\* step that touches neither changes nothing there.
LEMMA LedgerStutters ==
    ASSUME KeepsReceipts, \A r \in Receipts : book'[r] = book[r]
    PROVE  UNCHANGED LEDGER!vars
<1>1. LedgerStatus' = LedgerStatus
  BY DEF LedgerStatus, Live, KeepsReceipts
<1>2. LedgerAmount' = LedgerAmount
  BY DEF LedgerAmount, Amount
<1> QED
  BY <1>1, <1>2 DEF LEDGER!vars

\* Nor does it for the receipts it leaves alone.
LEMMA LedgerOthers ==
    ASSUME NEW r \in Receipts,
           \A q \in Receipts : q # r => receipt'[q].state = receipt[q].state /\ book'[q] = book[q]
    PROVE  /\ LedgerStatus' = [LedgerStatus EXCEPT ![r] = LedgerStatus'[r]]
           /\ LedgerAmount' = [LedgerAmount EXCEPT ![r] = LedgerAmount'[r]]
<1>1. \A q \in Receipts : q # r => /\ LedgerStatus'[q] = LedgerStatus[q]
                                   /\ LedgerAmount'[q] = LedgerAmount[q]
  BY DEF LedgerStatus, LedgerAmount, Live, Amount
<1>2. /\ DOMAIN LedgerStatus = Receipts /\ DOMAIN LedgerStatus' = Receipts
      /\ DOMAIN LedgerAmount = Receipts /\ DOMAIN LedgerAmount' = Receipts
      /\ LedgerStatus = [q \in Receipts |-> LedgerStatus[q]]
      /\ LedgerStatus' = [q \in Receipts |-> LedgerStatus'[q]]
      /\ LedgerAmount = [q \in Receipts |-> LedgerAmount[q]]
      /\ LedgerAmount' = [q \in Receipts |-> LedgerAmount'[q]]
  BY DEF LedgerStatus, LedgerAmount
<1> HIDE DEF LedgerStatus, LedgerAmount
<1> QED
  BY <1>1, <1>2

\* POST /api/receipts accepts a receipt.
LEMMA InsertAccepts ==
    ASSUME Inductive, NEW a \in Requests, InsertReceipt(a)
    PROVE  LEDGER!Next
<1>1. PICK r \in Receipts :
          /\ receipt[r].state = "absent"
          /\ receipt' = [receipt EXCEPT ![r] =
                           [NoReceipt("live") EXCEPT !.client = api[a].client]]
          /\ book' = book
  BY DEF InsertReceipt
<1>2. receipt'[r].state = "live" /\ \A q \in Receipts : q # r => receipt'[q] = receipt[q]
  BY <1>1 DEF Inductive, TypeOK, NoReceipt
<1>3. book[r].kind = "none"
  BY <1>1 DEF Inductive, JobXorExpenses, Live
<1>4. LedgerStatus[r] = "absent" /\ LedgerStatus'[r] = "queued" /\ LedgerAmount'[r] = LedgerAmount[r]
  BY <1>1, <1>2, <1>3 DEF LedgerStatus, LedgerAmount, Live, Amount
<1>5. LedgerStatus' = [LedgerStatus EXCEPT ![r] = "queued"] /\ LedgerAmount' = LedgerAmount
  <2>1. /\ LedgerStatus' = [LedgerStatus EXCEPT ![r] = LedgerStatus'[r]]
        /\ \A q \in Receipts : book'[q] = book[q]
    BY <1>1, <1>2, LedgerOthers
  <2>2. LedgerAmount' = LedgerAmount
    BY <1>1 DEF LedgerAmount, Amount
  <2> QED
    BY <1>4, <2>1, <2>2
<1> QED
  BY <1>4, <1>5 DEF LEDGER!Next, LEDGER!Accept

\* Whoever books a receipt, books all of it, and it was queued.
LEMMA BookingBooks ==
    ASSUME Inductive, Inductive', NEW r \in Receipts,
           Live(r), book[r].kind = "none", receipt'[r].state = receipt[r].state,
           job'[r].status = "none",
           book'[r].kind = "none" \/ Amount(book'[r]) # 0,
           \A q \in Receipts : q # r => receipt'[q].state = receipt[q].state /\ book'[q] = book[q]
    PROVE  LEDGER!Next
<1>1. Live(r)' /\ book'[r].kind # "none"
  BY DEF Inductive, JobXorExpenses, Live
<1>2. Amount(book'[r]) \in Nat \ {0}
  BY <1>1 DEF Inductive, TypeOK, Booking, Amount
<1>3. LedgerStatus[r] = "queued" /\ LedgerStatus'[r] = "booked" /\ LedgerAmount'[r] \in Nat \ {0}
  BY <1>1, <1>2 DEF LedgerStatus, LedgerAmount, Amount
<1>4. /\ LedgerStatus' = [LedgerStatus EXCEPT ![r] = "booked"]
      /\ LedgerAmount' = [LedgerAmount EXCEPT ![r] = LedgerAmount'[r]]
  BY <1>3, LedgerOthers
<1> QED
  BY <1>3, <1>4 DEF LEDGER!Next, LEDGER!Book

\* POST /api/receipts/{id}/resolve does.
LEMMA ResolveBooks ==
    ASSUME Inductive, Inductive', NEW r \in Receipts, Resolve(r)
    PROVE  LEDGER!Next
<1>1. Live(r) /\ book[r].kind = "none"
  BY DEF Resolve, Inductive, JobXorExpenses
<1>2. /\ receipt' = receipt /\ \A q \in Receipts : q # r => book'[q] = book[q]
      /\ book'[r].lines = 0 /\ book'[r].correction = Amount(book[r]) + Total
  BY DEF Resolve, Inductive, TypeOK
<1>3. Amount(book[r]) = 0
  BY <1>1, Fields DEF Inductive, NoHalfRows, Amount
<1>4. Amount(book'[r]) # 0
  BY <1>2, <1>3, TotalAssumption DEF Amount
<1>5. job'[r].status = "none"
  BY Fields DEF Resolve, CompleteJob, Inductive, TypeOK
<1> QED
  BY <1>1, <1>2, <1>4, <1>5, BookingBooks

\* So does persist_classification_results.
LEMMA PersistBooks ==
    ASSUME Inductive, Inductive', NEW t \in Tokens, proc[t].pc = "persist", PersistBook(t)
    PROVE  LEDGER!Next
<1> DEFINE r == proc[t].r
           c == Correction(r, proc[t].fallback)
           lines == IF proc[t].fallback /\ receipt[r].rows > Total THEN 0 ELSE proc[t].rows
<1>1. r \in Receipts /\ Live(r) /\ book[r].kind = "none"
  BY DEF PersistBook, HasExpenses, Inductive, TypeOK
<1>2. book'[r].kind = "none" \/ Amount(book'[r]) # 0
  <2>1. book' = [book EXCEPT ![r] =
                   IF lines + c = 0 THEN NoBooking
                   ELSE [kind |-> "lines", lines |-> lines, correction |-> c]]
    BY DEF PersistBook
  <2> HIDE DEF lines, c
  <2> QED
    BY <1>1, <2>1, Fields DEF Amount, Inductive, TypeOK
<1>3. KeepsReceipts /\ \A q \in Receipts : q # r => book'[q] = book[q]
  <2>1. \E rows \in {0, receipt[r].rows} : receipt' = [receipt EXCEPT ![r].rows = rows]
    BY DEF PersistBook
  <2> QED
    BY <2>1 DEF PersistBook, KeepsReceipts, Inductive, TypeOK
<1>4. job'[r].status = "none"
  BY <1>1, Fields DEF PersistBook, CompleteJob, Inductive, TypeOK
<1> QED
  BY <1>1, <1>2, <1>3, <1>4, BookingBooks DEF KeepsReceipts

\* The other steps of a coroutine are invisible in the ledger.
LEMMA ProcessBooks ==
    ASSUME Inductive, Inductive', NEW t \in Tokens, ProcessStep(t)
    PROVE  LEDGER!Next \/ UNCHANGED LEDGER!vars
<1>1. KeepsReceipts
  BY ProcessRows DEF Inductive
<1>2. CASE PersistBook(t) /\ proc[t].pc = "persist"
  BY <1>2, PersistBooks
<1>3. book' = book \/ (PersistBook(t) /\ proc[t].pc = "persist")
  <2>1. /\ \A pc, d : Abort(t, pc, d) => book' = book
        /\ \A p : Become(t, p) => book' = book
        /\ \A pc : Goto(t, pc) => book' = book
        /\ OnlyProc => book' = book
    BY DEF Abort, Become, Goto, OnlyProc
  <2>2. Transient(t) \/ Permanent(t) \/ Cancelled(t) \/ Unexpected(t) => book' = book
    BY <2>1 DEF Transient, Permanent, Cancelled, Unexpected
  <2>3. CASE Parse(t) \/ Save(t) \/ EnsureStore(t) \/ GetItems(t) \/ RulesPass(t) \/ LlmPass(t)
    BY <2>1, <2>2, <2>3 DEF Parse, Save, EnsureStore, GetItems, RulesPass, LlmPass
  <2>4. CASE Persist(t)
    BY <2>1, <2>2, <2>4 DEF Persist, PersistAgain, PersistRaises, Running
  <2>5. CASE Release(t) \/ Poison(t) \/ ReleaseCancelled(t)
    BY <2>5 DEF Release, Poison, ReleaseCancelled
  <2> QED
    BY <2>3, <2>4, <2>5 DEF ProcessStep
<1> QED
  BY <1>1, <1>2, <1>3, LedgerStutters

\* DELETE /api/receipts/{id} removes a queued or a booked receipt.
LEMMA DeleteDeletes ==
    ASSUME Inductive, NEW r \in Receipts, Delete(r)
    PROVE  LEDGER!Next
<1>1. /\ Live(r) /\ receipt'[r].state = "deleted" /\ book'[r] = NoBooking
      /\ \A q \in Receipts : q # r => receipt'[q] = receipt[q] /\ book'[q] = book[q]
  BY Fields DEF Delete, Inductive, TypeOK
<1>2. /\ LedgerStatus[r] \in {"queued", "booked"} /\ LedgerStatus'[r] = "deleted"
      /\ LedgerAmount'[r] = 0
  BY <1>1, Fields DEF LedgerStatus, LedgerAmount, Live, Amount
<1>3. /\ LedgerStatus' = [LedgerStatus EXCEPT ![r] = "deleted"]
      /\ LedgerAmount' = [LedgerAmount EXCEPT ![r] = 0]
  BY <1>1, <1>2, LedgerOthers
<1> QED
  BY <1>2, <1>3 DEF LEDGER!Next, LEDGER!Delete

\* inv reclassify-receipts re-opens what it re-queues.
LEMMA RequeueReopens ==
    ASSUME Inductive, NEW rs \in SUBSET Receipts, Requeue(rs)
    PROVE  LEDGER!Next
<1>1. /\ \A r \in rs : Live(r)
      /\ receipt' = receipt
      /\ \A r \in Receipts : book'[r] = IF r \in rs THEN NoBooking ELSE book[r]
  BY DEF Requeue
<1>2. \A r \in rs : LedgerStatus[r] \in {"queued", "booked"}
  BY <1>1 DEF LedgerStatus, Live
<1>3. LedgerStatus' = [r \in Receipts |-> IF r \in rs THEN "queued" ELSE LedgerStatus[r]]
  BY <1>1, Fields DEF LedgerStatus, Live
<1>4. LedgerAmount' = [r \in Receipts |-> IF r \in rs THEN 0 ELSE LedgerAmount[r]]
  BY <1>1, Fields DEF LedgerAmount, Amount
<1> QED
  BY <1>2, <1>3, <1>4 DEF LEDGER!Next, LEDGER!Reopen

\* Every step of the pipeline is a step of the ledger, or none.
LEMMA LedgerStep ==
    Inductive /\ Inductive' /\ [Next]_vars => [LEDGER!Next]_(LEDGER!vars)
<1> SUFFICES ASSUME Inductive, Inductive', [Next]_vars
             PROVE  LEDGER!Next \/ UNCHANGED LEDGER!vars
  OBVIOUS
<1>1. CASE UNCHANGED <<receipt, book>>
  BY <1>1, LedgerStutters DEF KeepsReceipts
<1>2. ASSUME NEW a \in Requests, RequestStep(a) PROVE LEDGER!Next \/ UNCHANGED LEDGER!vars
  BY <1>1, <1>2, InsertAccepts DEF RequestStep, InsertConflict, Requery, Notify
<1>3. ASSUME NEW r \in Receipts, Resolve(r) \/ Delete(r) \/ SheetLogged(r)
      PROVE  LEDGER!Next \/ UNCHANGED LEDGER!vars
  BY <1>1, <1>3, ResolveBooks, DeleteDeletes DEF SheetLogged
<1>4. ASSUME NEW rs \in SUBSET Receipts, Requeue(rs)
      PROVE  LEDGER!Next \/ UNCHANGED LEDGER!vars
  BY <1>4, RequeueReopens
<1>5. ASSUME NEW t \in Tokens, ProcessStep(t) PROVE LEDGER!Next \/ UNCHANGED LEDGER!vars
  BY <1>5, ProcessBooks
<1> QED
  BY <1>1, <1>2, <1>3, <1>4, <1>5
  DEF Next, DrainStep, Lookup, Claim, ClaimedAll, DrainDone, Restart, WakeByEvent, WakeByTimeout,
      ClaimRaises, RetryDue, TimerFires, ClaimAges, Crash, vars

\* The whole pipeline implements the ledger: one booking of the whole amount for each
\* receipt, in one step, whatever POST, resolve, delete, the drain and the operator do
\* together, as long as the operator does not re-queue between two claims.
THEOREM Refinement ==
    ASSUME "midclaim" \notin Faults
    PROVE  Spec => ImplementsLedger
<1>1. Init => LEDGER!Init
  BY Fields DEF Init, LEDGER!Init, LedgerStatus, LedgerAmount, Live, Amount
<1> QED
  BY <1>1, LedgerStep, InductiveAlways, PTL DEF Spec, ImplementsLedger, LEDGER!Spec
=============================================================================
