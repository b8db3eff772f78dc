------------------------ MODULE SheetLoggingProofs ------------------------
(***************************************************************************)
(* Theorems about SheetLogging, for every number of expenses, row keys,    *)
(* failures and crashes, every cap and every set of failure kinds; and, at *)
(* the end, about IncomeLogging, whose drain runs in the same task.        *)
(***************************************************************************)
EXTENDS SheetLogging, IncomeLogging, SequenceTheorems, TLAPS

\* A job in hand is one of the Cap attempts of the sweep.
Budget == Working => tries < Cap

\* The snapshot shows no row the sheet does not have, so the row in hand exists.
Positions ==
    /\ Len(view) <= Len(sheet)
    /\ pc = "insert" => row \in 1..(Len(sheet) + 1)
    /\ pc \in {"fill", "reread", "read", "write"} => row \in 1..Len(sheet)
    /\ pc = "fill" => sheet[row] = BlankRow

\* Column J names an expense that is in the formula of its row.
Markers ==
    \A i \in 1..Len(sheet) :
        sheet[i].marker # 0 => sheet[i].times[sheet[i].marker] > 0

\* The job is cleared once its expense is in the sheet, and not before.
Logged == pc = "clear" => InSheet(cur)

\* While the circuit breaker is open the drain waits.
Waits == backoff => pc = "wait"

IInv == TypeOK /\ Budget /\ Positions /\ Markers /\ Logged /\ NothingForgotten /\ Waits

-----------------------------------------------------------------------------
(* Rows, jobs and sequences. *)

LEMMA EmptyRowType ==
    ASSUME NEW k \in 0..MaxKeys
    PROVE  /\ EmptyRow(k) \in SheetRow
           /\ EmptyRow(k).marker = 0
           /\ \A e \in Expenses : EmptyRow(k).times[e] = 0
<1>1. 0 \in 0..MaxExpenses /\ 0 \in 0..2
  BY BoundsAssumption
<1>2. [e \in Expenses |-> 0] \in [Expenses -> 0..2]
  BY <1>1
<1> QED
  BY <1>1, <1>2 DEF EmptyRow, SheetRow

LEMMA BlankRowType ==
    /\ BlankRow \in SheetRow /\ BlankRow.marker = 0
    /\ \A e \in Expenses : BlankRow.times[e] = 0
BY EmptyRowType, BoundsAssumption DEF BlankRow

LEMMA PlusType ==
    ASSUME NEW r \in SheetRow, NEW e \in Expenses
    PROVE  /\ Plus(r, e) \in SheetRow
           /\ Plus(r, e).marker = e /\ Plus(r, e).times[e] > 0
           /\ \A q \in Expenses : r.times[q] > 0 => Plus(r, e).times[q] > 0
<1> DEFINE t == [r.times EXCEPT ![e] = IF @ < 2 THEN @ + 1 ELSE @]
<1>1. r.times \in [Expenses -> 0..2] /\ r.key \in 0..MaxKeys /\ e \in 0..MaxExpenses
  BY BoundsAssumption DEF SheetRow, Expenses
<1>2. /\ t \in [Expenses -> 0..2] /\ t[e] > 0
      /\ \A q \in Expenses : r.times[q] > 0 => t[q] > 0
  BY <1>1
<1>3. Plus(r, e) = [key |-> r.key, marker |-> e, times |-> t]
  BY DEF Plus
<1> HIDE DEF t
<1> QED
  BY <1>1, <1>2, <1>3 DEF SheetRow

LEMMA InsertAtFacts ==
    ASSUME NEW S, NEW s \in Seq(S), NEW x \in S, NEW n \in 1..(Len(s) + 1)
    PROVE  /\ InsertAt(s, n, x) \in Seq(S)
           /\ Len(InsertAt(s, n, x)) = Len(s) + 1
           /\ InsertAt(s, n, x)[n] = x
           /\ \A i \in 1..(n - 1) : InsertAt(s, n, x)[i] = s[i]
           /\ \A i \in n..Len(s) : InsertAt(s, n, x)[i + 1] = s[i]
<1> DEFINE a == SubSeq(s, 1, n - 1)
           b == SubSeq(s, n, Len(s))
<1>1. a \in Seq(S) /\ Len(a) = n - 1 /\ \A i \in 1..(n - 1) : a[i] = s[i]
  OBVIOUS
<1>2. b \in Seq(S) /\ Len(b) = Len(s) + 1 - n /\ \A i \in 1..Len(b) : b[i] = s[n + i - 1]
  OBVIOUS
<1>3. InsertAt(s, n, x) = (a \o <<x>>) \o b
  BY DEF InsertAt
<1> HIDE DEF a, b
<1>4. /\ a \o <<x>> \in Seq(S) /\ Len(a \o <<x>>) = n
      /\ (a \o <<x>>)[n] = x /\ \A i \in 1..(n - 1) : (a \o <<x>>)[i] = s[i]
  BY <1>1
<1> DEFINE c == a \o <<x>>
<1> HIDE DEF c
<1>5. c \in Seq(S) /\ Len(c) = n /\ c[n] = x /\ \A i \in 1..(n - 1) : c[i] = s[i]
  BY <1>4 DEF c
<1>6. /\ c \o b \in Seq(S) /\ Len(c \o b) = Len(s) + 1
      /\ \A i \in 1..n : (c \o b)[i] = c[i]
      /\ \A i \in 1..Len(b) : (c \o b)[n + i] = b[i]
  BY <1>2, <1>5
<1>7. \A i \in n..Len(s) : (c \o b)[i + 1] = s[i]
  <2>1. SUFFICES ASSUME NEW i \in n..Len(s) PROVE (c \o b)[i + 1] = s[i]
    OBVIOUS
  <2> DEFINE j == i - n + 1
  <2>2. j \in 1..Len(b) /\ n + j = i + 1 /\ n + j - 1 = i
    BY <1>2
  <2> HIDE DEF j
  <2>3. (c \o b)[n + j] = b[j]
    BY <1>6, <2>2
  <2>4. b[j] = s[n + j - 1]
    BY <1>2, <2>2
  <2> QED
    BY <2>2, <2>3, <2>4
<1> QED
  BY <1>3, <1>5, <1>6, <1>7 DEF c

LEMMA JobType == \A s \in {"none", "pending", "in_progress", "poisoned"} :
                    Job(s) \in JobRow /\ Job(s).status = s
BY DEF Job, JobRow

LEMMA ExpenseType ==
    /\ \A s \in {"absent", "live", "deleted"} :
          NoExpense(s) \in ExpenseRow /\ NoExpense(s).state = s
    /\ \A p \in ExpenseRow : [p EXCEPT !.tags = FALSE] \in ExpenseRow
    /\ \A p \in ExpenseRow, k \in Keys : [p EXCEPT !.key = k] \in ExpenseRow
<1>1. 0 \in 0..MaxKeys /\ Keys \subseteq 0..MaxKeys
  BY BoundsAssumption DEF Keys
<1> QED
  BY <1>1 DEF NoExpense, ExpenseRow

LEMMA KeysOfType ==
    ASSUME NEW s \in Seq(SheetRow)
    PROVE  KeysOf(s) \in Seq(0..MaxKeys) /\ Len(KeysOf(s)) = Len(s)
<1>1. \A i \in 1..Len(s) : s[i] \in SheetRow
  OBVIOUS
<1>2. \A r \in SheetRow : r.key \in 0..MaxKeys
  BY DEF SheetRow
<1> QED
  BY <1>1, <1>2 DEF KeysOf

-----------------------------------------------------------------------------
(* What a step has to keep. *)

\* An expense stays in the queue or in the sheet.
LEMMA KeptOrLogged ==
    ASSUME NothingForgotten,
           \A e \in Expenses : InSheet(e) => InSheet(e)',
           \A e \in Expenses : Live(e)' /\ job'[e].status = "none" =>
                                  (Live(e) /\ job[e].status = "none") \/ InSheet(e)
    PROVE  NothingForgotten'
BY DEF NothingForgotten

LEMMA SameSheet == UNCHANGED sheet => \A e : InSheet(e)' = InSheet(e)
BY DEF InSheet

\* A step of the users, the operator or the clock.
LEMMA OutsideStep ==
    ASSUME IInv, UNCHANGED <<sheet, memory, pc, faults, crashes>>,
           backoff' = backoff \/ backoff' = FALSE,
           expense' \in [Expenses -> ExpenseRow], job' \in [Expenses -> JobRow],
           \A e \in Expenses : Live(e)' /\ job'[e].status = "none" =>
                                  Live(e) /\ job[e].status = "none"
    PROVE  IInv'
<1>1. UNCHANGED <<view, todo, cur, target, row, tries, err>>
  BY DEF memory
<1>2. TypeOK'
  <2>1. backoff' \in BOOLEAN
    BY DEF IInv, TypeOK
  <2>2. cur' \in 0..MaxExpenses /\ (Working' => cur' \in Expenses)
    BY <1>1 DEF IInv, TypeOK, Working
  <2> QED
    BY <1>1, <2>1, <2>2 DEF IInv, TypeOK
<1>3. Budget' /\ Waits'
  BY <1>1 DEF IInv, Budget, Waits, Working
<1>4. Positions' /\ Markers' /\ Logged'
  BY <1>1, SameSheet DEF IInv, Positions, Markers, Logged, InSheet
<1>5. NothingForgotten'
  BY SameSheet, KeptOrLogged DEF IInv
<1> QED
  BY <1>2, <1>3, <1>4, <1>5 DEF IInv

LEMMA CreateStep ==
    ASSUME IInv, NEW e \in Expenses, Create(e)
    PROVE  IInv'
<1>1. expense \in [Expenses -> ExpenseRow] /\ job \in [Expenses -> JobRow]
  BY DEF IInv, TypeOK
<1>2. PICK k \in Keys, src \in {"manual", "receipt"} :
         expense' = [expense EXCEPT ![e] = [state |-> "live", source |-> src, key |-> k,
                                            tags |-> src = "manual"]]
  BY DEF Create
<1>3. [state |-> "live", source |-> src, key |-> k, tags |-> src = "manual"] \in ExpenseRow
  <2>1. k \in 0..MaxKeys /\ (src = "manual") \in BOOLEAN
    BY BoundsAssumption DEF Keys
  <2> QED
    BY <2>1 DEF ExpenseRow
<1>4. job' = [job EXCEPT ![e] = Job("pending")]
  BY DEF Create
<1>5. expense' \in [Expenses -> ExpenseRow] /\ job' \in [Expenses -> JobRow]
  BY <1>1, <1>2, <1>3, <1>4, JobType
<1>6. \A q \in Expenses : Live(q)' /\ job'[q].status = "none" =>
                             Live(q) /\ job[q].status = "none"
  BY <1>1, <1>2, <1>4, JobType DEF Live
<1> QED
  BY <1>5, <1>6, OutsideStep DEF Create

LEMMA DeleteStep ==
    ASSUME IInv, NEW e \in Expenses, DeleteReceipt(e) \/ DeleteManual(e)
    PROVE  IInv'
<1>1. expense \in [Expenses -> ExpenseRow] /\ job \in [Expenses -> JobRow] /\ Live(e)
  BY DEF IInv, TypeOK, DeleteReceipt, DeleteManual
<1>2. CASE DeleteReceipt(e)
  <2>1. /\ expense' = [expense EXCEPT ![e] = NoExpense("deleted")]
        /\ job' = [job EXCEPT ![e] = Job("none")]
    BY <1>2 DEF DeleteReceipt
  <2>2. expense' \in [Expenses -> ExpenseRow] /\ job' \in [Expenses -> JobRow]
    BY <1>1, <2>1, ExpenseType, JobType
  <2>3. \A q \in Expenses : Live(q)' /\ job'[q].status = "none" =>
                               Live(q) /\ job[q].status = "none"
    BY <1>1, <2>1, ExpenseType DEF Live
  <2> QED
    BY <1>2, <2>2, <2>3, OutsideStep DEF DeleteReceipt
<1>3. CASE DeleteManual(e)
  <2>1. /\ job' = job
        /\ \/ expense' = [expense EXCEPT ![e] = NoExpense("deleted")]
           \/ expense' = [expense EXCEPT ![e] = [expense[e] EXCEPT !.tags = FALSE]]
    BY <1>3 DEF DeleteManual
  <2>2. expense' \in [Expenses -> ExpenseRow]
    BY <1>1, <2>1, ExpenseType
  <2>3. \A q \in Expenses : Live(q)' => Live(q)
    BY <1>1, <2>1 DEF Live
  <2> QED
    BY <1>1, <1>3, <2>1, <2>2, <2>3, OutsideStep DEF DeleteManual
<1> QED
  BY <1>2, <1>3

LEMMA OperatorStep ==
    ASSUME IInv,
           (\E e \in Expenses, k \in Keys : Remap(e, k)) \/ Requeue \/ BackoffOver
             \/ (\E e \in Expenses : ClaimAges(e)) \/ UNCHANGED vars
    PROVE  IInv'
<1>1. /\ expense \in [Expenses -> ExpenseRow] /\ job \in [Expenses -> JobRow]
      /\ UNCHANGED <<sheet, memory, pc, faults, crashes>>
      /\ backoff' = backoff \/ backoff' = FALSE
  BY DEF IInv, TypeOK, Remap, Requeue, BackoffOver, ClaimAges, vars, memory
<1>2. CASE \E e \in Expenses, k \in Keys : Remap(e, k)
  <2>1. PICK e \in Expenses, k \in Keys : Remap(e, k)
    BY <1>2
  <2>2. expense' = [expense EXCEPT ![e] = [expense[e] EXCEPT !.key = k]] /\ job' = job
    BY <2>1 DEF Remap
  <2>3. expense' \in [Expenses -> ExpenseRow]
    BY <1>1, <2>2, ExpenseType
  <2>4. \A q \in Expenses : Live(q)' => Live(q)
    BY <1>1, <2>2 DEF Live
  <2> QED
    BY <1>1, <2>2, <2>3, <2>4, OutsideStep
<1>3. CASE Requeue
  <2>1. /\ expense' = expense
        /\ job' = [e \in Expenses |-> IF job[e].status = "poisoned" THEN Job("pending") ELSE job[e]]
    BY <1>3 DEF Requeue
  <2>2. job' \in [Expenses -> JobRow]
    BY <1>1, <2>1, JobType
  <2>3. \A q \in Expenses : job'[q].status = "none" => job[q].status = "none"
    BY <2>1, JobType
  <2> QED
    BY <1>1, <2>1, <2>2, <2>3, OutsideStep DEF Live
<1>4. CASE BackoffOver \/ UNCHANGED vars
  <2>1. UNCHANGED <<expense, job>>
    BY <1>4 DEF BackoffOver, vars
  <2> QED
    BY <1>1, <2>1, OutsideStep DEF Live
<1>5. CASE \E e \in Expenses : ClaimAges(e)
  <2>1. PICK e \in Expenses : ClaimAges(e)
    BY <1>5
  <2>2. expense' = expense /\ job' = [job EXCEPT ![e] = [status |-> "in_progress", age |-> "old"]]
    BY <2>1 DEF ClaimAges
  <2>3. job' \in [Expenses -> JobRow]
    BY <1>1, <2>2 DEF JobRow
  <2>4. \A q \in Expenses : job'[q].status = "none" => job[q].status = "none"
    BY <1>1, <2>2
  <2> QED
    BY <1>1, <2>2, <2>3, <2>4, OutsideStep DEF Live
<1> QED
  BY <1>2, <1>3, <1>4, <1>5

-----------------------------------------------------------------------------
(* Steps of the drain: first where it is and what it holds. *)

Control ==
    /\ pc \in DrainPC /\ todo \subseteq Expenses
    /\ cur \in 0..MaxExpenses /\ (Working => cur \in Expenses)
    /\ target \in 0..MaxKeys /\ row \in Nat /\ tries \in 0..Cap
    /\ err \in {"none", "transient", "permanent", "norate"}
    /\ backoff \in BOOLEAN
    /\ faults \in 0..MaxFaults /\ crashes \in 0..MaxCrashes
    /\ Budget /\ Waits

\* A missing row has its place between the first row of the snapshot and the one
\* behind its last.
LEMMA PlaceInRange ==
    ASSUME TypeOK, NEW k \in 0..MaxKeys
    PROVE  /\ First(RowsOf(k)) \subseteq 1..Len(view)
           /\ PlaceFor(k) \subseteq 1..(Len(view) + 1)
<1>1. Len(view) \in Nat
  BY DEF TypeOK
<1>2. First(RowsOf(k)) \subseteq 1..Len(view)
  BY DEF First, RowsOf
<1>3. ASSUME NEW S, S \subseteq 1..Len(view)
      PROVE  First(S) \subseteq 1..(Len(view) + 1)
  <2>1. 1..Len(view) \subseteq 1..(Len(view) + 1)
    BY <1>1
  <2> QED
    BY <1>3, <2>1 DEF First
<1>4. \A S : AfterLast(S) \subseteq 1..(Len(view) + 1)
  BY DEF AfterLast
<1>5. Behind(k) \subseteq 1..Len(view)
  BY DEF Behind, Block, Filled
<1> QED
  BY <1>2, <1>3, <1>4, <1>5 DEF PlaceFor

LEMMA ControlStep ==
    ASSUME IInv, DrainStep \/ Crash
    PROVE  Control'
<1>1. Control /\ 0 \in 0..MaxExpenses /\ 0 \in 0..MaxKeys /\ 0 \in 0..Cap
      /\ Expenses \subseteq 0..MaxExpenses /\ (faults < MaxFaults => faults + 1 \in 0..MaxFaults)
      /\ (crashes < MaxCrashes => crashes + 1 \in 0..MaxCrashes)
  BY BoundsAssumption DEF IInv, TypeOK, Control, Expenses
<1>2. ASSUME pc' \in DrainPC, Forget, faults' \in 0..MaxFaults, crashes' \in 0..MaxCrashes,
             pc' \in {"wait", "down"}, backoff' \in BOOLEAN, backoff' => pc' = "wait"
      PROVE  Control'
  BY <1>1, <1>2, BoundsAssumption DEF Control, Forget, Budget, Waits, Working
<1>3. ASSUME Working, Finish, backoff' = backoff, crashes' = crashes, faults' \in 0..MaxFaults
      PROVE  Control'
  BY <1>1, <1>3, BoundsAssumption DEF Control, Finish, Budget, Waits, Working, DrainPC
<1>4. ASSUME Working, NEW f, May(f), NEW k \in {"transient", "permanent", "norate"}, Fail(k),
             backoff' = backoff, crashes' = crashes
      PROVE  Control'
  BY <1>1, <1>4 DEF Control, Fail, May, Budget, Waits, Working, DrainPC
<1>5. ASSUME Working, UNCHANGED <<todo, cur, target, row, tries, err, faults, backoff, crashes>>,
             pc' \in DrainPC, pc' # "wait"
      PROVE  Control'
  BY <1>1, <1>5 DEF Control, Budget, Waits, Working
<1>6. CASE StartSweep
  BY <1>1, <1>6 DEF StartSweep, Control, Budget, Waits, Working, Listed, BreakerClosed, DrainPC
<1>7. CASE OpenSheetView
  <2>1. CASE pc' = "next"
    <3>1. /\ pc = "open" /\ UNCHANGED crashes
          /\ UNCHANGED <<todo, cur, target, row, tries, err, backoff, faults>>
      BY <1>7, <2>1 DEF OpenSheetView, EndSweep
    <3> QED
      BY <1>1, <2>1, <3>1 DEF Control, Budget, Waits, Working, DrainPC
  <2>2. CASE pc' # "next"
    BY <1>1, <1>2, <1>7, <2>2 DEF OpenSheetView, EndSweep, May, Control, DrainPC
  <2> QED
    BY <2>1, <2>2
<1>8. CASE SweepDone
  BY <1>1, <1>2, <1>8 DEF SweepDone, EndSweep, Control, Waits, DrainPC
<1>9. CASE ClaimJob
  BY <1>1, <1>9, BoundsAssumption
     DEF ClaimJob, Control, Budget, Waits, Working, DrainPC, CapReached, May
<1>10. CASE Resolve
  <2>1. Working /\ pc = "resolve"
    BY <1>10 DEF Resolve, Working
  <2>2. CASE Finish /\ (UNCHANGED faults \/ (May("permanent") /\ faults' = faults + 1))
    BY <1>1, <1>3, <1>10, <2>1, <2>2 DEF Resolve, Control, May
  <2>3. CASE May("locked") /\ Fail("permanent")
    BY <1>4, <1>10, <2>1, <2>3 DEF Resolve
  <2>4. CASE /\ Live(cur) /\ target' = expense[cur].key /\ pc' = "rate"
             /\ UNCHANGED <<todo, cur, row, tries, err, faults>>
    <3>1. target' \in 0..MaxKeys /\ UNCHANGED <<backoff, crashes>>
      BY <1>1, <1>10, <2>1, <2>4 DEF IInv, TypeOK, ExpenseRow, Resolve
    <3> QED
      BY <1>1, <2>1, <2>4, <3>1 DEF Control, Budget, Waits, Working, DrainPC
  <2> QED
    BY <1>10, <2>2, <2>3, <2>4 DEF Resolve
<1>11. CASE Rate
  <2>1. Working /\ pc = "rate" /\ UNCHANGED <<backoff, crashes>>
    BY <1>11 DEF Rate, Working
  <2>2. CASE May("norate") /\ Fail("norate")
    BY <1>4, <2>1, <2>2
  <2>3. CASE /\ row' \in First(RowsOf(target)) \cup PlaceFor(target) \cup {row}
             /\ pc' \in {"read", "insert", "release"} /\ err' \in {err, "norate"}
             /\ UNCHANGED <<todo, cur, target, tries, faults>>
    <3>1. row' \in Nat
      BY <1>1, <2>3, PlaceInRange DEF IInv, TypeOK, Control
    <3> QED
      BY <1>1, <2>1, <2>3, <3>1 DEF Control, Budget, Waits, Working, DrainPC
  <2> QED
    BY <1>11, <2>2, <2>3 DEF Rate
<1>12. CASE InsertRow \/ FillRow \/ WriteRow
  BY <1>1, <1>4, <1>5, <1>12 DEF InsertRow, FillRow, WriteRow, Request, Working, DrainPC
<1>13. CASE Reread \/ ReadMarker
  BY <1>1, <1>4, <1>5, <1>13 DEF Reread, ReadMarker, Working, DrainPC, memory
<1>14. CASE ClearJob
  BY <1>1, <1>3, <1>4, <1>14 DEF ClearJob, Working, Control
<1>15. CASE Release
  <2>1. Working /\ pc = "release" /\ crashes' = crashes /\ faults' \in 0..MaxFaults
    BY <1>1, <1>15 DEF Release, Working, May, Control
  <2>2. CASE Halt
    BY <1>2, <2>1, <2>2, <1>1 DEF Halt, EndSweep, Control, DrainPC
  <2>3. CASE Finish /\ backoff' = backoff
    BY <1>3, <2>1, <2>3
  <2>4. CASE pc' = "poison" /\ UNCHANGED <<memory, backoff>>
    BY <1>1, <2>1, <2>4 DEF memory, Control, Budget, Waits, Working, DrainPC
  <2> QED
    BY <1>15, <2>2, <2>3, <2>4 DEF Release
<1>16. CASE Poison
  <2>1. Working /\ pc = "poison" /\ UNCHANGED <<backoff, crashes>> /\ ~backoff
    BY <1>1, <1>16 DEF Poison, Working, Control, Waits
  <2>2. CASE Finish /\ faults' = faults
    BY <1>1, <1>3, <2>1, <2>2 DEF Control
  <2>3. CASE May("locked") /\ EndSweep /\ faults' = faults + 1
    BY <1>1, <1>2, <2>1, <2>3 DEF EndSweep, May, Control, DrainPC
  <2> QED
    BY <1>16, <2>2, <2>3 DEF Poison
<1>17. CASE Crash
  BY <1>1, <1>2, <1>17, BoundsAssumption DEF Crash, Control, DrainPC
<1>18. CASE Restart
  BY <1>1, <1>18 DEF Restart, memory, Control, Budget, Waits, Working, DrainPC
<1> QED
  BY <1>6, <1>7, <1>8, <1>9, <1>10, <1>11, <1>12, <1>13, <1>14, <1>15, <1>16, <1>17, <1>18
     DEF DrainStep

-----------------------------------------------------------------------------
(* ... then the two tables, the sheet and the snapshot. *)

LEMMA JobStep ==
    ASSUME IInv, DrainStep \/ Crash
    PROVE  /\ expense' = expense /\ job' \in [Expenses -> JobRow]
           /\ \A e \in Expenses : Live(e) /\ job'[e].status = "none" =>
                                     job[e].status = "none" \/ InSheet(e)
<1>1. job \in [Expenses -> JobRow] /\ (Working => cur \in Expenses)
  BY DEF IInv, TypeOK
<1>2. expense' = expense
  BY DEF DrainStep, Crash, StartSweep, OpenSheetView, SweepDone, ClaimJob, Resolve, Rate,
         InsertRow, FillRow, Reread, ReadMarker, WriteRow, ClearJob, Release, Poison, Restart
<1>3. CASE job' = job
  BY <1>1, <1>2, <1>3
<1>4. ASSUME NEW e \in Expenses, NEW j \in JobRow, job' = [job EXCEPT ![e] = j],
             j.status = "none" => job[e].status = "none" \/ InSheet(e) \/ ~Live(e)
      PROVE  /\ job' \in [Expenses -> JobRow]
             /\ \A q \in Expenses : Live(q) /\ job'[q].status = "none" =>
                                       job[q].status = "none" \/ InSheet(q)
  BY <1>1, <1>4
<1>5. ASSUME NEW e \in Expenses
      PROVE  [job[e] EXCEPT !.status = "poisoned"] \in JobRow
             /\ [job[e] EXCEPT !.status = "poisoned"].status = "poisoned"
  <2>1. \A j \in JobRow : [j EXCEPT !.status = "poisoned"] \in JobRow
                          /\ [j EXCEPT !.status = "poisoned"].status = "poisoned"
    BY DEF JobRow
  <2> QED
    BY <1>1, <2>1
<1>6. ASSUME NEW e \in Expenses, PoisonJob(e)
      PROVE  \E j \in JobRow : /\ job' = [job EXCEPT ![e] = j]
                               /\ j.status = "none" => job[e].status = "none"
  BY <1>1, <1>5, <1>6 DEF PoisonJob
<1>7. CASE ClaimJob /\ job' # job
  <2>1. PICK e \in Expenses : job' = [job EXCEPT ![e] = Job("in_progress")]
    BY <1>7 DEF ClaimJob, IInv, TypeOK
  <2> QED
    BY <1>2, <1>4, <2>1, JobType
<1>8. CASE Resolve /\ job' # job
  <2>1. cur \in Expenses
    BY <1>1, <1>8 DEF Resolve, Working
  <2>2. CASE ~Live(cur) /\ job' = [job EXCEPT ![cur] = Job("none")]
    BY <1>2, <1>4, <2>1, <2>2, JobType
  <2>3. CASE PoisonJob(cur)
    BY <1>2, <1>4, <1>6, <2>1, <2>3
  <2> QED
    BY <1>8, <2>2, <2>3 DEF Resolve
<1>9. CASE ClearJob /\ job' # job
  <2>1. cur \in Expenses /\ InSheet(cur) /\ job' = [job EXCEPT ![cur] = Job("none")]
    BY <1>1, <1>9 DEF ClearJob, Working, IInv, Logged
  <2> QED
    BY <1>2, <1>4, <2>1, JobType
<1>10. CASE Release /\ job' # job
  <2>1. cur \in Expenses /\ ReleaseClaim(cur)
    BY <1>1, <1>10 DEF Release, Working
  <2>2. CASE job[cur].status = "none"
    BY <1>1, <1>3, <2>1, <2>2 DEF ReleaseClaim
  <2>3. CASE job[cur].status # "none"
    <3>1. job' = [job EXCEPT ![cur] = Job("pending")]
      BY <2>1, <2>3 DEF ReleaseClaim
    <3> QED
      BY <1>2, <1>4, <2>1, <3>1, JobType
  <2> QED
    BY <2>2, <2>3
<1>11. CASE Poison /\ job' # job
  <2>1. cur \in Expenses /\ PoisonJob(cur)
    BY <1>1, <1>11 DEF Poison, Working
  <2> QED
    BY <1>2, <1>4, <1>6, <2>1
<1>12. job' # job => ClaimJob \/ Resolve \/ ClearJob \/ Release \/ Poison
  BY DEF DrainStep, Crash, StartSweep, OpenSheetView, SweepDone, Rate, InsertRow, FillRow,
         Reread, ReadMarker, WriteRow, Restart
<1> QED
  BY <1>3, <1>7, <1>8, <1>9, <1>10, <1>11, <1>12

\* The sheet only grows: no step takes an expense out of it.
LEMMA SheetStep ==
    ASSUME IInv, DrainStep \/ Crash
    PROVE  /\ sheet' \in Seq(SheetRow) /\ Len(sheet) <= Len(sheet')
           /\ Markers'
           /\ \A e \in Expenses : InSheet(e) => InSheet(e)'
<1>1. sheet \in Seq(SheetRow) /\ Markers /\ (Working => cur \in Expenses) /\ target \in 0..MaxKeys
  BY DEF IInv, TypeOK
<1>2. CASE sheet' = sheet
  BY <1>1, <1>2 DEF Markers, InSheet
<1>3. CASE InsertRow /\ sheet' # sheet
  <2>1. row \in 1..(Len(sheet) + 1) /\ sheet' = InsertAt(sheet, row, BlankRow)
    BY <1>3 DEF InsertRow, Request, IInv, Positions
  <2>2. /\ sheet' \in Seq(SheetRow) /\ Len(sheet') = Len(sheet) + 1
        /\ sheet'[row] = BlankRow
        /\ \A i \in 1..(row - 1) : sheet'[i] = sheet[i]
        /\ \A i \in row..Len(sheet) : sheet'[i + 1] = sheet[i]
    <3> DEFINE new == InsertAt(sheet, row, BlankRow)
    <3>1. /\ new \in Seq(SheetRow) /\ Len(new) = Len(sheet) + 1 /\ new[row] = BlankRow
          /\ \A i \in 1..(row - 1) : new[i] = sheet[i]
          /\ \A i \in row..Len(sheet) : new[i + 1] = sheet[i]
      <4>1. /\ sheet \in Seq(SheetRow) /\ BlankRow \in SheetRow
            /\ row \in 1..(Len(sheet) + 1)
        BY <1>1, <2>1, BlankRowType
      <4>2. /\ InsertAt(sheet, row, BlankRow) \in Seq(SheetRow)
            /\ Len(InsertAt(sheet, row, BlankRow)) = Len(sheet) + 1
            /\ InsertAt(sheet, row, BlankRow)[row] = BlankRow
            /\ \A i \in 1..(row - 1) : InsertAt(sheet, row, BlankRow)[i] = sheet[i]
            /\ \A i \in row..Len(sheet) : InsertAt(sheet, row, BlankRow)[i + 1] = sheet[i]
        BY <4>1, InsertAtFacts, SMTT(60)
      <4> QED
        BY <4>2
    <3> HIDE DEF new
    <3>2. sheet' = new
      BY <2>1 DEF new
    <3> QED
      BY <3>1, <3>2
  <2>3. Markers'
    <3>1. SUFFICES ASSUME NEW i \in 1..Len(sheet'), sheet'[i].marker # 0
                   PROVE  sheet'[i].times[sheet'[i].marker] > 0
      BY DEF Markers
    <3>2. CASE i < row
      BY <1>1, <2>1, <2>2, <3>1, <3>2 DEF Markers
    <3>3. CASE i = row
      BY <2>2, <3>1, <3>3, BlankRowType
    <3>4. CASE i > row
      <4>1. i - 1 \in row..Len(sheet) /\ (i - 1) + 1 = i /\ i - 1 \in 1..Len(sheet)
        BY <1>1, <2>1, <2>2, <3>4
      <4>2. sheet'[i] = sheet[i - 1]
        BY <2>2, <4>1
      <4> QED
        BY <1>1, <3>1, <4>1, <4>2 DEF Markers
    <3> QED
      BY <1>1, <2>1, <2>2, <3>2, <3>3, <3>4
  <2>4. ASSUME NEW e \in Expenses, InSheet(e) PROVE InSheet(e)'
    <3>1. PICK i \in 1..Len(sheet) : sheet[i].times[e] > 0
      BY <2>4 DEF InSheet
    <3>2. CASE i < row
      BY <1>1, <2>1, <2>2, <3>1, <3>2 DEF InSheet
    <3>3. CASE i >= row
      <4>1. i + 1 \in 1..Len(sheet') /\ sheet'[i + 1] = sheet[i]
        BY <1>1, <2>1, <2>2, <3>3
      <4> QED
        BY <3>1, <4>1 DEF InSheet
    <3> QED
      BY <1>1, <2>1, <3>2, <3>3
  <2> QED
    BY <1>1, <2>2, <2>3, <2>4
<1>4. ASSUME NEW n \in 1..Len(sheet), NEW x \in SheetRow, sheet' = [sheet EXCEPT ![n] = x],
             x.marker # 0 => x.times[x.marker] > 0,
             \A e \in Expenses : sheet[n].times[e] > 0 => x.times[e] > 0
      PROVE  /\ sheet' \in Seq(SheetRow) /\ Len(sheet) <= Len(sheet')
             /\ Markers'
             /\ \A e \in Expenses : InSheet(e) => InSheet(e)'
  <2>1. /\ sheet' \in Seq(SheetRow) /\ Len(sheet') = Len(sheet)
        /\ \A i \in 1..Len(sheet) : sheet'[i] = IF i = n THEN x ELSE sheet[i]
    BY <1>1, <1>4, ExceptSeq
  <2>2. Markers'
    BY <1>1, <1>4, <2>1 DEF Markers
  <2>3. \A e \in Expenses : InSheet(e) => InSheet(e)'
    BY <1>4, <2>1 DEF InSheet
  <2> QED
    BY <1>1, <2>1, <2>2, <2>3
<1>5. CASE FillRow /\ sheet' # sheet
  <2>1. row \in 1..Len(sheet) /\ sheet[row] = BlankRow
        /\ sheet' = [sheet EXCEPT ![row] = EmptyRow(target)]
    BY <1>5 DEF FillRow, Request, IInv, Positions
  <2> DEFINE x == EmptyRow(target)
  <2>2. x \in SheetRow /\ x.marker = 0
    BY <1>1, EmptyRowType
  <2>3. \A e \in Expenses : ~(sheet[row].times[e] > 0)
    BY <2>1, BlankRowType
  <2> HIDE DEF x
  <2>4. sheet' = [sheet EXCEPT ![row] = x]
    BY <2>1 DEF x
  <2> QED
    BY <1>4, <2>1, <2>2, <2>3, <2>4
<1>6. CASE WriteRow /\ sheet' # sheet
  <2>1. /\ row \in 1..Len(sheet) /\ cur \in Expenses
        /\ sheet' = [sheet EXCEPT ![row] = Plus(sheet[row], cur)]
    BY <1>1, <1>6 DEF WriteRow, Request, Appended, IInv, Positions, Working
  <2>2. sheet[row] \in SheetRow
    BY <1>1, <2>1
  <2> DEFINE x == Plus(sheet[row], cur)
  <2>3. /\ x \in SheetRow /\ x.marker = cur /\ x.times[cur] > 0
        /\ \A e \in Expenses : sheet[row].times[e] > 0 => x.times[e] > 0
    BY <2>1, <2>2, PlusType
  <2> HIDE DEF x
  <2>4. sheet' = [sheet EXCEPT ![row] = x]
    BY <2>1 DEF x
  <2> QED
    BY <1>4, <2>1, <2>3, <2>4
<1>7. sheet' # sheet => InsertRow \/ FillRow \/ WriteRow
  BY DEF DrainStep, Crash, StartSweep, OpenSheetView, SweepDone, ClaimJob, Resolve, Rate, Reread,
         ReadMarker, ClearJob, Release, Poison, Restart
<1> QED
  BY <1>2, <1>3, <1>5, <1>6, <1>7

LEMMA PlaceStep ==
    ASSUME IInv, DrainStep \/ Crash
    PROVE  view' \in Seq(0..MaxKeys) /\ Positions' /\ Logged'
<1>1. /\ sheet \in Seq(SheetRow) /\ view \in Seq(0..MaxKeys) /\ Len(view) <= Len(sheet)
      /\ Len(view) \in Nat /\ Len(sheet) \in Nat /\ Len(sheet') \in Nat
      /\ Len(sheet) <= Len(sheet') /\ target \in 0..MaxKeys
  BY SheetStep DEF IInv, TypeOK, Positions
<1>2. KeysOf(sheet) \in Seq(0..MaxKeys) /\ Len(KeysOf(sheet)) = Len(sheet)
  BY <1>1, KeysOfType
<1>3. ASSUME view' \in {view, <<>>, KeysOf(sheet)}
      PROVE  view' \in Seq(0..MaxKeys) /\ Len(view') <= Len(sheet')
  <2> DEFINE keys == KeysOf(sheet)
  <2>1. keys \in Seq(0..MaxKeys) /\ Len(keys) <= Len(sheet')
    BY <1>1, <1>2
  <2> HIDE DEF keys
  <2>2. view' = view \/ view' = <<>> \/ view' = keys
    BY <1>3 DEF keys
  <2>3. CASE view' = <<>>
    BY <1>1, <2>3
  <2>4. CASE view' = view
    BY <1>1, <2>4
  <2>5. CASE view' = keys
    BY <2>1, <2>5
  <2> QED
    BY <2>2, <2>3, <2>4, <2>5
<1>4. CASE /\ view' \in {view, <<>>, KeysOf(sheet)}
           /\ pc' \notin {"insert", "fill", "reread", "read", "write", "clear"}
  BY <1>3, <1>4 DEF Positions, Logged
<1>5. ASSUME NEW k, Fail(k)
      PROVE  view' \in Seq(0..MaxKeys) /\ Positions' /\ Logged'
  BY <1>4, <1>5 DEF Fail
<1>6. CASE Rate
  <2>1. CASE /\ row' \in First(RowsOf(target)) \/ row' \in PlaceFor(target)
             /\ row' \in First(RowsOf(target)) => pc' = "read"
             /\ row' \notin First(RowsOf(target)) => pc' = "insert"
             /\ view' = view
    <3>1. sheet' = sheet
      BY <1>6 DEF Rate
    <3>2. /\ row' \in First(RowsOf(target)) => row' \in 1..Len(sheet)
          /\ row' \in PlaceFor(target) => row' \in 1..(Len(sheet) + 1)
      BY <1>1, PlaceInRange DEF IInv
    <3> QED
      BY <1>3, <2>1, <3>1, <3>2 DEF Positions, Logged
  <2>2. CASE pc' = "release" /\ view' = view
    BY <1>4, <2>2
  <2>3. CASE Fail("norate")
    BY <1>5, <2>3
  <2>4. RowsOf(target) = {} => First(RowsOf(target)) = {}
    BY DEF First
  <2> QED
    BY <1>6, <2>1, <2>2, <2>3, <2>4 DEF Rate
<1>7. ASSUME NEW s, NEW next, Request(s, next), ~(\E k : Fail(k))
      PROVE  sheet' = s /\ pc' = next /\ UNCHANGED <<view, cur, row>>
  BY <1>7 DEF Request
<1>8. CASE InsertRow
  <2>1. SUFFICES ASSUME ~(\E k : Fail(k)) PROVE view' \in Seq(0..MaxKeys) /\ Positions' /\ Logged'
    BY <1>5
  <2>2. /\ sheet' = InsertAt(sheet, row, BlankRow) /\ pc' = "fill" /\ UNCHANGED <<view, cur, row>>
        /\ row \in 1..(Len(sheet) + 1)
    BY <1>7, <1>8, <2>1 DEF InsertRow, IInv, Positions
  <2>3. Len(sheet') = Len(sheet) + 1 /\ sheet'[row] = BlankRow
    BY <1>1, <2>2, BlankRowType, InsertAtFacts
  <2> QED
    BY <1>1, <1>3, <2>2, <2>3 DEF Positions, Logged
<1>9. CASE FillRow
  <2>1. SUFFICES ASSUME ~(\E k : Fail(k)) PROVE view' \in Seq(0..MaxKeys) /\ Positions' /\ Logged'
    BY <1>5
  <2>2. pc' = "reread" /\ UNCHANGED <<view, cur, row>> /\ row \in 1..Len(sheet)
    BY <1>7, <1>9, <2>1 DEF FillRow, IInv, Positions
  <2> QED
    BY <1>1, <1>3, <2>2 DEF Positions, Logged
<1>10. CASE Reread
  <2>1. CASE view' = KeysOf(sheet) /\ pc' = "read" /\ row' = row
    <3>1. row \in 1..Len(sheet) /\ sheet' = sheet
      BY <1>10 DEF Reread, IInv, Positions
    <3> QED
      BY <1>1, <1>3, <2>1, <3>1 DEF Positions, Logged
  <2> QED
    BY <1>5, <1>10, <2>1 DEF Reread, Refreshed
<1>11. CASE ReadMarker
  <2>1. CASE UNCHANGED memory /\ pc' = IF Recorded(cur, row) THEN "clear" ELSE "write"
    <3>1. /\ row \in 1..Len(sheet) /\ sheet' = sheet /\ UNCHANGED <<view, cur, row>>
          /\ cur \in Expenses /\ 0 \notin Expenses
      BY <1>11, <2>1 DEF ReadMarker, IInv, Positions, memory, TypeOK, Working, Expenses
    <3>2. Recorded(cur, row) => InSheet(cur)
      BY <3>1 DEF Recorded, IInv, Markers, InSheet
    <3>3. Logged'
      BY <2>1, <3>1, <3>2 DEF Logged, InSheet
    <3> QED
      BY <1>3, <2>1, <3>1, <3>3 DEF Positions
  <2> QED
    BY <1>5, <1>11, <2>1 DEF ReadMarker
<1>12. CASE WriteRow
  <2>1. SUFFICES ASSUME ~(\E k : Fail(k)) PROVE view' \in Seq(0..MaxKeys) /\ Positions' /\ Logged'
    BY <1>5
  <2>2. /\ pc' = "clear" /\ UNCHANGED <<view, cur, row>> /\ row \in 1..Len(sheet)
        /\ sheet' = [sheet EXCEPT ![row] = Plus(sheet[row], cur)] /\ cur \in Expenses
    BY <1>7, <1>12, <2>1 DEF WriteRow, Appended, IInv, Positions, TypeOK, Working
  <2>3. sheet'[row] = Plus(sheet[row], cur) /\ Len(sheet') = Len(sheet)
    BY <1>1, <2>2
  <2>4. sheet'[row].times[cur] > 0
    BY <1>1, <2>2, <2>3, PlusType
  <2>5. Logged'
    BY <1>1, <2>2, <2>3, <2>4 DEF Logged, InSheet
  <2> QED
    BY <1>3, <2>2, <2>5 DEF Positions
<1>13. CASE StartSweep \/ OpenSheetView \/ SweepDone \/ ClaimJob \/ Resolve \/ ClearJob
              \/ Release \/ Poison \/ Restart \/ Crash
  <2>1. \/ UNCHANGED sheet /\ view' \in {view, <<>>, KeysOf(sheet)}
           /\ pc' \notin {"insert", "fill", "reread", "read", "write", "clear"}
        \/ \E k : Fail(k)
    BY <1>13 DEF StartSweep, OpenSheetView, SweepDone, ClaimJob, Resolve, ClearJob, Release,
         Poison, Restart, Crash, EndSweep, Forget, Finish, Halt, memory
  <2> QED
    BY <1>4, <1>5, <2>1
<1> QED
  BY <1>6, <1>8, <1>9, <1>10, <1>11, <1>12, <1>13 DEF DrainStep

LEMMA InitIInv == Init => IInv
<1>1. SUFFICES ASSUME Init PROVE IInv
  OBVIOUS
<1>2. /\ \A e \in Expenses : expense[e] = NoExpense("absent") /\ job[e] = Job("none")
      /\ expense \in [Expenses -> ExpenseRow] /\ job \in [Expenses -> JobRow]
  BY <1>1, ExpenseType, JobType DEF Init
<1>3. sheet \in Seq(SheetRow) /\ view \in Seq(0..MaxKeys) /\ Len(sheet) = 0 /\ Len(view) = 0
  BY <1>1 DEF Init
<1>4. TypeOK /\ Budget
  <2>1. /\ 0 \in 0..MaxExpenses /\ 0 \in 0..MaxKeys /\ 0 \in 0..Cap /\ 0 < Cap
        /\ 0 \in 0..MaxFaults /\ 0 \in 0..MaxCrashes
    BY BoundsAssumption
  <2>2. ~Working /\ pc \in DrainPC /\ backoff \in BOOLEAN
    BY <1>1 DEF Init, Working, DrainPC
  <2> QED
    BY <1>1, <1>2, <1>3, <2>1, <2>2 DEF Init, TypeOK, Budget
<1>5. Positions /\ Markers /\ Logged /\ Waits
  BY <1>1, <1>3 DEF Init, Positions, Markers, Logged, Waits
<1>6. NothingForgotten
  BY <1>2, ExpenseType DEF NothingForgotten, Live
<1> QED
  BY <1>4, <1>5, <1>6 DEF IInv

LEMMA NextIInv == IInv /\ [Next]_vars => IInv'
<1>1. SUFFICES ASSUME IInv, [Next]_vars PROVE IInv'
  OBVIOUS
<1>2. CASE \E e \in Expenses : Create(e) \/ DeleteReceipt(e) \/ DeleteManual(e)
  BY <1>1, <1>2, CreateStep, DeleteStep
<1>3. CASE \/ \E e \in Expenses, k \in Keys : Remap(e, k)
           \/ Requeue \/ BackoffOver \/ (\E e \in Expenses : ClaimAges(e)) \/ UNCHANGED vars
  BY <1>1, <1>3, OperatorStep
<1>4. CASE DrainStep \/ Crash
  <2>1. Control' /\ view' \in Seq(0..MaxKeys) /\ Positions' /\ Logged'
    BY <1>1, <1>4, ControlStep, PlaceStep
  <2>2. /\ expense' = expense /\ job' \in [Expenses -> JobRow]
        /\ \A e \in Expenses : Live(e) /\ job'[e].status = "none" =>
                                  job[e].status = "none" \/ InSheet(e)
    BY <1>1, <1>4, JobStep
  <2>3. /\ sheet' \in Seq(SheetRow) /\ Markers'
        /\ \A e \in Expenses : InSheet(e) => InSheet(e)'
    BY <1>1, <1>4, SheetStep
  <2>4. TypeOK'
    BY <1>1, <2>1, <2>2, <2>3 DEF IInv, TypeOK, Control
  <2>5. NothingForgotten'
    BY <1>1, <2>2, <2>3, KeptOrLogged DEF IInv, Live
  <2> QED
    BY <2>1, <2>3, <2>4, <2>5 DEF IInv, Control
<1> QED
  BY <1>1, <1>2, <1>3, <1>4 DEF Next

\* The invariant of the whole model: types, the rows the drain holds, the markers.
THEOREM TypeCorrect == Spec => []TypeOK
<1>1. IInv => TypeOK
  BY DEF IInv
<1> QED
  BY InitIInv, NextIInv, <1>1, PTL DEF Spec

\* No expense is forgotten: whatever is refused, lost, poisoned or re-queued, wherever
\* the process stops, a live expense without a job has been appended to the sheet.
THEOREM NoneForgotten == Spec => []NothingForgotten
<1>1. IInv => NothingForgotten
  BY DEF IInv
<1> QED
  BY InitIInv, NextIInv, <1>1, PTL DEF Spec

\* While the circuit breaker is open the drain sends nothing that changes the sheet.
THEOREM NothingSentInBackoff == Spec => QuietInBackoff
<1>1. IInv /\ [Next]_vars => [backoff => UNCHANGED sheet]_vars
  <2>1. SUFFICES ASSUME IInv, Next, backoff, sheet' # sheet PROVE FALSE
    BY DEF vars
  <2>2. pc = "wait"
    BY <2>1 DEF IInv, Waits
  <2>3. InsertRow \/ FillRow \/ WriteRow
    BY <2>1 DEF Next, Create, DeleteReceipt, DeleteManual, ClaimAges, Remap, Requeue, BackoffOver,
         DrainStep, Crash, StartSweep, OpenSheetView, SweepDone, ClaimJob, Resolve, Rate, Reread,
         ReadMarker, ClearJob, Release, Poison, Restart
  <2> QED
    BY <2>2, <2>3 DEF InsertRow, FillRow, WriteRow
<1> QED
  BY InitIInv, NextIInv, <1>1, PTL DEF Spec, QuietInBackoff
-----------------------------------------------------------------------------
(* The positions and the order of the rows, while no request is refused for good
   ("permanent": the sweep would go on with a snapshot from before the insertion it
   broke off). *)

\* Outside a broken-off insertion the snapshot shows the keys of the rows.
ViewCurrent ==
    /\ pc \in {"next", "resolve", "rate", "insert", "read", "write", "clear", "poison"} =>
          view = KeysOf(sheet)
    /\ pc = "release" /\ err # "transient" => view = KeysOf(sheet)

\* From the projection on the drain knows the key of its row.
Projected == pc \in {"rate", "insert", "fill", "reread", "read", "write", "clear"}

\* The row in hand has the key of the expense, or its place is the one of that key.
Placed ==
    /\ Projected => target \in Keys
    /\ pc \in {"insert", "fill"} =>
          \A i \in 1..Len(sheet) :
              sheet[i].key > 0 => IF i < row THEN sheet[i].key < target ELSE sheet[i].key > target
    /\ pc \in {"reread", "read", "write"} => sheet[row].key = target

\* Expenses keep the key they had, and only stored ones are ever in the sheet.
Keyed ==
    /\ \A e \in Expenses : Live(e) => expense[e].key \in Keys
    /\ \A e \in Expenses : InSheet(e) => expense[e].state # "absent"
    /\ Projected => /\ expense[cur].state # "absent"
                    /\ Live(cur) => expense[cur].key = target

OrderInv == Placed /\ Keyed /\ RowsInOrder /\ RightRow

LEMMA KeysOfRows ==
    ASSUME NEW s \in Seq(SheetRow)
    PROVE  /\ Len(KeysOf(s)) = Len(s)
           /\ \A n \in 1..Len(s) : KeysOf(s)[n] = s[n].key
BY DEF KeysOf

\* The fields of a row that a request writes.
LEMMA RowFields ==
    /\ \A k : EmptyRow(k).key = k /\ EmptyRow(k).marker = 0
    /\ \A k : \A e \in Expenses : EmptyRow(k).times[e] = 0
    /\ BlankRow.key = 0 /\ \A e \in Expenses : BlankRow.times[e] = 0
    /\ \A r \in SheetRow, e \in Expenses :
          /\ Plus(r, e).key = r.key /\ Plus(r, e).marker = e
          /\ \A q \in Expenses : q # e => Plus(r, e).times[q] = r.times[q]
          /\ Plus(r, e).times[e] = IF r.times[e] < 2 THEN r.times[e] + 1 ELSE r.times[e]
<1>1. /\ \A k : EmptyRow(k).key = k /\ EmptyRow(k).marker = 0
      /\ \A k : \A e \in Expenses : EmptyRow(k).times[e] = 0
  BY DEF EmptyRow
<1>2. BlankRow.key = 0 /\ \A e \in Expenses : BlankRow.times[e] = 0
  BY DEF BlankRow, EmptyRow
<1>3. ASSUME NEW r \in SheetRow, NEW e \in Expenses
      PROVE  /\ Plus(r, e).key = r.key /\ Plus(r, e).marker = e
             /\ \A q \in Expenses : q # e => Plus(r, e).times[q] = r.times[q]
             /\ Plus(r, e).times[e] = IF r.times[e] < 2 THEN r.times[e] + 1 ELSE r.times[e]
  <2>1. r.times \in [Expenses -> 0..2]
    BY DEF SheetRow
  <2> QED
    BY <2>1 DEF Plus
<1> QED
  BY <1>1, <1>2, <1>3

\* An insertion moves the rows behind its place down by one.
LEMMA Inserted ==
    ASSUME IInv, InsertRow, sheet' # sheet
    PROVE  /\ row \in 1..(Len(sheet) + 1) /\ Len(sheet') = Len(sheet) + 1
           /\ sheet'[row] = BlankRow
           /\ \A i \in 1..Len(sheet') :
                 /\ i < row => i \in 1..Len(sheet) /\ sheet'[i] = sheet[i]
                 /\ i > row => i - 1 \in 1..Len(sheet) /\ sheet'[i] = sheet[i - 1]
<1> DEFINE new == InsertAt(sheet, row, BlankRow)
<1>1. sheet \in Seq(SheetRow) /\ row \in 1..(Len(sheet) + 1) /\ BlankRow \in SheetRow
  BY BlankRowType DEF InsertRow, IInv, TypeOK, Positions
<1>2. /\ Len(new) = Len(sheet) + 1 /\ new[row] = BlankRow
      /\ \A i \in 1..(row - 1) : new[i] = sheet[i]
      /\ \A i \in row..Len(sheet) : new[i + 1] = sheet[i]
  BY <1>1, InsertAtFacts
<1>3. sheet' = new
  BY DEF InsertRow, Request
<1> HIDE DEF new
<1>4. ASSUME NEW i \in 1..Len(sheet'), i < row
      PROVE  i \in 1..Len(sheet) /\ sheet'[i] = sheet[i]
  BY <1>1, <1>2, <1>3, <1>4
<1>5. ASSUME NEW i \in 1..Len(sheet'), i > row
      PROVE  i - 1 \in 1..Len(sheet) /\ sheet'[i] = sheet[i - 1]
  <2>1. i - 1 \in row..Len(sheet) /\ (i - 1) + 1 = i
    BY <1>1, <1>2, <1>3, <1>5
  <2>2. new[(i - 1) + 1] = sheet[i - 1]
    BY <1>2, <2>1
  <2> QED
    BY <1>1, <1>3, <2>1, <2>2
<1> QED
  BY <1>1, <1>2, <1>3, <1>4, <1>5

\* The other requests replace the row in hand.
LEMMA Replaced ==
    ASSUME IInv, FillRow \/ WriteRow, sheet' # sheet
    PROVE  /\ row \in 1..Len(sheet) /\ Len(sheet') = Len(sheet)
           /\ sheet[row] \in SheetRow
           /\ \A i \in 1..Len(sheet) : i # row => sheet'[i] = sheet[i]
           /\ FillRow => sheet[row] = BlankRow /\ sheet'[row] = EmptyRow(target)
           /\ WriteRow => cur \in Expenses /\ sheet'[row] = Plus(sheet[row], cur)
<1>1. row \in 1..Len(sheet) /\ sheet \in Seq(SheetRow)
  BY DEF FillRow, WriteRow, IInv, TypeOK, Positions
<1>2. CASE FillRow
  <2>1. sheet' = [sheet EXCEPT ![row] = EmptyRow(target)] /\ sheet[row] = BlankRow
        /\ ~WriteRow
    BY <1>2 DEF FillRow, WriteRow, Request, IInv, Positions
  <2> QED
    BY <1>1, <1>2, <2>1
<1>3. CASE WriteRow
  <2>1. sheet' = [sheet EXCEPT ![row] = Plus(sheet[row], cur)] /\ cur \in Expenses
        /\ ~FillRow
    BY <1>3 DEF FillRow, WriteRow, Request, Appended, IInv, TypeOK, Working
  <2> QED
    BY <1>1, <1>3, <2>1
<1> QED
  BY <1>2, <1>3

\* Which steps change the sheet.
LEMMA SheetChanges ==
    ASSUME [Next]_vars
    PROVE  sheet' = sheet \/ InsertRow \/ FillRow \/ WriteRow
BY DEF Next, Create, DeleteReceipt, DeleteManual, ClaimAges, Remap, Requeue, BackoffOver,
       DrainStep, Crash, StartSweep, OpenSheetView, SweepDone, ClaimJob, Resolve, Rate, Reread,
       ReadMarker, ClearJob, Release, Poison, Restart, vars

\* What users, the operator and the clock do is not seen by the drain.
OutsideMove ==
    \/ \E e \in Expenses : Create(e) \/ DeleteReceipt(e) \/ DeleteManual(e) \/ ClaimAges(e)
    \/ \E e \in Expenses, k \in Keys : Remap(e, k)
    \/ Requeue \/ BackoffOver \/ UNCHANGED vars

LEMMA OutsideMoves == OutsideMove => UNCHANGED <<sheet, memory, pc>>
BY DEF OutsideMove, Create, DeleteReceipt, DeleteManual, ClaimAges, Remap, Requeue, BackoffOver,
       vars, memory

\* The snapshot is renewed after every insertion that the sweep survives.
LEMMA ViewStep ==
    ASSUME "permanent" \notin Faults, IInv, ViewCurrent, [Next]_vars
    PROVE  ViewCurrent'
<1>0. sheet \in Seq(SheetRow) /\ ~May("permanent")
  BY DEF IInv, TypeOK, May
<1>1. CASE OutsideMove
  BY <1>1, OutsideMoves DEF ViewCurrent, memory
<1>2. CASE StartSweep \/ Restart \/ Crash \/ SweepDone
  BY <1>2 DEF StartSweep, Restart, Crash, SweepDone, EndSweep, ViewCurrent
<1>3. CASE OpenSheetView
  BY <1>3 DEF OpenSheetView, EndSweep, ViewCurrent
<1>4. CASE ClaimJob \/ Resolve \/ Rate
  BY <1>4 DEF ClaimJob, Resolve, Rate, Finish, Fail, ViewCurrent
<1>5. CASE InsertRow \/ FillRow
  BY <1>0, <1>5 DEF InsertRow, FillRow, Request, Fail, ViewCurrent
<1>6. CASE Reread
  BY <1>0, <1>6 DEF Reread, Refreshed, Fail, ViewCurrent
<1>7. CASE ReadMarker
  BY <1>0, <1>7 DEF ReadMarker, Fail, ViewCurrent, memory
<1>8. CASE WriteRow
  <2>1. CASE sheet' = sheet
    BY <1>0, <1>8, <2>1 DEF WriteRow, Request, Fail, ViewCurrent
  <2>2. CASE sheet' # sheet
    <3>1. Len(sheet') = Len(sheet) /\ \A i \in 1..Len(sheet) : sheet'[i].key = sheet[i].key
      BY <1>8, <2>2, Replaced, RowFields
    <3>2. KeysOf(sheet') = KeysOf(sheet)
      BY <3>1 DEF KeysOf
    <3> QED
      BY <1>0, <1>8, <3>2 DEF WriteRow, Request, Fail, ViewCurrent
  <2> QED
    BY <2>1, <2>2
<1>9. CASE ClearJob \/ Release \/ Poison
  BY <1>9 DEF ClearJob, Release, Poison, Finish, Fail, Halt, EndSweep, ViewCurrent, memory
<1> QED
  BY <1>1, <1>2, <1>3, <1>4, <1>5, <1>6, <1>7, <1>8, <1>9 DEF Next, DrainStep, OutsideMove

\* _SheetView: between two jobs of a sweep the snapshot shows the rows as they are, as
\* long as no request is refused for good.
THEOREM SnapshotStaysCurrent ==
    ASSUME "permanent" \notin Faults
    PROVE  Spec => []SnapshotCurrent
<1>1. Init => ViewCurrent
  BY DEF Init, ViewCurrent
<1>2. IInv /\ ViewCurrent /\ [Next]_vars => ViewCurrent'
  BY ViewStep
<1>3. ViewCurrent => SnapshotCurrent
  BY DEF ViewCurrent, SnapshotCurrent
<1> QED
  BY <1>1, <1>2, <1>3, InitIInv, NextIInv, PTL DEF Spec

\* Months follow each other as the ranks of their rows do.
LEMMA MonthsInOrder ==
    ASSUME NEW j \in Keys, NEW k \in Keys, j <= k
    PROVE  Month(j) \in Int /\ Month(k) \in Int /\ Month(j) <= Month(k)
<1>1. ASSUME NEW P \in Nat \ {0}, NEW a \in Nat, NEW b \in Nat, a <= b
      PROVE  (a \div P) \in Int /\ (b \div P) \in Int /\ (a \div P) <= (b \div P)
  BY <1>1
<1>2. /\ PerMonth \in Nat \ {0}
      /\ j + PerMonth - 1 \in Nat /\ k + PerMonth - 1 \in Nat
      /\ j + PerMonth - 1 <= k + PerMonth - 1
  BY BoundsAssumption DEF Keys
<1> QED
  BY <1>1, <1>2 DEF Month

\* The place of a missing row is behind all rows with smaller keys and before all with
\* greater ones: _find_insertion_row, month by month, finds it.
LEMMA PlaceSplits ==
    ASSUME TypeOK, NEW k \in Keys, RowsOf(k) = {}, NEW n \in PlaceFor(k),
           \A i, j \in Filled : i < j => view[i] < view[j]
    PROVE  \A i \in Filled : IF i < n THEN view[i] < k ELSE view[i] > k
<1>0. /\ Len(view) \in Nat /\ k \in Int /\ Filled \subseteq 1..Len(view)
      /\ \A i \in Filled : i \in Int /\ view[i] \in Int /\ view[i] \in Keys /\ view[i] # k
  BY BoundsAssumption DEF TypeOK, Filled, RowsOf, Keys
<1>1. /\ Block(k) \subseteq Filled
      /\ \A i \in Filled : i \in Block(k) <=> Month(view[i]) = Month(k)
  BY DEF Block
<1>2. ASSUME NEW i \in Filled, NEW j \in Block(k),
             (view[i] < k /\ view[j] <= view[i]) \/ (view[i] > k /\ view[j] >= view[i])
      PROVE  i \in Block(k)
  <2>1. /\ Month(view[j]) = Month(k) /\ j \in Filled
        /\ view[i] \in Keys /\ view[j] \in Keys
        /\ view[i] \in Int /\ view[j] \in Int
    BY <1>0, <1>1
  <2>2. /\ Month(view[i]) \in Int /\ Month(k) \in Int
        /\ Month(view[i]) <= Month(k) /\ Month(k) <= Month(view[i])
    <3>1. CASE view[i] < k /\ view[j] <= view[i]
      <4>1. view[i] <= k
        BY <1>0, <2>1, <3>1
      <4> QED
        BY <2>1, <3>1, <4>1, MonthsInOrder
    <3>2. CASE view[i] > k /\ view[j] >= view[i]
      <4>1. k <= view[i] /\ view[i] <= view[j]
        BY <1>0, <2>1, <3>2
      <4> QED
        BY <2>1, <4>1, MonthsInOrder
    <3> QED
      BY <1>2, <3>1, <3>2
  <2> QED
    BY <1>1, <2>2
<1>3. CASE Behind(k) # {}
  <2>1. n \in Behind(k) /\ \A j \in Behind(k) : n <= j
    BY <1>3 DEF PlaceFor, First
  <2>2. n \in Filled /\ view[n] > k /\ n \in Int /\ view[n] \in Int
    BY <1>0, <1>1, <2>1 DEF Behind
  <2>3. ASSUME NEW i \in Filled, i < n PROVE view[i] < k
    <3>0. i \in Int /\ view[i] \in Int /\ view[i] # k
      BY <1>0
    <3>1. SUFFICES ASSUME view[i] > k PROVE FALSE
      BY <1>0, <3>0
    <3>2. view[i] < view[n]
      BY <2>2, <2>3
    <3>3. i \notin Behind(k)
      BY <2>1, <2>2, <2>3, <3>0
    <3>4. CASE Block(k) = {}
      BY <3>1, <3>3, <3>4 DEF Behind
    <3>5. CASE Block(k) # {}
      <4>1. n \in Block(k)
        BY <2>1, <3>5 DEF Behind
      <4>2. view[n] >= view[i]
        BY <2>2, <3>0, <3>2
      <4>3. i \in Block(k)
        BY <1>2, <3>1, <4>1, <4>2
      <4> QED
        BY <3>1, <3>3, <3>5, <4>3 DEF Behind
    <3> QED
      BY <3>4, <3>5
  <2>4. ASSUME NEW i \in Filled, ~(i < n) PROVE view[i] > k
    <3>0. i \in Int /\ view[i] \in Int
      BY <1>0
    <3>1. CASE i = n
      BY <2>2, <3>1
    <3>2. CASE i # n
      <4>1. n < i
        BY <2>2, <2>4, <3>0, <3>2
      <4>2. view[n] < view[i]
        BY <2>2, <4>1
      <4> QED
        BY <1>0, <2>2, <3>0, <4>2
    <3> QED
      BY <3>1, <3>2
  <2> QED
    BY <2>3, <2>4
<1>4. CASE Behind(k) = {} /\ Block(k) # {}
  <2>1. /\ n \in 1..(Len(view) + 1) /\ (n = 1 \/ n - 1 \in Block(k))
        /\ \A j \in Block(k) : j < n
    BY <1>4 DEF PlaceFor, AfterLast
  <2>2. /\ n \in Int /\ n - 1 \in Block(k) /\ n - 1 \in Filled
        /\ view[n - 1] \in Int /\ view[n - 1] # k
    <3>1. PICK j \in Block(k) : TRUE
      BY <1>4
    <3>2. j \in 1..Len(view) /\ j < n
      BY <1>0, <1>1, <2>1
    <3>3. n \in Int /\ n # 1
      BY <1>0, <2>1, <3>2
    <3> QED
      BY <1>0, <1>1, <2>1, <3>3
  <2>3. ~(view[n - 1] > k)
    BY <1>4, <2>2 DEF Behind
  <2>4. ASSUME NEW i \in Filled, i < n PROVE view[i] < k
    <3>0. i \in Int /\ view[i] \in Int
      BY <1>0
    <3>1. CASE i = n - 1
      BY <1>0, <2>2, <2>3, <3>1
    <3>2. CASE i # n - 1
      <4>1. i < n - 1
        BY <2>2, <2>4, <3>0, <3>2
      <4>2. view[i] < view[n - 1]
        BY <2>2, <4>1
      <4> QED
        BY <1>0, <2>2, <2>3, <3>0, <4>2
    <3> QED
      BY <3>1, <3>2
  <2>5. ASSUME NEW i \in Filled, ~(i < n) PROVE view[i] > k
    <3>0. i \in Int /\ view[i] \in Int /\ view[i] # k
      BY <1>0
    <3>1. n - 1 < i
      BY <2>2, <2>5, <3>0
    <3>2. view[n - 1] < view[i]
      BY <2>2, <3>1
    <3>3. i \notin Block(k)
      BY <2>1, <2>5
    <3>4. ~(view[i] < k /\ view[n - 1] <= view[i])
      BY <1>2, <2>2, <3>3
    <3> QED
      BY <1>0, <2>2, <3>0, <3>2, <3>4
  <2> QED
    BY <2>4, <2>5
<1>5. CASE Behind(k) = {} /\ Block(k) = {}
  <2>1. \A j \in Filled : j < n
    BY <1>5 DEF PlaceFor, AfterLast
  <2>2. \A j \in Filled : ~(view[j] > k)
    BY <1>5 DEF Behind
  <2>3. ASSUME NEW j \in Filled PROVE j < n /\ view[j] < k
    BY <1>0, <2>1, <2>2
  <2> QED
    BY <2>3
<1> QED
  BY <1>3, <1>4, <1>5

\* What a step may do to the expenses: they keep their key, and no one disappears.
LEMMA KeysKept ==
    ASSUME "remap" \notin Faults, IInv, [Next]_vars, NEW e \in Expenses
    PROVE  /\ expense[e].state # "absent" => expense'[e].state # "absent"
           /\ Live(e)' => \/ Live(e) /\ expense'[e].key = expense[e].key
                          \/ expense[e].state = "absent" /\ expense'[e].key \in Keys
<1>0. expense \in [Expenses -> ExpenseRow]
  BY DEF IInv, TypeOK
<1>1. ASSUME NEW x \in Expenses, Create(x) \/ DeleteReceipt(x) \/ DeleteManual(x)
      PROVE  /\ expense[e].state # "absent" => expense'[e].state # "absent"
             /\ Live(e)' => \/ Live(e) /\ expense'[e].key = expense[e].key
                            \/ expense[e].state = "absent" /\ expense'[e].key \in Keys
  <2>1. CASE x # e
    <3>1. expense'[e] = expense[e]
      BY <1>0, <1>1, <2>1 DEF Create, DeleteReceipt, DeleteManual
    <3> QED
      BY <3>1 DEF Live
  <2>2. CASE x = e
    <3>1. CASE Create(x)
      BY <1>0, <2>2, <3>1 DEF Create
    <3>2. CASE DeleteReceipt(x)
      BY <1>0, <2>2, <3>2 DEF DeleteReceipt, NoExpense, Live
    <3>3. CASE DeleteManual(x)
      <4>1. \/ expense'[e] = NoExpense("deleted")
            \/ expense'[e] = [expense[e] EXCEPT !.tags = FALSE]
        BY <1>0, <2>2, <3>3 DEF DeleteManual
      <4>2. expense[e] \in ExpenseRow
        BY <1>0
      <4> QED
        BY <4>1, <4>2 DEF NoExpense, Live, ExpenseRow
    <3> QED
      BY <1>1, <3>1, <3>2, <3>3
  <2> QED
    BY <2>1, <2>2
<1>2. CASE UNCHANGED expense
  BY <1>2 DEF Live
<1> QED
  BY <1>1, <1>2 DEF Next, ClaimAges, Remap, Requeue, BackoffOver, DrainStep, Crash, StartSweep,
       OpenSheetView, SweepDone, ClaimJob, Resolve, Rate, InsertRow, FillRow, WriteRow, Reread,
       ReadMarker, ClearJob, Release, Poison, Restart, vars

\* A step that adds an expense to no row, or only the projected one to its own row, and
\* keeps the keys in order keeps every expense in its row.
LEMMA RowsKeptRight ==
    ASSUME "remap" \notin Faults, IInv, [Next]_vars, Keyed, RightRow,
           \A i \in 1..Len(sheet'), e \in Expenses :
               sheet'[i].times[e] > 0 =>
                   \/ \E j \in 1..Len(sheet) :
                         sheet[j].times[e] > 0 /\ sheet[j].key = sheet'[i].key
                   \/ Projected /\ e = cur /\ sheet'[i].key = target
    PROVE  /\ RightRow'
           /\ \A e \in Expenses : /\ Live(e)' => expense'[e].key \in Keys
                                  /\ InSheet(e)' => expense'[e].state # "absent"
<1>1. ASSUME NEW i \in 1..Len(sheet'), NEW e \in Expenses, sheet'[i].times[e] > 0
      PROVE  expense'[e].state # "absent" /\ (Live(e)' => sheet'[i].key = expense'[e].key)
  <2>1. expense[e].state # "absent" /\ (Live(e) => sheet'[i].key = expense[e].key)
    BY <1>1 DEF Keyed, RightRow, InSheet
  <2> QED
    BY <2>1, KeysKept
<1>2. \A e \in Expenses : Live(e)' => expense'[e].key \in Keys
  BY KeysKept DEF Keyed
<1> QED
  BY <1>1, <1>2 DEF RightRow, InSheet

\* As long as the sheet stays, the place of the row in hand stays what it is; the
\* projection takes the key from the expense, the lookup the place from the snapshot.
LEMMA PlacedSameSheet ==
    ASSUME "permanent" \notin Faults, "remap" \notin Faults, IInv, ViewCurrent, OrderInv,
           [Next]_vars, UNCHANGED sheet
    PROVE  Placed' /\ (Projected => cur \in Expenses)
           /\ (Projected' => \/ Projected /\ cur' = cur /\ target' = target
                             \/ cur' = cur /\ Live(cur) /\ target' = expense[cur].key
                                /\ UNCHANGED expense)
<1>0. /\ ~May("permanent") /\ sheet \in Seq(SheetRow)
      /\ Projected => cur \in Expenses
      /\ pc = "resolve" => cur \in Expenses
  BY DEF IInv, TypeOK, May, Projected, Working
<1>1. CASE OutsideMove
  BY <1>0, <1>1, OutsideMoves DEF OrderInv, Placed, Projected, memory
<1>2. CASE StartSweep \/ Restart \/ Crash \/ SweepDone \/ OpenSheetView \/ ClaimJob
  <2>1. pc' \notin {"rate", "insert", "fill", "reread", "read", "write", "clear"}
    BY <1>2 DEF StartSweep, Restart, Crash, SweepDone, OpenSheetView, ClaimJob, EndSweep
  <2> QED
    BY <1>0, <2>1 DEF Placed, Projected
<1>3. CASE ClearJob \/ Release \/ Poison
  <2>1. pc' \notin {"rate", "insert", "fill", "reread", "read", "write", "clear"}
    BY <1>3 DEF ClearJob, Release, Poison, Finish, Fail, Halt, EndSweep
  <2> QED
    BY <1>0, <2>1 DEF Placed, Projected
<1>4. CASE Resolve
  <2>1. CASE pc' = "rate"
    <3>1. Live(cur) /\ target' = expense[cur].key /\ cur' = cur /\ expense' = expense
      BY <1>4, <2>1 DEF Resolve, Finish, Fail
    <3>2. target' \in Keys
      BY <1>0, <1>4, <3>1 DEF OrderInv, Keyed, Resolve
    <3> QED
      BY <1>0, <2>1, <3>1, <3>2 DEF Placed, Projected
  <2>2. CASE pc' # "rate"
    <3>1. pc' \in {"next", "release"}
      BY <1>4, <2>2 DEF Resolve, Finish, Fail
    <3> QED
      BY <1>0, <3>1 DEF Placed, Projected
  <2> QED
    BY <2>1, <2>2
<1>5. CASE Rate
  <2>0. /\ pc = "rate" /\ target \in Keys /\ view = KeysOf(sheet)
        /\ cur \in Expenses /\ Projected
    BY <1>0, <1>5 DEF Rate, OrderInv, Placed, Projected, ViewCurrent
  <2>1. CASE pc' = "read"
    <3>1. row' \in RowsOf(target) /\ target' = target /\ cur' = cur
      BY <1>5, <2>1 DEF Rate, First, Fail
    <3>2. row' \in 1..Len(view) /\ view[row'] = target
      BY <3>1 DEF RowsOf
    <3>3. sheet'[row'].key = target
      BY <1>0, <2>0, <3>2, KeysOfRows
    <3> QED
      BY <2>0, <2>1, <3>1, <3>3 DEF Placed, Projected
  <2>2. CASE pc' = "insert"
    <3>1. row' \in PlaceFor(target) /\ RowsOf(target) = {} /\ target' = target /\ cur' = cur
      BY <1>5, <2>2 DEF Rate, Fail
    <3>2. Len(view) = Len(sheet) /\ \A i \in 1..Len(sheet) : view[i] = sheet[i].key
      BY <1>0, <2>0, KeysOfRows
    <3>3. \A i, j \in Filled : i < j => view[i] < view[j]
      BY <3>2 DEF OrderInv, RowsInOrder, Filled
    <3>4. \A i \in Filled : IF i < row' THEN view[i] < target ELSE view[i] > target
      BY <2>0, <3>1, <3>3, PlaceSplits DEF IInv
    <3>5. \A i \in 1..Len(sheet) : sheet[i].key > 0 =>
             IF i < row' THEN sheet[i].key < target ELSE sheet[i].key > target
      BY <3>2, <3>4 DEF Filled
    <3> QED
      BY <2>0, <2>2, <3>1, <3>5 DEF Placed, Projected
  <2>3. CASE pc' \notin {"read", "insert"}
    <3>1. pc' = "release"
      BY <1>5, <2>3 DEF Rate, Fail
    <3> QED
      BY <2>0, <3>1 DEF Placed, Projected
  <2> QED
    BY <2>1, <2>2, <2>3
<1>6. CASE InsertRow \/ FillRow \/ WriteRow
  <2>1. /\ pc \in {"insert", "fill", "write"}
        /\ cur' = cur /\ target' = target /\ row' = row
        /\ \/ pc' = "release"
           \/ pc = "insert" /\ pc' = "fill" /\ sheet' = InsertAt(sheet, row, BlankRow)
           \/ pc = "fill" /\ pc' = "reread" /\ sheet' = [sheet EXCEPT ![row] = EmptyRow(target)]
           \/ pc = "write" /\ pc' = "clear"
    BY <1>0, <1>6 DEF InsertRow, FillRow, WriteRow, Request, Fail
  <2>2. Projected
    BY <2>1 DEF Projected
  <2>3. CASE pc = "fill" /\ pc' = "reread" /\ sheet' = [sheet EXCEPT ![row] = EmptyRow(target)]
    <3>1. row \in 1..Len(sheet)
      BY <2>3 DEF IInv, Positions
    <3>2. sheet'[row] = EmptyRow(target)
      BY <1>0, <2>3, <3>1
    <3> QED
      BY <1>0, <2>1, <2>2, <2>3, <3>2, RowFields DEF OrderInv, Placed, Projected
  <2>4. CASE pc' # "reread"
    <3>1. \/ pc' = "release"
          \/ pc = "insert" /\ pc' = "fill"
          \/ pc' = "clear"
      BY <2>1, <2>4
    <3> QED
      BY <1>0, <2>1, <2>2, <3>1 DEF OrderInv, Placed, Projected
  <2> QED
    BY <2>1, <2>3, <2>4
<1>7. CASE Reread \/ ReadMarker
  <2>1. /\ cur' = cur /\ target' = target /\ row' = row
        /\ pc \in {"reread", "read"} /\ pc' \in {"read", "write", "clear", "release"}
    BY <1>0, <1>7 DEF Reread, ReadMarker, Fail, memory
  <2> QED
    BY <1>0, <2>1 DEF OrderInv, Placed, Projected
<1> QED
  BY <1>1, <1>2, <1>3, <1>4, <1>5, <1>6, <1>7 DEF Next, DrainStep, OutsideMove

LEMMA OrderStep ==
    ASSUME "permanent" \notin Faults, "remap" \notin Faults, IInv, ViewCurrent, OrderInv,
           [Next]_vars
    PROVE  OrderInv'
<1>0. /\ sheet \in Seq(SheetRow) /\ Len(sheet) \in Nat /\ Len(sheet') \in Nat
      /\ Keyed /\ RightRow /\ RowsInOrder /\ Placed
      /\ \A i \in 1..Len(sheet) : sheet[i] \in SheetRow /\ sheet[i].key \in Int
  <2>1. IInv'
    BY NextIInv
  <2>2. \A i \in 1..Len(sheet) : sheet[i] \in SheetRow
    BY DEF IInv, TypeOK
  <2>3. \A i \in 1..Len(sheet) : sheet[i].key \in Int
    BY <2>2, BoundsAssumption DEF SheetRow
  <2> QED
    BY <2>1, <2>2, <2>3 DEF IInv, TypeOK, OrderInv
<1>1. CASE UNCHANGED sheet
  <2>1. /\ Placed' /\ (Projected => cur \in Expenses)
        /\ (Projected' => \/ Projected /\ cur' = cur /\ target' = target
                          \/ cur' = cur /\ Live(cur) /\ target' = expense[cur].key
                             /\ UNCHANGED expense)
    BY <1>1, PlacedSameSheet
  <2>2. /\ RightRow'
        /\ \A e \in Expenses : /\ Live(e)' => expense'[e].key \in Keys
                               /\ InSheet(e)' => expense'[e].state # "absent"
    BY <1>0, <1>1, RowsKeptRight
  <2>3. Projected' => /\ expense'[cur'].state # "absent"
                      /\ Live(cur)' => expense'[cur'].key = target'
    <3>1. SUFFICES ASSUME Projected' PROVE /\ expense'[cur'].state # "absent"
                                           /\ Live(cur)' => expense'[cur'].key = target'
      OBVIOUS
    <3>2. CASE Projected /\ cur' = cur /\ target' = target
      BY <1>0, <2>1, <3>2, KeysKept DEF Keyed, Live
    <3>3. CASE cur' = cur /\ Live(cur) /\ target' = expense[cur].key /\ UNCHANGED expense
      BY <3>3 DEF Live
    <3> QED
      BY <2>1, <3>1, <3>2, <3>3
  <2>4. RowsInOrder'
    BY <1>0, <1>1 DEF RowsInOrder
  <2> QED
    BY <2>1, <2>2, <2>3, <2>4 DEF OrderInv, Keyed
<1>2. CASE InsertRow /\ sheet' # sheet
  <2>1. /\ row \in 1..(Len(sheet) + 1) /\ Len(sheet') = Len(sheet) + 1
        /\ sheet'[row] = BlankRow
        /\ \A i \in 1..Len(sheet') :
              /\ i < row => i \in 1..Len(sheet) /\ sheet'[i] = sheet[i]
              /\ i > row => i - 1 \in 1..Len(sheet) /\ sheet'[i] = sheet[i - 1]
    BY <1>2, Inserted
  <2>2. /\ pc = "insert" /\ pc' \in {"fill", "release"} /\ row' = row
        /\ cur' = cur /\ target' = target /\ UNCHANGED expense /\ Projected
        /\ cur \in Expenses
    BY <1>2 DEF InsertRow, Request, Fail, Projected, IInv, TypeOK, Working
  <2>3. ASSUME NEW i \in 1..Len(sheet'), NEW j \in 1..Len(sheet'), i < j,
               sheet'[i].key > 0, sheet'[j].key > 0
        PROVE  sheet'[i].key < sheet'[j].key
    <3>1. i # row /\ j # row
      BY <2>1, <2>3, RowFields
    <3>2. CASE j < row
      <4>1. i < row
        BY <2>1, <2>3, <3>2
      <4>2. /\ i \in 1..Len(sheet) /\ sheet'[i] = sheet[i]
            /\ j \in 1..Len(sheet) /\ sheet'[j] = sheet[j]
        BY <2>1, <3>2, <4>1
      <4> QED
        BY <1>0, <2>3, <4>2 DEF RowsInOrder
    <3>3. CASE i < row /\ row < j
      <4>1. i < j - 1 \/ i = j - 1
        BY <2>1, <2>3, <3>3
      <4>2. /\ i \in 1..Len(sheet) /\ j - 1 \in 1..Len(sheet)
            /\ sheet'[i] = sheet[i] /\ sheet'[j] = sheet[j - 1]
            /\ ~(j - 1 < row)
        BY <2>1, <3>3
      <4>3. sheet[i].key < target /\ sheet[j - 1].key > target
        BY <1>0, <2>2, <2>3, <3>3, <4>2 DEF Placed
      <4>4. target \in Int /\ sheet[i].key \in Int /\ sheet[j - 1].key \in Int
        BY <1>0, <4>2 DEF IInv, TypeOK
      <4> QED
        BY <4>2, <4>3, <4>4
    <3>4. CASE row < i
      <4>1. i - 1 < j - 1 /\ row < j
        BY <2>1, <2>3, <3>4
      <4>2. /\ i - 1 \in 1..Len(sheet) /\ j - 1 \in 1..Len(sheet)
            /\ sheet'[i] = sheet[i - 1] /\ sheet'[j] = sheet[j - 1]
        BY <2>1, <3>4, <4>1
      <4> QED
        BY <1>0, <2>3, <4>1, <4>2 DEF RowsInOrder
    <3> QED
      BY <2>1, <2>3, <3>1, <3>2, <3>3, <3>4
  <2>4. \A i \in 1..Len(sheet'), e \in Expenses : sheet'[i].times[e] > 0 =>
           \E j \in 1..Len(sheet) : sheet[j].times[e] > 0 /\ sheet[j].key = sheet'[i].key
    <3>1. SUFFICES ASSUME NEW i \in 1..Len(sheet'), NEW e \in Expenses, sheet'[i].times[e] > 0
                   PROVE  \E j \in 1..Len(sheet) :
                             sheet[j].times[e] > 0 /\ sheet[j].key = sheet'[i].key
      OBVIOUS
    <3>2. i # row
      BY <2>1, <3>1, RowFields
    <3> QED
      BY <2>1, <3>1, <3>2
  <2>5. /\ RightRow'
        /\ \A e \in Expenses : /\ Live(e)' => expense'[e].key \in Keys
                               /\ InSheet(e)' => expense'[e].state # "absent"
    BY <1>0, <2>4, RowsKeptRight
  <2>6. \A i \in 1..Len(sheet') : sheet'[i].key > 0 =>
           IF i < row THEN sheet'[i].key < target ELSE sheet'[i].key > target
    <3>1. SUFFICES ASSUME NEW i \in 1..Len(sheet'), sheet'[i].key > 0
                   PROVE  IF i < row THEN sheet'[i].key < target ELSE sheet'[i].key > target
      OBVIOUS
    <3>2. i # row
      BY <2>1, <3>1, RowFields
    <3>3. CASE i < row
      BY <1>0, <2>1, <2>2, <3>1, <3>3 DEF Placed
    <3>4. CASE i > row
      <4>1. i - 1 \in 1..Len(sheet) /\ sheet'[i] = sheet[i - 1] /\ ~(i - 1 < row) /\ ~(i < row)
        BY <2>1, <3>4
      <4> QED
        BY <1>0, <2>2, <3>1, <4>1 DEF Placed
    <3> QED
      BY <2>1, <3>2, <3>3, <3>4
  <2> QED
    BY <1>0, <2>2, <2>3, <2>5, <2>6
    DEF OrderInv, Placed, Keyed, RowsInOrder, Projected, Live
<1>3. CASE FillRow /\ sheet' # sheet
  <2>1. /\ row \in 1..Len(sheet) /\ Len(sheet') = Len(sheet)
        /\ \A i \in 1..Len(sheet) : i # row => sheet'[i] = sheet[i]
        /\ sheet'[row] = EmptyRow(target) /\ sheet[row] = BlankRow
    BY <1>3, Replaced
  <2>2. /\ pc = "fill" /\ pc' \in {"reread", "release"} /\ row' = row
        /\ cur' = cur /\ target' = target /\ UNCHANGED expense /\ Projected
        /\ cur \in Expenses /\ target \in Keys
    BY <1>0, <1>3 DEF FillRow, Request, Fail, Projected, IInv, TypeOK, Working, Placed
  <2>3. ASSUME NEW i \in 1..Len(sheet), NEW j \in 1..Len(sheet), i < j,
               sheet'[i].key > 0, sheet'[j].key > 0
        PROVE  sheet'[i].key < sheet'[j].key
    <3>1. CASE i # row /\ j # row
      BY <1>0, <2>1, <2>3, <3>1 DEF RowsInOrder
    <3>2. CASE i = row
      <4>1. sheet'[i].key = target /\ sheet'[j] = sheet[j] /\ ~(j < row)
        BY <2>1, <2>3, <3>2, RowFields
      <4> QED
        BY <1>0, <2>2, <2>3, <4>1 DEF Placed, Keys
    <3>3. CASE j = row
      <4>1. sheet'[j].key = target /\ sheet'[i] = sheet[i] /\ i < row
        BY <2>1, <2>3, <3>3, RowFields
      <4> QED
        BY <1>0, <2>2, <2>3, <4>1 DEF Placed, Keys
    <3> QED
      BY <3>1, <3>2, <3>3
  <2>4. \A i \in 1..Len(sheet'), e \in Expenses : sheet'[i].times[e] > 0 =>
           \E j \in 1..Len(sheet) : sheet[j].times[e] > 0 /\ sheet[j].key = sheet'[i].key
    <3>1. ASSUME NEW i \in 1..Len(sheet), NEW e \in Expenses, sheet'[i].times[e] > 0
          PROVE  sheet[i].times[e] > 0 /\ sheet[i].key = sheet'[i].key
      <4>1. i # row
        BY <2>1, <3>1, RowFields
      <4> QED
        BY <2>1, <3>1, <4>1
    <3> QED
      BY <2>1, <3>1
  <2>5. /\ RightRow'
        /\ \A e \in Expenses : /\ Live(e)' => expense'[e].key \in Keys
                               /\ InSheet(e)' => expense'[e].state # "absent"
    BY <1>0, <2>4, RowsKeptRight
  <2>6. sheet'[row].key = target
    BY <2>1, RowFields
  <2> QED
    BY <1>0, <2>1, <2>2, <2>3, <2>5, <2>6
    DEF OrderInv, Placed, Keyed, RowsInOrder, Projected, Live
<1>4. CASE WriteRow /\ sheet' # sheet
  <2>1. /\ row \in 1..Len(sheet) /\ Len(sheet') = Len(sheet) /\ sheet[row] \in SheetRow
        /\ \A i \in 1..Len(sheet) : i # row => sheet'[i] = sheet[i]
        /\ sheet'[row] = Plus(sheet[row], cur) /\ cur \in Expenses
    BY <1>4, Replaced
  <2>2. /\ pc = "write" /\ pc' \in {"clear", "release"} /\ row' = row
        /\ cur' = cur /\ target' = target /\ UNCHANGED expense /\ Projected
        /\ target \in Keys /\ sheet[row].key = target
    BY <1>0, <1>4 DEF WriteRow, Request, Fail, Projected, Placed
  <2>3. \A i \in 1..Len(sheet) : sheet'[i].key = sheet[i].key
    BY <2>1, RowFields
  <2>4. \A i \in 1..Len(sheet'), e \in Expenses : sheet'[i].times[e] > 0 =>
           \/ \E j \in 1..Len(sheet) :
                 sheet[j].times[e] > 0 /\ sheet[j].key = sheet'[i].key
           \/ Projected /\ e = cur /\ sheet'[i].key = target
    <3>1. SUFFICES ASSUME NEW i \in 1..Len(sheet), NEW e \in Expenses, sheet'[i].times[e] > 0
                   PROVE  \/ \E j \in 1..Len(sheet) :
                                sheet[j].times[e] > 0 /\ sheet[j].key = sheet'[i].key
                          \/ Projected /\ e = cur /\ sheet'[i].key = target
      BY <2>1
    <3>2. CASE i = row /\ e = cur
      BY <2>2, <2>3, <3>2
    <3>3. CASE i # row \/ e # cur
      <4>1. sheet'[i].times[e] = sheet[i].times[e]
        BY <2>1, <3>3, RowFields
      <4> QED
        BY <2>3, <3>1, <4>1
    <3> QED
      BY <3>2, <3>3
  <2>5. /\ RightRow'
        /\ \A e \in Expenses : /\ Live(e)' => expense'[e].key \in Keys
                               /\ InSheet(e)' => expense'[e].state # "absent"
    BY <1>0, <2>4, RowsKeptRight
  <2> QED
    BY <1>0, <2>1, <2>2, <2>3, <2>5
    DEF OrderInv, Placed, Keyed, RowsInOrder, Projected, Live
<1> QED
  BY <1>1, <1>2, <1>3, <1>4, SheetChanges

\* ensure_category_row and _append_row_to_sheet: one row per month, category and group,
\* in order, and every expense in its own, while no request is refused for good and no
\* expense changes its row.
THEOREM RowsOrdered ==
    ASSUME "permanent" \notin Faults, "remap" \notin Faults
    PROVE  Spec => []SheetInOrder
<1>1. Init => ViewCurrent /\ OrderInv
  BY DEF Init, ViewCurrent, OrderInv, Placed, Keyed, Projected, Live, InSheet, RowsInOrder,
         RightRow, NoExpense
<1>2. IInv /\ ViewCurrent /\ OrderInv /\ [Next]_vars => ViewCurrent' /\ OrderInv'
  BY ViewStep, OrderStep
<1>3. OrderInv => SheetInOrder
  BY DEF OrderInv, SheetInOrder
<1> QED
  BY <1>1, <1>2, <1>3, InitIInv, NextIInv, PTL DEF Spec
-----------------------------------------------------------------------------
(* Once: the queue is worked off in the order of the ids, and the one append whose
   answer was lost halts the sweep, so column J still names that expense when its turn
   comes again.  A crash, a locked database or a failed rate lookup in between breaks
   the order, as a refused request and a changed category do. *)

OnlyLostAnswers ==
    /\ Faults \cap {"permanent", "norate", "locked", "remap"} = {}
    /\ MaxCrashes = 0

\* An expense is open while it has a job or is in hand.
Open(e) == job[e].status # "none" \/ (Working /\ cur = e)

\* Ids are given in order, and only stored expenses are drained.
IdsInOrder ==
    /\ \A p, q \in Expenses : p < q /\ expense[p].state = "absent" => expense[q].state = "absent"
    /\ \A e \in Expenses : Open(e) \/ e \in todo => expense[e].state # "absent"

\* A job is in progress only while it is in hand, and none is poisoned.
Sound(e) ==
    \/ job[e].status \in {"none", "pending"}
    \/ job[e].status = "in_progress" /\ Working /\ cur = e
OneInProgress == \A e \in Expenses : Sound(e)

\* The sweep goes through the queue in the order of the ids and skips only expenses
\* without a rate.
InTurn(q) ==
    \/ q \in todo \/ (Working /\ q = cur)
    \/ (\A x \in todo : x < q) /\ (Working => cur < q)
SweepOrder ==
    /\ Working => \A x \in todo : cur < x
    /\ pc \notin {"down", "wait"} => \A q \in Expenses \ Unrated : Open(q) => InTurn(q)
    /\ pc \in {"insert", "fill", "reread", "read", "write", "clear"} => cur \notin Unrated
    /\ err = "norate" => pc = "release" /\ cur \in Unrated
    /\ pc # "poison" /\ err # "permanent"

\* An expense that is in the sheet and still open is the first one in the queue, and
\* column J of its row names it.
OpenIsFirst ==
    \A e \in Expenses :
        InSheet(e) =>
            /\ e \notin Unrated
            /\ Open(e) =>
                  /\ \A q \in Expenses \ Unrated : q < e => ~Open(q)
                  /\ \A i \in 1..Len(sheet) : sheet[i].times[e] > 0 => sheet[i].marker = e

\* What the marker decides: an expense about to be written is not in the sheet, and
\* if it is, then in its own row.
NotYetWritten ==
    /\ Projected => \A i \in 1..Len(sheet) : sheet[i].times[cur] > 0 => sheet[i].key = target
    /\ pc = "write" => ~InSheet(cur)

OnceInv == IdsInOrder /\ OneInProgress /\ SweepOrder /\ OpenIsFirst /\ NotYetWritten /\ LoggedOnce

\* The failures that are left: a request that is not carried out, or whose answer is lost.
LEMMA FaultsLeft ==
    ASSUME OnlyLostAnswers, IInv
    PROVE  /\ ~May("permanent") /\ ~May("norate") /\ ~May("locked")
           /\ \A e \in Expenses, k \in Keys : ~Remap(e, k)
           /\ ~Crash
BY DEF OnlyLostAnswers, May, Remap, Crash, IInv, TypeOK

\* Nobody requeues or ages a job: there is no poisoned or orphaned one.
LEMMA NoStrayJobs ==
    ASSUME OneInProgress
    PROVE  ~Requeue /\ \A e \in Expenses : ~ClaimAges(e)
BY DEF OneInProgress, Sound, Requeue, ClaimAges

\* Only Create opens an expense, and what is claimed is in hand.
LEMMA OpenStep ==
    ASSUME OnlyLostAnswers, IInv, OneInProgress, SweepOrder, [Next]_vars, NEW q \in Expenses
    PROVE  (Open(q)' => Open(q) \/ Create(q)) /\ Sound(q)'
<1> DEFINE Goal == (Open(q)' => Open(q) \/ Create(q)) /\ Sound(q)'
<1>0. /\ job \in [Expenses -> JobRow] /\ Sound(q) /\ job[q] \in JobRow
      /\ Working => cur \in Expenses
      /\ Job("pending").status = "pending" /\ Job("none").status = "none"
      /\ Job("in_progress").status = "in_progress"
  BY DEF OneInProgress, IInv, TypeOK, Job
<1>1. ASSUME NEW e \in Expenses, Create(e) \/ DeleteReceipt(e) \/ DeleteManual(e)
      PROVE  Goal
  <2>1. UNCHANGED <<pc, cur>>
    BY <1>1 DEF Create, DeleteReceipt, DeleteManual, memory
  <2>2. CASE e # q \/ DeleteManual(e)
    <3>1. job'[q] = job[q]
      BY <1>0, <1>1, <2>2 DEF Create, DeleteReceipt, DeleteManual
    <3> QED
      BY <1>0, <2>1, <3>1 DEF Open, Sound, Working
  <2>3. CASE e = q /\ Create(q)
    <3>1. job'[q] = Job("pending")
      BY <1>0, <2>3 DEF Create
    <3> QED
      BY <1>0, <2>3, <3>1 DEF Sound
  <2>4. CASE e = q /\ DeleteReceipt(q)
    <3>1. job'[q] = Job("none")
      BY <1>0, <2>4 DEF DeleteReceipt
    <3> QED
      BY <1>0, <2>1, <3>1 DEF Open, Sound, Working
  <2> QED
    BY <1>1, <2>2, <2>3, <2>4
<1>2. CASE BackoffOver \/ UNCHANGED vars
  BY <1>0, <1>2 DEF BackoffOver, vars, memory, Open, Sound, Working
<1>3. CASE StartSweep \/ OpenSheetView \/ SweepDone \/ Restart
  BY <1>0, <1>3 DEF StartSweep, OpenSheetView, SweepDone, Restart, EndSweep, Open, Sound, Working
<1>4. CASE Rate \/ InsertRow \/ FillRow \/ Reread \/ ReadMarker \/ WriteRow
  <2>1. Working /\ Working' /\ UNCHANGED <<job, cur>>
    BY <1>0, <1>4 DEF Rate, InsertRow, FillRow, Reread, ReadMarker, WriteRow, Request, Fail,
         memory, Working
  <2> QED
    BY <1>0, <2>1 DEF Open, Sound
<1>5. CASE ClaimJob
  <2>1. PICK e \in todo :
           /\ ~Working
           /\ \/ Claimable(e) /\ job' = [job EXCEPT ![e] = Job("in_progress")] /\ cur' = e
                 /\ pc' = "resolve"
              \/ UNCHANGED <<job, cur, pc>>
    BY <1>5 DEF ClaimJob, Working
  <2>2. CASE UNCHANGED <<job, cur, pc>>
    BY <1>0, <2>1, <2>2 DEF Open, Sound, Working
  <2>3. CASE /\ Claimable(e) /\ job' = [job EXCEPT ![e] = Job("in_progress")] /\ cur' = e
             /\ pc' = "resolve"
    <3>1. e \in Expenses /\ Working'
      BY <2>1, <2>3 DEF IInv, TypeOK, Working
    <3>2. CASE q = e
      <4>1. job'[q] = Job("in_progress")
        BY <1>0, <2>3, <3>1, <3>2
      <4>2. Open(q)
        BY <2>3, <3>2 DEF Claimable, Open
      <4> QED
        BY <1>0, <2>3, <3>1, <3>2, <4>1, <4>2 DEF Sound
    <3>3. CASE q # e
      <4>1. job'[q] = job[q] /\ cur' # q
        BY <1>0, <2>3, <3>1, <3>3
      <4> QED
        BY <1>0, <2>1, <4>1 DEF Open, Sound
    <3> QED
      BY <3>2, <3>3
  <2> QED
    BY <2>1, <2>2, <2>3
<1>6. CASE Resolve \/ ClearJob
  <2>0. Working
    BY <1>6 DEF Resolve, ClearJob, Working
  <2>1. \/ job' = [job EXCEPT ![cur] = Job("none")] /\ ~Working'
        \/ UNCHANGED <<job, cur>> /\ Working'
    BY <1>6, FaultsLeft DEF Resolve, ClearJob, Finish, Working
  <2>2. CASE job' = [job EXCEPT ![cur] = Job("none")] /\ ~Working'
    <3>1. job'[q] = IF q = cur THEN Job("none") ELSE job[q]
      BY <1>0, <2>0, <2>2
    <3> QED
      BY <1>0, <2>2, <3>1 DEF Open, Sound
  <2>3. CASE UNCHANGED <<job, cur>> /\ Working'
    BY <1>0, <2>0, <2>3 DEF Open, Sound
  <2> QED
    BY <2>1, <2>2, <2>3
<1>7. CASE Release
  <2>1. /\ Working /\ ReleaseClaim(cur) /\ ~Working'
    BY <1>7, FaultsLeft DEF Release, Halt, EndSweep, Finish, Working, SweepOrder
  <2>2. \/ job'[q] = job[q] /\ q # cur
        \/ q = cur /\ job'[q] = IF job[q].status = "none" THEN job[q] ELSE Job("pending")
    BY <1>0, <2>1 DEF ReleaseClaim
  <2> QED
    BY <1>0, <2>1, <2>2 DEF Open, Sound
<1> QED
  <2>1. ~Poison
    BY DEF Poison, SweepOrder
  <2> QED
    BY <1>1, <1>2, <1>3, <1>4, <1>5, <1>6, <1>7, <2>1, FaultsLeft, NoStrayJobs
    DEF Next, DrainStep

LEMMA IdsStep ==
    ASSUME OnlyLostAnswers, IInv, OnceInv, [Next]_vars
    PROVE  IdsInOrder'
<1>0. "remap" \notin Faults /\ IdsInOrder /\ OneInProgress /\ SweepOrder
  BY DEF OnlyLostAnswers, OnceInv
<1>1. ASSUME NEW p \in Expenses, NEW q \in Expenses, p < q, expense'[p].state = "absent"
      PROVE  expense'[q].state = "absent"
  <2>1. expense[p].state = "absent"
    BY <1>0, <1>1, KeysKept
  <2>2. expense[q].state = "absent"
    BY <1>0, <1>1, <2>1 DEF IdsInOrder
  <2>3. ASSUME NEW e \in Expenses, Create(e) \/ DeleteReceipt(e) \/ DeleteManual(e)
        PROVE  expense'[q].state = "absent"
    <3>1. e # q
      BY <1>1, <2>1, <2>2, <2>3 DEF Create, DeleteReceipt, DeleteManual, Live
    <3>2. expense'[q] = expense[q]
      BY <2>3, <3>1 DEF Create, DeleteReceipt, DeleteManual, IInv, TypeOK
    <3> QED
      BY <2>2, <3>2
  <2>4. CASE UNCHANGED expense
    BY <2>2, <2>4
  <2> QED
    BY <2>3, <2>4, FaultsLeft, <1>0, NoStrayJobs DEF Next, BackoffOver, DrainStep, StartSweep,
       OpenSheetView, SweepDone, ClaimJob, Resolve, Rate, InsertRow, FillRow, WriteRow, Reread,
       ReadMarker, ClearJob, Release, Poison, Restart, vars
<1>2. ASSUME NEW e \in Expenses, Open(e)' PROVE expense'[e].state # "absent"
  <2>1. CASE Open(e)
    BY <1>0, <2>1, KeysKept DEF IdsInOrder
  <2>2. CASE Create(e)
    BY <2>2 DEF Create, IInv, TypeOK
  <2> QED
    BY <1>0, <1>2, <2>1, <2>2, OpenStep
<1>3. ASSUME NEW e \in Expenses, e \in todo' PROVE expense'[e].state # "absent"
  <2>1. CASE e \in todo
    BY <1>0, <2>1, KeysKept DEF IdsInOrder
  <2>2. CASE e \in Listed
    BY <1>0, <2>2, KeysKept DEF IdsInOrder, Listed, Claimable, Open
  <2>3. todo' \subseteq todo \/ todo' = Listed
    BY <1>0, FaultsLeft, NoStrayJobs DEF Next, Create, DeleteReceipt, DeleteManual, BackoffOver,
       DrainStep, StartSweep, OpenSheetView, SweepDone, ClaimJob, Resolve, Rate, InsertRow,
       FillRow, WriteRow, Reread, ReadMarker, ClearJob, Release, Poison, Restart, vars, memory,
       EndSweep, Forget, Halt, Finish, Fail, Request
  <2> QED
    BY <1>3, <2>1, <2>2, <2>3
<1> QED
  BY <1>1, <1>2, <1>3 DEF IdsInOrder

LEMMA SweepStep ==
    ASSUME OnlyLostAnswers, IInv, OnceInv, Keyed, [Next]_vars
    PROVE  SweepOrder'
<1>0. /\ OneInProgress /\ SweepOrder /\ IdsInOrder
      /\ todo \subseteq Expenses /\ Expenses \subseteq Nat
      /\ Working => cur \in Expenses
      /\ \A q \in Expenses : (Open(q)' => Open(q) \/ Create(q))
  BY OpenStep DEF OnceInv, IInv, TypeOK, Expenses
<1>1. ASSUME NEW e \in Expenses, Create(e)
      PROVE  SweepOrder'
  <2>1. UNCHANGED <<pc, cur, todo, err>>
    BY <1>1 DEF Create, memory
  <2>2. /\ \A x \in todo : x < e
        /\ Working => cur < e
    <3>1. ASSUME NEW x \in Expenses, x \in todo \/ Open(x)
          PROVE  x < e
      <4>1. expense[x].state # "absent" /\ expense[e].state = "absent"
        BY <1>0, <1>1, <3>1 DEF IdsInOrder, Create
      <4> QED
        BY <1>0, <4>1 DEF IdsInOrder
    <3> QED
      BY <1>0, <3>1 DEF Open
  <2>3. ASSUME NEW q \in Expenses \ Unrated, Open(q)', pc \notin {"down", "wait"}
        PROVE  InTurn(q)'
    <3>1. CASE q = e
      BY <1>0, <2>1, <2>2, <3>1 DEF InTurn, Working
    <3>2. CASE q # e
      <4>1. ~Create(q)
        BY <1>1, <3>2 DEF Create, Expenses
      <4> QED
        BY <1>0, <2>1, <2>3, <4>1 DEF SweepOrder, InTurn, Working
    <3> QED
      BY <3>1, <3>2
  <2> QED
    BY <1>0, <2>1, <2>3 DEF SweepOrder, Working
<1>2. CASE \A e \in Expenses : ~Create(e)
  <2>0. \A q \in Expenses : (Open(q)' => Open(q))
    BY <1>0, <1>2
  <2>1. CASE UNCHANGED <<pc, todo, cur, err>>
    BY <1>0, <2>0, <2>1 DEF SweepOrder, InTurn, Working
  <2>2. CASE StartSweep
    <3>1. pc = "wait" /\ pc' = "open" /\ todo' = Listed /\ UNCHANGED <<cur, err>>
      BY <2>2 DEF StartSweep
    <3>2. ASSUME NEW q \in Expenses, Open(q) PROVE q \in Listed
      BY <1>0, <3>1, <3>2 DEF OneInProgress, Sound, Open, Listed, Claimable, Working
    <3> QED
      BY <1>0, <2>0, <3>1, <3>2 DEF SweepOrder, InTurn, Working
  <2>3. CASE OpenSheetView \/ SweepDone
    <3>1. /\ pc' \in {"wait", "next"}
          /\ pc' = "next" => pc = "open" /\ UNCHANGED <<todo, cur, err>>
          /\ pc' = "wait" => err' = "none"
      BY <2>3 DEF OpenSheetView, SweepDone, EndSweep, Forget
    <3> QED
      BY <1>0, <2>0, <3>1 DEF SweepOrder, InTurn, Working
  <2>4. CASE ClaimJob
    <3>1. PICK e \in todo :
             /\ pc = "next" /\ \A q \in todo : e <= q
             /\ todo' = todo \ {e} /\ err' = err
             /\ \/ Claimable(e) /\ cur' = e /\ pc' = "resolve"
                \/ ~Claimable(e) /\ UNCHANGED <<cur, pc>>
      BY <2>4, FaultsLeft DEF ClaimJob
    <3>2. \A x \in todo' : e < x
      BY <1>0, <3>1
    <3>3. ASSUME NEW q \in Expenses \ Unrated, Open(q)' PROVE InTurn(q)'
      <4>1. Open(q) /\ InTurn(q) /\ ~Working
        BY <1>0, <2>0, <3>1, <3>3 DEF SweepOrder, Working
      <4>2. CASE q = e
        <5>1. Claimable(e)
          BY <1>0, <4>1, <4>2 DEF OneInProgress, Sound, Open, Claimable
        <5> QED
          BY <3>1, <4>2, <5>1 DEF InTurn, Working
      <4>3. CASE q # e
        BY <1>0, <3>1, <4>1, <4>3 DEF InTurn, Working
      <4> QED
        BY <4>2, <4>3
    <3> QED
      BY <1>0, <3>1, <3>2, <3>3 DEF SweepOrder, Working
  <2>5. CASE Resolve \/ ClearJob
    <3>1. \/ /\ pc' = "next" /\ UNCHANGED todo /\ err' = "none"
             /\ \A q \in Expenses : q = cur => ~Open(q)'
          \/ pc' = "rate" /\ UNCHANGED <<todo, cur, err>>
      <4>1. \/ pc' = "next" /\ UNCHANGED todo /\ err' = "none" /\ cur' = 0
               /\ job' = [job EXCEPT ![cur] = Job("none")]
            \/ pc' = "rate" /\ UNCHANGED <<todo, cur, err>>
        BY <2>5, FaultsLeft DEF Resolve, ClearJob, Finish
      <4>2. job \in [Expenses -> JobRow] /\ cur \in Expenses
        BY <2>5 DEF IInv, TypeOK, Resolve, ClearJob, Working
      <4>3. CASE job' = [job EXCEPT ![cur] = Job("none")] /\ pc' = "next"
        <5>1. job'[cur].status = "none"
          BY <4>2, <4>3 DEF Job
        <5>2. ~Working'
          BY <4>3 DEF Working
        <5>3. \A q \in Expenses : q = cur => ~Open(q)'
          BY <5>1, <5>2 DEF Open
        <5> QED
          BY <4>1, <4>3, <5>3
      <4> QED
        BY <4>1, <4>3
    <3>2. Working /\ pc \in {"resolve", "clear"}
      BY <2>5 DEF Resolve, ClearJob, Working
    <3>3. CASE /\ pc' = "next" /\ UNCHANGED todo /\ err' = "none"
               /\ \A q \in Expenses : q = cur => ~Open(q)'
      <4>1. ASSUME NEW q \in Expenses \ Unrated, Open(q)' PROVE InTurn(q)'
        <5>1. q # cur /\ InTurn(q)
          BY <1>0, <2>0, <3>2, <3>3, <4>1 DEF SweepOrder
        <5> QED
          BY <3>2, <3>3, <5>1 DEF InTurn, Working
      <4> QED
        BY <1>0, <3>3, <4>1 DEF SweepOrder, Working
    <3>4. CASE pc' = "rate" /\ UNCHANGED <<todo, cur, err>>
      BY <1>0, <2>0, <3>2, <3>4 DEF SweepOrder, InTurn, Working
    <3> QED
      BY <3>1, <3>3, <3>4
  <2>6. CASE Rate
    <3>1. /\ pc = "rate" /\ UNCHANGED <<todo, cur>> /\ pc' \in {"read", "insert", "release"}
          /\ \/ pc' # "release" /\ cur \notin Unrated /\ err' = err
             \/ pc' = "release" /\ cur \in Unrated /\ err' = "norate"
      BY <2>6, FaultsLeft DEF Rate
    <3> QED
      BY <1>0, <2>0, <3>1 DEF SweepOrder, InTurn, Working
  <2>7. CASE InsertRow \/ FillRow \/ Reread \/ ReadMarker \/ WriteRow
    <3>1. /\ pc \in {"insert", "fill", "reread", "read", "write"} /\ UNCHANGED <<todo, cur>>
          /\ pc' \in {"fill", "reread", "read", "write", "clear", "release"}
          /\ err' \in {err, "transient"}
      BY <2>7, FaultsLeft DEF InsertRow, FillRow, Reread, ReadMarker, WriteRow, Request, Fail, memory
    <3> QED
      BY <1>0, <2>0, <3>1 DEF SweepOrder, InTurn, Working
  <2>8. CASE Release
    <3>1. /\ pc = "release" /\ err' = "none"
          /\ \/ err = "transient" /\ pc' = "wait"
             \/ err = "norate" /\ pc' = "next" /\ UNCHANGED todo
      BY <1>0, <2>8 DEF Release, Halt, EndSweep, Forget, Finish, SweepOrder
    <3>2. CASE pc' = "wait"
      BY <3>1, <3>2 DEF SweepOrder, Working
    <3>3. CASE err = "norate" /\ pc' = "next" /\ UNCHANGED todo
      <4>1. ASSUME NEW q \in Expenses \ Unrated, Open(q)' PROVE InTurn(q)'
        <5>1. q # cur /\ InTurn(q) /\ Working
          BY <1>0, <2>0, <3>1, <3>3, <4>1 DEF SweepOrder, Working
        <5> QED
          BY <3>3, <5>1 DEF InTurn, Working
      <4> QED
        BY <3>1, <3>3, <4>1 DEF SweepOrder, Working
    <3> QED
      BY <3>1, <3>2, <3>3
  <2>9. CASE Restart
    BY <1>0, <2>9 DEF Restart, memory, SweepOrder, Working
  <2> QED
    <3>1. ~Poison
      BY <1>0 DEF Poison, SweepOrder
    <3>2. ASSUME NEW e \in Expenses, DeleteReceipt(e) \/ DeleteManual(e)
          PROVE  UNCHANGED <<pc, todo, cur, err>>
      BY <3>2 DEF DeleteReceipt, DeleteManual, memory
    <3>3. CASE BackoffOver \/ UNCHANGED vars
      BY <2>1, <3>3 DEF BackoffOver, memory, vars
    <3> QED
      BY <1>0, <1>2, <2>1, <2>2, <2>3, <2>4, <2>5, <2>6, <2>7, <2>8, <2>9, <3>1, <3>2, <3>3,
         FaultsLeft, NoStrayJobs
      DEF Next, DrainStep
<1> QED
  BY <1>1, <1>2

LEMMA TimesType ==
    ASSUME NEW s \in Seq(SheetRow), NEW i \in 1..Len(s), NEW e \in Expenses
    PROVE  s[i].times[e] \in 0..2
<1>1. s[i] \in SheetRow
  OBVIOUS
<1> QED
  BY <1>1 DEF SheetRow

\* A step that writes no formula only moves the rows that expenses are in.
LEMMA NothingWritten ==
    ASSUME OnlyLostAnswers, IInv, OnceInv, Keyed, [Next]_vars,
           NEW old \in [1..Len(sheet') -> Int],
           \A i \in 1..Len(sheet'), e \in Expenses : sheet'[i].times[e] > 0 =>
               old[i] \in 1..Len(sheet) /\ sheet'[i] = sheet[old[i]],
           \A i, j \in 1..Len(sheet'), e \in Expenses :
               sheet'[i].times[e] > 0 /\ sheet'[j].times[e] > 0 /\ old[i] = old[j] => i = j
    PROVE  OpenIsFirst' /\ LoggedOnce'
<1>0. /\ OneInProgress /\ SweepOrder /\ IdsInOrder /\ OpenIsFirst /\ LoggedOnce
      /\ \A q \in Expenses : (Open(q)' => Open(q) \/ Create(q))
      /\ IInv'
  BY OpenStep, NextIInv DEF OnceInv
<1>1. ASSUME NEW e \in Expenses, NEW i \in 1..Len(sheet'), sheet'[i].times[e] > 0
      PROVE  /\ InSheet(e) /\ e \notin Unrated /\ sheet'[i].times[e] <= 1
             /\ old[i] \in 1..Len(sheet) /\ sheet'[i] = sheet[old[i]]
             /\ Open(e)' => /\ sheet'[i].marker = e
                            /\ \A q \in Expenses \ Unrated : q < e => ~Open(q)'
  <2>1. old[i] \in 1..Len(sheet) /\ sheet'[i] = sheet[old[i]]
    BY <1>1
  <2>2. InSheet(e)
    BY <1>1, <2>1 DEF InSheet
  <2>3. expense[e].state # "absent" /\ ~Create(e)
    BY <2>2 DEF Keyed, Create
  <2>4. ASSUME NEW q \in Expenses \ Unrated, q < e, Open(e)' PROVE ~Open(q)'
    <3>1. Open(e) /\ ~Open(q)
      BY <1>0, <2>2, <2>3, <2>4 DEF OpenIsFirst
    <3>2. ~Create(q)
      BY <1>0, <2>3, <2>4 DEF IdsInOrder, Create
    <3> QED
      BY <1>0, <3>1, <3>2
  <2>5. Open(e)' => sheet'[i].marker = e
    BY <1>0, <1>1, <2>1, <2>2, <2>3 DEF OpenIsFirst
  <2> QED
    BY <1>0, <1>1, <2>1, <2>2, <2>4, <2>5 DEF OpenIsFirst, LoggedOnce
<1>2. OpenIsFirst'
  BY <1>1 DEF OpenIsFirst, InSheet
<1>3. ASSUME NEW e \in Expenses, NEW i \in 1..Len(sheet')
      PROVE  sheet'[i].times[e] <= 1
  <2>1. sheet'[i].times[e] \in 0..2
    BY <1>0, TimesType DEF IInv, TypeOK
  <2> QED
    BY <1>1, <2>1
<1>4. ASSUME NEW e \in Expenses, NEW i \in 1..Len(sheet'), NEW j \in 1..Len(sheet'),
             sheet'[i].times[e] > 0, sheet'[j].times[e] > 0
      PROVE  i = j
  <2>1. /\ old[i] \in 1..Len(sheet) /\ sheet[old[i]].times[e] > 0
        /\ old[j] \in 1..Len(sheet) /\ sheet[old[j]].times[e] > 0
    BY <1>1, <1>4
  <2>2. old[i] = old[j]
    BY <1>0, <2>1 DEF LoggedOnce
  <2> QED
    BY <1>4, <2>2
<1>5. LoggedOnce'
  BY <1>3, <1>4 DEF LoggedOnce
<1> QED
  BY <1>2, <1>5

\* The append: column J did not name the expense, so it was in no row, and it is the
\* first of the queue that has a rate.
LEMMA AppendStep ==
    ASSUME OnlyLostAnswers, IInv, OnceInv, Keyed, [Next]_vars, WriteRow, sheet' # sheet
    PROVE  OpenIsFirst' /\ LoggedOnce'
<1>0. /\ OneInProgress /\ SweepOrder /\ IdsInOrder /\ OpenIsFirst /\ LoggedOnce
      /\ \A q \in Expenses : Open(q)' => Open(q)
  <2>1. \A q \in Expenses : ~Create(q)
    BY DEF WriteRow, Request, Create
  <2> QED
    BY <2>1, OpenStep DEF OnceInv
<1>1. /\ row \in 1..Len(sheet) /\ Len(sheet') = Len(sheet) /\ sheet[row] \in SheetRow
      /\ \A i \in 1..Len(sheet) : i # row => sheet'[i] = sheet[i]
      /\ sheet'[row] = Plus(sheet[row], cur) /\ cur \in Expenses
  BY Replaced
<1>2. /\ ~InSheet(cur) /\ Working /\ cur \notin Unrated /\ Open(cur)
      /\ todo \subseteq Expenses /\ Expenses \subseteq Int
  BY <1>0 DEF WriteRow, OnceInv, NotYetWritten, SweepOrder, Working, Open, IInv, TypeOK, Expenses
<1>3. \A q \in Expenses \ Unrated : q < cur => ~Open(q)
  <2>1. SUFFICES ASSUME NEW q \in Expenses \ Unrated, q < cur, Open(q) PROVE FALSE
    OBVIOUS
  <2>2. InTurn(q) /\ \A x \in todo : cur < x
    BY <1>0, <1>2, <2>1 DEF SweepOrder, WriteRow
  <2>3. cur \in Int /\ q \in Int
    BY <1>1, <1>2
  <2> QED
    BY <1>2, <2>1, <2>2, <2>3 DEF InTurn
<1>4. ASSUME NEW e \in Expenses, e # cur, NEW i \in 1..Len(sheet)
      PROVE  sheet'[i].times[e] = sheet[i].times[e]
  BY <1>1, <1>4, RowFields
<1>5. ASSUME NEW i \in 1..Len(sheet)
      PROVE  IF i = row THEN sheet'[i].times[cur] = 1 /\ sheet'[i].marker = cur
             ELSE ~(sheet'[i].times[cur] > 0)
  <2>1. ~(sheet[i].times[cur] > 0) /\ sheet[i].times[cur] \in 0..2
    BY <1>1, <1>2, TimesType DEF InSheet, IInv, TypeOK
  <2> QED
    BY <1>1, <2>1, RowFields
<1>6. ASSUME NEW e \in Expenses
      PROVE  /\ \A i \in 1..Len(sheet) : sheet'[i].times[e] <= 1
             /\ \A i, j \in 1..Len(sheet) :
                   sheet'[i].times[e] > 0 /\ sheet'[j].times[e] > 0 => i = j
  <2>1. CASE e = cur
    <3>1. \A i \in 1..Len(sheet) : sheet'[i].times[e] \in 0..2
      BY <1>1, NextIInv, TimesType DEF IInv, TypeOK
    <3> QED
      BY <1>5, <2>1, <3>1
  <2>2. CASE e # cur
    BY <1>0, <1>4, <2>2 DEF LoggedOnce
  <2> QED
    BY <2>1, <2>2
<1>7. ASSUME NEW e \in Expenses, NEW i \in 1..Len(sheet), sheet'[i].times[e] > 0
      PROVE  /\ e \notin Unrated
             /\ Open(e)' => /\ \A q \in Expenses \ Unrated : q < e => ~Open(q)'
                            /\ sheet'[i].marker = e
  <2>1. CASE e = cur
    BY <1>0, <1>2, <1>3, <1>5, <1>7, <2>1
  <2>2. CASE e # cur
    <3>1. InSheet(e) /\ e \notin Unrated
      BY <1>0, <1>4, <1>7, <2>2 DEF InSheet, OpenIsFirst
    <3>2. ~Open(e)
      <4>1. SUFFICES ASSUME Open(e) PROVE FALSE
        OBVIOUS
      <4>2. ~(cur < e)
        BY <1>0, <1>1, <1>2, <3>1, <4>1 DEF OpenIsFirst
      <4>3. ~(e < cur)
        BY <1>3, <3>1, <4>1
      <4>4. e \in Int /\ cur \in Int
        BY <1>1, <1>2
      <4> QED
        BY <2>2, <4>2, <4>3, <4>4
    <3> QED
      BY <1>0, <3>1, <3>2
  <2> QED
    BY <2>1, <2>2
<1> QED
  BY <1>1, <1>6, <1>7 DEF OpenIsFirst, LoggedOnce, InSheet

LEMMA FirstStep ==
    ASSUME OnlyLostAnswers, IInv, OnceInv, Keyed, [Next]_vars
    PROVE  OpenIsFirst' /\ LoggedOnce'
<1>0. Len(sheet) \in Nat /\ Len(sheet') \in Nat
  BY NextIInv DEF IInv, TypeOK
<1>1. CASE UNCHANGED sheet
  <2> DEFINE old == [i \in 1..Len(sheet') |-> i]
  <2>1. old \in [1..Len(sheet') -> Int] /\ \A i \in 1..Len(sheet') : old[i] = i
    BY <1>0
  <2> HIDE DEF old
  <2> QED
    BY <1>1, <2>1, NothingWritten
<1>2. CASE InsertRow /\ sheet' # sheet
  <2> DEFINE old == [i \in 1..Len(sheet') |-> IF i < row THEN i ELSE i - 1]
  <2>1. /\ row \in Int /\ sheet'[row] = BlankRow
        /\ \A i \in 1..Len(sheet') :
              /\ i < row => i \in 1..Len(sheet) /\ sheet'[i] = sheet[i]
              /\ i > row => i - 1 \in 1..Len(sheet) /\ sheet'[i] = sheet[i - 1]
    BY <1>2, Inserted
  <2>2. /\ old \in [1..Len(sheet') -> Int]
        /\ \A i \in 1..Len(sheet') : old[i] = IF i < row THEN i ELSE i - 1
    BY <1>0, <2>1
  <2> HIDE DEF old
  <2>3. \A i \in 1..Len(sheet'), e \in Expenses : sheet'[i].times[e] > 0 => i # row
    BY <2>1, RowFields
  <2>4. \A i \in 1..Len(sheet'), e \in Expenses : sheet'[i].times[e] > 0 =>
           old[i] \in 1..Len(sheet) /\ sheet'[i] = sheet[old[i]]
    <3>1. SUFFICES ASSUME NEW i \in 1..Len(sheet'), i # row
                   PROVE  old[i] \in 1..Len(sheet) /\ sheet'[i] = sheet[old[i]]
      BY <2>3
    <3>2. CASE i < row
      BY <2>1, <2>2, <3>2
    <3>3. CASE i > row
      <4>1. old[i] = i - 1
        BY <2>1, <2>2, <3>3
      <4> QED
        BY <2>1, <3>3, <4>1
    <3> QED
      BY <2>1, <3>1, <3>2, <3>3
  <2>5. \A i, j \in 1..Len(sheet') : i # row /\ j # row /\ old[i] = old[j] => i = j
    BY <2>1, <2>2
  <2> QED
    BY <2>2, <2>3, <2>4, <2>5, NothingWritten
<1>3. CASE FillRow /\ sheet' # sheet
  <2> DEFINE old == [i \in 1..Len(sheet') |-> i]
  <2>1. old \in [1..Len(sheet') -> Int] /\ \A i \in 1..Len(sheet') : old[i] = i
    BY <1>0
  <2> HIDE DEF old
  <2>2. /\ Len(sheet') = Len(sheet)
        /\ \A i \in 1..Len(sheet) : i # row => sheet'[i] = sheet[i]
        /\ sheet'[row] = EmptyRow(target)
    BY <1>3, Replaced
  <2>3. \A i \in 1..Len(sheet'), e \in Expenses : sheet'[i].times[e] > 0 => i # row
    BY <2>2, RowFields
  <2> QED
    BY <2>1, <2>2, <2>3, NothingWritten
<1>4. CASE WriteRow /\ sheet' # sheet
  BY <1>4, AppendStep
<1> QED
  BY <1>1, <1>2, <1>3, <1>4, SheetChanges

\* The marker decides right: an open expense in the sheet is in its own row, which
\* is the only one with its key, and column J names it.
LEMMA NotYetStep ==
    ASSUME OnlyLostAnswers, IInv, OrderInv, OnceInv, [Next]_vars
    PROVE  NotYetWritten'
<1>0. /\ NotYetWritten /\ OpenIsFirst /\ Placed /\ Keyed /\ RowsInOrder /\ RightRow
      /\ Len(sheet) \in Nat /\ Len(sheet') \in Nat
      /\ Projected => Working /\ cur \in Expenses
      /\ Working => cur \in Expenses
  BY NextIInv DEF OnceInv, OrderInv, IInv, TypeOK, Projected, Working
<1>1. CASE ~Projected'
  BY <1>1 DEF NotYetWritten, Projected
<1>2. CASE Resolve /\ Projected'
  <2>1. /\ Live(cur) /\ target' = expense[cur].key /\ UNCHANGED <<cur, sheet>> /\ pc' = "rate"
        /\ cur \in Expenses
    BY <1>0, <1>2, FaultsLeft DEF Resolve, Projected, Finish, Working
  <2> QED
    BY <1>0, <2>1 DEF NotYetWritten, RightRow
<1>3. CASE Rate \/ Reread
  <2>1. /\ Projected /\ UNCHANGED <<cur, target, sheet>> /\ pc' # "write"
    BY <1>3, FaultsLeft DEF Rate, Reread, Fail, Projected
  <2> QED
    BY <1>0, <2>1 DEF NotYetWritten
<1>4. CASE ReadMarker
  <2>1. /\ pc = "read" /\ Projected /\ UNCHANGED <<cur, target, sheet>>
        /\ pc' = "write" => ~Recorded(cur, row)
    BY <1>4, FaultsLeft DEF ReadMarker, Fail, Projected, memory
  <2>2. ASSUME InSheet(cur) PROVE Recorded(cur, row)
    <3>1. Open(cur) /\ cur \in Expenses /\ row \in 1..Len(sheet) /\ sheet[row].key = target
          /\ target > 0 /\ target \in Int
      BY <1>0, <2>1 DEF Open, IInv, TypeOK, Positions, Placed, Projected, Keys
    <3>2. PICK i \in 1..Len(sheet) : sheet[i].times[cur] > 0
      BY <2>2 DEF InSheet
    <3>3. sheet[i].key = target /\ sheet[i].marker = cur
      BY <1>0, <2>1, <2>2, <3>1, <3>2 DEF NotYetWritten, OpenIsFirst
    <3>4. ~(i < row) /\ ~(row < i)
      BY <1>0, <3>1, <3>3 DEF RowsInOrder
    <3>5. i = row
      BY <1>0, <3>1, <3>4
    <3> QED
      BY <3>3, <3>5 DEF Recorded
  <2> QED
    BY <1>0, <2>1, <2>2 DEF NotYetWritten, InSheet
<1>5. CASE (InsertRow \/ FillRow \/ WriteRow) /\ UNCHANGED sheet
  <2>1. /\ Projected /\ UNCHANGED <<cur, target, sheet>> /\ pc' # "write"
    BY <1>5, FaultsLeft DEF InsertRow, FillRow, WriteRow, Request, Fail, Projected
  <2> QED
    BY <1>0, <2>1 DEF NotYetWritten
<1>6. CASE InsertRow /\ sheet' # sheet
  <2>1. /\ sheet'[row] = BlankRow /\ row \in Int
        /\ \A i \in 1..Len(sheet') :
              /\ i < row => i \in 1..Len(sheet) /\ sheet'[i] = sheet[i]
              /\ i > row => i - 1 \in 1..Len(sheet) /\ sheet'[i] = sheet[i - 1]
    BY <1>6, Inserted
  <2>2. /\ Projected /\ UNCHANGED <<cur, target>> /\ pc' # "write" /\ cur \in Expenses
    BY <1>0, <1>6 DEF InsertRow, Request, Fail, Projected
  <2>3. ASSUME NEW i \in 1..Len(sheet'), sheet'[i].times[cur] > 0
        PROVE  sheet'[i].key = target
    <3>1. i # row
      BY <2>1, <2>2, <2>3, RowFields
    <3>2. \E j \in 1..Len(sheet) : sheet'[i] = sheet[j]
      <4>1. i < row \/ i > row
        BY <1>0, <2>1, <3>1
      <4> QED
        BY <2>1, <4>1
    <3> QED
      BY <1>0, <2>2, <2>3, <3>2 DEF NotYetWritten
  <2> QED
    BY <2>2, <2>3 DEF NotYetWritten
<1>7. CASE FillRow /\ sheet' # sheet
  <2>1. /\ Len(sheet') = Len(sheet) /\ sheet'[row] = EmptyRow(target)
        /\ \A i \in 1..Len(sheet) : i # row => sheet'[i] = sheet[i]
    BY <1>7, Replaced
  <2>2. /\ Projected /\ UNCHANGED <<cur, target>> /\ pc' # "write" /\ cur \in Expenses
    BY <1>0, <1>7 DEF FillRow, Request, Fail, Projected
  <2>3. ASSUME NEW i \in 1..Len(sheet'), sheet'[i].times[cur] > 0
        PROVE  sheet'[i].key = target
    <3>1. i # row
      BY <2>1, <2>2, <2>3, RowFields
    <3> QED
      BY <1>0, <2>1, <2>2, <2>3, <3>1 DEF NotYetWritten
  <2> QED
    BY <2>2, <2>3 DEF NotYetWritten
<1>8. CASE WriteRow /\ sheet' # sheet
  <2>1. /\ Len(sheet') = Len(sheet) /\ sheet'[row] = Plus(sheet[row], cur)
        /\ row \in 1..Len(sheet) /\ sheet[row] \in SheetRow
        /\ \A i \in 1..Len(sheet) : i # row => sheet'[i] = sheet[i]
    BY <1>8, Replaced
  <2>2. /\ Projected /\ UNCHANGED <<cur, target>> /\ pc' # "write" /\ cur \in Expenses
        /\ sheet[row].key = target
    BY <1>0, <1>8 DEF WriteRow, Request, Fail, Projected, Placed
  <2>3. ASSUME NEW i \in 1..Len(sheet'), sheet'[i].times[cur] > 0
        PROVE  sheet'[i].key = target
    <3>1. CASE i = row
      BY <2>1, <2>2, <3>1, RowFields
    <3>2. CASE i # row
      BY <1>0, <2>1, <2>2, <2>3, <3>2 DEF NotYetWritten
    <3> QED
      BY <3>1, <3>2
  <2> QED
    BY <2>2, <2>3 DEF NotYetWritten
<1>9. CASE OutsideMove
  BY <1>0, <1>9, OutsideMoves DEF NotYetWritten, Projected, memory, InSheet
<1>10. CASE \/ StartSweep \/ OpenSheetView \/ SweepDone \/ ClaimJob \/ ClearJob \/ Release
            \/ Poison \/ Restart
  <2>1. ~Projected'
    BY <1>10, FaultsLeft DEF StartSweep, OpenSheetView, SweepDone, ClaimJob, ClearJob, Release,
         Poison, Restart, EndSweep, Halt, Finish, Projected
  <2> QED
    BY <1>1, <2>1
<1> QED
  BY <1>1, <1>2, <1>3, <1>4, <1>5, <1>6, <1>7, <1>8, <1>9, <1>10, FaultsLeft
  DEF Next, DrainStep, OutsideMove

\* append_expense_atomic: over lost answers and repeated attempts an expense is appended
\* once, though column J keeps only the expense appended last.
THEOREM AppendedOnce ==
    ASSUME OnlyLostAnswers
    PROVE  Spec => []LoggedOnce
<1> DEFINE Inv == IInv /\ ViewCurrent /\ OrderInv /\ OnceInv
<1>1. Init => Inv
  <2>1. SUFFICES ASSUME Init PROVE Inv
    OBVIOUS
  <2>2. sheet = <<>> /\ pc = "wait" /\ todo = {} /\ err = "none" /\ job = [e \in Expenses |-> Job("none")]
        /\ expense = [e \in Expenses |-> NoExpense("absent")]
    BY <2>1 DEF Init
  <2>3. ViewCurrent /\ OrderInv
    BY <2>1 DEF Init, ViewCurrent, OrderInv, Placed, Keyed, Projected, Live, InSheet, RowsInOrder,
         RightRow, NoExpense
  <2>4. \A e \in Expenses : job[e].status = "none" /\ ~Open(e) /\ ~InSheet(e)
                            /\ expense[e].state = "absent"
    BY <2>2 DEF Job, Open, Working, InSheet, NoExpense
  <2>5. IdsInOrder /\ OneInProgress /\ SweepOrder /\ OpenIsFirst
    BY <2>2, <2>4 DEF IdsInOrder, OneInProgress, Sound, SweepOrder, OpenIsFirst, Working
  <2>6. NotYetWritten /\ LoggedOnce
    BY <2>2 DEF NotYetWritten, LoggedOnce, Projected
  <2> QED
    BY <2>1, <2>3, <2>5, <2>6, InitIInv DEF OnceInv
<1>2. Inv /\ [Next]_vars => Inv'
  <2>1. SUFFICES ASSUME Inv, [Next]_vars PROVE Inv'
    OBVIOUS
  <2>2. "permanent" \notin Faults /\ "remap" \notin Faults
    BY DEF OnlyLostAnswers
  <2>3. IInv' /\ ViewCurrent' /\ OrderInv'
    BY <2>1, <2>2, NextIInv, ViewStep, OrderStep
  <2>4. IdsInOrder' /\ SweepOrder' /\ OpenIsFirst' /\ LoggedOnce' /\ NotYetWritten'
    BY <2>1, IdsStep, SweepStep, FirstStep, NotYetStep DEF OrderInv
  <2>5. OneInProgress'
    BY <2>1, OpenStep DEF OnceInv, OneInProgress
  <2> QED
    BY <2>3, <2>4, <2>5 DEF OnceInv
<1>3. Inv => LoggedOnce
  BY DEF OnceInv
<1> QED
  BY <1>1, <1>2, <1>3, PTL DEF Spec
-----------------------------------------------------------------------------
(* The outbox: what the whole drain, with its sweeps, claims and positions, comes to. *)

\* Only stored expenses have a job, and the one in hand has one until it is cleared,
\* unless it was deleted meanwhile.
OwedInHand ==
    /\ \A e \in Expenses : job[e].status # "none" => Live(e)
    /\ Working => /\ expense[cur].state # "absent"
                  /\ Live(cur) => job[cur].status # "none"

SameOwed == \A q \in Expenses : (job'[q].status = "none") <=> (job[q].status = "none")

\* The drain takes a job off the queue in two places.
Cleared ==
    /\ Working /\ ~Working'
    /\ cur \in Expenses /\ (InSheet(cur) \/ ~Live(cur))
    /\ job' = [job EXCEPT ![cur] = Job("none")]

LEMMA JobMoves ==
    ASSUME IInv, DrainStep \/ Crash
    PROVE  SameOwed \/ Cleared
<1>1. job \in [Expenses -> JobRow] /\ (Working => cur \in Expenses) /\ Logged
  BY DEF IInv, TypeOK
<1>2. CASE job' = job
  BY <1>2 DEF SameOwed
<1>3. ASSUME NEW e \in Expenses, NEW s \in {"pending", "in_progress"},
             job[e].status # "none", job' = [job EXCEPT ![e] = Job(s)]
      PROVE  SameOwed
  <2>1. Job(s).status = s
    BY <1>3, JobType
  <2> QED
    BY <1>1, <1>3, <2>1 DEF SameOwed
<1>4. ASSUME NEW e \in Expenses, PoisonJob(e) PROVE SameOwed
  <2>1. CASE job[e].status = "none"
    BY <1>1, <1>4, <2>1 DEF PoisonJob, SameOwed
  <2>2. CASE job[e].status # "none"
    <3>1. \A j \in JobRow : [j EXCEPT !.status = "poisoned"].status = "poisoned"
      BY DEF JobRow
    <3> QED
      BY <1>1, <1>4, <2>2, <3>1 DEF PoisonJob, SameOwed
  <2> QED
    BY <2>1, <2>2
<1>5. CASE ClaimJob /\ job' # job
  <2>1. PICK e \in Expenses : Claimable(e) /\ job' = [job EXCEPT ![e] = Job("in_progress")]
    BY <1>5 DEF ClaimJob, IInv, TypeOK
  <2> QED
    BY <1>3, <2>1 DEF Claimable
<1>6. CASE Resolve /\ job' # job
  <2>1. cur \in Expenses /\ Working
    BY <1>1, <1>6 DEF Resolve, Working
  <2>2. CASE ~Live(cur) /\ job' = [job EXCEPT ![cur] = Job("none")] /\ Finish
    BY <2>1, <2>2 DEF Cleared, Finish, Working
  <2> QED
    BY <1>4, <1>6, <2>1, <2>2 DEF Resolve
<1>7. CASE ClearJob /\ job' # job
  BY <1>1, <1>7 DEF ClearJob, Working, Logged, Cleared, Finish
<1>8. CASE Release /\ job' # job
  <2>1. cur \in Expenses /\ ReleaseClaim(cur)
    BY <1>1, <1>8 DEF Release, Working
  <2>2. CASE job[cur].status = "none"
    BY <1>1, <1>2, <2>1, <2>2 DEF ReleaseClaim
  <2>3. CASE job[cur].status # "none"
    BY <1>3, <2>1, <2>3 DEF ReleaseClaim
  <2> QED
    BY <2>2, <2>3
<1>9. CASE Poison /\ job' # job
  BY <1>1, <1>4, <1>9 DEF Poison, Working
<1>10. job' # job => ClaimJob \/ Resolve \/ ClearJob \/ Release \/ Poison
  BY DEF DrainStep, Crash, StartSweep, OpenSheetView, SweepDone, Rate, InsertRow, FillRow,
         Reread, ReadMarker, WriteRow, Restart
<1> QED
  BY <1>2, <1>5, <1>6, <1>7, <1>8, <1>9, <1>10

\* A job in hand was in hand before, or has just been claimed.
LEMMA HandMoves ==
    ASSUME IInv, DrainStep \/ Crash, Working'
    PROVE  \/ Working /\ cur' = cur
           \/ cur' \in Expenses /\ job[cur'].status # "none"
<1>1. CASE ClaimJob
  BY <1>1 DEF ClaimJob, Claimable, Working, IInv, TypeOK
<1>2. CASE StartSweep \/ OpenSheetView \/ SweepDone \/ ClearJob \/ Restart \/ Crash
  BY <1>2 DEF StartSweep, OpenSheetView, SweepDone, ClearJob, Restart, Crash, EndSweep, Finish,
              Fail, Working
<1>3. CASE Resolve \/ Rate \/ Reread
  BY <1>3 DEF Resolve, Rate, Reread, Finish, Fail, Working
<1>4. CASE InsertRow \/ FillRow \/ WriteRow
  BY <1>4 DEF InsertRow, FillRow, WriteRow, Request, Fail, Working
<1>5. CASE ReadMarker
  BY <1>5 DEF ReadMarker, Fail, memory, Working
<1>6. CASE Release
  BY <1>6 DEF Release, Halt, EndSweep, Finish, memory, Working
<1>7. CASE Poison
  BY <1>7 DEF Poison, EndSweep, Finish, Working
<1> QED
  BY <1>1, <1>2, <1>3, <1>4, <1>5, <1>6, <1>7 DEF DrainStep

LEMMA OwedStep ==
    ASSUME IInv, OwedInHand, [Next]_vars
    PROVE  OwedInHand'
<1>1. /\ expense \in [Expenses -> ExpenseRow] /\ job \in [Expenses -> JobRow]
      /\ Working => cur \in Expenses
  BY DEF IInv, TypeOK
<1>2. CASE OutsideMove
  <2>1. UNCHANGED <<cur, pc>> /\ (Working' <=> Working)
    BY <1>2, OutsideMoves DEF memory, Working
  <2>2. CASE \E e \in Expenses : Create(e)
    <3>1. PICK e \in Expenses, k \in Keys, src \in {"manual", "receipt"} :
             /\ expense[e].state = "absent"
             /\ expense' = [expense EXCEPT ![e] = [state |-> "live", source |-> src, key |-> k,
                                                   tags |-> src = "manual"]]
             /\ job' = [job EXCEPT ![e] = Job("pending")]
      BY <2>2 DEF Create
    <3>2. /\ expense'[e].state = "live" /\ job'[e].status = "pending"
          /\ \A q \in Expenses : q # e => expense'[q] = expense[q] /\ job'[q] = job[q]
      BY <1>1, <3>1, JobType
    <3> QED
      BY <1>1, <2>1, <3>1, <3>2 DEF OwedInHand, Live
  <2>3. CASE \E e \in Expenses : DeleteReceipt(e)
    <3>1. PICK e \in Expenses : /\ expense' = [expense EXCEPT ![e] = NoExpense("deleted")]
                                /\ job' = [job EXCEPT ![e] = Job("none")]
      BY <2>3 DEF DeleteReceipt
    <3>2. /\ expense'[e].state = "deleted" /\ job'[e].status = "none"
          /\ \A q \in Expenses : q # e => expense'[q] = expense[q] /\ job'[q] = job[q]
      BY <1>1, <3>1, ExpenseType, JobType DEF NoExpense
    <3> QED
      BY <1>1, <2>1, <3>2 DEF OwedInHand, Live
  <2>4. CASE \E e \in Expenses : DeleteManual(e)
    <3>1. PICK e \in Expenses : Live(e) /\ DeleteManual(e)
      BY <2>4 DEF DeleteManual
    <3>2. /\ job' = job
          /\ IF job[e].status = "none" THEN expense'[e].state = "deleted"
                                       ELSE expense'[e].state = "live"
          /\ \A q \in Expenses : q # e => expense'[q] = expense[q]
      BY <1>1, <3>1 DEF DeleteManual, NoExpense, Live, ExpenseRow
    <3> QED
      BY <1>1, <2>1, <3>1, <3>2 DEF OwedInHand, Live
  <2>5. CASE ~\E e \in Expenses : Create(e) \/ DeleteReceipt(e) \/ DeleteManual(e)
    <3>1. SameOwed /\ \A q \in Expenses : expense'[q].state = expense[q].state
      <4>1. CASE \E e \in Expenses, k \in Keys : Remap(e, k)
        BY <1>1, <4>1 DEF Remap, SameOwed, ExpenseRow
      <4>2. CASE Requeue
        BY <4>2, JobType DEF Requeue, SameOwed
      <4>3. CASE \E e \in Expenses : ClaimAges(e)
        BY <1>1, <4>3 DEF ClaimAges, SameOwed
      <4>4. CASE BackoffOver \/ UNCHANGED vars
        BY <4>4 DEF BackoffOver, vars, SameOwed
      <4> QED
        BY <1>2, <2>5, <4>1, <4>2, <4>3, <4>4 DEF OutsideMove
    <3> QED
      BY <1>1, <2>1, <3>1 DEF OwedInHand, SameOwed, Live
  <2> QED
    BY <2>2, <2>3, <2>4, <2>5
<1>3. CASE DrainStep \/ Crash
  <2>1. expense' = expense
    BY <1>3, JobStep
  <2>2. CASE SameOwed
    <3>1. ASSUME Working'
          PROVE  expense[cur'].state # "absent" /\ (Live(cur') => job'[cur'].status # "none")
      BY <1>1, <1>3, <2>2, <3>1, HandMoves DEF SameOwed, OwedInHand, Live
    <3> QED
      BY <2>1, <2>2, <3>1 DEF SameOwed, OwedInHand, Live
  <2>3. CASE Cleared
    BY <1>1, <2>1, <2>3, JobType DEF Cleared, OwedInHand, Live
  <2> QED
    BY <1>3, <2>2, <2>3, JobMoves
<1> QED
  BY <1>2, <1>3 DEF Next, OutsideMove

\* One request adds no other expense than the one in hand, and none disappears.
LEMMA ShownStep ==
    ASSUME IInv, [Next]_vars
    PROVE  \/ OutboxShown' = OutboxShown
           \/ WriteRow /\ cur \in Expenses /\ OutboxShown' = OutboxShown \union {cur}
<1>1. CASE sheet' = sheet
  BY <1>1 DEF OutboxShown, InSheet
<1>2. ASSUME sheet' # sheet, InsertRow \/ FillRow \/ WriteRow, NEW e \in Expenses, InSheet(e)
      PROVE  InSheet(e)'
  BY <1>2, SheetStep DEF DrainStep
<1>3. CASE InsertRow /\ sheet' # sheet
  <2>1. ASSUME NEW e \in Expenses, InSheet(e)' PROVE InSheet(e)
    <3>1. PICK i \in 1..Len(sheet') : sheet'[i].times[e] > 0
      BY <2>1 DEF InSheet
    <3>2. i # row /\ row \in Int
      BY <1>3, <3>1, Inserted, RowFields
    <3>3. \E j \in 1..Len(sheet) : sheet'[i] = sheet[j]
      BY <1>3, <3>2, Inserted
    <3> QED
      BY <3>1, <3>3 DEF InSheet
  <2> QED
    BY <1>2, <1>3, <2>1 DEF OutboxShown
<1>4. CASE FillRow /\ sheet' # sheet
  <2>1. ASSUME NEW e \in Expenses, InSheet(e)' PROVE InSheet(e)
    BY <1>4, <2>1, Replaced, RowFields DEF InSheet
  <2> QED
    BY <1>2, <1>4, <2>1 DEF OutboxShown
<1>5. CASE WriteRow /\ sheet' # sheet
  <2>1. cur \in Expenses /\ row \in 1..Len(sheet) /\ Len(sheet') = Len(sheet)
    BY <1>5, Replaced
  <2>2. \E i \in 1..Len(sheet') : sheet'[i].times[cur] > 0
    <3>1. sheet'[row].marker = cur /\ cur # 0
      BY <1>5, <2>1, Replaced, RowFields DEF Expenses
    <3>2. \A i \in 1..Len(sheet') :
             sheet'[i].marker # 0 => sheet'[i].times[sheet'[i].marker] > 0
      BY <1>5, SheetStep DEF DrainStep, Markers
    <3> QED
      BY <2>1, <3>1, <3>2
  <2>3. ASSUME NEW e \in Expenses, e # cur, InSheet(e)' PROVE InSheet(e)
    <3>1. PICK i \in 1..Len(sheet) : sheet'[i].times[e] > 0
      BY <2>1, <2>3 DEF InSheet
    <3>2. sheet'[i].times[e] = sheet[i].times[e]
      BY <1>5, <2>1, <2>3, Replaced, RowFields
    <3> QED
      BY <3>1, <3>2 DEF InSheet
  <2> QED
    BY <1>2, <1>5, <2>1, <2>2, <2>3 DEF OutboxShown
<1> QED
  BY <1>1, <1>3, <1>4, <1>5, SheetChanges

LEMMA StageStep ==
    ASSUME NEW e \in Expenses,
           \A q \in Expenses : q # e => expense'[q].state = expense[q].state
    PROVE  OutboxStage' = [OutboxStage EXCEPT ![e] = expense'[e].state]
BY DEF OutboxStage

LEMMA SameStage ==
    ASSUME \A q \in Expenses : expense'[q].state = expense[q].state
    PROVE  OutboxStage' = OutboxStage
BY DEF OutboxStage

\* What users and the operator do stores or deletes an expense, or is not seen.
LEMMA OutsideShows ==
    ASSUME IInv, OwedInHand, OutsideMove
    PROVE  OUTBOX!Next \/ UNCHANGED OUTBOX!vars
<1>1. /\ expense \in [Expenses -> ExpenseRow] /\ job \in [Expenses -> JobRow]
      /\ OutboxShown' = OutboxShown
  BY OutsideMoves DEF IInv, TypeOK, OutboxShown, InSheet
<1>2. CASE \E e \in Expenses : Create(e)
  <2>1. PICK e \in Expenses, k \in Keys, src \in {"manual", "receipt"} :
           /\ expense[e].state = "absent"
           /\ expense' = [expense EXCEPT ![e] = [state |-> "live", source |-> src, key |-> k,
                                                 tags |-> src = "manual"]]
           /\ job' = [job EXCEPT ![e] = Job("pending")]
    BY <1>2 DEF Create
  <2>2. /\ expense'[e].state = "live" /\ job'[e].status = "pending"
        /\ \A q \in Expenses : q # e => expense'[q] = expense[q] /\ job'[q] = job[q]
    BY <1>1, <2>1, JobType
  <2>3. OutboxStage[e] = "absent" /\ OutboxStage' = [OutboxStage EXCEPT ![e] = "live"]
    BY <2>1, <2>2, StageStep DEF OutboxStage
  <2>4. OutboxOwed' = OutboxOwed \union {e}
    BY <2>2 DEF OutboxOwed
  <2> QED
    BY <1>1, <2>3, <2>4 DEF OUTBOX!Next, OUTBOX!Store
<1>3. ASSUME NEW e \in Expenses, Live(e), expense'[e].state = "deleted", job'[e].status = "none",
             \A q \in Expenses : q # e => expense'[q] = expense[q] /\ job'[q] = job[q]
      PROVE  OUTBOX!Next
  <2>1. OutboxStage[e] = "live" /\ OutboxStage' = [OutboxStage EXCEPT ![e] = "deleted"]
    BY <1>3, StageStep DEF OutboxStage, Live
  <2>2. OutboxOwed' = OutboxOwed \ {e}
    BY <1>3 DEF OutboxOwed
  <2> QED
    BY <1>1, <2>1, <2>2 DEF OUTBOX!Next, OUTBOX!Delete
<1>4. CASE \E e \in Expenses : DeleteReceipt(e)
  <2>1. PICK e \in Expenses : /\ Live(e)
                              /\ expense' = [expense EXCEPT ![e] = NoExpense("deleted")]
                              /\ job' = [job EXCEPT ![e] = Job("none")]
    BY <1>4 DEF DeleteReceipt
  <2>2. /\ expense'[e].state = "deleted" /\ job'[e].status = "none"
        /\ \A q \in Expenses : q # e => expense'[q] = expense[q] /\ job'[q] = job[q]
    BY <1>1, <2>1, JobType DEF NoExpense
  <2> QED
    BY <1>3, <2>1, <2>2
<1>5. ASSUME SameOwed, \A q \in Expenses : expense'[q].state = expense[q].state
      PROVE  UNCHANGED OUTBOX!vars
  <2>1. OutboxOwed' = OutboxOwed
    BY <1>5 DEF OutboxOwed, SameOwed
  <2> QED
    BY <1>1, <1>5, <2>1, SameStage DEF OUTBOX!vars
<1>6. CASE \E e \in Expenses : DeleteManual(e)
  <2>1. PICK e \in Expenses : Live(e) /\ DeleteManual(e)
    BY <1>6 DEF DeleteManual
  <2>2. job' = job
    BY <2>1 DEF DeleteManual
  <2>3. CASE job[e].status = "none"
    <3>1. /\ expense'[e].state = "deleted"
          /\ \A q \in Expenses : q # e => expense'[q] = expense[q]
      BY <1>1, <2>1, <2>3 DEF DeleteManual, NoExpense
    <3> QED
      BY <1>3, <2>1, <2>2, <2>3, <3>1
  <2>4. CASE job[e].status # "none"
    <3>1. \A q \in Expenses : expense'[q].state = expense[q].state
      BY <1>1, <2>1, <2>4 DEF DeleteManual, ExpenseRow
    <3> QED
      BY <1>5, <2>2, <3>1 DEF SameOwed
  <2> QED
    BY <2>3, <2>4
<1>7. CASE \E e \in Expenses, k \in Keys : Remap(e, k)
  <2>1. SameOwed /\ \A q \in Expenses : expense'[q].state = expense[q].state
    BY <1>1, <1>7 DEF Remap, SameOwed, ExpenseRow
  <2> QED
    BY <1>5, <2>1
<1>8. CASE Requeue
  <2>1. SameOwed /\ \A q \in Expenses : expense'[q].state = expense[q].state
    BY <1>8, JobType DEF Requeue, SameOwed
  <2> QED
    BY <1>5, <2>1
<1>9. CASE \E e \in Expenses : ClaimAges(e)
  <2>1. SameOwed /\ \A q \in Expenses : expense'[q].state = expense[q].state
    BY <1>1, <1>9 DEF ClaimAges, SameOwed
  <2> QED
    BY <1>5, <2>1
<1>10. CASE BackoffOver \/ UNCHANGED vars
  <2>1. SameOwed /\ \A q \in Expenses : expense'[q].state = expense[q].state
    BY <1>10 DEF BackoffOver, vars, SameOwed
  <2> QED
    BY <1>5, <2>1
<1> QED
  BY <1>2, <1>4, <1>6, <1>7, <1>8, <1>9, <1>10 DEF OutsideMove

\* A step of the drain shows the expense in hand, or settles it, or is not seen.
LEMMA DrainShows ==
    ASSUME IInv, OwedInHand, DrainStep \/ Crash, [Next]_vars
    PROVE  OUTBOX!Next \/ UNCHANGED OUTBOX!vars
<1>1. job \in [Expenses -> JobRow] /\ expense' = expense /\ OutboxStage' = OutboxStage
  BY JobStep, SameStage DEF IInv, TypeOK
<1>2. CASE WriteRow
  <2>1. /\ Working /\ job' = job /\ OutboxOwed' = OutboxOwed
    BY <1>2 DEF WriteRow, Working, OutboxOwed
  <2>2. CASE OutboxShown' = OutboxShown
    BY <1>1, <2>1, <2>2 DEF OUTBOX!vars
  <2>3. CASE cur \in Expenses /\ OutboxShown' = OutboxShown \union {cur}
    <3>1. cur \in OutboxOwed \/ OutboxStage[cur] = "deleted"
      <4>1. expense[cur] \in ExpenseRow
        BY <2>3 DEF IInv, TypeOK
      <4>2. Live(cur) \/ expense[cur].state = "deleted"
        BY <2>1, <4>1 DEF OwedInHand, ExpenseRow, Live
      <4> QED
        BY <2>1, <2>3, <4>2 DEF OwedInHand, OutboxOwed, OutboxStage
    <3> QED
      BY <1>1, <2>1, <2>3, <3>1 DEF OUTBOX!Next, OUTBOX!Show
  <2> QED
    BY <2>2, <2>3, ShownStep
<1>3. CASE ~WriteRow
  <2>1. OutboxShown' = OutboxShown
    BY <1>3, ShownStep
  <2>2. CASE SameOwed
    <3>1. OutboxOwed' = OutboxOwed
      BY <2>2 DEF SameOwed, OutboxOwed
    <3> QED
      BY <1>1, <2>1, <3>1 DEF OUTBOX!vars
  <2>3. CASE Cleared
    <3>1. OutboxOwed' = OutboxOwed \ {cur} /\ cur \in Expenses
      BY <1>1, <2>3, JobType DEF Cleared, OutboxOwed
    <3>2. CASE job[cur].status = "none"
      <4>1. OutboxOwed' = OutboxOwed
        BY <3>1, <3>2 DEF OutboxOwed
      <4> QED
        BY <1>1, <2>1, <4>1 DEF OUTBOX!vars
    <3>3. CASE job[cur].status # "none"
      <4>1. cur \in OutboxOwed \intersect OutboxShown
        BY <2>3, <3>1, <3>3 DEF Cleared, OwedInHand, OutboxOwed, OutboxShown
      <4> QED
        BY <1>1, <2>1, <3>1, <4>1 DEF OUTBOX!Next, OUTBOX!Settle
    <3> QED
      BY <3>2, <3>3
  <2> QED
    BY <2>2, <2>3, JobMoves
<1> QED
  BY <1>2, <1>3

\* The drain implements the outbox, whatever fails, is re-queued, re-mapped or crashes.
THEOREM OutboxKept == Spec => ImplementsOutbox
<1>1. Init => OwedInHand /\ OUTBOX!Init
  <2>1. SUFFICES ASSUME Init PROVE OwedInHand /\ OUTBOX!Init
    OBVIOUS
  <2>2. /\ \A e \in Expenses : job[e].status = "none" /\ expense[e].state = "absent"
        /\ sheet = <<>> /\ ~Working
    BY <2>1, JobType DEF Init, NoExpense, Working
  <2>3. OutboxOwed = {} /\ OutboxShown = {} /\ OutboxStage = [e \in Expenses |-> "absent"]
    BY <2>2 DEF OutboxOwed, OutboxShown, OutboxStage, InSheet
  <2> QED
    BY <2>2, <2>3 DEF OwedInHand, OUTBOX!Init
<1>2. IInv /\ OwedInHand /\ [Next]_vars => OwedInHand'
  BY OwedStep
<1>3. IInv /\ OwedInHand /\ [Next]_vars => [OUTBOX!Next]_(OUTBOX!vars)
  <2>1. SUFFICES ASSUME IInv, OwedInHand, [Next]_vars
                 PROVE  OUTBOX!Next \/ UNCHANGED OUTBOX!vars
    OBVIOUS
  <2>2. OutsideMove \/ DrainStep \/ Crash
    BY <2>1 DEF Next, OutsideMove
  <2> QED
    BY <2>1, <2>2, OutsideShows, DrainShows
<1> QED
  BY <1>1, <1>2, <1>3, InitIInv, NextIInv, PTL DEF Spec, ImplementsOutbox, OUTBOX!Spec
-----------------------------------------------------------------------------
(* The drain of the income, which runs after the one of the expenses in the *)
(* same task.                                                               *)

\* What an edit of other months leaves alone.
SameMonth(m) == Of(m)' = Of(m) /\ Total(m)' = Total(m)

MonthsTyped ==
    /\ income \in [Incomes -> Record]
    /\ monthJob \in [Months -> JobStatus]
    /\ drain \in DrainPlaces /\ due \subseteq Months
    /\ drain \notin {"down", "wait", "next"} => month \in Months

\* The rows hold some cells C: that they are sums is said by SheetCurrent.
WorksheetRow(C) == [month : 0..MaxMonth, cell : C, marker : 0..MaxMonth]
SheetTyped == \E C : worksheet \in Seq(WorksheetRow(C))

\* Below the first row there is no header and no month twice.
OneRowBelow ==
    /\ \A i \in 2..Len(worksheet) : worksheet[i].month \in Months
    /\ \A i, j \in 2..Len(worksheet) : worksheet[i].month = worksheet[j].month => i = j

\* The header is written to an empty worksheet, which the drain has just created.
NewWorksheet ==
    /\ ~created => worksheet = <<>>
    /\ drain = "create" => ~created
    /\ drain = "header" => worksheet = <<>>
    /\ drain \in {"header", "look", "write"} => created

\* What the lookup found is the row of the month, or there is none below the first row.
FoundRow ==
    IF found = 0 THEN \A i \in 2..Len(worksheet) : worksheet[i].month # month
    ELSE found \in 2..Len(worksheet) /\ worksheet[found].month = month

\* Between the sum and the clear the drain holds the current total of its month.
WithCell == {"open", "create", "header", "look", "write"}
MonthInHand ==
    /\ drain \in WithCell => cell.amount = Total(month)
    /\ drain = "write" => FoundRow
    /\ drain = "clear" => Current(month)

IncomeInv ==
    /\ MonthsTyped /\ SheetTyped /\ OneRowBelow /\ NewWorksheet
    /\ MonthInHand /\ SheetCurrent

\* No row without a date has the number of another month.
DatesTellApart == \A m \in Undated, n \in Months : Number(n) = Number(m) => n = m

LEMMA MonthsUnchanged ==
    ASSUME UNCHANGED income, NEW m
    PROVE  SameMonth(m)
BY DEF SameMonth, Of, Total, Amounts

LEMMA CurrentUnchanged ==
    ASSUME NEW m, SameMonth(m), UNCHANGED worksheet
    PROVE  Current(m)' = Current(m)
BY DEF SameMonth, Current, WrittenFor

LEMMA SheetUnchanged ==
    ASSUME IncomeInv, UNCHANGED <<created, worksheet>>,
           drain' \notin {"create", "header", "look", "write"} \/ drain' = drain
    PROVE  SheetTyped' /\ OneRowBelow' /\ NewWorksheet'
BY DEF IncomeInv, SheetTyped, OneRowBelow, NewWorksheet

LEMMA OtherMonth ==
    ASSUME MonthsTyped, NEW i \in Incomes, NEW r, income' = [income EXCEPT ![i] = r],
           NEW n \in Months, income[i].month # n, r.month # n
    PROVE  SameMonth(n)
<1>1. Of(n)' = Of(n)
  BY DEF Of, MonthsTyped
<1>2. \A j \in Of(n) : income'[j] = income[j]
  BY DEF Of, MonthsTyped
<1>3. Amounts(n)' = Amounts(n)
  BY <1>1, <1>2 DEF Amounts
<1> QED
  BY <1>1, <1>3 DEF SameMonth, Total

\* An edit of one record that keeps away from the month in hand and queues, or
\* empties, the months it touches.
LEMMA IncomeEditStep ==
    ASSUME IncomeInv, NEW i \in Incomes, NEW r \in Record,
           income' = [income EXCEPT ![i] = r], UNCHANGED <<created, worksheet, drain, due, month, cell, found>>,
           ~InHand(income[i].month), ~InHand(r.month),
           monthJob' \in [Months -> JobStatus],
           \A n \in Months \ {income[i].month, r.month} : monthJob'[n] = monthJob[n],
           \A n \in Months \cap {income[i].month, r.month} : monthJob'[n] = "none" => Of(n)' = {}
    PROVE  IncomeInv'
<1>1. MonthsTyped'
  BY DEF IncomeInv, MonthsTyped
<1>2. \A n \in Months \ {income[i].month, r.month} : SameMonth(n)
  BY OtherMonth DEF IncomeInv
<1>3. MonthInHand'
  <2>1. SUFFICES ASSUME drain \in WithCell \union {"clear"} PROVE SameMonth(month)
    BY <2>1, CurrentUnchanged DEF MonthInHand, IncomeInv, SameMonth, FoundRow
  <2>2. month \in Months /\ month # income[i].month /\ month # r.month
    BY <2>1 DEF IncomeInv, MonthsTyped, InHand, WithCell
  <2> QED
    BY <1>2, <2>2
<1>4. SheetCurrent'
  <2>1. SUFFICES ASSUME NEW n \in Months, monthJob'[n] = "none", Of(n)' # {}
                 PROVE  Current(n)'
    BY <2>1 DEF SheetCurrent
  <2>2. n \notin {income[i].month, r.month}
    BY <2>1
  <2>3. SameMonth(n) /\ monthJob[n] = "none"
    BY <1>2, <2>1, <2>2
  <2> QED
    BY <2>1, <2>3, CurrentUnchanged DEF IncomeInv, SheetCurrent, SameMonth
<1> QED
  BY <1>1, <1>3, <1>4, SheetUnchanged DEF IncomeInv

LEMMA IncomeTypes ==
    /\ NoRecord \in Record /\ 0 \notin Months
    /\ \A m \in Months, a \in 1..MaxAmount : [month |-> m, amount |-> a] \in Record
BY MonthsAssumption DEF NoRecord, Record, Months

LEMMA IncomeInsertStep ==
    ASSUME IncomeInv, "busy" \notin Failures,
           NEW i \in Incomes, NEW m \in Months, NEW a \in 1..MaxAmount, Insert(i, m, a)
    PROVE  IncomeInv'
<1> DEFINE r == [month |-> m, amount |-> a]
<1>1. r \in Record /\ r.month = m
  BY IncomeTypes
<1>2. income[i].month = 0 /\ ~InHand(0) /\ ~InHand(m)
  BY IncomeTypes DEF Insert, Editable, NoRecord, InHand, IncomeInv, MonthsTyped
<1>3. monthJob' = [monthJob EXCEPT ![m] = "pending"] /\ monthJob \in [Months -> JobStatus]
  BY DEF Insert, Enqueue, IncomeInv, MonthsTyped
<1>4. /\ monthJob' \in [Months -> JobStatus]
      /\ \A n \in Months \ {income[i].month, r.month} : monthJob'[n] = monthJob[n]
      /\ \A n \in Months \cap {income[i].month, r.month} : monthJob'[n] = "none" => Of(n)' = {}
  BY <1>1, <1>2, <1>3, IncomeTypes DEF JobStatus
<1>5. income' = [income EXCEPT ![i] = r] /\ UNCHANGED <<created, worksheet, drain, due, month, cell, found>>
  BY DEF Insert, sweep, spreadsheet
<1> QED
  BY <1>1, <1>2, <1>4, <1>5, IncomeEditStep

LEMMA IncomeUpdateStep ==
    ASSUME IncomeInv, "busy" \notin Failures,
           NEW i \in Incomes, NEW m \in Months, NEW a \in 1..MaxAmount, Update(i, m, a)
    PROVE  IncomeInv'
<1> DEFINE r == [month |-> m, amount |-> a]
           old == income[i].month
<1>1. r \in Record /\ r.month = m
  BY IncomeTypes
<1>2. ~InHand(old) /\ ~InHand(m) /\ income \in [Incomes -> Record]
  BY DEF Update, Editable, IncomeInv, MonthsTyped
<1>3. /\ monthJob \in [Months -> JobStatus]
      /\ old = m => monthJob' = [monthJob EXCEPT ![m] = "pending"]
      /\ old # m => monthJob' = [[monthJob EXCEPT ![m] = "pending"] EXCEPT
                              ![old] = IF Of(old) = {i} THEN "none" ELSE "pending"]
  BY DEF Update, Enqueue, IncomeInv, MonthsTyped
<1>4. income' = [income EXCEPT ![i] = r] /\ UNCHANGED <<created, worksheet, drain, due, month, cell, found>>
  BY DEF Update, sweep, spreadsheet
<1>5. \A n \in Months : n = old /\ n # m /\ Of(n) = {i} => Of(n)' = {}
  BY <1>1, <1>2, <1>4 DEF Of
<1>6. /\ monthJob' \in [Months -> JobStatus]
      /\ \A n \in Months \ {old, r.month} : monthJob'[n] = monthJob[n]
      /\ \A n \in Months \cap {old, r.month} : monthJob'[n] = "none" => Of(n)' = {}
  <2>1. CASE old = m
    BY <1>1, <1>3, <2>1 DEF JobStatus
  <2>2. CASE old # m
    BY <1>1, <1>3, <1>5, <2>2 DEF JobStatus
  <2> QED
    BY <2>1, <2>2
<1> QED
  BY <1>1, <1>2, <1>4, <1>6, IncomeEditStep

LEMMA IncomeDeleteStep ==
    ASSUME IncomeInv, "busy" \notin Failures, "thin" \notin Failures,
           NEW i \in Incomes, Delete(i)
    PROVE  IncomeInv'
<1> DEFINE old == income[i].month
<1>1. NoRecord \in Record /\ NoRecord.month = 0 /\ ~InHand(0)
  BY IncomeTypes DEF NoRecord, InHand, IncomeInv, MonthsTyped
<1>2. ~InHand(old) /\ Of(old) = {i} /\ income \in [Incomes -> Record] /\ old # 0
  BY DEF Delete, Editable, IncomeInv, MonthsTyped
<1>3. monthJob' = [monthJob EXCEPT ![old] = "none"] /\ monthJob \in [Months -> JobStatus]
  BY <1>2 DEF Delete, IncomeInv, MonthsTyped
<1>4. income' = [income EXCEPT ![i] = NoRecord] /\ UNCHANGED <<created, worksheet, drain, due, month, cell, found>>
  BY DEF Delete, sweep, spreadsheet
<1>5. \A n \in Months : n = old => Of(n)' = {}
  BY <1>1, <1>2, <1>4 DEF Of
<1>6. /\ monthJob' \in [Months -> JobStatus]
      /\ \A n \in Months \ {old, NoRecord.month} : monthJob'[n] = monthJob[n]
      /\ \A n \in Months \cap {old, NoRecord.month} : monthJob'[n] = "none" => Of(n)' = {}
  BY <1>1, <1>3, <1>5, IncomeTypes DEF JobStatus
<1> QED
  BY <1>1, <1>2, <1>4, <1>6, IncomeEditStep

\* A step that leaves the records and the sheet alone and clears no job, and takes the
\* drain to a place where it holds no amount.
LEMMA PlainMonthStep ==
    ASSUME IncomeInv, UNCHANGED <<income, created, worksheet>>,
           monthJob' \in [Months -> JobStatus],
           \A n \in Months : monthJob'[n] = "none" => monthJob[n] = "none" \/ Of(n) = {},
           drain' \in DrainPlaces \ (WithCell \union {"clear"}), due' \subseteq Months,
           drain' \notin {"down", "wait", "next"} => month' \in Months
    PROVE  IncomeInv'
<1>1. \A n \in Months : SameMonth(n) /\ Current(n)' = Current(n)
  BY MonthsUnchanged, CurrentUnchanged
<1>2. SheetCurrent'
  BY <1>1 DEF SheetCurrent, SameMonth, IncomeInv
<1>3. SheetTyped' /\ OneRowBelow' /\ NewWorksheet'
  BY SheetUnchanged DEF WithCell
<1>4. MonthsTyped' /\ MonthInHand'
  BY DEF IncomeInv, MonthsTyped, MonthInHand, WithCell
<1> QED
  BY <1>2, <1>3, <1>4 DEF IncomeInv

\* The steps of the drain that neither look at the sheet nor write to it.
LEMMA QuietMonthStep ==
    ASSUME IncomeInv,
           StartIncomeDrain \/ IncomeDrainDone \/ ClaimIncomeJob \/ RaiseTransient \/ RaisePermanent
             \/ MarkPoisoned \/ ComeBack \/ RequeueMonths \/ Outage
    PROVE  IncomeInv'
<1>1. /\ UNCHANGED <<income, created, worksheet>>
      /\ drain \in DrainPlaces /\ due \subseteq Months /\ monthJob \in [Months -> JobStatus]
      /\ drain \notin {"down", "wait", "next"} => month \in Months
  BY DEF IncomeInv, MonthsTyped, StartIncomeDrain, IncomeDrainDone, ClaimIncomeJob,
         RaiseTransient, RaisePermanent, MarkPoisoned, ComeBack, RequeueMonths, Outage, spreadsheet
<1>2. /\ monthJob' \in [Months -> JobStatus]
      /\ \A n \in Months : monthJob'[n] = "none" => monthJob[n] = "none"
  BY <1>1 DEF StartIncomeDrain, IncomeDrainDone, ClaimIncomeJob, RaiseTransient,
              RaisePermanent, MarkPoisoned, ComeBack, RequeueMonths, Outage, HandleException, GiveBack, JobStatus
<1>3. CASE RequeueMonths
  <2>1. UNCHANGED <<drain, due, month, cell, found>>
    BY <1>3 DEF RequeueMonths, sweep
  <2>2. \A n : SameMonth(n) /\ Current(n)' = Current(n)
    BY <1>1, MonthsUnchanged, CurrentUnchanged
  <2>3. MonthsTyped' /\ SheetCurrent'
    BY <1>1, <1>2, <2>1, <2>2 DEF IncomeInv, MonthsTyped, SheetCurrent, SameMonth
  <2>4. MonthInHand'
    BY <1>1, <2>1, <2>2 DEF IncomeInv, MonthsTyped, MonthInHand, SameMonth, FoundRow
  <2> QED
    BY <1>1, <2>1, <2>3, <2>4, SheetUnchanged DEF IncomeInv
<1>4. CASE ~RequeueMonths
  <2>1. /\ drain' \in DrainPlaces \ (WithCell \union {"clear"}) /\ due' \subseteq Months
        /\ drain' \notin {"down", "wait", "next"} => month' \in Months
    BY <1>1, <1>4 DEF StartIncomeDrain, IncomeDrainDone, ClaimIncomeJob, RaiseTransient,
         RaisePermanent, MarkPoisoned, ComeBack, Outage, ForgetMonths, MonthDone, sweep, DrainPlaces, ListedMonths,
         WithCell
  <2> QED
    BY <1>1, <1>2, <2>1, PlainMonthStep
<1> QED
  BY <1>3, <1>4

LEMMA SumMonthStep ==
    ASSUME IncomeInv, SumUp
    PROVE  IncomeInv'
<1>1. /\ month \in Months /\ UNCHANGED <<income, created, worksheet>>
      /\ monthJob \in [Months -> JobStatus]
      /\ UNCHANGED due /\ due \subseteq Months
  BY DEF IncomeInv, MonthsTyped, SumUp, MonthDone, spreadsheet
<1>2. \A n : SameMonth(n) /\ Current(n)' = Current(n)
  BY <1>1, MonthsUnchanged, CurrentUnchanged
<1>3. CASE Of(month) = {}
  BY <1>1, <1>3, PlainMonthStep DEF SumUp, MonthDone, JobStatus, DrainPlaces, WithCell
<1>4. CASE Of(month) # {}
  <2>1. UNCHANGED <<monthJob, month>> /\ cell'.amount = Total(month) /\ drain' = "open"
    BY <1>4 DEF SumUp, Converted, Unconverted
  <2>2. MonthsTyped' /\ SheetCurrent'
    BY <1>1, <1>2, <2>1 DEF IncomeInv, MonthsTyped, SheetCurrent, SameMonth, DrainPlaces
  <2>3. MonthInHand'
    BY <1>1, <1>2, <2>1 DEF MonthInHand, SameMonth, WithCell
  <2> QED
    BY <1>1, <2>1, <2>2, <2>3, SheetUnchanged DEF IncomeInv
<1> QED
  BY <1>3, <1>4

\* A request that was refused, or whose answer was lost without a change of the rows.
LEMMA FailedMonthStep ==
    ASSUME IncomeInv, NEW kind \in {"raise", "poison"}, Fails(kind),
           UNCHANGED <<income, monthJob, worksheet>>, drain \in WithCell \union {"clear"},
           created' = created \/ created'
    PROVE  IncomeInv'
<1>1. \A n \in Months : SameMonth(n) /\ Current(n)' = Current(n)
  BY MonthsUnchanged, CurrentUnchanged
<1>2. MonthsTyped' /\ MonthInHand' /\ NewWorksheet'
  BY DEF IncomeInv, MonthsTyped, MonthInHand, NewWorksheet, Fails, WithCell, DrainPlaces
<1>3. SheetCurrent'
  BY <1>1 DEF IncomeInv, SheetCurrent, SameMonth
<1>4. SheetTyped' /\ OneRowBelow'
  BY DEF IncomeInv, SheetTyped, OneRowBelow
<1> QED
  BY <1>2, <1>3, <1>4 DEF IncomeInv

\* A step to the next request of the month in hand, which writes no row.
LEMMA OnwardMonthStep ==
    ASSUME IncomeInv, drain \in WithCell, drain' \in WithCell,
           UNCHANGED <<income, monthJob, worksheet, due, month, cell>>,
           NewWorksheet', drain' = "write" => FoundRow'
    PROVE  IncomeInv'
<1>1. \A n : SameMonth(n) /\ Current(n)' = Current(n)
  BY MonthsUnchanged, CurrentUnchanged
<1>2. MonthsTyped'
  BY DEF IncomeInv, MonthsTyped, WithCell, DrainPlaces
<1>3. MonthInHand'
  BY <1>1 DEF IncomeInv, MonthInHand, WithCell, SameMonth
<1>4. SheetCurrent'
  BY <1>1 DEF IncomeInv, SheetCurrent, SameMonth
<1>5. SheetTyped' /\ OneRowBelow'
  BY DEF IncomeInv, SheetTyped, OneRowBelow
<1> QED
  BY <1>2, <1>3, <1>4, <1>5 DEF IncomeInv

LEMMA RefusedMonthStep ==
    ASSUME IncomeInv, Refused, drain \in WithCell,
           UNCHANGED <<income, monthJob, created, worksheet>>
    PROVE  IncomeInv'
BY FailedMonthStep DEF Refused

LEMMA CreateMonthStep ==
    ASSUME IncomeInv, OpenWorksheet \/ AddWorksheet
    PROVE  IncomeInv'
<1>1. UNCHANGED <<income, monthJob, worksheet>> /\ drain \in WithCell
  BY DEF OpenWorksheet, AddWorksheet, spreadsheet, WithCell
<1>2. CASE Refused /\ UNCHANGED created
  BY <1>1, <1>2, RefusedMonthStep
<1>3. CASE created' = TRUE /\ Fails("raise")
  BY <1>1, <1>3, FailedMonthStep
<1>4. CASE drain' = (IF created THEN "look" ELSE "create") /\ UNCHANGED <<created, sweep>>
  <2>1. NewWorksheet' /\ drain' \in WithCell /\ drain' # "write"
    BY <1>1, <1>4 DEF IncomeInv, NewWorksheet, WithCell
  <2> QED
    BY <1>1, <1>4, <2>1, OnwardMonthStep DEF sweep
<1>5. CASE AddWorksheet /\ created' = TRUE /\ drain' = "header" /\ UNCHANGED sweep
  <2>1. NewWorksheet' /\ drain' \in WithCell /\ drain' # "write"
    BY <1>1, <1>5 DEF AddWorksheet, IncomeInv, NewWorksheet, WithCell
  <2> QED
    BY <1>1, <1>5, <2>1, OnwardMonthStep DEF sweep
<1> QED
  BY <1>2, <1>3, <1>4, <1>5 DEF OpenWorksheet, AddWorksheet, spreadsheet

\* The header goes to an empty worksheet, in which no month was current.
LEMMA HeaderMonthStep ==
    ASSUME IncomeInv, WriteHeader
    PROVE  IncomeInv'
<1>1. /\ UNCHANGED <<income, monthJob, created>> /\ drain = "header" /\ worksheet = <<>>
  BY DEF WriteHeader, IncomeInv, NewWorksheet
<1>2. CASE Refused /\ UNCHANGED worksheet
  BY <1>1, <1>2, RefusedMonthStep DEF WithCell
<1>3. CASE worksheet' = <<Header>> /\ drain' \in {"look", "raise"} /\ UNCHANGED <<due, month>>
           /\ (drain' = "look" => UNCHANGED cell)
  <2>1. \A n \in Months : SameMonth(n) /\ ~Current(n)
    BY <1>1, MonthsUnchanged DEF Current, WrittenFor
  <2>2. SheetCurrent'
    BY <1>1, <2>1 DEF IncomeInv, SheetCurrent, SameMonth
  <2>3. worksheet' \in Seq(WorksheetRow({NoCell}))
    BY <1>3, MonthsAssumption DEF Header, WorksheetRow
  <2>4. SheetTyped' /\ OneRowBelow'
    BY <1>3, <2>3 DEF SheetTyped, OneRowBelow
  <2>5. MonthsTyped' /\ MonthInHand'
    BY <1>1, <1>3, <2>1 DEF IncomeInv, MonthsTyped, MonthInHand, WithCell, DrainPlaces, SameMonth
  <2>6. NewWorksheet'
    BY <1>1, <1>3 DEF IncomeInv, NewWorksheet, WriteHeader
  <2> QED
    BY <2>2, <2>4, <2>5, <2>6 DEF IncomeInv
<1> QED
  BY <1>2, <1>3 DEF WriteHeader, Fails, sweep

LEMMA MonthsApart ==
    ASSUME NEW m \in Months, NEW n \in Months, Number(m) = Number(n), Year(m) = Year(n)
    PROVE  m = n
BY MonthsAssumption DEF Number, Year, Months

\* The lookup finds the rows of the month and no others.
LEMMA FindsMonth ==
    ASSUME IncomeInv, DatesTellApart, NEW m \in Months
    PROVE  RowsFound(m) = {i \in 2..Len(worksheet) : worksheet[i].month = m}
<1>1. SUFFICES ASSUME NEW i \in 2..Len(worksheet)
               PROVE  Matches(i, m) <=> worksheet[i].month = m
  BY <1>1 DEF RowsFound
<1>2. worksheet[i].month \in Months
  BY DEF IncomeInv, OneRowBelow
<1> QED
  BY <1>2, MonthsApart DEF Matches, DatesTellApart

LEMMA LookUpMonthStep ==
    ASSUME IncomeInv, DatesTellApart, LookUp
    PROVE  IncomeInv'
<1>1. /\ month \in Months /\ UNCHANGED <<income, monthJob, created, worksheet>>
      /\ drain = "look" /\ drain \in WithCell /\ cell.amount = Total(month)
  BY DEF IncomeInv, MonthsTyped, MonthInHand, LookUp, spreadsheet, WithCell
<1>2. RowsFound(month) = {i \in 2..Len(worksheet) : worksheet[i].month = month}
  BY <1>1, FindsMonth
<1>3. CASE Refused
  BY <1>1, <1>3, RefusedMonthStep
<1>4. CASE drain' = "write" /\ UNCHANGED <<due, month, cell>>
           /\ (found' \in RowsFound(month) \/ (found' = 0 /\ RowsFound(month) = {}))
  <2>1. FoundRow'
    BY <1>1, <1>2, <1>4 DEF FoundRow
  <2> QED
    BY <1>1, <1>4, <2>1, OnwardMonthStep DEF WithCell, NewWorksheet, IncomeInv
<1>5. CASE drain' = "clear" /\ UNCHANGED <<due, month, cell>>
           /\ found' \in RowsFound(month) /\ Shown(found')
  <2>1. \A n : SameMonth(n) /\ Current(n)' = Current(n)
    BY <1>1, MonthsUnchanged, CurrentUnchanged
  <2>2. found' \in 2..Len(worksheet) /\ worksheet[found'].month = month
        /\ worksheet[found'].cell.amount = Total(month)
    BY <1>1, <1>2, <1>5 DEF Shown
  <2>3. Len(worksheet) \in Nat
    BY DEF IncomeInv, SheetTyped
  <2>4. \A j \in WrittenFor(month) \ {found'} : j = 1
    BY <2>2, <2>3 DEF IncomeInv, OneRowBelow, WrittenFor
  <2>5. Current(month)
    BY <2>2, <2>3, <2>4 DEF Current, WrittenFor
  <2>6. MonthsTyped' /\ SheetCurrent'
    BY <1>1, <1>5, <2>1 DEF IncomeInv, MonthsTyped, SheetCurrent, SameMonth, DrainPlaces
  <2>7. MonthInHand'
    BY <1>1, <1>5, <2>1, <2>5 DEF MonthInHand, SameMonth, WithCell
  <2> QED
    BY <1>1, <1>5, <2>6, <2>7, SheetUnchanged DEF IncomeInv
<1> QED
  BY <1>3, <1>4, <1>5 DEF LookUp

\* Updating the row found or appending one puts the cell in the sheet, leaves no other
\* row of the month below the first one, and the rows of other months as they are.
LEMMA CellWritten ==
    ASSUME IncomeInv, drain = "write", SheetWritten, UNCHANGED month
    PROVE  /\ SheetTyped' /\ OneRowBelow'
           /\ \E i \in WrittenFor(month)' :
                 worksheet'[i].cell = cell /\ \A j \in WrittenFor(month)' \ {i} : j = 1
           /\ \A n \in Months \ {month} :
                 /\ WrittenFor(n)' = WrittenFor(n)
                 /\ \A i \in WrittenFor(n) : worksheet'[i] = worksheet[i]
<1>1. month \in Months /\ FoundRow /\ OneRowBelow /\ month \in 0..MaxMonth
  BY MonthsAssumption DEF IncomeInv, MonthsTyped, MonthInHand, Months
<1>2. PICK C : worksheet \in Seq(WorksheetRow(C))
  BY DEF IncomeInv, SheetTyped
<1> DEFINE R == WorksheetRow(C \union {cell})
<1>3. worksheet \in Seq(R) /\ Len(worksheet) \in Nat
  <2>1. WorksheetRow(C) \subseteq R
    BY DEF WorksheetRow
  <2>2. worksheet \in Seq(R)
    BY <1>2, <2>1, SeqMonotonic, Zenon
  <2> QED
    BY <1>2, <2>2
<1>4. CASE found = 0
  <2>1. NewMonthRow \in R /\ NewMonthRow.month = month /\ NewMonthRow.cell = cell
    BY <1>1 DEF NewMonthRow, WorksheetRow
  <2> HIDE DEF R
  <2>2. worksheet' = Append(worksheet, NewMonthRow)
    BY <1>4 DEF SheetWritten
  <2>3. /\ worksheet' \in Seq(R) /\ Len(worksheet') = Len(worksheet) + 1
        /\ \A i \in 1..Len(worksheet) : worksheet'[i] = worksheet[i]
        /\ worksheet'[Len(worksheet) + 1] = NewMonthRow
    BY <1>3, <2>1, <2>2
  <2>4. SheetTyped'
    BY <2>3 DEF SheetTyped, R
  <2>5. OneRowBelow'
    BY <1>1, <1>3, <1>4, <2>1, <2>3 DEF OneRowBelow, FoundRow
  <2>6. \A n \in Months \ {month} :
           WrittenFor(n)' = WrittenFor(n) /\ \A i \in WrittenFor(n) : worksheet'[i] = worksheet[i]
    BY <1>3, <2>1, <2>3 DEF WrittenFor
  <2>7. /\ Len(worksheet) + 1 \in WrittenFor(month)'
        /\ \A j \in WrittenFor(month)' \ {Len(worksheet) + 1} : j = 1
    <3>1. Len(worksheet) + 1 \in WrittenFor(month)'
      BY <1>3, <2>1, <2>3 DEF WrittenFor
    <3>2. SUFFICES ASSUME NEW j \in WrittenFor(month)', j # Len(worksheet) + 1 PROVE j = 1
      BY <3>1
    <3>3. j \in 1..Len(worksheet) /\ worksheet[j].month = month
      BY <1>3, <2>3, <3>2 DEF WrittenFor
    <3> QED
      BY <1>1, <1>3, <1>4, <3>3 DEF FoundRow
  <2> QED
    BY <2>1, <2>3, <2>4, <2>5, <2>6, <2>7
<1>5. CASE found # 0
  <2> DEFINE new == [worksheet[found] EXCEPT !.cell = cell, !.marker = month]
  <2>1. found \in 2..Len(worksheet) /\ worksheet[found].month = month /\ worksheet[found] \in R
    BY <1>1, <1>3, <1>5 DEF FoundRow
  <2>2. new \in R /\ new.month = month /\ new.cell = cell
    BY <1>1, <2>1 DEF WorksheetRow
  <2>3. worksheet' = [worksheet EXCEPT ![found] = new]
    BY <1>5 DEF SheetWritten
  <2> HIDE DEF R, new
  <2>4. /\ worksheet' \in Seq(R) /\ Len(worksheet') = Len(worksheet)
        /\ \A i \in 1..Len(worksheet) : i # found => worksheet'[i] = worksheet[i]
        /\ worksheet'[found] = new
    BY <1>3, <2>1, <2>2, <2>3
  <2>5. SheetTyped'
    BY <2>4 DEF SheetTyped, R
  <2>6. \A i \in 1..Len(worksheet) : worksheet'[i].month = worksheet[i].month
    BY <2>1, <2>2, <2>4
  <2>7. OneRowBelow'
    BY <1>1, <1>3, <2>4, <2>6 DEF OneRowBelow
  <2>8. \A n \in Months \ {month} :
           WrittenFor(n)' = WrittenFor(n) /\ \A i \in WrittenFor(n) : worksheet'[i] = worksheet[i]
    BY <1>3, <2>1, <2>4, <2>6 DEF WrittenFor
  <2>9. found \in WrittenFor(month)' /\ \A j \in WrittenFor(month)' \ {found} : j = 1
    <3>1. found \in WrittenFor(month)'
      BY <1>3, <2>1, <2>4, <2>6 DEF WrittenFor
    <3>2. SUFFICES ASSUME NEW j \in WrittenFor(month)', j # found PROVE j = 1
      BY <3>1
    <3>3. j \in 1..Len(worksheet) /\ worksheet[j].month = month
      BY <2>4, <2>6, <3>2 DEF WrittenFor
    <3> QED
      BY <1>1, <1>3, <2>1, <3>2, <3>3 DEF OneRowBelow
  <2> QED
    BY <2>2, <2>4, <2>5, <2>7, <2>8, <2>9
<1> QED
  BY <1>4, <1>5

LEMMA WriteMonthStep ==
    ASSUME IncomeInv, WriteMonth
    PROVE  IncomeInv'
<1>1. /\ month \in Months /\ UNCHANGED <<income, monthJob, created>>
      /\ drain = "write" /\ drain \in WithCell /\ cell.amount = Total(month)
  BY DEF IncomeInv, MonthsTyped, MonthInHand, WriteMonth, WithCell
<1>2. CASE Refused /\ UNCHANGED worksheet
  BY <1>1, <1>2, RefusedMonthStep
<1>3. CASE SheetWritten /\ drain' \in {"clear", "raise"} /\ UNCHANGED <<due, month>>
  <2>1. \A n : SameMonth(n)
    BY <1>1, MonthsUnchanged
  <2>2. Current(month)'
    BY <1>1, <1>3, <2>1, CellWritten DEF Current, SameMonth
  <2>3. \A n \in Months \ {month} : Current(n) => Current(n)'
    <3>1. SUFFICES ASSUME NEW n \in Months \ {month}, Current(n) PROVE Current(n)'
      OBVIOUS
    <3>2. WrittenFor(n)' = WrittenFor(n) /\ \A i \in WrittenFor(n) : worksheet'[i] = worksheet[i]
      BY <1>1, <1>3, CellWritten
    <3> QED
      BY <2>1, <3>1, <3>2 DEF Current, SameMonth
  <2>4. SheetCurrent'
    <3>1. SUFFICES ASSUME NEW n \in Months, monthJob'[n] = "none", Of(n)' # {}
                   PROVE  Current(n)'
      BY DEF SheetCurrent
    <3>2. CASE n = month
      BY <1>3, <2>2, <3>2 DEF Current, WrittenFor
    <3>3. CASE n # month
      BY <1>1, <2>1, <2>3, <3>1, <3>3 DEF IncomeInv, SheetCurrent, SameMonth
    <3> QED
      BY <3>2, <3>3
  <2>5. MonthsTyped' /\ MonthInHand'
    BY <1>1, <1>3, <2>2 DEF IncomeInv, MonthsTyped, MonthInHand, WithCell, DrainPlaces
  <2>6. created
    BY <1>1 DEF IncomeInv, NewWorksheet
  <2>7. NewWorksheet'
    BY <1>1, <1>3, <2>6 DEF NewWorksheet
  <2> QED
    BY <1>1, <1>3, <2>4, <2>5, <2>7, CellWritten DEF IncomeInv
<1> QED
  BY <1>2, <1>3 DEF WriteMonth, Fails, sweep

LEMMA ClearMonthStep ==
    ASSUME IncomeInv, ClearIncomeJob
    PROVE  IncomeInv'
<1>1. /\ month \in Months /\ Current(month) /\ UNCHANGED <<income, created, worksheet>>
      /\ monthJob \in [Months -> JobStatus] /\ UNCHANGED due /\ due \subseteq Months
      /\ drain = "clear"
  BY DEF IncomeInv, MonthsTyped, MonthInHand, ClearIncomeJob, MonthDone, Fails, spreadsheet
<1>2. \A n : SameMonth(n) /\ Current(n)' = Current(n)
  BY <1>1, MonthsUnchanged, CurrentUnchanged
<1>3. CASE monthJob' = monthJob /\ Fails("poison")
  BY <1>1, <1>3, FailedMonthStep
<1>4. CASE monthJob' = [monthJob EXCEPT ![month] = "none"] /\ MonthDone
  <2>1. monthJob' \in [Months -> JobStatus] /\ \A n \in Months : n # month => monthJob'[n] = monthJob[n]
    BY <1>1, <1>4 DEF JobStatus
  <2>2. MonthsTyped' /\ MonthInHand'
    BY <1>1, <1>4, <2>1 DEF IncomeInv, MonthsTyped, MonthInHand, MonthDone, DrainPlaces, WithCell
  <2>3. SheetCurrent'
    BY <1>1, <1>2, <2>1 DEF IncomeInv, SheetCurrent, SameMonth
  <2> QED
    BY <1>1, <1>4, <2>2, <2>3, SheetUnchanged DEF IncomeInv, MonthDone
<1> QED
  BY <1>3, <1>4 DEF ClearIncomeJob

LEMMA MonthStutter ==
    ASSUME IncomeInv,
           UNCHANGED <<income, monthJob, created, worksheet, drain, due, month, cell, found>>
    PROVE  IncomeInv'
<1>1. \A n : SameMonth(n) /\ Current(n)' = Current(n)
  BY MonthsUnchanged, CurrentUnchanged
<1>2. MonthsTyped' /\ SheetCurrent'
  BY <1>1 DEF IncomeInv, MonthsTyped, SheetCurrent, SameMonth
<1>3. MonthInHand'
  BY <1>1 DEF IncomeInv, MonthsTyped, MonthInHand, SameMonth, FoundRow
<1> QED
  BY <1>2, <1>3, SheetUnchanged DEF IncomeInv

LEMMA InitIncome == IncomeInit => IncomeInv
<1>1. SUFFICES ASSUME IncomeInit PROVE IncomeInv
  OBVIOUS
<1>2. MonthsTyped /\ MonthInHand /\ NewWorksheet /\ OneRowBelow
  BY <1>1, IncomeTypes DEF IncomeInit, MonthsTyped, MonthInHand, JobStatus, DrainPlaces,
                           WithCell, NewWorksheet, OneRowBelow
<1>3. \A m \in Months : Of(m) = {}
  BY <1>1, IncomeTypes DEF IncomeInit, Of, NoRecord
<1>4. worksheet \in Seq(WorksheetRow({}))
  BY <1>1 DEF IncomeInit
<1> QED
  BY <1>2, <1>3, <1>4 DEF IncomeInv, SheetCurrent, SheetTyped

LEMMA NextIncome ==
    ASSUME "busy" \notin Failures, "thin" \notin Failures, DatesTellApart
    PROVE  IncomeInv /\ [IncomeNext]_incomeVars => IncomeInv'
<1>1. SUFFICES ASSUME IncomeInv, [IncomeNext]_incomeVars PROVE IncomeInv'
  OBVIOUS
<1>2. CASE \E i \in Incomes, m \in Months, a \in 1..MaxAmount : Insert(i, m, a)
  BY <1>1, <1>2, IncomeInsertStep
<1>3. CASE \E i \in Incomes, m \in Months, a \in 1..MaxAmount : Update(i, m, a)
  BY <1>1, <1>3, IncomeUpdateStep
<1>4. CASE \E i \in Incomes : Delete(i)
  BY <1>1, <1>4, IncomeDeleteStep
<1>5. CASE PauseOver \/ UNCHANGED incomeVars
  BY <1>1, <1>5, MonthStutter DEF PauseOver, incomeVars, sweep, spreadsheet
<1>6. CASE StartIncomeDrain \/ IncomeDrainDone \/ ClaimIncomeJob \/ RaiseTransient \/ RaisePermanent
             \/ MarkPoisoned \/ ComeBack \/ RequeueMonths \/ Outage
  BY <1>1, <1>6, QuietMonthStep
<1>7. CASE SumUp \/ OpenWorksheet \/ AddWorksheet \/ WriteHeader
  BY <1>1, <1>7, SumMonthStep, CreateMonthStep, HeaderMonthStep
<1>8. CASE LookUp \/ WriteMonth \/ ClearIncomeJob
  BY <1>1, <1>8, LookUpMonthStep, WriteMonthStep, ClearMonthStep
<1> QED
  BY <1>1, <1>2, <1>3, <1>4, <1>5, <1>6, <1>7, <1>8 DEF IncomeNext, IncomeStep

\* While no month is changed in the drain's hands, no record deleted from a month that
\* keeps others, and no date lost from a row whose number another month has, a month
\* without a job is in the sheet with its sum, and in no other row below the first:
\* whatever failed (the creation of the worksheet and its header too), was retried,
\* poisoned, re-queued or cut short by a crash.
THEOREM SheetShowsSums ==
    ASSUME "busy" \notin Failures, "thin" \notin Failures, DatesTellApart
    PROVE  IncomeSpec => []SheetCurrent
<1>1. IncomeInit => IncomeInv
  BY InitIncome
<1>2. IncomeInv /\ [IncomeNext]_incomeVars => IncomeInv'
  BY NextIncome
<1>3. IncomeInv => SheetCurrent
  BY DEF IncomeInv
<1> QED
  BY <1>1, <1>2, <1>3, PTL DEF IncomeSpec
=============================================================================
