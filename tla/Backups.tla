------------------------------ MODULE Backups ------------------------------
(***************************************************************************)
(* The copies of the production database and the ways back from them.      *)
(* Litestream on VM1 ships the database to VM2; a timer on VM2 restores it *)
(* there, uploads it to Yandex.Disk and prunes the archive; the operator   *)
(* swaps a copy in as the production database over SSH, or wipes both      *)
(* trees of Litestream for a fresh start.  Every command may fail, before  *)
(* or after it took effect.                                                *)
(* Abstractions:                                                           *)
(*   - a database is the set of the writes it holds, in its file or still  *)
(*     in its WAL, and a number that changes when the file is replaced;    *)
(*   - a tree of Litestream is the number of the database it was built     *)
(*     from, 0 if it is empty, and on VM2 what can be restored from it;    *)
(*   - snapshots of one content have one size; others may by chance have   *)
(*     the same one too, which could only make a check fail;               *)
(*   - what is downloaded or restored passes its integrity check, or the   *)
(*     command ends with nothing changed.                                  *)
(***************************************************************************)
EXTENDS Integers, FiniteSets

CONSTANTS
    MaxDay,                \* bound: days 1..MaxDay
    WeekOf, MonthOf, YearOf,  \* the calendar: numbers of the weeks, months, years of the days
    Daily, Weekly, Monthly,   \* BACKUP_RETENTION_*
    StaleDays,             \* BACKUP_STALE_HOURS, in days
    MaxWrites, MaxSnapshots, MaxCommands,  \* bounds
    Faults                 \* "kill": a service that is stopped leaves its WAL behind;
                           \* "minute": a file put aside replaces one of the same minute

Days == 1..MaxDay
Writes == 1..MaxWrites

ASSUME CalendarAssumption ==
    /\ MaxDay \in Nat
    /\ WeekOf \in [Days -> Nat] /\ MonthOf \in [Days -> Nat] /\ YearOf \in [Days -> Nat]
ASSUME RetentionAssumption ==
    Daily \in Nat /\ Weekly \in Nat /\ Monthly \in Nat /\ Daily >= 2 /\ StaleDays \in Nat
ASSUME BoundsAssumption ==
    MaxWrites \in Nat /\ MaxSnapshots \in Nat /\ MaxCommands \in Nat

VARIABLES
    day,         \* today
    written,     \* history: writes so far
    file, wal,   \* dinary.db and dinary.db-wal: the writes in each
    base,        \* which database it is: counts the replacements
    preserved,   \* the dinary.db.before-restore-* files
    up,          \* the services that run on VM1
    shadow,      \* Litestream's tree on VM1
    replica,     \* Litestream's tree on VM2
    backup,      \* the run of dinary-backup.service on VM2
    archive,     \* the snapshots on Yandex.Disk
    uploaded,    \* history: all snapshots there ever were
    op           \* the command of the operator: the step before it, the last one that failed

db == <<written, file, wal, base, preserved>>
trees == <<shadow, replica>>
disk == <<archive, uploaded>>
vars == <<day, db, up, trees, backup, disk, op>>

Services == {"dinary", "litestream"}
Snapshots == [no: Nat, day: Days, has: SUBSET Writes]
Protected == {"preserve", "upload", "swap", "wipe_shadow", "wipe_replica"}   \* the try

LateOrder == [   \* mutant: the old database is put aside after the swap
    stop_dinary |-> "stop_litestream", stop_litestream |-> "upload",
    upload |-> "swap", swap |-> "preserve", preserve |-> "wipe_shadow",
    wipe_shadow |-> "wipe_replica", wipe_replica |-> "start_litestream",
    start_litestream |-> "start_dinary", start_dinary |-> "done"]
\* The step after each step of a restore.
Order == [
    stop_dinary |-> "stop_litestream", stop_litestream |-> "preserve",
    preserve |-> "upload", upload |-> "swap", swap |-> "wipe_shadow",
    wipe_shadow |-> "wipe_replica", wipe_replica |-> "start_litestream",
    start_litestream |-> "start_dinary", start_dinary |-> "done"]
ResyncOrder ==
    [Order EXCEPT !.stop_litestream = "wipe_shadow", !.start_litestream = "done"]
Step == DOMAIN Order

TypeOK ==
    /\ day \in 1..MaxDay
    /\ written \in 0..MaxWrites
    /\ file \subseteq Writes /\ wal \subseteq Writes /\ preserved \subseteq SUBSET Writes
    /\ base \in Nat /\ shadow \in Nat
    /\ up \subseteq Services
    /\ replica \in [base: Nat, has: SUBSET Writes]
    /\ op.cmd \in {"none", "restore", "resync"} /\ op.at \in Step \cup {"done"}
    /\ backup.pc \in {"idle", "upload", "prune"}
    /\ uploaded \subseteq Snapshots /\ IsFiniteSet(uploaded)
    /\ archive \subseteq uploaded /\ backup.delete \subseteq uploaded

NoRun == [pc |-> "idle", has |-> {}, delete |-> {}]

Init ==
    /\ day = 1 /\ written = 0
    /\ file = {} /\ wal = {} /\ base = 1 /\ preserved = {}
    /\ up = Services
    /\ shadow = 1 /\ replica = [base |-> 1, has |-> {}]
    /\ backup = NoRun
    /\ archive = {} /\ uploaded = {}
    /\ op = [no |-> 0, cmd |-> "none", at |-> "done", incoming |-> {}, failed |-> "none"]

Prod == file \cup wal
\* Days turn when the timer fires; a run is over long before.
NewDay ==
    /\ day < MaxDay /\ backup.pc = "idle"
    /\ day' = day + 1
    /\ UNCHANGED <<db, up, trees, backup, disk, op>>
--------------------------------------------------------------------------
(* VM1 *)

\* Expenses, and the rate of the day.
Write ==
    /\ "dinary" \in up /\ written < MaxWrites
    /\ written' = written + 1
    /\ wal' = wal \cup {written + 1}
    /\ UNCHANGED <<day, file, base, preserved, up, trees, backup, disk, op>>

Checkpoint ==
    /\ up # {} /\ wal # {}
    /\ file' = Prod /\ wal' = {}
    /\ UNCHANGED <<day, written, base, preserved, up, trees, backup, disk, op>>

\* The trees continue each other, and the database they were built from.
Fits ==
    /\ shadow \in {0, base}
    /\ replica.base = shadow

\* Litestream ships what is new, or everything when both trees are empty.
Sync ==
    /\ "litestream" \in up /\ Fits
    /\ shadow = 0 \/ replica.has # Prod
    /\ shadow' = base
    /\ replica' = [base |-> base, has |-> Prod]
    /\ UNCHANGED <<day, db, up, backup, disk, op>>
--------------------------------------------------------------------------
(* dinary-backup on VM2 *)

Later(s, S) == {u \in S : u.no > s.no}

\* snaps[-n:]
Newest(S, n) == {s \in S : Cardinality(Later(s, S)) < n}

OldestPer(S, period) ==   \* mutant: the first one of a period stays
    {s \in S : \A u \in S : period[u.day] = period[s.day] => s.no <= u.no}
\* per_week[...] = name, in the order of the names.
NewestPer(S, period) ==
    {s \in S : \A u \in Later(s, S) : period[u.day] # period[s.day]}

LaterPeriods(s, S, period) ==
    {p \in {period[u.day] : u \in S} : p > period[s.day]}

\* sorted(per_week)[-n:]
NewestPeriods(S, period, n) ==
    {s \in NewestPer(S, period) : Cardinality(LaterPeriods(s, S, period)) < n}

NoDailyRule(S) ==   \* mutant
    NewestPeriods(S, WeekOf, Weekly)
        \cup NewestPeriods(S, MonthOf, Monthly)
        \cup NewestPer(S, YearOf)
pick_keepers(S) ==
    Newest(S, Daily)
        \cup NewestPeriods(S, WeekOf, Weekly)
        \cup NewestPeriods(S, MonthOf, Monthly)
        \cup NewestPer(S, YearOf)

\* litestream restore and the integrity check.
TakeSnapshot ==
    /\ backup.pc = "idle" /\ replica.base # 0 /\ Cardinality(uploaded) < MaxSnapshots
    /\ backup' = [backup EXCEPT !.pc = "upload", !.has = replica.has]
    /\ UNCHANGED <<day, db, up, trees, disk, op>>

\* rclone copyto, after which the retention lists the archive; when the answer of
\* the one or the other is lost the script ends.
Upload(answered) ==
    /\ backup.pc = "upload"
    /\ LET s == [no |-> Cardinality(uploaded) + 1, day |-> day, has |-> backup.has]
       IN  uploaded' = uploaded \cup {s} /\ archive' = archive \cup {s}
    /\ backup' = IF answered
                 THEN [pc |-> "prune", has |-> {}, delete |-> archive' \ pick_keepers(archive')]
                 ELSE NoRun
    /\ UNCHANGED <<day, db, up, trees, op>>

\* rclone delete, in the order of the names; check_call ends the run on an error.
Delete(s, answered) ==
    /\ backup.pc = "prune" /\ \A u \in backup.delete : s.no <= u.no
    /\ archive' = archive \ {s}
    /\ backup' = IF answered THEN [backup EXCEPT !.delete = @ \ {s}] ELSE NoRun
    /\ UNCHANGED <<day, db, up, trees, uploaded, op>>

\* A command that failed with no effect, or the end of the list.
BackupEnds ==
    /\ backup.pc # "idle"
    /\ backup' = NoRun
    /\ UNCHANGED <<day, db, up, trees, disk, op>>
--------------------------------------------------------------------------
(* inv restore-yadisk --prod, inv restore-replica --prod, inv replica-resync *)

Idle == op.at = "done"

Start(cmd, first, incoming) ==
    /\ Idle /\ op.no < MaxCommands
    /\ op' = [no |-> op.no + 1, cmd |-> cmd, at |-> first,
              incoming |-> incoming, failed |-> "none"]
    /\ UNCHANGED <<day, db, up, trees, backup, disk>>

\* The latest snapshot, or the first one whose name starts with the date.
pick_snapshot ==
    Newest(archive, 1)
        \cup {s \in archive : \A u \in archive : u.day = s.day => s.no <= u.no}

RestoreFromYadisk == \E s \in pick_snapshot : Start("restore", "stop_dinary", s.has)
\* With --timestamp, up to some write.
RestoreReplica ==
    /\ replica.base # 0
    /\ \E w \in 0..MaxWrites : Start("restore", "stop_dinary", {v \in replica.has : v <= w})
Resync == Start("resync", "stop_litestream", {})

NoFinally(step) == "done"   \* mutant: the command just ends
\* An error inside the try goes to the finally, any other one ends the command.
AfterError(step) ==
    IF op.cmd = "restore" /\ step \in Protected THEN "start_litestream" ELSE "done"
After(step) == IF op.cmd = "restore" THEN Order[step] ELSE ResyncOrder[step]

\* The step is over; it did what it does, whether or not it looks so over SSH.
Over(step, answered) ==
    /\ op.at = step
    /\ op' = [op EXCEPT !.at = IF answered THEN After(step) ELSE AfterError(step),
                        !.failed = IF answered THEN @ ELSE step,
                        !.incoming = IF step = "swap" THEN {} ELSE @]
    /\ UNCHANGED <<day, backup, disk>>

StepFails ==
    /\ ~Idle
    /\ Over(op.at, FALSE)
    /\ UNCHANGED <<db, up, trees>>

\* The last one to close the database checkpoints it, unless it is killed.
Stop(service) ==
    /\ up' = up \ {service}
    /\ \E killed \in IF "kill" \in Faults THEN BOOLEAN ELSE {FALSE} :
          IF up # {} /\ up' = {} /\ ~killed
          THEN file' = Prod /\ wal' = {}
          ELSE UNCHANGED <<file, wal>>
    /\ UNCHANGED <<written, base, preserved, trees>>

StopDinary(ans) == Over("stop_dinary", ans) /\ Stop("dinary")
StopLitestream(ans) == Over("stop_litestream", ans) /\ Stop("litestream")

\* cp of the file alone; the name has the minute.
Preserve(ans) ==
    /\ Over("preserve", ans)
    /\ \E lost \in IF "minute" \in Faults THEN SUBSET preserved ELSE {{}} :
          preserved' = (preserved \ lost) \cup {file}
    /\ UNCHANGED <<written, file, wal, base, up, trees>>

UploadIncoming(ans) ==
    /\ Over("upload", ans)
    /\ UNCHANGED <<db, up, trees>>

\* mv, and rm of the WAL.
Swap(ans) ==
    /\ Over("swap", ans)
    /\ file' = op.incoming /\ wal' = {} /\ base' = base + 1
    /\ UNCHANGED <<written, preserved, up, trees>>

WipeShadow(ans) ==
    /\ Over("wipe_shadow", ans)
    /\ shadow' = 0
    /\ UNCHANGED <<db, up, replica>>

WipeReplica(ans) ==
    /\ Over("wipe_replica", ans)
    /\ replica' = [base |-> 0, has |-> {}]
    /\ UNCHANGED <<db, up, shadow>>

StartLitestream(ans) ==
    /\ Over("start_litestream", ans)
    /\ up' = up \cup {"litestream"}
    /\ UNCHANGED <<db, trees>>

StartDinary(ans) ==
    /\ Over("start_dinary", ans)
    /\ up' = up \cup {"dinary"}
    /\ UNCHANGED <<db, trees>>

\* By hand, after a command that failed.
StartServices ==
    /\ Idle /\ up # Services
    /\ up' = Services
    /\ UNCHANGED <<day, db, trees, backup, disk, op>>
--------------------------------------------------------------------------
Vm1 == Write \/ Checkpoint \/ Sync
Vm2 ==
    \/ TakeSnapshot \/ BackupEnds
    \/ \E ans \in BOOLEAN : Upload(ans) \/ \E s \in backup.delete : Delete(s, ans)
Operator ==
    \/ RestoreFromYadisk \/ RestoreReplica \/ Resync \/ StepFails \/ StartServices
    \/ \E ans \in BOOLEAN :
          \/ StopDinary(ans) \/ StopLitestream(ans)
          \/ Preserve(ans) \/ UploadIncoming(ans) \/ Swap(ans)
          \/ WipeShadow(ans) \/ WipeReplica(ans)
          \/ StartLitestream(ans) \/ StartDinary(ans)

Next == NewDay \/ Vm1 \/ Vm2 \/ Operator
Spec == Init /\ [][Next]_vars
--------------------------------------------------------------------------
(* What has to hold *)

\* A snapshot is pruned when later ones make it superfluous under every rule of the
\* retention, and however prunes are cut short, the last one of a year stays.
HistoryKept ==
    \A s \in uploaded \ archive :
        /\ Cardinality(Later(s, uploaded)) >= Daily
        /\ s \notin NewestPeriods(uploaded, WeekOf, Weekly)
        /\ s \notin NewestPeriods(uploaded, MonthOf, Monthly)
        /\ \E u \in Later(s, uploaded) : YearOf[u.day] = YearOf[s.day]

\* Whatever steps of whatever restores fail, each write is in the database or in a
\* file that a restore put aside: as long as the services stop cleanly and no two
\* restores are in one minute ("kill" and "minute" of Faults, which break it).
NothingWithoutTrace == 1..written \subseteq Prod \cup UNION preserved

\* A restore leaves prod running, unless a step outside of its try failed; and a
\* restore or resync that reports success leaves a replica that can go on.
ProdRunsAgain ==
    Idle =>
        /\ op.cmd = "restore" /\ "dinary" \notin up
              => op.failed \notin Protected \cup {"none"}
        /\ op.failed = "none" => "litestream" \in up /\ Fits
--------------------------------------------------------------------------
(* inv backup-cloud-status *)

check_backup_freshness ==
    IF archive = {} THEN "empty"
    ELSE IF \E s \in Newest(archive, 1) : day - s.day <= StaleDays THEN "ok" ELSE "stale"

check_identical_backup_sizes ==
    IF Cardinality(archive) < 2 THEN "single"
    ELSE IF \E s, u \in Newest(archive, 2) : s # u /\ s.has = u.has THEN "frozen"
    ELSE "ok"

StatusOk == check_backup_freshness = "ok" /\ check_identical_backup_sizes = "ok"

\* The status is good only if a snapshot was uploaded lately, and the replica moved
\* between the last two: one that a failed restore stranded does not stay unnoticed.
StatusIsTrue ==
    StatusOk =>
        /\ \E s \in uploaded : day - s.day <= StaleDays
        /\ \E s, u \in uploaded :
              /\ Later(s, uploaded) = {} /\ Later(u, uploaded) = {s}
              /\ s.has # u.has
=============================================================================
