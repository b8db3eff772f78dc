--------------------------- MODULE BackupsProofs ---------------------------
(***************************************************************************)
(* Theorems about Backups, for any calendar, any numbers of snapshots to   *)
(* keep, and any number of days, writes, snapshots, commands and failures. *)
(***************************************************************************)
EXTENDS Backups, Functions, FiniteSetTheorems, TLAPS

\* What the retention may prune s for, when U are the snapshots there were.
Superseded(s, U) ==
    /\ Cardinality(Later(s, U)) >= Daily
    /\ s \notin NewestPeriods(U, WeekOf, Weekly)
    /\ s \notin NewestPeriods(U, MonthOf, Monthly)
    /\ \E u \in Later(s, U) : YearOf[u.day] = YearOf[s.day]

DiskInv ==
    /\ IsFiniteSet(uploaded) /\ archive \subseteq uploaded
    /\ backup.delete \subseteq uploaded
    /\ \A s \in (uploaded \ archive) \cup backup.delete : Superseded(s, uploaded)

--------------------------------------------------------------------------
(* The rules of the retention *)

\* More snapshots have more later ones.
LEMMA LaterGrows ==
    ASSUME NEW U, IsFiniteSet(U), NEW A \in SUBSET U, NEW s
    PROVE  /\ Later(s, A) \subseteq Later(s, U)
           /\ Cardinality(Later(s, A)) \in Nat /\ Cardinality(Later(s, U)) \in Nat
           /\ Cardinality(Later(s, A)) <= Cardinality(Later(s, U))
<1>1. Later(s, A) \subseteq Later(s, U) /\ Later(s, U) \subseteq U
  BY DEF Later
<1>2. IsFiniteSet(Later(s, U)) /\ IsFiniteSet(Later(s, A))
  BY <1>1, FS_Subset
<1> QED
  BY <1>1, <1>2, FS_Subset, FS_CardinalityType

\* ... and not fewer later periods.
LEMMA LaterPeriodsGrow ==
    ASSUME NEW U, IsFiniteSet(U), NEW A \in SUBSET U, NEW s, NEW period
    PROVE  /\ Cardinality(LaterPeriods(s, A, period)) \in Nat
           /\ Cardinality(LaterPeriods(s, U, period)) \in Nat
           /\ Cardinality(LaterPeriods(s, A, period)) <= Cardinality(LaterPeriods(s, U, period))
<1> DEFINE Image == {period[u.day] : u \in U}
<1>1. IsFiniteSet(Image)
  <2> DEFINE number == [u \in U |-> period[u.day]]
  <2>1. number \in Surjection(U, Image)
    BY DEF Surjection
  <2> QED
    BY <2>1, FS_Surjection
<1>2. /\ LaterPeriods(s, A, period) \subseteq LaterPeriods(s, U, period)
      /\ LaterPeriods(s, U, period) \subseteq Image
  BY DEF LaterPeriods
<1> HIDE DEF Image
<1>3. IsFiniteSet(LaterPeriods(s, U, period)) /\ IsFiniteSet(LaterPeriods(s, A, period))
  BY <1>1, <1>2, FS_Subset
<1> QED
  BY <1>2, <1>3, FS_Subset, FS_CardinalityType

\* A snapshot that is none of the newest of the last n periods never becomes one.
LEMMA PeriodsPass ==
    ASSUME NEW U, IsFiniteSet(U), NEW A \in SUBSET U, NEW s \in A, NEW period,
           NEW n \in Nat, s \notin NewestPeriods(A, period, n)
    PROVE  s \notin NewestPeriods(U, period, n)
<1>1. CASE s \notin NewestPer(A, period)
  <2>1. PICK u \in Later(s, A) : period[u.day] = period[s.day]
    BY <1>1 DEF NewestPer
  <2>2. u \in Later(s, U)
    BY <2>1, LaterGrows
  <2> QED
    BY <2>1, <2>2 DEF NewestPeriods, NewestPer
<1>2. CASE s \in NewestPer(A, period)
  <2>1. ~(Cardinality(LaterPeriods(s, A, period)) < n)
    BY <1>2 DEF NewestPeriods
  <2>2. ~(Cardinality(LaterPeriods(s, U, period)) < n)
    BY <2>1, LaterPeriodsGrow
  <2> QED
    BY <2>2 DEF NewestPeriods
<1> QED
  BY <1>1, <1>2

\* What is superseded stays so when snapshots are added.
LEMMA SupersededStays ==
    ASSUME NEW U, IsFiniteSet(U), NEW A \in SUBSET U, NEW s \in A, Superseded(s, A)
    PROVE  Superseded(s, U)
<1>1. Cardinality(Later(s, U)) >= Daily
  BY LaterGrows, RetentionAssumption DEF Superseded
<1>2. /\ s \notin NewestPeriods(U, WeekOf, Weekly)
      /\ s \notin NewestPeriods(U, MonthOf, Monthly)
  BY PeriodsPass, RetentionAssumption DEF Superseded
<1>3. \E u \in Later(s, U) : YearOf[u.day] = YearOf[s.day]
  BY LaterGrows DEF Superseded
<1> QED
  BY <1>1, <1>2, <1>3 DEF Superseded

\* pick_keepers lets go of superseded snapshots only.
LEMMA NotKept ==
    ASSUME NEW A, IsFiniteSet(A), NEW s \in A, s \notin pick_keepers(A)
    PROVE  Superseded(s, A)
<1>1. s \notin Newest(A, Daily) /\ s \notin NewestPer(A, YearOf)
      /\ s \notin NewestPeriods(A, WeekOf, Weekly) /\ s \notin NewestPeriods(A, MonthOf, Monthly)
  BY DEF pick_keepers
<1>2. Cardinality(Later(s, A)) >= Daily
  <2>1. Cardinality(Later(s, A)) \in Nat
    BY LaterGrows
  <2>2. ~(Cardinality(Later(s, A)) < Daily)
    BY <1>1 DEF Newest
  <2> QED
    BY <2>1, <2>2, RetentionAssumption
<1>3. \E u \in Later(s, A) : YearOf[u.day] = YearOf[s.day]
  BY <1>1 DEF NewestPer
<1> QED
  BY <1>1, <1>2, <1>3 DEF Superseded

--------------------------------------------------------------------------
(* The run on VM2 *)

LEMMA InitDisk == Init => DiskInv
  BY FS_EmptySet DEF Init, DiskInv, NoRun

LEMMA UploadDisk ==
    ASSUME DiskInv, NEW answered \in BOOLEAN, Upload(answered)
    PROVE  DiskInv'
<1> DEFINE s == [no |-> Cardinality(uploaded) + 1, day |-> day, has |-> backup.has]
<1>1. uploaded' = uploaded \cup {s} /\ archive' = archive \cup {s}
  BY DEF Upload
<1>2. IsFiniteSet(uploaded') /\ archive' \subseteq uploaded' /\ uploaded \subseteq uploaded'
  BY <1>1, FS_AddElement DEF DiskInv
<1>3. \A r \in uploaded' \ archive' : Superseded(r, uploaded')
  <2>1. TAKE r \in uploaded' \ archive'
  <2>2. r \in uploaded \ archive
    BY <1>1
  <2>3. Superseded(r, uploaded)
    BY <2>2 DEF DiskInv
  <2> QED
    BY <1>2, <2>2, <2>3, SupersededStays
<1>4. backup'.delete \subseteq archive' \ pick_keepers(archive')
  BY DEF Upload, NoRun
<1>5. \A r \in backup'.delete : r \in uploaded' /\ Superseded(r, uploaded')
  <2>1. TAKE r \in backup'.delete
  <2>2. r \in archive' /\ r \notin pick_keepers(archive')
    BY <1>4
  <2>3. IsFiniteSet(archive')
    BY <1>2, FS_Subset
  <2>4. Superseded(r, archive')
    BY <2>2, <2>3, NotKept
  <2> QED
    BY <1>2, <2>2, <2>4, SupersededStays
<1> QED
  <2>1. \A r \in (uploaded' \ archive') \cup backup'.delete : Superseded(r, uploaded')
    BY <1>3, <1>5
  <2>2. backup'.delete \subseteq uploaded'
    BY <1>5
  <2> QED
    BY <1>2, <2>1, <2>2, Zenon DEF DiskInv, Superseded, Later, NewestPeriods, NewestPer, LaterPeriods

LEMMA DeleteDisk ==
    ASSUME DiskInv, NEW answered \in BOOLEAN, NEW s \in backup.delete, Delete(s, answered)
    PROVE  DiskInv'
<1>1. uploaded' = uploaded /\ archive' = archive \ {s} /\ backup'.delete \subseteq backup.delete
  <2>1. CASE answered
    BY <2>1 DEF Delete
  <2>2. CASE ~answered
    BY <2>2 DEF Delete, NoRun
  <2> QED
    BY <2>1, <2>2 DEF Delete
<1>2. \A r \in (uploaded' \ archive') \cup backup'.delete : r \in (uploaded \ archive) \cup backup.delete
  BY <1>1
<1> QED
  BY <1>1, <1>2 DEF DiskInv, Superseded, Later, NewestPeriods, NewestPer, LaterPeriods

LEMMA NextDisk == DiskInv /\ [Next]_vars => DiskInv'
<1> SUFFICES ASSUME DiskInv, [Next]_vars PROVE DiskInv'
  OBVIOUS
<1> USE DEF disk
<1>1. ASSUME UNCHANGED <<disk, backup>> PROVE DiskInv'
  BY <1>1 DEF DiskInv, Superseded, Later, NewestPeriods, NewestPer, LaterPeriods
<1>2. ASSUME UNCHANGED disk, backup'.delete \subseteq backup.delete PROVE DiskInv'
  BY <1>2 DEF DiskInv, Superseded, Later, NewestPeriods, NewestPer, LaterPeriods
<1>3. CASE NewDay
  BY <1>1, <1>3 DEF NewDay
<1>4. CASE Vm1
  BY <1>1, <1>4 DEF Vm1, Write, Checkpoint, Sync
<1>5. CASE Vm2
  <2>1. CASE TakeSnapshot
    BY <1>2, <2>1 DEF TakeSnapshot
  <2>2. CASE BackupEnds
    BY <1>2, <2>2 DEF BackupEnds, NoRun
  <2>3. CASE \E ans \in BOOLEAN : Upload(ans)
    BY <2>3, UploadDisk
  <2>4. CASE \E ans \in BOOLEAN : \E s \in backup.delete : Delete(s, ans)
    BY <2>4, DeleteDisk
  <2> QED
    BY <1>5, <2>1, <2>2, <2>3, <2>4 DEF Vm2
<1>6. CASE Operator
  <2>1. ASSUME NEW step, NEW ans \in BOOLEAN, Over(step, ans) PROVE UNCHANGED <<disk, backup>>
    BY <2>1 DEF Over
  <2>2. CASE RestoreFromYadisk \/ RestoreReplica \/ Resync \/ StartServices
    BY <1>1, <2>2 DEF RestoreFromYadisk, RestoreReplica, Resync, Start, StartServices
  <2>3. CASE StepFails
    BY <1>1, <2>1, <2>3 DEF StepFails
  <2>4. CASE \E ans \in BOOLEAN :
               \/ StopDinary(ans) \/ StopLitestream(ans)
               \/ Preserve(ans) \/ UploadIncoming(ans) \/ Swap(ans)
               \/ WipeShadow(ans) \/ WipeReplica(ans)
               \/ StartLitestream(ans) \/ StartDinary(ans)
    BY <1>1, <2>1, <2>4
    DEF StopDinary, StopLitestream, Preserve, UploadIncoming, Swap, WipeShadow, WipeReplica,
        StartLitestream, StartDinary
  <2> QED
    BY <1>6, <2>2, <2>3, <2>4 DEF Operator
<1>7. CASE UNCHANGED vars
  BY <1>1, <1>7 DEF vars
<1> QED
  BY <1>3, <1>4, <1>5, <1>6, <1>7 DEF Next

\* However prunes are cut short, a snapshot is deleted only when later ones make it
\* superfluous under every rule of the retention.
THEOREM HistoryIsKept == Spec => []HistoryKept
<1>1. DiskInv => HistoryKept
  BY DEF DiskInv, HistoryKept, Superseded
<1> QED
  BY InitDisk, NextDisk, <1>1, PTL DEF Spec

--------------------------------------------------------------------------
(* The status *)

\* Snapshots are numbered from 1 on, without gaps.
Numbered ==
    /\ IsFiniteSet(uploaded)
    /\ \A s \in uploaded : s.no \in 1..Cardinality(uploaded)
    /\ \A s, u \in uploaded : s.no = u.no => s = u
    /\ \A n \in 1..Cardinality(uploaded) : \E s \in uploaded : s.no = n

LEMMA InitNumbered == Init => Numbered
  BY FS_EmptySet DEF Init, Numbered

LEMMA UploadNumbered ==
    ASSUME Numbered, NEW answered, Upload(answered)
    PROVE  Numbered'
<1> DEFINE n == Cardinality(uploaded)
           s == [no |-> n + 1, day |-> day, has |-> backup.has]
<1>1. uploaded' = uploaded \cup {s} /\ s.no = n + 1
  BY DEF Upload
<1>2. n \in Nat
  BY FS_CardinalityType DEF Numbered
<1>3. s \notin uploaded
  BY <1>1, <1>2 DEF Numbered
<1> HIDE DEF s
<1>4. IsFiniteSet(uploaded') /\ Cardinality(uploaded') = n + 1
  BY <1>1, <1>3, FS_AddElement DEF Numbered
<1>5. \A u \in uploaded' : u.no \in 1..n + 1
  BY <1>1, <1>2 DEF Numbered
<1>6. \A t, u \in uploaded' : t.no = u.no => t = u
  BY <1>1, <1>2 DEF Numbered
<1>7. \A i \in 1..n + 1 : \E u \in uploaded' : u.no = i
  BY <1>1, <1>2 DEF Numbered
<1> QED
  BY <1>4, <1>5, <1>6, <1>7 DEF Numbered

LEMMA NextNumbered == Numbered /\ [Next]_vars => Numbered'
<1> SUFFICES ASSUME Numbered, [Next]_vars PROVE Numbered'
  OBVIOUS
<1>1. CASE \E ans \in BOOLEAN : Upload(ans)
  BY <1>1, UploadNumbered
<1>2. CASE uploaded' = uploaded
  BY <1>2 DEF Numbered
<1> QED
  BY <1>1, <1>2
  DEF Next, NewDay, Vm1, Write, Checkpoint, Sync, Vm2, TakeSnapshot, BackupEnds, Delete,
      Operator, RestoreFromYadisk, RestoreReplica, Resync, Start, StartServices, StepFails, Over,
      StopDinary, StopLitestream, Preserve, UploadIncoming, Swap, WipeShadow, WipeReplica,
      StartLitestream, StartDinary, disk, vars

\* The two newest snapshots there ever were are still there: of every other one two
\* are later, and the retention keeps that many.
LEMMA NewestTwo ==
    ASSUME DiskInv, Numbered, Cardinality(archive) >= 2
    PROVE  \E s, u \in archive :
              /\ s # u
              /\ Later(s, uploaded) = {} /\ Later(u, uploaded) = {s}
              /\ Later(s, archive) = {} /\ Later(u, archive) = {s}
<1> DEFINE n == Cardinality(uploaded)
<1>1. n \in Nat /\ n >= 2
  <2>1. Cardinality(archive) <= n /\ n \in Nat /\ Cardinality(archive) \in Nat
    BY FS_Subset, FS_CardinalityType DEF DiskInv
  <2> QED
    BY <2>1
<1>2. PICK s \in uploaded : s.no = n
  BY <1>1 DEF Numbered
<1>3. PICK u \in uploaded : u.no = n - 1
  BY <1>1 DEF Numbered
<1>4. \A r \in uploaded : r.no \in 1..n /\ (r.no = n => r = s)
  BY <1>2 DEF Numbered
<1>5. s # u
  BY <1>1, <1>2, <1>3
<1> HIDE DEF n
<1>6. Later(s, uploaded) = {}
  BY <1>1, <1>2, <1>4 DEF Later
<1>7. Later(u, uploaded) = {s}
  BY <1>1, <1>2, <1>3, <1>4 DEF Later
<1>8. Cardinality(Later(s, uploaded)) = 0 /\ Cardinality(Later(u, uploaded)) = 1
  BY <1>6, <1>7, FS_EmptySet, FS_Singleton
<1>9. \A r \in uploaded \ archive : Cardinality(Later(r, uploaded)) >= Daily
  BY DEF DiskInv, Superseded
<1>10. s \in archive /\ u \in archive
  BY <1>2, <1>3, <1>8, <1>9, RetentionAssumption
<1>11. Later(s, archive) = {} /\ Later(u, archive) = {s}
  BY <1>6, <1>7, <1>10 DEF DiskInv, Later
<1> QED
  BY <1>5, <1>6, <1>7, <1>10, <1>11

\* What inv backup-cloud-status calls good is so: there is a snapshot that is not stale,
\* and the replica moved between the last two of all snapshots there ever were, though
\* prunes have deleted others.
THEOREM StatusTells == Spec => []StatusIsTrue
<1>1. DiskInv /\ Numbered => StatusIsTrue
  <2> SUFFICES ASSUME DiskInv, Numbered, StatusOk
               PROVE  /\ \E s \in uploaded : day - s.day <= StaleDays
                      /\ \E s, u \in uploaded :
                            /\ Later(s, uploaded) = {} /\ Later(u, uploaded) = {s}
                            /\ s.has # u.has
    BY DEF StatusIsTrue
  <2>1. archive \subseteq uploaded
    BY DEF DiskInv
  <2>2. \E s \in archive : day - s.day <= StaleDays
    BY DEF StatusOk, check_backup_freshness, Newest
  <2>3. /\ ~(Cardinality(archive) < 2)
        /\ ~\E s, u \in Newest(archive, 2) : s # u /\ s.has = u.has
    BY DEF StatusOk, check_identical_backup_sizes
  <2>4. Cardinality(archive) >= 2
    <3>1. Cardinality(archive) \in Nat
      BY FS_Subset, FS_CardinalityType DEF DiskInv
    <3> QED
      BY <2>3, <3>1
  <2>5. PICK s, u \in archive :
           /\ s # u
           /\ Later(s, uploaded) = {} /\ Later(u, uploaded) = {s}
           /\ Later(s, archive) = {} /\ Later(u, archive) = {s}
    BY <2>4, NewestTwo
  <2>6. Cardinality(Later(s, archive)) = 0 /\ Cardinality(Later(u, archive)) = 1
    BY <2>5, FS_EmptySet, FS_Singleton
  <2>7. s \in Newest(archive, 2) /\ u \in Newest(archive, 2)
    BY <2>6 DEF Newest
  <2>8. s.has # u.has
    BY <2>3, <2>5, <2>7
  <2> QED
    BY <2>1, <2>2, <2>5, <2>8
<1> QED
  BY <1>1, InitDisk, NextDisk, InitNumbered, NextNumbered, PTL DEF Spec

--------------------------------------------------------------------------
(* The commands of the operator *)

OpFields == [no |-> op.no, cmd |-> op.cmd, at |-> op.at, incoming |-> op.incoming,
             failed |-> op.failed]
Copying == {"upload", "swap"}          \* the old database has been put aside
Pushing == {"start_litestream", "start_dinary", "done"}   \* the trees have been wiped

\* Where a restore is, and what runs on VM1.
RestoreInv ==
    op.cmd = "restore" =>
        /\ op.at = "stop_litestream" => "dinary" \notin up
        /\ op.at \in Protected => up = {}
        /\ op.at = "done" /\ "dinary" \notin up => op.failed \notin Protected \cup {"none"}

\* Where any command is, the trees are half wiped, or fit.
TreesInv ==
    /\ op.at \in {"wipe_shadow", "wipe_replica"} => "litestream" \notin up
    /\ op.at = "wipe_replica" => shadow = 0
    /\ op.at \in Pushing /\ op.failed = "none" => Fits
    /\ op.at \in {"start_dinary", "done"} /\ op.failed = "none" => "litestream" \in up

OpInv ==
    /\ op = OpFields /\ op.cmd \in {"none", "restore", "resync"}
    /\ op.at \in Step \cup {"done"}
    /\ op.cmd = "none" => op.at = "done"
    /\ op.cmd = "resync" => op.at \notin {"stop_dinary", "preserve", "upload", "swap", "start_dinary"}
    /\ written \in Nat /\ up \subseteq Services
    /\ RestoreInv /\ TreesInv

\* The step after a step, and where an error leads.
LEMMA AfterStep ==
    ASSUME OpInv, NEW step \in Step, NEW ans \in BOOLEAN, Over(step, ans)
    PROVE  /\ op.cmd # "none" /\ op.at = step
           /\ op'.cmd = op.cmd /\ op' = OpFields'
           /\ op'.at = IF ans THEN After(step) ELSE AfterError(step)
           /\ op'.failed = IF ans THEN op.failed ELSE step
  BY DEF OpInv, OpFields, Over, Step, Order

LEMMA Orders ==
    /\ Step = {"stop_dinary", "stop_litestream", "preserve", "upload", "swap", "wipe_shadow",
               "wipe_replica", "start_litestream", "start_dinary"}
    /\ op.cmd = "restore" =>
          /\ After("stop_dinary") = "stop_litestream" /\ After("stop_litestream") = "preserve"
          /\ After("preserve") = "upload" /\ After("upload") = "swap"
          /\ After("swap") = "wipe_shadow"
          /\ After("start_litestream") = "start_dinary"
    /\ op.cmd # "restore" =>
          /\ After("stop_litestream") = "wipe_shadow" /\ After("start_litestream") = "done"
    /\ After("wipe_shadow") = "wipe_replica" /\ After("wipe_replica") = "start_litestream"
    /\ After("start_dinary") = "done"
  BY DEF Step, After, Order, ResyncOrder

\* What OpInv says of op alone.
OpShape ==
    /\ op = OpFields /\ op.cmd \in {"none", "restore", "resync"}
    /\ op.at \in Step \cup {"done"}
    /\ op.cmd = "none" => op.at = "done"
    /\ op.cmd = "resync" => op.at \notin {"stop_dinary", "preserve", "upload", "swap", "start_dinary"}

LEMMA OverShape ==
    ASSUME OpInv, NEW step \in Step, NEW ans \in BOOLEAN, Over(step, ans)
    PROVE  OpShape'
  BY AfterStep, Orders DEF OpInv, OpShape, AfterError

\* Where an error leads, whatever the step did before.
LEMMA ErrorLeads ==
    ASSUME OpInv, NEW step \in Step, Over(step, FALSE)
    PROVE  /\ op'.at = "start_litestream" \/ op'.at = "done"
           /\ op'.failed = step /\ step # "none" /\ op'.cmd = op.cmd
           /\ op'.at = "done" /\ op.cmd = "restore" => step \notin Protected
  BY AfterStep, Orders DEF AfterError

LEMMA InitOp == Init => OpInv
  BY DEF Init, OpInv, OpFields, Step, RestoreInv, TreesInv, Fits, NothingWithoutTrace,
         Services, Prod, Pushing, Copying, Protected

LEMMA StopOp ==
    ASSUME OpInv, NEW ans \in BOOLEAN, StopDinary(ans) \/ StopLitestream(ans)
    PROVE  OpInv'
<1> USE DEF Services
<1>1. ASSUME NEW service \in Services, Stop(service)
      PROVE  /\ up' = up \ {service} /\ UNCHANGED <<written, base, preserved, shadow, replica>>
  BY <1>1 DEF Stop, trees
<1>2. CASE StopDinary(ans)
  <2>1. Over("stop_dinary", ans) /\ Stop("dinary")
    BY <1>2 DEF StopDinary
  <2>2. OpShape' /\ op.at = "stop_dinary" /\ op'.cmd = op.cmd /\ op.cmd = "restore"
    BY <2>1, AfterStep, OverShape, Orders DEF OpInv
  <2>3. op'.at = "stop_litestream" \/ (op'.at = "done" /\ op'.failed = "stop_dinary")
    BY <2>1, <2>2, AfterStep, Orders DEF AfterError, Protected
  <2>4. RestoreInv' /\ TreesInv'
    BY <1>1, <2>1, <2>2, <2>3 DEF RestoreInv, TreesInv, Protected, Copying, Pushing
  <2> QED
    BY <1>1, <2>1, <2>2, <2>4 DEF OpInv, OpShape
<1>3. CASE StopLitestream(ans)
  <2>1. Over("stop_litestream", ans) /\ Stop("litestream")
    BY <1>3 DEF StopLitestream
  <2>2. OpShape' /\ op.at = "stop_litestream" /\ op'.cmd = op.cmd /\ op.cmd # "none"
    BY <2>1, AfterStep, OverShape, Orders DEF OpInv
  <2>3. \/ op'.at = "preserve" /\ op.cmd = "restore"
        \/ op'.at = "wipe_shadow" /\ op.cmd # "restore"
        \/ op'.at = "done" /\ op'.failed = "stop_litestream"
    BY <2>1, <2>2, AfterStep, Orders DEF AfterError, Protected
  <2>4. op.cmd = "restore" => up' = {}
    BY <1>1, <2>1, <2>2 DEF OpInv, RestoreInv
  <2>5. RestoreInv' /\ TreesInv'
    BY <1>1, <2>1, <2>2, <2>3, <2>4 DEF RestoreInv, TreesInv, Protected, Copying, Pushing
  <2> QED
    BY <1>1, <2>1, <2>2, <2>5 DEF OpInv, OpShape
<1> QED
  BY <1>2, <1>3

LEMMA CopyOp ==
    ASSUME OpInv, NEW ans \in BOOLEAN,
           Preserve(ans) \/ UploadIncoming(ans) \/ Swap(ans)
    PROVE  OpInv'
<1>1. CASE Preserve(ans)
  <2>1. Over("preserve", ans) /\ UNCHANGED <<written, file, wal, base, up, shadow, replica>>
    BY <1>1 DEF Preserve, trees
  <2>2. OpShape' /\ op.at = "preserve" /\ op'.cmd = op.cmd /\ op.cmd = "restore"
    BY <2>1, AfterStep, OverShape, Orders DEF OpInv
  <2>3. op'.at = "upload" \/ (op'.at = "start_litestream" /\ op'.failed = "preserve")
    BY <2>1, <2>2, AfterStep, Orders DEF AfterError, Protected
  <2>4. up = {}
    BY <2>2 DEF OpInv, RestoreInv, Protected
  <2>5. RestoreInv' /\ TreesInv'
    BY <2>1, <2>2, <2>3, <2>4 DEF RestoreInv, TreesInv, Protected, Copying, Pushing
  <2> QED
    BY <2>1, <2>2, <2>5 DEF OpInv, OpShape
<1>2. CASE UploadIncoming(ans)
  <2>1. Over("upload", ans) /\ UNCHANGED <<db, up, trees>>
    BY <1>2 DEF UploadIncoming
  <2>2. OpShape' /\ op.at = "upload" /\ op'.cmd = op.cmd /\ op.cmd = "restore"
    BY <2>1, AfterStep, OverShape, Orders DEF OpInv
  <2>3. op'.at = "swap" \/ (op'.at = "start_litestream" /\ op'.failed = "upload")
    BY <2>1, <2>2, AfterStep, Orders DEF AfterError, Protected
  <2>4. RestoreInv' /\ TreesInv'
    BY <2>1, <2>2, <2>3 DEF OpInv, RestoreInv, TreesInv, Protected, Copying, Pushing, db, trees
  <2> QED
    BY <2>1, <2>2, <2>4 DEF OpInv, OpShape, db, trees
<1>3. CASE Swap(ans)
  <2>1. Over("swap", ans) /\ wal' = {} /\ UNCHANGED <<written, preserved, up, shadow, replica>>
    BY <1>3 DEF Swap, trees
  <2>2. OpShape' /\ op.at = "swap" /\ op'.cmd = op.cmd /\ op.cmd = "restore"
    BY <2>1, AfterStep, OverShape, Orders DEF OpInv
  <2>3. op'.at = "wipe_shadow" \/ (op'.at = "start_litestream" /\ op'.failed = "swap")
    BY <2>1, <2>2, AfterStep, Orders DEF AfterError, Protected
  <2>4. up = {}
    BY <2>2 DEF OpInv, RestoreInv, Protected, Copying
  <2>5. RestoreInv' /\ TreesInv'
    BY <2>1, <2>2, <2>3, <2>4 DEF RestoreInv, TreesInv, Protected, Copying, Pushing
  <2> QED
    BY <2>1, <2>2, <2>4, <2>5 DEF OpInv, OpShape
<1> QED
  BY <1>1, <1>2, <1>3

LEMMA WipeOp ==
    ASSUME OpInv, NEW ans \in BOOLEAN, WipeShadow(ans) \/ WipeReplica(ans)
    PROVE  OpInv'
<1>1. CASE WipeShadow(ans)
  <2>1. Over("wipe_shadow", ans) /\ shadow' = 0 /\ UNCHANGED <<db, up, replica>>
    BY <1>1 DEF WipeShadow
  <2>2. OpShape' /\ op.at = "wipe_shadow" /\ op'.cmd = op.cmd
    BY <2>1, AfterStep, OverShape, Orders
  <2>3. \/ op'.at = "wipe_replica"
        \/ op'.at = "start_litestream" /\ op'.failed = "wipe_shadow"
        \/ op'.at = "done" /\ op'.failed = "wipe_shadow" /\ op.cmd # "restore"
    BY <2>1, <2>2, AfterStep, Orders DEF AfterError, Protected
  <2>4. RestoreInv' /\ TreesInv'
    BY <2>1, <2>2, <2>3 DEF OpInv, RestoreInv, TreesInv, Protected, Copying, Pushing, db
  <2> QED
    BY <2>1, <2>2, <2>4 DEF OpInv, OpShape, db
<1>2. CASE WipeReplica(ans)
  <2>1. Over("wipe_replica", ans) /\ replica'.base = 0 /\ UNCHANGED <<db, up, shadow>>
    BY <1>2 DEF WipeReplica
  <2>2. OpShape' /\ op.at = "wipe_replica" /\ op'.cmd = op.cmd
    BY <2>1, AfterStep, OverShape, Orders
  <2>3. \/ op'.at = "start_litestream"
        \/ op'.at = "done" /\ op'.failed = "wipe_replica" /\ op.cmd # "restore"
    BY <2>1, <2>2, AfterStep, Orders DEF AfterError, Protected
  <2>4. Fits'
    BY <2>1, <2>2 DEF OpInv, TreesInv, Fits
  <2>5. RestoreInv' /\ TreesInv'
    BY <2>1, <2>2, <2>3, <2>4 DEF OpInv, RestoreInv, TreesInv, Protected, Copying, Pushing, db
  <2> QED
    BY <2>1, <2>2, <2>5 DEF OpInv, OpShape, db
<1> QED
  BY <1>1, <1>2

LEMMA StartOp ==
    ASSUME OpInv, NEW ans \in BOOLEAN, StartLitestream(ans) \/ StartDinary(ans)
    PROVE  OpInv'
<1>1. CASE StartLitestream(ans)
  <2>1. Over("start_litestream", ans) /\ up' = up \cup {"litestream"} /\ UNCHANGED <<db, trees>>
    BY <1>1 DEF StartLitestream
  <2>2. OpShape' /\ op.at = "start_litestream" /\ op'.cmd = op.cmd
        /\ (ans => op'.failed = op.failed)
    BY <2>1, AfterStep, OverShape, Orders
  <2>3. \/ ans /\ op'.at = "start_dinary" /\ op.cmd = "restore"
        \/ ans /\ op'.at = "done" /\ op.cmd # "restore"
        \/ op'.at = "done" /\ op'.failed = "start_litestream"
    BY <2>1, <2>2, AfterStep, Orders DEF AfterError, Protected
  <2>4. Fits' <=> Fits
    BY <2>1 DEF Fits, db, trees
  <2>5. RestoreInv' /\ TreesInv'
    BY <2>1, <2>2, <2>3, <2>4 DEF OpInv, RestoreInv, TreesInv, Protected, Copying, Pushing
  <2> QED
    BY <2>1, <2>2, <2>5 DEF OpInv, OpShape, db, Services
<1>2. CASE StartDinary(ans)
  <2>1. Over("start_dinary", ans) /\ up' = up \cup {"dinary"} /\ UNCHANGED <<db, trees>>
    BY <1>2 DEF StartDinary
  <2>2. OpShape' /\ op.at = "start_dinary" /\ op'.cmd = op.cmd
        /\ (ans => op'.failed = op.failed)
    BY <2>1, AfterStep, OverShape, Orders
  <2>3. \/ ans /\ op'.at = "done"
        \/ op'.at = "done" /\ op'.failed = "start_dinary"
    BY <2>1, <2>2, AfterStep, Orders DEF AfterError, Protected
  <2>4. Fits' <=> Fits
    BY <2>1 DEF Fits, db, trees
  <2>5. RestoreInv' /\ TreesInv'
    BY <2>1, <2>2, <2>3, <2>4 DEF OpInv, RestoreInv, TreesInv, Protected, Copying, Pushing
  <2> QED
    BY <2>1, <2>2, <2>5 DEF OpInv, OpShape, db, Services
<1> QED
  BY <1>1, <1>2

LEMMA StepFailsOp == OpInv /\ StepFails => OpInv'
<1> SUFFICES ASSUME OpInv, StepFails PROVE OpInv'
  OBVIOUS
<1>1. op.at \in Step /\ Over(op.at, FALSE) /\ UNCHANGED <<db, up, trees>>
  BY DEF StepFails, OpInv, Idle
<1>2. OpShape' /\ op'.cmd = op.cmd /\ op'.failed = op.at /\ op'.failed # "none"
  BY <1>1, AfterStep, OverShape, ErrorLeads
<1>3. \/ op'.at = "start_litestream"
      \/ op'.at = "done" /\ (op.cmd = "restore" => op'.failed \notin Protected)
  BY <1>1, <1>2, ErrorLeads
<1>4. RestoreInv' /\ TreesInv'
  BY <1>1, <1>2, <1>3 DEF RestoreInv, TreesInv, Protected, Copying, Pushing
<1> QED
  BY <1>1, <1>2, <1>4 DEF OpInv, OpShape, db

\* A new command, and services started by hand.
LEMMA BeginOp ==
    OpInv /\ (RestoreFromYadisk \/ RestoreReplica \/ Resync \/ StartServices) => OpInv'
<1> SUFFICES ASSUME OpInv, RestoreFromYadisk \/ RestoreReplica \/ Resync \/ StartServices
             PROVE  OpInv'
  OBVIOUS
<1>1. ASSUME NEW cmd, NEW first, NEW incoming, Start(cmd, first, incoming),
             \/ cmd = "restore" /\ first = "stop_dinary"
             \/ cmd = "resync" /\ first = "stop_litestream"
      PROVE  OpInv'
  <2>1. op' = [no |-> op.no + 1, cmd |-> cmd, at |-> first, incoming |-> incoming,
               failed |-> "none"] /\ UNCHANGED <<db, up, trees>>
    BY <1>1 DEF Start
  <2>2. OpShape' /\ op'.cmd = cmd /\ op'.at = first
    BY <1>1, <2>1, Orders DEF OpShape, OpFields
  <2>3. RestoreInv' /\ TreesInv'
    BY <1>1, <2>2 DEF RestoreInv, TreesInv, Protected, Copying, Pushing
  <2> QED
    BY <2>1, <2>2, <2>3 DEF OpInv, OpShape, db
<1>2. CASE StartServices
  <2>1. op.at = "done" /\ up' = Services /\ UNCHANGED <<db, trees, op>>
    BY <1>2 DEF StartServices, Idle
  <2>2. Fits' <=> Fits
    BY <2>1 DEF Fits, db, trees
  <2>3. RestoreInv' /\ TreesInv'
    BY <2>1, <2>2 DEF OpInv, RestoreInv, TreesInv, Protected, Copying, Pushing, Services
  <2> QED
    BY <2>1, <2>3 DEF OpInv, OpFields, db, Services
<1> QED
  BY <1>1, <1>2 DEF RestoreFromYadisk, RestoreReplica, Resync

LEMMA Vm1Op == OpInv /\ Vm1 => OpInv'
<1> SUFFICES ASSUME OpInv, Vm1 PROVE OpInv'
  OBVIOUS
<1>1. CASE Write
  <2>1. /\ "dinary" \in up /\ written' = written + 1 /\ wal' = wal \cup {written + 1}
        /\ UNCHANGED <<file, base, preserved, up, shadow, replica, op>> /\ written \in Nat
    BY <1>1 DEF Write, trees, OpInv
  <2>2. RestoreInv' /\ TreesInv'
    BY <2>1 DEF OpInv, RestoreInv, TreesInv, Protected, Copying, Fits
  <2> QED
    BY <2>1, <2>2 DEF OpInv, OpFields
<1>2. CASE Checkpoint
  <2>1. /\ file' = Prod /\ wal' = {}
        /\ UNCHANGED <<written, base, preserved, up, shadow, replica, op>>
    BY <1>2 DEF Checkpoint, trees
  <2> QED
    BY <2>1 DEF OpInv, OpFields, RestoreInv, TreesInv, Fits
<1>3. CASE Sync
  <2>1. /\ "litestream" \in up /\ shadow' = base /\ replica'.base = base
        /\ UNCHANGED <<db, up, op>>
    BY <1>3 DEF Sync
  <2>2. Fits' /\ op.at # "wipe_replica"
    BY <2>1 DEF Fits, db, OpInv, TreesInv
  <2> QED
    BY <2>1, <2>2 DEF OpInv, OpFields, RestoreInv, TreesInv, db
<1> QED
  BY <1>1, <1>2, <1>3 DEF Vm1

LEMMA NextOp == OpInv /\ [Next]_vars => OpInv'
<1> SUFFICES ASSUME OpInv, [Next]_vars PROVE OpInv'
  OBVIOUS
<1>1. ASSUME UNCHANGED <<db, up, trees, op>> PROVE OpInv'
  BY <1>1 DEF OpInv, OpFields, RestoreInv, TreesInv, Fits, db, trees
<1>2. CASE NewDay \/ Vm2 \/ UNCHANGED vars
  BY <1>1, <1>2 DEF NewDay, Vm2, TakeSnapshot, BackupEnds, Upload, Delete, vars
<1>3. CASE Vm1
  BY <1>3, Vm1Op
<1>4. CASE Operator
  BY <1>4, StopOp, CopyOp, WipeOp, StartOp, StepFailsOp, BeginOp DEF Operator
<1> QED
  BY <1>2, <1>3, <1>4 DEF Next

\* A restore leaves prod running, unless a step outside of its try failed; one that
\* reports success, or a resync that does, leaves a replica that can go on.
THEOREM ProdIsBack == Spec => []ProdRunsAgain
<1>1. OpInv => ProdRunsAgain
  BY DEF OpInv, RestoreInv, TreesInv, ProdRunsAgain, Idle, Pushing
<1> QED
  BY InitOp, NextOp, <1>1, PTL DEF Spec

--------------------------------------------------------------------------
(* Where the writes are *)

\* No process leaves a WAL, and before the swap everything has been put aside.
TraceInv ==
    /\ up = {} => wal = {}
    /\ op.cmd = "restore" /\ op.at \in Copying => 1..written \subseteq UNION preserved
    /\ NothingWithoutTrace

LEMMA StopTrace ==
    ASSUME OpInv, TraceInv, Faults = {}, NEW ans \in BOOLEAN, StopDinary(ans) \/ StopLitestream(ans)
    PROVE  TraceInv'
<1>1. /\ up' = {} => wal' = {}
      /\ Prod' = Prod /\ UNCHANGED <<written, preserved>>
  BY DEF StopDinary, StopLitestream, Stop, TraceInv, Prod
<1>2. op'.at \notin Copying
  BY AfterStep, Orders DEF OpInv, StopDinary, StopLitestream, AfterError, Copying
<1> QED
  BY <1>1, <1>2 DEF TraceInv, NothingWithoutTrace

LEMMA PreserveTrace ==
    ASSUME OpInv, TraceInv, Faults = {}, NEW ans \in BOOLEAN, Preserve(ans)
    PROVE  TraceInv'
<1>1. /\ Over("preserve", ans) /\ preserved' = preserved \cup {file}
      /\ UNCHANGED <<written, file, wal, up>>
  BY DEF Preserve
<1>2. op.at = "preserve" /\ op.cmd = "restore"
  BY <1>1, AfterStep, Orders DEF OpInv
<1>3. wal = {}
  BY <1>2 DEF OpInv, RestoreInv, Protected, TraceInv
<1>4. 1..written \subseteq UNION preserved'
  BY <1>1, <1>3 DEF TraceInv, NothingWithoutTrace, Prod
<1> QED
  BY <1>1, <1>3, <1>4 DEF TraceInv, NothingWithoutTrace

LEMMA SwapTrace ==
    ASSUME OpInv, TraceInv, NEW ans \in BOOLEAN, Swap(ans)
    PROVE  TraceInv'
<1>1. Over("swap", ans) /\ wal' = {} /\ UNCHANGED <<written, preserved, up>>
  BY DEF Swap
<1>2. op.at = "swap" /\ op.cmd = "restore"
  BY <1>1, AfterStep, Orders DEF OpInv
<1>3. 1..written \subseteq UNION preserved
  BY <1>2 DEF TraceInv, Copying
<1> QED
  BY <1>1, <1>3 DEF TraceInv, NothingWithoutTrace

\* Steps of a command that leave the database alone.
LEMMA OtherTrace ==
    ASSUME OpInv, TraceInv, NEW step \in Step \ {"preserve", "swap"}, NEW ans \in BOOLEAN,
           Over(step, ans), UNCHANGED db, up \subseteq up'
    PROVE  TraceInv'
<1>1. op'.cmd = op.cmd /\ (op'.at \in Copying => op.at \in Copying)
  BY AfterStep, Orders DEF AfterError, Copying, OpInv
<1> QED
  BY <1>1 DEF TraceInv, NothingWithoutTrace, Prod, db

LEMMA NextTrace == OpInv /\ TraceInv /\ Faults = {} /\ [Next]_vars => TraceInv'
<1> SUFFICES ASSUME OpInv, TraceInv, Faults = {}, [Next]_vars PROVE TraceInv'
  OBVIOUS
<1>1. ASSUME UNCHANGED <<db, up, op>> PROVE TraceInv'
  BY <1>1 DEF TraceInv, NothingWithoutTrace, Prod, db
<1>2. CASE NewDay \/ Vm2 \/ Sync \/ UNCHANGED vars
  BY <1>1, <1>2 DEF NewDay, Vm2, TakeSnapshot, BackupEnds, Upload, Delete, Sync, vars
<1>3. CASE Write
  <2>1. /\ "dinary" \in up /\ written' = written + 1 /\ wal' = wal \cup {written + 1}
        /\ UNCHANGED <<file, preserved, up, op>> /\ written \in Nat
    BY <1>3 DEF Write, OpInv
  <2>2. ~(op.cmd = "restore" /\ op.at \in Copying)
    BY <2>1 DEF OpInv, RestoreInv, Protected, Copying
  <2> QED
    BY <2>1, <2>2 DEF TraceInv, NothingWithoutTrace, Prod
<1>4. CASE Checkpoint
  BY <1>4 DEF Checkpoint, TraceInv, NothingWithoutTrace, Prod
<1>5. CASE RestoreFromYadisk \/ RestoreReplica \/ Resync \/ StartServices
  <2>1. UNCHANGED db /\ up \subseteq up'
    BY <1>5 DEF RestoreFromYadisk, RestoreReplica, Resync, Start, StartServices, OpInv
  <2>2. op'.at \notin Copying
    BY <1>5 DEF RestoreFromYadisk, RestoreReplica, Resync, Start, StartServices, Copying, Idle
  <2> QED
    BY <2>1, <2>2 DEF TraceInv, NothingWithoutTrace, Prod, db
<1>6. CASE StepFails
  <2>1. op'.at \notin Copying /\ UNCHANGED <<db, up>>
    BY <1>6, ErrorLeads DEF StepFails, OpInv, Idle, Copying
  <2> QED
    BY <2>1 DEF TraceInv, NothingWithoutTrace, Prod, db
<1>7. ASSUME NEW ans \in BOOLEAN,
             UploadIncoming(ans) \/ WipeShadow(ans) \/ WipeReplica(ans)
             \/ StartLitestream(ans) \/ StartDinary(ans)
      PROVE  TraceInv'
  BY <1>7, OtherTrace, Orders
  DEF UploadIncoming, WipeShadow, WipeReplica, StartLitestream, StartDinary
<1> QED
  BY <1>2, <1>3, <1>4, <1>5, <1>6, <1>7, StopTrace, PreserveTrace, SwapTrace
  DEF Next, Vm1, Operator

\* Whatever steps of whatever restores fail, each write is in the database or in a file
\* that a restore put aside, when services close the database as they stop and no file
\* is put aside under the name of another one.
THEOREM NothingLostInRestores ==
    ASSUME Faults = {}
    PROVE  Spec => []NothingWithoutTrace
<1>1. Init => TraceInv
  <2>1. Init => 1..written = {} /\ wal = {} /\ op.cmd = "none"
    BY DEF Init
  <2> QED
    BY <2>1 DEF TraceInv, NothingWithoutTrace
<1>2. OpInv /\ TraceInv /\ [Next]_vars => TraceInv'
  BY NextTrace
<1>3. TraceInv => NothingWithoutTrace
  BY DEF TraceInv
<1> QED
  BY InitOp, NextOp, <1>1, <1>2, <1>3, PTL DEF Spec
=============================================================================
