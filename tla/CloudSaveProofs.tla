---------------------------- MODULE CloudSaveProofs ----------------------------
(***************************************************************************)
(* Proofs about CloudSave, for any titles, sizes, quotas and number of     *)
(* concurrent handlers: the upload lock excludes, so no save is clobbered  *)
(* and the quota holds; what an upload replaces is the backup, where that  *)
(* could be written; only a deadline costs an account a title anybody may  *)
(* keep; and how an account over its quota may escape the watch.           *)
(***************************************************************************)
EXTENDS CloudSave, FiniteSetTheorems, TLAPS

Holding == {"protect", "rename"}

(* Who was measured holds the lock.                                        *)
LockHeld == \A w \in Workers : work[w].at \in Holding => lock = w

(* A guard that was passed still holds: nobody else writes the title.      *)
GuardHolds ==
  \A w \in Workers : At(w, "rename") => ~Clobbers(files[work[w].title], work[w].size)

(* What an eraser may still erase.                                         *)
Proper(a, job) ==
  job.at \in {"erase", "tidy"} =>
    /\ job.why = "request" => job.todo = {}
    /\ job.why = "heaviest" => a = Sweeper
    /\ job.why \in {"downgrade", "sweep"} => job.todo \cap Allowed = {}

ErasersAreProper == \A a \in Actors : Proper(a, work[a])

IInv == TypeOK /\ LockHeld /\ GuardHolds /\ ErasersAreProper

UploadJob == [at : {"waiting", "protect"}, title : Titles, size : Sizes]
RenameJob == [at : {"rename"}, title : Titles, size : Sizes, kept : BOOLEAN]

(* What the jobs carry.                                                    *)
LEMMA JobTypes ==
  ASSUME TypeOK, NEW w \in Actors
  PROVE  /\ work[w] \in Jobs
         /\ work[w].at \in {"waiting", "protect"} => work[w] \in UploadJob
         /\ At(w, "rename") => work[w] \in RenameJob
         /\ work[w].at \in {"erase", "tidy"} =>
              work[w].why \in Erasers /\ work[w].todo \in SUBSET Titles
         /\ At(w, "tidy") => work[w].title \in Titles
         /\ work[w].at \in {"push", "status"} => work[w].booster \in BOOLEAN
         /\ At(w, "status") => work[w].was \in BOOLEAN
BY DEF TypeOK, Jobs, Idle, UploadJob, RenameJob, At

LEMMA WorkersAct == \A w \in Workers : w \in Actors /\ w # Sweeper /\ w # Free
BY WorkersAreApart DEF Actors

(* What Goto does.                                                         *)
LEMMA Moved ==
  ASSUME IInv, NEW w \in Actors, NEW job, Goto(w, job)
  PROVE  work'[w] = job /\ \A v \in Actors \ {w} : work'[v] = work[v]
BY DEF IInv, TypeOK, Goto

(* Where the erasers go on.                                                *)
LEMMA AfterIs ==
  /\ Erasers = {"request", "downgrade", "sweep", "heaviest"}
  /\ After["request"] = "settle" /\ After["downgrade"] = "recheck"
  /\ After["sweep"] = "weigh" /\ After["heaviest"] = "weigh"
BY DEF Erasers, After

(* Removing files leaves a store.                                          *)
LEMMA WithoutType ==
  ASSUME NEW f \in Store, NEW S
  PROVE  /\ Without(f, S) \in Store
         /\ \A t \in Titles : Without(f, S)[t] \in {f[t], NoFile}
         /\ \A t \in Titles : t \notin S => Without(f, S)[t] = f[t]
BY DEF Store, Without

-----------------------------------------------------------------------------
(* Who acts in a step.                                                     *)

Asks(w) ==
  \/ \E t \in Titles, n \in Sizes : UploadGate(w, t, n)
  \/ \E t \in Titles : DeleteFile(w, t)
  \/ \E l, b \in BOOLEAN : PushLink(w, l, b)

Goes(w) == UploadRename(w) \/ Push(w) \/ Demote(w) \/ DeleteSettle(w)

Sweeps == SweepStart \/ SweepWeigh \/ SweepHeaviest

LEMMA WhoActs ==
  ASSUME [Next]_vars
  PROVE  \/ \E w \in Workers : UploadMeasure(w) \/ UploadProtect(w)
         \/ \E w \in Workers : Asks(w) \/ Goes(w)
         \/ \E w \in Actors : Erase(w)
         \/ Sweeps \/ GraceExpires \/ OtherSave \/ Restart \/ UNCHANGED vars
<1>1. ASSUME NEW u \in Uploads, UploadGate(u[1], u[2], u[3])
      PROVE  \E w \in Workers : Asks(w)
  <2>1. u[1] \in Workers /\ u[2] \in Titles /\ u[3] \in Sizes
    BY RequestsAreWorkers
  <2>2. QED  BY <1>1, <2>1 DEF Asks
<1>2. ASSUME NEW d \in Deletions, DeleteFile(d[1], d[2])
      PROVE  \E w \in Workers : Asks(w)
  <2>1. d[1] \in Workers /\ d[2] \in Titles
    BY RequestsAreWorkers
  <2>2. QED  BY <1>2, <2>1 DEF Asks
<1>3. ASSUME NEW p \in Pushes, PushLink(p[1], p[2], p[3])
      PROVE  \E w \in Workers : Asks(w)
  <2>1. p[1] \in Workers /\ p[2] \in BOOLEAN /\ p[3] \in BOOLEAN
    BY RequestsAreWorkers
  <2>2. QED  BY <1>3, <2>1 DEF Asks
<1>4. Sweeper \in Actors
  BY DEF Actors
<1>5. QED  BY <1>1, <1>2, <1>3, <1>4, WorkersAct DEF Next, Upload, Sweep, Goes, Sweeps

(* A move to a place that does not hold the lock.                          *)
Moves(w) ==
  \E job \in Jobs :
    /\ Goto(w, job)
    /\ job.at \notin Holding /\ Proper(w, job)
    /\ lock' = lock \/ (lock' = Free /\ lock = w)

LEMMA SimpleMove ==
  ASSUME NEW w,
         NEW place \in {"idle", "downgrade", "list", "settle", "recheck", "grace", "weigh",
                        "heaviest", "lift"},
         Goto(w, [at |-> place]), lock' = lock \/ (lock' = Free /\ lock = w)
  PROVE  Moves(w)
<1> DEFINE job == [at |-> place]
<1>1. job \in Jobs /\ job.at = place
  BY DEF Jobs, Idle
<1>2. job.at \notin Holding /\ Proper(w, job)
  BY <1>1 DEF Holding, Proper
<1> HIDE DEF job
<1>3. Goto(w, job)
  BY DEF job
<1>4. QED  BY <1>1, <1>2, <1>3 DEF Moves

LEMMA AsksMoves ==
  ASSUME IInv, NEW w \in Workers, Asks(w)
  PROVE  Moves(w) /\ work[w] = Idle
<1>1. ASSUME NEW t \in Titles, NEW n \in Sizes, UploadGate(w, t, n)
      PROVE  Moves(w) /\ work[w] = Idle
  <2> DEFINE job == [at |-> "waiting", title |-> t, size |-> n]
  <2>1. job \in Jobs /\ job.at \notin Holding /\ Proper(w, job)
    BY DEF Jobs, Holding, Proper
  <2>2. Goto(w, job) /\ lock' = lock /\ work[w] = Idle
    BY <1>1 DEF UploadGate
  <2> HIDE DEF job
  <2>3. QED  BY <2>1, <2>2 DEF Moves
<1>2. ASSUME NEW t \in Titles, DeleteFile(w, t)
      PROVE  Moves(w) /\ work[w] = Idle
  <2> DEFINE job == [at |-> "tidy", why |-> "request", todo |-> {}, title |-> t]
  <2>1. job \in Jobs /\ job.at \notin Holding /\ Proper(w, job)
    BY AfterIs DEF Jobs, Holding, Proper
  <2>2. Goto(w, job) /\ lock' = lock /\ work[w] = Idle
    BY <1>2 DEF DeleteFile
  <2> HIDE DEF job
  <2>3. QED  BY <2>1, <2>2 DEF Moves
<1>3. ASSUME NEW l \in BOOLEAN, NEW b \in BOOLEAN, PushLink(w, l, b)
      PROVE  Moves(w) /\ work[w] = Idle
  <2> DEFINE job == [at |-> "push", booster |-> b /\ l]
  <2>1. (b /\ l) \in BOOLEAN
    OBVIOUS
  <2>2. job \in Jobs /\ job.at \notin Holding /\ Proper(w, job)
    BY <2>1 DEF Jobs, Holding, Proper
  <2>3. (Goto(w, job) \/ Goto(w, Idle)) /\ lock' = lock /\ work[w] = Idle
    BY <1>3 DEF PushLink
  <2> HIDE DEF job
  <2>4. CASE Goto(w, job)
    BY <2>2, <2>3, <2>4 DEF Moves
  <2>5. CASE Goto(w, Idle)
    BY <2>3, <2>5, SimpleMove DEF Idle
  <2>6. QED  BY <2>3, <2>4, <2>5
<1>4. QED  BY <1>1, <1>2, <1>3 DEF Asks

LEMMA GoesMoves ==
  ASSUME IInv, NEW w \in Workers, Goes(w)
  PROVE  Moves(w)
<1>1. CASE UploadRename(w)
  <2>1. lock = w /\ lock' = Free /\ Goto(w, [at |-> "idle"])
    BY <1>1 DEF UploadRename, Leave, Idle, IInv, LockHeld, Holding, At
  <2>2. QED  BY <2>1, SimpleMove
<1>2. CASE PushRead(w)
  <2> DEFINE job == [at |-> "status", booster |-> work[w].booster, was |-> booster]
  <2>1. work[w].booster \in BOOLEAN /\ booster \in BOOLEAN
    BY <1>2, JobTypes, WorkersAct DEF PushRead, At, IInv, TypeOK
  <2>2. job \in Jobs /\ job.at \notin Holding /\ Proper(w, job)
    BY <2>1 DEF Jobs, Holding, Proper
  <2>3. Goto(w, job) /\ lock' = lock
    BY <1>2 DEF PushRead
  <2> HIDE DEF job
  <2>4. QED  BY <2>2, <2>3 DEF Moves
<1>3. CASE PushStatus(w) \/ Demote(w) \/ DeleteSettle(w)
  <2>1. lock' = lock
    BY <1>3 DEF PushStatus, Demote, Downgrade, DowngradeDeadline, DeleteSettle
  <2>2. \E place \in {"idle", "downgrade", "list", "grace", "lift"} : Goto(w, [at |-> place])
    BY <1>3 DEF PushStatus, Demote, Downgrade, DowngradeDeadline, DeleteSettle, Idle
  <2>3. QED  BY <2>1, <2>2, SimpleMove
<1>4. QED  BY <1>1, <1>2, <1>3 DEF Goes, Push

(* Erasing what is proper, or going on after it.                           *)
LEMMA ErasingMoves ==
  ASSUME NEW w, NEW why \in Erasers, NEW S \in SUBSET Titles, Erasing(w, why, S),
         lock' = lock, Proper(w, [at |-> "erase", why |-> why, todo |-> S])
  PROVE  Moves(w)
<1>1. CASE S = {}
  <2>1. After[why] \in {"settle", "recheck", "weigh"}
    BY AfterIs
  <2>2. Goto(w, [at |-> After[why]])
    BY <1>1 DEF Erasing
  <2>3. QED  BY <2>1, <2>2, SimpleMove
<1>2. CASE S # {}
  <2> DEFINE job == [at |-> "erase", why |-> why, todo |-> S]
  <2>1. job \in Jobs /\ job.at \notin Holding
    BY DEF Jobs, Holding
  <2>2. Goto(w, job)
    BY <1>2 DEF Erasing
  <2> HIDE DEF job
  <2>3. QED  BY <2>1, <2>2 DEF Moves, job
<1>3. QED  BY <1>1, <1>2

LEMMA EraseMoves ==
  ASSUME IInv, NEW w \in Actors, Erase(w)
  PROVE  Moves(w)
<1>1. CASE ListBoosterOnly(w)
  <2> DEFINE why == IF w = Sweeper THEN "sweep" ELSE "downgrade"
  <2>1. why \in Erasers /\ Erasing(w, why, BoosterOnly) /\ lock' = lock
    BY <1>1, AfterIs DEF ListBoosterOnly
  <2>2. BoosterOnly \in SUBSET Titles /\ BoosterOnly \cap Allowed = {}
    BY DEF BoosterOnly, Present, IInv, TypeOK, Store
  <2>3. Proper(w, [at |-> "erase", why |-> why, todo |-> BoosterOnly])
    BY <2>2 DEF Proper
  <2> HIDE DEF why
  <2>4. QED  BY <2>1, <2>2, <2>3, ErasingMoves
<1>2. CASE EraseFile(w)
  <2>1. PICK t \in work[w].todo :
          Goto(w, [at |-> "tidy", why |-> work[w].why, todo |-> work[w].todo \ {t}, title |-> t])
    BY <1>2 DEF EraseFile
  <2> DEFINE job == [at |-> "tidy", why |-> work[w].why, todo |-> work[w].todo \ {t}, title |-> t]
  <2>2. work[w].why \in Erasers /\ work[w].todo \in SUBSET Titles /\ Proper(w, work[w])
    BY <1>2, JobTypes DEF EraseFile, At, IInv, ErasersAreProper
  <2>3. job \in Jobs /\ job.at \notin Holding
    BY <2>2 DEF Jobs, Holding
  <2>4. Proper(w, job)
    BY <1>2, <2>2 DEF Proper, EraseFile, At
  <2>5. Goto(w, job) /\ lock' = lock
    BY <1>2, <2>1 DEF EraseFile
  <2> HIDE DEF job
  <2>6. QED  BY <2>3, <2>4, <2>5 DEF Moves
<1>3. CASE EraseBackup(w)
  <2>1. work[w].why \in Erasers /\ work[w].todo \in SUBSET Titles /\ Proper(w, work[w])
    BY <1>3, JobTypes DEF EraseBackup, At, IInv, ErasersAreProper
  <2>2. Proper(w, [at |-> "erase", why |-> work[w].why, todo |-> work[w].todo])
    BY <1>3, <2>1 DEF Proper, EraseBackup, At
  <2>3. Erasing(w, work[w].why, work[w].todo) /\ lock' = lock
    BY <1>3 DEF EraseBackup
  <2>4. QED  BY <2>1, <2>2, <2>3, ErasingMoves
<1>4. CASE Lift(w)
  BY <1>4, SimpleMove DEF Lift, Idle
<1>5. QED  BY <1>1, <1>2, <1>3, <1>4 DEF Erase

LEMMA SweepsMoves ==
  ASSUME IInv, Sweeps
  PROVE  Moves(Sweeper)
<1>1. CASE \E place \in {"list", "heaviest", "lift"} : Goto(Sweeper, [at |-> place])
  BY <1>1, SimpleMove DEF Sweeps, SweepStart, SweepWeigh, SweepHeaviest
<1>2. ASSUME NEW t \in Heaviest, Erasing(Sweeper, "heaviest", {t}), lock' = lock
      PROVE  Moves(Sweeper)
  <2>1. "heaviest" \in Erasers /\ {t} \in SUBSET Titles
    BY AfterIs DEF Heaviest, Present, IInv, TypeOK, Store
  <2>2. Proper(Sweeper, [at |-> "erase", why |-> "heaviest", todo |-> {t}])
    BY DEF Proper
  <2>3. QED  BY <1>2, <2>1, <2>2, ErasingMoves
<1>3. QED  BY <1>1, <1>2 DEF Sweeps, SweepStart, SweepWeigh, SweepHeaviest

-----------------------------------------------------------------------------
(* What a step does to the account, the files and the jobs.                *)

LEMMA AccountStep ==
  ASSUME IInv, [Next]_vars
  PROVE  /\ linked' \in BOOLEAN /\ booster' \in BOOLEAN
         /\ grace' \in {"none", "ahead", "past"}
         /\ disk' \in [linked : BOOLEAN, booster : BOOLEAN, due : BOOLEAN]
         /\ failures' \in 0..MaxSaveFailures
<1> DEFINE AccountOK == /\ linked' \in BOOLEAN /\ booster' \in BOOLEAN
                        /\ grace' \in {"none", "ahead", "past"}
           WrittenOK == /\ disk' \in [linked : BOOLEAN, booster : BOOLEAN, due : BOOLEAN]
                        /\ failures' \in 0..MaxSaveFailures
<1>1. ASSUME AccountOK, Written \/ WriteFails \/ Unwritten
      PROVE  WrittenOK
  <2>1. CASE Written
    <3>1. linked' \in BOOLEAN /\ booster' \in BOOLEAN /\ (grace' # "none") \in BOOLEAN
      BY <1>1
    <3>2. disk' = [linked |-> linked', booster |-> booster', due |-> grace' # "none"]
      BY <2>1 DEF Written
    <3>3. disk' \in [linked : BOOLEAN, booster : BOOLEAN, due : BOOLEAN]
      BY <3>1, <3>2
    <3>4. QED  BY <2>1, <3>3 DEF Written, IInv, TypeOK
  <2>2. CASE WriteFails \/ Unwritten
    BY <2>2, BoundIsNatural DEF WriteFails, Unwritten, IInv, TypeOK
  <2>3. QED  BY <1>1, <2>1, <2>2
<1>2. ASSUME AccountSame
      PROVE  AccountOK /\ WrittenOK
  BY <1>2 DEF AccountSame, IInv, TypeOK
<1>3. ASSUME NEW l \in BOOLEAN, NEW b \in BOOLEAN, NEW w \in Workers, PushLink(w, l, b)
      PROVE  AccountOK /\ WrittenOK
  <2>1. AccountOK
    BY <1>3 DEF PushLink, IInv, TypeOK
  <2>2. Written \/ WriteFails \/ Unwritten
    BY <1>3 DEF PushLink
  <2>3. QED  BY <1>1, <2>1, <2>2
<1>4. ASSUME NEW w \in Workers, PushStatus(w)
      PROVE  AccountOK /\ WrittenOK
  <2>1. work[w].booster \in BOOLEAN
    BY <1>4, JobTypes, WorkersAct DEF PushStatus, At, IInv
  <2>2. AccountOK
    BY <1>4, <2>1 DEF PushStatus, SetBooster, IInv, TypeOK
  <2>3. Written \/ WriteFails \/ Unwritten
    BY <1>4 DEF PushStatus, SetBooster
  <2>4. QED  BY <1>1, <2>2, <2>3
<1>5. ASSUME NEW w \in Actors, Lift(w) \/ DowngradeDeadline(w)
      PROVE  AccountOK /\ WrittenOK
  <2>1. AccountOK
    BY <1>5 DEF Lift, DowngradeDeadline, SetCloudGrace, IInv, TypeOK
  <2>2. Written \/ WriteFails \/ Unwritten
    BY <1>5 DEF Lift, DowngradeDeadline, SetCloudGrace
  <2>3. QED  BY <1>1, <2>1, <2>2
<1>6. ASSUME OtherSave
      PROVE  AccountOK /\ WrittenOK
  <2>1. AccountOK
    BY <1>6 DEF OtherSave, IInv, TypeOK
  <2>2. QED  BY <1>1, <1>6, <2>1 DEF OtherSave
<1>7. ASSUME GraceExpires \/ Restart \/ UNCHANGED vars
      PROVE  AccountOK /\ WrittenOK
  BY <1>7 DEF GraceExpires, Restart, vars, IInv, TypeOK
<1>8. ASSUME NEW w \in Workers, Asks(w)
      PROVE  AccountOK /\ WrittenOK
  <2> HIDE DEF AccountOK, WrittenOK
  <2>1. AccountSame \/ \E l, b \in BOOLEAN : PushLink(w, l, b)
    BY <1>8 DEF Asks, UploadGate, DeleteFile
  <2>2. QED  BY <1>2, <1>3, <2>1
<1>9. ASSUME NEW w \in Workers, UploadMeasure(w) \/ UploadProtect(w) \/ Goes(w)
      PROVE  AccountOK /\ WrittenOK
  <2> HIDE DEF AccountOK, WrittenOK
  <2>1. AccountSame \/ PushStatus(w) \/ DowngradeDeadline(w)
    BY <1>9
    DEF UploadMeasure, UploadProtect, Goes, UploadRename, Push, PushRead, Demote, Downgrade,
        DeleteSettle
  <2>2. QED  BY <1>2, <1>4, <1>5, <2>1, WorkersAct
<1>10. ASSUME NEW w \in Actors, Erase(w)
       PROVE  AccountOK /\ WrittenOK
  <2> HIDE DEF AccountOK, WrittenOK
  <2>1. AccountSame \/ Lift(w)
    BY <1>10 DEF Erase, ListBoosterOnly, EraseFile, EraseBackup
  <2>2. QED  BY <1>2, <1>5, <2>1
<1>11. ASSUME Sweeps
      PROVE  AccountOK /\ WrittenOK
  BY <1>2, <1>11 DEF Sweeps, SweepStart, SweepWeigh, SweepHeaviest
<1> HIDE DEF AccountOK, WrittenOK
<1>12. AccountOK /\ WrittenOK
  BY <1>6, <1>7, <1>8, <1>9, <1>10, <1>11, WhoActs
<1>13. QED  BY <1>12 DEF AccountOK, WrittenOK

OnlyTakesAway == \A t \in Titles : files'[t] \in {files[t], NoFile}

(* Only a rename puts a file where it was not, or another.                 *)
LEMMA WhatItStores ==
  ASSUME IInv, [Next]_vars
  PROVE  /\ files' \in Store
         /\ OnlyTakesAway \/ \E w \in Workers : UploadRename(w)
<1>1. ASSUME UNCHANGED files
      PROVE  files' \in Store /\ OnlyTakesAway
  BY <1>1 DEF IInv, TypeOK, OnlyTakesAway
<1>2. ASSUME NEW S, files' = Without(files, S)
      PROVE  files' \in Store /\ OnlyTakesAway
  BY <1>2, WithoutType DEF IInv, TypeOK, OnlyTakesAway
<1>3. ASSUME NEW w \in Workers, UploadRename(w)
      PROVE  files' \in Store
  <2>1. work[w].title \in Titles /\ work[w].size \in Sizes
    BY <1>3, JobTypes, WorkersAct DEF UploadRename, RenameJob, IInv
  <2>2. QED  BY <1>3, <2>1 DEF UploadRename, IInv, TypeOK, Store
<1>4. ASSUME NEW w \in Workers, Asks(w)
      PROVE  files' \in Store /\ OnlyTakesAway
  BY <1>1, <1>2, <1>4 DEF Asks, UploadGate, DeleteFile, PushLink, FilesSame
<1>5. ASSUME NEW w \in Workers, UploadMeasure(w) \/ UploadProtect(w)
      PROVE  files' \in Store /\ OnlyTakesAway
  BY <1>1, <1>5 DEF UploadMeasure, UploadProtect, FilesSame
<1>6. ASSUME NEW w \in Workers, Goes(w), ~UploadRename(w)
      PROVE  files' \in Store /\ OnlyTakesAway
  BY <1>1, <1>6
  DEF Goes, Push, PushRead, PushStatus, Demote, Downgrade, DowngradeDeadline, DeleteSettle,
      FilesSame
<1>7. ASSUME NEW w \in Actors, Erase(w)
      PROVE  files' \in Store /\ OnlyTakesAway
  BY <1>1, <1>2, <1>7 DEF Erase, ListBoosterOnly, EraseFile, EraseBackup, Lift, FilesSame
<1>8. CASE Sweeps \/ GraceExpires \/ OtherSave \/ Restart \/ UNCHANGED vars
  BY <1>1, <1>8
  DEF Sweeps, SweepStart, SweepWeigh, SweepHeaviest, GraceExpires, OtherSave, Restart, FilesSame,
      vars
<1>9. QED  BY <1>3, <1>4, <1>5, <1>6, <1>7, <1>8, WhoActs

(* What becomes of the backup of a title.                                  *)
LEMMA WhatItBacksUp ==
  ASSUME IInv, [Next]_vars
  PROVE  /\ baks' \in Store
         /\ \A t \in Titles :
              baks'[t] = baks[t] \/ Tidied(t) \/ \E w \in Workers : UploadProtect(w)
<1>1. ASSUME UNCHANGED baks
      PROVE  baks' \in Store /\ \A t \in Titles : baks'[t] = baks[t]
  BY <1>1 DEF IInv, TypeOK
<1>2. ASSUME NEW w \in Actors, EraseBackup(w)
      PROVE  baks' \in Store /\ \A t \in Titles : baks'[t] = baks[t] \/ Tidied(t)
  <2>1. baks' = Without(baks, {work[w].title})
    BY <1>2 DEF EraseBackup
  <2>2. work'[w].at # "tidy"
    <3>1. \E job : Goto(w, job) /\ job.at # "tidy"
      BY <1>2, JobTypes, AfterIs DEF EraseBackup, Erasing, IInv, At
    <3>2. QED  BY <3>1, Moved
  <2>3. Tidied(work[w].title)
    BY <1>2, <2>2 DEF Tidied, EraseBackup, At
  <2>4. ASSUME NEW t \in Titles PROVE baks'[t] = baks[t] \/ Tidied(t)
    <3>1. CASE t = work[w].title
      BY <2>3, <3>1
    <3>2. CASE t # work[w].title
      BY <2>1, <3>2, WithoutType DEF IInv, TypeOK
    <3>3. QED  BY <3>1, <3>2
  <2>5. QED  BY <2>1, <2>4, WithoutType DEF IInv, TypeOK
<1>3. ASSUME NEW w \in Workers, UploadProtect(w)
      PROVE  baks' \in Store
  <2>1. work[w].title \in Titles
    BY <1>3, JobTypes, WorkersAct DEF UploadProtect, UploadJob, IInv, At
  <2>2. QED  BY <1>3, <2>1 DEF UploadProtect, IInv, TypeOK, Store
<1>4. ASSUME NEW w \in Workers, Asks(w) \/ UploadMeasure(w) \/ Goes(w)
      PROVE  UNCHANGED baks
  BY <1>4
  DEF Asks, UploadGate, DeleteFile, PushLink, UploadMeasure, Goes, UploadRename, Push, PushRead,
      PushStatus, Demote, Downgrade, DowngradeDeadline, DeleteSettle, FilesSame
<1>5. ASSUME NEW w \in Actors, Erase(w), ~EraseBackup(w)
      PROVE  UNCHANGED baks
  BY <1>5 DEF Erase, ListBoosterOnly, EraseFile, Lift, FilesSame
<1>6. CASE Sweeps \/ GraceExpires \/ OtherSave \/ Restart \/ UNCHANGED vars
  BY <1>1, <1>6
  DEF Sweeps, SweepStart, SweepWeigh, SweepHeaviest, GraceExpires, OtherSave, Restart, FilesSame,
      vars
<1>7. QED  BY <1>1, <1>2, <1>3, <1>4, <1>5, <1>6, WhoActs

(* A title anybody may keep goes at the player's request or the sweep's.   *)
LEMMA SparingStep ==
  ASSUME IInv, [Next]_vars
  PROVE  SparesAllowed
<1>1. ASSUME UNCHANGED files
      PROVE  SparesAllowed
  BY <1>1 DEF SparesAllowed
<1>2. ASSUME NEW w \in Workers, NEW t \in Titles, DeleteFile(w, t)
      PROVE  SparesAllowed
  <2> DEFINE job == [at |-> "tidy", why |-> "request", todo |-> {}, title |-> t]
  <2>1. work[w] = Idle /\ Goto(w, job)
    BY <1>2 DEF DeleteFile
  <2>2. work'[w] = job
    <3> HIDE DEF job
    <3>1. QED  BY <2>1, Moved, WorkersAct
  <2>3. Requested
    BY <2>1, <2>2 DEF Requested, At
  <2>4. QED  BY <2>3 DEF SparesAllowed
<1>3. ASSUME NEW w \in Workers, Asks(w)
      PROVE  SparesAllowed
  BY <1>1, <1>2, <1>3 DEF Asks, UploadGate, PushLink, FilesSame
<1>4. ASSUME NEW w \in Workers, UploadRename(w)
      PROVE  SparesAllowed
  <2>1. work[w].title \in Titles /\ work[w].size \in Sizes
    BY <1>4, JobTypes, WorkersAct DEF UploadRename, RenameJob, IInv
  <2>2. \A t \in Titles : files'[t] # NoFile \/ files'[t] = files[t]
    BY <1>4, <2>1, SizesAreNaturals DEF UploadRename, IInv, TypeOK, Store
  <2>3. QED  BY <2>2, AllowedAreTitles DEF SparesAllowed
<1>5. ASSUME NEW w \in Workers, UploadMeasure(w) \/ UploadProtect(w) \/ Goes(w), ~UploadRename(w)
      PROVE  SparesAllowed
  BY <1>1, <1>5
  DEF UploadMeasure, UploadProtect, Goes, Push, PushRead, PushStatus, Demote, Downgrade,
      DowngradeDeadline, DeleteSettle, FilesSame
<1>6. ASSUME NEW w \in Actors, EraseFile(w)
      PROVE  SparesAllowed
  <2>1. PICK t \in work[w].todo : files' = Without(files, {t})
    BY <1>6 DEF EraseFile
  <2>2. Proper(w, work[w]) /\ work[w].why \in Erasers /\ At(w, "erase")
    BY <1>6, JobTypes DEF EraseFile, At, IInv, ErasersAreProper
  <2>3. CASE work[w].why = "heaviest"
    BY <2>2, <2>3 DEF Proper, At, SparesAllowed
  <2>4. CASE work[w].why \in {"downgrade", "sweep"}
    <3>1. t \notin Allowed
      BY <2>1, <2>2, <2>4 DEF Proper, At
    <3>2. \A u \in Allowed : files'[u] = files[u]
      BY <2>1, <3>1, WithoutType, AllowedAreTitles DEF IInv, TypeOK
    <3>3. QED  BY <3>2 DEF SparesAllowed
  <2>5. CASE work[w].why = "request"
    BY <2>1, <2>2, <2>5 DEF Proper, At
  <2>6. QED  BY <2>2, <2>3, <2>4, <2>5, AfterIs
<1>7. ASSUME NEW w \in Actors, Erase(w), ~EraseFile(w)
      PROVE  SparesAllowed
  BY <1>1, <1>7 DEF Erase, ListBoosterOnly, EraseBackup, Lift, FilesSame
<1>8. CASE Sweeps \/ GraceExpires \/ OtherSave \/ Restart \/ UNCHANGED vars
  BY <1>1, <1>8
  DEF Sweeps, SweepStart, SweepWeigh, SweepHeaviest, GraceExpires, OtherSave, Restart, FilesSame,
      vars
<1>9. QED  BY <1>3, <1>4, <1>5, <1>6, <1>7, <1>8, WhoActs

-----------------------------------------------------------------------------
(* The invariant, and the guard that is kept.                              *)

(* A step that adds no file keeps every guard that was passed.             *)
LEMMA Removal ==
  ASSUME IInv, files' \in Store, OnlyTakesAway
  PROVE  /\ \A w \in Workers : At(w, "rename") =>
              ~Clobbers(files'[work[w].title], work[w].size)
         /\ NotClobbered
<1>1. ASSUME NEW w \in Workers, At(w, "rename")
      PROVE  ~Clobbers(files'[work[w].title], work[w].size)
  <2>1. work[w].title \in Titles
    BY <1>1, JobTypes, WorkersAct DEF IInv, RenameJob
  <2>2. ~Clobbers(files[work[w].title], work[w].size)
    BY <1>1 DEF IInv, GuardHolds
  <2>3. QED  BY <2>1, <2>2 DEF Clobbers, OnlyTakesAway
<1>2. NotClobbered
  BY DEF NotClobbered, Replaces, OnlyTakesAway
<1>3. QED  BY <1>1, <1>2

(* The invariant of the jobs, and what a step may put where a file was.    *)
JobsKept ==
  /\ work' \in [Actors -> Jobs] /\ lock' \in Workers \cup {Free}
  /\ LockHeld' /\ GuardHolds' /\ ErasersAreProper'
  /\ NotClobbered

(* One job moves to where no lock is held, and no file is added.           *)
LEMMA MoveKeeps ==
  ASSUME IInv, NEW w \in Actors, Moves(w), files' \in Store, OnlyTakesAway
  PROVE  JobsKept
<1>1. PICK job \in Jobs :
        /\ Goto(w, job)
        /\ job.at \notin Holding /\ Proper(w, job)
        /\ lock' = lock \/ (lock' = Free /\ lock = w)
  BY DEF Moves
<1>2. /\ work' \in [Actors -> Jobs]
      /\ work'[w] = job
      /\ \A v \in Actors \ {w} : work'[v] = work[v]
  BY <1>1 DEF IInv, TypeOK, Goto
<1>3. lock' \in Workers \cup {Free}
  BY <1>1 DEF IInv, TypeOK
<1>4. LockHeld'
  BY <1>1, <1>2, WorkersAct DEF IInv, LockHeld
<1>5. GuardHolds' /\ NotClobbered
  BY <1>1, <1>2, Removal, WorkersAct DEF GuardHolds, At, Holding
<1>6. ErasersAreProper'
  BY <1>1, <1>2 DEF IInv, ErasersAreProper, Proper
<1>7. QED  BY <1>2, <1>3, <1>4, <1>5, <1>6 DEF JobsKept

(* No job moves.                                                           *)
LEMMA RestKeeps ==
  ASSUME IInv, UNCHANGED <<files, work, lock>>
  PROVE  JobsKept
BY DEF IInv, TypeOK, LockHeld, GuardHolds, ErasersAreProper, Proper, At, JobsKept, NotClobbered,
       Replaces

(* An upload that was measured, or passed the guard, has the lock.         *)
LEMMA HoldKeeps ==
  ASSUME IInv, NEW w \in Workers, NEW job \in Jobs, Goto(w, job), job.at \in Holding,
         lock' = w, lock \in {Free, w}, UNCHANGED files,
         job.at = "rename" => ~Clobbers(files[job.title], job.size)
  PROVE  JobsKept
<1>1. /\ work' \in [Actors -> Jobs]
      /\ work'[w] = job
      /\ \A v \in Actors \ {w} : work'[v] = work[v]
  BY WorkersAct DEF IInv, TypeOK, Goto
<1>2. LockHeld'
  BY <1>1, WorkersAct DEF IInv, LockHeld
<1>3. GuardHolds'
  BY <1>1, WorkersAct DEF IInv, GuardHolds, At
<1>4. ErasersAreProper'
  BY <1>1 DEF IInv, ErasersAreProper, Proper, Holding
<1>5. QED  BY <1>1, <1>2, <1>3, <1>4 DEF JobsKept, NotClobbered, Replaces

(* What UploadMeasure does.                                                *)
LEMMA MeasureStep ==
  ASSUME IInv, NEW w \in Workers, UploadMeasure(w)
  PROVE  /\ work[w] \in UploadJob /\ lock = Free /\ UNCHANGED files
         /\ \/ /\ Fits(work[w].title, work[w].size)
               /\ work'[w] = [work[w] EXCEPT !.at = "protect"]
               /\ Goto(w, [work[w] EXCEPT !.at = "protect"]) /\ lock' = w
            \/ Moves(w) /\ Goto(w, Idle)
<1>1. work[w] \in UploadJob /\ lock = Free /\ UNCHANGED files
  BY JobTypes, WorkersAct DEF UploadMeasure, At, IInv, FilesSame
<1>2. CASE Fits(work[w].title, work[w].size)
  <2>1. Goto(w, [work[w] EXCEPT !.at = "protect"]) /\ lock' = w
    BY <1>2 DEF UploadMeasure, Admit
  <2>2. work'[w] = [work[w] EXCEPT !.at = "protect"]
    BY <2>1, Moved, WorkersAct
  <2>3. QED  BY <1>1, <1>2, <2>1, <2>2
<1>3. CASE ~Fits(work[w].title, work[w].size)
  <2>1. Goto(w, Idle) /\ lock' = lock
    BY <1>3 DEF UploadMeasure, Admit
  <2>2. Moves(w)
    BY <2>1, SimpleMove DEF Idle
  <2>3. QED  BY <1>1, <2>1, <2>2
<1>4. QED  BY <1>2, <1>3

(* What UploadProtect does.                                                *)
Copied(w, kept) ==
  LET t == work[w].title
      old == files[t]
  IN  kept => baks' = IF old \in {NoFile, 0} THEN baks ELSE [baks EXCEPT ![t] = old]

Renaming(w, kept) ==
  [at |-> "rename", title |-> work[w].title, size |-> work[w].size, kept |-> kept]

LEMMA ProtectStep ==
  ASSUME IInv, NEW w \in Workers, UploadProtect(w)
  PROVE  /\ work[w] \in UploadJob /\ lock = w /\ UNCHANGED files
         /\ \/ /\ ~Clobbers(files[work[w].title], work[w].size) /\ lock' = w
               /\ \E kept \in BOOLEAN :
                    /\ Goto(w, Renaming(w, kept)) /\ work'[w] = Renaming(w, kept)
                    /\ Copied(w, kept)
            \/ Moves(w) /\ Goto(w, Idle)
<1>1. work[w] \in UploadJob /\ lock = w /\ UNCHANGED files
  BY JobTypes, WorkersAct DEF UploadProtect, At, IInv, LockHeld, Holding
<1>2. CASE Leave(w)
  <2>1. Goto(w, Idle) /\ lock' = Free
    BY <1>2 DEF Leave
  <2>2. Moves(w)
    BY <1>1, <2>1, SimpleMove DEF Idle
  <2>3. QED  BY <1>1, <2>1, <2>2
<1>3. CASE ~Leave(w)
  <2>1. PICK kept \in BOOLEAN : ToRename(w, kept) /\ Copied(w, kept)
    BY <1>3 DEF UploadProtect, Copied
  <2>2. ~Clobbers(files[work[w].title], work[w].size)
    BY <1>3 DEF UploadProtect
  <2>3. Goto(w, Renaming(w, kept)) /\ lock' = w
    BY <1>1, <2>1 DEF ToRename, Renaming
  <2>4. work'[w] = Renaming(w, kept)
    BY <2>3, Moved, WorkersAct
  <2>5. QED  BY <1>1, <2>1, <2>2, <2>3, <2>4
<1>4. QED  BY <1>2, <1>3

LEMMA RenamingIsAJob ==
  ASSUME NEW w, work[w] \in UploadJob, NEW kept \in BOOLEAN
  PROVE  /\ Renaming(w, kept) \in Jobs
         /\ Renaming(w, kept).at = "rename"
         /\ Renaming(w, kept).title = work[w].title
         /\ Renaming(w, kept).size = work[w].size
         /\ Renaming(w, kept).kept = kept
BY DEF Renaming, Jobs, UploadJob

LEMMA RenameKeeps ==
  ASSUME IInv, NEW w \in Workers, UploadRename(w)
  PROVE  JobsKept
<1>1. /\ work[w] \in RenameJob /\ lock = w /\ lock' = Free
      /\ work[w].title \in Titles /\ work[w].size \in Sizes
      /\ ~Clobbers(files[work[w].title], work[w].size)
      /\ Goto(w, Idle)
  BY JobTypes, WorkersAct
  DEF IInv, UploadRename, At, Holding, LockHeld, RenameJob, GuardHolds, Leave
<1>2. /\ work' \in [Actors -> Jobs]
      /\ work'[w] = Idle
      /\ \A v \in Actors \ {w} : work'[v] = work[v]
  BY <1>1, WorkersAct DEF Goto, IInv, TypeOK, Jobs
<1>3. \A v \in Workers : work'[v].at \notin Holding
  BY <1>1, <1>2, WorkersAct DEF IInv, LockHeld, Idle, Holding
<1>4. LockHeld' /\ GuardHolds'
  BY <1>3 DEF LockHeld, GuardHolds, At, Holding
<1>5. ErasersAreProper'
  BY <1>2 DEF IInv, ErasersAreProper, Proper, Idle
<1>6. NotClobbered
  BY <1>1 DEF NotClobbered, Replaces, UploadRename, IInv, TypeOK, Store
<1>7. QED  BY <1>1, <1>2, <1>4, <1>5, <1>6 DEF JobsKept

LEMMA RestartKeeps ==
  ASSUME IInv, Restart
  PROVE  JobsKept
<1>1. lock' = Free /\ work' = [w \in Actors |-> Idle] /\ UNCHANGED files
  BY DEF Restart, FilesSame
<1>2. Idle \in Jobs /\ Idle.at \notin Holding \cup {"erase", "tidy"}
  BY DEF Idle, Jobs, Holding
<1>3. work' \in [Actors -> Jobs] /\ \A w \in Actors : work'[w] = Idle
  BY <1>1, <1>2
<1>4. LockHeld' /\ GuardHolds' /\ ErasersAreProper'
  BY <1>2, <1>3, WorkersAct DEF LockHeld, GuardHolds, ErasersAreProper, Proper, At, Holding
<1>5. QED  BY <1>1, <1>3, <1>4 DEF JobsKept, NotClobbered, Replaces

Kept == IInv' /\ NotClobbered

LEMMA StepKeeps ==
  ASSUME IInv, [Next]_vars
  PROVE  Kept
<1>1. files' \in Store /\ baks' \in Store
  BY WhatItStores, WhatItBacksUp
<1>2. ASSUME NEW w \in Actors, Moves(w), ~\E v \in Workers : UploadRename(v)
      PROVE  JobsKept
  BY <1>1, <1>2, WhatItStores, MoveKeeps
<1>3. ASSUME NEW w \in Workers, UploadMeasure(w)
      PROVE  JobsKept
  <2>1. CASE Moves(w)
    <3>1. OnlyTakesAway
      BY <1>3, MeasureStep DEF OnlyTakesAway, IInv, TypeOK
    <3>2. QED  BY <1>1, <2>1, <3>1, MoveKeeps, WorkersAct
  <2>2. CASE Goto(w, [work[w] EXCEPT !.at = "protect"]) /\ lock' = w
    <3> DEFINE job == [work[w] EXCEPT !.at = "protect"]
    <3>1. job \in Jobs /\ job.at = "protect"
      BY <1>3, MeasureStep DEF UploadJob, Jobs
    <3> HIDE DEF job
    <3>2. Goto(w, job)
      BY <2>2 DEF job
    <3>3. QED  BY <1>3, <2>2, <3>1, <3>2, MeasureStep, HoldKeeps DEF Holding
  <2>3. QED  BY <1>3, <2>1, <2>2, MeasureStep
<1>4. ASSUME NEW w \in Workers, UploadProtect(w)
      PROVE  JobsKept
  <2>1. CASE Moves(w)
    <3>1. OnlyTakesAway
      BY <1>4, ProtectStep DEF OnlyTakesAway, IInv, TypeOK
    <3>2. QED  BY <1>1, <2>1, <3>1, MoveKeeps, WorkersAct
  <2>2. ASSUME NEW kept \in BOOLEAN, Goto(w, Renaming(w, kept)), lock' = w,
               ~Clobbers(files[work[w].title], work[w].size)
        PROVE  JobsKept
    BY <1>4, <2>2, ProtectStep, RenamingIsAJob, HoldKeeps DEF Holding
  <2>3. QED  BY <1>4, <2>1, <2>2, ProtectStep
<1>5. ASSUME NEW w \in Workers, UploadRename(w)
      PROVE  JobsKept
  BY <1>5, RenameKeeps
<1>6. ASSUME OtherSave \/ GraceExpires \/ UNCHANGED vars
      PROVE  JobsKept
  BY <1>6, RestKeeps DEF OtherSave, GraceExpires, vars, FilesSame
<1>7. Sweeper \in Actors
  BY DEF Actors
<1>8. JobsKept
  BY <1>2, <1>3, <1>4, <1>5, <1>6, <1>7, WhoActs, AsksMoves, GoesMoves, EraseMoves, SweepsMoves,
     RestartKeeps, WorkersAct
<1>9. QED
  BY <1>1, <1>8, AccountStep DEF JobsKept, Kept, IInv, TypeOK

-----------------------------------------------------------------------------
(* What a store takes, as the size of a set of bytes.                      *)

(* The bytes of one file are as many as its size.                          *)
LEMMA FileSpace ==
  ASSUME NEW t, NEW n \in Nat
  PROVE  IsFiniteSet({t} \X (1..n)) /\ Cardinality({t} \X (1..n)) = n
<1>1. IsFiniteSet(1..n) /\ Cardinality(1..n) = n
  BY FS_Interval
<1>2. IsFiniteSet({t}) /\ Cardinality({t}) = 1
  BY FS_Singleton
<1>3. QED  BY <1>1, <1>2, FS_Product

LEMMA StoredSize ==
  ASSUME NEW f \in Store, NEW t \in Present(f)
  PROVE  t \in Titles /\ f[t] \in Sizes /\ f[t] \in Nat
BY SizesAreNaturals DEF Store, Present

(* What a store takes is a number.                                         *)
LEMMA UsageType ==
  ASSUME NEW f \in Store
  PROVE  IsFiniteSet(Bytes(f)) /\ Usage(f) \in Nat
<1> DEFINE space == [t \in Present(f) |-> {t} \X (1..f[t])]
           spaces == {{t} \X (1..f[t]) : t \in Present(f)}
<1>1. IsFiniteSet(Present(f))
  BY TitlesAreFinite, FS_Subset DEF Store, Present
<1>2. space \in Surjection(Present(f), spaces)
  BY DEF Surjection
<1>3. IsFiniteSet(spaces)
  BY <1>1, <1>2, FS_Surjection
<1>4. \A S \in spaces : IsFiniteSet(S)
  <2> SUFFICES ASSUME NEW t \in Present(f) PROVE IsFiniteSet({t} \X (1..f[t]))
    OBVIOUS
  <2>1. f[t] \in Nat
    BY StoredSize
  <2>2. QED  BY <2>1, FileSpace
<1>5. IsFiniteSet(UNION spaces)
  BY <1>3, <1>4, FS_UNION
<1>6. QED  BY <1>5, FS_CardinalityType DEF Bytes, Usage

(* A store whose files are all files of another takes no more.             *)
LEMMA UsageShrinks ==
  ASSUME NEW f \in Store, NEW g \in Store, \A t \in Titles : g[t] \in {f[t], NoFile}
  PROVE  Usage(g) <= Usage(f)
<1>1. Bytes(g) \subseteq Bytes(f)
  BY DEF Bytes, Present, Store
<1>2. QED  BY <1>1, UsageType, FS_Subset DEF Usage

(* One more file takes at most its size.                                   *)
LEMMA UsageOfOneMore ==
  ASSUME NEW f \in Store, NEW t \in Titles, NEW n \in Sizes
  PROVE  Usage([f EXCEPT ![t] = n]) <= Usage(Without(f, {t})) + n
<1> DEFINE rest == Without(f, {t})
           g == [f EXCEPT ![t] = n]
<1>1. rest \in Store /\ n \in Nat /\ g \in Store
  BY SizesAreNaturals DEF Store, Without
<1>2. Bytes(g) \subseteq Bytes(rest) \cup ({t} \X (1..n))
  <2> SUFFICES ASSUME NEW u \in Present(g), NEW b \in {u} \X (1..g[u])
               PROVE  b \in Bytes(rest) \cup ({t} \X (1..n))
    BY DEF Bytes
  <2>1. CASE u = t
    BY <2>1 DEF Store
  <2>2. CASE u # t
    <3>1. u \in Present(rest) /\ rest[u] = g[u]
      BY <2>2 DEF Present, Without, Store
    <3>2. QED  BY <3>1 DEF Bytes
  <2>3. QED  BY <2>1, <2>2
<1>3. /\ IsFiniteSet(Bytes(rest)) /\ Usage(rest) \in Nat
      /\ IsFiniteSet({t} \X (1..n)) /\ Cardinality({t} \X (1..n)) = n
  BY <1>1, UsageType, FileSpace
<1> HIDE DEF rest, g
<1> DEFINE B == Bytes(rest)
           C == {t} \X (1..n)
<1>4. IsFiniteSet(B \cup C) /\ Cardinality(B \cup C) = Cardinality(B) + Cardinality(C) - Cardinality(B \cap C)
  BY <1>3, FS_Union
<1>5. Cardinality(B \cap C) \in Nat
  BY <1>3, FS_Intersection, FS_CardinalityType
<1>6. Cardinality(Bytes(g)) <= Cardinality(B \cup C)
  BY <1>2, <1>4, FS_Subset
<1>7. Cardinality(Bytes(g)) \in Nat
  BY <1>1, UsageType DEF Usage
<1>8. Usage(g) <= Usage(rest) + n
  BY <1>1, <1>3, <1>4, <1>5, <1>6, <1>7 DEF Usage
<1>9. QED  BY <1>8 DEF g, rest

LEMMA NothingTakesNothing ==
  ASSUME NEW f, Present(f) = {}
  PROVE  Usage(f) = 0
BY FS_EmptySet DEF Usage, Bytes

(* Of the files that are there, one is a heaviest: none is larger than the *)
(* store, and of what each leaves to the rest there is a least.            *)
LEMMA HeaviestIsThere ==
  ASSUME files \in Store, Heaviest = {}
  PROVE  Present(files) = {}
<1> SUFFICES ASSUME NEW x \in Present(files) PROVE FALSE
  OBVIOUS
<1> DEFINE total == Usage(files)
           left == {total - files[t] : t \in Present(files)}
           R == {ss \in Nat \X Nat : ss[1] < ss[2]}
<1>1. \A t \in Present(files) : files[t] \in Nat /\ files[t] <= total
  <2> SUFFICES ASSUME NEW t \in Present(files) PROVE files[t] \in Nat /\ files[t] <= total
    OBVIOUS
  <2>1. files[t] \in Nat
    BY StoredSize
  <2>2. {t} \X (1..files[t]) \subseteq Bytes(files)
    BY DEF Bytes
  <2>3. Cardinality({t} \X (1..files[t])) = files[t]
    BY <2>1, FileSpace
  <2>4. QED  BY <2>1, <2>2, <2>3, UsageType, FS_Subset DEF Usage
<1>2. total \in Nat
  BY UsageType
<1>3. left \subseteq Nat /\ left # {}
  BY <1>1, <1>2
<1>4. PICK m \in left : \A y \in left : <<y, m>> \notin R
  <2>1. IsWellFoundedOn(R, Nat)
    BY NatLessThanWellFounded DEF OpToRel
  <2> HIDE DEF left, R
  <2>2. QED  BY <1>3, <2>1, WFMin
<1>5. PICK t \in Present(files) : m = total - files[t]
  BY <1>4
<1>6. ASSUME NEW u \in Present(files) PROVE files[u] <= files[t]
  <2>1. total - files[u] \in Nat /\ m \in Nat /\ files[u] \in Nat /\ files[t] \in Nat
    BY <1>1, <1>2, <1>5
  <2>2. ~(total - files[u] < m)
    BY <1>4, <2>1
  <2>3. QED  BY <1>2, <1>5, <2>1, <2>2
<1>7. QED  BY <1>6 DEF Heaviest

-----------------------------------------------------------------------------
(* The quota.  An upload is measured long before its rename; what it was   *)
(* measured against has only shrunk since, as no other upload can be past  *)
(* its own measure.                                                        *)
Measured(w) ==
  Usage(Without(files, {work[w].title})) + work[w].size <= LimitBooster

QuotaInv ==
  /\ WithinLargestQuota
  /\ \A w \in Workers : work[w].at \in Holding => Measured(w)

(* How a handler comes to be between its measure and its rename.           *)
LEMMA HowItCame ==
  ASSUME IInv, [Next]_vars, NEW v \in Workers, work'[v].at \in Holding
  PROVE  /\ work[v] \in UploadJob \cup RenameJob
         /\ \/ work'[v] = work[v]
            \/ /\ UploadMeasure(v) /\ Fits(work[v].title, work[v].size)
               /\ work'[v] = [work[v] EXCEPT !.at = "protect"]
            \/ /\ UploadProtect(v)
               /\ \E kept \in BOOLEAN : work'[v] = Renaming(v, kept) /\ Copied(v, kept)
<1>1. ASSUME NEW w \in Actors, Moves(w)
      PROVE  work'[v] = work[v]
  <2>1. PICK job \in Jobs : Goto(w, job) /\ job.at \notin Holding
    BY <1>1 DEF Moves
  <2>2. QED  BY <2>1, Moved, WorkersAct
<1>2. ASSUME work'[v] = work[v]
      PROVE  work[v] \in UploadJob \cup RenameJob
  BY <1>2, JobTypes, WorkersAct DEF IInv, Holding, At
<1>3. ASSUME NEW w \in Workers, UploadMeasure(w), ~Moves(w)
      PROVE  \/ work'[v] = work[v]
             \/ /\ v = w /\ Fits(work[v].title, work[v].size) /\ work[v] \in UploadJob
                /\ work'[v] = [work[v] EXCEPT !.at = "protect"]
  BY <1>3, MeasureStep, Moved, WorkersAct
<1>4. ASSUME NEW w \in Workers, UploadProtect(w), ~Moves(w)
      PROVE  \/ work'[v] = work[v]
             \/ /\ v = w /\ work[v] \in UploadJob
                /\ \E kept \in BOOLEAN : work'[v] = Renaming(v, kept) /\ Copied(v, kept)
  BY <1>4, ProtectStep, Moved, WorkersAct
<1>5. ASSUME OtherSave \/ GraceExpires \/ UNCHANGED vars
      PROVE  work'[v] = work[v]
  BY <1>5 DEF OtherSave, GraceExpires, vars
<1>6. ASSUME Restart PROVE FALSE
  BY <1>6, WorkersAct DEF Restart, Idle, Holding
<1>7. Sweeper \in Actors
  BY DEF Actors
<1>8. ASSUME NEW w \in Workers, Asks(w) \/ Goes(w)
      PROVE  work'[v] = work[v]
  BY <1>1, <1>8, AsksMoves, GoesMoves, WorkersAct
<1>9. ASSUME NEW w \in Actors, Erase(w)
      PROVE  work'[v] = work[v]
  BY <1>1, <1>9, EraseMoves
<1>10. ASSUME Sweeps
       PROVE  work'[v] = work[v]
  BY <1>1, <1>7, <1>10, SweepsMoves
<1>11. CASE \E w \in Workers : UploadMeasure(w)
  BY <1>1, <1>2, <1>3, <1>11, WorkersAct
<1>12. CASE \E w \in Workers : UploadProtect(w)
  BY <1>1, <1>2, <1>4, <1>12, WorkersAct
<1>13. QED
  BY <1>2, <1>5, <1>6, <1>8, <1>9, <1>10, <1>11, <1>12, WhoActs

LEMMA HoldersCarry ==
  ASSUME NEW v, work[v] \in UploadJob \cup RenameJob
  PROVE  work[v].title \in Titles /\ work[v].size \in Sizes
BY DEF UploadJob, RenameJob

LEMMA QuotaStep ==
  ASSUME IInv, IInv', QuotaInv, [Next]_vars
  PROVE  QuotaInv'
<1>1. files \in Store /\ files' \in Store
  BY DEF IInv, TypeOK
<1>2. \A f \in Store : Usage(f) \in Nat
  BY UsageType
<1>3. ASSUME NEW v \in Workers, work'[v].at \in Holding
      PROVE  Measured(v)'
  <2> DEFINE t == work[v].title
             n == work[v].size
  <2>1. t \in Titles /\ n \in Sizes
    BY <1>3, HowItCame, HoldersCarry
  <2>2. work'[v].title = t /\ work'[v].size = n
    <3>1. CASE work'[v] = work[v]
      BY <3>1
    <3>2. CASE work'[v] = [work[v] EXCEPT !.at = "protect"]
      BY <1>3, <3>2, HowItCame DEF UploadJob, RenameJob
    <3>3. CASE \E kept \in BOOLEAN : work'[v] = Renaming(v, kept)
      BY <3>3 DEF Renaming
    <3>4. QED  BY <1>3, <3>1, <3>2, <3>3, HowItCame
  <2>3. Usage(Without(files, {t})) + n <= LimitBooster
    <3>1. CASE work'[v] = work[v]
      BY <1>3, <3>1 DEF QuotaInv, Measured
    <3>2. CASE UploadProtect(v)
      BY <3>2 DEF UploadProtect, At, QuotaInv, Measured, Holding
    <3>3. CASE Fits(t, n)
      <4>1. Quota(booster) \in Nat /\ Quota(booster) <= LimitBooster
        BY LimitsAreOrdered DEF Quota
      <4>2. Without(files, {t}) \in Store
        BY <1>1, WithoutType
      <4>3. Usage(Without(files, {t})) \in Nat /\ n \in Nat
        BY <1>2, <2>1, <4>2, SizesAreNaturals
      <4>4. Usage(Without(files, {t})) + n <= Quota(booster)
        BY <3>3 DEF Fits
      <4> HIDE DEF t, n
      <4>5. QED  BY <4>1, <4>3, <4>4, LimitsAreOrdered
    <3>4. QED  BY <1>3, <3>1, <3>2, <3>3, HowItCame
  <2> HIDE DEF t, n
  <2>4. OnlyTakesAway
    <3> SUFFICES ASSUME NEW w \in Workers, UploadRename(w) PROVE FALSE
      BY WhatItStores
    <3>1. lock' = Free
      BY DEF UploadRename, Leave
    <3>2. QED  BY <1>3, <3>1, WorkersAct DEF IInv, LockHeld
  <2>5. /\ Without(files, {t}) \in Store /\ Without(files', {t}) \in Store
        /\ \A u \in Titles : Without(files', {t})[u] \in {Without(files, {t})[u], NoFile}
    BY <1>1, <2>1, <2>4, WithoutType DEF Without, OnlyTakesAway
  <2>6. Usage(Without(files', {t})) <= Usage(Without(files, {t}))
    BY <2>5, UsageShrinks
  <2>7. Usage(Without(files, {t})) \in Nat /\ Usage(Without(files', {t})) \in Nat /\ n \in Nat
    BY <1>2, <2>1, <2>5, SizesAreNaturals
  <2>8. Usage(Without(files', {t})) + n <= LimitBooster
    BY <2>3, <2>6, <2>7, LimitsAreOrdered
  <2>9. QED  BY <2>2, <2>8 DEF Measured
<1>4. WithinLargestQuota'
  <2>1. CASE OnlyTakesAway
    <3>1. Usage(files') <= Usage(files) /\ Usage(files) \in Nat /\ Usage(files') \in Nat
      BY <1>1, <1>2, <2>1, UsageShrinks DEF OnlyTakesAway
    <3>2. QED  BY <3>1, LimitsAreOrdered DEF QuotaInv, WithinLargestQuota
  <2>2. ASSUME NEW w \in Workers, UploadRename(w)
        PROVE  WithinLargestQuota'
    <3>1. /\ work[w].title \in Titles /\ work[w].size \in Sizes
          /\ Measured(w)
      BY <2>2, JobTypes, WorkersAct DEF UploadRename, At, Holding, RenameJob, IInv, QuotaInv
    <3>2. CASE files' = files
      BY <3>2 DEF QuotaInv, WithinLargestQuota
    <3>3. CASE files' = [files EXCEPT ![work[w].title] = work[w].size]
      <4>1. Usage(files') <= Usage(Without(files, {work[w].title})) + work[w].size
        BY <1>1, <3>1, <3>3, UsageOfOneMore
      <4>2. Without(files, {work[w].title}) \in Store
        BY <1>1, WithoutType
      <4>3. /\ Usage(files') \in Nat /\ Usage(Without(files, {work[w].title})) \in Nat
            /\ work[w].size \in Nat /\ LimitBooster \in Nat
        BY <1>1, <1>2, <3>1, <4>2, SizesAreNaturals, LimitsAreOrdered
      <4>4. QED  BY <3>1, <4>1, <4>3 DEF WithinLargestQuota, Measured
    <3>4. QED  BY <2>2, <3>2, <3>3 DEF UploadRename
  <2>3. QED  BY <2>1, <2>2, WhatItStores
<1>5. QED  BY <1>3, <1>4 DEF QuotaInv

-----------------------------------------------------------------------------
(* The backup.  It is made of the save that is there; until the rename     *)
(* others only take away, the backup in a step that tidies that title.     *)
LEMMA BackupStep ==
  ASSUME IInv, [Next]_vars
  PROVE  BackedUp
<1> SUFFICES ASSUME NEW w \in Workers, At(w, "rename")', work'[w].kept
             PROVE  \/ Covered(w)'
                    \/ At(w, "rename") /\ (~Covered(w) \/ Tidied(work[w].title))
  BY DEF BackedUp
<1> DEFINE t == work[w].title
<1>1. work'[w].at = "rename" /\ work'[w].at \in Holding
  BY DEF At, Holding
<1>2. work[w] \in UploadJob \cup RenameJob /\ t \in Titles
  BY <1>1, HowItCame, HoldersCarry
<1>3. ASSUME UploadProtect(w), NEW kept \in BOOLEAN, work'[w] = Renaming(w, kept), Copied(w, kept)
      PROVE  Covered(w)'
  <2>1. work'[w].title = t /\ kept
    BY <1>3 DEF Renaming
  <2>2. files' = files
    BY <1>3 DEF UploadProtect
  <2>3. files[t] \notin {NoFile, 0} => baks'[t] = files[t]
    BY <1>2, <1>3, <2>1 DEF Copied, IInv, TypeOK, Store
  <2>4. QED  BY <2>1, <2>2, <2>3 DEF Covered
<1>4. CASE work'[w] = work[w]
  <2> SUFFICES ASSUME Covered(w), ~Tidied(t)
               PROVE  Covered(w)'
    BY <1>1, <1>4 DEF At
  <2>1. lock = w
    BY <1>1, <1>4 DEF IInv, LockHeld
  <2>2. \A v \in Workers : ~UploadProtect(v)
    <3> SUFFICES ASSUME NEW v \in Workers, UploadProtect(v) PROVE FALSE
      OBVIOUS
    <3>1. v = w
      BY <2>1 DEF UploadProtect, At, IInv, LockHeld, Holding
    <3>2. QED  BY <1>1, <1>4, <3>1 DEF UploadProtect, At
  <2>3. ~\E v \in Workers : UploadRename(v)
    <3> SUFFICES ASSUME NEW v \in Workers, UploadRename(v) PROVE FALSE
      OBVIOUS
    <3>1. lock' = Free
      BY DEF UploadRename, Leave
    <3>2. lock' = w
      BY <1>1, StepKeeps DEF Kept, IInv, LockHeld
    <3>3. QED  BY <3>1, <3>2, WorkersAct
  <2>4. files'[t] \in {files[t], NoFile}
    BY <1>2, <2>3, WhatItStores DEF OnlyTakesAway
  <2>5. baks'[t] = baks[t]
    BY <1>2, <2>2, WhatItBacksUp
  <2>6. QED  BY <1>4, <2>4, <2>5 DEF Covered
<1>5. CASE work[w] \in UploadJob /\ work'[w] = [work[w] EXCEPT !.at = "protect"]
  BY <1>1, <1>5 DEF UploadJob
<1>6. CASE work[w] \in RenameJob /\ UploadMeasure(w)
  BY <1>6 DEF RenameJob, UploadMeasure, At
<1>7. QED  BY <1>1, <1>2, <1>3, <1>4, <1>5, <1>6, HowItCame

-----------------------------------------------------------------------------
(* The watch over the quota.                                               *)

(* What still watches after a step that gives up no status, no deadline    *)
(* and no downgrade, and stores no more.                                   *)
LEMMA StillWatched ==
  ASSUME IInv, [Next]_vars, OnlyTakesAway,
         booster => booster', grace # "none" => grace' # "none",
         \A w \in Workers : Demoting(w) => Demoting(w)'
  PROVE  Watched => Watched'
<1>1. files \in Store /\ files' \in Store
  BY WhatItStores DEF IInv, TypeOK
<1>2. Usage(files) \in Nat /\ Usage(files') \in Nat /\ Usage(files') <= Usage(files)
  BY <1>1, UsageType, UsageShrinks DEF OnlyTakesAway
<1>3. Usage(files) <= Limit => Usage(files') <= Limit
  BY <1>2, LimitsAreOrdered
<1>4. QED  BY <1>3 DEF Watched

(* One actor moves.                                                        *)
LEMMA OneMoves ==
  ASSUME IInv, NEW w \in Actors, NEW job, Goto(w, job)
  PROVE  /\ \A v \in Workers : v # w /\ Demoting(v) => Demoting(v)'
         /\ job.at # "lift" => (Lifting' => Lifting)
         /\ work'[w] = job
<1>1. work'[w] = job /\ \A v \in Actors \ {w} : work'[v] = work[v]
  BY Moved
<1>2. \A v \in Workers : v # w /\ Demoting(v) => Demoting(v)'
  BY <1>1, WorkersAct DEF Demoting
<1>3. job.at # "lift" => (Lifting' => Lifting)
  BY <1>1 DEF Lifting, At
<1>4. QED  BY <1>1, <1>2, <1>3

(* One who was demoting nobody moves and begins no lifting.                *)
LEMMA BystanderMoves ==
  ASSUME IInv, [Next]_vars, NEW w \in Actors, NEW job, Goto(w, job), job.at # "lift",
         w \in Workers /\ Demoting(w) => Demoting(w)',
         OnlyTakesAway, UNCHANGED <<booster, grace>>
  PROVE  KeptWatched
<1>1. \A v \in Workers : Demoting(v) => Demoting(v)'
  BY OneMoves
<1>2. Watched => Watched'
  BY <1>1, StillWatched
<1>3. Lifting' => Lifting
  BY OneMoves
<1>4. QED  BY <1>2, <1>3 DEF KeptWatched

(* A lift begins at an account that needs no deadline.                     *)
LEMMA NeedlessIsLifted ==
  ASSUME (booster \/ Usage(files) <= Limit)'
  PROVE  KeptWatched
BY DEF KeptWatched, Watched

(* A downgrade begins, or goes on.                                         *)
LEMMA DemotionMoves ==
  ASSUME IInv, NEW w \in Workers, NEW job, Goto(w, job),
         job.at # "lift", Demoting(w)' \/ grace' # "none"
  PROVE  KeptWatched
<1>1. Lifting' => Lifting
  BY OneMoves, WorkersAct
<1>2. Watched'
  BY DEF Watched
<1>3. QED  BY <1>1, <1>2 DEF KeptWatched

LEMMA AsksKeepsWatch ==
  ASSUME IInv, [Next]_vars, NEW w \in Workers, Asks(w)
  PROVE  KeptWatched
<1>1. ~Demoting(w)
  BY AsksMoves DEF Demoting, Idle
<1>2. ASSUME NEW job, Goto(w, job), job.at # "lift", OnlyTakesAway, UNCHANGED <<booster, grace>>
      PROVE  KeptWatched
  BY <1>1, <1>2, BystanderMoves, WorkersAct
<1>3. ASSUME NEW t \in Titles, NEW n \in Sizes, UploadGate(w, t, n)
      PROVE  KeptWatched
  <2> DEFINE job == [at |-> "waiting", title |-> t, size |-> n]
  <2>1. Goto(w, job) /\ job.at # "lift" /\ UNCHANGED <<files, booster, grace>>
    BY <1>3 DEF UploadGate, FilesSame, AccountSame
  <2> HIDE DEF job
  <2>2. QED  BY <1>2, <2>1 DEF OnlyTakesAway
<1>4. ASSUME NEW t \in Titles, DeleteFile(w, t)
      PROVE  KeptWatched
  <2> DEFINE job == [at |-> "tidy", why |-> "request", todo |-> {}, title |-> t]
  <2>1. Goto(w, job) /\ job.at # "lift" /\ UNCHANGED <<booster, grace>>
    BY <1>4 DEF DeleteFile, AccountSame
  <2>2. OnlyTakesAway
    BY <1>4 DEF DeleteFile, OnlyTakesAway, Without
  <2> HIDE DEF job
  <2>3. QED  BY <1>2, <2>1, <2>2
<1>5. ASSUME NEW l \in BOOLEAN, NEW b \in BOOLEAN, PushLink(w, l, b)
      PROVE  KeptWatched
  <2> DEFINE job == [at |-> "push", booster |-> b /\ l]
  <2>1. job.at # "lift" /\ Idle.at # "lift"
    BY DEF Idle
  <2>2. (Goto(w, job) \/ Goto(w, Idle)) /\ UNCHANGED <<files, booster, grace>>
    BY <1>5 DEF PushLink, FilesSame
  <2> HIDE DEF job
  <2>3. QED  BY <1>2, <2>1, <2>2 DEF OnlyTakesAway
<1>6. QED  BY <1>3, <1>4, <1>5 DEF Asks

LEMMA UploadKeepsWatch ==
  ASSUME IInv, [Next]_vars, NEW w \in Workers, UploadMeasure(w) \/ UploadProtect(w)
  PROVE  KeptWatched
<1>1. ~Demoting(w) /\ work[w] \in UploadJob
  BY JobTypes, WorkersAct DEF UploadMeasure, UploadProtect, At, Demoting, IInv
<1>2. UNCHANGED <<files, booster, grace>>
  BY DEF UploadMeasure, UploadProtect, FilesSame, AccountSame
<1>3. \E job : Goto(w, job) /\ job.at # "lift"
  <2>1. Idle.at # "lift" /\ [work[w] EXCEPT !.at = "protect"].at # "lift"
    BY <1>1 DEF Idle, UploadJob
  <2>2. \A kept \in BOOLEAN : Renaming(w, kept).at # "lift"
    BY DEF Renaming
  <2>3. CASE UploadMeasure(w)
    BY <2>1, <2>3, MeasureStep
  <2>4. CASE UploadProtect(w)
    BY <2>1, <2>2, <2>4, ProtectStep
  <2>5. QED  BY <2>3, <2>4
<1>4. QED  BY <1>1, <1>2, <1>3, BystanderMoves, WorkersAct DEF OnlyTakesAway

LEMMA GoesKeepsWatch ==
  ASSUME IInv, [Next]_vars, NEW w \in Workers, Goes(w)
  PROVE  KeptWatched
<1>1. Idle.at # "lift" /\ w \in Actors
  BY WorkersAct DEF Idle
<1>2. CASE UploadRename(w)
  <2>1. Goto(w, Idle) /\ work[w].at = "rename"
    BY <1>2 DEF UploadRename, Leave, At
  <2>2. work'[w] = Idle /\ (Lifting' => Lifting)
    BY <1>1, <2>1, OneMoves
  <2>3. QED  BY <1>1, <2>1, <2>2 DEF KeptWatched
<1>3. CASE PushRead(w)
  <2> DEFINE job == [at |-> "status", booster |-> work[w].booster, was |-> booster]
  <2>1. Goto(w, job) /\ job.at # "lift" /\ UNCHANGED <<files, booster, grace>> /\ ~Demoting(w)
    BY <1>3 DEF PushRead, FilesSame, AccountSame, Demoting, At
  <2> HIDE DEF job
  <2>2. QED  BY <1>1, <2>1, BystanderMoves DEF OnlyTakesAway
<1>4. CASE PushStatus(w)
  <2>1. CASE work[w].booster
    <3>1. booster'
      BY <1>4, <2>1 DEF PushStatus, SetBooster
    <3>2. QED  BY <3>1, NeedlessIsLifted
  <2>2. CASE ~work[w].booster /\ work[w].was
    <3>1. Goto(w, [at |-> "downgrade"])
      BY <1>4, <2>2 DEF PushStatus
    <3>2. work'[w] = [at |-> "downgrade"]
      BY <1>1, <3>1, OneMoves
    <3>3. Demoting(w)'
      BY <3>2 DEF Demoting
    <3>4. QED  BY <3>1, <3>3, DemotionMoves
  <2>3. CASE ~work[w].booster /\ ~work[w].was
    <3>1. Goto(w, Idle) /\ At(w, "status")
      BY <1>4, <2>3 DEF PushStatus
    <3>2. work'[w] = Idle /\ (Lifting' => Lifting)
      BY <1>1, <3>1, OneMoves
    <3>3. QED  BY <2>3, <3>1, <3>2 DEF KeptWatched
  <2>4. QED  BY <2>1, <2>2, <2>3
<1>5. CASE Downgrade(w)
  <2>1. CASE Usage(files) <= Limit
    BY <1>5, <2>1, NeedlessIsLifted DEF Downgrade, FilesSame, Usage, Bytes, Present
  <2>2. CASE ~(Usage(files) <= Limit)
    <3>1. PICK place \in {"list", "grace"} : Goto(w, [at |-> place])
      BY <1>5, <2>2 DEF Downgrade
    <3>2. work'[w] = [at |-> place]
      BY <1>1, <3>1, OneMoves
    <3>3. Demoting(w)' /\ [at |-> place].at # "lift"
      BY <3>2 DEF Demoting
    <3>4. QED  BY <3>1, <3>3, DemotionMoves
  <2>3. QED  BY <2>1, <2>2
<1>6. CASE DowngradeDeadline(w)
  <2>1. Goto(w, Idle) /\ grace' # "none"
    BY <1>6 DEF DowngradeDeadline, SetCloudGrace
  <2>2. QED  BY <1>1, <2>1, DemotionMoves
<1>7. CASE DeleteSettle(w)
  <2>1. CASE Usage(files) <= Limit
    BY <1>7, <2>1, NeedlessIsLifted DEF DeleteSettle, FilesSame, Usage, Bytes, Present
  <2>2. CASE ~(Usage(files) <= Limit)
    <3>1. Goto(w, Idle) /\ UNCHANGED <<files, booster, grace>> /\ ~Demoting(w)
      BY <1>7, <2>2 DEF DeleteSettle, FilesSame, AccountSame, Demoting, At
    <3>2. QED  BY <1>1, <3>1, BystanderMoves DEF OnlyTakesAway
  <2>3. QED  BY <2>1, <2>2
<1>8. QED  BY <1>2, <1>3, <1>4, <1>5, <1>6, <1>7 DEF Goes, Push, Demote

(* An eraser of a downgrade stays one until it measures again.             *)
LEMMA EraserStays ==
  ASSUME IInv, NEW w \in Actors, NEW why \in Erasers, NEW S, Erasing(w, why, S)
  PROVE  /\ \E job : Goto(w, job) /\ job.at # "lift"
         /\ why = "downgrade" => Demoting(w)'
<1>1. CASE S = {}
  <2> DEFINE job == [at |-> After[why]]
  <2>1. Goto(w, job) /\ job.at # "lift" /\ (why = "downgrade" => job.at = "recheck")
    BY <1>1, AfterIs DEF Erasing
  <2> HIDE DEF job
  <2>2. work'[w] = job
    BY <2>1, Moved
  <2>3. QED  BY <2>1, <2>2 DEF Demoting
<1>2. CASE S # {}
  <2> DEFINE job == [at |-> "erase", why |-> why, todo |-> S]
  <2>1. Goto(w, job) /\ job.at = "erase" /\ job.why = why
    BY <1>2 DEF Erasing
  <2> HIDE DEF job
  <2>2. work'[w] = job
    BY <2>1, Moved
  <2>3. QED  BY <2>1, <2>2 DEF Demoting
<1>3. QED  BY <1>1, <1>2

LEMMA EraseKeepsWatch ==
  ASSUME IInv, [Next]_vars, NEW w \in Actors, Erase(w)
  PROVE  KeptWatched
<1>1. CASE Lift(w)
  <2>1. Goto(w, Idle) /\ Idle.at # "lift" /\ work[w].at = "lift"
    BY <1>1 DEF Lift, At, Idle
  <2>2. work'[w] = Idle /\ (Lifting' => Lifting)
    BY <2>1, OneMoves
  <2>3. QED  BY <2>1, <2>2 DEF KeptWatched
<1>2. CASE ListBoosterOnly(w)
  <2> DEFINE why == IF w = Sweeper THEN "sweep" ELSE "downgrade"
  <2>1. Erasing(w, why, BoosterOnly) /\ UNCHANGED <<files, booster, grace>>
    BY <1>2 DEF ListBoosterOnly, FilesSame, AccountSame
  <2>2. why \in Erasers /\ (w \in Workers => why = "downgrade")
    BY AfterIs, WorkersAct
  <2> HIDE DEF why
  <2>3. PICK job : Goto(w, job) /\ job.at # "lift"
    BY <2>1, <2>2, EraserStays
  <2>4. w \in Workers => Demoting(w)'
    BY <2>1, <2>2, EraserStays
  <2>5. QED  BY <2>1, <2>3, <2>4, BystanderMoves DEF OnlyTakesAway
<1>3. CASE EraseFile(w)
  <2>1. PICK t \in work[w].todo :
          /\ files' = Without(files, {t})
          /\ Goto(w, [at |-> "tidy", why |-> work[w].why, todo |-> work[w].todo \ {t}, title |-> t])
    BY <1>3 DEF EraseFile
  <2> DEFINE job == [at |-> "tidy", why |-> work[w].why, todo |-> work[w].todo \ {t}, title |-> t]
  <2>2. Goto(w, job) /\ job.at = "tidy" /\ job.why = work[w].why
    BY <2>1
  <2> HIDE DEF job
  <2>3. work'[w] = job
    BY <2>2, Moved
  <2>4. Demoting(w) => Demoting(w)'
    BY <1>3, <2>2, <2>3 DEF Demoting, EraseFile, At
  <2>5. OnlyTakesAway /\ UNCHANGED <<booster, grace>>
    BY <1>3, <2>1 DEF EraseFile, AccountSame, OnlyTakesAway, Without
  <2>6. QED  BY <2>2, <2>4, <2>5, BystanderMoves
<1>4. CASE EraseBackup(w)
  <2>1. Erasing(w, work[w].why, work[w].todo) /\ UNCHANGED <<files, booster, grace>>
    BY <1>4 DEF EraseBackup, AccountSame
  <2>2. work[w].why \in Erasers
    BY <1>4, JobTypes DEF EraseBackup, At, IInv
  <2>3. PICK job : Goto(w, job) /\ job.at # "lift"
    BY <2>1, <2>2, EraserStays
  <2>4. Demoting(w) => Demoting(w)'
    BY <1>4, <2>1, <2>2, EraserStays DEF Demoting, EraseBackup, At
  <2>5. QED  BY <2>1, <2>3, <2>4, BystanderMoves DEF OnlyTakesAway
<1>5. QED  BY <1>1, <1>2, <1>3, <1>4 DEF Erase

(* The sweep is about to lift only what it found needless: an account that *)
(* is a booster's or in its quota, or of which nothing is left to remove.  *)
LEMMA SweepsKeepsWatch ==
  ASSUME IInv, [Next]_vars, Sweeps
  PROVE  KeptWatched
<1>1. Sweeper \in Actors /\ Sweeper \notin Workers
  BY WorkersAct DEF Actors
<1>2. UNCHANGED <<files, booster, grace>>
  BY DEF Sweeps, SweepStart, SweepWeigh, SweepHeaviest, FilesSame, AccountSame
<1>3. CASE booster \/ Usage(files) <= Limit
  BY <1>2, <1>3, NeedlessIsLifted DEF Usage, Bytes, Present
<1>4. CASE ~(booster \/ Usage(files) <= Limit)
  <2>1. Heaviest # {}
    <3> SUFFICES ASSUME Heaviest = {} PROVE FALSE
      OBVIOUS
    <3>1. Usage(files) = 0
      BY HeaviestIsThere, NothingTakesNothing DEF IInv, TypeOK
    <3>2. QED  BY <1>4, <3>1, LimitsAreOrdered
  <2>2. \E job : Goto(Sweeper, job) /\ job.at # "lift"
    <3>1. CASE SweepStart
      <4>1. Goto(Sweeper, [at |-> "list"]) /\ [at |-> "list"].at # "lift"
        BY <1>4, <3>1 DEF SweepStart
      <4>2. QED  BY <4>1
    <3>2. CASE SweepWeigh
      <4>1. Goto(Sweeper, [at |-> "heaviest"]) /\ [at |-> "heaviest"].at # "lift"
        BY <1>4, <3>2 DEF SweepWeigh
      <4>2. QED  BY <4>1
    <3>3. CASE SweepHeaviest
      <4>1. PICK t \in Heaviest : Erasing(Sweeper, "heaviest", {t})
        BY <2>1, <3>3 DEF SweepHeaviest
      <4>2. QED  BY <1>1, <4>1, EraserStays, AfterIs
    <3>4. QED  BY <3>1, <3>2, <3>3 DEF Sweeps
  <2>3. QED  BY <1>1, <1>2, <2>2, BystanderMoves DEF OnlyTakesAway
<1>5. QED  BY <1>3, <1>4

LEMMA WatchStep ==
  ASSUME IInv, [Next]_vars
  PROVE  KeptWatched
<1>1. CASE Restart
  <2>1. ~Lifting'
    BY <1>1 DEF Restart, Lifting, At, Idle
  <2>2. QED  BY <1>1, <2>1 DEF KeptWatched
<1>2. CASE OtherSave \/ GraceExpires \/ UNCHANGED vars
  <2>1. /\ OnlyTakesAway /\ booster' = booster /\ (grace # "none" => grace' # "none")
        /\ work' = work
    BY <1>2 DEF OtherSave, GraceExpires, vars, FilesSame, OnlyTakesAway
  <2>2. Watched => Watched'
    BY <2>1, StillWatched DEF Demoting
  <2>3. Lifting' <=> Lifting
    BY <2>1 DEF Lifting, At
  <2>4. QED  BY <2>2, <2>3 DEF KeptWatched
<1>3. QED
  BY <1>1, <1>2, WhoActs, AsksKeepsWatch, UploadKeepsWatch, GoesKeepsWatch, EraseKeepsWatch,
     SweepsKeepsWatch

-----------------------------------------------------------------------------
(* The invariant holds in every reachable state.                           *)
THEOREM Invariance == Spec => []IInv
<1>1. Init => IInv
  <2> SUFFICES ASSUME Init PROVE IInv
    OBVIOUS
  <2>1. Idle \in Jobs /\ Idle.at = "idle"
    BY DEF Idle, Jobs
  <2>2. work \in [Actors -> Jobs] /\ \A w \in Actors : work[w] = Idle
    BY <2>1 DEF Init
  <2>3. files \in Store /\ baks \in Store
    BY DEF Init, Store
  <2>4. linked \in BOOLEAN /\ booster \in BOOLEAN
    BY Zenon DEF Init
  <2>5. disk \in [linked : BOOLEAN, booster : BOOLEAN, due : BOOLEAN]
    BY DEF Init
  <2>6. /\ grace \in {"none", "ahead", "past"}
        /\ lock \in Workers \cup {Free}
        /\ failures \in 0..MaxSaveFailures
    BY BoundIsNatural DEF Init
  <2>7. TypeOK
    BY <2>2, <2>3, <2>4, <2>5, <2>6 DEF TypeOK
  <2>8. LockHeld /\ GuardHolds /\ ErasersAreProper
    BY <2>1, <2>2, WorkersAct DEF LockHeld, GuardHolds, ErasersAreProper, Proper, At, Holding
  <2>9. QED  BY <2>7, <2>8 DEF IInv
<1>2. IInv /\ [Next]_vars => IInv'
  BY StepKeeps DEF Kept
<1>3. QED  BY <1>1, <1>2, PTL DEF Spec

(* "Without it, N concurrent uploads for DIFFERENT titles ... collectively *)
(* blow past it": however uploads, deletions, downgrades and sweeps meet,  *)
(* an account never stores more than the largest quota.                    *)
THEOREM QuotaIsKept == Spec => []WithinLargestQuota
<1>1. Init => QuotaInv
  <2> SUFFICES ASSUME Init PROVE QuotaInv
    OBVIOUS
  <2>1. Present(files) = {}
    BY DEF Init, Present
  <2>2. \A w \in Workers : work[w].at \notin Holding
    BY WorkersAct DEF Init, Idle, Holding
  <2>3. QED
    BY <2>1, <2>2, NothingTakesNothing, LimitsAreOrdered DEF QuotaInv, WithinLargestQuota
<1>2. IInv /\ IInv' /\ QuotaInv /\ [Next]_vars => QuotaInv'
  BY QuotaStep
<1>3. QuotaInv => WithinLargestQuota
  BY DEF QuotaInv
<1>4. QED  BY Invariance, <1>1, <1>2, <1>3, PTL DEF Spec

(* "Keep a one-version backup before overwriting, so even a legit shrink   *)
(* is recoverable": an upload whose backup could be written comes to its   *)
(* rename with the save it replaces as the backup, unless a deletion, a    *)
(* downgrade or the sweep removes the backup of that title in between.     *)
THEOREM OverwritesAreBackedUp == Spec => OverwriteIsRecoverable
<1>1. IInv /\ [Next]_vars => [BackedUp]_vars
  BY BackupStep
<1>2. QED  BY Invariance, <1>1, PTL DEF Spec, OverwriteIsRecoverable

(* "si toujours au-dessus de 5 Mo -> échéance": an account over its quota  *)
(* escapes the watch in the named ways only, overlapping pushes of its     *)
(* status among them, and a deadline is only about to be lifted for an     *)
(* account that was found not to need it.                                  *)
THEOREM OverQuotaStaysWatched == Spec => OverQuotaIsWatched
<1>1. IInv /\ [Next]_vars => [KeptWatched]_vars
  BY WatchStep
<1>2. QED  BY Invariance, <1>1, PTL DEF Spec, OverQuotaIsWatched

(* The store, the account in memory and in its file, and what everyone is  *)
(* doing (uploads, deletions, pushes, downgrades, the sweep) have their    *)
(* types.                                                                  *)
THEOREM TypeCorrect == Spec => []TypeOK
<1>1. IInv => TypeOK
  BY DEF IInv
<1>2. QED  BY Invariance, <1>1, PTL

(* "never let a near-empty / dramatically-smaller save overwrite a real    *)
(* cloud backup": the guard that was passed before the rename still holds  *)
(* at the rename, whatever deletions, downgrades and sweeps did meanwhile. *)
THEOREM SavesAreNotClobbered == Spec => NeverClobbered
<1>1. IInv /\ [Next]_vars => [NotClobbered]_vars
  BY StepKeeps DEF Kept
<1>2. QED  BY Invariance, <1>1, PTL DEF Spec, NeverClobbered

(* "sans détruire de sauvegarde Nextendo": a title everybody may keep goes *)
(* only by the player's request or when a deadline has run out.            *)
THEOREM NextendoSavesAreSpared == Spec => DowngradeSparesNextendo
<1>1. IInv /\ [Next]_vars => [SparesAllowed]_vars
  BY SparingStep
<1>2. QED  BY Invariance, <1>1, PTL DEF Spec, DowngradeSparesNextendo
=============================================================================
