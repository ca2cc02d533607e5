------------------------------- MODULE CloudSave -------------------------------
(***************************************************************************)
(* The cloud saves of one account (src/save.go, the save handler of        *)
(* src/main.go and the booster status pushed through src/discord.go).      *)
(*                                                                         *)
(* Saves are files, one per title; the quota and the titles an account may *)
(* push depend on its Discord booster status.  Uploads hold a lock of the  *)
(* account; the player's deletions, the pushes of the bot, the downgrade   *)
(* of a former booster and the sweep of expired deadlines do not.  Each is *)
(* cut where another may come between two of its file operations or two of *)
(* its calls of the account store: work says where everyone is.            *)
(*                                                                         *)
(* Accounts share nothing but code.  Sizes stand for contents; the e-mail  *)
(* is verified; a deadline expires at any time after it was set.           *)
(***************************************************************************)
EXTENDS Integers, FiniteSets

CONSTANTS
  Titles,
  Allowed,          \* cloudSaveTitles: the titles anybody may push
  Sizes,            \* bound: the sizes a save may have
  Limit,            \* cloudSaveLimit
  LimitBooster,     \* cloudSaveLimitBooster
  Substantial,      \* 4096: the size from which a save is protected
  NoFile,
  Workers,          \* bound: requests at once, each with its goroutine
  Uploads,          \* bound: who may upload what, <<worker, title, size>>
  Deletions,        \* bound: who may delete what, <<worker, title>>
  Pushes,           \* bound: who may push what, <<worker, linked, booster>>
  Sweeper,          \* the goroutine of cloudGraceLoop
  MaxSaveFailures,  \* bound: writes of accounts.json that fail
  Free              \* nobody holds the lock

ASSUME AllowedAreTitles == Allowed \subseteq Titles
ASSUME TitlesAreFinite == IsFiniteSet(Titles)
ASSUME SizesAreNaturals == Sizes \subseteq Nat /\ NoFile \notin Sizes
ASSUME LimitsAreOrdered ==
  Limit \in Nat /\ LimitBooster \in Nat /\ Substantial \in Nat /\ Limit <= LimitBooster
ASSUME WorkersAreApart == Free \notin Workers /\ Sweeper \notin Workers
ASSUME RequestsAreWorkers ==
  /\ Uploads \subseteq Workers \X Titles \X Sizes
  /\ Deletions \subseteq Workers \X Titles
  /\ Pushes \subseteq Workers \X BOOLEAN \X BOOLEAN
ASSUME BoundIsNatural == MaxSaveFailures \in Nat

VARIABLES
  files,     \* saves/<pid>/<title>.bin, by size
  baks,      \* saves/<pid>/<title>.bin.bak, none that is whole or its size
  linked,    \* a Discord account is linked
  booster,   \* IsBooster
  grace,     \* CloudGraceUntil: none, ahead or past
  disk,      \* the three in accounts.json
  lock,      \* saveMu of the account
  work,      \* what each request, goroutine and the sweep is doing
  failures

vars == <<files, baks, linked, booster, grace, disk, lock, work, failures>>

Store == [Titles -> Sizes \cup {NoFile}]

Actors == Workers \cup {Sweeper}

Idle == [at |-> "idle"]

(* Who erases saves, and where it goes on from there.                      *)
After == [request |-> "settle", downgrade |-> "recheck", sweep |-> "weigh", heaviest |-> "weigh"]
Erasers == DOMAIN After

Jobs == {Idle}
  \cup [at : {"waiting", "protect"}, title : Titles, size : Sizes]
  \cup [at : {"rename"}, title : Titles, size : Sizes, kept : BOOLEAN]
  \cup [at : {"push"}, booster : BOOLEAN]
  \cup [at : {"status"}, booster : BOOLEAN, was : BOOLEAN]
  \cup [at : {"erase"}, why : Erasers, todo : SUBSET Titles]
  \cup [at : {"tidy"}, why : Erasers, todo : SUBSET Titles, title : Titles]
  \cup [at : {"downgrade", "list", "settle", "recheck", "grace", "weigh", "heaviest", "lift"}]

Init ==
  /\ files = [t \in Titles |-> NoFile] /\ baks = files
  /\ linked = FALSE /\ booster = FALSE /\ grace = "none"
  /\ disk = [linked |-> FALSE, booster |-> FALSE, due |-> FALSE]
  /\ lock = Free
  /\ work = [w \in Actors |-> Idle]
  /\ failures = 0

-----------------------------------------------------------------------------
(* Helpers of save.go.                                                     *)

Present(f) == {t \in DOMAIN f : f[t] # NoFile}

(* cloudUsage: the bytes of all files, counted.                            *)
Bytes(f) == UNION {{t} \X (1..f[t]) : t \in Present(f)}
Usage(f) == Cardinality(Bytes(f))

(* cloudSaveLimitFor.                                                      *)
Quota(isBooster) == IF isBooster THEN LimitBooster ELSE Limit

Without(f, S) == [t \in Titles |-> IF t \in S THEN NoFile ELSE f[t]]

Heaviest == {t \in Present(files) : \A u \in Present(files) : files[u] <= files[t]}

Goto(w, job) == work' = [work EXCEPT ![w] = job]

At(w, place) == work[w].at = place

Leave(w) == Goto(w, Idle) /\ lock' = Free

(* cloudSaveGate: a verified account linked to Discord.                    *)
CloudSaveGate == linked

AccountSame == UNCHANGED <<linked, booster, grace, disk, failures>>
FilesSame == UNCHANGED <<files, baks>>

-----------------------------------------------------------------------------
(* The account store: a change is made in memory and then written.  A      *)
(* deadline read back from the file may expire at once.                    *)

Written ==
  /\ disk' = [linked |-> linked', booster |-> booster', due |-> grace' # "none"]
  /\ UNCHANGED failures

WriteFails ==
  /\ failures < MaxSaveFailures /\ failures' = failures + 1
  /\ UNCHANGED disk

Unwritten == UNCHANGED <<disk, failures>>

(* What is what it was is not written again.                               *)
SetBooster(isBooster) ==
  /\ booster' = isBooster
  /\ IF booster = isBooster THEN Unwritten ELSE Written \/ WriteFails

SetCloudGrace(until) ==
  /\ grace' = until
  /\ IF {grace, until} = {"none"} THEN Unwritten ELSE Written \/ WriteFails

(* Any other method's write takes what earlier writes left out.            *)
OtherSave ==
  /\ UNCHANGED <<linked, booster, grace>> /\ Written /\ disk' # disk
  /\ FilesSame /\ UNCHANGED <<lock, work>>

-----------------------------------------------------------------------------
(* An upload: gates, lock, quota, anti-clobber guard and backup, rename.   *)

UploadGate(w, t, n) ==
  /\ work[w] = Idle
  /\ CloudSaveGate
  /\ t \in Allowed \/ booster
  /\ Goto(w, [at |-> "waiting", title |-> t, size |-> n])
  /\ FilesSame /\ AccountSame /\ UNCHANGED lock

(* The total counts every title but the one that is replaced.              *)
Fits(t, n) == Usage(Without(files, {t})) + n <= Quota(booster)

Admit(w) ==
  Goto(w, IF Fits(work[w].title, work[w].size)
            THEN [work[w] EXCEPT !.at = "protect"] ELSE Idle)

(* Mutants: each is a later definition of the same name with one slip.     *)
UploadMeasure_noLock(w) ==
  /\ At(w, "waiting")
  /\ Admit(w) /\ UNCHANGED lock
  /\ FilesSame /\ AccountSame

(* The lock is taken and the usage measured.  What others do in between    *)
(* they may as well have done before.                                      *)
UploadMeasure(w) ==
  /\ At(w, "waiting")
  /\ lock = Free
  /\ Admit(w) /\ lock' = IF Fits(work[w].title, work[w].size) THEN w ELSE Free
  /\ FilesSame /\ AccountSame

(* len(old) >= 4096 && len(b) < len(old)/2.                                *)
Clobbers(old, n) == old # NoFile /\ old >= Substantial /\ n < old \div 2

ToRename(w, kept) ==
  /\ Goto(w, [at |-> "rename", title |-> work[w].title, size |-> work[w].size, kept |-> kept])
  /\ UNCHANGED lock

UploadProtect_noBackup(w) ==
  LET old == files[work[w].title] IN
  /\ At(w, "protect")
  /\ \/ Leave(w)
     \/ ~Clobbers(old, work[w].size) /\ ToRename(w, TRUE)
  /\ FilesSame /\ AccountSame

(* Refused, or its directory cannot be made; or the old save is copied.    *)
(* Whether the copy could be written is not looked at: what was there      *)
(* before may be left, or half a file.  kept is a history.                 *)
UploadProtect(w) ==
  LET t == work[w].title
      old == files[t]
      empty == old \in {NoFile, 0}
  IN
  /\ At(w, "protect")
  /\ \/ Leave(w) /\ UNCHANGED baks
     \/ /\ ~Clobbers(old, work[w].size)
        /\ \/ /\ baks' = IF empty THEN baks ELSE [baks EXCEPT ![t] = old]
              /\ ToRename(w, TRUE)
           \/ /\ ~empty
              /\ baks' \in {baks, [baks EXCEPT ![t] = NoFile]}
              /\ ToRename(w, FALSE)
  /\ UNCHANGED files /\ AccountSame

(* The new file is written aside and renamed, or cannot be.                *)
UploadRename(w) ==
  /\ At(w, "rename")
  /\ files' \in {files, [files EXCEPT ![work[w].title] = work[w].size]}
  /\ Leave(w)
  /\ UNCHANGED baks /\ AccountSame

-----------------------------------------------------------------------------
(* Erasing saves, without the lock: for each title its file, then its      *)
(* backup.                                                                 *)

Erasing(w, why, S) ==
  Goto(w, IF S = {} THEN [at |-> After[why]] ELSE [at |-> "erase", why |-> why, todo |-> S])

EraseFile(w) ==
  /\ At(w, "erase")
  /\ \E t \in work[w].todo :
       /\ files' = Without(files, {t})
       /\ Goto(w, [at |-> "tidy", why |-> work[w].why, todo |-> work[w].todo \ {t}, title |-> t])
  /\ UNCHANGED <<baks, lock>> /\ AccountSame

EraseBackup(w) ==
  /\ At(w, "tidy")
  /\ baks' = Without(baks, {work[w].title})
  /\ Erasing(w, work[w].why, work[w].todo)
  /\ UNCHANGED <<files, lock>> /\ AccountSame

(* saveDelete, asked for by the player.                                    *)
DeleteFile(w, t) ==
  /\ work[w] = Idle
  /\ CloudSaveGate
  /\ files' = Without(files, {t})
  /\ Goto(w, [at |-> "tidy", why |-> "request", todo |-> {}, title |-> t])
  /\ UNCHANGED <<baks, lock>> /\ AccountSame

(* The deadline of an account found in its quota is lifted, a step later.  *)
DeleteSettle(w) ==
  /\ At(w, "settle")
  /\ \/ grace # "none" /\ Usage(files) <= Limit /\ Goto(w, [at |-> "lift"])
     \/ (grace = "none" \/ Usage(files) > Limit) /\ Goto(w, Idle)
  /\ FilesSame /\ AccountSame /\ UNCHANGED lock

Lift(w) ==
  /\ At(w, "lift")
  /\ UNCHANGED <<linked, booster>> /\ SetCloudGrace("none") /\ Goto(w, Idle)
  /\ FilesSame /\ UNCHANGED lock

-----------------------------------------------------------------------------
(* adminDiscordLink pushes a link and a booster status: the link is        *)
(* stored, the status there was is read, the new one stored, each apart.   *)
(* Losing the status starts applyBoosterDowngrade, having it lifts the     *)
(* deadline.                                                               *)

(* A link that could not be written is an error, and the push ends.        *)
PushLink(w, isLinked, isBooster) ==
  LET next == [at |-> "push", booster |-> isBooster /\ isLinked] IN
  /\ work[w] = Idle
  /\ linked' = isLinked /\ UNCHANGED <<booster, grace>>
  /\ \/ Written /\ Goto(w, next)
     \/ linked = isLinked /\ Unwritten /\ Goto(w, next)
     \/ WriteFails /\ Goto(w, Idle)
  /\ FilesSame /\ UNCHANGED lock

PushRead(w) ==
  /\ At(w, "push")
  /\ Goto(w, [at |-> "status", booster |-> work[w].booster, was |-> booster])
  /\ FilesSame /\ AccountSame /\ UNCHANGED lock

PushStatus_quietly(w) ==
  /\ At(w, "status")
  /\ UNCHANGED <<linked, grace>> /\ SetBooster(work[w].booster)
  /\ Goto(w, IF work[w].booster THEN [at |-> "lift"] ELSE Idle)
  /\ FilesSame /\ UNCHANGED lock

PushStatus(w) ==
  LET job == work[w] IN
  /\ At(w, "status")
  /\ UNCHANGED <<linked, grace>> /\ SetBooster(job.booster)
  /\ \/ job.booster /\ Goto(w, [at |-> "lift"])
     \/ ~job.booster /\ job.was /\ Goto(w, [at |-> "downgrade"])
     \/ ~job.booster /\ ~job.was /\ Goto(w, Idle)
  /\ FilesSame /\ UNCHANGED lock

-----------------------------------------------------------------------------
(* applyBoosterDowngrade.                                                  *)

(* Usage is measured, before the erasing and after it.                     *)
Downgrade(w) ==
  /\ work[w].at \in {"downgrade", "recheck"}
  /\ \/ Usage(files) <= Limit /\ Goto(w, [at |-> "lift"])
     \/ /\ Usage(files) > Limit
        /\ Goto(w, [at |-> IF At(w, "downgrade") THEN "list" ELSE "grace"])
  /\ FilesSame /\ AccountSame /\ UNCHANGED lock

BoosterOnly_all == Present(files)

(* deleteBoosterOnlySaves reads the directory once.                        *)
BoosterOnly == Present(files) \ Allowed

ListBoosterOnly(w) ==
  /\ At(w, "list")
  /\ Erasing(w, IF w = Sweeper THEN "sweep" ELSE "downgrade", BoosterOnly)
  /\ FilesSame /\ AccountSame /\ UNCHANGED lock

DowngradeDeadline(w) ==
  /\ At(w, "grace")
  /\ UNCHANGED <<linked, booster>> /\ SetCloudGrace("ahead") /\ Goto(w, Idle)
  /\ FilesSame /\ UNCHANGED lock

-----------------------------------------------------------------------------
(* The deadline and cloudGraceSweep.                                       *)

GraceExpires ==
  /\ grace = "ahead" /\ grace' = "past"
  /\ FilesSame /\ UNCHANGED <<linked, booster, disk, lock, work, failures>>

SweepStart ==
  /\ work[Sweeper] = Idle /\ grace = "past"
  /\ \/ (booster \/ Usage(files) <= Limit) /\ Goto(Sweeper, [at |-> "lift"])
     \/ ~booster /\ Usage(files) > Limit /\ Goto(Sweeper, [at |-> "list"])
  /\ FilesSame /\ AccountSame /\ UNCHANGED lock

SweepWeigh_never ==
  /\ At(Sweeper, "weigh") /\ Goto(Sweeper, [at |-> "lift"])
  /\ FilesSame /\ AccountSame /\ UNCHANGED lock

SweepWeigh ==
  /\ At(Sweeper, "weigh")
  /\ \/ Usage(files) > Limit /\ Goto(Sweeper, [at |-> "heaviest"])
     \/ Usage(files) <= Limit /\ Goto(Sweeper, [at |-> "lift"])
  /\ FilesSame /\ AccountSame /\ UNCHANGED lock

(* deleteHeaviestSave, whichever of two equals; nothing left ends the loop. *)
SweepHeaviest ==
  /\ At(Sweeper, "heaviest")
  /\ \/ \E t \in Heaviest : Erasing(Sweeper, "heaviest", {t})
     \/ Heaviest = {} /\ Goto(Sweeper, [at |-> "lift"])
  /\ FilesSame /\ AccountSame /\ UNCHANGED lock

(* The process stops: files stay, the account is read back from its file,  *)
(* handlers and goroutines are lost.                                       *)
Restart ==
  /\ linked' = disk.linked /\ booster' = disk.booster
  /\ grace' = IF disk.due THEN "ahead" ELSE "none"
  /\ lock' = Free /\ work' = [w \in Actors |-> Idle]
  /\ FilesSame /\ UNCHANGED <<disk, failures>>

Upload(w) == UploadMeasure(w) \/ UploadProtect(w) \/ UploadRename(w)
Push(w) == PushRead(w) \/ PushStatus(w)
Demote(w) == Downgrade(w) \/ DowngradeDeadline(w)
Erase(w) == ListBoosterOnly(w) \/ EraseFile(w) \/ EraseBackup(w) \/ Lift(w)
Sweep == SweepStart \/ SweepWeigh \/ SweepHeaviest \/ Erase(Sweeper)

Next ==
  \/ \E u \in Uploads : UploadGate(u[1], u[2], u[3])
  \/ \E d \in Deletions : DeleteFile(d[1], d[2])
  \/ \E p \in Pushes : PushLink(p[1], p[2], p[3])
  \/ \E w \in Workers : Upload(w) \/ Push(w) \/ Demote(w) \/ Erase(w) \/ DeleteSettle(w)
  \/ GraceExpires \/ Sweep
  \/ OtherSave \/ Restart

Spec == Init /\ [][Next]_vars

(* Time passes, the ticker fires again and again, and the process is not   *)
(* restarted for ever.                                                     *)
FairSpec == Spec /\ WF_vars(GraceExpires) /\ WF_vars(Sweep) /\ <>[][~Restart]_vars

-----------------------------------------------------------------------------
(* Properties.                                                             *)

(* Files, deadlines and jobs have their types.                             *)
TypeOK ==
  /\ files \in Store /\ baks \in Store
  /\ linked \in BOOLEAN /\ booster \in BOOLEAN /\ grace \in {"none", "ahead", "past"}
  /\ disk \in [linked : BOOLEAN, booster : BOOLEAN, due : BOOLEAN]
  /\ lock \in Workers \cup {Free}
  /\ work \in [Actors -> Jobs]
  /\ failures \in 0..MaxSaveFailures

(* "Without it, N concurrent uploads for DIFFERENT titles ... collectively *)
(* blow past it" (saveMu): however uploads, deletions, downgrades and      *)
(* sweeps meet, an account never stores more than the largest quota.       *)
WithinLargestQuota == Usage(files) <= LimitBooster

(* "never let a near-empty / dramatically-smaller save overwrite a real    *)
(* cloud backup": a save that is there is only replaced by one that does   *)
(* not clobber it.                                                         *)
Replaces(t) == files[t] # NoFile /\ files'[t] # NoFile /\ files'[t] # files[t]
NotClobbered == \A t \in Titles : Replaces(t) => ~Clobbers(files[t], files'[t])
NeverClobbered == [][NotClobbered]_vars

(* "Keep a one-version backup before overwriting, so even a legit shrink   *)
(* is recoverable" (save): an upload whose backup could be written comes   *)
(* to its rename with the save it replaces as the backup, unless a         *)
(* deletion, downgrade or sweep, which hold no lock, takes the backup of   *)
(* that title away in between.                                             *)
Covered(w) ==
  LET t == work[w].title IN files[t] \in {NoFile, 0} \/ baks[t] = files[t]
Tidied(t) == \E v \in Actors : At(v, "tidy") /\ work[v].title = t /\ work'[v] # work[v]
BackedUp ==
  \A w \in Workers : At(w, "rename")' /\ work'[w].kept =>
    \/ Covered(w)'
    \/ At(w, "rename") /\ (~Covered(w) \/ Tidied(work[w].title))
OverwriteIsRecoverable == [][BackedUp]_vars

Requested == \E w \in Workers : work[w] = Idle /\ At(w, "tidy")'

(* "sans détruire de sauvegarde Nextendo": a title everybody may keep goes *)
(* only by the player's request or when a deadline has run out.            *)
SparesAllowed ==
  \A t \in Allowed : files[t] # NoFile /\ files'[t] = NoFile =>
    Requested \/ (At(Sweeper, "erase") /\ work[Sweeper].why = "heaviest")
DowngradeSparesNextendo == [][SparesAllowed]_vars

(* "si toujours au-dessus de 5 Mo -> échéance" (applyBoosterDowngrade): an *)
(* account over its quota is a booster's or has a deadline or a goroutine  *)
(* about to give it one.  It only escapes when                             *)
(*   - a restart takes the goroutine or reads an older file,               *)
(*   - an upload lands that was measured before the loss,                  *)
(*   - a deadline is lifted that was needless when that was decided, or    *)
(*   - a push takes a status away that another one gave while it ran.      *)
Demoting(w) ==
  \/ work[w].at \in {"downgrade", "list", "recheck", "grace"}
  \/ work[w].at \in {"erase", "tidy"} /\ work[w].why = "downgrade"
Watched ==
  booster \/ Usage(files) <= Limit \/ grace # "none" \/ \E w \in Workers : Demoting(w)
Lifting == \E w \in Actors : At(w, "lift")
KeptWatched ==
  /\ Watched /\ ~Watched' =>
       \/ Restart
       \/ \E w \in Actors : work[w].at \in {"rename", "lift"} /\ work'[w] = Idle
       \/ \E w \in Workers : At(w, "status") /\ ~work[w].was /\ work'[w] = Idle
  /\ ~Lifting /\ Lifting' => (booster \/ Usage(files) <= Limit)'
OverQuotaIsWatched == [][KeptWatched]_vars

(* A deadline that was written is enforced, by this process or a later     *)
(* one: the account is brought back to its quota, or is a booster's again, *)
(* unless somebody had by then found its deadline needless.                *)
DeadlineIsEnforced ==
  (grace # "none" /\ disk.due /\ Usage(files) > Limit /\ ~Lifting)
    ~> (booster \/ Usage(files) <= Limit)

-----------------------------------------------------------------------------
(* What two comments say and the code does not do.                         *)

(* "(re)devenir booster lève immédiatement toute échéance de grâce en      *)
(* cours" (adminDiscordLink) and "Redevenu booster ... on lève simplement  *)
(* la contrainte" (cloudGraceSweep): nothing of a booster's is removed but *)
(* at the player's request.                                                *)
BoosterSpared ==
  booster => \A t \in Titles : files[t] # NoFile /\ files'[t] = NoFile => Requested
BoosterKeepsSaves == [][BoosterSpared]_vars

=============================================================================
