----------------------------- MODULE PresenceProofs -----------------------------
(***************************************************************************)
(* Proofs about Presence, for any accounts, times to live, number of       *)
(* requests at once and restarts: a console that left is shown offline, a  *)
(* console heard from is shown, and a note takes no player down but by the *)
(* race the property names.                                                *)
(***************************************************************************)
EXTENDS Presence, TLAPS

(* Why a console that left stays offline: nobody who may still write it is *)
(* under way, only the request that is done with the table.                *)
GoneAreSilent ==
  \A p \in gone :
    /\ table[p] = None
    /\ \A w \in Workers : p \in About(work[w]) => At(w, "forget")

(* A note about to write an account that plays by now is a late one.       *)
NotesAreLate ==
  \A w \in Workers : At(w, "set") /\ Shown(work[w].pid) = Playing => w \in late

(* What HeardIsShown asks of an account nobody is about.                   *)
Told(p) == table[p] # None /\ (table[p].status = Offline \/ table[p].age <= GameTTL)

HeardAreTold ==
  \A p \in Pids : seen[p] = 0 => Told(p) \/ \E w \in Workers : p \in About(work[w])

IInv == TypeOK /\ GoneAreSilent /\ HeardAreTold /\ NotesAreLate

Plain == {"note", "check", "set", "clear", "forget"}

-----------------------------------------------------------------------------
(* The tables and the jobs.                                                *)

LEMMA TimesToLive ==
  /\ GameTTL \in Nat /\ ConsoleTTL \in Nat /\ ConsoleTTL > 0
BY ConsolesLastLonger

LEMMA NoneIsNoEntry == None \notin Entry /\ None \notin SeenAge
<1>1. Entry \subseteq [status : Nat, age : Nat]
  BY TimesToLive DEF Entry, Statuses, Offline, Online, Playing
<1>2. SeenAge \subseteq Nat
  BY TimesToLive DEF SeenAge
<1>3. QED  BY <1>1, <1>2, NoneIsNoAge

LEMMA ToldIsShown ==
  ASSUME TypeOK, NEW p \in Pids
  PROVE  Told(p) <=> Shown(p) > Offline \/ (table[p] # None /\ table[p].status = Offline)
<1>1. table[p] # None => table[p] \in Entry
  BY DEF TypeOK
<1>2. QED
  BY <1>1 DEF Told, Shown, Fresh, Entry, Statuses, Offline, Online, Playing

LEMMA JobKinds ==
  ASSUME TypeOK, NEW w \in Workers
  PROVE  /\ work[w] = Idle \/ work[w].at # "idle"
         /\ work[w].at \in Plain => work[w] \in [at : Plain, pid : Pids]
         /\ At(w, "report") => work[w] \in [at : {"report"}, pid : Pids, status : Statuses]
         /\ At(w, "push") => work[w] \in [at : {"push"}, pid : Pids, status : {Online, Playing}]
         /\ At(w, "batch") =>
              work[w] \in [at : {"batch"}, pids : SUBSET Pids, status : {Online, Playing}]
<1>1. work[w] \in Jobs
  BY DEF TypeOK
<1>2. QED  BY <1>1 DEF Jobs, Idle, At, Plain

LEMMA AboutWhom ==
  /\ About(Idle) = {}
  /\ \A job \in Jobs : job.at = "batch" => About(job) = job.pids
  /\ \A job : job.at \notin {"idle", "batch"} => About(job) = {job.pid}
BY DEF About, Idle, Jobs

LEMMA AboutPids ==
  ASSUME NEW job \in Jobs
  PROVE  About(job) \subseteq Pids
<1>1. CASE job = Idle
  BY <1>1, AboutWhom
<1>2. CASE job.at = "batch"
  BY <1>2, AboutWhom DEF Jobs, Idle
<1>3. CASE job # Idle /\ job.at # "batch"
  BY <1>3 DEF About, Jobs, Idle
<1>4. QED  BY <1>1, <1>2, <1>3

LEMMA OneMoves ==
  ASSUME TypeOK, NEW w \in Workers, NEW job, Goto(w, job)
  PROVE  \A v \in Workers : work'[v] = IF v = w THEN job ELSE work[v]
BY DEF TypeOK, Goto

LEMMA IInvHolds ==
  ASSUME IInv
  PROVE  TypeOK /\ LeavingIsInstant /\ HeardIsShown
<1>1. LeavingIsInstant
  BY DEF IInv, TypeOK, GoneAreSilent, LeavingIsInstant, Shown, Fresh
<1>2. HeardIsShown
  BY ToldIsShown DEF IInv, HeardAreTold, HeardIsShown
<1>3. QED  BY <1>1, <1>2 DEF IInv

-----------------------------------------------------------------------------
(* Reports, batches and pushes write an entry.                             *)

LEMMA WriteKeeps ==
  ASSUME IInv, NEW w \in Workers, work[w].at \in {"report", "push", "batch"},
         NEW p \in About(work[w]), NEW status \in Statuses, SetPresence(p, status),
         NEW job \in Jobs, Goto(w, job), job.at # "set",
         About(job) \subseteq About(work[w]), About(work[w]) \subseteq About(job) \cup {p},
         UNCHANGED <<seen, gone, restarts>>
  PROVE  IInv'
<1> DEFINE e == [status |-> status, age |-> 0]
<1>1. p \in Pids /\ e \in Entry /\ e # None /\ e.age <= GameTTL /\ e.status = status
  <2>1. work[w] \in Jobs
    BY DEF IInv, TypeOK
  <2>2. p \in Pids
    BY <2>1, AboutPids
  <2>3. e \in Entry /\ e.age <= GameTTL /\ e.status = status
    BY TimesToLive DEF Entry
  <2>4. QED  BY <2>2, <2>3, NoneIsNoEntry
<1>2. table' = [table EXCEPT ![p] = e]
  BY DEF SetPresence
<1> HIDE DEF e
<1>3. \A q \in Pids : table'[q] = IF q = p THEN e ELSE table[q]
  BY <1>1, <1>2 DEF IInv, TypeOK
<1>4. \A v \in Workers : work'[v] = IF v = w THEN job ELSE work[v]
  BY OneMoves DEF IInv
<1>5. /\ late \subseteq late' /\ late' \subseteq late \cup {v \in Workers : At(v, "set")}
      /\ status = Playing =>
           \A v \in Workers : work[v] = [at |-> "set", pid |-> p] => v \in late'
  BY DEF SetPresence, At
<1>6. TypeOK'
  <2>1. table' \in [Pids -> Entry \cup {None}]
    BY <1>1, <1>2 DEF IInv, TypeOK
  <2>2. work' \in [Workers -> Jobs]
    BY DEF IInv, TypeOK, Goto
  <2>3. late' \subseteq {v \in Workers : At(v, "set")'}
    BY <1>4, <1>5 DEF IInv, TypeOK, At
  <2>4. QED  BY <2>1, <2>2, <2>3 DEF IInv, TypeOK
<1>7. GoneAreSilent'
  <2> SUFFICES ASSUME NEW q \in gone
               PROVE  table'[q] = None /\ \A v \in Workers : q \in About(work'[v]) => At(v, "forget")'
    BY DEF GoneAreSilent
  <2>1. /\ table[q] = None /\ q \in Pids
        /\ \A v \in Workers : q \in About(work[v]) => At(v, "forget")
    BY DEF IInv, TypeOK, GoneAreSilent
  <2>2. q \notin About(work[w])
    BY <2>1 DEF At
  <2>3. QED  BY <1>3, <1>4, <2>1, <2>2 DEF At
<1>8. HeardAreTold'
  <2> SUFFICES ASSUME NEW q \in Pids, seen'[q] = 0, ~Told(q)'
               PROVE  \E v \in Workers : q \in About(work'[v])
    BY DEF HeardAreTold
  <2>1. q # p
    BY <1>1, <1>3 DEF Told
  <2>2. PICK v \in Workers : q \in About(work[v])
    BY <1>3, <2>1 DEF IInv, HeardAreTold, Told
  <2>3. QED  BY <1>4, <2>1, <2>2
<1>9. NotesAreLate'
  <2> SUFFICES ASSUME NEW v \in Workers, At(v, "set")', Shown(work[v].pid)' = Playing
               PROVE  v \in late'
    BY DEF NotesAreLate
  <2>1. v # w /\ work'[v] = work[v] /\ At(v, "set")
    BY <1>4 DEF At
  <2>2. work[v] \in [at : Plain, pid : Pids] /\ work[v].at = "set"
    BY <2>1, JobKinds DEF IInv, At, Plain
  <2>3. CASE work[v].pid = p
    <3>1. status = Playing
      BY <1>1, <1>3, <2>1, <2>3 DEF Shown, Fresh, Offline, Playing
    <3>2. work[v] = [at |-> "set", pid |-> p]
      BY <2>2, <2>3
    <3>3. QED  BY <1>5, <3>1, <3>2
  <2>4. CASE work[v].pid # p
    <3>1. Shown(work[v].pid) = Playing
      BY <1>3, <2>1, <2>2, <2>4 DEF Shown, Fresh
    <3>2. QED  BY <1>5, <2>1, <3>1 DEF IInv, NotesAreLate
  <2>5. QED  BY <2>3, <2>4
<1>10. QED  BY <1>6, <1>7, <1>8, <1>9 DEF IInv

LEMMA ReportKeeps ==
  ASSUME IInv, NEW w \in Workers, Report(w)
  PROVE  IInv'
<1>1. work[w] \in [at : {"report"}, pid : Pids, status : Statuses]
  BY JobKinds DEF IInv, Report
<1>2. About(work[w]) = {work[w].pid} /\ work[w].at = "report"
  BY <1>1, AboutWhom
<1>3. Idle \in Jobs /\ About(Idle) = {} /\ Idle.at = "idle"
  BY AboutWhom DEF Jobs, Idle
<1>4. QED  BY <1>1, <1>2, <1>3, WriteKeeps DEF Report

LEMMA PushKeeps ==
  ASSUME IInv, NEW w \in Workers, Push(w)
  PROVE  IInv'
<1>1. work[w] \in [at : {"push"}, pid : Pids, status : {Online, Playing}]
  BY JobKinds DEF IInv, Push
<1>2. About(work[w]) = {work[w].pid} /\ work[w].at = "push" /\ work[w].status \in Statuses
  BY <1>1, AboutWhom DEF Statuses
<1> DEFINE job == [at |-> "note", pid |-> work[w].pid]
<1>3. job \in Jobs /\ job.at = "note" /\ job.pid = work[w].pid
  BY <1>1 DEF Jobs
<1>4. SetPresence(work[w].pid, work[w].status) /\ Goto(w, job) /\ UNCHANGED <<seen, gone, restarts>>
  BY DEF Push
<1> HIDE DEF job
<1>5. About(job) = {work[w].pid}
  BY <1>3, AboutWhom
<1>6. QED  BY <1>1, <1>2, <1>3, <1>4, <1>5, WriteKeeps

LEMMA BatchSetKeeps ==
  ASSUME IInv, NEW w \in Workers, BatchSet(w)
  PROVE  IInv'
<1>1. work[w] \in [at : {"batch"}, pids : SUBSET Pids, status : {Online, Playing}]
  BY JobKinds DEF IInv, BatchSet
<1>2. About(work[w]) = work[w].pids /\ work[w].at = "batch" /\ work[w].status \in Statuses
  BY <1>1, AboutWhom DEF Statuses, IInv, TypeOK
<1>3. PICK p \in work[w].pids :
        /\ SetPresence(p, work[w].status)
        /\ Goto(w, IF work[w].pids = {p} THEN Idle ELSE [work[w] EXCEPT !.pids = @ \ {p}])
  BY DEF BatchSet
<1>4. PICK job \in Jobs : /\ Goto(w, job) /\ job.at \in {"idle", "batch"}
                          /\ About(job) = work[w].pids \ {p}
  <2>1. CASE work[w].pids = {p}
    <3>1. Idle \in Jobs /\ Idle.at = "idle" /\ About(Idle) = work[w].pids \ {p}
      BY <2>1, AboutWhom DEF Jobs, Idle
    <3>2. QED  BY <1>3, <2>1, <3>1
  <2>2. CASE work[w].pids # {p}
    <3> DEFINE job == [work[w] EXCEPT !.pids = @ \ {p}]
    <3>1. job \in Jobs /\ job.at = "batch" /\ job.pids = work[w].pids \ {p}
      BY <1>1 DEF Jobs
    <3>2. Goto(w, job)
      BY <1>3, <2>2
    <3> HIDE DEF job
    <3>3. About(job) = work[w].pids \ {p}
      BY <3>1, AboutWhom
    <3>4. QED  BY <3>1, <3>2, <3>3
  <2>3. QED  BY <2>1, <2>2
<1>5. UNCHANGED <<seen, gone, restarts>>
  BY DEF BatchSet
<1>6. QED  BY <1>2, <1>3, <1>4, <1>5, WriteKeeps

-----------------------------------------------------------------------------
(* Steps that leave the table of presences alone.                          *)

LEMMA LookKeeps ==
  ASSUME IInv, TypeOK', NEW w \in Workers, NEW job, Goto(w, job), UNCHANGED <<table, gone, late>>,
         About(job) \subseteq About(work[w]), work[w].at # "forget" \/ About(job) = {},
         \A q \in Pids : seen'[q] = 0 =>
           \/ q \in About(job)
           \/ seen[q] = 0 /\ (q \in About(work[w]) => Told(q)),
         job.at = "set" => Shown(job.pid) # Playing
  PROVE  IInv'
<1>1. \A v \in Workers : work'[v] = IF v = w THEN job ELSE work[v]
  BY OneMoves DEF IInv
<1>2. GoneAreSilent'
  <2> SUFFICES ASSUME NEW q \in gone, NEW v \in Workers, q \in About(work'[v])
               PROVE  table'[q] = None /\ At(v, "forget")'
    BY DEF IInv, GoneAreSilent
  <2>1. table[q] = None /\ \A u \in Workers : q \in About(work[u]) => work[u].at = "forget"
    BY DEF IInv, GoneAreSilent, At
  <2>2. QED  BY <1>1, <2>1 DEF At
<1>3. HeardAreTold'
  <2> SUFFICES ASSUME NEW q \in Pids, seen'[q] = 0, ~Told(q)
               PROVE  \E v \in Workers : q \in About(work'[v])
    BY DEF HeardAreTold, Told
  <2>1. CASE q \in About(job)
    BY <1>1, <2>1
  <2>2. CASE q \notin About(work[w]) /\ seen[q] = 0
    BY <1>1, <2>2 DEF IInv, HeardAreTold
  <2>3. QED  BY <2>1, <2>2
<1>4. NotesAreLate'
  BY <1>1 DEF IInv, NotesAreLate, At, Shown, Fresh
<1>5. QED  BY <1>2, <1>3, <1>4 DEF IInv

LEMMA NoteSeenKeeps ==
  ASSUME IInv, NEW w \in Workers, NoteSeen(w)
  PROVE  IInv'
<1>1. work[w] \in [at : {"note"}, pid : Pids]
  BY JobKinds DEF IInv, NoteSeen, At, Plain
<1>2. PICK p \in Pids : p = work[w].pid
  BY <1>1
<1> DEFINE job == [work[w] EXCEPT !.at = "check"]
           s == [seen EXCEPT ![p] = 0]
<1>3. job \in Jobs /\ job.at = "check" /\ job.pid = p
  BY <1>1, <1>2 DEF Jobs
<1>4. Goto(w, job) /\ UNCHANGED <<table, late, gone, restarts>> /\ seen' = Prune(s)
  BY <1>2 DEF NoteSeen
<1>5. /\ s \in [Pids -> SeenAge \cup {None}]
      /\ \A q \in Pids : s[q] = IF q = p THEN 0 ELSE seen[q]
  BY TimesToLive DEF IInv, TypeOK, SeenAge
<1> HIDE DEF job, s
<1>6. /\ seen' \in [Pids -> SeenAge \cup {None}]
      /\ \A q \in Pids : seen'[q] \in {s[q], None}
  BY <1>4, <1>5 DEF Prune
<1>7. About(job) = {p} /\ About(work[w]) = {p}
  BY <1>1, <1>2, <1>3, AboutWhom
<1>8. TypeOK'
  <2>1. work' \in [Workers -> Jobs]
    BY <1>3, <1>4 DEF IInv, TypeOK, Goto
  <2>2. late \subseteq {v \in Workers : At(v, "set")'}
    BY <1>1, <1>4, OneMoves DEF IInv, TypeOK, At
  <2>3. QED  BY <1>4, <1>6, <2>1, <2>2 DEF IInv, TypeOK
<1>9. \A q \in Pids : seen'[q] = 0 => q \in About(job) \/ (seen[q] = 0 /\ q \notin About(work[w]))
  BY <1>5, <1>6, <1>7, NoneIsNoAge
<1>10. QED  BY <1>1, <1>3, <1>4, <1>7, <1>8, <1>9, LookKeeps

LEMMA NoteCheckKeeps ==
  ASSUME IInv, NEW w \in Workers, NoteCheck(w)
  PROVE  IInv'
<1>1. work[w] \in [at : {"check"}, pid : Pids]
  BY JobKinds DEF IInv, NoteCheck, At, Plain
<1>2. PICK p \in Pids : p = work[w].pid /\ About(work[w]) = {p}
  BY <1>1, AboutWhom
<1>3. UNCHANGED <<table, seen, late, gone, restarts>>
  BY DEF NoteCheck
<1>4. ASSUME NEW job \in Jobs, Goto(w, job)
      PROVE  TypeOK'
  <2>1. work' \in [Workers -> Jobs]
    BY <1>4 DEF IInv, TypeOK, Goto
  <2>2. late \subseteq {v \in Workers : At(v, "set")'}
    BY <1>1, <1>4, OneMoves DEF IInv, TypeOK, At
  <2>3. QED  BY <1>3, <2>1, <2>2 DEF IInv, TypeOK
<1>5. CASE Shown(p) > Online /\ Goto(w, Idle)
  <2>1. Idle \in Jobs /\ About(Idle) = {} /\ Idle.at = "idle"
    BY AboutWhom DEF Jobs, Idle
  <2>2. Told(p)
    BY <1>5 DEF Told, Shown, Fresh, Offline, Online
  <2>3. QED  BY <1>2, <1>3, <1>4, <1>5, <2>1, <2>2, LookKeeps
<1>6. CASE Shown(p) <= Online /\ Goto(w, [work[w] EXCEPT !.at = "set"])
  <2> DEFINE job == [work[w] EXCEPT !.at = "set"]
  <2>1. job \in Jobs /\ job.at = "set" /\ job.pid = p
    BY <1>1, <1>2 DEF Jobs
  <2>2. Goto(w, job)
    BY <1>6
  <2> HIDE DEF job
  <2>3. About(job) = {p}
    BY <2>1, AboutWhom
  <2>4. Shown(p) # Playing
    BY <1>6 DEF Online, Playing
  <2>5. work[w].at # "forget"
    BY <1>1
  <2>6. QED  BY <1>2, <1>3, <1>4, <2>1, <2>2, <2>3, <2>4, <2>5, LookKeeps
<1>7. QED  BY <1>2, <1>5, <1>6 DEF NoteCheck

LEMMA ForgetKeeps ==
  ASSUME IInv, NEW w \in Workers, Forget(w)
  PROVE  IInv'
<1>1. work[w] \in [at : {"forget"}, pid : Pids]
  BY JobKinds DEF IInv, Forget, At, Plain
<1>2. PICK p \in Pids : p = work[w].pid /\ About(work[w]) = {p}
  BY <1>1, AboutWhom
<1>3. /\ seen' = [seen EXCEPT ![p] = None] /\ Goto(w, Idle)
      /\ UNCHANGED <<table, late, gone, restarts>>
  BY <1>2 DEF Forget
<1>4. \A q \in Pids : seen'[q] = IF q = p THEN None ELSE seen[q]
  BY <1>3 DEF IInv, TypeOK
<1>5. Idle \in Jobs /\ About(Idle) = {} /\ Idle.at = "idle"
  BY AboutWhom DEF Jobs, Idle
<1>6. TypeOK'
  <2>1. work' \in [Workers -> Jobs]
    BY <1>3, <1>5 DEF IInv, TypeOK, Goto
  <2>2. late \subseteq {v \in Workers : At(v, "set")'}
    BY <1>1, <1>3, OneMoves DEF IInv, TypeOK, At
  <2>3. seen' \in [Pids -> SeenAge \cup {None}]
    BY <1>3 DEF IInv, TypeOK
  <2>4. QED  BY <1>3, <2>1, <2>2, <2>3 DEF IInv, TypeOK
<1>7. \A q \in Pids : seen'[q] = 0 => seen[q] = 0 /\ q \notin About(work[w])
  BY <1>2, <1>4, NoneIsNoAge
<1>8. QED  BY <1>3, <1>5, <1>6, <1>7, LookKeeps

-----------------------------------------------------------------------------
(* The note is written; the console leaves.                                *)

LEMMA NoteSetKeeps ==
  ASSUME IInv, NEW w \in Workers, NoteSet(w)
  PROVE  IInv'
<1>1. work[w] \in [at : {"set"}, pid : Pids]
  BY JobKinds DEF IInv, NoteSet, At, Plain
<1>2. PICK p \in Pids : p = work[w].pid /\ About(work[w]) = {p}
  BY <1>1, AboutWhom
<1> DEFINE e == [status |-> Online, age |-> 0]
<1>3. e \in Entry /\ e.age <= GameTTL /\ e.status = Online /\ e # None
  <2>1. e \in Entry /\ e.age <= GameTTL /\ e.status = Online
    BY TimesToLive DEF Entry, Statuses
  <2>2. QED  BY <2>1, NoneIsNoEntry
<1>4. /\ table' = [table EXCEPT ![p] = e] /\ late' = late \ {w} /\ Goto(w, Idle)
      /\ UNCHANGED <<seen, gone, restarts>>
  BY <1>2 DEF NoteSet
<1> HIDE DEF e
<1>5. \A q \in Pids : table'[q] = IF q = p THEN e ELSE table[q]
  BY <1>4 DEF IInv, TypeOK
<1>6. \A v \in Workers : work'[v] = IF v = w THEN Idle ELSE work[v]
  BY <1>4, OneMoves DEF IInv
<1>7. Idle \in Jobs /\ About(Idle) = {} /\ Idle.at = "idle"
  BY AboutWhom DEF Jobs, Idle
<1>8. TypeOK'
  <2>1. work' \in [Workers -> Jobs]
    BY <1>4, <1>7 DEF IInv, TypeOK, Goto
  <2>2. late' \subseteq {v \in Workers : At(v, "set")'}
    BY <1>4, <1>6 DEF IInv, TypeOK, At
  <2>3. table' \in [Pids -> Entry \cup {None}]
    BY <1>3, <1>4 DEF IInv, TypeOK
  <2>4. QED  BY <1>4, <2>1, <2>2, <2>3 DEF IInv, TypeOK
<1>9. GoneAreSilent'
  <2> SUFFICES ASSUME NEW q \in gone
               PROVE  table'[q] = None /\ \A v \in Workers : q \in About(work'[v]) => At(v, "forget")'
    BY <1>4 DEF GoneAreSilent
  <2>1. /\ table[q] = None /\ q \in Pids
        /\ \A v \in Workers : q \in About(work[v]) => work[v].at = "forget"
    BY DEF IInv, TypeOK, GoneAreSilent, At
  <2>2. q # p
    BY <1>1, <1>2, <2>1
  <2>3. QED  BY <1>5, <1>6, <1>7, <2>1, <2>2 DEF At
<1>10. HeardAreTold'
  <2> SUFFICES ASSUME NEW q \in Pids, seen[q] = 0, ~Told(q)'
               PROVE  \E v \in Workers : q \in About(work'[v])
    BY <1>4 DEF HeardAreTold
  <2>1. q # p
    BY <1>3, <1>5 DEF Told
  <2>2. PICK v \in Workers : q \in About(work[v])
    BY <1>5, <2>1 DEF IInv, HeardAreTold, Told
  <2>3. QED  BY <1>2, <1>6, <2>1, <2>2
<1>11. NotesAreLate'
  <2> SUFFICES ASSUME NEW v \in Workers, At(v, "set")', Shown(work[v].pid)' = Playing
               PROVE  v \in late'
    BY DEF NotesAreLate
  <2>1. v # w /\ work'[v] = work[v] /\ At(v, "set")
    BY <1>6, <1>7 DEF At
  <2>2. work[v].pid \in Pids
    BY <2>1, JobKinds DEF IInv, At, Plain
  <2>3. Shown(work[v].pid) = Playing
    BY <1>3, <1>5, <2>1, <2>2 DEF Shown, Fresh, Online, Playing
  <2>4. QED  BY <1>4, <2>1, <2>3 DEF IInv, NotesAreLate
<1>12. QED  BY <1>8, <1>9, <1>10, <1>11 DEF IInv

LEMMA ClearKeeps ==
  ASSUME IInv, NEW w \in Workers, Clear(w)
  PROVE  IInv'
<1>1. work[w] \in [at : {"clear"}, pid : Pids]
  BY JobKinds DEF IInv, Clear, At, Plain
<1>2. PICK p \in Pids : p = work[w].pid /\ About(work[w]) = {p}
  BY <1>1, AboutWhom
<1> DEFINE job == [work[w] EXCEPT !.at = "forget"]
<1>3. job \in Jobs /\ job.at = "forget" /\ job.pid = p
  BY <1>1, <1>2 DEF Jobs
<1>4. /\ table' = [table EXCEPT ![p] = None] /\ Goto(w, job)
      /\ gone' = IF \E v \in Workers \ {w} : p \in About(work[v]) THEN gone ELSE gone \cup {p}
      /\ UNCHANGED <<seen, late, restarts>>
  BY <1>2 DEF Clear
<1> HIDE DEF job
<1>5. About(job) = {p}
  BY <1>3, AboutWhom
<1>6. \A q \in Pids : table'[q] = IF q = p THEN None ELSE table[q]
  BY <1>4 DEF IInv, TypeOK
<1>7. \A v \in Workers : work'[v] = IF v = w THEN job ELSE work[v]
  BY <1>4, OneMoves DEF IInv
<1>8. TypeOK'
  <2>1. work' \in [Workers -> Jobs]
    BY <1>3, <1>4 DEF IInv, TypeOK, Goto
  <2>2. late' \subseteq {v \in Workers : At(v, "set")'}
    BY <1>1, <1>4, <1>7 DEF IInv, TypeOK, At
  <2>3. table' \in [Pids -> Entry \cup {None}]
    BY <1>4 DEF IInv, TypeOK
  <2>4. QED  BY <1>4, <2>1, <2>2, <2>3 DEF IInv, TypeOK
<1>9. GoneAreSilent'
  <2> SUFFICES ASSUME NEW q \in gone'
               PROVE  table'[q] = None /\ \A v \in Workers : q \in About(work'[v]) => At(v, "forget")'
    BY DEF GoneAreSilent
  <2>1. CASE q \in gone
    <3>1. /\ table[q] = None /\ q \in Pids
          /\ \A v \in Workers : q \in About(work[v]) => work[v].at = "forget"
      BY <2>1 DEF IInv, TypeOK, GoneAreSilent, At
    <3>2. QED  BY <1>1, <1>2, <1>3, <1>5, <1>6, <1>7, <3>1 DEF At
  <2>2. CASE q = p /\ \A v \in Workers \ {w} : p \notin About(work[v])
    BY <1>3, <1>6, <1>7, <2>2 DEF At
  <2>3. QED  BY <1>4, <2>1, <2>2
<1>10. HeardAreTold'
  <2> SUFFICES ASSUME NEW q \in Pids, seen[q] = 0, ~Told(q)'
               PROVE  \E v \in Workers : q \in About(work'[v])
    BY <1>4 DEF HeardAreTold
  <2>1. CASE q = p
    BY <1>5, <1>7, <2>1
  <2>2. CASE q # p
    BY <1>2, <1>6, <1>7, <2>2 DEF IInv, HeardAreTold, Told
  <2>3. QED  BY <2>1, <2>2
<1>11. NotesAreLate'
  <2> SUFFICES ASSUME NEW v \in Workers, At(v, "set")', Shown(work[v].pid)' = Playing
               PROVE  v \in late'
    BY DEF NotesAreLate
  <2>1. v # w /\ work'[v] = work[v] /\ At(v, "set")
    BY <1>3, <1>7 DEF At
  <2>2. work[v].pid \in Pids
    BY <2>1, JobKinds DEF IInv, At, Plain
  <2>3. Shown(work[v].pid) = Playing
    BY <1>6, <2>1, <2>2 DEF Shown, Fresh, Offline, Playing
  <2>4. QED  BY <1>4, <2>1, <2>3 DEF IInv, NotesAreLate
<1>12. QED  BY <1>8, <1>9, <1>10, <1>11 DEF IInv

-----------------------------------------------------------------------------
(* Requests start; time passes; the process restarts.                      *)

LEMMA StartKeeps ==
  ASSUME IInv, NEW w \in Workers, NEW job \in Jobs, job.at # "set", Start(w, job)
  PROVE  IInv'
<1>1. /\ work[w] = Idle /\ Goto(w, job) /\ gone' = gone \ About(job)
      /\ UNCHANGED <<table, seen, late, restarts>>
  BY DEF Start
<1>2. About(work[w]) = {} /\ work[w].at = "idle"
  BY <1>1, AboutWhom DEF Idle
<1>3. \A v \in Workers : work'[v] = IF v = w THEN job ELSE work[v]
  BY <1>1, OneMoves DEF IInv
<1>4. TypeOK'
  <2>1. work' \in [Workers -> Jobs]
    BY <1>1 DEF IInv, TypeOK, Goto
  <2>2. late \subseteq {v \in Workers : At(v, "set")'}
    BY <1>2, <1>3 DEF IInv, TypeOK, At
  <2>3. QED  BY <1>1, <2>1, <2>2 DEF IInv, TypeOK
<1>5. GoneAreSilent'
  BY <1>1, <1>3 DEF IInv, GoneAreSilent, At
<1>6. HeardAreTold'
  <2> SUFFICES ASSUME NEW q \in Pids, seen[q] = 0, ~Told(q)
               PROVE  \E v \in Workers : q \in About(work'[v])
    BY <1>1 DEF HeardAreTold, Told
  <2>1. PICK v \in Workers : q \in About(work[v])
    BY DEF IInv, HeardAreTold
  <2>2. QED  BY <1>2, <1>3, <2>1
<1>7. NotesAreLate'
  BY <1>1, <1>3 DEF IInv, NotesAreLate, At, Shown, Fresh
<1>8. QED  BY <1>4, <1>5, <1>6, <1>7 DEF IInv

LEMMA RequestsKeep ==
  ASSUME IInv, NEW w \in Workers, NEW p \in Pids, NEW status \in Statuses,
         Identity(w, p) \/ Presence(w, p, status) \/ InternalPresence(w, p, status)
  PROVE  IInv'
<1>1. ASSUME NEW job, job \in [at : {"note", "clear"}, pid : Pids], Start(w, job)
      PROVE  IInv'
  <2>1. job \in Jobs /\ job.at # "set"
    BY <1>1 DEF Jobs
  <2>2. QED  BY <1>1, <2>1, StartKeeps
<1>2. CASE Identity(w, p)
  BY <1>1, <1>2 DEF Identity
<1>3. CASE Presence(w, p, status)
  <2> DEFINE job == [at |-> "report", pid |-> p, status |-> status]
  <2>1. job \in Jobs /\ job.at # "set" /\ Start(w, job)
    BY <1>3 DEF Jobs, Presence
  <2> HIDE DEF job
  <2>2. QED  BY <2>1, StartKeeps
<1>4. CASE InternalPresence(w, p, status)
  <2>1. CASE status = Offline
    <3>1. Start(w, [at |-> "clear", pid |-> p])
      BY <1>4, <2>1 DEF InternalPresence
    <3>2. QED  BY <1>1, <3>1
  <2>2. CASE status # Offline
    <3> DEFINE job == [at |-> "push", pid |-> p, status |-> status]
    <3>1. job \in Jobs /\ job.at # "set"
      BY <2>2 DEF Jobs, Statuses
    <3>2. Start(w, job)
      BY <1>4, <2>2 DEF InternalPresence
    <3> HIDE DEF job
    <3>3. QED  BY <3>1, <3>2, StartKeeps
  <2>3. QED  BY <2>1, <2>2
<1>5. QED  BY <1>2, <1>3, <1>4

LEMMA PresenceBatchKeeps ==
  ASSUME IInv, NEW w \in Workers, NEW P \in SUBSET Pids, NEW status \in Statuses,
         PresenceBatch(w, P, status)
  PROVE  IInv'
<1> DEFINE given == IF status = Offline THEN Playing ELSE status
           job == [at |-> "batch", pids |-> P, status |-> given]
<1>1. given \in {Online, Playing}
  BY DEF Statuses
<1>2. Start(w, job)
  BY DEF PresenceBatch
<1> HIDE DEF given
<1>3. job \in Jobs /\ job.at # "set"
  BY <1>1 DEF Jobs
<1> HIDE DEF job
<1>4. QED  BY <1>2, <1>3, StartKeeps

(* Ages only grow: what is shown stays shown or becomes offline, and no    *)
(* console has just been heard of.                                         *)
LEMMA TickKeeps ==
  ASSUME IInv, Tick
  PROVE  IInv'
<1>1. UNCHANGED <<work, late, gone, restarts>>
  BY DEF Tick
<1>2. ASSUME NEW age \in 0..(GameTTL + 1)
      PROVE  /\ Older(age, GameTTL + 1) \in 0..(GameTTL + 1)
             /\ Older(age, GameTTL + 1) >= age
  <2>1. age # None
    BY NoneIsNoAge
  <2>2. QED  BY <2>1, TimesToLive DEF Older
<1>3. ASSUME NEW p \in Pids
      PROVE  \/ table[p] = None /\ table'[p] = None
             \/ /\ table[p] \in Entry /\ table'[p] \in Entry
                /\ table'[p].status = table[p].status /\ table'[p].age >= table[p].age
  <2>1. CASE table[p] = None
    BY <2>1 DEF Tick
  <2>2. CASE table[p] # None
    <3>1. table[p] \in Entry
      BY <2>2 DEF IInv, TypeOK
    <3> DEFINE age == Older(table[p].age, GameTTL + 1)
    <3>2. age \in 0..(GameTTL + 1) /\ age >= table[p].age
      BY <1>2, <3>1 DEF Entry
    <3>3. table'[p] = [table[p] EXCEPT !.age = age]
      BY <2>2 DEF Tick
    <3> HIDE DEF age
    <3>4. QED  BY <3>1, <3>2, <3>3 DEF Entry
  <2>3. QED  BY <2>1, <2>2
<1>4. ASSUME NEW p \in Pids
      PROVE  seen'[p] \in SeenAge \cup {None} /\ seen'[p] # 0
  <2>1. seen[p] \in SeenAge \cup {None} /\ seen'[p] = Older(seen[p], ConsoleTTL + 1)
    BY DEF IInv, TypeOK, Tick
  <2>2. CASE seen[p] = None
    BY <2>1, <2>2, NoneIsNoAge DEF Older
  <2>3. CASE seen[p] # None
    BY <2>1, <2>3, TimesToLive DEF Older, SeenAge
  <2>4. QED  BY <2>2, <2>3
<1>5. TypeOK'
  <2>1. table' \in [Pids -> Entry \cup {None}]
    <3>1. \A p \in Pids : table'[p] \in Entry \cup {None}
      BY <1>3
    <3>2. QED  BY <3>1 DEF Tick
  <2>2. seen' \in [Pids -> SeenAge \cup {None}]
    <3>1. \A p \in Pids : seen'[p] \in SeenAge \cup {None}
      BY <1>4
    <3>2. QED  BY <3>1 DEF Tick
  <2>3. QED  BY <1>1, <2>1, <2>2 DEF IInv, TypeOK, At
<1>6. GoneAreSilent'
  BY <1>1, <1>3, NoneIsNoEntry DEF IInv, TypeOK, GoneAreSilent, At
<1>7. HeardAreTold'
  BY <1>4 DEF HeardAreTold
<1>8. NotesAreLate'
  <2> SUFFICES ASSUME NEW w \in Workers, At(w, "set"), Shown(work[w].pid)' = Playing
               PROVE  w \in late
    BY <1>1 DEF NotesAreLate, At
  <2>1. PICK p \in Pids : p = work[w].pid
    BY JobKinds DEF IInv, At, Plain
  <2>2. table'[p] # None /\ table'[p].age <= GameTTL /\ table'[p].status = Playing
    BY <1>1, <2>1 DEF Shown, Fresh, Offline, Playing
  <2>3. table[p] \in Entry /\ table[p].age <= GameTTL /\ table[p].status = Playing
    BY <1>3, <2>2, TimesToLive DEF Entry
  <2>4. Shown(p) = Playing
    BY <2>3, NoneIsNoEntry DEF Shown, Fresh
  <2>5. QED  BY <2>1, <2>4 DEF IInv, NotesAreLate
<1>9. QED  BY <1>5, <1>6, <1>7, <1>8 DEF IInv

LEMMA RestartKeeps ==
  ASSUME IInv, Restart
  PROVE  IInv'
<1>1. \A p \in Pids : table'[p] = None /\ seen'[p] = None
  BY DEF Restart
<1>2. \A w \in Workers : work'[w] = Idle /\ About(work'[w]) = {} /\ ~At(w, "set")'
  BY AboutWhom DEF Restart, At, Idle
<1>3. TypeOK'
  BY BoundsAreNaturals DEF IInv, TypeOK, Restart, Jobs
<1>4. GoneAreSilent'
  BY <1>1, <1>2 DEF IInv, TypeOK, GoneAreSilent, Restart
<1>5. HeardAreTold'
  BY <1>1, NoneIsNoAge DEF HeardAreTold
<1>6. NotesAreLate'
  BY <1>2 DEF NotesAreLate
<1>7. QED  BY <1>3, <1>4, <1>5, <1>6 DEF IInv

-----------------------------------------------------------------------------
(* The invariant and the theorems.                                         *)

LEMMA InitHolds == Init => IInv
<1> SUFFICES ASSUME Init PROVE IInv
  OBVIOUS
<1>1. TypeOK
  BY BoundsAreNaturals DEF Init, TypeOK, Jobs
<1>2. GoneAreSilent /\ HeardAreTold
  BY NoneIsNoAge DEF Init, GoneAreSilent, HeardAreTold
<1>3. NotesAreLate
  BY DEF Init, NotesAreLate, At, Idle
<1>4. QED  BY <1>1, <1>2, <1>3 DEF IInv

LEMMA NextKeeps == IInv /\ [Next]_vars => IInv'
<1> SUFFICES ASSUME IInv, [Next]_vars PROVE IInv'
  OBVIOUS
<1>1. ASSUME NEW w \in Workers, NEW p \in Pids, Identity(w, p)
      PROVE  IInv'
  BY <1>1, RequestsKeep DEF Statuses
<1>2. ASSUME NEW w \in Workers, NEW p \in Pids, NEW status \in Statuses,
             Presence(w, p, status) \/ InternalPresence(w, p, status)
      PROVE  IInv'
  BY <1>2, RequestsKeep
<1>3. ASSUME NEW w \in Workers, NEW P \in SUBSET Pids \ {{}}, NEW status \in Statuses,
             PresenceBatch(w, P, status)
      PROVE  IInv'
  BY <1>3, PresenceBatchKeeps
<1>4. ASSUME NEW w \in Workers, Step(w)
      PROVE  IInv'
  BY <1>4, ReportKeeps, BatchSetKeeps, NoteSeenKeeps, NoteCheckKeeps, NoteSetKeeps, PushKeeps,
     ClearKeeps, ForgetKeeps DEF Step
<1>5. CASE UNCHANGED vars
  BY <1>5 DEF vars, IInv, TypeOK, GoneAreSilent, HeardAreTold, Told, NotesAreLate, At, Shown, Fresh
<1>6. QED
  BY <1>1, <1>2, <1>3, <1>4, <1>5, TickKeeps, RestartKeeps DEF Next

LEMMA Invariance == Spec => []IInv
BY InitHolds, NextKeeps, PTL DEF Spec

(* The tables and the requests keep their types, and every note that is    *)
(* called late is between its check and its write.                         *)
THEOREM TypeCorrect == Spec => []TypeOK
<1>1. IInv => TypeOK
  BY DEF IInv
<1>2. QED  BY <1>1, Invariance, PTL

(* A console that reported that it left is shown offline until a request   *)
(* that began later says something of it: no report, batch or note that    *)
(* was not already on its way brings it back, and neither does a restart.  *)
THEOREM LeaversAreOffline == Spec => []LeavingIsInstant
<1>1. IInv => LeavingIsInstant
  BY IInvHolds
<1>2. QED  BY <1>1, Invariance, PTL

(* A console just heard from is in the friend lists once the requests      *)
(* about it have ended, unless its own report says offline.                *)
THEOREM HeardConsolesAreShown == Spec => []HeardIsShown
<1>1. IInv => HeardIsShown
  BY IInvHolds
<1>2. QED  BY <1>1, Invariance, PTL

(* noteConsoleOnline overwrites a playing entry only when the report came  *)
(* between its look and its write: there is no other way down for a        *)
(* player.                                                                 *)
THEOREM PlayersAreKept == Spec => PlayingIsNotDowngraded
<1>1. IInv => PlayersKept
  BY DEF IInv, NotesAreLate, PlayersKept
<1>2. IInv /\ [Next]_vars => [PlayersKept]_vars
  BY <1>1
<1>3. QED  BY <1>2, Invariance, PTL DEF Spec, PlayingIsNotDowngraded


=============================================================================
