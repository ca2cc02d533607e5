--------------------------- MODULE PlaySessionsProofs ---------------------------
(***************************************************************************)
(* Proofs about PlaySessions, for any session ids, devices, number of      *)
(* concurrent requests, failed writes and restarts: a session is in the    *)
(* file before anybody is told its id, a closed one stays closed, a silent *)
(* account is free, and a device has no more sessions than requests race.  *)
(***************************************************************************)
EXTENDS PlaySessions, FiniteSetTheorems, TLAPS

IInv == TypeOK /\ ClosedStaysClosed /\ SessionsAreSaved

(* A step on the registry that revokes nothing back and forgets nothing.   *)
Grows ==
  /\ sess' \in Registry
  /\ \A id \in Ids : Dead(sess, id) => Dead(sess', id)
  /\ \A id \in Known(sess) : sess'[id] # Absent /\ sess'[id].dev = sess[id].dev

(* Either the file is written, or its write fails, or nothing new is known. *)
LEMMA GrowsAndPersists ==
  ASSUME IInv, Grows, Persist, closed' \subseteq Ids, restarts' = restarts,
         \A id \in closed' \ closed : Dead(sess', id)
  PROVE  /\ ClosedStaysClosed' /\ SessionsAreSaved'
         /\ disk' \in Registry /\ failures' \in 0..MaxSaveFailures
<1>1. disk' \in Registry /\ failures' \in 0..MaxSaveFailures
  BY BoundsAreNaturals DEF IInv, TypeOK, Grows, Persist
<1>2. \A id \in closed' : Dead(sess', id) \/ (failures' > 0 /\ restarts' > 0)
  BY BoundsAreNaturals DEF IInv, TypeOK, ClosedStaysClosed, Grows, Persist
<1>3. \A id \in closed' : Dead(disk', id) \/ failures' > 0
  <2>1. CASE disk' = sess' /\ UNCHANGED failures
    BY <1>2, <2>1
  <2>2. CASE failures' = failures + 1
    BY <2>2, BoundsAreNaturals DEF IInv, TypeOK
  <2>3. QED  BY <2>1, <2>2 DEF Persist
<1>4. SessionsAreSaved'
  <2>1. CASE disk' = sess' /\ UNCHANGED failures
    BY <2>1 DEF SessionsAreSaved, Known
  <2>2. CASE failures' = failures + 1
    BY <2>2, BoundsAreNaturals DEF IInv, TypeOK, SessionsAreSaved
  <2>3. QED  BY <2>1, <2>2 DEF Persist
<1>5. QED  BY <1>1, <1>2, <1>3, <1>4 DEF ClosedStaysClosed

(* A step that is only marked dirty knows no session the file does not.    *)
LEMMA GrowsOnly ==
  ASSUME IInv, Grows, UNCHANGED <<disk, closed, failures, restarts>>,
         \A id \in Ids : sess'[id] # Absent => sess[id] # Absent
  PROVE  ClosedStaysClosed' /\ SessionsAreSaved'
BY DEF IInv, TypeOK, ClosedStaysClosed, SessionsAreSaved, Grows, Known, Dead

(* Touch.                                                                  *)
LEMMA TouchGrows ==
  ASSUME IInv, NEW id \in Known(sess), NEW play \in BOOLEAN, Touch(id, play)
  PROVE  /\ Grows /\ age' \in [Ids -> 0..Window]
         /\ \A i \in Ids : sess'[i] # Absent => sess[i] # Absent
<1>1. id \in Ids /\ sess[id] \in Session
  BY DEF Known, IInv, TypeOK, Registry
<1>2. sess' = [sess EXCEPT ![id] = [sess[id] EXCEPT !.playing = sess[id].playing \/ play]]
  BY <1>1 DEF Touch, IInv, TypeOK, Registry
<1> DEFINE s == [sess[id] EXCEPT !.playing = sess[id].playing \/ play]
<1>3. /\ s \in Session
      /\ s.dev = sess[id].dev /\ s.revoked = sess[id].revoked
  BY <1>1 DEF Session
<1> HIDE DEF s
<1>4. /\ sess' \in Registry
      /\ sess'[id] = s
      /\ \A i \in Ids \ {id} : sess'[i] = sess[i]
  BY <1>1, <1>2, <1>3 DEF IInv, TypeOK, Registry, s
<1>5. s # Absent
  BY <1>3, AbsentIsNoSession
<1>6. Grows
  BY <1>1, <1>3, <1>4, <1>5 DEF Grows, Dead, Known
<1>7. age' \in [Ids -> 0..Window]
  BY <1>1, BoundsAreNaturals DEF Touch, IInv, TypeOK
<1>8. QED  BY <1>1, <1>4, <1>6, <1>7 DEF Known

(* NewSession: an id that was free.                                        *)
LEMMA NewSessionGrows ==
  ASSUME IInv, NEW id \in Ids, NEW d \in Places, NewSession(id, d)
  PROVE  Grows /\ Persist /\ age' \in [Ids -> 0..Window] /\ id \in Known(sess')
<1> DEFINE s == [dev |-> d, playing |-> FALSE, revoked |-> FALSE]
<1>0. s \in Session
  BY DEF Session
<1>1. s \in Session /\ s # Absent
  BY ONLY <1>0, AbsentIsNoSession
<1>2. sess[id] = Absent /\ sess' = [sess EXCEPT ![id] = s] /\ Persist
  BY DEF NewSession
<1> HIDE DEF s
<1>3. /\ sess' \in Registry /\ sess'[id] = s
      /\ \A i \in Ids \ {id} : sess'[i] = sess[i]
  BY <1>1, <1>2 DEF IInv, TypeOK, Registry
<1>4. Grows
  BY <1>2, <1>3 DEF Grows, Dead, Known
<1>5. age' \in [Ids -> 0..Window]
  BY BoundsAreNaturals DEF NewSession, IInv, TypeOK
<1>6. QED  BY <1>1, <1>2, <1>3, <1>4, <1>5 DEF Known

(* Close: of sessions that are known.                                      *)
LEMMA CloseGrows ==
  ASSUME IInv, NEW S \in SUBSET Known(sess), Close(S)
  PROVE  /\ Grows /\ Persist /\ closed' \subseteq Ids
         /\ \A id \in closed' \ closed : Dead(sess', id)
<1>1. \A id \in S : id \in Ids /\ sess[id] \in Session
  BY DEF Known, IInv, TypeOK, Registry
<1>2. \A id \in S : /\ [sess[id] EXCEPT !.revoked = TRUE] \in Session
                     /\ [sess[id] EXCEPT !.revoked = TRUE].revoked
                     /\ [sess[id] EXCEPT !.revoked = TRUE].dev = sess[id].dev
  BY <1>1 DEF Session
<1>3. /\ \A id \in S : sess'[id] = [sess[id] EXCEPT !.revoked = TRUE]
      /\ \A id \in Ids \ S : sess'[id] = sess[id]
  BY <1>1 DEF Close
<1>4. sess' \in Registry
  BY <1>1, <1>2 DEF Close, IInv, TypeOK, Registry
<1>5. \A id \in S : sess'[id] # Absent /\ sess'[id].revoked /\ sess'[id].dev = sess[id].dev
  BY <1>2, <1>3, AbsentIsNoSession
<1>6. Grows
  BY <1>1, <1>3, <1>4, <1>5 DEF Grows, Dead, Known
<1>7. closed' \subseteq Ids /\ \A id \in closed' \ closed : Dead(sess', id)
  BY <1>1, <1>5 DEF Close, Dead, IInv, TypeOK
<1>8. QED  BY <1>6, <1>7 DEF Close

(* What a worker goes on with: no session it is to mark disappears.        *)
LEMMA GotoTyped ==
  ASSUME IInv, Known(sess) \subseteq Known(sess'), NEW w \in Workers, NEW job \in Jobs,
         Goto(w, job), job.at = "mark" => job.id \in Known(sess')
  PROVE  /\ work' \in [Workers -> Jobs]
         /\ \A v \in Workers : work'[v].at = "mark" => work'[v].id \in Known(sess')
BY DEF IInv, TypeOK, Goto

LEMMA GrownKnown ==
  ASSUME Grows
  PROVE  Known(sess) \subseteq Known(sess')
BY DEF Grows, Known

LEMMA Waiting ==
  ASSUME IInv, Known(sess) \subseteq Known(sess'), UNCHANGED work
  PROVE  /\ work' \in [Workers -> Jobs]
         /\ \A v \in Workers : work'[v].at = "mark" => work'[v].id \in Known(sess')
BY DEF IInv, TypeOK

LEMMA HeardTyped == 0 \in 0..Window
BY BoundsAreNaturals

(* A step that leaves both registries and the history of closings alone.   *)
LEMMA RegistrySame ==
  ASSUME IInv, UNCHANGED <<sess, disk, closed, failures, restarts>>
  PROVE  ClosedStaysClosed' /\ SessionsAreSaved'
BY DEF IInv, ClosedStaysClosed, SessionsAreSaved, Dead, Known

-----------------------------------------------------------------------------
(* Each action.  The parts of TypeOK that no lemma above gives are plain.  *)

LEMMA FlushStep ==
  ASSUME IInv, Flush
  PROVE  IInv'
<1>1. Grows
  BY DEF Flush, Grows, IInv, TypeOK, Known
<1>2. UNCHANGED <<sess, age, quiet, closed, work, restarts>> /\ Persist
  BY DEF Flush, HistorySame
<1>3. closed' \subseteq Ids /\ closed' \ closed = {}
  BY <1>2 DEF IInv, TypeOK
<1>4. /\ ClosedStaysClosed' /\ SessionsAreSaved'
      /\ disk' \in Registry /\ failures' \in 0..MaxSaveFailures
  BY <1>1, <1>2, <1>3, GrowsAndPersists
<1>5. TypeOK'
  BY <1>2, <1>4 DEF IInv, TypeOK, Known
<1>6. QED  BY <1>4, <1>5 DEF IInv

(* What a step that writes a new session leaves to say.                    *)
LEMMA NewSessionKeeps ==
  ASSUME IInv, NEW id \in Ids, NEW d \in Places, NewSession(id, d),
         UNCHANGED <<closed, restarts>>, quiet' \in 0..Window,
         work' \in [Workers -> Jobs],
         \A w \in Workers : work'[w].at = "mark" => work'[w].id \in Known(sess')
  PROVE  IInv'
<1>1. Grows /\ Persist /\ age' \in [Ids -> 0..Window]
  BY NewSessionGrows
<1>2. closed' \subseteq Ids /\ closed' \ closed = {}
  BY DEF IInv, TypeOK
<1>3. /\ ClosedStaysClosed' /\ SessionsAreSaved'
      /\ disk' \in Registry /\ failures' \in 0..MaxSaveFailures
  BY <1>1, <1>2, GrowsAndPersists
<1>4. Known(sess)' = Known(sess')
  BY DEF Known
<1>5. TypeOK'
  BY <1>1, <1>2, <1>3, <1>4 DEF IInv, TypeOK, Grows
<1>6. QED  BY <1>3, <1>5 DEF IInv

LEMMA LoginStep ==
  ASSUME IInv, Login
  PROVE  IInv'
<1>1. PICK id \in Ids : NewSession(id, Browser)
  BY DEF Login
<1>2. Browser \in Places
  BY DEF Places
<1>3. Known(sess) \subseteq Known(sess')
  BY <1>1, <1>2, NewSessionGrows, GrownKnown
<1>4. UNCHANGED <<work, closed, restarts>> /\ quiet' \in 0..Window
  BY DEF Login, HistorySame, IInv, TypeOK
<1>5. QED  BY <1>1, <1>2, <1>3, <1>4, Waiting, NewSessionKeeps

LEMMA RevokeStep ==
  ASSUME IInv, Revoke
  PROVE  IInv'
<1>1. PICK S \in SUBSET Known(sess) : Close(S)
  BY DEF Revoke
<1>2. UNCHANGED <<work, quiet, restarts>>
  BY DEF Revoke
<1>3. /\ Grows /\ Persist /\ closed' \subseteq Ids
      /\ \A id \in closed' \ closed : Dead(sess', id)
  BY <1>1, CloseGrows
<1>4. /\ ClosedStaysClosed' /\ SessionsAreSaved'
      /\ disk' \in Registry /\ failures' \in 0..MaxSaveFailures
  BY <1>2, <1>3, GrowsAndPersists
<1>5. /\ work' \in [Workers -> Jobs]
      /\ \A v \in Workers : work'[v].at = "mark" => work'[v].id \in Known(sess')
  BY <1>2, <1>3, GrownKnown, Waiting
<1>6. age' = age
  BY <1>1 DEF Close
<1>7. Known(sess)' = Known(sess')
  BY DEF Known
<1>8. TypeOK'
  BY <1>2, <1>3, <1>4, <1>5, <1>6, <1>7 DEF IInv, TypeOK, Grows
<1>9. QED  BY <1>4, <1>8 DEF IInv

(* What a step that touches a session leaves to say.                       *)
LEMMA TouchKeeps ==
  ASSUME IInv, NEW id \in Known(sess), NEW play \in BOOLEAN, Touch(id, play),
         UNCHANGED <<disk, closed, failures, restarts>>,
         quiet' \in 0..Window,
         work' \in [Workers -> Jobs],
         \A w \in Workers : work'[w].at = "mark" => work'[w].id \in Known(sess')
  PROVE  IInv'
<1>1. /\ Grows /\ age' \in [Ids -> 0..Window]
      /\ \A i \in Ids : sess'[i] # Absent => sess[i] # Absent
  BY TouchGrows
<1>2. ClosedStaysClosed' /\ SessionsAreSaved'
  BY <1>1, GrowsOnly
<1>3. Known(sess)' = Known(sess')
  BY DEF Known
<1>4. TypeOK'
  BY <1>1, <1>3 DEF IInv, TypeOK, Grows
<1>5. QED  BY <1>2, <1>4 DEF IInv

LEMMA SessionValidStep ==
  ASSUME IInv, NEW id \in Ids, SessionValid(id)
  PROVE  IInv'
<1>1. id \in Known(sess) /\ Touch(id, FALSE)
  BY DEF SessionValid, Mine
<1>2. UNCHANGED <<disk, work, quiet, closed, failures, restarts>>
  BY DEF SessionValid, HistorySame
<1>3. Known(sess) \subseteq Known(sess')
  BY <1>1, TouchGrows, GrownKnown
<1>4. quiet' \in 0..Window
  BY <1>2 DEF IInv, TypeOK
<1>5. QED  BY <1>1, <1>2, <1>3, <1>4, Waiting, TouchKeeps

(* A step on the jobs alone.                                               *)
LEMMA JobStep ==
  ASSUME IInv, NEW w \in Workers, NEW job \in Jobs, Goto(w, job), job.at # "mark",
         UNCHANGED <<sess, age, disk, quiet, closed, failures, restarts>>
  PROVE  IInv'
<1>1. Known(sess)' = Known(sess) /\ Known(sess') = Known(sess)
  BY DEF Known
<1>2. /\ work' \in [Workers -> Jobs]
      /\ \A v \in Workers : work'[v].at = "mark" => work'[v].id \in Known(sess')
  BY <1>1, GotoTyped
<1>3. TypeOK'
  BY <1>1, <1>2 DEF IInv, TypeOK
<1>4. QED  BY <1>3, RegistrySame DEF IInv

LEMMA OnlineCheckStep ==
  ASSUME IInv, NEW w \in Workers, NEW d \in Devices, OnlineCheck(w, d)
  PROVE  IInv'
<1>1. /\ [at |-> "elsewhere", dev |-> d] \in Jobs
      /\ [at |-> "find", dev |-> d, play |-> TRUE] \in Jobs
  BY DEF Jobs
<1>2. QED  BY <1>1, JobStep DEF OnlineCheck, HistorySame

LEMMA HeartbeatStep ==
  ASSUME IInv, NEW w \in Workers, NEW d \in Devices, Heartbeat(w, d)
  PROVE  IInv'
<1>1. [at |-> "find", dev |-> d, play |-> FALSE] \in Jobs
  BY DEF Jobs
<1>2. QED  BY <1>1, JobStep DEF Heartbeat, HistorySame

LEMMA ElsewhereStep ==
  ASSUME IInv, NEW w \in Workers, Elsewhere(w)
  PROVE  IInv'
<1>1. work[w].dev \in Devices
  BY DEF IInv, TypeOK, Jobs, Idle, Elsewhere
<1>2. [at |-> "find", dev |-> work[w].dev, play |-> TRUE] \in Jobs
  BY <1>1 DEF Jobs
<1>3. Idle \in Jobs /\ Idle.at # "mark"
  BY DEF Jobs, Idle
<1>4. QED  BY <1>2, <1>3, JobStep DEF Elsewhere, HistorySame

(* Find and Create know the device they work for.                          *)
LEMMA JobOf ==
  ASSUME IInv, NEW w \in Workers, work[w].at \in {"find", "create"}
  PROVE  /\ work[w].dev \in Devices /\ work[w].play \in BOOLEAN
         /\ [work[w] EXCEPT !.at = "create"] \in Jobs
         /\ [work[w] EXCEPT !.at = "create"].at # "mark"
<1>1. work[w] \in [at : {"find", "create"}, dev : Devices, play : BOOLEAN]
  BY DEF IInv, TypeOK, Jobs, Idle
<1>2. QED  BY <1>1 DEF Jobs

LEMMA FindStep ==
  ASSUME IInv, NEW w \in Workers, Find(w)
  PROVE  IInv'
<1>1. /\ work[w].dev \in Devices /\ work[w].play \in BOOLEAN
      /\ [work[w] EXCEPT !.at = "create"] \in Jobs
      /\ [work[w] EXCEPT !.at = "create"].at # "mark"
  BY JobOf DEF Find
<1>2. CASE \E id \in Mine(work[w].dev) :
             Touch(id, work[w].play) /\ Answer(w)
  <2>1. PICK id \in Known(sess) :
          Touch(id, work[w].play) /\ Answer(w)
    BY <1>2 DEF Mine
  <2>2. Idle \in Jobs /\ Idle.at # "mark"
    BY DEF Jobs, Idle
  <2>3. Known(sess) \subseteq Known(sess')
    BY <1>1, <2>1, TouchGrows, GrownKnown
  <2>4. /\ work' \in [Workers -> Jobs]
        /\ \A v \in Workers : work'[v].at = "mark" => work'[v].id \in Known(sess')
    BY <2>1, <2>2, <2>3, GotoTyped DEF Answer
  <2>5. quiet' \in 0..Window
    BY <2>1, HeardTyped DEF Answer
  <2>6. UNCHANGED <<disk, closed, failures, restarts>>
    BY <2>1 DEF Find, Answer
  <2>7. QED  BY <1>1, <2>1, <2>4, <2>5, <2>6, TouchKeeps
<1>3. CASE /\ Goto(w, [work[w] EXCEPT !.at = "create"])
           /\ HistorySame /\ UNCHANGED <<sess, age>>
  BY <1>1, <1>3, JobStep DEF Find, HistorySame
<1>4. QED  BY <1>2, <1>3 DEF Find

LEMMA CreateStep ==
  ASSUME IInv, NEW w \in Workers, Create(w)
  PROVE  IInv'
<1>1. work[w].dev \in Devices /\ work[w].dev \in Places
  BY JobOf DEF Create, Places
<1>2. PICK id \in Ids :
        /\ NewSession(id, work[w].dev)
        /\ \/ Goto(w, [at |-> "mark", dev |-> work[w].dev, id |-> id]) /\ HistorySame
           \/ Answer(w)
  BY DEF Create
<1>3. Known(sess) \subseteq Known(sess') /\ id \in Known(sess')
  BY <1>1, <1>2, NewSessionGrows, GrownKnown
<1>4. UNCHANGED <<closed, restarts>> /\ quiet' \in 0..Window
  BY <1>2, HeardTyped DEF Create, Answer, HistorySame, IInv, TypeOK
<1>5. /\ work' \in [Workers -> Jobs]
      /\ \A v \in Workers : work'[v].at = "mark" => work'[v].id \in Known(sess')
  <2>1. CASE Goto(w, [at |-> "mark", dev |-> work[w].dev, id |-> id])
    <3>1. [at |-> "mark", dev |-> work[w].dev, id |-> id] \in Jobs
      BY <1>1 DEF Jobs
    <3>2. QED  BY <1>3, <2>1, <3>1, GotoTyped
  <2>2. CASE Answer(w)
    <3>1. Idle \in Jobs /\ Idle.at # "mark"
      BY DEF Jobs, Idle
    <3>2. QED  BY <1>3, <2>2, <3>1, GotoTyped DEF Answer
  <2>3. QED  BY <1>2, <2>1, <2>2
<1>6. QED  BY <1>1, <1>2, <1>4, <1>5, NewSessionKeeps

LEMMA MarkStep ==
  ASSUME IInv, NEW w \in Workers, Mark(w)
  PROVE  IInv'
<1>1. work[w].id \in Known(sess) /\ work[w].dev \in Devices
  BY DEF Mark, IInv, TypeOK, Jobs, Idle
<1>2. Touch(work[w].id, TRUE) /\ Answer(w)
  BY DEF Mark
<1>3. Idle \in Jobs /\ Idle.at # "mark"
  BY DEF Jobs, Idle
<1>4. Known(sess) \subseteq Known(sess')
  BY <1>1, <1>2, TouchGrows, GrownKnown
<1>5. /\ work' \in [Workers -> Jobs]
      /\ \A v \in Workers : work'[v].at = "mark" => work'[v].id \in Known(sess')
  BY <1>2, <1>3, <1>4, GotoTyped DEF Answer
<1>6. quiet' \in 0..Window
  BY <1>2, HeardTyped DEF Answer
<1>7. UNCHANGED <<disk, closed, failures, restarts>>
  BY <1>2 DEF Mark, Answer
<1>8. QED  BY <1>1, <1>2, <1>5, <1>6, <1>7, TouchKeeps

LEMMA PresenceReportStep ==
  ASSUME IInv, PresenceReport
  PROVE  IInv'
<1>1. age' \in [Ids -> 0..Window] /\ quiet' \in 0..Window
  BY HeardTyped, BoundsAreNaturals DEF PresenceReport, IInv, TypeOK
<1>2. UNCHANGED <<sess, disk, work, closed, failures, restarts>>
  BY DEF PresenceReport
<1>3. QED  BY <1>1, <1>2, RegistrySame DEF IInv, TypeOK, Known

LEMMA TickStep ==
  ASSUME IInv, Tick
  PROVE  IInv'
<1>1. \A n \in 0..Window : Older(n) \in 0..Window
  BY BoundsAreNaturals DEF Older
<1>2. age' \in [Ids -> 0..Window]
  BY <1>1, BoundsAreNaturals DEF Tick, IInv, TypeOK
<1>3. quiet' \in 0..Window
  BY <1>1 DEF Tick, IInv, TypeOK
<1>4. UNCHANGED <<sess, disk, work, closed, failures, restarts>>
  BY DEF Tick
<1>5. QED  BY <1>2, <1>3, <1>4, RegistrySame DEF IInv, TypeOK, Known

(* A restart reads the file: it knows of every closing unless a write      *)
(* failed, and every session.                                              *)
LEMMA RestartStep ==
  ASSUME IInv, Restart
  PROVE  IInv'
<1>1. /\ sess' = disk /\ restarts' = restarts + 1 /\ restarts < MaxRestarts
      /\ age' \in [Ids -> 0..Window]
      /\ UNCHANGED <<disk, failures, closed>> /\ quiet' \in 0..Window
  BY HeardTyped DEF Restart
<1>2. \A w \in Workers : work'[w].at # "mark"
  BY DEF Restart, Idle
<1>3. work' \in [Workers -> Jobs]
  BY DEF Restart, Jobs
<1>4. restarts' \in 0..MaxRestarts /\ restarts' > 0
  BY <1>1, BoundsAreNaturals DEF IInv, TypeOK
<1>5. TypeOK'
  BY <1>1, <1>2, <1>3, <1>4 DEF IInv, TypeOK
<1>6. ClosedStaysClosed'
  BY <1>1, <1>4 DEF IInv, ClosedStaysClosed, Dead
<1>7. SessionsAreSaved'
  BY <1>1 DEF SessionsAreSaved, Known
<1>8. QED  BY <1>5, <1>6, <1>7 DEF IInv

-----------------------------------------------------------------------------
(* The theorems.                                                           *)

LEMMA Initially == Init => IInv
BY BoundsAreNaturals DEF Init, IInv, TypeOK, Registry, Jobs, Idle, ClosedStaysClosed,
   SessionsAreSaved, Known

LEMMA Inductive ==
  ASSUME IInv, [Next]_vars
  PROVE  IInv'
<1>1. CASE Flush                     BY <1>1, FlushStep
<1>2. CASE Login                     BY <1>2, LoginStep
<1>3. CASE Revoke                    BY <1>3, RevokeStep
<1>4. CASE Tick                      BY <1>4, TickStep
<1>5. CASE Restart                   BY <1>5, RestartStep
<1>6. CASE \E id \in Ids : SessionValid(id)
  BY <1>6, SessionValidStep
<1>7. CASE PresenceReport            BY <1>7, PresenceReportStep
<1>8. CASE \E w \in Workers, d \in Devices : OnlineCheck(w, d) \/ Heartbeat(w, d)
  BY <1>8, OnlineCheckStep, HeartbeatStep
<1>9. CASE \E w \in Workers : Elsewhere(w) \/ Find(w) \/ Create(w) \/ Mark(w)
  BY <1>9, ElsewhereStep, FindStep, CreateStep, MarkStep
<1>10. CASE UNCHANGED vars
  BY <1>10, RegistrySame DEF vars, IInv, TypeOK, Known
<1>11. QED
  BY <1>1, <1>2, <1>3, <1>4, <1>5, <1>6, <1>7, <1>8, <1>9, <1>10 DEF Next

(* The three facts hold together in every reachable state.                 *)
THEOREM Invariance == Spec => []IInv
BY Initially, Inductive, PTL DEF Spec

(* Sessions, jobs and counters have their types, and a session that is to  *)
(* be marked as playing is there (upsertPlaySession after newSession).     *)
THEOREM TypeCorrect == Spec => []TypeOK
<1>1. IInv => TypeOK  BY DEF IInv
<1>2. QED  BY <1>1, Invariance, PTL

(* A session the site was told is revoked is revoked for good, whatever    *)
(* requests were working on it (revokeSession, revokeAllForPID).           *)
THEOREM RevocationIsFinal == Spec => []ClosedStaysClosed
<1>1. IInv => ClosedStaysClosed  BY DEF IInv
<1>2. QED  BY <1>1, Invariance, PTL

(* A session is in the file before its id leaves (newSession).             *)
THEOREM SavedFirst == Spec => []SessionsAreSaved
<1>1. IInv => SessionsAreSaved  BY DEF IInv
<1>2. QED  BY <1>1, Invariance, PTL

-----------------------------------------------------------------------------
(* The gate.  A session in play was seen no later than the account was     *)
(* heard of: only devices have playing sessions, and whatever makes or     *)
(* finds one of them playing is an answer to a device.                     *)

PlaysOnDevices(r) ==
  \A id \in Ids : r[id] # Absent /\ r[id].playing => r[id].dev \in Devices

MarksDevices ==
  \A w \in Workers : work[w].at = "mark" => sess[work[w].id].dev \in Devices

SeenSinceHeard == \A id \in InPlay(sess) : quiet <= age[id]

UInv ==
  /\ IInv
  /\ PlaysOnDevices(sess) /\ PlaysOnDevices(disk)
  /\ MarksDevices /\ SeenSinceHeard

(* What a step does to the sessions that play.                             *)
NoNewPlayer ==
  \A i \in Ids : sess'[i] # Absent /\ sess'[i].playing =>
    sess[i] # Absent /\ sess[i].playing /\ sess'[i].dev = sess[i].dev

(* The file is the old one or the registry.                                *)
LEMMA DiskPlays ==
  ASSUME PlaysOnDevices(disk), PlaysOnDevices(sess'), Persist
  PROVE  PlaysOnDevices(disk')
BY DEF PlaysOnDevices, Persist

LEMMA NoNewPlayerPlays ==
  ASSUME UInv, NoNewPlayer
  PROVE  PlaysOnDevices(sess')
BY DEF UInv, PlaysOnDevices, NoNewPlayer

(* Marks stay on devices as long as sessions keep theirs.                  *)
LEMMA MarksStay ==
  ASSUME UInv, Grows,
         \A w \in Workers : work'[w] = work[w] \/ work'[w].at # "mark"
  PROVE  MarksDevices'
<1>1. \A w \in Workers : work[w].at = "mark" => work[w].id \in Known(sess)
  BY DEF UInv, IInv, TypeOK
<1>2. QED  BY <1>1 DEF UInv, MarksDevices, Grows, Known

(* A session just heard of makes the ages irrelevant.                      *)
LEMMA JustHeard ==
  ASSUME IInv', quiet' = 0
  PROVE  SeenSinceHeard'
BY BoundsAreNaturals DEF IInv, TypeOK, SeenSinceHeard, InPlay, Known

(* Touch.                                                                  *)
LEMMA TouchPlays ==
  ASSUME IInv, NEW id \in Known(sess), NEW play \in BOOLEAN, Touch(id, play)
  PROVE  /\ \A i \in Ids \ {id} : sess'[i] = sess[i] /\ age'[i] = age[i]
         /\ sess'[id].dev = sess[id].dev
         /\ sess'[id].playing <=> (sess[id].playing \/ play)
<1>1. id \in Ids /\ sess[id] \in Session
  BY DEF Known, IInv, TypeOK, Registry
<1>2. sess'[id] = [sess[id] EXCEPT !.playing = sess[id].playing \/ play]
  BY <1>1 DEF Touch, IInv, TypeOK, Registry
<1>3. \A i \in Ids \ {id} : sess'[i] = sess[i] /\ age'[i] = age[i]
  BY <1>1 DEF Touch, IInv, TypeOK, Registry
<1>4. sess'[id].dev = sess[id].dev /\ (sess'[id].playing <=> (sess[id].playing \/ play))
  BY <1>1, <1>2 DEF Session
<1>5. QED  BY <1>3, <1>4

LEMMA NewPlaysNot ==
  ASSUME IInv, NEW id \in Ids, NEW d \in Places, NewSession(id, d)
  PROVE  /\ sess'[id].dev = d /\ ~sess'[id].playing /\ sess[id] = Absent
         /\ \A i \in Ids \ {id} : sess'[i] = sess[i] /\ age'[i] = age[i]
BY DEF NewSession, IInv, TypeOK, Registry

LEMMA FlushUse ==
  ASSUME UInv, Flush
  PROVE  UInv'
<1>1. UNCHANGED <<sess, age, quiet, work>> /\ Persist
  BY DEF Flush, HistorySame
<1>2. IInv'
  BY FlushStep DEF UInv
<1>3. PlaysOnDevices(disk)'
  BY <1>1 DEF UInv, PlaysOnDevices, Persist
<1>4. QED  BY <1>1, <1>2, <1>3 DEF UInv, PlaysOnDevices, MarksDevices, SeenSinceHeard, InPlay, Known

(* A new session plays nothing yet; the ages of the others stay.           *)
LEMMA NewSessionUse ==
  ASSUME UInv, IInv', NEW id \in Ids, NEW d \in Places, NewSession(id, d),
         \/ UNCHANGED quiet
         \/ quiet' = 0,
         MarksDevices'
  PROVE  UInv'
<1>1. /\ sess'[id].dev = d /\ ~sess'[id].playing /\ sess[id] = Absent
      /\ \A i \in Ids \ {id} : sess'[i] = sess[i] /\ age'[i] = age[i]
  BY NewPlaysNot DEF UInv
<1>2. NoNewPlayer
  BY <1>1 DEF NoNewPlayer
<1>3. PlaysOnDevices(sess')
  BY <1>2, NoNewPlayerPlays
<1>4. PlaysOnDevices(disk')
  BY <1>3, DiskPlays DEF UInv, NewSession
<1>5. SeenSinceHeard'
  <2>1. CASE quiet' = 0
    BY <2>1, JustHeard
  <2>2. CASE UNCHANGED quiet
    BY <1>1, <2>2 DEF UInv, SeenSinceHeard, InPlay, Known
  <2>3. QED  BY <2>1, <2>2
<1>6. QED  BY <1>3, <1>4, <1>5 DEF UInv, PlaysOnDevices

LEMMA LoginUse ==
  ASSUME UInv, Login
  PROVE  UInv'
<1>1. PICK id \in Ids : NewSession(id, Browser)
  BY DEF Login
<1>2. Browser \in Places
  BY DEF Places
<1>3. Grows /\ UNCHANGED <<work, quiet>>
  BY <1>1, <1>2, NewSessionGrows DEF Login, HistorySame, UInv
<1>4. MarksDevices'
  BY <1>3, MarksStay
<1>5. IInv'
  BY LoginStep DEF UInv
<1>6. QED  BY <1>1, <1>2, <1>3, <1>4, <1>5, NewSessionUse

LEMMA RevokeUse ==
  ASSUME UInv, Revoke
  PROVE  UInv'
<1>1. PICK S \in SUBSET Known(sess) : Close(S)
  BY DEF Revoke
<1>2. UNCHANGED <<work, quiet, age>>
  BY <1>1 DEF Revoke, Close
<1>3. Grows /\ Persist
  BY <1>1, CloseGrows DEF UInv
<1>4. \A id \in S : id \in Ids /\ sess[id] \in Session
  BY DEF Known, UInv, IInv, TypeOK, Registry
<1>5. \A id \in S : sess'[id] = [sess[id] EXCEPT !.revoked = TRUE]
  BY <1>1, <1>4 DEF Close
<1>6. \A id \in S : /\ sess'[id].dev = sess[id].dev /\ sess'[id].revoked
                     /\ (sess'[id].playing <=> sess[id].playing)
  BY <1>4, <1>5 DEF Session
<1>7. \A id \in Ids \ S : sess'[id] = sess[id]
  BY <1>1 DEF Close
<1>8. NoNewPlayer
  BY <1>6, <1>7 DEF NoNewPlayer, Known
<1>9. PlaysOnDevices(sess')
  BY <1>8, NoNewPlayerPlays
<1>10. PlaysOnDevices(disk')
  BY <1>3, <1>9, DiskPlays DEF UInv
<1>11. SeenSinceHeard'
  BY <1>2, <1>6, <1>7 DEF UInv, SeenSinceHeard, InPlay, Known
<1>12. MarksDevices'
  BY <1>2, <1>3, MarksStay
<1>13. IInv'
  BY RevokeStep DEF UInv
<1>14. QED  BY <1>9, <1>10, <1>11, <1>12, <1>13 DEF UInv, PlaysOnDevices

(* A browser's session does not play, so touching it hides no age.         *)
LEMMA SessionValidUse ==
  ASSUME UInv, NEW id \in Ids, SessionValid(id)
  PROVE  UInv'
<1>1. id \in Known(sess) /\ Touch(id, FALSE) /\ sess[id].dev = Browser
  BY DEF SessionValid, Mine
<1>2. ~sess[id].playing
  BY <1>1, BrowserIsNoDevice DEF UInv, PlaysOnDevices, Known
<1>3. /\ \A i \in Ids \ {id} : sess'[i] = sess[i] /\ age'[i] = age[i]
      /\ sess'[id].dev = sess[id].dev /\ ~sess'[id].playing
  BY <1>1, <1>2, TouchPlays DEF UInv
<1>4. UNCHANGED <<disk, work, quiet>>
  BY DEF SessionValid, HistorySame
<1>5. Grows
  BY <1>1, TouchGrows DEF UInv
<1>6. NoNewPlayer
  BY <1>3 DEF NoNewPlayer
<1>7. PlaysOnDevices(sess')
  BY <1>6, NoNewPlayerPlays
<1>8. SeenSinceHeard'
  BY <1>3, <1>4 DEF UInv, SeenSinceHeard, InPlay, Known
<1>9. MarksDevices'
  BY <1>4, <1>5, MarksStay
<1>10. IInv'
  BY SessionValidStep DEF UInv
<1>11. QED  BY <1>4, <1>7, <1>8, <1>9, <1>10 DEF UInv, PlaysOnDevices

(* Steps that only set a job to anything but a mark.                       *)
LEMMA JobUse ==
  ASSUME UInv, IInv', UNCHANGED <<sess, age, disk, quiet>>,
         \A w \in Workers : work'[w] = work[w] \/ work'[w].at # "mark"
  PROVE  UInv'
<1>1. MarksDevices'
  BY DEF UInv, MarksDevices
<1>2. QED  BY <1>1 DEF UInv, PlaysOnDevices, SeenSinceHeard, InPlay, Known

LEMMA GotoOthers ==
  ASSUME IInv, NEW w \in Workers, NEW job \in Jobs, Goto(w, job), job.at # "mark"
  PROVE  \A v \in Workers : work'[v] = work[v] \/ work'[v].at # "mark"
BY DEF IInv, TypeOK, Goto

LEMMA AskUse ==
  ASSUME UInv, NEW w \in Workers, NEW d \in Devices,
         OnlineCheck(w, d) \/ Heartbeat(w, d)
  PROVE  UInv'
<1>1. IInv'
  BY OnlineCheckStep, HeartbeatStep DEF UInv
<1>2. PICK job \in Jobs : Goto(w, job) /\ job.at # "mark"
  <2>1. /\ [at |-> "elsewhere", dev |-> d] \in Jobs
        /\ \A play \in BOOLEAN : [at |-> "find", dev |-> d, play |-> play] \in Jobs
    BY DEF Jobs
  <2>2. CASE Goto(w, [at |-> "elsewhere", dev |-> d])
    BY <2>1, <2>2
  <2>3. CASE \E play \in BOOLEAN : Goto(w, [at |-> "find", dev |-> d, play |-> play])
    BY <2>1, <2>3
  <2>4. QED  BY <2>2, <2>3 DEF OnlineCheck, Heartbeat
<1>3. UNCHANGED <<sess, age, disk, quiet>>
  BY DEF OnlineCheck, Heartbeat, HistorySame
<1>4. QED  BY <1>1, <1>2, <1>3, GotoOthers, JobUse DEF UInv

LEMMA ElsewhereUse ==
  ASSUME UInv, NEW w \in Workers, Elsewhere(w)
  PROVE  UInv'
<1>1. IInv'
  BY ElsewhereStep DEF UInv
<1>2. work[w].dev \in Devices
  BY DEF UInv, IInv, TypeOK, Jobs, Idle, Elsewhere
<1>3. PICK job \in Jobs : Goto(w, job) /\ job.at # "mark"
  <2>1. [at |-> "find", dev |-> work[w].dev, play |-> TRUE] \in Jobs
    BY <1>2 DEF Jobs
  <2>2. Idle \in Jobs /\ Idle.at # "mark"
    BY DEF Jobs, Idle
  <2>3. QED  BY <2>1, <2>2 DEF Elsewhere
<1>4. UNCHANGED <<sess, age, disk, quiet>>
  BY DEF Elsewhere, HistorySame
<1>5. QED  BY <1>1, <1>3, <1>4, GotoOthers, JobUse DEF UInv

(* A device's session touched by an answer to the device.                  *)
LEMMA AnswerUse ==
  ASSUME UInv, IInv', NEW id \in Known(sess), NEW play \in BOOLEAN, Touch(id, play),
         sess[id].dev \in Devices, NEW w \in Workers, Answer(w), UNCHANGED disk
  PROVE  UInv'
<1>1. /\ \A i \in Ids \ {id} : sess'[i] = sess[i]
      /\ sess'[id].dev = sess[id].dev
  BY TouchPlays DEF UInv
<1>2. PlaysOnDevices(sess')
  BY <1>1 DEF UInv, PlaysOnDevices
<1>3. Idle \in Jobs /\ Idle.at # "mark"
  BY DEF Jobs, Idle
<1>4. \A v \in Workers : work'[v] = work[v] \/ work'[v].at # "mark"
  BY <1>3, GotoOthers DEF Answer, UInv
<1>5. Grows
  BY TouchGrows DEF UInv
<1>6. MarksDevices'
  BY <1>4, <1>5, MarksStay
<1>7. SeenSinceHeard'
  BY JustHeard DEF Answer
<1>8. QED  BY <1>2, <1>6, <1>7 DEF UInv, PlaysOnDevices

LEMMA FindUse ==
  ASSUME UInv, NEW w \in Workers, Find(w)
  PROVE  UInv'
<1>1. /\ work[w].dev \in Devices /\ work[w].play \in BOOLEAN
      /\ [work[w] EXCEPT !.at = "create"] \in Jobs
      /\ [work[w] EXCEPT !.at = "create"].at # "mark"
  BY JobOf DEF Find, UInv
<1>2. IInv'
  BY FindStep DEF UInv
<1>3. CASE \E id \in Mine(work[w].dev) : Touch(id, work[w].play) /\ Answer(w)
  <2>1. PICK id \in Known(sess) :
          sess[id].dev = work[w].dev /\ Touch(id, work[w].play) /\ Answer(w)
    BY <1>3 DEF Mine
  <2>2. UNCHANGED disk
    BY DEF Find
  <2>3. QED  BY <1>1, <1>2, <2>1, <2>2, AnswerUse
<1>4. CASE /\ Goto(w, [work[w] EXCEPT !.at = "create"])
           /\ HistorySame /\ UNCHANGED <<sess, age>>
  <2>1. UNCHANGED <<sess, age, disk, quiet>>
    BY <1>4 DEF Find, HistorySame
  <2>2. QED  BY <1>1, <1>2, <1>4, <2>1, GotoOthers, JobUse DEF UInv
<1>5. QED  BY <1>3, <1>4 DEF Find

LEMMA CreateUse ==
  ASSUME UInv, NEW w \in Workers, Create(w)
  PROVE  UInv'
<1>1. work[w].dev \in Devices /\ work[w].dev \in Places
  BY JobOf DEF Create, Places, UInv
<1>2. PICK id \in Ids :
        /\ NewSession(id, work[w].dev)
        /\ \/ Goto(w, [at |-> "mark", dev |-> work[w].dev, id |-> id]) /\ HistorySame
           \/ Answer(w)
  BY DEF Create
<1>3. Grows
  BY <1>1, <1>2, NewSessionGrows DEF UInv
<1>4. sess'[id].dev \in Devices
  BY <1>1, <1>2, NewPlaysNot DEF UInv
<1>5. IInv'
  BY CreateStep DEF UInv
<1>6. MarksDevices'
  <2>1. CASE Goto(w, [at |-> "mark", dev |-> work[w].dev, id |-> id])
    <3>1. \A v \in Workers \ {w} : work'[v] = work[v]
      BY <2>1 DEF Goto, UInv, IInv, TypeOK
    <3>2. work'[w] = [at |-> "mark", dev |-> work[w].dev, id |-> id]
      BY <2>1 DEF Goto, UInv, IInv, TypeOK
    <3>3. \A v \in Workers \ {w} : work[v].at = "mark" => sess'[work[v].id].dev \in Devices
      BY <1>3 DEF UInv, IInv, TypeOK, MarksDevices, Grows
    <3>4. QED  BY <1>4, <3>1, <3>2, <3>3 DEF MarksDevices
  <2>2. CASE Answer(w)
    <3>1. Idle \in Jobs /\ Idle.at # "mark"
      BY DEF Jobs, Idle
    <3>2. QED  BY <1>3, <2>2, <3>1, GotoOthers, MarksStay DEF Answer, UInv
  <2>3. QED  BY <1>2, <2>1, <2>2
<1>7. UNCHANGED quiet \/ quiet' = 0
  BY <1>2 DEF Answer, HistorySame
<1>8. QED  BY <1>1, <1>2, <1>5, <1>6, <1>7, NewSessionUse

LEMMA MarkUse ==
  ASSUME UInv, NEW w \in Workers, Mark(w)
  PROVE  UInv'
<1>1. work[w].id \in Known(sess) /\ sess[work[w].id].dev \in Devices
  BY DEF Mark, UInv, IInv, TypeOK, MarksDevices
<1>2. Touch(work[w].id, TRUE) /\ Answer(w) /\ UNCHANGED disk
  BY DEF Mark
<1>3. IInv'
  BY MarkStep DEF UInv
<1>4. QED  BY <1>1, <1>2, <1>3, AnswerUse

LEMMA PresenceReportUse ==
  ASSUME UInv, PresenceReport
  PROVE  UInv'
<1>1. IInv'
  BY PresenceReportStep DEF UInv
<1>2. UNCHANGED <<sess, disk, work>> /\ quiet' = 0
  BY DEF PresenceReport
<1>3. QED  BY <1>1, <1>2, JustHeard DEF UInv, PlaysOnDevices, MarksDevices

(* A tick makes the sessions in play and the account equally older.        *)
LEMMA TickUse ==
  ASSUME UInv, Tick
  PROVE  UInv'
<1>1. IInv'
  BY TickStep DEF UInv
<1>2. UNCHANGED <<sess, disk, work>>
  BY DEF Tick
<1>3. \A m, n \in 0..Window : m <= n => Older(m) <= Older(n)
  BY BoundsAreNaturals DEF Older
<1>4. \A id \in InPlay(sess) : age'[id] = Older(age[id]) /\ age[id] \in 0..Window
  BY DEF Tick, InPlay, Known, UInv, IInv, TypeOK
<1>5. quiet' = Older(quiet) /\ quiet \in 0..Window
  BY DEF Tick, UInv, IInv, TypeOK
<1>6. SeenSinceHeard'
  BY <1>2, <1>3, <1>4, <1>5 DEF UInv, SeenSinceHeard, InPlay, Known
<1>7. QED  BY <1>1, <1>2, <1>6 DEF UInv, PlaysOnDevices, MarksDevices

LEMMA RestartUse ==
  ASSUME UInv, Restart
  PROVE  UInv'
<1>1. IInv'
  BY RestartStep DEF UInv
<1>2. sess' = disk /\ disk' = disk /\ quiet' = 0
  BY DEF Restart
<1>3. MarksDevices'
  BY DEF Restart, MarksDevices, Idle
<1>4. QED  BY <1>1, <1>2, <1>3, JustHeard DEF UInv, PlaysOnDevices

LEMMA UseInitially == Init => UInv
<1>1. Init => IInv
  BY Initially
<1>2. Init => PlaysOnDevices(sess) /\ PlaysOnDevices(disk)
  BY DEF Init, PlaysOnDevices
<1>3. Init => MarksDevices
  BY DEF Init, MarksDevices, Idle
<1>4. Init => SeenSinceHeard
  BY DEF Init, SeenSinceHeard, InPlay, Known
<1>5. QED  BY <1>1, <1>2, <1>3, <1>4 DEF UInv

LEMMA UseInductive ==
  ASSUME UInv, [Next]_vars
  PROVE  UInv'
<1>1. CASE Flush                     BY <1>1, FlushUse
<1>2. CASE Login                     BY <1>2, LoginUse
<1>3. CASE Revoke                    BY <1>3, RevokeUse
<1>4. CASE Tick                      BY <1>4, TickUse
<1>5. CASE Restart                   BY <1>5, RestartUse
<1>6. CASE PresenceReport            BY <1>6, PresenceReportUse
<1>7. CASE \E id \in Ids : SessionValid(id)
  BY <1>7, SessionValidUse
<1>8. CASE \E w \in Workers, d \in Devices : OnlineCheck(w, d) \/ Heartbeat(w, d)
  BY <1>8, AskUse
<1>9. CASE \E w \in Workers : Elsewhere(w) \/ Find(w) \/ Create(w) \/ Mark(w)
  BY <1>9, ElsewhereUse, FindUse, CreateUse, MarkUse
<1>10. CASE UNCHANGED vars
  <2>1. IInv'
    BY <1>10, Inductive DEF UInv
  <2>2. UNCHANGED <<sess, age, disk, quiet, work>>
    BY <1>10 DEF vars
  <2>3. QED  BY <2>1, <2>2, JobUse
<1>11. QED
  BY <1>1, <1>2, <1>3, <1>4, <1>5, <1>6, <1>7, <1>8, <1>9, <1>10 DEF Next

(* Only Elsewhere ends a job that waits for the registry's answer, and it  *)
(* refuses for a session in play that was seen within the window.          *)
LEMMA RefusalStep ==
  ASSUME UInv, [Next]_vars
  PROVE  RefusedWhileInUse
<1> SUFFICES ASSUME NEW w \in Workers,
                    work[w].at = "elsewhere", work'[w] = Idle, restarts' = restarts
             PROVE  quiet < Window
  BY DEF RefusedWhileInUse
<1>1. work[w] # Idle
  BY DEF Idle
<1>2. ~UNCHANGED work
  BY <1>1
<1>3. ~Restart
  BY BoundsAreNaturals DEF Restart, UInv, IInv, TypeOK
<1>4. ~\E v \in Workers, d \in Devices : OnlineCheck(v, d) \/ Heartbeat(v, d)
  BY <1>1 DEF OnlineCheck, Heartbeat, Goto, UInv, IInv, TypeOK, Idle
<1>5. ~\E v \in Workers : Find(v) \/ Create(v) \/ Mark(v)
  BY <1>1 DEF Find, Create, Mark, Answer, Goto, UInv, IInv, TypeOK, Idle
<1>6. ~\E id \in Ids : SessionValid(id)
  BY <1>2 DEF SessionValid
<1>7. ~(Flush \/ Login \/ Revoke \/ Tick \/ PresenceReport \/ UNCHANGED vars)
  BY <1>2 DEF Flush, Login, Revoke, Tick, PresenceReport, vars
<1>8. PICK v \in Workers : Elsewhere(v)
  BY <1>3, <1>4, <1>5, <1>6, <1>7 DEF Next
<1>9. v = w /\ Blocking(work[w].dev) # {}
  BY <1>1, <1>8 DEF Elsewhere, Goto, UInv, IInv, TypeOK, Idle
<1>10. PICK id \in InPlay(sess) : age[id] < Window
  BY <1>9 DEF Blocking
<1>11. quiet <= age[id] /\ age[id] \in 0..Window /\ quiet \in 0..Window
  BY DEF UInv, SeenSinceHeard, IInv, TypeOK, InPlay, Known
<1>12. QED  BY <1>10, <1>11, BoundsAreNaturals

(* A device is refused for another one only while the account was heard of *)
(* within the five minutes (activePlayElsewhere): whatever sessions are    *)
(* left marked as playing, a silent account is free.                       *)
THEOREM SilentAccountsAreFree == Spec => SilenceFreesThePlace
<1>1. UInv /\ [Next]_vars => UInv'
  BY UseInductive
<1>2. UInv /\ [Next]_vars => [RefusedWhileInUse]_vars
  BY RefusalStep
<1>3. QED  BY UseInitially, <1>1, <1>2, PTL DEF Spec, SilenceFreesThePlace
-----------------------------------------------------------------------------
(* How many sessions of one device pile up.  A request that finds none     *)
(* goes on to create one, and others may do so before it has: the sessions *)
(* there are and the requests about to create one are together never more  *)
(* than the requests there can be.  A restart serves the file, so what     *)
(* does not wait for the ticker must be the same there.                    *)
LiveOf(r, d) == {id \in Known(r) : r[id].dev = d /\ ~r[id].revoked}

Late(d) == {w \in Workers : work[w].at = "create" /\ work[w].dev = d}

SameBooks(r, q) ==
  \A id \in Ids :
    /\ r[id] = Absent <=> q[id] = Absent
    /\ r[id] # Absent => r[id].dev = q[id].dev /\ r[id].revoked = q[id].revoked

InStep == failures = 0 => SameBooks(disk, sess)

FewEnough(S, L) ==
  IsFiniteSet(S) /\ Cardinality(S) + Cardinality(L) <= Cardinality(Workers)

PilesOK ==
  failures = 0 \/ restarts = 0 => \A d \in Devices : FewEnough(LiveOf(sess, d), Late(d))

RInv == IInv /\ InStep /\ PilesOK

LEMMA LateIsFinite ==
  ASSUME NEW L \in SUBSET Workers
  PROVE  /\ IsFiniteSet(L) /\ Cardinality(L) \in Nat
         /\ Cardinality(L) <= Cardinality(Workers) /\ Cardinality(Workers) \in Nat
BY WorkersAreFinite, FS_Subset, FS_CardinalityType

(* Fewer sessions and fewer latecomers are still few enough.               *)
LEMMA Fewer ==
  ASSUME NEW S, NEW L \in SUBSET Workers, FewEnough(S, L), NEW T \in SUBSET S, NEW M \in SUBSET L
  PROVE  FewEnough(T, M)
<1>1. /\ IsFiniteSet(S) /\ IsFiniteSet(L)
      /\ Cardinality(S) + Cardinality(L) <= Cardinality(Workers)
  BY LateIsFinite DEF FewEnough
<1>2. /\ IsFiniteSet(T) /\ Cardinality(T) <= Cardinality(S)
      /\ Cardinality(M) <= Cardinality(L)
  BY <1>1, FS_Subset
<1>3. /\ Cardinality(S) \in Nat /\ Cardinality(T) \in Nat
      /\ Cardinality(L) \in Nat /\ Cardinality(M) \in Nat /\ Cardinality(Workers) \in Nat
  BY <1>1, <1>2, LateIsFinite, FS_CardinalityType
<1>4. QED  BY <1>1, <1>2, <1>3 DEF FewEnough

(* With no session at all every request may be late.                       *)
LEMMA NoneYet ==
  ASSUME NEW L \in SUBSET Workers
  PROVE  FewEnough({}, L)
BY LateIsFinite, FS_EmptySet DEF FewEnough

(* A latecomer becomes a session.                                          *)
LEMMA OneMore ==
  ASSUME NEW S, NEW L \in SUBSET Workers, FewEnough(S, L), NEW id, NEW w \in L
  PROVE  FewEnough(S \cup {id}, L \ {w})
<1>1. /\ IsFiniteSet(S) /\ IsFiniteSet(L)
      /\ Cardinality(S) + Cardinality(L) <= Cardinality(Workers)
  BY LateIsFinite DEF FewEnough
<1>2. /\ IsFiniteSet(S \cup {id})
      /\ Cardinality(S \cup {id}) \in {Cardinality(S), Cardinality(S) + 1}
  BY <1>1, FS_AddElement
<1>3. Cardinality(L \ {w}) = Cardinality(L) - 1
  BY <1>1, FS_RemoveElement
<1>4. /\ Cardinality(S) \in Nat /\ Cardinality(L) \in Nat /\ Cardinality(Workers) \in Nat
  BY <1>1, LateIsFinite, FS_CardinalityType
<1>5. Cardinality(S \cup {id}) + Cardinality(L \ {w}) <= Cardinality(Workers)
  BY <1>1, <1>2, <1>3, <1>4
<1>6. QED  BY <1>2, <1>5 DEF FewEnough

(* A step after which no device has more sessions or more latecomers.      *)
LEMMA PilesShrink ==
  ASSUME RInv, IInv', failures' = 0 \/ restarts' = 0 => failures = 0 \/ restarts = 0,
         \A d \in Devices : LiveOf(sess', d) \subseteq LiveOf(sess, d),
         \A d \in Devices : Late(d)' \subseteq Late(d)
  PROVE  PilesOK'
<1> SUFFICES ASSUME failures = 0 \/ restarts = 0, NEW d \in Devices
             PROVE  FewEnough(LiveOf(sess', d), Late(d)')
  BY DEF PilesOK, LiveOf, Known
<1>1. FewEnough(LiveOf(sess, d), Late(d)) /\ Late(d) \subseteq Workers
  BY DEF RInv, PilesOK, Late
<1>2. QED  BY <1>1, Fewer

LEMMA NobodyComesLate ==
  ASSUME IInv, UNCHANGED work \/ \E w \in Workers : \E job : Goto(w, job) /\ job.at # "create"
  PROVE  \A d \in Devices : Late(d)' \subseteq Late(d)
<1> SUFFICES ASSUME NEW d \in Devices, NEW v \in Workers,
                    work'[v].at = "create", work'[v].dev = d
             PROVE  work[v].at = "create" /\ work[v].dev = d
  BY DEF Late
<1>1. CASE UNCHANGED work
  BY <1>1
<1>2. ASSUME NEW w \in Workers, NEW job, Goto(w, job), job.at # "create"
      PROVE  work'[v] = work[v]
  BY <1>2 DEF Goto, IInv, TypeOK
<1>3. QED  BY <1>1, <1>2

(* A registry that grows by no session of a device has no more of it.      *)
LEMMA NoMoreOf ==
  ASSUME Grows, NEW d, \A id \in Ids : sess'[id] # Absent /\ sess[id] = Absent => sess'[id].dev # d
  PROVE  LiveOf(sess', d) \subseteq LiveOf(sess, d)
BY DEF Grows, LiveOf, Known, Dead

(* What a ticker may still have to write is not in these books.            *)
LEMMA TouchIsNotBooked ==
  ASSUME IInv, NEW id \in Known(sess), NEW play \in BOOLEAN, Touch(id, play)
  PROVE  /\ \A r : SameBooks(r, sess) => SameBooks(r, sess')
         /\ \A d : LiveOf(sess', d) \subseteq LiveOf(sess, d)
<1>1. Grows /\ \A i \in Ids : sess'[i] # Absent => sess[i] # Absent
  BY TouchGrows
<1>2. id \in Ids /\ sess[id] \in Session
  BY DEF Known, IInv, TypeOK, Registry
<1>3. sess' = [sess EXCEPT ![id] = [sess[id] EXCEPT !.playing = sess[id].playing \/ play]]
  BY <1>2 DEF Touch, IInv, TypeOK, Registry
<1>4. \A i \in Ids : sess[i] # Absent =>
        sess'[i].dev = sess[i].dev /\ sess'[i].revoked = sess[i].revoked
  BY <1>2, <1>3 DEF Session, IInv, TypeOK, Registry
<1>5. \A i \in Ids : sess'[i] = Absent <=> sess[i] = Absent
  BY <1>1 DEF Grows, Known
<1>6. QED  BY <1>1, <1>4, <1>5, NoMoreOf DEF SameBooks

LEMMA PersistBooks ==
  ASSUME IInv, InStep, Persist
  PROVE  InStep'
<1>1. CASE disk' = sess'
  BY <1>1 DEF InStep, SameBooks
<1>2. CASE failures' = failures + 1
  BY <1>2, BoundsAreNaturals DEF InStep, IInv, TypeOK
<1>3. QED  BY <1>1, <1>2 DEF Persist

LEMMA CountersGrow ==
  ASSUME IInv, [Next]_vars
  PROVE  failures' = 0 \/ restarts' = 0 => failures = 0 \/ restarts = 0
<1>1. failures \in Nat /\ restarts \in Nat
  BY DEF IInv, TypeOK
<1>2. failures' \in {failures, failures + 1} /\ restarts' \in {restarts, restarts + 1}
  BY DEF Next, vars, Flush, Login, Revoke, PresenceReport, Tick, Restart, SessionValid,
         OnlineCheck, Heartbeat, Elsewhere, Find, Create, Mark, NewSession, Close, Persist
<1>3. QED  BY <1>1, <1>2

-----------------------------------------------------------------------------
(* Steps that touch no session's place in the books.                       *)
LEMMA QuietPiles ==
  ASSUME RInv, IInv', [Next]_vars, UNCHANGED <<sess, disk, failures>>,
         \A d \in Devices : Late(d)' \subseteq Late(d)
  PROVE  RInv'
<1>1. InStep'
  BY DEF RInv, InStep
<1>2. PilesOK'
  <2>1. failures' = 0 \/ restarts' = 0 => failures = 0 \/ restarts = 0
    BY CountersGrow DEF RInv
  <2>2. QED  BY <2>1, PilesShrink
<1>3. QED  BY <1>1, <1>2 DEF RInv

LEMMA TouchPiles ==
  ASSUME RInv, IInv', [Next]_vars, NEW id \in Known(sess), NEW play \in BOOLEAN, Touch(id, play),
         UNCHANGED <<disk, failures>>, \A d \in Devices : Late(d)' \subseteq Late(d)
  PROVE  RInv'
<1>1. /\ \A r : SameBooks(r, sess) => SameBooks(r, sess')
      /\ \A d : LiveOf(sess', d) \subseteq LiveOf(sess, d)
  BY TouchIsNotBooked DEF RInv
<1>2. InStep'
  BY <1>1 DEF RInv, InStep
<1>3. PilesOK'
  BY <1>1, CountersGrow, PilesShrink DEF RInv
<1>4. QED  BY <1>2, <1>3 DEF RInv

LEMMA PersistPiles ==
  ASSUME RInv, IInv', [Next]_vars, Persist, Grows, UNCHANGED work,
         \A id \in Ids : sess'[id] # Absent /\ sess[id] = Absent => sess'[id].dev \notin Devices
  PROVE  RInv'
<1>1. InStep'
  BY PersistBooks DEF RInv
<1>2. \A d \in Devices : LiveOf(sess', d) \subseteq LiveOf(sess, d)
  BY NoMoreOf
<1>3. \A d \in Devices : Late(d)' \subseteq Late(d)
  BY NobodyComesLate DEF RInv
<1>4. PilesOK'
  BY <1>2, <1>3, CountersGrow, PilesShrink DEF RInv
<1>5. QED  BY <1>1, <1>4 DEF RInv

LEMMA FlushPiles ==
  ASSUME RInv, IInv', [Next]_vars, Flush
  PROVE  RInv'
<1>1. UNCHANGED <<sess, work>> /\ Persist
  BY DEF Flush
<1>2. Grows
  BY <1>1 DEF Grows, RInv, IInv, TypeOK, Dead, Known
<1>3. QED  BY <1>1, <1>2, PersistPiles

LEMMA LoginPiles ==
  ASSUME RInv, IInv', [Next]_vars, Login
  PROVE  RInv'
<1>1. PICK id \in Ids : NewSession(id, Browser)
  BY DEF Login
<1>2. Grows /\ Persist
  BY <1>1, NewSessionGrows DEF RInv, Places
<1>3. \A i \in Ids : sess'[i] # Absent /\ sess[i] = Absent => sess'[i].dev = Browser
  BY <1>1 DEF NewSession, RInv, IInv, TypeOK, Registry
<1>4. UNCHANGED work
  BY DEF Login
<1>5. QED  BY <1>2, <1>3, <1>4, BrowserIsNoDevice, PersistPiles

LEMMA RevokePiles ==
  ASSUME RInv, IInv', [Next]_vars, Revoke
  PROVE  RInv'
<1>1. PICK S \in SUBSET Known(sess) : Close(S)
  BY DEF Revoke, Known
<1>2. Grows /\ Persist
  BY <1>1, CloseGrows DEF RInv
<1>3. \A i \in Ids : sess[i] = Absent => sess'[i] = Absent
  BY <1>1 DEF Close, Known
<1>4. UNCHANGED work
  BY DEF Revoke
<1>5. QED  BY <1>2, <1>3, <1>4, PersistPiles

LEMMA FindPiles ==
  ASSUME RInv, IInv', [Next]_vars, NEW w \in Workers, Find(w)
  PROVE  RInv'
<1> DEFINE d == work[w].dev
<1>1. /\ d \in Devices /\ work[w].play \in BOOLEAN /\ Idle.at # "create"
  BY JobOf DEF Find, RInv, Idle
<1>2. CASE \E id \in Mine(d) : Touch(id, work[w].play) /\ Answer(w)
  <2>1. PICK id \in Known(sess) : Touch(id, work[w].play) /\ Goto(w, Idle)
    BY <1>2 DEF Mine, Answer
  <2>2. \A e \in Devices : Late(e)' \subseteq Late(e)
    BY <1>1, <2>1, NobodyComesLate DEF RInv
  <2>3. UNCHANGED <<disk, failures>>
    BY DEF Find
  <2>4. QED  BY <1>1, <2>1, <2>2, <2>3, TouchPiles
<1>3. CASE Mine(d) = {} /\ Goto(w, [work[w] EXCEPT !.at = "create"]) /\ UNCHANGED <<sess, age>>
  <2>1. UNCHANGED <<sess, disk, failures, restarts>>
    BY <1>3 DEF Find
  <2>2. InStep'
    BY <2>1 DEF RInv, InStep
  <2>3. LiveOf(sess, d) = {}
    BY <1>3 DEF Mine, LiveOf
  <2>4. \A v \in Workers \ {w} : work'[v] = work[v]
    BY <1>3 DEF Goto, RInv, IInv, TypeOK
  <2>5. work'[w].dev = d
    <3>1. work[w] \in [at : {"find"}, dev : Devices, play : BOOLEAN]
      BY DEF Find, RInv, IInv, TypeOK, Jobs, Idle
    <3>2. [work[w] EXCEPT !.at = "create"].dev = d
      BY <3>1
    <3>3. QED  BY <1>3, <3>2 DEF Goto, RInv, IInv, TypeOK
  <2>6. PilesOK'
    <3> SUFFICES ASSUME failures = 0 \/ restarts = 0, NEW e \in Devices
                 PROVE  FewEnough(LiveOf(sess, e), Late(e)')
      BY <2>1 DEF PilesOK, LiveOf, Known
    <3>1. CASE e = d
      <4>1. Late(e)' \subseteq Workers
        BY DEF Late
      <4>2. QED  BY <2>3, <3>1, <4>1, NoneYet
    <3>2. CASE e # d
      <4>1. Late(e)' \subseteq Late(e) /\ Late(e) \subseteq Workers
        BY <2>4, <2>5, <3>2 DEF Late
      <4>2. FewEnough(LiveOf(sess, e), Late(e))
        BY DEF RInv, PilesOK
      <4>3. QED  BY <4>1, <4>2, Fewer
    <3>3. QED  BY <3>1, <3>2
  <2>7. QED  BY <2>2, <2>6 DEF RInv
<1>4. QED  BY <1>2, <1>3 DEF Find

LEMMA CreatePiles ==
  ASSUME RInv, IInv', [Next]_vars, NEW w \in Workers, Create(w)
  PROVE  RInv'
<1> DEFINE d == work[w].dev
<1>1. d \in Devices /\ d \in Places /\ work[w].at = "create"
  BY JobOf DEF Create, RInv, Places
<1>2. PICK id \in Ids :
        /\ NewSession(id, d)
        /\ \/ Goto(w, [at |-> "mark", dev |-> d, id |-> id])
           \/ Goto(w, Idle)
  BY DEF Create, Answer
<1>3. Grows /\ Persist
  BY <1>1, <1>2, NewSessionGrows DEF RInv
<1>4. InStep'
  BY <1>3, PersistBooks DEF RInv
<1>5. \A i \in Ids : sess'[i] # Absent /\ sess[i] = Absent => i = id /\ sess'[i].dev = d
  BY <1>2 DEF NewSession, RInv, IInv, TypeOK, Registry
<1>6. work'[w].at # "create" /\ \A v \in Workers \ {w} : work'[v] = work[v]
  BY <1>2 DEF Goto, Idle, RInv, IInv, TypeOK
<1>7. LiveOf(sess', d) \subseteq LiveOf(sess, d) \cup {id}
  BY <1>3, <1>5 DEF Grows, LiveOf, Known, Dead
<1>8. PilesOK'
  <2> SUFFICES ASSUME failures' = 0 \/ restarts' = 0, NEW e \in Devices
               PROVE  FewEnough(LiveOf(sess', e), Late(e)')
    BY DEF PilesOK, LiveOf, Known
  <2>1. FewEnough(LiveOf(sess, e), Late(e)) /\ Late(e) \subseteq Workers
    BY CountersGrow DEF RInv, PilesOK, Late
  <2>2. CASE e = d
    <3>1. w \in Late(e) /\ Late(e)' \subseteq Late(e) \ {w}
      BY <1>1, <1>6, <2>2 DEF Late
    <3>2. FewEnough(LiveOf(sess, e) \cup {id}, Late(e) \ {w}) /\ Late(e) \ {w} \subseteq Workers
      BY <2>1, <3>1, OneMore
    <3>3. QED  BY <1>7, <2>2, <3>1, <3>2, Fewer
  <2>3. CASE e # d
    <3>1. LiveOf(sess', e) \subseteq LiveOf(sess, e)
      BY <1>3, <1>5, <2>3, NoMoreOf
    <3>2. Late(e)' \subseteq Late(e)
      BY <1>6 DEF Late
    <3>3. QED  BY <2>1, <3>1, <3>2, Fewer
  <2>4. QED  BY <2>2, <2>3
<1>9. QED  BY <1>4, <1>8 DEF RInv

(* The file is the registry but for what the ticker writes, or a write     *)
(* failed and the process is not the first any more.                       *)
LEMMA RestartPiles ==
  ASSUME RInv, IInv', Restart
  PROVE  RInv'
<1>1. sess' = disk /\ disk' = disk /\ failures' = failures /\ restarts' = restarts + 1
  BY DEF Restart
<1>2. InStep'
  BY <1>1 DEF InStep, SameBooks
<1>3. \A d \in Devices : Late(d)' = {}
  BY DEF Restart, Late, Idle
<1>4. restarts' # 0
  BY <1>1 DEF RInv, IInv, TypeOK
<1>5. PilesOK'
  <2> SUFFICES ASSUME failures = 0, NEW d \in Devices
               PROVE  FewEnough(LiveOf(sess', d), Late(d)')
    BY <1>1, <1>4 DEF PilesOK, LiveOf, Known
  <2>1. FewEnough(LiveOf(sess, d), Late(d)) /\ Late(d) \subseteq Workers
    BY DEF RInv, PilesOK, Late
  <2>2. SameBooks(disk, sess)
    BY DEF RInv, InStep
  <2>3. LiveOf(sess', d) \subseteq LiveOf(sess, d)
    BY <1>1, <2>2 DEF SameBooks, LiveOf, Known
  <2>4. QED  BY <1>3, <2>1, <2>3, Fewer
<1>6. QED  BY <1>2, <1>5 DEF RInv

LEMMA PilesInitially == Init => RInv
<1> SUFFICES ASSUME Init PROVE RInv
  OBVIOUS
<1>1. InStep
  BY DEF Init, InStep, SameBooks
<1>2. PilesOK
  <2> SUFFICES ASSUME NEW d \in Devices PROVE FewEnough(LiveOf(sess, d), Late(d))
    BY DEF PilesOK
  <2>1. LiveOf(sess, d) = {} /\ Late(d) \subseteq Workers
    BY DEF Init, LiveOf, Known, Late
  <2>2. QED  BY <2>1, NoneYet
<1>3. QED  BY <1>1, <1>2, Initially DEF RInv

LEMMA PilesInductive ==
  ASSUME RInv, [Next]_vars
  PROVE  RInv'
<1>1. IInv'
  BY Inductive DEF RInv
<1>2. CASE Flush \/ Login \/ Revoke \/ Restart
  BY <1>1, <1>2, FlushPiles, LoginPiles, RevokePiles, RestartPiles
<1>3. CASE PresenceReport \/ Tick \/ UNCHANGED vars
  <2>1. UNCHANGED <<sess, disk, failures, work>>
    BY <1>3 DEF PresenceReport, Tick, vars
  <2>2. QED  BY <1>1, <2>1, NobodyComesLate, QuietPiles DEF RInv
<1>4. ASSUME NEW id \in Ids, SessionValid(id)
      PROVE  RInv'
  <2>1. id \in Known(sess) /\ Touch(id, FALSE) /\ UNCHANGED <<disk, work, failures>>
    BY <1>4 DEF SessionValid, Mine
  <2>2. QED  BY <1>1, <2>1, NobodyComesLate, TouchPiles DEF RInv
<1>5. ASSUME NEW w \in Workers, NEW d \in Devices, OnlineCheck(w, d) \/ Heartbeat(w, d)
      PROVE  RInv'
  <2>1. UNCHANGED <<sess, disk, failures>>
    BY <1>5 DEF OnlineCheck, Heartbeat
  <2>2. \A e \in Devices : Late(e)' \subseteq Late(e)
    <3>1. CASE Goto(w, [at |-> "elsewhere", dev |-> d])
      BY <3>1, NobodyComesLate DEF RInv
    <3>2. ASSUME NEW play \in BOOLEAN, Goto(w, [at |-> "find", dev |-> d, play |-> play])
          PROVE  \A e \in Devices : Late(e)' \subseteq Late(e)
      BY <3>2, NobodyComesLate DEF RInv
    <3>3. QED  BY <1>5, <3>1, <3>2 DEF OnlineCheck, Heartbeat
  <2>3. QED  BY <1>1, <2>1, <2>2, QuietPiles
<1>6. ASSUME NEW w \in Workers, Elsewhere(w)
      PROVE  RInv'
  <2>1. UNCHANGED <<sess, disk, failures>>
    BY <1>6 DEF Elsewhere
  <2>2. \A e \in Devices : Late(e)' \subseteq Late(e)
    <3>1. CASE Goto(w, Idle)
      BY <3>1, NobodyComesLate DEF RInv, Idle
    <3>2. CASE Goto(w, [at |-> "find", dev |-> work[w].dev, play |-> TRUE])
      BY <3>2, NobodyComesLate DEF RInv
    <3>3. QED  BY <1>6, <3>1, <3>2 DEF Elsewhere
  <2>3. QED  BY <1>1, <2>1, <2>2, QuietPiles
<1>7. ASSUME NEW w \in Workers, Mark(w)
      PROVE  RInv'
  <2>1. /\ work[w].id \in Known(sess) /\ Touch(work[w].id, TRUE)
        /\ Goto(w, Idle) /\ UNCHANGED <<disk, failures>>
    BY <1>7 DEF Mark, Answer, RInv, IInv, TypeOK
  <2>2. \A e \in Devices : Late(e)' \subseteq Late(e)
    BY <2>1, NobodyComesLate DEF RInv, Idle
  <2>3. QED  BY <1>1, <2>1, <2>2, TouchPiles
<1>8. QED
  BY <1>1, <1>2, <1>3, <1>4, <1>5, <1>6, <1>7, FindPiles, CreatePiles DEF Next

(* "finds the play-session for this exact device and refreshes it, or      *)
(* creates one": whichever requests race, revocations come and the process *)
(* restarts, a device never has more sessions than requests can race.      *)
THEOREM SessionsArePiledNoHigher == Spec => []SessionsAreReused
<1>1. RInv => SessionsAreReused
  <2> SUFFICES ASSUME RInv, failures = 0 \/ restarts = 0, NEW d \in Devices
               PROVE  Cardinality(Mine(d)) <= Cardinality(Workers)
    BY DEF SessionsAreReused
  <2>1. FewEnough(LiveOf(sess, d), Late(d)) /\ Late(d) \subseteq Workers
    BY DEF RInv, PilesOK, Late
  <2>2. LiveOf(sess, d) = Mine(d)
    BY DEF LiveOf, Mine
  <2>3. Cardinality(Mine(d)) \in Nat /\ Cardinality(Late(d)) \in Nat /\ Cardinality(Workers) \in Nat
    BY <2>1, <2>2, LateIsFinite, FS_CardinalityType DEF FewEnough
  <2>4. QED  BY <2>1, <2>2, <2>3 DEF FewEnough
<1>2. QED  BY <1>1, PilesInitially, PilesInductive, PTL DEF Spec

=============================================================================
