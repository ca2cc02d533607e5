------------------------------ MODULE PlaySessions ------------------------------
(***************************************************************************)
(* The session registry of one account (src/sessions.go) and the online    *)
(* gate that rests on it (onlineCheck and evalOnlineGatesWithSelf in       *)
(* src/main.go, pidPlayingNow in src/online_presence.go).                  *)
(*                                                                         *)
(* A session is a browser login or a device.  Logins and revocations are   *)
(* written to sessions.json at once; what a device does (Playing,          *)
(* LastSeen) only marks the registry dirty and is written by a ticker.     *)
(* The gate asks the game servers whether the account is connected, then   *)
(* the registry whether that is another kind of device, and registers the  *)
(* device in up to three steps: each takes the registry's lock again, so   *)
(* another request may come in between.  A tick is minutes, a request      *)
(* seconds: time passes between requests.                                  *)
(*                                                                         *)
(* The account exists, is enabled, verified and linked: the gates before   *)
(* pidPlayingNow let it through.  The 45-day lifetime of the list the site *)
(* shows is left out.                                                      *)
(***************************************************************************)
EXTENDS Naturals, FiniteSets

CONSTANTS
  Ids,              \* bound: the session ids randID may draw
  Devices,          \* bound: the devices of the account, by kind and ip
  Browser,          \* the browser the account logs in from, likewise
  Window,           \* activePlayElsewhere's five minutes, in ticks
  Workers,          \* bound: online checks and heartbeats at once
  MaxSaveFailures,  \* bound: writes of sessions.json that fail
  MaxRestarts,      \* bound: restarts of the process
  Absent            \* no session has the id

Places == Devices \cup {Browser}

Session == [dev : Places, playing : BOOLEAN, revoked : BOOLEAN]

ASSUME AbsentIsNoSession == Absent \notin Session
ASSUME BrowserIsNoDevice == Browser \notin Devices
ASSUME WorkersAreFinite == IsFiniteSet(Workers)
ASSUME BoundsAreNaturals ==
  Window \in Nat /\ MaxSaveFailures \in Nat /\ MaxRestarts \in Nat

VARIABLES
  sess,      \* sessByID
  age,       \* ticks since LastSeen, of the sessions in play (only they are asked)
  disk,      \* sessions.json
  work,      \* what each online check or heartbeat is doing
  quiet,     \* history: ticks since a device was let in, linked or reported on
  closed,    \* history: ids the site was told are revoked
  failures,
  restarts

vars == <<sess, age, disk, work, quiet, closed, failures, restarts>>

Registry == [Ids -> Session \cup {Absent}]

Idle == [at |-> "idle"]

Jobs == {Idle}
  \cup [at : {"elsewhere"}, dev : Devices]
  \cup [at : {"find", "create"}, dev : Devices, play : BOOLEAN]
  \cup [at : {"mark"}, dev : Devices, id : Ids]

Init ==
  /\ sess = [id \in Ids |-> Absent] /\ disk = sess
  /\ age = [id \in Ids |-> 0]
  /\ work = [w \in Workers |-> Idle]
  /\ quiet = Window
  /\ closed = {}
  /\ failures = 0 /\ restarts = 0

-----------------------------------------------------------------------------
(* The registry.                                                           *)

Known(r) == {id \in Ids : r[id] # Absent}

InPlay(r) == {id \in Known(r) : r[id].playing /\ ~r[id].revoked}

(* Sessions of a device that upsertPlaySession may find.                   *)
Mine(d) == {id \in Known(sess) : sess[id].dev = d /\ ~sess[id].revoked}

(* A session was seen, in a game or not.                                   *)
Touch(id, play) ==
  /\ sess' = [sess EXCEPT ![id].playing = @ \/ play]
  /\ age' = [age EXCEPT ![id] = 0]

(* persistSessionsLocked: a failed write is not tried again.               *)
Persist ==
  \/ disk' = sess' /\ UNCHANGED failures
  \/ failures < MaxSaveFailures /\ failures' = failures + 1 /\ UNCHANGED disk

Goto(w, job) == work' = [work EXCEPT ![w] = job]

HistorySame == UNCHANGED <<quiet, closed>>

(* Mutants: each is a later definition of the same name with one slip.     *)
NewSession_dirtyOnly(id, d) ==
  /\ sess[id] = Absent
  /\ sess' = [sess EXCEPT ![id] = [dev |-> d, playing |-> FALSE, revoked |-> FALSE]]
  /\ age' = [age EXCEPT ![id] = 0]
  /\ UNCHANGED <<disk, failures>>

NewSession(id, d) ==
  /\ sess[id] = Absent
  /\ sess' = [sess EXCEPT ![id] = [dev |-> d, playing |-> FALSE, revoked |-> FALSE]]
  /\ age' = [age EXCEPT ![id] = 0]
  /\ Persist

(* The 15-second ticker of a dirty registry, or the end of a resolveGeo.   *)
Flush ==
  /\ UNCHANGED <<sess, age>> /\ Persist
  /\ HistorySame /\ UNCHANGED <<work, restarts>>

(* login and register: the session is written before the token is signed.  *)
Login ==
  /\ \E id \in Ids : NewSession(id, Browser)
  /\ HistorySame /\ UNCHANGED <<work, restarts>>

(* A web token is presented: sessionValid.                                 *)
SessionValid(id) ==
  /\ id \in Mine(Browser)
  /\ Touch(id, FALSE)
  /\ HistorySame /\ UNCHANGED <<disk, work, failures, restarts>>

Close_memoryOnly(S) ==
  /\ S # {}
  /\ sess' = [id \in Ids |-> IF id \in S THEN [sess[id] EXCEPT !.revoked = TRUE] ELSE sess[id]]
  /\ closed' = closed \cup S
  /\ UNCHANGED <<age, disk, failures>>

Close(S) ==
  /\ S # {}
  /\ sess' = [id \in Ids |-> IF id \in S THEN [sess[id] EXCEPT !.revoked = TRUE] ELSE sess[id]]
  /\ closed' = closed \cup S
  /\ Persist /\ UNCHANGED age

(* revokeSession of one, or revokeAllForPID of all that are not revoked.   *)
Revoke ==
  /\ \/ \E id \in Known(sess) : Close({id})
     \/ Close({id \in Known(sess) : ~sess[id].revoked})
  /\ UNCHANGED <<work, quiet, restarts>>

-----------------------------------------------------------------------------
(* The online check of a device and the heartbeat of the emulator.         *)

(* pidPlayingNow may see the account on a game server (the device itself   *)
(* or a ghost included) or not (a server that does not answer included).   *)
OnlineCheck(w, d) ==
  /\ work[w] = Idle
  /\ \/ Goto(w, [at |-> "elsewhere", dev |-> d])
     \/ Goto(w, [at |-> "find", dev |-> d, play |-> TRUE])
  /\ HistorySame /\ UNCHANGED <<sess, age, disk, failures, restarts>>

Blocking_whenever(d) ==
  {id \in InPlay(sess) : sess[id].dev.kind # d.kind}

(* activePlayElsewhere: another kind of device, playing and seen lately.   *)
Blocking(d) ==
  {id \in InPlay(sess) : age[id] < Window /\ sess[id].dev.kind # d.kind}

Elsewhere(w) ==
  /\ work[w].at = "elsewhere"
  /\ \/ Blocking(work[w].dev) # {} /\ Goto(w, Idle)
     \/ /\ Blocking(work[w].dev) = {}
        /\ Goto(w, [at |-> "find", dev |-> work[w].dev, play |-> TRUE])
  /\ HistorySame /\ UNCHANGED <<sess, age, disk, failures, restarts>>

(* nexSession: the emulator is linked and open, not in a game.             *)
Heartbeat(w, d) ==
  /\ work[w] = Idle /\ d.kind = "ryujinx"
  /\ Goto(w, [at |-> "find", dev |-> d, play |-> FALSE])
  /\ HistorySame /\ UNCHANGED <<sess, age, disk, failures, restarts>>

(* The answer: the device is let in, or linked.                            *)
Answer(w) ==
  /\ Goto(w, Idle)
  /\ quiet' = 0
  /\ UNCHANGED closed

Find_playingOnly(w) ==
  LET d == work[w].dev
      play == work[w].play
      found == {id \in Mine(d) : sess[id].playing}
  IN
  /\ work[w].at = "find"
  /\ \/ \E id \in found : Touch(id, play) /\ Answer(w)
     \/ /\ found = {}
        /\ Goto(w, [work[w] EXCEPT !.at = "create"])
        /\ HistorySame /\ UNCHANGED <<sess, age>>
  /\ UNCHANGED <<disk, failures, restarts>>

(* upsertPlaySession and upsertDeviceSession: look under the lock, create  *)
(* under the lock taken again, mark under the lock taken again.            *)
Find(w) ==
  LET d == work[w].dev
      play == work[w].play
  IN
  /\ work[w].at = "find"
  /\ \/ \E id \in Mine(d) : Touch(id, play) /\ Answer(w)
     \/ /\ Mine(d) = {}
        /\ Goto(w, [work[w] EXCEPT !.at = "create"])
        /\ HistorySame /\ UNCHANGED <<sess, age>>
  /\ UNCHANGED <<disk, failures, restarts>>

Create(w) ==
  LET d == work[w].dev IN
  /\ work[w].at = "create"
  /\ \E id \in Ids :
       /\ NewSession(id, d)
       /\ \/ /\ work[w].play
             /\ Goto(w, [at |-> "mark", dev |-> d, id |-> id])
             /\ HistorySame
          \/ ~work[w].play /\ Answer(w)
  /\ UNCHANGED restarts

Mark(w) ==
  /\ work[w].at = "mark"
  /\ Touch(work[w].id, TRUE)
  /\ Answer(w)
  /\ UNCHANGED <<disk, failures, restarts>>

-----------------------------------------------------------------------------
(* Presence reports, time and restarts.                                    *)

(* setPresence with a status above 0, of whatever device: refreshPlayByPID *)
(* refreshes every playing session of the account.                         *)
PresenceReport ==
  /\ age' = [id \in Ids |-> IF id \in InPlay(sess) THEN 0 ELSE age[id]]
  /\ quiet' = 0
  /\ UNCHANGED <<sess, disk, work, closed, failures, restarts>>

Older(n) == IF n < Window THEN n + 1 ELSE n

Tick ==
  /\ \A w \in Workers : work[w] = Idle
  /\ age' = [id \in Ids |-> IF id \in InPlay(sess) THEN Older(age[id]) ELSE 0]
  /\ quiet' = Older(quiet)
  /\ UNCHANGED <<sess, disk, work, closed, failures, restarts>>

(* LastSeen is the one of the last flush, of whatever age; the history     *)
(* forgets how long the account has been quiet.                            *)
Restart ==
  /\ restarts < MaxRestarts /\ restarts' = restarts + 1
  /\ sess' = disk
  /\ age' \in {f \in [Ids -> 0..Window] : \A id \in Ids \ InPlay(disk) : f[id] = 0}
  /\ work' = [w \in Workers |-> Idle]
  /\ quiet' = 0 /\ UNCHANGED <<closed, disk, failures>>

Next ==
  \/ Flush \/ Login \/ Revoke \/ PresenceReport \/ Tick \/ Restart
  \/ \E id \in Ids : SessionValid(id)
  \/ \E w \in Workers, d \in Devices : OnlineCheck(w, d) \/ Heartbeat(w, d)
  \/ \E w \in Workers : Elsewhere(w) \/ Find(w) \/ Create(w) \/ Mark(w)

Spec == Init /\ [][Next]_vars

-----------------------------------------------------------------------------
(* Properties.                                                             *)

(* Sessions and jobs have their types, and a session is there to be marked *)
(* once it was created (sessions are revoked, never removed).              *)
TypeOK ==
  /\ sess \in Registry /\ disk \in Registry
  /\ age \in [Ids -> 0..Window] /\ quiet \in 0..Window
  /\ work \in [Workers -> Jobs]
  /\ \A w \in Workers : work[w].at = "mark" => work[w].id \in Known(sess)
  /\ closed \subseteq Ids
  /\ failures \in 0..MaxSaveFailures /\ restarts \in 0..MaxRestarts

Dead(r, id) == r[id] # Absent /\ r[id].revoked

(* "a revoked browser token stops working immediately", and for good: no   *)
(* later flush, upsert, mark, presence report or restart brings back a     *)
(* session the site was told is closed (a write that failed and a restart  *)
(* do, together).                                                          *)
ClosedStaysClosed ==
  \A id \in closed :
    /\ Dead(sess, id) \/ (failures > 0 /\ restarts > 0)
    /\ Dead(disk, id) \/ failures > 0

(* A session is in the file before its id leaves in a token or an answer:  *)
(* a crash at any point forgets no login and no device, as long as no      *)
(* write failed.                                                           *)
SessionsAreSaved ==
  failures = 0 => \A id \in Known(sess) : disk[id] # Absent /\ disk[id].dev = sess[id].dev

(* "finds the play-session for this exact device and refreshes it, or      *)
(* creates one": requests that race may each create one, and no more than  *)
(* that many sessions of a device that are not revoked ever pile up.       *)
SessionsAreReused ==
  failures = 0 \/ restarts = 0 =>
    \A d \in Devices : Cardinality(Mine(d)) <= Cardinality(Workers)

(* "~5 min after it stops, the other place is freed" (activePlayElsewhere): *)
(* a device is refused only while the account was heard of within the five *)
(* minutes, by a device let in or linked or by a presence report; however  *)
(* sessions piled up, were closed or marked late, a silent account is free. *)
RefusedWhileInUse ==
  \A w \in Workers :
    work[w].at = "elsewhere" /\ work'[w] = Idle /\ restarts' = restarts => quiet < Window
SilenceFreesThePlace == [][RefusedWhileInUse]_vars

=============================================================================
