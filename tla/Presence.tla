-------------------------------- MODULE Presence --------------------------------
(***************************************************************************)
(* Who is online: the presence table of src/presence.go and the table of   *)
(* consoles heard from of src/console_presence.go.                         *)
(*                                                                         *)
(* Four writers share the tables: the emulator's report (/api/presence),   *)
(* the batch of a game server (/internal/presence-batch, one entry after   *)
(* the other), the console's own report (/internal/presence) and every     *)
(* request that resolves a console's identity (noteConsoleOnline).  Each   *)
(* table has a lock of its own, taken anew for every access, so a handler  *)
(* is cut at each: work says where every handler is.                       *)
(*                                                                         *)
(* Ages are ticks since the entry was written, up to the first one nobody  *)
(* tells from older ones.  What is played, the joinable room and the text  *)
(* shown beside it are left out: the last writer's are shown.              *)
(***************************************************************************)
EXTENDS Naturals, FiniteSets

CONSTANTS
  Pids,
  GameTTL,        \* presenceTTL, in ticks
  ConsoleTTL,     \* consolePresenceTTL, in ticks
  MaxSeen,        \* 20000: from here old entries of seen are dropped
  Workers,        \* bound: requests at once
  MaxRestarts,    \* bound: restarts of the process
  None            \* no entry

ASSUME ConsolesLastLonger == GameTTL \in Nat /\ ConsoleTTL \in Nat /\ GameTTL < ConsoleTTL
ASSUME NoneIsNoAge == None \notin Nat /\ None \notin [status : Nat, age : Nat]
ASSUME BoundsAreNaturals == MaxSeen \in Nat /\ MaxRestarts \in Nat

VARIABLES
  table,     \* presenceByPID
  seen,      \* consoleOnline.seen, by age
  work,      \* what each request is doing
  late,      \* history: notes whose account was said to play after their check
  gone,      \* history: accounts that left, and nothing said of them since
  restarts

vars == <<table, seen, work, late, gone, restarts>>

Offline == 0
Online == 1
Playing == 2
Statuses == {Offline, Online, Playing}

Entry == [status : Statuses, age : 0..(GameTTL + 1)]
SeenAge == 0..(ConsoleTTL + 1)

Idle == [at |-> "idle"]

Jobs == {Idle}
  \cup [at : {"note", "check", "set", "clear", "forget"}, pid : Pids]
  \cup [at : {"report"}, pid : Pids, status : Statuses]
  \cup [at : {"push"}, pid : Pids, status : {Online, Playing}]
  \cup [at : {"batch"}, pids : SUBSET Pids, status : {Online, Playing}]

Init ==
  /\ table = [p \in Pids |-> None] /\ seen = table
  /\ work = [w \in Workers |-> Idle]
  /\ late = {} /\ gone = {}
  /\ restarts = 0

-----------------------------------------------------------------------------
(* The tables.                                                             *)

(* Mutants: each is a later definition of the same name with one slip.     *)
Fresh_always(p) == table[p] # None

(* getPresence finds an entry.                                             *)
Fresh(p) == table[p] # None /\ table[p].age <= GameTTL

(* What the friend lists, the profile and the NPLN bridge show.            *)
Shown(p) == IF Fresh(p) THEN table[p].status ELSE Offline

(* consoleIsOnline.                                                        *)
ConsoleIsOnline(p) == seen[p] # None /\ seen[p] < ConsoleTTL

Goto(w, job) == work' = [work EXCEPT ![w] = job]

At(w, place) == work[w].at = place

(* The accounts a request may still write.                                 *)
About(job) ==
  CASE job = Idle -> {}
    [] job.at = "batch" -> job.pids
    [] OTHER -> {job.pid}

Start(w, job) ==
  /\ work[w] = Idle
  /\ Goto(w, job)
  /\ gone' = gone \ About(job)
  /\ UNCHANGED <<table, seen, late, restarts>>

(* setPresence: the whole entry.                                           *)
SetPresence(p, status) ==
  /\ table' = [table EXCEPT ![p] = [status |-> status, age |-> 0]]
  /\ late' = IF status = Playing
             THEN late \cup {v \in Workers : work[v] = [at |-> "set", pid |-> p]} ELSE late

-----------------------------------------------------------------------------
(* The emulator's report and the game server's batch.                      *)

Presence(w, p, status) == Start(w, [at |-> "report", pid |-> p, status |-> status])

Report(w) ==
  /\ At(w, "report")
  /\ SetPresence(work[w].pid, work[w].status)
  /\ Goto(w, Idle)
  /\ UNCHANGED <<seen, gone, restarts>>

(* A batch without a status says its members play.                         *)
PresenceBatch(w, P, status) ==
  Start(w, [at |-> "batch", pids |-> P,
            status |-> IF status = Offline THEN Playing ELSE status])

BatchSet(w) ==
  /\ At(w, "batch")
  /\ \E p \in work[w].pids :
       /\ SetPresence(p, work[w].status)
       /\ Goto(w, IF work[w].pids = {p} THEN Idle ELSE [work[w] EXCEPT !.pids = @ \ {p}])
  /\ UNCHANGED <<seen, gone, restarts>>

-----------------------------------------------------------------------------
(* A console's identity was resolved: noteConsoleOnline.                   *)

Identity(w, p) == Start(w, [at |-> "note", pid |-> p])

Prune(s) ==
  IF Cardinality({p \in Pids : s[p] # None}) <= MaxSeen THEN s
  ELSE [p \in Pids |-> IF s[p] # None /\ s[p] > ConsoleTTL THEN None ELSE s[p]]

NoteSeen(w) ==
  /\ At(w, "note")
  /\ seen' = Prune([seen EXCEPT ![work[w].pid] = 0])
  /\ Goto(w, [work[w] EXCEPT !.at = "check"])
  /\ UNCHANGED <<table, late, gone, restarts>>

NoteCheck_skipped(w) ==
  /\ At(w, "check")
  /\ Goto(w, [work[w] EXCEPT !.at = "set"])
  /\ UNCHANGED <<table, seen, late, gone, restarts>>

NoteCheck_staleToo(w) ==
  LET p == work[w].pid
      playing == table[p] # None /\ table[p].status = Playing
  IN
  /\ At(w, "check")
  /\ \/ playing /\ Goto(w, Idle)
     \/ ~playing /\ Goto(w, [work[w] EXCEPT !.at = "set"])
  /\ UNCHANGED <<table, seen, late, gone, restarts>>

NoteCheck(w) ==
  /\ At(w, "check")
  /\ \/ Shown(work[w].pid) > Online /\ Goto(w, Idle)
     \/ Shown(work[w].pid) <= Online /\ Goto(w, [work[w] EXCEPT !.at = "set"])
  /\ UNCHANGED <<table, seen, late, gone, restarts>>

NoteSet(w) ==
  /\ At(w, "set")
  /\ table' = [table EXCEPT ![work[w].pid] = [status |-> Online, age |-> 0]]
  /\ late' = late \ {w}
  /\ Goto(w, Idle)
  /\ UNCHANGED <<seen, gone, restarts>>

-----------------------------------------------------------------------------
(* The console's own report: it left, or it is there and is noted too.     *)

InternalPresence(w, p, status) ==
  Start(w, IF status = Offline THEN [at |-> "clear", pid |-> p]
           ELSE [at |-> "push", pid |-> p, status |-> status])

Push(w) ==
  /\ At(w, "push")
  /\ SetPresence(work[w].pid, work[w].status)
  /\ Goto(w, [at |-> "note", pid |-> work[w].pid])
  /\ UNCHANGED <<seen, gone, restarts>>

(* clearPresence; the account is gone unless a request about it is about.  *)
Clear(w) ==
  LET p == work[w].pid IN
  /\ At(w, "clear")
  /\ table' = [table EXCEPT ![p] = None]
  /\ gone' = IF \E v \in Workers \ {w} : p \in About(work[v]) THEN gone ELSE gone \cup {p}
  /\ Goto(w, [work[w] EXCEPT !.at = "forget"])
  /\ UNCHANGED <<seen, late, restarts>>

Forget_fallsThrough(w) ==
  /\ At(w, "forget")
  /\ seen' = [seen EXCEPT ![work[w].pid] = None]
  /\ Goto(w, [work[w] EXCEPT !.at = "note"])
  /\ UNCHANGED <<table, late, gone, restarts>>

Forget(w) ==
  /\ At(w, "forget")
  /\ seen' = [seen EXCEPT ![work[w].pid] = None]
  /\ Goto(w, Idle)
  /\ UNCHANGED <<table, late, gone, restarts>>

-----------------------------------------------------------------------------
(* Time and restarts: both tables are in memory.                           *)

Older(age, last) == IF age = None \/ age = last THEN age ELSE age + 1

Tick ==
  /\ table' = [p \in Pids |->
       IF table[p] = None THEN None ELSE [table[p] EXCEPT !.age = Older(@, GameTTL + 1)]]
  /\ seen' = [p \in Pids |-> Older(seen[p], ConsoleTTL + 1)]
  /\ UNCHANGED <<work, late, gone, restarts>>

Restart ==
  /\ restarts < MaxRestarts /\ restarts' = restarts + 1
  /\ table' = [p \in Pids |-> None] /\ seen' = table'
  /\ work' = [w \in Workers |-> Idle] /\ late' = {}
  /\ UNCHANGED gone

Step(w) ==
  \/ Report(w) \/ BatchSet(w)
  \/ NoteSeen(w) \/ NoteCheck(w) \/ NoteSet(w)
  \/ Push(w) \/ Clear(w) \/ Forget(w)

Next ==
  \/ \E w \in Workers, p \in Pids :
       \/ Identity(w, p)
       \/ \E status \in Statuses : Presence(w, p, status) \/ InternalPresence(w, p, status)
  \/ \E w \in Workers, P \in SUBSET Pids \ {{}}, status \in Statuses : PresenceBatch(w, P, status)
  \/ \E w \in Workers : Step(w)
  \/ Tick
  \/ Restart

Spec == Init /\ [][Next]_vars

(* Time passes, whatever the requests do.                                  *)
FairSpec == Spec /\ WF_vars(Tick)

-----------------------------------------------------------------------------
(* Properties.                                                             *)

(* The tables and the requests have their types; a note is only late       *)
(* between its check and its write.                                        *)
TypeOK ==
  /\ table \in [Pids -> Entry \cup {None}]
  /\ seen \in [Pids -> SeenAge \cup {None}]
  /\ work \in [Workers -> Jobs]
  /\ late \subseteq {w \in Workers : At(w, "set")}
  /\ gone \subseteq Pids
  /\ restarts \in 0..MaxRestarts

(* "A stronger, fresher presence (status 2 = playing) is never downgraded  *)
(* by it" (console_presence.go): resolving a console's identity never      *)
(* makes a player look idle, but when the game's report came between its   *)
(* check and its write, which are under two acquisitions of the lock.      *)
PlayersKept ==
  \A w \in Workers :
    At(w, "set") /\ work'[w] = Idle /\ restarts' = restarts /\ Shown(work[w].pid) = Playing
      => w \in late
PlayingIsNotDowngraded == [][PlayersKept]_vars

(* "went offline is instant rather than a TTL expiry" (internalPresence):  *)
(* a console that reports that it left is shown offline from then on,      *)
(* until a later request says something of it; only a request that was     *)
(* already on its way when it left may bring it back.                      *)
LeavingIsInstant == \A p \in gone : Shown(p) = Offline

(* "reaching them IS proof the console is on and connected" (note-         *)
(* ConsoleOnline): when the requests about a console just heard of have    *)
(* ended, the friend lists show it, unless its own report said offline.    *)
HeardIsShown ==
  \A p \in Pids :
    seen[p] = 0 /\ (\A w \in Workers : p \notin About(work[w])) =>
      Shown(p) > Offline \/ (table[p] # None /\ table[p].status = Offline)

(* "a PID not re-reported within presenceTTL (90s) falls back to offline": *)
(* an account nobody writes any more ends offline for good, with whatever  *)
(* requests about it still unfinished.                                     *)
Written(p) ==
  \E w \in Workers :
    /\ work[w].at \in {"report", "push", "batch", "set"} /\ p \in About(work[w])
    /\ work'[w] # work[w]
SilentEndOffline ==
  \A p \in Pids : []<><<Written(p)>>_vars \/ <>[](Shown(p) = Offline)

-----------------------------------------------------------------------------
(* What a comment says and the code does not do.                           *)

(* "consolePresenceTTL is how long a console counts as online after we     *)
(* last heard from it": until then the friend lists show it, unless its    *)
(* own report said offline.                                                *)
HeardStaysShown ==
  \A p \in Pids :
    ConsoleIsOnline(p) /\ (\A w \in Workers : p \notin About(work[w])) =>
      Shown(p) > Offline \/ (table[p] # None /\ table[p].status = Offline)

=============================================================================
