-------------------------------- MODULE History --------------------------------
(***************************************************************************)
(* The play history of one account (src/history.go): a file the emulator   *)
(* and the console push to.  A push is loaded, merged and saved without a  *)
(* lock, through one temporary name that all pushes of the account share:  *)
(* the file is opened (truncated), written and renamed.                    *)
(*                                                                         *)
(* Names point at inodes, and a handler that has opened one keeps writing  *)
(* to it whatever its name has become.  The play time stands for an entry: *)
(* its last-played date is merged by the same maximum, and a title of no   *)
(* play time for one that is not there.                                    *)
(***************************************************************************)
EXTENDS Naturals, FiniteSets, FiniteSetsExt

CONSTANTS
  Titles,
  MaxSeconds,       \* bound: play time
  Workers,          \* bound: pushes at once
  Inodes,           \* bound: enough for both names and what is open
  MaxSaveFailures,  \* bound: writes that fail
  MaxRestarts,      \* bound: restarts of the process
  Empty, Torn,      \* a truncated file; one that does not parse
  None

Histories == [Titles -> 0..MaxSeconds]
NoTitles == [t \in Titles |-> 0]

ASSUME BoundsAreNaturals == MaxSeconds \in Nat /\ MaxSaveFailures \in Nat /\ MaxRestarts \in Nat
ASSUME FilesAreNoHistories == Empty # Torn /\ Empty \notin Histories /\ Torn \notin Histories
ASSUME NoneIsNoInode == None \notin Inodes
ASSUME EnoughInodes == IsFiniteSet(Inodes) /\ Cardinality(Inodes) > Cardinality(Workers) + 1

VARIABLES
  content,    \* inode -> what was written to it
  path,       \* the inode of <pid>.json, or None
  tmp,        \* the inode of <pid>.json.tmp, or None
  work,       \* what each push is doing
  banned,     \* banAccount was called
  pushed,     \* history: the most that was pushed, or merged by a push in flight at the ban
  failures,
  restarts

vars == <<content, path, tmp, work, banned, pushed, failures, restarts>>

Idle == [at |-> "idle"]

(* raced: history, the push has overlapped another one.                    *)
Jobs == {Idle}
  \cup [at : {"open", "rename"}, merged : Histories, raced : BOOLEAN]
  \cup [at : {"write"}, merged : Histories, raced : BOOLEAN, ino : Inodes]

Init ==
  /\ content = [i \in Inodes |-> Empty]
  /\ path = None /\ tmp = None
  /\ work = [w \in Workers |-> Idle]
  /\ banned = FALSE /\ pushed = NoTitles
  /\ failures = 0 /\ restarts = 0

-----------------------------------------------------------------------------
(* The file.                                                               *)

Upto(g, h) == \A t \in Titles : g[t] <= h[t]
Most(g, h) == [t \in Titles |-> Max({g[t], h[t]})]

(* Mutants: each is a later definition of the same name with one slip.     *)
mergeHistory_adds(existing, incoming) ==
  [t \in Titles |-> existing[t] + incoming[t]]

(* Per title, the higher play time.                                        *)
mergeHistory(existing, incoming) == Most(existing, incoming)

(* loadHistory: a file that is not there or does not parse is no history.  *)
loadHistory == IF path = None \/ content[path] \in {Empty, Torn} THEN NoTitles ELSE content[path]

(* What a handler may read: half a file while another one writes to it.    *)
Readings ==
  {loadHistory} \cup {NoTitles : w \in {v \in Workers : work[v].at = "write" /\ work[v].ino = path}}

Busy(w) == work[w] # Idle

Unused ==
  {i \in Inodes : i # path /\ i # tmp /\ \A w \in Workers : work[w].at = "write" => work[w].ino # i}

FileSame == UNCHANGED <<content, path, tmp>>

-----------------------------------------------------------------------------
(* history (PUT): a nx2 token is taken without the account, so that pushes *)
(* outlive a ban.                                                          *)
Push(w, incoming) ==
  /\ work[w] = Idle
  /\ \E existing \in Readings :
       work' = [v \in Workers |->
         IF v = w
           THEN [at |-> "open", merged |-> mergeHistory(existing, incoming),
                 raced |-> \E u \in Workers : Busy(u)]
           ELSE IF Busy(v) THEN [work[v] EXCEPT !.raced = TRUE] ELSE Idle]
  /\ pushed' = Most(pushed, incoming)
  /\ FileSame /\ UNCHANGED <<banned, failures, restarts>>

(* internalProfileSync: what the console played, unless it is nothing.     *)
PushPlayLog(w, playLog) == playLog # NoTitles /\ Push(w, playLog)

Writing(w, i) ==
  work' = [work EXCEPT ![w] = [at |-> "write", merged |-> work[w].merged,
                               raced |-> work[w].raced, ino |-> i]]

SaveOpen_inPlace(w) ==
  /\ work[w].at = "open"
  /\ \E i \in IF path = None THEN Unused ELSE {path} :
       /\ Writing(w, i)
       /\ content' = [content EXCEPT ![i] = Empty]
       /\ path' = i /\ tmp' = i
  /\ UNCHANGED <<banned, pushed, failures, restarts>>

SaveOpen_keeps(w) ==
  /\ work[w].at = "open"
  /\ \E i \in IF tmp = None THEN Unused ELSE {tmp} : Writing(w, i) /\ tmp' = i
  /\ UNCHANGED <<content, path, banned, pushed, failures, restarts>>

(* saveHistory, os.WriteFile: opened, created or truncated.                *)
SaveOpen(w) ==
  /\ work[w].at = "open"
  /\ \E i \in IF tmp = None THEN Unused ELSE {tmp} :
       /\ Writing(w, i)
       /\ content' = [content EXCEPT ![i] = Empty]
       /\ tmp' = i
  /\ UNCHANGED <<path, banned, pushed, failures, restarts>>

(* Over a longer text the tail of the other stays; a write that fails      *)
(* leaves half a text, and the handler gives up.                           *)
SaveWrite(w) ==
  LET i == work[w].ino IN
  /\ work[w].at = "write"
  /\ \/ /\ \/ content' = [content EXCEPT ![i] = work[w].merged]
           \/ content[i] # Empty /\ content' = [content EXCEPT ![i] = Torn]
        /\ work' = [work EXCEPT ![w] = [at |-> "rename", merged |-> work[w].merged,
                                        raced |-> work[w].raced]]
        /\ UNCHANGED failures
     \/ /\ failures < MaxSaveFailures /\ failures' = failures + 1
        /\ content' = [content EXCEPT ![i] = Torn]
        /\ work' = [work EXCEPT ![w] = Idle]
  /\ UNCHANGED <<path, tmp, banned, pushed, restarts>>

SaveRename_copies(w) ==
  /\ work[w].at = "rename"
  /\ path' = IF tmp = None THEN path ELSE tmp
  /\ work' = [work EXCEPT ![w] = Idle]
  /\ UNCHANGED <<content, tmp, banned, pushed, failures, restarts>>

(* os.Rename: whatever inode the name is on by now; if it is gone, an      *)
(* error for the client.                                                   *)
SaveRename(w) ==
  /\ work[w].at = "rename"
  /\ path' = IF tmp = None THEN path ELSE tmp
  /\ tmp' = None
  /\ work' = [work EXCEPT ![w] = Idle]
  /\ UNCHANGED <<content, banned, pushed, failures, restarts>>

(* The most a push in flight will write.                                   *)
InFlight ==
  [t \in Titles |-> Max({0} \cup {work[w].merged[t] : w \in {v \in Workers : Busy(v)}})]

(* banAccount removes the file, not its temporary name.                    *)
BanAccount ==
  /\ ~banned /\ banned' = TRUE
  /\ path' = None
  /\ pushed' = InFlight
  /\ UNCHANGED <<content, tmp, work, failures, restarts>>

(* Handlers stop where they are.                                           *)
Restart ==
  /\ restarts < MaxRestarts /\ restarts' = restarts + 1
  /\ work' = [w \in Workers |-> Idle]
  /\ FileSame /\ UNCHANGED <<banned, pushed, failures>>

Next ==
  \/ \E w \in Workers :
       \/ \E incoming \in Histories : Push(w, incoming) \/ PushPlayLog(w, incoming)
       \/ SaveOpen(w) \/ SaveWrite(w) \/ SaveRename(w)
  \/ BanAccount
  \/ Restart

Spec == Init /\ [][Next]_vars

-----------------------------------------------------------------------------
(* Properties.                                                             *)

(* Contents, names and jobs have their types, and the two names are never  *)
(* on one inode: what is being written is not yet what is read.            *)
TypeOK ==
  /\ content \in [Inodes -> Histories \cup {Empty, Torn}]
  /\ path \in Inodes \cup {None} /\ tmp \in Inodes \cup {None}
  /\ path = tmp => path = None
  /\ work \in [Workers -> Jobs]
  /\ banned \in BOOLEAN /\ pushed \in Histories
  /\ failures \in 0..MaxSaveFailures /\ restarts \in 0..MaxRestarts

(* "the account's history never regresses or disappears": through crashes, *)
(* failed writes and whatever is merged, what is read of the file only     *)
(* loses play time to a ban, or to a push that overlapped another.         *)
Regress ==
  ~Upto(loadHistory, loadHistory') =>
    banned' # banned \/ \E w \in Workers : Busy(w) /\ work[w].raced /\ work'[w] # work[w]
NeverRegresses == [][Regress]_vars

(* A push alone of its account that is answered is in the file: nothing    *)
(* of another writer, dead or alive, is renamed or left in its place.      *)
Answered ==
  \A w \in Workers :
    work[w].at = "rename" /\ ~work[w].raced /\ work'[w] = Idle /\ restarts' = restarts
      => loadHistory' = work[w].merged
AnsweredIsStored == [][Answered]_vars

(* Overlapping pushes lose play time but invent none, and a wiped history  *)
(* comes back only through a push in flight at the ban or a later one.     *)
StoredWasPushed == Upto(loadHistory, pushed)

=============================================================================
