-------------------------------- MODULE Reports --------------------------------
(***************************************************************************)
(* Bug reports (src/reports.go): an inbox in memory, of a bounded length   *)
(* and age, with an hourly quota per account.  A report is checked against *)
(* the quota before its body is read, stamped once it is, and checked      *)
(* again under the lock that stores it: two of them may be stored in       *)
(* another order than they were stamped.  Administrators list the inbox    *)
(* and mark reports by the ids of the page they look at.                   *)
(*                                                                         *)
(* The slice only grows at its end, under the lock that counts reportSeq:  *)
(* it is kept here as the set of its reports, whose order is that of ids.  *)
(***************************************************************************)
EXTENDS Naturals, FiniteSets

CONSTANTS
  Pids,
  MaxReports,     \* maxReports
  ReportMaxAge,   \* reportMaxAge
  Hour,
  PerHour,        \* reportPerHour
  Senders,        \* bound: reports sent at once
  MaxSeq,         \* bound: reports stored by one process
  MaxTime,        \* bound: the clock
  MaxLosses,      \* bound: restarts, which lose the inbox
  NoPage

ASSUME InboxBoundsAreNaturals ==
  /\ {MaxReports, Hour, PerHour} \subseteq Nat \ {0}
  /\ {ReportMaxAge, MaxSeq, MaxTime, MaxLosses} \subseteq Nat
ASSUME ReportsOutliveTheQuota == ReportMaxAge >= Hour

VARIABLES
  now,
  reports,    \* the inbox
  reportSeq,
  posts,      \* what each POST is doing
  page,       \* the report an administrator looks at, of the last list
  pageOld,    \* history: listed before the last restart
  losses

inboxVars == <<now, reports, reportSeq, posts, page, pageOld, losses>>

Report == [id : 1..MaxSeq, pid : Pids, at : 0..MaxTime, handled : BOOLEAN]

NoPost == [at |-> "idle"]

Posts == {NoPost}
  \cup [at : {"body"}, pid : Pids]
  \cup [at : {"store"}, pid : Pids, stamp : 0..MaxTime]

InboxInit ==
  /\ now = 0
  /\ reports = {} /\ reportSeq = 0
  /\ posts = [s \in Senders |-> NoPost]
  /\ page = NoPage /\ pageOld = FALSE
  /\ losses = 0

-----------------------------------------------------------------------------
(* The inbox, reportsMu held.                                              *)

Goto(s, post) == posts' = [posts EXCEPT ![s] = post]

InboxSame == UNCHANGED <<reports, reportSeq>>
PageSame == UNCHANGED <<page, pageOld>>

(* Mutants: each is a later definition of the same name with one slip.     *)
LastHour_open(inbox, pid) ==
  {r \in inbox : r.pid = pid /\ ~r.handled /\ r.at + Hour > now}

LastHour(inbox, pid) == {r \in inbox : r.pid = pid /\ r.at + Hour > now}

reportsFromLastHour(pid) == Cardinality(LastHour(reports, pid))

pruneReports == {r \in reports : r.at + ReportMaxAge > now}

(* The oldest go.                                                          *)
Trim(inbox) == {r \in inbox : Cardinality({q \in inbox : q.id > r.id}) < MaxReports}

NewReport_ofLength(inbox, post) ==
  [id |-> Cardinality(inbox) + 1, pid |-> post.pid, at |-> post.stamp, handled |-> FALSE]

NewReport(inbox, post) ==
  [id |-> reportSeq + 1, pid |-> post.pid, at |-> post.stamp, handled |-> FALSE]

Stored(post) == Trim(pruneReports \cup {NewReport(pruneReports, post)})

-----------------------------------------------------------------------------
(* report.                                                                 *)

(* reportQuotaAvailable, before anything is read.                          *)
QuotaCheck(s, pid) ==
  /\ posts[s] = NoPost
  /\ reportsFromLastHour(pid) < PerHour
  /\ Goto(s, [at |-> "body", pid |-> pid])
  /\ InboxSame /\ PageSame /\ UNCHANGED <<now, losses>>

(* The body is read and the report stamped, or the JSON is refused.        *)
Decode(s) ==
  /\ posts[s].at = "body"
  /\ \/ Goto(s, [at |-> "store", pid |-> posts[s].pid, stamp |-> now])
     \/ Goto(s, NoPost)
  /\ InboxSame /\ PageSame /\ UNCHANGED <<now, losses>>

StoreReport_unchecked(s) ==
  /\ posts[s].at = "store"
  /\ reportSeq < MaxSeq
  /\ reports' = Stored(posts[s])
  /\ reportSeq' = reportSeq + 1
  /\ Goto(s, NoPost)
  /\ PageSame /\ UNCHANGED <<now, losses>>

(* Checked again under the lock, "la vraie décision".                      *)
StoreReport(s) ==
  /\ posts[s].at = "store"
  /\ \/ /\ reportsFromLastHour(posts[s].pid) < PerHour
        /\ reportSeq < MaxSeq
        /\ reports' = Stored(posts[s])
        /\ reportSeq' = reportSeq + 1
     \/ /\ reportsFromLastHour(posts[s].pid) >= PerHour
        /\ InboxSame
  /\ Goto(s, NoPost)
  /\ PageSame /\ UNCHANGED <<now, losses>>

-----------------------------------------------------------------------------
(* adminReports.                                                           *)

AdminList ==
  /\ reports' = pruneReports
  /\ page' \in IF pruneReports = {} THEN {NoPage} ELSE pruneReports
  /\ pageOld' = FALSE
  /\ UNCHANGED <<now, reportSeq, posts, losses>>

(* Answered 404 when no report has the id, but pruned all the same.        *)
AdminMark(id, handled) ==
  /\ reports' = {IF r.id = id THEN [r EXCEPT !.handled = handled] ELSE r : r \in pruneReports}
  /\ PageSame /\ UNCHANGED <<now, reportSeq, posts, losses>>

-----------------------------------------------------------------------------
Tick ==
  /\ now < MaxTime /\ now' = now + 1
  /\ InboxSame /\ PageSame /\ UNCHANGED <<posts, losses>>

(* The inbox and its counter are in memory; the administrator's page is not. *)
InboxLost ==
  /\ losses < MaxLosses /\ losses' = losses + 1
  /\ reports' = {} /\ reportSeq' = 0
  /\ posts' = [s \in Senders |-> NoPost]
  /\ pageOld' = TRUE
  /\ UNCHANGED <<now, page>>

InboxNext ==
  \/ \E s \in Senders :
       \/ \E pid \in Pids : QuotaCheck(s, pid)
       \/ Decode(s) \/ StoreReport(s)
  \/ AdminList
  \/ page # NoPage /\ \E handled \in BOOLEAN : AdminMark(page.id, handled)
  \/ Tick
  \/ InboxLost

InboxSpec == InboxInit /\ [][InboxNext]_inboxVars

-----------------------------------------------------------------------------
(* Properties.                                                             *)

(* The inbox is bounded, and an id is one report's, none above the counter *)
(* the next one is taken from.                                             *)
InboxTypeOK ==
  /\ now \in 0..MaxTime /\ reportSeq \in 0..MaxSeq /\ losses \in 0..MaxLosses
  /\ reports \subseteq Report /\ Cardinality(reports) <= MaxReports
  /\ \A r \in reports : r.id <= reportSeq /\ \A q \in reports : q.id = r.id => q = r
  /\ posts \in [Senders -> Posts]
  /\ page \in Report \cup {NoPage} /\ pageOld \in BOOLEAN

(* "deux envois simultanés peuvent tous deux la passer": no account has    *)
(* more than its quota of reports from the last hour in the inbox, however *)
(* many of its requests passed the first check together.                   *)
QuotaHolds == \A pid \in Pids : reportsFromLastHour(pid) <= PerHour

(* "un bug qui boucle ne doit pas noyer les autres": a report not yet an   *)
(* hour old only leaves for newer ones (or for one stamped before it and   *)
(* stored after it) when so many accounts report that their quotas fill    *)
(* the inbox.                                                              *)
Authors == {r.pid : r \in {q \in reports : q.at + Hour > now}}

Drowned ==
  \A r \in reports :
    r.at + Hour > now /\ r.id \notin {q.id : q \in reports'} /\ losses' = losses
      => \/ \E q \in reports' : q.at < r.at
         \/ Cardinality(Authors') * PerHour >= MaxReports
DrownedByMany == [][Drowned]_inboxVars

(* Marking a report by its id marks the report the administrator saw,      *)
(* whatever was stored, cut and pruned since the page was listed: only     *)
(* after a restart, which counts from one again, may it be another.        *)
Marked ==
  \A r \in reports, q \in reports' :
    r.id = q.id /\ r.handled # q.handled
      => pageOld \/ (page.id = q.id /\ page.pid = q.pid /\ page.at = q.at)
MarksWhatWasSeen == [][Marked]_inboxVars

=============================================================================
