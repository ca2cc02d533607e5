---------------------------- MODULE ConsoleBindings ----------------------------
(***************************************************************************)
(* The console identity bindings (src/nintendo_bindings.go and             *)
(* src/nintendo_bindings_store.go): which account a Switch is, from the    *)
(* two ids its token carries, the BAAS user id and the device id.          *)
(*                                                                         *)
(* The table has a lock of its own, different from the account store's, so *)
(* the handlers that use both run in several steps between which accounts  *)
(* are deleted and bindings change hands: work says where each handler is. *)
(* An account deletion never touches the table.  The two files are written *)
(* apart: a restart may find an accounts.json that is older than           *)
(* nintendo_bindings.json and does not know a PID the latter binds.        *)
(*                                                                         *)
(* LastSeen, labels and NaIDs resolve nothing and are left out, and        *)
(* normalizeHexID, which decides what one id is, has been applied.  The    *)
(* reverse indexes are rebuilt from the lists under the same lock at every *)
(* change: they are read off the lists.                                    *)
(***************************************************************************)
EXTENDS Naturals, Sequences, FiniteSets

CONSTANTS
  Pids,
  Baas,             \* BAAS/NSA user ids
  Dids,             \* device account ids
  NoId,             \* an id the request did not carry
  Minted,           \* the pair of ids derived from each PID
  Nobody,
  Requests,         \* bound: the consoles requests are made for
  Workers,          \* bound: handlers running at once
  MaxSaveFailures,  \* bound: writes, of either file, that fail
  MaxRestarts       \* bound: restarts of the process

Console == [baas : Baas \cup {NoId}, did : Dids \cup {NoId}]
             \ {[baas |-> NoId, did |-> NoId]}

ASSUME IdsAreApart ==
  Baas \cap Dids = {} /\ NoId \notin Baas /\ NoId \notin Dids
ASSUME MintedIds ==
  /\ Minted \in [Pids -> [baas : Baas, did : Dids]]
  /\ \A p, q \in Pids : p # q =>
       Minted[p].baas # Minted[q].baas /\ Minted[p].did # Minted[q].did
ASSUME NobodyIsNoPid == Nobody \notin Pids
ASSUME RequestsAreConsoles == Requests \subseteq Console
ASSUME BoundsAreNaturals == MaxSaveFailures \in Nat /\ MaxRestarts \in Nat

VARIABLES
  live,      \* PIDs of the accounts in the store
  used,      \* PIDs below the counter NextP
  saved,     \* both, as accounts.json has them
  forgotten, \* history: PIDs handed out that a restart took back
  table,     \* Accounts: the entries bound to each PID, in memory
  disk,      \* the same in nintendo_bindings.json
  work,      \* what each handler has read and is about to act on
  failures,         \* failed writes of nintendo_bindings.json
  accountFailures,  \* failed writes of accounts.json
  restarts

accounts == <<live, used, saved, forgotten, accountFailures>>
vars == <<accounts, table, disk, work, failures, restarts>>

Idle == [at |-> "idle"]

Jobs == {Idle} \cup [at : {"bind", "found", "derived"}, pid : Pids, ids : Console]

Init ==
  /\ live = {} /\ used = {} /\ forgotten = {}
  /\ saved = [live |-> {}, used |-> {}]
  /\ table = [p \in Pids |-> <<>>]
  /\ disk = table
  /\ work = [w \in Workers |-> Idle]
  /\ failures = 0 /\ accountFailures = 0 /\ restarts = 0

-----------------------------------------------------------------------------
(* The table.                                                              *)

(* b.BaasID != "" && cur.BaasID == b.BaasID || the same for the device id. *)
Matches(e, c) ==
  \/ c.baas # NoId /\ e.baas = c.baas
  \/ c.did # NoId /\ e.did = c.did

Entries(t, p) == {t[p][i] : i \in DOMAIN t[p]}

(* The two reverse indexes, byBaas and byBsDid.                            *)
OwnersByBaas(c) ==
  {p \in Pids : c.baas # NoId /\ \E e \in Entries(table, p) : e.baas = c.baas}
OwnersByDid(c) ==
  {p \in Pids : c.did # NoId /\ \E e \in Entries(table, p) : e.did = c.did}

(* A binding is merged into an entry by overwriting the ids it carries.    *)
Merge(e, c) == [baas |-> IF c.baas # NoId THEN c.baas ELSE e.baas,
                did  |-> IF c.did # NoId THEN c.did ELSE e.did]

(* persist() under the table's lock: the memory has the new table even     *)
(* when the write fails.                                                   *)
Save(t) ==
  /\ table' = t
  /\ \/ disk' = t /\ UNCHANGED failures
     \/ /\ failures + accountFailures < MaxSaveFailures
        /\ failures' = failures + 1
        /\ UNCHANGED disk

(* Mutants: each is a later definition of the same name with one slip.     *)
Taken_baasOnly(p, c) == OwnersByBaas(c) \ {p} # {}

Unbind_everybody(p, c) ==
  Save([q \in Pids |-> SelectSeq(table[q], LAMBDA e : ~Matches(e, c))])

(* errBindingTaken: an index names somebody else.                          *)
Taken(p, c) == OwnersByBaas(c) \ {p} # {} \/ OwnersByDid(c) \ {p} # {}

(* The first entry of the list that shares an id with c.                   *)
FirstMatch(list, c) ==
  {i \in DOMAIN list : Matches(list[i], c) /\ \A j \in 1..(i - 1) : ~Matches(list[j], c)}

BindEntry(p, c) ==
  \/ /\ FirstMatch(table[p], c) = {}
     /\ Save([table EXCEPT ![p] = Append(table[p], c)])
  \/ \E i \in FirstMatch(table[p], c) :
       Save([table EXCEPT ![p] = [table[p] EXCEPT ![i] = Merge(@, c)]])

Bind(p, c) ==
  \/ ~Taken(p, c) /\ BindEntry(p, c)
  \/ Taken(p, c) /\ UNCHANGED <<table, disk, failures>>

Others(list, c) == {i \in DOMAIN list : ~Matches(list[i], c)}

(* The increasing enumeration of a set of positions.                       *)
InOrder(S) ==
  {f \in [1..Cardinality(S) -> S] : \A j, k \in DOMAIN f : j < k => f[j] < f[k]}

(* The entries that share no id with c, in their order; ErrNotFound when   *)
(* that is all of them.                                                    *)
Unbind(p, c) ==
  LET list == table[p]
      kept == Others(list, c)
  IN \/ /\ kept # DOMAIN list
        /\ \E f \in InOrder(kept) :
             Save([table EXCEPT ![p] = [k \in DOMAIN f |-> list[f[k]]]])
     \/ kept = DOMAIN list /\ UNCHANGED <<table, disk, failures>>

-----------------------------------------------------------------------------
(* The accounts, of which the bindings know only the PIDs.                 *)

(* persist() of the account store: when the write fails the caller has an  *)
(* error, the memory keeps the account, the deletion and the counter.      *)
SaveAccounts ==
  \/ saved' = [live |-> live', used |-> used'] /\ UNCHANGED accountFailures
  \/ /\ failures + accountFailures < MaxSaveFailures
     /\ accountFailures' = accountFailures + 1
     /\ UNCHANGED saved

Create(p) ==
  /\ p \notin used
  /\ live' = live \cup {p} /\ used' = used \cup {p}
  /\ SaveAccounts
  /\ UNCHANGED <<forgotten, table, disk, work, failures, restarts>>

(* A ban, an administrator or the player: none looks at the bindings.      *)
DeleteAccount(p) ==
  /\ p \in live
  /\ live' = live \ {p} /\ UNCHANGED used
  /\ SaveAccounts
  /\ UNCHANGED <<forgotten, table, disk, work, failures, restarts>>

(* Every other operation of the store writes the whole file.               *)
OtherSave ==
  /\ saved' = [live |-> live, used |-> used] /\ saved' # saved
  /\ UNCHANGED <<live, used, forgotten, accountFailures>>
  /\ UNCHANGED <<table, disk, work, failures, restarts>>

-----------------------------------------------------------------------------
(* The handlers.                                                           *)

Start(w, at, p, c) ==
  /\ work[w] = Idle
  /\ work' = [work EXCEPT ![w] = [at |-> at, pid |-> p, ids |-> c]]
  /\ UNCHANGED <<accounts, table, disk, failures, restarts>>

Finish(w) ==
  /\ work' = [work EXCEPT ![w] = Idle]
  /\ UNCHANGED <<accounts, restarts>>

BindCheck_anyPid(w, p, c) == Start(w, "bind", p, c)

(* internalBind: ByPID, then Bind.                                         *)
BindCheck(w, p, c) == p \in live /\ Start(w, "bind", p, c)

BindApply(w) ==
  /\ work[w].at = "bind"
  /\ Bind(work[w].pid, work[w].ids)
  /\ Finish(w)

(* internalUnbind.                                                         *)
OperatorUnbind(p, c) == Unbind(p, c) /\ UNCHANGED <<accounts, work, restarts>>

(* Resolve, the BAAS index first.                                          *)
Resolved(c) ==
  IF OwnersByBaas(c) # {} THEN OwnersByBaas(c) ELSE OwnersByDid(c)

(* resolveConsole walks the accounts in the order of a map and takes the   *)
(* first that matches either id.                                           *)
Derived(c) == {p \in live : Minted[p].baas = c.baas \/ Minted[p].did = c.did}

WhoamiFound(w, p, c) == p \in Resolved(c) /\ Start(w, "found", p, c)

WhoamiDerived(w, p, c) ==
  Resolved(c) = {} /\ p \in Derived(c) /\ Start(w, "derived", p, c)

(* A bound account that is gone loses the bindings that name the console.  *)
FoundAnswer(w) ==
  /\ work[w].at = "found"
  /\ \/ work[w].pid \in live /\ UNCHANGED <<table, disk, failures>>
     \/ work[w].pid \notin live /\ Unbind(work[w].pid, work[w].ids)
  /\ Finish(w)

(* promoteBinding ignores a refusal; the account is the one that was read. *)
DerivedAnswer(w) ==
  /\ work[w].at = "derived"
  /\ Bind(work[w].pid, work[w].ids)
  /\ Finish(w)

(* Both stores are read back: a PID whose handing out was never written is *)
(* handed out once more.                                                   *)
Restart ==
  /\ restarts < MaxRestarts
  /\ restarts' = restarts + 1
  /\ live' = saved.live /\ used' = saved.used
  /\ forgotten' = forgotten \cup (used \ used')
  /\ table' = disk
  /\ work' = [w \in Workers |-> Idle]
  /\ UNCHANGED <<saved, accountFailures, disk, failures>>

Next ==
  \/ \E p \in Pids : Create(p) \/ DeleteAccount(p)
  \/ \E p \in Pids, c \in Requests : OperatorUnbind(p, c)
  \/ \E w \in Workers, p \in Pids, c \in Requests :
       BindCheck(w, p, c) \/ WhoamiFound(w, p, c) \/ WhoamiDerived(w, p, c)
  \/ \E w \in Workers : BindApply(w) \/ FoundAnswer(w) \/ DerivedAnswer(w)
  \/ OtherSave
  \/ Restart

Spec == Init /\ [][Next]_vars

-----------------------------------------------------------------------------
(* Properties.                                                             *)

(* The table counts entries, an account has a PID below the counter.       *)
TypeOK ==
  /\ live \in SUBSET Pids /\ used \in SUBSET Pids /\ live \subseteq used
  /\ saved \in [live : SUBSET Pids, used : SUBSET Pids] /\ saved.live \subseteq saved.used
  /\ forgotten \in SUBSET Pids
  /\ table \in [Pids -> Seq(Console)] /\ disk \in [Pids -> Seq(Console)]
  /\ work \in [Workers -> Jobs]
  /\ failures \in Nat /\ accountFailures \in Nat
  /\ failures + accountFailures <= MaxSaveFailures
  /\ restarts \in 0..MaxRestarts

Ids == Baas \cup Dids

Names(e, i) == e.baas = i \/ e.did = i

(* i is in the list p has in t.                                            *)
ListedBy(t, p, i) == \E e \in Entries(t, p) : Names(e, i)

ExclusiveIn(t) ==
  \A i \in Ids : \A p, q \in Pids : ListedBy(t, p, i) /\ ListedBy(t, q, i) => p = q

(* "A binding belongs to exactly one account" (nintendo_bindings.go): no   *)
(* id is listed by two accounts, in memory or in the file, whichever binds *)
(* race and whatever a failed write leaves behind.                         *)
Exclusive == ExclusiveIn(table) /\ ExclusiveIn(disk)

(* An account created under a PID nobody had finds no console bound to it, *)
(* whatever the handlers under way have read (internalBind's account       *)
(* check, the store's PID counter).  The code does not promise it of every *)
(* account: the writes of accounts.json that hand out a PID may fail, and  *)
(* a restart then takes the counter back while nintendo_bindings.json may  *)
(* name the PID.  Those PIDs, and no others, are exempt.                   *)
BornUnbound ==
  restarts' = restarts =>
    \A p \in live' \ live :
      \/ p \in forgotten /\ accountFailures > 0
      \/ Entries(table', p) = {} /\ Entries(disk', p) = {}
FreshPidOwnsNothing == [][BornUnbound]_vars

(* Whoever lists the id owns it.                                           *)
OwnerIn(t) ==
  [i \in Ids |-> IF \E p \in Pids : ListedBy(t, p, i)
                 THEN CHOOSE p \in Pids : ListedBy(t, p, i) ELSE Nobody]

Ownership == INSTANCE ConsoleOwnership
               WITH owner <- OwnerIn(table), saved <- OwnerIn(disk)

(* The table implements the ownership it promises: an id moves from one    *)
(* account to another only through nobody, whatever is bound, promoted,    *)
(* dropped and lost concurrently.                                          *)
OwnershipIsRespected == Ownership!ASpec

=============================================================================
