------------------------------- MODULE Accounts --------------------------------
(***************************************************************************)
(* Who may have an account: registration, the change of address, deletion, *)
(* and the bans (src/ban.go), which delete the account and leave a         *)
(* tombstone that reserves its address.                                    *)
(*                                                                         *)
(* The tombstones have a lock and a file of their own, and their store     *)
(* only logs a write that fails.  They reserve names, friend codes, IPs    *)
(* and Discord ids as they do addresses, which stand for all.  The saves,  *)
(* the history and the sessions a ban also wipes are in other modules.     *)
(***************************************************************************)
EXTENDS AccountStore

CONSTANTS
  NoBan,      \* no tombstone
  Bannable    \* bound: the PIDs operators ban

ASSUME NoBanIsNoMail == NoBan \notin Mails /\ NoBan # NoMail

VARIABLES
  tombs,        \* the tombstones, by PID: the address each reserves
  tombsDisk,    \* bans.json
  loose,        \* history: ids deleted by owner or administrator, or unbanned
  moved,        \* history: ids that changed address while being banned
  interrupted   \* history: ids a restart found half deleted or forgot

bans == <<tombs, tombsDisk>>
vars == <<store, work, hashes, failures, restarts, bans, loose, moved, interrupted>>

Tombs == [Ids -> Mails \cup {NoMail, NoBan}]

Init ==
  /\ StoreInit
  /\ tombs = [id \in Ids |-> NoBan] /\ tombsDisk = tombs
  /\ loose = {} /\ moved = {} /\ interrupted = {}

-----------------------------------------------------------------------------

(* banStore.persist only logs its failure.                                 *)
SetTomb(id, m) ==
  /\ tombs' = [tombs EXCEPT ![id] = m]
  /\ \/ tombsDisk' = tombs' /\ UNCHANGED failures
     \/ WriteFails /\ UNCHANGED tombsDisk

Reserved(m) == \E id \in Ids : tombs[id] = m

(* Mutants: each is a later definition of the same name with one slip.     *)
BanAdd_only(w) ==
  /\ Doing(w, "ban")
  /\ SetTomb(work[w].id, work[w].mail)
  /\ Finish(w)
  /\ UNCHANGED <<store, hashes, restarts, loose, moved, interrupted>>

BlindBan_unchecked(w, id) ==
  ~Live(id) /\ Start(w, ForNobody("ban", id, NoMail, 0))

RegisterCheck(w, m) ==
  /\ ~Reserved(m)
  /\ NewHash
  /\ Start(w, ForNobody("create", Nobody, m, hashes'))
  /\ UNCHANGED <<store, failures, restarts, bans, loose, moved, interrupted>>

RegisterApply(w) ==
  /\ Doing(w, "create")
  /\ LET m == work[w].mail IN
     \/ ~Taken(m) /\ Insert(m, work[w].hash) /\ Save
     \/ Taken(m) /\ NotFound
  /\ Finish(w)
  /\ UNCHANGED <<hashes, restarts, bans, loose, moved, interrupted>>

(* changeEmail looks at no tombstone.                                      *)
RenameCheck(w, id, m) ==
  /\ Live(id) /\ accts[id].mail # m
  /\ Start(w, For(id, "rename", m, 0))
  /\ UNCHANGED <<store, hashes, failures, restarts, bans, loose, moved, interrupted>>

BeingBanned(id) ==
  tombs[id] # NoBan \/ \E v \in Workers : Doing(v, "ban") /\ work[v].id = id

RenameApply(w) ==
  /\ Doing(w, "rename")
  /\ LET id == work[w].id
         m == work[w].mail
     IN \/ /\ CanTake(id, m) /\ SetEmail(id, m) /\ Save
           /\ moved' = IF BeingBanned(id) THEN moved \cup {id} ELSE moved
        \/ ~CanTake(id, m) /\ NotFound /\ UNCHANGED moved
  /\ Finish(w)
  /\ UNCHANGED <<hashes, restarts, bans, loose, interrupted>>

(* deleteAccount and adminDeleteUser.  The password check of the first     *)
(* reads an account that is the same, or gone, when it is deleted.         *)
Delete(id) ==
  /\ Live(id)
  /\ Remove(id)
  /\ loose' = loose \cup {id}
  /\ UNCHANGED <<work, hashes, restarts, bans, moved, interrupted>>

(* banAccount for an account that is not there: a tombstone without an     *)
(* address, unless there is one already.                                   *)
BlindBan(w, id) ==
  ~Live(id) /\ tombs[id] = NoBan /\ Start(w, ForNobody("ban", id, NoMail, 0))

(* banAccount: the account is read, the tombstone added, the account       *)
(* deleted.  Operators know the PIDs that were handed out.                 *)
BanRead(w, id) ==
  /\ id < next /\ id \in Bannable
  /\ \/ Live(id) /\ Start(w, For(id, "ban", accts[id].mail, 0))
     \/ BlindBan(w, id)
  /\ UNCHANGED <<store, hashes, failures, restarts, bans, loose, moved, interrupted>>

BanAdd(w) ==
  /\ Doing(w, "ban")
  /\ SetTomb(work[w].id, work[w].mail)
  /\ work' = [work EXCEPT ![w] = IF work[w].mail = NoMail THEN Idle
                                 ELSE [work[w] EXCEPT !.at = "purge", !.mail = NoMail]]
  /\ UNCHANGED <<store, hashes, restarts, loose, moved, interrupted>>

Purge(w) ==
  /\ Doing(w, "purge")
  /\ Remove(work[w].id)
  /\ Finish(w)
  /\ UNCHANGED <<hashes, restarts, bans, loose, moved, interrupted>>

banRemove(id) == tombs[id] # NoBan /\ SetTomb(id, NoBan)

(* adminUnban: the address is free again, the account stays deleted.       *)
Unban(id) ==
  /\ banRemove(id)
  /\ loose' = loose \cup {id}
  /\ UNCHANGED <<store, work, hashes, restarts, moved, interrupted>>

WriteElsewhere == OtherSave /\ UNCHANGED <<bans, loose, moved, interrupted>>

BeingPurged == {work[v].id : v \in {v \in Workers : Doing(v, "purge")}}
Undeleted == {id \in Ids : disk.accts[id] # Gone /\ ~Live(id)}
Uncounted == {id \in Ids : disk.next <= id /\ id < next}

Restart ==
  /\ Reload
  /\ tombs' = tombsDisk
  /\ interrupted' = interrupted \cup BeingPurged \cup Undeleted \cup Uncounted
  /\ UNCHANGED <<tombsDisk, loose, moved>>

(* Everything but the steps that give an account an address, after which   *)
(* a link is mailed (AccountLinks).                                        *)
Others ==
  \/ \E w \in Workers, m \in Mails :
       RegisterCheck(w, m) \/ \E id \in Ids : RenameCheck(w, id, m)
  \/ \E w \in Workers : BanAdd(w) \/ Purge(w) \/ \E id \in Ids : BanRead(w, id)
  \/ \E id \in Ids : Delete(id) \/ Unban(id)
  \/ WriteElsewhere \/ Restart

Next == Others \/ \E w \in Workers : RegisterApply(w) \/ RenameApply(w)

Spec == Init /\ [][Next]_vars

-----------------------------------------------------------------------------
(* Properties.                                                             *)

(* The stores keep their types.                                            *)
TypeOK ==
  /\ StoreTypeOK
  /\ tombs \in Tombs /\ tombsDisk \in Tombs
  /\ loose \subseteq Ids /\ moved \subseteq Ids /\ interrupted \subseteq Ids

(* A ban that knew the account ends with the account gone (banAccount): it *)
(* stands beside a tombstone with an address only while the ban is being   *)
(* carried out, or after a restart that came in the middle or that read a  *)
(* file some earlier write had failed to bring up to date.                 *)
BannedIsGone ==
  \A id \in Ids : Live(id) /\ tombs[id] \in Mails =>
    id \in BeingPurged \cup interrupted

(* The address a tombstone reserves stays the one it reserves, whatever    *)
(* bans of the account overlap (banAccount, banStore.add, which replaces   *)
(* the entry), unless the account was also deleted otherwise or unbanned.  *)
(* A later ban may put another address in its place only when the account  *)
(* changed its address while it was being banned, or came back by a        *)
(* restart: what a ban then reserves is what it read, which may be older.  *)
KeepsAddress ==
  restarts' = restarts =>
    \A id \in Ids : tombs[id] \in Mails /\ tombs'[id] # tombs[id] =>
      \/ id \in loose'
      \/ tombs'[id] \in Mails /\ id \in moved \cup interrupted
BanKeepsItsMail == [][KeepsAddress]_vars

=============================================================================
