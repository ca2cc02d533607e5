----------------------------- MODULE AccountStore ------------------------------
(***************************************************************************)
(* The store of accounts (jsonStore in src/main.go) as registration, the   *)
(* change of address and deletion use it: the accounts, their index by     *)
(* address, the counter of ids, the file.  Accounts and AccountLinks build *)
(* on it.                                                                  *)
(*                                                                         *)
(* A method of the store runs under its lock, changes the memory and then  *)
(* writes the file; when the write fails the memory keeps the change.  A   *)
(* handler checks (a ban, a link, a password), spends a bcrypt with no     *)
(* lock held, and only then calls the method: work says what each handler  *)
(* has checked and is about to do.                                         *)
(*                                                                         *)
(* The id and the PID of an account step together and are one number here. *)
(* A password hash is salted: no two are equal, so hashes are numbered.    *)
(* Names, friend codes, guests and the boot-time freeze are left out.      *)
(***************************************************************************)
EXTENDS Naturals

CONSTANTS
  Mails,            \* addresses, lower case
  NoMail,
  Gone,             \* no account
  Workers,          \* bound: handlers running at once
  MaxIds,           \* bound: accounts created
  MaxHashes,        \* bound: passwords hashed
  MaxSaveFailures,  \* bound: writes that fail
  MaxRestarts       \* bound: restarts of the process

Ids == 1..MaxIds
Nobody == 0

(* born is the hash the account was created with: who the account is, for  *)
(* the properties, when a lost write makes an id be handed out twice.      *)
Account == [mail : Mails, hash : Nat, born : Nat, verified : BOOLEAN]

ASSUME NoMailIsNoMail == NoMail \notin Mails
ASSUME GoneIsNoAccount == Gone \notin Account
ASSUME BoundsAreNaturals ==
  /\ MaxIds \in Nat /\ MaxHashes \in Nat
  /\ MaxSaveFailures \in Nat /\ MaxRestarts \in Nat

VARIABLES
  accts,      \* Accts
  byMail,     \* the index of Accts by address
  next,       \* NextID, and NextP with it
  disk,       \* accounts.json
  work,       \* what each handler has checked and is about to do
  hashes, failures, restarts

store == <<accts, byMail, next, disk>>

(* A job: the account that was read, as its id and its born; the address   *)
(* asked for or to reserve; the hash of the new password.                  *)
Idle == [at |-> "idle"]
Jobs == {Idle} \cup
  [at : {"create", "confirm", "reset", "rename", "ban", "purge"},
   id : Ids \cup {Nobody}, born : Nat, mail : Mails \cup {NoMail}, hash : Nat]

StoreInit ==
  /\ accts = [id \in Ids |-> Gone]
  /\ byMail = [m \in Mails |-> Nobody]
  /\ next = 1
  /\ disk = [accts |-> accts, next |-> 1]
  /\ work = [w \in Workers |-> Idle]
  /\ hashes = 0 /\ failures = 0 /\ restarts = 0

-----------------------------------------------------------------------------

Live(id) == accts[id] # Gone
Taken(m) == byMail[m] # Nobody

WriteFails == failures < MaxSaveFailures /\ failures' = failures + 1
Saved == disk' = [accts |-> accts', next |-> next'] /\ UNCHANGED failures
SaveFails == WriteFails /\ UNCHANGED disk
Save == Saved \/ SaveFails
NotFound == UNCHANGED <<store, failures>>

Start(w, job) == work[w] = Idle /\ work' = [work EXCEPT ![w] = job]
Finish(w) == work' = [work EXCEPT ![w] = Idle]
Doing(w, at) == work[w].at = at

(* A job for the account that was read.                                    *)
For(id, at, m, h) ==
  [at |-> at, id |-> id, born |-> accts[id].born, mail |-> m, hash |-> h]

(* A job that read no account.                                             *)
ForNobody(at, id, m, h) == [at |-> at, id |-> id, born |-> 0, mail |-> m, hash |-> h]

(* bcrypt.GenerateFromPassword.                                            *)
NewHash == hashes < MaxHashes /\ hashes' = hashes + 1

(* Mutants: each is a later definition of the same name with one slip.     *)
SetEmail_staysVerified(id, m) ==
  /\ accts' = [accts EXCEPT ![id] = [accts[id] EXCEPT !.mail = m]]
  /\ byMail' = [byMail EXCEPT ![accts[id].mail] = Nobody, ![m] = id]
  /\ UNCHANGED next

SetEmail_keepsOldKey(id, m) ==
  /\ accts' = [accts EXCEPT ![id] = [accts[id] EXCEPT !.mail = m, !.verified = FALSE]]
  /\ byMail' = [byMail EXCEPT ![m] = id]
  /\ UNCHANGED next

(* What Create, SetEmail and the deletions do to the memory.               *)
Insert(m, h) ==
  /\ next \in Ids
  /\ accts' = [accts EXCEPT ![next] =
                 [mail |-> m, hash |-> h, born |-> h, verified |-> FALSE]]
  /\ byMail' = [byMail EXCEPT ![m] = next]
  /\ next' = next + 1

SetEmail(id, m) ==
  /\ accts' = [accts EXCEPT ![id] = [accts[id] EXCEPT !.mail = m, !.verified = FALSE]]
  /\ byMail' = [byMail EXCEPT ![accts[id].mail] = Nobody, ![m] = id]
  /\ UNCHANGED next

(* SetPassword and SetEmailVerified.                                       *)
Put(id, a) == accts' = [accts EXCEPT ![id] = a] /\ UNCHANGED <<byMail, next>>

Drop(id) ==
  /\ accts' = [accts EXCEPT ![id] = Gone]
  /\ byMail' = [byMail EXCEPT ![accts[id].mail] = Nobody]
  /\ UNCHANGED next

(* DeleteByPID and SoftDeleteByPID.                                        *)
Remove(id) ==
  \/ Live(id) /\ Drop(id) /\ Save
  \/ ~Live(id) /\ NotFound

(* The address is free or the account's own.                               *)
CanTake(id, m) == Live(id) /\ byMail[m] \in {Nobody, id}

(* Every other method of the store writes the whole file too.              *)
OtherSave ==
  /\ disk # [accts |-> accts, next |-> next]
  /\ disk' = [accts |-> accts, next |-> next]
  /\ UNCHANGED <<accts, byMail, next, work, hashes, failures, restarts>>

(* The index newJSONStore builds: of two accounts with one address, the    *)
(* last in the order of a map.                                             *)
Holders(a, m) == {id \in Ids : a[id] # Gone /\ a[id].mail = m}
Indexes(a) ==
  {x \in [Mails -> Ids \cup {Nobody}] : \A m \in Mails :
     x[m] \in IF Holders(a, m) = {} THEN {Nobody} ELSE Holders(a, m)}

Reload ==
  /\ restarts < MaxRestarts
  /\ restarts' = restarts + 1
  /\ accts' = disk.accts /\ next' = disk.next
  /\ byMail' \in Indexes(disk.accts)
  /\ work' = [w \in Workers |-> Idle]
  /\ UNCHANGED <<disk, hashes, failures>>

-----------------------------------------------------------------------------
(* Properties.                                                             *)

AcctsOK(a, n) ==
  /\ a \in [Ids -> Account \cup {Gone}]
  /\ n \in 1..(MaxIds + 1)
  /\ \A id \in Ids : a[id] # Gone => id < n

(* The counter is ahead of every account, in memory and in the file.       *)
StoreTypeOK ==
  /\ AcctsOK(accts, next)
  /\ disk = [accts |-> disk.accts, next |-> disk.next] /\ AcctsOK(disk.accts, disk.next)
  /\ byMail \in [Mails -> Ids \cup {Nobody}]
  /\ work \in [Workers -> Jobs]
  /\ hashes \in 0..MaxHashes /\ failures \in 0..MaxSaveFailures
  /\ restarts \in 0..MaxRestarts

(* Only the e-mail, the login key, stays unique (Create, SetEmail): the    *)
(* index leads from an address to the account that has it and never to one *)
(* that is gone, whichever registrations, changes and deletions race, and  *)
(* no two accounts of the file share an address.                           *)
MailFindsItsAccount ==
  /\ \A m \in Mails, id \in Ids :
       byMail[m] = id <=> Live(id) /\ accts[id].mail = m
  /\ \A m \in Mails, i, j \in Ids :
       i \in Holders(disk.accts, m) /\ j \in Holders(disk.accts, m) => i = j

(* A handler changes the account it read or none: the id it acts on is not *)
(* somebody else's by then.  For a password reset "it" is the account the  *)
(* link was mailed for, even when a lost write has made the process hand   *)
(* its id out again (NextID, peekActionTokenID, verifyActionToken).        *)
ActsOnWhomItRead ==
  \A w \in Workers :
    work[w].at \in {"confirm", "reset", "rename", "purge"} =>
      ~Live(work[w].id) \/ accts[work[w].id].born = work[w].born

=============================================================================
