----------------------------- MODULE AccountsProofs -----------------------------
(***************************************************************************)
(* Proofs about Accounts and AccountLinks, for any addresses, number of    *)
(* concurrent handlers, failed writes and restarts.  Of Accounts: an       *)
(* address leads to one account, handlers act on whom they read, a ban     *)
(* ends with its account gone and its tombstone keeps the address.  Of     *)
(* AccountLinks: all this holds beside the links, a link acts on the       *)
(* account it was mailed for, an address is verified because a link was    *)
(* opened there, and a link that has set a password starts no reset.       *)
(***************************************************************************)
EXTENDS AccountLinks, TLAPS

-----------------------------------------------------------------------------
(* The store: what its methods, a write of its file and a restart do to    *)
(* the types, to the index by address and to who the accounts are.         *)
Unique(a) ==
  \A m \in Mails, i, j \in Ids : i \in Holders(a, m) /\ j \in Holders(a, m) => i = j

Indexed(a, x) ==
  \A m \in Mails, id \in Ids : x[m] = id <=> a[id] # Gone /\ a[id].mail = m

(* The part of the types that the methods of the store change.             *)
FilesOK ==
  /\ AcctsOK(accts, next)
  /\ disk = [accts |-> disk.accts, next |-> disk.next] /\ AcctsOK(disk.accts, disk.next)
  /\ byMail \in [Mails -> Ids \cup {Nobody}]
  /\ failures \in 0..MaxSaveFailures

StoreInv == FilesOK /\ MailFindsItsAccount

(* The account of an id that was handed out stays who it is, or goes.      *)
SameOrGone ==
  /\ next <= next'
  /\ \A id \in Ids : id < next =>
       \/ accts'[id] = Gone
       \/ Live(id) /\ accts'[id].born = accts[id].born

(* A job acts on an id that was handed out, and on the account it read or  *)
(* none.  A ban that found no account acts on none.                        *)
Acts == {"confirm", "reset", "rename", "ban", "purge"}

JobOK(j) ==
  /\ j.at \in {"create", "rename"} => j.mail \in Mails
  /\ j.at \in Acts =>
       /\ j.id \in Ids /\ j.id < next
       /\ j.at # "ban" \/ j.mail \in Mails => ~Live(j.id) \/ accts[j.id].born = j.born

JobsOK == work \in [Workers -> Jobs] /\ \A w \in Workers : JobOK(work[w])

-----------------------------------------------------------------------------

LEMMA NobodyIsNoId == Nobody \notin Ids
BY DEF Nobody, Ids

LEMMA MailFinds ==
  MailFindsItsAccount <=> Indexed(accts, byMail) /\ Unique(disk.accts)
BY DEF MailFindsItsAccount, Indexed, Unique, Live

LEMMA IndexedIsUnique ==
  ASSUME NEW a, NEW x, Indexed(a, x)
  PROVE  Unique(a)
BY DEF Indexed, Unique, Holders

(* What a change of the memory must keep for the store to be in order once *)
(* the file is written or its write has failed.                            *)
LEMMA SaveKeepsStore ==
  ASSUME StoreInv, AcctsOK(accts', next'), byMail' \in [Mails -> Ids \cup {Nobody}],
         Indexed(accts', byMail'), Save
  PROVE  StoreInv'
<1>1. Unique(accts')
  BY IndexedIsUnique
<1>2. CASE Saved
  <2>1. disk' = [accts |-> accts', next |-> next'] /\ failures' = failures
    BY <1>2 DEF Saved
  <2>2. disk'.accts = accts' /\ disk'.next = next'
    BY <2>1
  <2>3. FilesOK'
    BY <2>1, <2>2 DEF StoreInv, FilesOK
  <2>4. QED  BY <1>1, <2>2, <2>3 DEF StoreInv, Indexed, Unique, MailFindsItsAccount, Live
<1>3. CASE SaveFails
  <2>1. disk' = disk /\ failures' \in 0..MaxSaveFailures
    BY <1>3, BoundsAreNaturals DEF SaveFails, WriteFails, StoreInv, FilesOK
  <2>2. FilesOK'
    BY <2>1 DEF StoreInv, FilesOK
  <2>3. QED  BY <2>1, <2>2 DEF StoreInv, Indexed, MailFindsItsAccount, Live
<1>4. QED  BY <1>2, <1>3 DEF Save

LEMMA InsertKeepsStore ==
  ASSUME StoreInv, NEW m \in Mails, NEW h \in Nat, ~Taken(m), Insert(m, h), Save
  PROVE  StoreInv' /\ SameOrGone
<1> DEFINE a == [mail |-> m, hash |-> h, born |-> h, verified |-> FALSE]
<1>1. a \in Account /\ a.mail = m
  BY DEF Account
<1>2. /\ next \in Ids /\ next' = next + 1
      /\ accts' = [accts EXCEPT ![next] = a]
      /\ byMail' = [byMail EXCEPT ![m] = next]
  BY DEF Insert
<1> HIDE DEF a
<1>3. a # Gone
  BY <1>1, GoneIsNoAccount
<1>4. accts[next] = Gone
  BY <1>2 DEF StoreInv, FilesOK, AcctsOK, Ids
<1>5. AcctsOK(accts', next')
  BY <1>1, <1>2, BoundsAreNaturals DEF StoreInv, FilesOK, AcctsOK, Ids
<1>6. byMail' \in [Mails -> Ids \cup {Nobody}]
  BY <1>2 DEF StoreInv, FilesOK
<1>7. Indexed(accts', byMail')
  <2> SUFFICES ASSUME NEW n \in Mails, NEW id \in Ids
               PROVE  byMail'[n] = id <=> accts'[id] # Gone /\ accts'[id].mail = n
    BY DEF Indexed
  <2>1. byMail[n] = id <=> accts[id] # Gone /\ accts[id].mail = n
    BY DEF StoreInv, MailFindsItsAccount, Live
  <2>2. byMail'[n] = IF n = m THEN next ELSE byMail[n]
    BY <1>2 DEF StoreInv, FilesOK
  <2>3. accts'[id] = IF id = next THEN a ELSE accts[id]
    BY <1>2 DEF StoreInv, FilesOK, AcctsOK
  <2>4. byMail[m] = Nobody
    BY DEF Taken
  <2>5. CASE id = next
    BY <1>1, <1>3, <1>4, <2>1, <2>2, <2>3, <2>5
  <2>6. CASE id # next
    BY <2>1, <2>2, <2>3, <2>4, <2>6, NobodyIsNoId
  <2>7. QED  BY <2>5, <2>6
<1>8. SameOrGone
  BY <1>2 DEF SameOrGone, StoreInv, FilesOK, AcctsOK, Live, Ids
<1>9. QED  BY <1>5, <1>6, <1>7, <1>8, SaveKeepsStore

LEMMA SetEmailKeepsStore ==
  ASSUME StoreInv, NEW id \in Ids, NEW m \in Mails, CanTake(id, m), SetEmail(id, m), Save
  PROVE  StoreInv' /\ SameOrGone
<1> DEFINE a == [accts[id] EXCEPT !.mail = m, !.verified = FALSE]
           old == accts[id].mail
<1>1. Live(id) /\ accts[id] \in Account
  BY DEF CanTake, Live, StoreInv, FilesOK, AcctsOK
<1>2. a \in Account /\ a.mail = m /\ a.born = accts[id].born /\ old \in Mails
  BY <1>1 DEF Account
<1>3. /\ next' = next
      /\ accts' = [accts EXCEPT ![id] = a]
      /\ byMail' = [byMail EXCEPT ![old] = Nobody, ![m] = id]
  BY DEF SetEmail
<1>4. byMail[m] \in {Nobody, id} /\ byMail[old] = id
  BY <1>1, <1>2 DEF CanTake, StoreInv, MailFindsItsAccount
<1> HIDE DEF a, old
<1>5. a # Gone
  BY <1>2, GoneIsNoAccount
<1>6. AcctsOK(accts', next')
  BY <1>1, <1>2, <1>3 DEF StoreInv, FilesOK, AcctsOK, Live
<1>7. byMail' \in [Mails -> Ids \cup {Nobody}]
  BY <1>3 DEF StoreInv, FilesOK
<1>8. Indexed(accts', byMail')
  <2> SUFFICES ASSUME NEW n \in Mails, NEW i \in Ids
               PROVE  byMail'[n] = i <=> accts'[i] # Gone /\ accts'[i].mail = n
    BY DEF Indexed
  <2>1. byMail[n] = i <=> accts[i] # Gone /\ accts[i].mail = n
    BY DEF StoreInv, MailFindsItsAccount, Live
  <2>2. byMail'[n] = IF n = m THEN id ELSE IF n = old THEN Nobody ELSE byMail[n]
    BY <1>2, <1>3 DEF StoreInv, FilesOK
  <2>3. accts'[i] = IF i = id THEN a ELSE accts[i]
    BY <1>3 DEF StoreInv, FilesOK, AcctsOK
  <2>4. byMail[n] = id => n = old
    BY <1>1, <1>2 DEF StoreInv, MailFindsItsAccount, old
  <2>5. CASE i = id
    BY <1>2, <1>5, <2>2, <2>3, <2>4, <2>5, NobodyIsNoId
  <2>6. CASE i # id
    BY <1>4, <2>1, <2>2, <2>3, <2>6, NobodyIsNoId
  <2>7. QED  BY <2>5, <2>6
<1>9. SameOrGone
  BY <1>1, <1>2, <1>3 DEF SameOrGone, StoreInv, FilesOK, AcctsOK, Live
<1>10. QED  BY <1>6, <1>7, <1>8, <1>9, SaveKeepsStore

LEMMA PutKeepsStore ==
  ASSUME StoreInv, NEW id \in Ids, Live(id), NEW a \in Account,
         a.mail = accts[id].mail, a.born = accts[id].born, Put(id, a), Save
  PROVE  StoreInv' /\ SameOrGone
<1>1. a # Gone
  BY GoneIsNoAccount
<1>2. accts' = [accts EXCEPT ![id] = a] /\ byMail' = byMail /\ next' = next
  BY DEF Put
<1>3. AcctsOK(accts', next') /\ byMail' \in [Mails -> Ids \cup {Nobody}]
  BY <1>2 DEF StoreInv, FilesOK, AcctsOK, Live
<1>4. \A i \in Ids : accts'[i] = IF i = id THEN a ELSE accts[i]
  BY <1>2 DEF StoreInv, FilesOK, AcctsOK
<1>5. Indexed(accts', byMail')
  BY <1>1, <1>2, <1>4 DEF Indexed, StoreInv, MailFindsItsAccount, Live
<1>6. SameOrGone
  BY <1>2, <1>4 DEF SameOrGone, StoreInv, FilesOK, AcctsOK, Live
<1>7. QED  BY <1>3, <1>5, <1>6, SaveKeepsStore

LEMMA RemoveKeepsStore ==
  ASSUME StoreInv, NEW id \in Ids, Remove(id)
  PROVE  StoreInv' /\ SameOrGone /\ ~Live(id)'
<1>1. CASE Live(id) /\ Drop(id) /\ Save
  <2> DEFINE old == accts[id].mail
  <2>1. old \in Mails /\ byMail[old] = id
    BY <1>1 DEF StoreInv, MailFindsItsAccount, FilesOK, AcctsOK, Live, Account
  <2>2. /\ accts' = [accts EXCEPT ![id] = Gone] /\ next' = next
        /\ byMail' = [byMail EXCEPT ![old] = Nobody]
    BY <1>1 DEF Drop
  <2>3. AcctsOK(accts', next') /\ byMail' \in [Mails -> Ids \cup {Nobody}]
    BY <2>2 DEF StoreInv, FilesOK, AcctsOK
  <2>4. \A i \in Ids : accts'[i] = IF i = id THEN Gone ELSE accts[i]
    BY <2>2 DEF StoreInv, FilesOK, AcctsOK
  <2>5. \A n \in Mails : byMail'[n] = IF n = old THEN Nobody ELSE byMail[n]
    BY <2>1, <2>2 DEF StoreInv, FilesOK
  <2>6. \A n \in Mails : byMail[n] = id => n = old
    BY DEF StoreInv, MailFindsItsAccount
  <2>7. Indexed(accts', byMail')
    <3> HIDE DEF old
    <3> SUFFICES ASSUME NEW n \in Mails, NEW i \in Ids
                 PROVE  byMail'[n] = i <=> accts'[i] # Gone /\ accts'[i].mail = n
      BY DEF Indexed
    <3>1. byMail[n] = i <=> accts[i] # Gone /\ accts[i].mail = n
      BY DEF StoreInv, MailFindsItsAccount, Live
    <3>2. QED  BY <2>1, <2>4, <2>5, <2>6, <3>1, NobodyIsNoId
  <2>8. SameOrGone /\ ~Live(id)'
    BY <2>2, <2>4 DEF SameOrGone, StoreInv, FilesOK, AcctsOK, Live
  <2>9. QED  BY <1>1, <2>3, <2>7, <2>8, SaveKeepsStore
<1>2. CASE ~Live(id) /\ NotFound
  BY <1>2 DEF NotFound, store, StoreInv, FilesOK, AcctsOK, MailFindsItsAccount, SameOrGone, Live
<1>3. QED  BY <1>1, <1>2 DEF Remove

LEMMA IdleKeepsStore ==
  ASSUME StoreInv, UNCHANGED <<store, failures>>
  PROVE  StoreInv' /\ SameOrGone
BY DEF store, StoreInv, FilesOK, AcctsOK, MailFindsItsAccount, SameOrGone, Live

LEMMA OtherSaveKeepsStore ==
  ASSUME StoreInv, OtherSave
  PROVE  StoreInv' /\ SameOrGone
<1>1. /\ UNCHANGED <<accts, byMail, next, failures>>
      /\ disk' = [accts |-> accts', next |-> next']
  BY DEF OtherSave
<1>2. AcctsOK(accts', next') /\ byMail' \in [Mails -> Ids \cup {Nobody}] /\ Indexed(accts', byMail')
  BY <1>1, MailFinds DEF StoreInv, FilesOK
<1>3. Save
  BY <1>1 DEF Save, Saved
<1>4. SameOrGone
  BY <1>1 DEF SameOrGone, StoreInv, FilesOK, AcctsOK, Live
<1>5. QED  BY <1>2, <1>3, <1>4, SaveKeepsStore

LEMMA ReloadKeepsStore ==
  ASSUME StoreInv, Reload
  PROVE  StoreInv'
<1>1. /\ accts' = disk.accts /\ next' = disk.next /\ UNCHANGED <<disk, failures>>
      /\ byMail' \in Indexes(disk.accts)
  BY DEF Reload
<1>2. byMail' \in [Mails -> Ids \cup {Nobody}]
  BY <1>1 DEF Indexes
<1>3. FilesOK'
  BY <1>1, <1>2 DEF StoreInv, FilesOK
<1>4. Unique(disk.accts)
  BY MailFinds DEF StoreInv
<1>5. Indexed(accts', byMail')
  <2> SUFFICES ASSUME NEW m \in Mails, NEW id \in Ids
               PROVE  byMail'[m] = id <=> id \in Holders(disk.accts, m)
    BY <1>1 DEF Indexed, Holders
  <2>1. byMail'[m] \in IF Holders(disk.accts, m) = {} THEN {Nobody} ELSE Holders(disk.accts, m)
    BY <1>1 DEF Indexes
  <2>2. Holders(disk.accts, m) \subseteq Ids
    BY DEF Holders
  <2>3. QED  BY <1>4, <2>1, <2>2, NobodyIsNoId DEF Unique
<1>6. MailFindsItsAccount'
  BY <1>1, <1>4, <1>5 DEF MailFindsItsAccount, Indexed, Unique, Live
<1>7. QED  BY <1>3, <1>6 DEF StoreInv

(* A job that was in order stays so through a step of the store, and one   *)
(* that is set up in the step is in order when it was before the step.     *)
LEMMA JobStays ==
  ASSUME StoreInv, StoreInv', SameOrGone, NEW j \in Jobs, JobOK(j)
  PROVE  JobOK(j)'
<1> SUFFICES ASSUME j.at \in Acts PROVE JobOK(j)'
  BY DEF JobOK, Live
<1>1. j.id \in Ids /\ j.id < next
  BY DEF JobOK
<1>2. j.id < next'
  BY <1>1 DEF SameOrGone, StoreInv, FilesOK, AcctsOK, Ids
<1>3. accts'[j.id] = Gone \/ (Live(j.id) /\ accts'[j.id].born = accts[j.id].born)
  BY <1>1 DEF SameOrGone
<1>4. QED  BY <1>1, <1>2, <1>3 DEF JobOK, Live

LEMMA JobsStay ==
  ASSUME StoreInv, StoreInv', SameOrGone, JobsOK, UNCHANGED work
  PROVE  JobsOK'
<1> SUFFICES ASSUME NEW v \in Workers PROVE JobOK(work[v])'
  BY DEF JobsOK
<1>1. PICK j \in Jobs : j = work[v]
  BY DEF JobsOK
<1>2. JobOK(j)'
  BY <1>1, JobStays DEF JobsOK
<1>3. QED  BY <1>1, <1>2 DEF JobOK, Live

LEMMA JobChanges ==
  ASSUME StoreInv, StoreInv', SameOrGone, JobsOK, NEW w \in Workers, NEW job \in Jobs, JobOK(job),
         work' = [work EXCEPT ![w] = job]
  PROVE  JobsOK'
<1>1. work' \in [Workers -> Jobs]
  BY DEF JobsOK
<1> SUFFICES ASSUME NEW v \in Workers PROVE JobOK(work[v])'
  BY <1>1 DEF JobsOK
<1>2. PICK j \in Jobs : j = work'[v]
  BY <1>1
<1>3. JobOK(j)
  BY <1>2 DEF JobsOK
<1>4. JobOK(j)'
  BY <1>3, JobStays
<1>5. QED  BY <1>2, <1>4 DEF JobOK, Live

LEMMA FinishKeepsJobs ==
  ASSUME StoreInv, StoreInv', SameOrGone, JobsOK, NEW w \in Workers, Finish(w)
  PROVE  JobsOK'
<1>1. Idle \in Jobs /\ JobOK(Idle)
  BY DEF Jobs, JobOK, Idle, Acts
<1>2. work' = [work EXCEPT ![w] = Idle]
  BY DEF Finish
<1>3. QED  BY <1>1, <1>2, JobChanges

(* The restart leaves no job.                                              *)
LEMMA ReloadKeepsJobs ==
  ASSUME Reload
  PROVE  JobsOK'
<1>1. work' = [w \in Workers |-> Idle]
  BY DEF Reload
<1>2. Idle \in Jobs
  BY DEF Jobs
<1>3. \A w \in Workers : work'[w].at \notin Acts \cup {"create"}
  BY <1>1 DEF Idle, Acts
<1>4. QED  BY <1>1, <1>2, <1>3 DEF JobsOK, JobOK, Acts

(* A handler that read an account leaves a job in order.                   *)
LEMMA ForIsOK ==
  ASSUME StoreInv, NEW id \in Ids, Live(id),
         NEW at \in {"confirm", "rename", "ban"}, NEW m \in Mails \cup {NoMail},
         at = "rename" => m \in Mails
  PROVE  For(id, at, m, 0) \in Jobs /\ JobOK(For(id, at, m, 0))
<1>1. accts[id] \in Account /\ id < next
  BY DEF Live, StoreInv, FilesOK, AcctsOK
<1>2. accts[id].born \in Nat
  BY <1>1 DEF Account
<1>3. QED  BY <1>1, <1>2 DEF For, Jobs, JobOK, Acts

LEMMA JobsActOnWhomTheyRead ==
  ASSUME JobsOK
  PROVE  ActsOnWhomItRead
BY DEF JobsOK, JobOK, Acts, ActsOnWhomItRead

-----------------------------------------------------------------------------
(* Accounts and bans.                                                      *)

(* BannedIsGone looks at the tombstones in memory and at live accounts; a  *)
(* restart reads those of the file, and a registration brings an id to     *)
(* life, so the invariant is about both copies and about the ids to come.  *)
Banned(id) == tombs[id] \in Mails \/ tombsDisk[id] \in Mails

BannedAreLeaving ==
  \A id \in Ids : Banned(id) /\ (Live(id) \/ next <= id) =>
    id \in BeingPurged \cup interrupted

BansOK ==
  /\ tombs \in Tombs /\ tombsDisk \in Tombs
  /\ loose \subseteq Ids /\ moved \subseteq Ids /\ interrupted \subseteq Ids
  /\ BannedAreLeaving

IInv ==
  /\ StoreInv /\ JobsOK /\ BansOK
  /\ hashes \in 0..MaxHashes /\ restarts \in 0..MaxRestarts

-----------------------------------------------------------------------------

LEMMA IInvHolds ==
  ASSUME IInv
  PROVE  TypeOK /\ MailFindsItsAccount /\ ActsOnWhomItRead /\ BannedIsGone
BY JobsActOnWhomTheyRead
   DEF IInv, TypeOK, StoreTypeOK, StoreInv, FilesOK, JobsOK, BansOK, BannedAreLeaving,
       Banned, BannedIsGone

(* A banned account stays on its way out as long as no tombstone is added, *)
(* nothing comes to life but the next id, and the purge that ends has      *)
(* deleted its account.                                                    *)
LEMMA BansStay ==
  ASSUME IInv, StoreInv', UNCHANGED <<tombs, tombsDisk, loose, interrupted>>,
         moved' \subseteq Ids, next <= next',
         \A id \in Ids : Live(id)' => Live(id) \/ next <= id,
         \A id \in Ids : id \in BeingPurged =>
           id \in BeingPurged' \/ (~Live(id)' /\ id < next)
  PROVE  BansOK'
<1> SUFFICES ASSUME NEW id \in Ids, Banned(id)', Live(id)' \/ next' <= id
             PROVE  id \in BeingPurged' \cup interrupted'
  BY DEF IInv, BansOK, BannedAreLeaving
<1>1. Banned(id)
  BY DEF Banned
<1>2. next \in Nat /\ next' \in Nat /\ id \in Nat
  BY BoundsAreNaturals DEF IInv, StoreInv, FilesOK, AcctsOK, Ids
<1>3. Live(id) \/ next <= id
  BY <1>2
<1>4. id \in BeingPurged \cup interrupted
  BY <1>1, <1>3 DEF IInv, BansOK, BannedAreLeaving
<1>5. QED  BY <1>2, <1>4

(* Jobs that are set up or end, none of them a purge.                      *)
LEMMA OthersArePurged ==
  ASSUME IInv, NEW w \in Workers, NEW job, work' = [work EXCEPT ![w] = job],
         ~Doing(w, "purge")
  PROVE  BeingPurged \subseteq BeingPurged'
<1> SUFFICES ASSUME NEW v \in Workers, Doing(v, "purge")
             PROVE  work[v].id \in BeingPurged'
  BY DEF BeingPurged
<1>1. work'[v] = work[v]
  BY DEF IInv, JobsOK
<1>2. QED  BY <1>1 DEF BeingPurged, Doing

LEMMA WhatLives ==
  ASSUME IInv, SameOrGone
  PROVE  /\ next <= next'
         /\ \A id \in Ids : Live(id)' => Live(id) \/ next <= id
BY BoundsAreNaturals DEF SameOrGone, Live, IInv, StoreInv, FilesOK, AcctsOK, Ids

(* The pieces of the invariant, put together after a step that sets up or  *)
(* ends a job other than a purge.                                          *)
LEMMA JobStep ==
  ASSUME IInv, StoreInv', SameOrGone, NEW w \in Workers, NEW job \in Jobs, JobOK(job),
         work' = [work EXCEPT ![w] = job], ~Doing(w, "purge"),
         hashes' \in 0..MaxHashes, restarts' = restarts,
         moved' \subseteq Ids, UNCHANGED <<tombs, tombsDisk, loose, interrupted>>
  PROVE  IInv'
<1>1. JobsOK'
  BY JobChanges DEF IInv
<1>2. BansOK'
  BY BansStay, OthersArePurged, WhatLives
<1>3. QED  BY <1>1, <1>2 DEF IInv

LEMMA IdleIsOK == Idle \in Jobs /\ JobOK(Idle)
BY DEF Jobs, JobOK, Idle, Acts

-----------------------------------------------------------------------------

LEMMA InitHolds == Init => IInv
<1> SUFFICES ASSUME Init PROVE IInv
  OBVIOUS
<1> USE BoundsAreNaturals, NobodyIsNoId
<1>1. \A id \in Ids : accts[id] = Gone /\ disk.accts[id] = Gone
  BY DEF Init, StoreInit
<1>2. AcctsOK(accts, next) /\ AcctsOK(disk.accts, disk.next)
  BY DEF Init, StoreInit, AcctsOK
<1>3. MailFindsItsAccount
  BY <1>1 DEF Init, StoreInit, MailFindsItsAccount, Live, Holders
<1>4. disk = [accts |-> disk.accts, next |-> disk.next]
  BY DEF Init, StoreInit
<1>5. FilesOK
  BY <1>2, <1>4 DEF Init, StoreInit, FilesOK
<1>6. JobsOK
  BY IdleIsOK DEF Init, StoreInit, JobsOK
<1>7. tombs \in Tombs /\ tombsDisk \in Tombs
  BY DEF Init, Tombs
<1>8. BansOK
  BY <1>7, NoBanIsNoMail DEF Init, BansOK, BannedAreLeaving, Banned
<1>9. QED  BY <1>3, <1>5, <1>6, <1>8 DEF Init, StoreInit, IInv, StoreInv

LEMMA RegisterCheckKeeps ==
  ASSUME IInv, NEW w \in Workers, NEW m \in Mails, RegisterCheck(w, m)
  PROVE  IInv'
<1> DEFINE job == ForNobody("create", Nobody, m, hashes')
<1>1. hashes' \in 0..MaxHashes /\ work[w] = Idle /\ work' = [work EXCEPT ![w] = job]
  BY BoundsAreNaturals DEF RegisterCheck, NewHash, Start, IInv
<1>2. job \in Jobs /\ JobOK(job)
  BY <1>1 DEF ForNobody, Jobs, JobOK, Acts
<1>3. StoreInv' /\ SameOrGone
  BY IdleKeepsStore DEF RegisterCheck, IInv, store
<1> HIDE DEF job
<1>4. ~Doing(w, "purge")
  BY <1>1 DEF Doing, Idle
<1>5. /\ hashes' \in 0..MaxHashes /\ restarts' = restarts
      /\ moved' \subseteq Ids /\ UNCHANGED <<tombs, tombsDisk, loose, interrupted>>
  BY <1>1 DEF RegisterCheck, bans, IInv, BansOK
<1>6. QED  BY <1>1, <1>2, <1>3, <1>4, <1>5, JobStep

LEMMA RegisterApplyKeeps ==
  ASSUME IInv, NEW w \in Workers, RegisterApply(w)
  PROVE  IInv'
<1>1. work[w] \in Jobs /\ JobOK(work[w]) /\ work[w].at = "create"
  BY DEF RegisterApply, Doing, IInv, JobsOK
<1>2. work[w].mail \in Mails /\ work[w].hash \in Nat
  BY <1>1 DEF Jobs, Idle, JobOK
<1>3. StoreInv' /\ SameOrGone
  BY <1>2, InsertKeepsStore, IdleKeepsStore DEF IInv, RegisterApply, NotFound
<1>4. work' = [work EXCEPT ![w] = Idle] /\ ~Doing(w, "purge")
  BY <1>1 DEF RegisterApply, Finish, Doing
<1>5. QED  BY <1>3, <1>4, JobStep, IdleIsOK DEF RegisterApply, bans, IInv, BansOK

LEMMA RenameCheckKeeps ==
  ASSUME IInv, NEW w \in Workers, NEW id \in Ids, NEW m \in Mails, RenameCheck(w, id, m)
  PROVE  IInv'
<1> DEFINE job == For(id, "rename", m, 0)
<1>1. Live(id) /\ work[w] = Idle /\ work' = [work EXCEPT ![w] = job]
  BY DEF RenameCheck, Start
<1>2. job \in Jobs /\ JobOK(job)
  BY <1>1, ForIsOK DEF IInv
<1>3. StoreInv' /\ SameOrGone
  BY IdleKeepsStore DEF RenameCheck, IInv, store
<1> HIDE DEF job
<1>4. ~Doing(w, "purge")
  BY <1>1 DEF Doing, Idle
<1>5. /\ hashes' \in 0..MaxHashes /\ restarts' = restarts
      /\ moved' \subseteq Ids /\ UNCHANGED <<tombs, tombsDisk, loose, interrupted>>
  BY <1>1 DEF RenameCheck, bans, IInv, BansOK
<1>6. QED  BY <1>1, <1>2, <1>3, <1>4, <1>5, JobStep

LEMMA RenameApplyKeeps ==
  ASSUME IInv, NEW w \in Workers, RenameApply(w)
  PROVE  IInv'
<1>1. work[w] \in Jobs /\ JobOK(work[w]) /\ work[w].at = "rename"
  BY DEF RenameApply, Doing, IInv, JobsOK
<1>2. work[w].mail \in Mails /\ work[w].id \in Ids
  BY <1>1 DEF JobOK, Acts
<1>3. StoreInv' /\ SameOrGone
  BY <1>2, SetEmailKeepsStore, IdleKeepsStore DEF IInv, RenameApply, NotFound
<1>4. work' = [work EXCEPT ![w] = Idle] /\ ~Doing(w, "purge")
  BY <1>1 DEF RenameApply, Finish, Doing
<1>5. moved' \subseteq Ids
  BY <1>2 DEF RenameApply, IInv, BansOK
<1>6. QED  BY <1>3, <1>4, <1>5, JobStep, IdleIsOK DEF RenameApply, bans, IInv

LEMMA DeleteKeeps ==
  ASSUME IInv, NEW id \in Ids, Delete(id)
  PROVE  IInv'
<1>1. StoreInv' /\ SameOrGone
  BY RemoveKeepsStore DEF Delete, IInv
<1>2. BansOK
  BY DEF IInv
<1>3. tombs' = tombs /\ tombsDisk' = tombsDisk /\ interrupted' = interrupted /\ BeingPurged' = BeingPurged
  BY DEF Delete, bans, BeingPurged, Doing
<1>4. loose' \subseteq Ids
  BY DEF Delete, IInv, BansOK
<1>5. BannedAreLeaving'
  <2> SUFFICES ASSUME NEW i \in Ids, Banned(i)', Live(i)' \/ next' <= i
               PROVE  i \in BeingPurged' \cup interrupted'
    BY DEF BannedAreLeaving
  <2>1. Banned(i)
    BY <1>3 DEF Banned
  <2>2. next' = next
    BY DEF Delete, Remove, Drop, NotFound, store
  <2>3. Live(i) \/ next <= i
    BY <1>1, <2>2, WhatLives
  <2>4. QED  BY <1>2, <1>3, <2>1, <2>3 DEF BansOK, BannedAreLeaving
<1>6. JobsOK'
  BY <1>1, JobsStay DEF Delete, IInv
<1>7. QED  BY <1>1, <1>2, <1>3, <1>4, <1>5, <1>6 DEF IInv, BansOK, Delete

LEMMA BanReadKeeps ==
  ASSUME IInv, NEW w \in Workers, NEW id \in Ids, BanRead(w, id)
  PROVE  IInv'
<1>1. PICK job : /\ work[w] = Idle /\ work' = [work EXCEPT ![w] = job]
                 /\ \/ Live(id) /\ job = For(id, "ban", accts[id].mail, 0)
                    \/ ~Live(id) /\ job = ForNobody("ban", id, NoMail, 0)
  BY DEF BanRead, BlindBan, Start
<1>2. job \in Jobs /\ JobOK(job)
  <2>1. CASE Live(id) /\ job = For(id, "ban", accts[id].mail, 0)
    <3>1. accts[id].mail \in Mails
      BY <2>1 DEF Live, IInv, StoreInv, FilesOK, AcctsOK, Account
    <3>2. QED  BY <2>1, <3>1, ForIsOK DEF IInv
  <2>2. CASE ~Live(id) /\ job = ForNobody("ban", id, NoMail, 0)
    BY <2>2 DEF BanRead, ForNobody, Jobs, JobOK, Acts
  <2>3. QED  BY <1>1, <2>1, <2>2
<1>3. StoreInv' /\ SameOrGone
  BY IdleKeepsStore DEF BanRead, IInv, store
<1>4. ~Doing(w, "purge")
  BY <1>1 DEF Doing, Idle
<1>5. /\ hashes' \in 0..MaxHashes /\ restarts' = restarts
      /\ moved' \subseteq Ids /\ UNCHANGED <<tombs, tombsDisk, loose, interrupted>>
  BY <1>1 DEF BanRead, bans, IInv, BansOK
<1>6. QED  BY <1>1, <1>2, <1>3, <1>4, <1>5, JobStep

(* Adding a tombstone with an address hands the account to its purge.      *)
LEMMA BanAddKeeps ==
  ASSUME IInv, NEW w \in Workers, BanAdd(w)
  PROVE  IInv'
<1>1. PICK j \in Jobs : j = work[w] /\ JobOK(j) /\ j.at = "ban"
  BY DEF BanAdd, Doing, IInv, JobsOK
<1>2. PICK job : /\ work' = [work EXCEPT ![w] = job]
                 /\ job = IF j.mail = NoMail THEN Idle
                          ELSE [j EXCEPT !.at = "purge", !.mail = NoMail]
  BY <1>1 DEF BanAdd
<1>3. j \in [at : {"ban"}, id : Ids, born : Nat, mail : Mails \cup {NoMail}, hash : Nat]
  BY <1>1 DEF Jobs, Idle, JobOK, Acts
<1>4. job \in Jobs /\ JobOK(job)
  <2>1. CASE j.mail = NoMail
    BY <1>2, <2>1, IdleIsOK
  <2>2. CASE j.mail # NoMail
    BY <1>1, <1>2, <1>3, <2>2 DEF Jobs, JobOK, Acts
  <2>3. QED  BY <2>1, <2>2
<1>5. StoreInv' /\ SameOrGone
  <2>1. failures' \in 0..MaxSaveFailures
    BY BoundsAreNaturals DEF BanAdd, SetTomb, WriteFails, IInv, StoreInv, FilesOK
  <2>2. QED
    BY <2>1 DEF BanAdd, store, IInv, StoreInv, FilesOK, AcctsOK, MailFindsItsAccount,
                SameOrGone, Live
<1>6. JobsOK'
  BY <1>2, <1>4, <1>5, JobChanges DEF IInv
<1>7. /\ tombs' = [tombs EXCEPT ![j.id] = j.mail]
      /\ tombsDisk' \in {tombs', tombsDisk}
  BY <1>1 DEF BanAdd, SetTomb
<1>8. BannedAreLeaving'
  <2> SUFFICES ASSUME NEW i \in Ids, Banned(i)', Live(i)' \/ next' <= i
               PROVE  i \in BeingPurged' \cup interrupted'
    BY DEF BannedAreLeaving
  <2>1. BeingPurged \subseteq BeingPurged' /\ UNCHANGED <<accts, next, interrupted>>
    BY <1>1, <1>2, OthersArePurged DEF BanAdd, Doing, store
  <2>2. CASE Banned(i)
    BY <2>1, <2>2 DEF IInv, BansOK, BannedAreLeaving, Live
  <2>3. CASE ~Banned(i)
    <3>1. i = j.id /\ j.mail \in Mails
      BY <1>3, <1>7, <2>3 DEF Banned, IInv, BansOK, Tombs
    <3>2. work'[w].at = "purge" /\ work'[w].id = i
      BY <1>2, <1>3, <3>1, NoMailIsNoMail DEF IInv, JobsOK
    <3>3. QED  BY <3>2 DEF BeingPurged, Doing
  <2>4. QED  BY <2>2, <2>3
<1>9. BansOK'
  BY <1>3, <1>7, <1>8 DEF IInv, BansOK, BanAdd, Tombs
<1>10. QED  BY <1>5, <1>6, <1>9 DEF IInv, BanAdd

LEMMA PurgeKeeps ==
  ASSUME IInv, NEW w \in Workers, Purge(w)
  PROVE  IInv'
<1>1. PICK j \in Jobs : j = work[w] /\ JobOK(j) /\ j.at = "purge"
  BY DEF Purge, Doing, IInv, JobsOK
<1>2. j.id \in Ids /\ j.id < next
  BY <1>1 DEF JobOK, Acts
<1>3. StoreInv' /\ SameOrGone /\ ~Live(j.id)'
  BY <1>1, <1>2, RemoveKeepsStore DEF Purge, IInv
<1>4. JobsOK'
  BY <1>3, FinishKeepsJobs DEF Purge, IInv
<1>5. \A id \in Ids : id \in BeingPurged => id \in BeingPurged' \/ id = j.id
  BY <1>1 DEF BeingPurged, Doing, Purge, Finish, IInv, JobsOK
<1>6. BansOK'
  <2>1. \A id \in Ids : id \in BeingPurged => id \in BeingPurged' \/ (~Live(id)' /\ id < next)
    BY <1>2, <1>3, <1>5 DEF Live
  <2>2. QED  BY <1>3, <2>1, WhatLives, BansStay DEF Purge, bans, IInv, BansOK
<1>7. QED  BY <1>3, <1>4, <1>6 DEF IInv, Purge

LEMMA UnbanKeeps ==
  ASSUME IInv, NEW id \in Ids, Unban(id)
  PROVE  IInv'
<1>1. StoreInv' /\ SameOrGone
  <2>1. failures' \in 0..MaxSaveFailures
    BY BoundsAreNaturals DEF Unban, SetTomb, WriteFails, IInv, StoreInv, FilesOK, banRemove
  <2>2. QED
    BY <2>1 DEF Unban, store, IInv, StoreInv, FilesOK, AcctsOK, MailFindsItsAccount,
                SameOrGone, Live, banRemove
<1>2. JobsOK'
  BY <1>1, JobsStay DEF Unban, IInv, banRemove
<1>3. tombs' = [tombs EXCEPT ![id] = NoBan] /\ tombsDisk' \in {tombs', tombsDisk}
  BY DEF Unban, SetTomb, banRemove
<1>4. \A i \in Ids : Banned(i)' => Banned(i)
  BY <1>3, NoBanIsNoMail DEF Banned, IInv, BansOK, Tombs
<1>5. BannedAreLeaving'
  BY <1>4 DEF Unban, store, IInv, BansOK, BannedAreLeaving, BeingPurged, Doing, Live, banRemove
<1>6. BansOK'
  BY <1>3, <1>5 DEF IInv, BansOK, Unban, Tombs, banRemove
<1>7. QED  BY <1>1, <1>2, <1>6 DEF IInv, Unban, banRemove

LEMMA WriteElsewhereKeeps ==
  ASSUME IInv, WriteElsewhere
  PROVE  IInv'
<1>1. StoreInv' /\ SameOrGone
  BY OtherSaveKeepsStore DEF WriteElsewhere, IInv
<1>2. UNCHANGED <<work, bans, loose, moved, interrupted, hashes, restarts>>
  BY DEF WriteElsewhere, OtherSave
<1>3. JobsOK'
  BY <1>1, <1>2, JobsStay DEF IInv
<1>4. BeingPurged' = BeingPurged
  BY <1>2 DEF BeingPurged, Doing
<1>5. BansOK'
  BY <1>1, <1>2, <1>4, WhatLives, BansStay DEF bans, IInv, BansOK
<1>6. QED  BY <1>1, <1>2, <1>3, <1>5 DEF IInv

(* A restart may bring a banned account back to life, but then it is one   *)
(* the history of interrupted ids has.                                     *)
LEMMA RestartKeeps ==
  ASSUME IInv, Restart
  PROVE  IInv'
<1>1. StoreInv' /\ JobsOK'
  BY ReloadKeepsStore, ReloadKeepsJobs DEF Restart, IInv
<1>2. /\ accts' = disk.accts /\ next' = disk.next
      /\ tombs' = tombsDisk /\ tombsDisk' = tombsDisk /\ UNCHANGED <<loose, moved>>
      /\ interrupted' = interrupted \cup BeingPurged \cup Undeleted \cup Uncounted
      /\ hashes' = hashes /\ restarts' \in 0..MaxRestarts
  BY BoundsAreNaturals DEF Restart, Reload, IInv
<1>3. BannedAreLeaving'
  <2> SUFFICES ASSUME NEW i \in Ids, Banned(i)', Live(i)' \/ next' <= i
               PROVE  i \in interrupted'
    BY DEF BannedAreLeaving
  <2>1. Banned(i)
    BY <1>2 DEF Banned
  <2>2. CASE Live(i) \/ next <= i
    BY <1>2, <2>1, <2>2 DEF IInv, BansOK, BannedAreLeaving
  <2>3. CASE ~Live(i) /\ ~(next <= i)
    <3>1. next \in Nat /\ i \in Nat
      BY BoundsAreNaturals DEF IInv, StoreInv, FilesOK, AcctsOK, Ids
    <3>2. i \in Undeleted \cup Uncounted
      BY <1>2, <2>3, <3>1 DEF Undeleted, Uncounted, Live
    <3>3. QED  BY <1>2, <3>2
  <2>4. QED  BY <2>2, <2>3
<1>4. BeingPurged \subseteq Ids
  BY DEF BeingPurged, Doing, IInv, JobsOK, JobOK, Acts
<1>5. BansOK'
  BY <1>2, <1>3, <1>4 DEF IInv, BansOK, Undeleted, Uncounted
<1>6. QED  BY <1>1, <1>2, <1>5 DEF IInv

LEMMA StutterKeeps ==
  ASSUME IInv, UNCHANGED vars
  PROVE  IInv'
<1>1. StoreInv' /\ SameOrGone
  BY IdleKeepsStore DEF vars, IInv
<1>2. JobsOK'
  BY <1>1, JobsStay DEF vars, IInv
<1>3. BansOK'
  BY DEF vars, store, bans, IInv, BansOK, BannedAreLeaving, Banned, BeingPurged, Doing, Live
<1>4. QED  BY <1>1, <1>2, <1>3 DEF vars, IInv

LEMMA NextKeeps == IInv /\ [Next]_vars => IInv'
<1> SUFFICES ASSUME IInv, [Next]_vars PROVE IInv'
  OBVIOUS
<1>1. ASSUME NEW w \in Workers, NEW m \in Mails, RegisterCheck(w, m) PROVE IInv'
  BY <1>1, RegisterCheckKeeps
<1>2. ASSUME NEW w \in Workers, NEW id \in Ids, NEW m \in Mails, RenameCheck(w, id, m)
      PROVE  IInv'
  BY <1>2, RenameCheckKeeps
<1>3. ASSUME NEW w \in Workers, RegisterApply(w) PROVE IInv'
  BY <1>3, RegisterApplyKeeps
<1>4. ASSUME NEW w \in Workers, RenameApply(w) PROVE IInv'
  BY <1>4, RenameApplyKeeps
<1>5. ASSUME NEW w \in Workers, BanAdd(w) PROVE IInv'
  BY <1>5, BanAddKeeps
<1>6. ASSUME NEW w \in Workers, Purge(w) PROVE IInv'
  BY <1>6, PurgeKeeps
<1>7. ASSUME NEW w \in Workers, NEW id \in Ids, BanRead(w, id) PROVE IInv'
  BY <1>7, BanReadKeeps
<1>8. ASSUME NEW id \in Ids, Delete(id) PROVE IInv'
  BY <1>8, DeleteKeeps
<1>9. ASSUME NEW id \in Ids, Unban(id) PROVE IInv'
  BY <1>9, UnbanKeeps
<1>10. CASE WriteElsewhere
  BY <1>10, WriteElsewhereKeeps
<1>11. CASE Restart
  BY <1>11, RestartKeeps
<1>12. CASE UNCHANGED vars
  BY <1>12, StutterKeeps
<1>13. QED
  BY <1>1, <1>2, <1>3, <1>4, <1>5, <1>6, <1>7, <1>8, <1>9, <1>10, <1>11, <1>12
     DEF Next, Others

LEMMA Invariance == Spec => []IInv
BY InitHolds, NextKeeps, PTL DEF Spec

-----------------------------------------------------------------------------
(* Bans that overlap.                                                      *)

(* What the jobs of bans say of the tombstones, and of each other: an      *)
(* account that is being purged has its tombstone; an account a ban read   *)
(* and that is gone by now has one too; a ban that found no account is not *)
(* about to blank an address, now or after another ban adds one.  Each     *)
(* unless the account was deleted otherwise or unbanned.                   *)
PurgeOK(j) ==
  j.at = "purge" => tombs[j.id] # NoBan \/ j.id \in loose

SeenOK(j) ==
  j.at = "ban" /\ j.mail \in Mails =>
    Live(j.id) \/ tombs[j.id] # NoBan \/ j.id \in loose

BlindOK(j) ==
  j.at = "ban" /\ j.mail = NoMail =>
    ~Live(j.id) /\ (tombs[j.id] \in Mails => j.id \in loose)

PairOK(j, k) ==
  /\ j.at = "ban" /\ j.mail = NoMail
  /\ k.at = "ban" /\ k.mail \in Mails /\ k.id = j.id
  => j.id \in loose

BanJobsOK ==
  \A v, u \in Workers :
    /\ PurgeOK(work[v]) /\ SeenOK(work[v]) /\ BlindOK(work[v])
    /\ PairOK(work[v], work[u])

(* A step that sets up no ban and touches no tombstone: what it deletes is *)
(* noted as loose or has its tombstone.                                    *)
LEMMA QuietStep ==
  ASSUME IInv, BanJobsOK, SameOrGone, tombs' = tombs, loose \subseteq loose',
         \A id \in Ids : Live(id) => Live(id)' \/ id \in loose' \/ tombs[id] # NoBan,
         \A v \in Workers : work'[v] = work[v] \/ work'[v].at \notin {"ban", "purge"}
  PROVE  BanJobsOK'
<1>1. \A v \in Workers : work[v].at \in {"ban", "purge"} =>
        work[v].id \in Ids /\ work[v].id < next
  BY DEF IInv, JobsOK, JobOK, Acts
<1>2. \A id \in Ids : id < next /\ Live(id)' => Live(id)
  BY DEF SameOrGone, Live
<1>3. \A v \in Workers : PurgeOK(work[v])'
  BY <1>1 DEF BanJobsOK, PurgeOK
<1>4. \A v \in Workers : SeenOK(work[v])'
  <2> SUFFICES ASSUME NEW v \in Workers, work'[v].at = "ban", work'[v].mail \in Mails
               PROVE  accts'[work'[v].id] # Gone \/ tombs'[work'[v].id] # NoBan
                      \/ work'[v].id \in loose'
    BY DEF SeenOK, Live
  <2>1. PICK id \in Ids : id = work[v].id /\ id = work'[v].id
    BY <1>1
  <2>2. Live(id) \/ tombs[id] # NoBan \/ id \in loose
    BY <2>1 DEF BanJobsOK, SeenOK
  <2>3. QED  BY <2>1, <2>2 DEF Live
<1>5. \A v \in Workers : BlindOK(work[v])'
  <2> SUFFICES ASSUME NEW v \in Workers, work'[v].at = "ban", work'[v].mail = NoMail
               PROVE  /\ ~(accts'[work'[v].id] # Gone)
                      /\ tombs'[work'[v].id] \in Mails => work'[v].id \in loose'
    BY DEF BlindOK, Live
  <2>1. PICK id \in Ids : id = work[v].id /\ id = work'[v].id /\ id < next
    BY <1>1
  <2>2. ~Live(id) /\ (tombs[id] \in Mails => id \in loose)
    BY <2>1 DEF BanJobsOK, BlindOK
  <2>3. QED  BY <1>2, <2>1, <2>2 DEF Live
<1>6. \A v, u \in Workers : PairOK(work[v], work[u])'
  BY DEF BanJobsOK, PairOK
<1>7. QED  BY <1>3, <1>4, <1>5, <1>6 DEF BanJobsOK

LEMMA NewJob ==
  ASSUME IInv, NEW w \in Workers, NEW job, work' = [work EXCEPT ![w] = job]
  PROVE  \A v \in Workers : work'[v] = IF v = w THEN job ELSE work[v]
BY DEF IInv, JobsOK

LEMMA BanReadAgrees ==
  ASSUME IInv, BanJobsOK, NEW w \in Workers, NEW id \in Ids, BanRead(w, id)
  PROVE  BanJobsOK'
<1>1. PICK job : /\ work' = [work EXCEPT ![w] = job]
                 /\ \/ Live(id) /\ job = For(id, "ban", accts[id].mail, 0)
                    \/ /\ ~Live(id) /\ tombs[id] = NoBan
                       /\ job = ForNobody("ban", id, NoMail, 0)
  BY DEF BanRead, BlindBan, Start
<1>2. UNCHANGED <<accts, tombs, loose>>
  BY DEF BanRead, store, bans
<1>3. job.at = "ban" /\ job.id = id
  BY <1>1 DEF For, ForNobody
<1>4. job.mail \in Mails => Live(id)
  BY <1>1, NoMailIsNoMail DEF ForNobody
<1>5. job.mail = NoMail => ~Live(id) /\ tombs[id] = NoBan
  <2>1. Live(id) => accts[id].mail \in Mails
    BY DEF Live, IInv, StoreInv, FilesOK, AcctsOK, Account
  <2>2. QED  BY <1>1, <2>1, NoMailIsNoMail DEF For
<1>6. \A v \in Workers : work'[v] = IF v = w THEN job ELSE work[v]
  BY <1>1, NewJob
<1>7. \A v \in Workers : PurgeOK(work[v])' /\ SeenOK(work[v])' /\ BlindOK(work[v])'
  BY <1>2, <1>3, <1>4, <1>5, <1>6, NoBanIsNoMail
     DEF BanJobsOK, PurgeOK, SeenOK, BlindOK, Live
<1>8. \A v, u \in Workers : PairOK(work[v], work[u])'
  BY <1>2, <1>3, <1>4, <1>5, <1>6, NoMailIsNoMail
     DEF BanJobsOK, PairOK, SeenOK, BlindOK, Live
<1>9. QED  BY <1>7, <1>8 DEF BanJobsOK

LEMMA BanAddAgrees ==
  ASSUME IInv, BanJobsOK, NEW w \in Workers, BanAdd(w)
  PROVE  BanJobsOK'
<1>1. PICK j \in Jobs : j = work[w] /\ JobOK(j) /\ j.at = "ban"
  BY DEF BanAdd, Doing, IInv, JobsOK
<1>2. j \in [at : {"ban"}, id : Ids, born : Nat, mail : Mails \cup {NoMail}, hash : Nat]
  BY <1>1 DEF Jobs, Idle, JobOK, Acts
<1> DEFINE job == IF j.mail = NoMail THEN Idle
                  ELSE [j EXCEPT !.at = "purge", !.mail = NoMail]
<1>3. work' = [work EXCEPT ![w] = job]
  BY <1>1 DEF BanAdd
<1>4. job.at # "ban" /\ (job.at = "purge" => job.id = j.id /\ j.mail \in Mails)
  BY <1>2 DEF Idle
<1> HIDE DEF job
<1>5. /\ UNCHANGED <<accts, loose>>
      /\ tombs' = [tombs EXCEPT ![j.id] = j.mail]
  <2>1. accts' = accts /\ loose' = loose
    BY DEF BanAdd, store
  <2>2. tombs' = [tombs EXCEPT ![j.id] = j.mail]
    BY <1>1 DEF BanAdd, SetTomb
  <2>3. QED  BY <2>1, <2>2
<1>6. \A id \in Ids : tombs'[id] = IF id = j.id THEN j.mail ELSE tombs[id]
  BY <1>5 DEF IInv, BansOK, Tombs
<1>7. \A v \in Workers : work'[v] = IF v = w THEN job ELSE work[v]
  BY <1>3, NewJob
<1>8. \A v \in Workers : work[v].at \in {"ban", "purge"} => work[v].id \in Ids
  BY DEF IInv, JobsOK, JobOK, Acts
<1>9. j.mail # NoBan
  BY <1>2, NoBanIsNoMail
<1>10. \A v \in Workers : PurgeOK(work[v])' /\ SeenOK(work[v])'
  BY <1>2, <1>4, <1>5, <1>6, <1>7, <1>8, <1>9 DEF BanJobsOK, PurgeOK, SeenOK, Live
<1>11. \A v \in Workers : BlindOK(work[v])'
  <2> SUFFICES ASSUME NEW v \in Workers, work'[v].at = "ban", work'[v].mail = NoMail
               PROVE  /\ ~(accts'[work'[v].id] # Gone)
                      /\ tombs'[work'[v].id] \in Mails => work'[v].id \in loose'
    BY DEF BlindOK, Live
  <2>1. work'[v] = work[v] /\ work[v].id \in Ids
    BY <1>4, <1>7, <1>8
  <2>2. BlindOK(work[v]) /\ PairOK(work[v], j)
    BY <1>1 DEF BanJobsOK
  <2>3. QED  BY <1>1, <1>5, <1>6, <2>1, <2>2 DEF BlindOK, PairOK, Live
<1>12. \A v, u \in Workers : PairOK(work[v], work[u])'
  BY <1>4, <1>5, <1>7 DEF BanJobsOK, PairOK
<1>13. QED  BY <1>10, <1>11, <1>12 DEF BanJobsOK

LEMMA UnbanAgrees ==
  ASSUME IInv, BanJobsOK, NEW id \in Ids, Unban(id)
  PROVE  BanJobsOK'
<1>1. /\ UNCHANGED <<accts, work>> /\ loose' = loose \cup {id}
      /\ tombs' = [tombs EXCEPT ![id] = NoBan]
  BY DEF Unban, SetTomb, store, banRemove
<1>2. \A v \in Workers : work[v].at \in {"ban", "purge"} => work[v].id \in Ids
  BY DEF IInv, JobsOK, JobOK, Acts
<1>3. \A i \in Ids : tombs'[i] = IF i = id THEN NoBan ELSE tombs[i]
  BY <1>1 DEF IInv, BansOK, Tombs
<1>4. QED
  BY <1>1, <1>2, <1>3 DEF BanJobsOK, PurgeOK, SeenOK, BlindOK, PairOK, Live

LEMMA AnotherJob ==
  ASSUME IInv, NEW w \in Workers, NEW job, work' = [work EXCEPT ![w] = job],
         job.at \notin {"ban", "purge"}
  PROVE  \A v \in Workers : work'[v] = work[v] \/ work'[v].at \notin {"ban", "purge"}
BY NewJob

LEMMA FinishIsNoBan ==
  ASSUME IInv, NEW w \in Workers, Finish(w)
  PROVE  \A v \in Workers : work'[v] = work[v] \/ work'[v].at \notin {"ban", "purge"}
BY DEF Finish, Idle, IInv, JobsOK

LEMMA RegisterCheckAgrees ==
  ASSUME IInv, BanJobsOK, NEW w \in Workers, NEW m \in Mails, RegisterCheck(w, m)
  PROVE  BanJobsOK'
<1> DEFINE job == ForNobody("create", Nobody, m, hashes')
<1>1. work' = [work EXCEPT ![w] = job]
  BY DEF RegisterCheck, Start
<1>2. job.at \notin {"ban", "purge"}
  BY DEF ForNobody
<1> HIDE DEF job
<1>3. UNCHANGED <<accts, tombs, loose>> /\ SameOrGone
  BY IdleKeepsStore DEF RegisterCheck, store, bans, IInv
<1>4. QED  BY <1>1, <1>2, <1>3, AnotherJob, QuietStep DEF Live

LEMMA RegisterApplyAgrees ==
  ASSUME IInv, BanJobsOK, NEW w \in Workers, RegisterApply(w)
  PROVE  BanJobsOK'
<1>1. work[w] \in Jobs /\ JobOK(work[w]) /\ work[w].at = "create"
  BY DEF RegisterApply, Doing, IInv, JobsOK
<1>2. PICK m \in Mails, h \in Nat : m = work[w].mail /\ h = work[w].hash
  BY <1>1 DEF Jobs, Idle, JobOK
<1>3. (~Taken(m) /\ Insert(m, h) /\ Save) \/ NotFound
  BY <1>2 DEF RegisterApply
<1>4. SameOrGone
  BY <1>3, InsertKeepsStore, IdleKeepsStore DEF IInv, NotFound
<1>5. \A id \in Ids : Live(id) => Live(id)'
  <2>1. CASE Insert(m, h)
    <3>1. accts[next] = Gone
      BY <2>1 DEF Insert, IInv, StoreInv, FilesOK, AcctsOK, Ids
    <3>2. QED  BY <2>1, <3>1 DEF Insert, Live, IInv, StoreInv, FilesOK, AcctsOK
  <2>2. CASE NotFound
    BY <2>2 DEF NotFound, store, Live
  <2>3. QED  BY <1>3, <2>1, <2>2
<1>6. Finish(w) /\ UNCHANGED <<tombs, loose>>
  BY DEF RegisterApply, bans
<1>7. QED  BY <1>4, <1>5, <1>6, FinishIsNoBan, QuietStep

LEMMA RenameCheckAgrees ==
  ASSUME IInv, BanJobsOK, NEW w \in Workers, NEW id \in Ids, NEW m \in Mails,
         RenameCheck(w, id, m)
  PROVE  BanJobsOK'
<1> DEFINE job == For(id, "rename", m, 0)
<1>1. work' = [work EXCEPT ![w] = job]
  BY DEF RenameCheck, Start
<1>2. job.at \notin {"ban", "purge"}
  BY DEF For
<1> HIDE DEF job
<1>3. UNCHANGED <<accts, tombs, loose>> /\ SameOrGone
  BY IdleKeepsStore DEF RenameCheck, store, bans, IInv
<1>4. QED  BY <1>1, <1>2, <1>3, AnotherJob, QuietStep DEF Live

LEMMA RenameApplyAgrees ==
  ASSUME IInv, BanJobsOK, NEW w \in Workers, RenameApply(w)
  PROVE  BanJobsOK'
<1>1. PICK id \in Ids, m \in Mails : id = work[w].id /\ m = work[w].mail
  BY DEF RenameApply, Doing, IInv, JobsOK, JobOK, Acts
<1>2. (CanTake(id, m) /\ SetEmail(id, m) /\ Save) \/ NotFound
  BY <1>1 DEF RenameApply
<1>3. SameOrGone
  BY <1>2, SetEmailKeepsStore, IdleKeepsStore DEF IInv, NotFound
<1>4. \A i \in Ids : Live(i) => Live(i)'
  <2>1. CASE CanTake(id, m) /\ SetEmail(id, m)
    <3>1. [accts[id] EXCEPT !.mail = m, !.verified = FALSE] \in Account
      BY <2>1 DEF CanTake, Live, Account, IInv, StoreInv, FilesOK, AcctsOK
    <3>2. QED
      BY <2>1, <3>1, GoneIsNoAccount DEF SetEmail, Live, IInv, StoreInv, FilesOK, AcctsOK
  <2>2. CASE NotFound
    BY <2>2 DEF NotFound, store, Live
  <2>3. QED  BY <1>2, <2>1, <2>2
<1>5. Finish(w) /\ UNCHANGED <<tombs, loose>>
  BY DEF RenameApply, bans
<1>6. QED  BY <1>3, <1>4, <1>5, FinishIsNoBan, QuietStep

LEMMA DeleteAgrees ==
  ASSUME IInv, BanJobsOK, NEW id \in Ids, Delete(id)
  PROVE  BanJobsOK'
<1>1. SameOrGone
  BY RemoveKeepsStore DEF Delete, IInv
<1>2. \A i \in Ids : Live(i) => Live(i)' \/ i = id
  BY DEF Delete, Remove, Drop, NotFound, store, Live, IInv, StoreInv, FilesOK, AcctsOK
<1>3. UNCHANGED <<work, tombs>> /\ loose' = loose \cup {id}
  BY DEF Delete, bans
<1>4. QED  BY <1>1, <1>2, <1>3, QuietStep

LEMMA PurgeAgrees ==
  ASSUME IInv, BanJobsOK, NEW w \in Workers, Purge(w)
  PROVE  BanJobsOK'
<1>1. PICK id \in Ids : id = work[w].id /\ (tombs[id] # NoBan \/ id \in loose)
  BY DEF Purge, Doing, IInv, JobsOK, JobOK, Acts, BanJobsOK, PurgeOK
<1>2. Remove(id) /\ Finish(w) /\ UNCHANGED <<tombs, loose>>
  BY <1>1 DEF Purge, bans
<1>3. SameOrGone
  BY <1>2, RemoveKeepsStore DEF IInv
<1>4. \A i \in Ids : Live(i) => Live(i)' \/ i = id
  BY <1>2 DEF Remove, Drop, NotFound, store, Live, IInv, StoreInv, FilesOK, AcctsOK
<1>5. QED  BY <1>1, <1>2, <1>3, <1>4, FinishIsNoBan, QuietStep

LEMMA WriteElsewhereAgrees ==
  ASSUME IInv, BanJobsOK, WriteElsewhere
  PROVE  BanJobsOK'
<1>1. UNCHANGED <<accts, work, tombs, loose>> /\ SameOrGone
  BY OtherSaveKeepsStore DEF WriteElsewhere, OtherSave, bans, IInv
<1>2. QED  BY <1>1, QuietStep DEF Live

LEMMA RestartAgrees ==
  ASSUME Restart
  PROVE  BanJobsOK'
<1>1. \A v \in Workers : work'[v].at \notin {"ban", "purge"}
  BY DEF Restart, Reload, Idle
<1>2. QED  BY <1>1 DEF BanJobsOK, PurgeOK, SeenOK, BlindOK, PairOK

LEMMA BanJobsAgree == IInv /\ BanJobsOK /\ [Next]_vars => BanJobsOK'
<1> SUFFICES ASSUME IInv, BanJobsOK, [Next]_vars PROVE BanJobsOK'
  OBVIOUS
<1>1. ASSUME NEW w \in Workers, NEW m \in Mails, RegisterCheck(w, m) PROVE BanJobsOK'
  BY <1>1, RegisterCheckAgrees
<1>2. ASSUME NEW w \in Workers, NEW id \in Ids, NEW m \in Mails, RenameCheck(w, id, m)
      PROVE  BanJobsOK'
  BY <1>2, RenameCheckAgrees
<1>3. ASSUME NEW w \in Workers, RegisterApply(w) PROVE BanJobsOK'
  BY <1>3, RegisterApplyAgrees
<1>4. ASSUME NEW w \in Workers, RenameApply(w) PROVE BanJobsOK'
  BY <1>4, RenameApplyAgrees
<1>5. ASSUME NEW w \in Workers, BanAdd(w) PROVE BanJobsOK'
  BY <1>5, BanAddAgrees
<1>6. ASSUME NEW w \in Workers, Purge(w) PROVE BanJobsOK'
  BY <1>6, PurgeAgrees
<1>7. ASSUME NEW w \in Workers, NEW id \in Ids, BanRead(w, id) PROVE BanJobsOK'
  BY <1>7, BanReadAgrees
<1>8. ASSUME NEW id \in Ids, Delete(id) PROVE BanJobsOK'
  BY <1>8, DeleteAgrees
<1>9. ASSUME NEW id \in Ids, Unban(id) PROVE BanJobsOK'
  BY <1>9, UnbanAgrees
<1>10. CASE WriteElsewhere
  BY <1>10, WriteElsewhereAgrees
<1>11. CASE Restart
  BY <1>11, RestartAgrees
<1>12. CASE UNCHANGED vars
  BY <1>12 DEF vars, store, bans, BanJobsOK, PurgeOK, SeenOK, BlindOK, PairOK, Live
<1>13. QED
  BY <1>1, <1>2, <1>3, <1>4, <1>5, <1>6, <1>7, <1>8, <1>9, <1>10, <1>11, <1>12
     DEF Next, Others

(* What a ban has read is the address the account has and, once there is a *)
(* tombstone, the one it reserves: of any account that was neither deleted *)
(* otherwise, nor unbanned, nor renamed while it was being banned, nor     *)
(* half deleted when a restart came.                                       *)
Settled(id) == id \notin loose \cup moved \cup interrupted

TombAgrees(id) ==
  Settled(id) /\ tombs[id] \in Mails /\ Live(id) => accts[id].mail = tombs[id]

ReadAgrees(j) ==
  j.at = "ban" /\ j.mail \in Mails /\ Settled(j.id) =>
    /\ Live(j.id) => accts[j.id].mail = j.mail
    /\ tombs[j.id] \in Mails => tombs[j.id] = j.mail

ReadsAgree(j, k) ==
  /\ j.at = "ban" /\ j.mail \in Mails /\ Settled(j.id)
  /\ k.at = "ban" /\ k.mail \in Mails /\ k.id = j.id
  => k.mail = j.mail

AddressesAgree ==
  /\ \A id \in Ids : TombAgrees(id)
  /\ \A v, u \in Workers : ReadAgrees(work[v]) /\ ReadsAgree(work[v], work[u])

(* The addresses of id are of interest to a ban.                           *)
Concerned(id) ==
  \/ tombs[id] \in Mails
  \/ \E v \in Workers : work[v].at = "ban" /\ work[v].mail \in Mails /\ work[v].id = id

SameMail(id) == Live(id) /\ accts'[id].mail = accts[id].mail

(* A step that sets up no ban and touches no tombstone, and leaves an      *)
(* account that is being banned its address or notes that it moved.        *)
LEMMA QuietAgrees ==
  ASSUME IInv, AddressesAgree, tombs' = tombs, loose \subseteq loose',
         moved \subseteq moved', interrupted \subseteq interrupted',
         \A id \in Ids : Live(id)' =>
           SameMail(id) \/ id \in moved' \cup interrupted' \/ ~Concerned(id),
         \A v \in Workers : work'[v] = work[v] \/ work'[v].at # "ban"
  PROVE  AddressesAgree'
<1>1. \A id \in Ids : Settled(id)' => Settled(id) /\ id \notin moved' \cup interrupted'
  BY DEF Settled
<1>2. ASSUME NEW id \in Ids PROVE TombAgrees(id)'
  BY <1>1 DEF AddressesAgree, TombAgrees, SameMail, Concerned, Live
<1>3. ASSUME NEW v \in Workers, work'[v].at = "ban"
      PROVE  work'[v] = work[v] /\ work[v].id \in Ids
  BY <1>3 DEF IInv, JobsOK, JobOK, Acts
<1>4. ASSUME NEW v \in Workers PROVE ReadAgrees(work[v])'
  <2> SUFFICES ASSUME work'[v].at = "ban", work'[v].mail \in Mails, Settled(work[v].id)'
               PROVE  /\ accts'[work'[v].id] # Gone => accts'[work'[v].id].mail = work'[v].mail
                      /\ tombs'[work'[v].id] \in Mails => tombs'[work'[v].id] = work'[v].mail
    BY DEF ReadAgrees, Live
  <2>1. PICK id \in Ids : id = work[v].id /\ work'[v] = work[v]
    BY <1>3
  <2>2. Settled(id) /\ id \notin moved' \cup interrupted' /\ Concerned(id)
    BY <1>1, <2>1 DEF Concerned
  <2>3. ReadAgrees(work[v])
    BY DEF AddressesAgree
  <2>4. QED  BY <2>1, <2>2, <2>3 DEF ReadAgrees, SameMail, Live
<1>5. ASSUME NEW v \in Workers, NEW u \in Workers PROVE ReadsAgree(work[v], work[u])'
  <2> SUFFICES ASSUME work'[v].at = "ban", work'[v].mail \in Mails, Settled(work[v].id)',
                      work'[u].at = "ban", work'[u].mail \in Mails, work'[u].id = work'[v].id
               PROVE  work'[u].mail = work'[v].mail
    BY DEF ReadsAgree
  <2>1. Settled(work[v].id) /\ work'[v] = work[v] /\ work'[u] = work[u]
    BY <1>1, <1>3
  <2>2. QED  BY <2>1 DEF AddressesAgree, ReadsAgree
<1>6. QED  BY <1>2, <1>4, <1>5 DEF AddressesAgree

(* A step that leaves the accounts as they are, or gone.                   *)
Kept == \A id \in Ids : Live(id)' => SameMail(id)

LEMMA StoreIsKept ==
  ASSUME UNCHANGED store
  PROVE  Kept
BY DEF store, Kept, SameMail, Live

LEMMA RemoveKeepsMail ==
  ASSUME IInv, NEW id \in Ids, Remove(id)
  PROVE  Kept
BY DEF Remove, Drop, NotFound, store, Kept, SameMail, Live, IInv, StoreInv, FilesOK, AcctsOK

LEMMA KeptAgrees ==
  ASSUME IInv, AddressesAgree, tombs' = tombs, loose \subseteq loose',
         UNCHANGED <<moved, interrupted>>, Kept,
         \A v \in Workers : work'[v] = work[v] \/ work'[v].at # "ban"
  PROVE  AddressesAgree'
BY QuietAgrees DEF Kept

LEMMA NotABan ==
  ASSUME IInv, NEW w \in Workers, NEW job, work' = [work EXCEPT ![w] = job], job.at # "ban"
  PROVE  \A v \in Workers : work'[v] = work[v] \/ work'[v].at # "ban"
BY NewJob

LEMMA FinishedIsNoBan ==
  ASSUME IInv, NEW w \in Workers, Finish(w)
  PROVE  \A v \in Workers : work'[v] = work[v] \/ work'[v].at # "ban"
<1>1. \A v \in Workers : work'[v] = IF v = w THEN Idle ELSE work[v]
  BY NewJob DEF Finish
<1>2. QED  BY <1>1 DEF Idle

LEMMA ChecksAgree ==
  ASSUME IInv, AddressesAgree, NEW w \in Workers, NEW m \in Mails,
         RegisterCheck(w, m) \/ \E id \in Ids : RenameCheck(w, id, m)
  PROVE  AddressesAgree'
<1>1. \A v \in Workers : work'[v] = work[v] \/ work'[v].at # "ban"
  <2>1. CASE RegisterCheck(w, m)
    <3>1. ForNobody("create", Nobody, m, hashes').at # "ban"
      BY DEF ForNobody
    <3>2. QED  BY <2>1, <3>1, NotABan DEF RegisterCheck, Start
  <2>2. ASSUME NEW id \in Ids, RenameCheck(w, id, m)
        PROVE  \A v \in Workers : work'[v] = work[v] \/ work'[v].at # "ban"
    <3>1. For(id, "rename", m, 0).at # "ban"
      BY DEF For
    <3>2. QED  BY <2>2, <3>1, NotABan DEF RenameCheck, Start
  <2>3. QED  BY <2>1, <2>2
<1>2. UNCHANGED <<store, tombs, loose, moved, interrupted>>
  BY DEF RegisterCheck, RenameCheck, bans
<1>3. QED  BY <1>1, <1>2, StoreIsKept, KeptAgrees

(* The next id is of no ban, or of one a restart interrupted.              *)
LEMMA NextIsNotConcerned ==
  ASSUME IInv, NEW id \in Ids, next <= id
  PROVE  id \in interrupted \/ ~Concerned(id)
<1>1. next \in Nat /\ id \in Nat
  BY BoundsAreNaturals DEF IInv, StoreInv, FilesOK, AcctsOK, Ids
<1>2. \A v \in Workers : work[v].at \in {"ban", "purge"} => work[v].id < next /\ work[v].id # id
  BY <1>1 DEF IInv, JobsOK, JobOK, Acts
<1>3. id \notin BeingPurged
  BY <1>2 DEF BeingPurged, Doing
<1>4. QED
  BY <1>2, <1>3 DEF Concerned, IInv, BansOK, BannedAreLeaving, Banned

LEMMA RegisterAgrees ==
  ASSUME IInv, AddressesAgree, NEW w \in Workers, RegisterApply(w)
  PROVE  AddressesAgree'
<1>1. PICK m \in Mails, h \in Nat : m = work[w].mail /\ h = work[w].hash
  BY DEF RegisterApply, Doing, IInv, JobsOK, JobOK, Jobs, Idle
<1>2. /\ Insert(m, h) \/ NotFound
      /\ Finish(w) /\ UNCHANGED <<tombs, loose, moved, interrupted>>
  BY <1>1 DEF RegisterApply, bans
<1>3. CASE Insert(m, h)
  <2>1. \A id \in Ids : Live(id)' => SameMail(id) \/ id = next
    BY <1>3 DEF Insert, SameMail, Live, IInv, StoreInv, FilesOK, AcctsOK
  <2>2. next \in Ids /\ next <= next
    BY <1>3, BoundsAreNaturals DEF Insert, Ids
  <2>3. next \in interrupted \/ ~Concerned(next)
    BY <2>2, NextIsNotConcerned
  <2>4. \A id \in Ids : Live(id)' =>
          SameMail(id) \/ id \in moved' \cup interrupted' \/ ~Concerned(id)
    BY <1>2, <2>1, <2>3
  <2>5. QED  BY <1>2, <2>4, FinishedIsNoBan, QuietAgrees
<1>4. CASE NotFound
  BY <1>2, <1>4, StoreIsKept, FinishedIsNoBan, KeptAgrees DEF NotFound
<1>5. QED  BY <1>2, <1>3, <1>4

LEMMA RenameAgrees ==
  ASSUME IInv, AddressesAgree, NEW w \in Workers, RenameApply(w)
  PROVE  AddressesAgree'
<1>1. PICK id \in Ids, m \in Mails : id = work[w].id /\ m = work[w].mail
  BY DEF RenameApply, Doing, IInv, JobsOK, JobOK, Acts
<1>2. /\ \/ /\ SetEmail(id, m)
            /\ moved' = IF BeingBanned(id) THEN moved \cup {id} ELSE moved
         \/ NotFound /\ UNCHANGED moved
      /\ Finish(w) /\ UNCHANGED <<tombs, loose, interrupted>>
  BY <1>1 DEF RenameApply, bans
<1>3. CASE /\ SetEmail(id, m)
           /\ moved' = IF BeingBanned(id) THEN moved \cup {id} ELSE moved
  <2>1. \A i \in Ids : Live(i)' => SameMail(i) \/ i = id
    BY <1>3 DEF SetEmail, SameMail, Live, IInv, StoreInv, FilesOK, AcctsOK
  <2>2. Concerned(id) => id \in moved'
    BY <1>3, NoBanIsNoMail DEF Concerned, BeingBanned, Doing
  <2>3. moved \subseteq moved'
    BY <1>3
  <2>4. \A i \in Ids : Live(i)' =>
          SameMail(i) \/ i \in moved' \cup interrupted' \/ ~Concerned(i)
    BY <2>1, <2>2
  <2>5. QED  BY <1>2, <2>3, <2>4, FinishedIsNoBan, QuietAgrees
<1>4. CASE NotFound /\ UNCHANGED moved
  BY <1>2, <1>4, StoreIsKept, FinishedIsNoBan, KeptAgrees DEF NotFound
<1>5. QED  BY <1>2, <1>3, <1>4

LEMMA RemovalsAgree ==
  ASSUME IInv, AddressesAgree,
         (\E id \in Ids : Delete(id)) \/ (\E w \in Workers : Purge(w))
  PROVE  AddressesAgree'
<1>1. ASSUME NEW id \in Ids, Delete(id) PROVE AddressesAgree'
  BY <1>1, RemoveKeepsMail, KeptAgrees DEF Delete, bans
<1>2. ASSUME NEW w \in Workers, Purge(w) PROVE AddressesAgree'
  <2>1. PICK id \in Ids : id = work[w].id
    BY <1>2 DEF Purge, Doing, IInv, JobsOK, JobOK, Acts
  <2>2. Remove(id) /\ Finish(w) /\ UNCHANGED <<tombs, loose, moved, interrupted>>
    BY <1>2, <2>1 DEF Purge, bans
  <2>3. QED  BY <2>2, RemoveKeepsMail, FinishedIsNoBan, KeptAgrees
<1>3. QED  BY <1>1, <1>2

LEMMA BanReadsTheAddress ==
  ASSUME IInv, AddressesAgree, NEW w \in Workers, NEW id \in Ids, BanRead(w, id)
  PROVE  AddressesAgree'
<1>1. PICK job : /\ work' = [work EXCEPT ![w] = job]
                 /\ \/ Live(id) /\ job = For(id, "ban", accts[id].mail, 0)
                    \/ job = ForNobody("ban", id, NoMail, 0)
  BY DEF BanRead, BlindBan, Start
<1>2. UNCHANGED <<accts, tombs, loose, moved, interrupted>>
  BY DEF BanRead, store, bans
<1>3. job.id = id /\ (job.mail \in Mails => Live(id) /\ job.mail = accts[id].mail)
  BY <1>1, NoMailIsNoMail DEF For, ForNobody
<1> HIDE DEF For, ForNobody
<1>4. \A v \in Workers : work'[v] = IF v = w THEN job ELSE work[v]
  BY <1>1, NewJob
<1>5. \A i \in Ids : TombAgrees(i)'
  BY <1>2 DEF AddressesAgree, TombAgrees, Settled, Live
<1>6. \A v \in Workers : ReadAgrees(work[v])'
  BY <1>2, <1>3, <1>4 DEF AddressesAgree, TombAgrees, ReadAgrees, Settled, Live
<1>7. \A v, u \in Workers : ReadsAgree(work[v], work[u])'
  BY <1>2, <1>3, <1>4 DEF AddressesAgree, ReadAgrees, ReadsAgree, Settled, Live
<1>8. QED  BY <1>5, <1>6, <1>7 DEF AddressesAgree

LEMMA BanAddsTheAddress ==
  ASSUME IInv, AddressesAgree, NEW w \in Workers, BanAdd(w)
  PROVE  AddressesAgree'
<1>1. PICK j \in Jobs : j = work[w] /\ JobOK(j) /\ j.at = "ban"
  BY DEF BanAdd, Doing, IInv, JobsOK
<1>2. j \in [at : {"ban"}, id : Ids, born : Nat, mail : Mails \cup {NoMail}, hash : Nat]
  BY <1>1 DEF Jobs, Idle, JobOK, Acts
<1> DEFINE job == IF j.mail = NoMail THEN Idle
                  ELSE [j EXCEPT !.at = "purge", !.mail = NoMail]
<1>3. work' = [work EXCEPT ![w] = job]
  BY <1>1 DEF BanAdd
<1>4. job.at # "ban"
  BY <1>2 DEF Idle
<1> HIDE DEF job
<1>5. /\ UNCHANGED <<accts, loose, moved, interrupted>>
      /\ tombs' = [tombs EXCEPT ![j.id] = j.mail]
  BY <1>1 DEF BanAdd, SetTomb, store
<1>6. \A v \in Workers : work'[v].at = "ban" => work'[v] = work[v] /\ work[v].id \in Ids
  BY <1>3, <1>4, NewJob DEF IInv, JobsOK, JobOK, Acts
<1>7. \A i \in Ids : tombs'[i] = IF i = j.id THEN j.mail ELSE tombs[i]
  BY <1>5 DEF IInv, BansOK, Tombs
<1>8. ReadAgrees(j) /\ \A v \in Workers : ReadsAgree(j, work[v]) /\ ReadAgrees(work[v])
  BY <1>1 DEF AddressesAgree
<1>9. \A i \in Ids : TombAgrees(i)'
  BY <1>1, <1>5, <1>7, <1>8 DEF AddressesAgree, TombAgrees, ReadAgrees, Settled, Live
<1>10. \A v \in Workers : ReadAgrees(work[v])'
  BY <1>1, <1>5, <1>6, <1>7, <1>8 DEF ReadAgrees, ReadsAgree, Settled, Live
<1>11. \A v, u \in Workers : ReadsAgree(work[v], work[u])'
  BY <1>5, <1>6 DEF AddressesAgree, ReadsAgree, Settled
<1>12. QED  BY <1>9, <1>10, <1>11 DEF AddressesAgree

LEMMA UnbanLetsGo ==
  ASSUME IInv, AddressesAgree, NEW id \in Ids, Unban(id)
  PROVE  AddressesAgree'
<1>1. /\ UNCHANGED <<accts, work, moved, interrupted>> /\ loose' = loose \cup {id}
      /\ tombs' = [tombs EXCEPT ![id] = NoBan]
  BY DEF Unban, SetTomb, store, banRemove
<1>2. \A v \in Workers : work[v].at = "ban" => work[v].id \in Ids
  BY DEF IInv, JobsOK, JobOK, Acts
<1>3. \A i \in Ids : tombs'[i] = IF i = id THEN NoBan ELSE tombs[i]
  BY <1>1 DEF IInv, BansOK, Tombs
<1>4. QED
  BY <1>1, <1>2, <1>3 DEF AddressesAgree, TombAgrees, ReadAgrees, ReadsAgree, Settled, Live

(* A restart brings a banned account back only as an interrupted one.      *)
LEMMA RestartStillAgrees ==
  ASSUME IInv, Restart
  PROVE  AddressesAgree'
<1>1. \A v \in Workers : work'[v].at # "ban"
  BY DEF Restart, Reload, Idle
<1>2. ASSUME NEW id \in Ids, tombs'[id] \in Mails, Live(id)'
      PROVE  id \in interrupted'
  BY <1>2, RestartKeeps DEF IInv, BansOK, BannedAreLeaving, Banned, BeingPurged, Doing,
                            Restart, Reload, Idle
<1>3. QED
  BY <1>1, <1>2 DEF AddressesAgree, TombAgrees, ReadAgrees, ReadsAgree, Settled

LEMMA AddressesStayAgreed == IInv /\ AddressesAgree /\ [Next]_vars => AddressesAgree'
<1> SUFFICES ASSUME IInv, AddressesAgree, [Next]_vars PROVE AddressesAgree'
  OBVIOUS
<1>1. ASSUME NEW w \in Workers, NEW m \in Mails,
             RegisterCheck(w, m) \/ \E id \in Ids : RenameCheck(w, id, m)
      PROVE  AddressesAgree'
  BY <1>1, ChecksAgree
<1>2. ASSUME NEW w \in Workers, RegisterApply(w) \/ RenameApply(w) PROVE AddressesAgree'
  BY <1>2, RegisterAgrees, RenameAgrees
<1>3. ASSUME NEW w \in Workers, BanAdd(w) \/ Purge(w) PROVE AddressesAgree'
  BY <1>3, BanAddsTheAddress, RemovalsAgree
<1>4. ASSUME NEW w \in Workers, NEW id \in Ids, BanRead(w, id) PROVE AddressesAgree'
  BY <1>4, BanReadsTheAddress
<1>5. ASSUME NEW id \in Ids, Delete(id) \/ Unban(id) PROVE AddressesAgree'
  BY <1>5, RemovalsAgree, UnbanLetsGo
<1>6. CASE WriteElsewhere
  BY <1>6, KeptAgrees DEF WriteElsewhere, OtherSave, bans, Kept, SameMail, Live
<1>7. CASE Restart
  BY <1>7, RestartStillAgrees
<1>8. CASE UNCHANGED vars
  BY <1>8, KeptAgrees, StoreIsKept DEF vars, bans
<1>9. QED
  BY <1>1, <1>2, <1>3, <1>4, <1>5, <1>6, <1>7, <1>8 DEF Next, Others

(* A tombstone's address changes by a ban, which has read the same one, or *)
(* by an unban.                                                            *)
LEMMA BansAgree ==
  ASSUME IInv, BanJobsOK, AddressesAgree, [Next]_vars
  PROVE  [KeepsAddress]_vars
<1> SUFFICES ASSUME NEW id \in Ids, restarts' = restarts, tombs[id] \in Mails,
                    tombs'[id] # tombs[id]
             PROVE  \/ id \in loose'
                    \/ tombs'[id] \in Mails /\ id \in moved \cup interrupted
  BY DEF KeepsAddress
<1>1. tombs' # tombs
  OBVIOUS
<1>2. ASSUME NEW w \in Workers, BanAdd(w)
      PROVE  \/ id \in loose'
             \/ tombs'[id] \in Mails /\ id \in moved \cup interrupted
  <2>1. PICK j \in Jobs : j = work[w] /\ j.at = "ban" /\ j.id \in Ids
    BY <1>2 DEF BanAdd, Doing, IInv, JobsOK, JobOK, Acts
  <2>2. tombs' = [tombs EXCEPT ![j.id] = j.mail] /\ loose' = loose
    BY <1>2, <2>1 DEF BanAdd, SetTomb
  <2>3. j.id = id /\ tombs'[id] = j.mail
    BY <2>1, <2>2 DEF IInv, BansOK, Tombs
  <2>4. j.mail \in Mails \cup {NoMail}
    BY <2>1 DEF Jobs, Idle
  <2>5. CASE j.mail = NoMail
    <3>1. BlindOK(j)
      BY <2>1 DEF BanJobsOK
    <3>2. QED  BY <2>1, <2>2, <2>3, <2>5, <3>1 DEF BlindOK
  <2>6. CASE j.mail \in Mails
    <3>1. ReadAgrees(j)
      BY <2>1 DEF AddressesAgree
    <3>2. QED  BY <2>1, <2>2, <2>3, <2>6, <3>1 DEF ReadAgrees, Settled
  <2>7. QED  BY <2>4, <2>5, <2>6
<1>3. ASSUME NEW i \in Ids, Unban(i) PROVE id \in loose'
  <2>1. tombs' = [tombs EXCEPT ![i] = NoBan] /\ loose' = loose \cup {i}
    BY <1>3 DEF Unban, SetTomb, banRemove
  <2>2. QED  BY <2>1 DEF IInv, BansOK, Tombs
<1>4. ~Restart
  BY BoundsAreNaturals DEF Restart, Reload, IInv
<1>5. ASSUME NEW w \in Workers, NEW m \in Mails, NEW i \in Ids
      PROVE  ~RenameCheck(w, i, m)
  BY <1>1 DEF RenameCheck, bans
<1>6. \A w \in Workers : /\ \A m \in Mails : ~RegisterCheck(w, m)
                        /\ ~RegisterApply(w) /\ ~RenameApply(w) /\ ~Purge(w)
  BY <1>1 DEF RegisterCheck, RegisterApply, RenameApply, Purge, bans
<1>7. \A i \in Ids : ~Delete(i) /\ \A w \in Workers : ~BanRead(w, i)
  BY <1>1 DEF BanRead, Delete, bans
<1>8. ~WriteElsewhere /\ ~UNCHANGED vars
  BY <1>1 DEF WriteElsewhere, vars, bans
<1>9. QED
  BY <1>1, <1>2, <1>3, <1>4, <1>5, <1>6, <1>7, <1>8 DEF Next, Others

-----------------------------------------------------------------------------

(* The stores keep their types (jsonStore, banStore).                      *)
THEOREM TypeCorrect == Spec => []TypeOK
<1>1. IInv => TypeOK
  BY IInvHolds
<1>2. QED  BY <1>1, Invariance, PTL

(* However registrations, changes of address, deletions and bans race, an  *)
(* address leads to the one account that has it (Create, SetEmail).        *)
THEOREM AddressesAreUnique == Spec => []MailFindsItsAccount
<1>1. IInv => MailFindsItsAccount
  BY IInvHolds
<1>2. QED  BY <1>1, Invariance, PTL

(* A change of address or a ban acts on the account its handler read, or   *)
(* on none (changeEmail, banAccount).                                      *)
THEOREM HandlersActOnWhomTheyRead == Spec => []ActsOnWhomItRead
<1>1. IInv => ActsOnWhomItRead
  BY IInvHolds
<1>2. QED  BY <1>1, Invariance, PTL

(* A banned account is gone, unless its ban is still being carried out or  *)
(* a restart interrupted it (banAccount).                                  *)
THEOREM BansEndAccounts == Spec => []BannedIsGone
<1>1. IInv => BannedIsGone
  BY IInvHolds
<1>2. QED  BY <1>1, Invariance, PTL

(* A tombstone keeps the address it reserves whatever bans of the account  *)
(* overlap, unless the account was deleted otherwise or unbanned; another  *)
(* address takes its place only if the account changed its own while it    *)
(* was being banned, or came back by a restart (banAccount).               *)
THEOREM BansKeepTheirMail == Spec => BanKeepsItsMail
<1>1. Init => BanJobsOK
  BY DEF Init, StoreInit, Idle, BanJobsOK, PurgeOK, SeenOK, BlindOK, PairOK
<1>2. Init => AddressesAgree
  BY DEF Init, StoreInit, Idle, Live, AddressesAgree, TombAgrees, ReadAgrees, ReadsAgree
<1>3. IInv /\ BanJobsOK /\ AddressesAgree /\ [Next]_vars => [KeepsAddress]_vars
  BY BansAgree
<1>4. QED
  BY <1>1, <1>2, <1>3, BanJobsAgree, AddressesStayAgreed, Invariance, PTL
     DEF Spec, BanKeepsItsMail

-----------------------------------------------------------------------------
(* The mailed links, beside the steps of Accounts.                         *)

(* Why a reset link names its account: a hash is of one password of one    *)
(* account, in memory, in the file, in a link, or in a handler that has    *)
(* just made it.  Owned(h, b): h is a hash of the account born with b.     *)
Owned(h, b) ==
  \/ \E id \in Ids : Live(id) /\ accts[id].hash = h /\ accts[id].born = b
  \/ \E id \in Ids : /\ disk.accts[id] # Gone
                     /\ disk.accts[id].hash = h /\ disk.accts[id].born = b
  \/ \E l \in resets : l.hash = h /\ l.born = b

Fresh(w) == work[w].at \in {"create", "reset"}

HashesOK ==
  /\ \A h, b, c \in Nat : Owned(h, b) /\ Owned(h, c) => b = c
  /\ \A h, b \in Nat : Owned(h, b) => h <= hashes
  /\ \A w \in Workers : Fresh(w) =>
       /\ work[w].hash <= hashes
       /\ \A b \in Nat : ~Owned(work[w].hash, b)
       /\ \A v \in Workers : Fresh(v) /\ v # w => work[v].hash # work[w].hash

(* Why a verified address was confirmed: so is the address of an account a *)
(* handler is about to verify, and so are those of the file.               *)
Confirmed(a, id) == a[id].mail \in confirmed \/ id \in raced

ConfirmationsOK ==
  /\ VerifiedWasConfirmed
  /\ \A id \in Ids : disk.accts[id] # Gone /\ disk.accts[id].verified =>
       Confirmed(disk.accts, id)
  /\ \A w \in Workers : Doing(w, "confirm") /\ Live(work[w].id) =>
       Confirmed(accts, work[w].id)

LinksOK ==
  /\ confirms \subseteq Confirm /\ resets \subseteq Reset
  /\ confirmed \subseteq Mails /\ raced \subseteq Ids

LInv == IInv /\ LinksOK /\ HashesOK /\ ConfirmationsOK

-----------------------------------------------------------------------------

LEMMA LInvHolds ==
  ASSUME LInv
  PROVE  /\ MailFindsItsAccount /\ ActsOnWhomItRead /\ BannedIsGone
         /\ VerifiedWasConfirmed
BY IInvHolds DEF LInv, ConfirmationsOK

LEMMA WhatIsTyped ==
  ASSUME LInv
  PROVE  /\ StoreInv /\ JobsOK /\ hashes \in Nat
BY DEF LInv, IInv

(* The file is what it was or what the memory is.                          *)
LEMMA FileFollows ==
  Save \/ NotFound => disk'.accts \in {accts', disk.accts}
BY DEF Save, Saved, SaveFails, NotFound, store

LEMMA RemoveFollows ==
  ASSUME NEW id \in Ids, Remove(id), StoreInv
  PROVE  /\ disk'.accts \in {accts', disk.accts}
         /\ \A i \in Ids : accts'[i] \in {Gone, accts[i]}
<1>1. disk'.accts \in {accts', disk.accts}
  BY FileFollows DEF Remove
<1>2. \A i \in Ids : accts'[i] \in {Gone, accts[i]}
  BY DEF Remove, Drop, NotFound, store, StoreInv, FilesOK, AcctsOK
<1>3. QED  BY <1>1, <1>2

-----------------------------------------------------------------------------
(* Hashes.                                                                 *)

LEMMA OwnedAfter ==
  ASSUME disk'.accts \in {accts', disk.accts}, resets' = resets, NEW h, NEW b, Owned(h, b)'
  PROVE  \/ Owned(h, b)
         \/ \E id \in Ids : Live(id)' /\ accts'[id].hash = h /\ accts'[id].born = b
BY DEF Owned, Live

(* A step that changes no hash and hands none to a handler.                *)
LEMMA HashesStay ==
  ASSUME HashesOK, JobsOK, hashes' = hashes, \A h, b \in Nat : Owned(h, b)' => Owned(h, b),
         \A v \in Workers : Fresh(v)' => Fresh(v) /\ work'[v] = work[v]
  PROVE  HashesOK'
<1>1. (\A h, b, c \in Nat : Owned(h, b) /\ Owned(h, c) => b = c)'
  BY DEF HashesOK
<1>2. (\A h, b \in Nat : Owned(h, b) => h <= hashes)'
  BY DEF HashesOK
<1>3. \A v \in Workers : Fresh(v) => work[v].hash \in Nat
  BY DEF JobsOK, Fresh, Jobs, Idle
<1>4. (\A w \in Workers : Fresh(w) =>
         /\ work[w].hash <= hashes
         /\ \A b \in Nat : ~Owned(work[w].hash, b)
         /\ \A v \in Workers : Fresh(v) /\ v # w => work[v].hash # work[w].hash)'
  <2> SUFFICES ASSUME NEW w \in Workers, Fresh(w)'
               PROVE  /\ work'[w].hash <= hashes'
                      /\ \A b \in Nat : ~Owned(work[w].hash, b)'
                      /\ \A v \in Workers : Fresh(v)' /\ v # w => work'[v].hash # work'[w].hash
    OBVIOUS
  <2>1. PICK h \in Nat : h = work[w].hash /\ h = work'[w].hash
    BY <1>3
  <2>2. \A b \in Nat : ~Owned(h, b)
    BY <2>1 DEF HashesOK
  <2>3. \A b \in Nat : ~Owned(work[w].hash, b)'
    BY <2>1, <2>2 DEF Owned
  <2>4. QED  BY <2>3 DEF HashesOK
<1>5. QED  BY <1>1, <1>2, <1>4 DEF HashesOK

(* A handler makes a hash.                                                 *)
LEMMA HashIsMade ==
  ASSUME HashesOK, JobsOK, hashes \in Nat, hashes' = hashes + 1,
         \A h, b \in Nat : Owned(h, b)' => Owned(h, b),
         NEW w \in Workers, NEW job \in Jobs, job.hash = hashes',
         work' = [work EXCEPT ![w] = job]
  PROVE  HashesOK'
<1>1. (\A h, b, c \in Nat : Owned(h, b) /\ Owned(h, c) => b = c)'
  BY DEF HashesOK
<1>2. (\A h, b \in Nat : Owned(h, b) => h <= hashes)'
  BY DEF HashesOK
<1>3. \A v \in Workers : Fresh(v) => work[v].hash \in Nat
  BY DEF JobsOK, Fresh, Jobs, Idle
<1>4. \A v \in Workers : work'[v] = IF v = w THEN job ELSE work[v]
  BY DEF JobsOK
<1>5. \A v \in Workers : v # w /\ Fresh(v)' => Fresh(v)
  BY <1>4 DEF Fresh
<1>6. \A b \in Nat : ~Owned(hashes + 1, b)
  BY DEF HashesOK
<1>7. (\A v \in Workers : Fresh(v) =>
         /\ work[v].hash <= hashes
         /\ \A b \in Nat : ~Owned(work[v].hash, b)
         /\ \A u \in Workers : Fresh(u) /\ u # v => work[u].hash # work[v].hash)'
  <2> SUFFICES ASSUME NEW v \in Workers, Fresh(v)'
               PROVE  /\ work'[v].hash <= hashes'
                      /\ \A b \in Nat : ~Owned(work[v].hash, b)'
                      /\ \A u \in Workers : Fresh(u)' /\ u # v => work'[u].hash # work'[v].hash
    OBVIOUS
  <2>1. PICK h \in Nat : h = work'[v].hash /\ (v = w => h = hashes + 1)
    BY <1>3, <1>4, <1>5
  <2>2. \A b \in Nat : ~Owned(h, b)
    BY <1>4, <1>5, <1>6, <2>1 DEF HashesOK
  <2>3. \A b \in Nat : ~Owned(work[v].hash, b)'
    BY <2>1, <2>2 DEF Owned
  <2>4. \A u \in Workers : u # w /\ Fresh(u) => work[u].hash \in Nat /\ work[u].hash <= hashes
    BY <1>3 DEF HashesOK
  <2>5. work'[v].hash <= hashes'
    BY <1>4, <1>5, <2>4
  <2>6. \A u \in Workers : Fresh(u)' /\ u # v => work'[u].hash # work'[v].hash
    <3> SUFFICES ASSUME NEW u \in Workers, Fresh(u)', u # v PROVE work'[u].hash # work'[v].hash
      OBVIOUS
    <3>1. CASE u = w
      BY <1>4, <1>5, <2>4, <3>1
    <3>2. CASE v = w
      BY <1>4, <1>5, <2>4, <3>2
    <3>3. CASE u # w /\ v # w
      BY <1>4, <1>5, <3>3 DEF HashesOK
    <3>4. QED  BY <3>1, <3>2, <3>3
  <2>7. QED  BY <2>3, <2>5, <2>6
<1>8. QED  BY <1>1, <1>2, <1>7 DEF HashesOK

(* The hash a handler made becomes that of one account.                    *)
LEMMA HashIsUsed ==
  ASSUME HashesOK, JobsOK, hashes' = hashes, hashes \in Nat,
         NEW w \in Workers, Fresh(w), Finish(w), NEW born \in Nat,
         \A h, b \in Nat : Owned(h, b)' => Owned(h, b) \/ (h = work[w].hash /\ b = born)
  PROVE  HashesOK'
<1>1. PICK new \in Nat : new = work[w].hash
  BY DEF JobsOK, Fresh, Jobs, Idle
<1>2. \A b \in Nat : ~Owned(new, b)
  BY <1>1 DEF HashesOK
<1>3. (\A h, b, c \in Nat : Owned(h, b) /\ Owned(h, c) => b = c)'
  BY <1>1, <1>2 DEF HashesOK
<1>4. new <= hashes
  BY <1>1 DEF HashesOK
<1>5. (\A h, b \in Nat : Owned(h, b) => h <= hashes)'
  BY <1>1, <1>4 DEF HashesOK
<1>6. \A v \in Workers : work'[v] = IF v = w THEN Idle ELSE work[v]
  BY DEF JobsOK, Finish
<1>7. \A v \in Workers : Fresh(v)' => v # w /\ Fresh(v) /\ work'[v] = work[v]
  BY <1>6 DEF Fresh, Idle
<1>8. (\A v \in Workers : Fresh(v) =>
         /\ work[v].hash <= hashes
         /\ \A b \in Nat : ~Owned(work[v].hash, b)
         /\ \A u \in Workers : Fresh(u) /\ u # v => work[u].hash # work[v].hash)'
  <2> SUFFICES ASSUME NEW v \in Workers, Fresh(v)'
               PROVE  /\ work'[v].hash <= hashes'
                      /\ \A b \in Nat : ~Owned(work[v].hash, b)'
                      /\ \A u \in Workers : Fresh(u)' /\ u # v => work'[u].hash # work'[v].hash
    OBVIOUS
  <2>1. PICK h \in Nat : h = work'[v].hash /\ h = work[v].hash
    BY <1>7 DEF JobsOK, Fresh, Jobs, Idle
  <2>2. h # new /\ \A b \in Nat : ~Owned(h, b)
    BY <1>1, <1>7, <2>1 DEF HashesOK
  <2>3. \A b \in Nat : ~Owned(work[v].hash, b)'
    BY <1>1, <2>1, <2>2 DEF Owned
  <2>4. QED  BY <1>7, <2>3 DEF HashesOK
<1>9. QED  BY <1>3, <1>5, <1>8 DEF HashesOK

-----------------------------------------------------------------------------
(* Confirmations.                                                          *)

(* An account keeps its address and is verified when it was or may be, or  *)
(* it has a new address, unverified, and is noted as raced if a handler is *)
(* about to verify it; no handler is but those who were or may be.         *)
LEMMA ConfirmationsStay ==
  ASSUME ConfirmationsOK, JobsOK, disk'.accts \in {accts', disk.accts},
         confirmed \subseteq confirmed', raced \subseteq raced',
         \A id \in Ids : Live(id)' =>
           \/ /\ Live(id) /\ accts'[id].mail = accts[id].mail
              /\ accts'[id].verified => accts[id].verified \/ Confirmed(accts, id)
           \/ ~accts'[id].verified /\ (id < next /\ id \in BeingConfirmed => id \in raced'),
         \A v \in Workers : Doing(v, "confirm")' =>
           \/ Doing(v, "confirm") /\ work'[v] = work[v]
           \/ Confirmed(accts, work[v].id)',
         SameOrGone
  PROVE  ConfirmationsOK'
<1>1. VerifiedWasConfirmed'
  BY DEF ConfirmationsOK, VerifiedWasConfirmed, Confirmed, Live
<1>2. \A id \in Ids : disk'.accts[id] # Gone /\ disk'.accts[id].verified =>
        disk'.accts[id].mail \in confirmed' \/ id \in raced'
  BY <1>1 DEF ConfirmationsOK, VerifiedWasConfirmed, Confirmed, Live
<1>3. \A v \in Workers : Doing(v, "confirm")' /\ Live(work[v].id)' =>
        accts'[work'[v].id].mail \in confirmed' \/ work'[v].id \in raced'
  <2> SUFFICES ASSUME NEW v \in Workers, Doing(v, "confirm")', Live(work[v].id)',
                      ~Confirmed(accts, work[v].id)'
               PROVE  accts'[work'[v].id].mail \in confirmed' \/ work'[v].id \in raced'
    BY DEF Confirmed
  <2>1. PICK i \in Ids : i = work[v].id /\ i = work'[v].id /\ i < next
    BY DEF JobsOK, JobOK, Acts, Doing
  <2>2. Live(i) /\ i \in BeingConfirmed /\ accts'[i] # Gone
    BY <2>1 DEF SameOrGone, Live, BeingConfirmed, Doing
  <2>3. accts[i].mail \in confirmed \/ i \in raced
    BY <2>1, <2>2 DEF ConfirmationsOK, Confirmed
  <2>4. QED  BY <2>1, <2>2, <2>3 DEF Live
<1>4. QED  BY <1>1, <1>2, <1>3 DEF ConfirmationsOK, Confirmed

-----------------------------------------------------------------------------
(* The steps of Accounts that mail nothing.                                *)

(* A change after which every account has the hash it had.                 *)
LEMMA OwnedStaysInStore ==
  ASSUME disk'.accts \in {accts', disk.accts}, resets' = resets,
         \A id \in Ids : Live(id)' =>
           Live(id) /\ accts'[id].hash = accts[id].hash /\ accts'[id].born = accts[id].born
  PROVE  \A h, b \in Nat : Owned(h, b)' => Owned(h, b)
<1> SUFFICES ASSUME NEW h \in Nat, NEW b \in Nat, Owned(h, b)' PROVE Owned(h, b)
  OBVIOUS
<1>1. \/ Owned(h, b)
      \/ \E id \in Ids : Live(id)' /\ accts'[id].hash = h /\ accts'[id].born = b
  BY OwnedAfter
<1>2. QED  BY <1>1 DEF Owned

(* A step that at most deletes an account, and hands no hash and no        *)
(* confirmation to a handler.                                              *)
LEMMA NothingNew ==
  ASSUME LInv, IInv', SameOrGone, UNCHANGED <<hashes, links>>,
         disk'.accts \in {accts', disk.accts},
         \A id \in Ids : Live(id)' => Live(id) /\ accts'[id] = accts[id],
         \A v \in Workers : work'[v] = work[v] \/ (~Fresh(v)' /\ ~Doing(v, "confirm")')
  PROVE  LInv'
<1>1. UNCHANGED <<confirms, resets, confirmed, raced>>
  BY DEF links
<1>2. HashesOK'
  <2>1. \A v \in Workers : Fresh(v)' => Fresh(v) /\ work'[v] = work[v]
    BY DEF Fresh
  <2>2. QED  BY <1>1, <2>1, WhatIsTyped, OwnedStaysInStore, HashesStay DEF LInv
<1>3. ConfirmationsOK'
  <2>1. \A v \in Workers : Doing(v, "confirm")' => Doing(v, "confirm") /\ work'[v] = work[v]
    BY DEF Doing
  <2>2. QED  BY <1>1, <2>1, WhatIsTyped, ConfirmationsStay DEF LInv
<1>4. LinksOK'
  BY <1>1 DEF LInv, LinksOK
<1>5. QED  BY <1>2, <1>3, <1>4 DEF LInv

LEMMA SameStore ==
  ASSUME LInv, UNCHANGED store
  PROVE  /\ SameOrGone /\ disk'.accts \in {accts', disk.accts}
         /\ \A id \in Ids : Live(id)' => Live(id) /\ accts'[id] = accts[id]
BY WhatIsTyped DEF store, SameOrGone, Live, StoreInv, FilesOK, AcctsOK

(* One handler has another job, neither a new password nor a confirmation. *)
LEMMA OneOtherJob ==
  ASSUME LInv, NEW w \in Workers, NEW job, work' = [work EXCEPT ![w] = job],
         job.at \notin {"create", "reset", "confirm"}
  PROVE  \A v \in Workers : work'[v] = work[v] \/ (~Fresh(v)' /\ ~Doing(v, "confirm")')
BY WhatIsTyped DEF JobsOK, Fresh, Doing

LEMMA RenameCheckLinks ==
  ASSUME LInv, NEW w \in Workers, NEW id \in Ids, NEW m \in Mails, RenameCheck(w, id, m),
         UNCHANGED links
  PROVE  LInv'
<1>1. PICK job : job = For(id, "rename", m, 0)
  OBVIOUS
<1>2. work' = [work EXCEPT ![w] = job] /\ UNCHANGED <<store, hashes>> /\ job.at = "rename"
  BY <1>1 DEF RenameCheck, Start, For
<1>3. IInv'
  BY RenameCheckKeeps DEF LInv
<1>4. QED  BY <1>2, <1>3, SameStore, OneOtherJob, NothingNew

LEMMA BanReadLinks ==
  ASSUME LInv, NEW w \in Workers, NEW id \in Ids, BanRead(w, id), UNCHANGED links
  PROVE  LInv'
<1>1. PICK job : /\ work' = [work EXCEPT ![w] = job]
                 /\ \/ job = For(id, "ban", accts[id].mail, 0)
                    \/ job = ForNobody("ban", id, NoMail, 0)
  BY DEF BanRead, BlindBan, Start
<1>2. job.at = "ban"
  BY <1>1 DEF For, ForNobody
<1>3. UNCHANGED <<store, hashes>> /\ IInv'
  BY BanReadKeeps DEF BanRead, LInv
<1>4. QED  BY <1>1, <1>2, <1>3, SameStore, OneOtherJob, NothingNew

LEMMA BanAddLinks ==
  ASSUME LInv, NEW w \in Workers, BanAdd(w), UNCHANGED links
  PROVE  LInv'
<1>1. work[w] \in [at : {"ban"}, id : Ids, born : Nat, mail : Mails \cup {NoMail}, hash : Nat]
  <2>1. work[w] \in Jobs /\ JobOK(work[w]) /\ work[w].at = "ban"
    BY WhatIsTyped DEF BanAdd, Doing, JobsOK
  <2>2. QED  BY <2>1 DEF Jobs, Idle, JobOK, Acts
<1>2. PICK job : /\ work' = [work EXCEPT ![w] = job]
                 /\ job = IF work[w].mail = NoMail THEN Idle
                          ELSE [work[w] EXCEPT !.at = "purge", !.mail = NoMail]
  BY DEF BanAdd
<1>3. job.at \in {"idle", "purge"}
  BY <1>1, <1>2 DEF Idle
<1>4. UNCHANGED <<store, hashes>> /\ IInv'
  BY BanAddKeeps DEF BanAdd, LInv
<1>5. QED  BY <1>2, <1>3, <1>4, SameStore, OneOtherJob, NothingNew

LEMMA UnbanLinks ==
  ASSUME LInv, NEW id \in Ids, Unban(id), UNCHANGED links
  PROVE  LInv'
<1>1. UNCHANGED <<store, work, hashes>> /\ IInv'
  BY UnbanKeeps DEF Unban, LInv
<1>2. QED  BY <1>1, SameStore, NothingNew

LEMMA RemoveIsQuiet ==
  ASSUME LInv, NEW id \in Ids, Remove(id)
  PROVE  /\ SameOrGone /\ disk'.accts \in {accts', disk.accts}
         /\ \A i \in Ids : Live(i)' => Live(i) /\ accts'[i] = accts[i]
BY WhatIsTyped, RemoveKeepsStore, RemoveFollows DEF Live

LEMMA DeleteLinks ==
  ASSUME LInv, NEW id \in Ids, Delete(id), UNCHANGED links
  PROVE  LInv'
<1>1. UNCHANGED <<work, hashes>> /\ IInv' /\ Remove(id)
  BY DeleteKeeps DEF Delete, LInv
<1>2. QED  BY <1>1, RemoveIsQuiet, NothingNew

LEMMA PurgeLinks ==
  ASSUME LInv, NEW w \in Workers, Purge(w), UNCHANGED links
  PROVE  LInv'
<1>1. PICK id \in Ids : id = work[w].id
  BY WhatIsTyped DEF Purge, Doing, JobsOK, JobOK, Acts
<1>2. /\ work' = [work EXCEPT ![w] = Idle] /\ Idle.at = "idle"
      /\ hashes' = hashes /\ IInv' /\ Remove(id)
  BY <1>1, PurgeKeeps DEF Purge, Finish, Idle, LInv
<1>3. QED  BY <1>2, RemoveIsQuiet, OneOtherJob, NothingNew

LEMMA WriteElsewhereLinks ==
  ASSUME LInv, WriteElsewhere, UNCHANGED links
  PROVE  LInv'
<1>1. /\ UNCHANGED <<accts, work, hashes>> /\ IInv' /\ SameOrGone
      /\ disk' = [accts |-> accts, next |-> next]
  BY WhatIsTyped, WriteElsewhereKeeps, OtherSaveKeepsStore DEF WriteElsewhere, OtherSave, LInv
<1>2. QED  BY <1>1, NothingNew DEF Live

LEMMA StutterLinks ==
  ASSUME LInv, UNCHANGED linkVars
  PROVE  LInv'
<1>1. UNCHANGED <<store, work, hashes, links>> /\ UNCHANGED vars
  BY DEF linkVars, vars
<1>2. IInv'
  BY <1>1, StutterKeeps DEF LInv
<1>3. QED  BY <1>1, <1>2, SameStore, NothingNew

LEMMA RestartLinks ==
  ASSUME LInv, Restart, UNCHANGED links
  PROVE  LInv'
<1>1. IInv'
  BY RestartKeeps DEF LInv
<1>2. /\ accts' = disk.accts /\ disk' = disk /\ hashes' = hashes
      /\ work' = [w \in Workers |-> Idle]
      /\ UNCHANGED <<confirms, resets, confirmed, raced>>
  BY DEF Restart, Reload, links
<1>3. \A v \in Workers : ~Fresh(v)' /\ ~Doing(v, "confirm")'
  BY <1>2 DEF Fresh, Doing, Idle
<1>4. \A h, b \in Nat : Owned(h, b)' => Owned(h, b)
  BY <1>2 DEF Owned, Live
<1>5. HashesOK'
  BY <1>2, <1>3, <1>4, WhatIsTyped, HashesStay DEF LInv
<1>6. ConfirmationsOK'
  BY <1>2, <1>3 DEF LInv, ConfirmationsOK, VerifiedWasConfirmed, Confirmed, Live
<1>7. LinksOK'
  BY <1>2 DEF LInv, LinksOK
<1>8. QED  BY <1>1, <1>5, <1>6, <1>7 DEF LInv

-----------------------------------------------------------------------------
(* Steps that hash a password, mail a link, or open one.                   *)

LEMMA OwnedStay ==
  ASSUME UNCHANGED <<accts, disk>>, resets' = resets
  PROVE  \A h, b \in Nat : Owned(h, b)' => Owned(h, b)
BY DEF Owned, Live

LEMMA NothingRenamed ==
  ASSUME LInv, UNCHANGED <<store, raced>>, confirmed \subseteq confirmed',
         \A v \in Workers : Doing(v, "confirm")' =>
           \/ Doing(v, "confirm") /\ work'[v] = work[v]
           \/ Confirmed(accts, work[v].id)'
  PROVE  ConfirmationsOK'
<1>1. /\ SameOrGone /\ disk'.accts \in {accts', disk.accts}
      /\ \A id \in Ids : Live(id)' => Live(id) /\ accts'[id] = accts[id]
  BY SameStore
<1>2. QED  BY <1>1, WhatIsTyped, ConfirmationsStay DEF LInv

(* A handler has a new job and the store is as it was.                     *)
LEMMA JobIsSet ==
  ASSUME LInv, NEW w \in Workers, NEW job \in Jobs, JobOK(job), work[w] = Idle,
         work' = [work EXCEPT ![w] = job], UNCHANGED <<store, failures>>,
         hashes' \in 0..MaxHashes, OthersSame
  PROVE  IInv'
<1>1. StoreInv' /\ SameOrGone
  BY WhatIsTyped, IdleKeepsStore
<1>2. ~Doing(w, "purge")
  BY DEF Doing, Idle
<1>3. QED  BY <1>1, <1>2, JobStep DEF OthersSame, bans, LInv, IInv, BansOK

LEMMA SetConfirm ==
  ASSUME LInv, NEW w \in Workers, NEW job, work' = [work EXCEPT ![w] = job],
         job.at # "confirm"
  PROVE  \A v \in Workers : Doing(v, "confirm")' => Doing(v, "confirm") /\ work'[v] = work[v]
BY WhatIsTyped DEF JobsOK, Doing

LEMMA RegisterCheckLinks ==
  ASSUME LInv, NEW w \in Workers, NEW m \in Mails, RegisterCheck(w, m), UNCHANGED links
  PROVE  LInv'
<1> DEFINE job == ForNobody("create", Nobody, m, hashes')
<1>1. hashes' = hashes + 1 /\ hashes \in Nat /\ work' = [work EXCEPT ![w] = job]
  BY WhatIsTyped DEF RegisterCheck, NewHash, Start
<1>2. job \in Jobs /\ job.hash = hashes' /\ job.at = "create"
  BY <1>1 DEF ForNobody, Jobs
<1> HIDE DEF job
<1>3. UNCHANGED <<store, confirms, resets, confirmed, raced>> /\ IInv'
  BY RegisterCheckKeeps DEF RegisterCheck, links, LInv
<1>4. HashesOK'
  BY <1>1, <1>2, <1>3, WhatIsTyped, OwnedStay, HashIsMade DEF LInv, store
<1>5. ConfirmationsOK'
  BY <1>1, <1>2, <1>3, SetConfirm, NothingRenamed
<1>6. LinksOK'
  BY <1>3 DEF LInv, LinksOK
<1>7. QED  BY <1>3, <1>4, <1>5, <1>6 DEF LInv

LEMMA ResendKeeps ==
  ASSUME LInv, NEW id \in Ids, Resend(id)
  PROVE  LInv'
<1>1. UNCHANGED vars /\ UNCHANGED <<store, work, hashes, resets, confirmed, raced>>
  BY DEF Resend, vars
<1>2. IInv'
  BY <1>1, StutterKeeps DEF LInv
<1>3. HashesOK'
  BY <1>1, WhatIsTyped, OwnedStay, HashesStay DEF LInv, store, Fresh
<1>4. ConfirmationsOK'
  BY <1>1, NothingRenamed DEF Doing
<1>5. LinksOK'
  <2>1. accts[id].mail \in Mails
    BY WhatIsTyped DEF Resend, Live, StoreInv, FilesOK, AcctsOK, Account
  <2>2. QED  BY <1>1, <2>1 DEF LInv, LinksOK, Resend, MailConfirm, Confirm
<1>6. QED  BY <1>2, <1>3, <1>4, <1>5 DEF LInv

LEMMA ForgotKeeps ==
  ASSUME LInv, NEW m \in Mails, Forgot(m)
  PROVE  LInv'
<1>1. PICK id \in Ids : id = byMail[m]
  BY WhatIsTyped DEF Forgot, Taken, StoreInv, FilesOK
<1>2. Live(id) /\ accts[id] \in Account
  BY <1>1, WhatIsTyped DEF StoreInv, FilesOK, AcctsOK, MailFindsItsAccount, Live
<1>3. /\ UNCHANGED vars /\ UNCHANGED <<store, work, hashes, confirms, confirmed, raced>>
      /\ resets' = resets \cup {[id |-> id, hash |-> accts[id].hash, born |-> accts[id].born]}
  BY <1>1 DEF Forgot, vars
<1>4. IInv'
  BY <1>3, StutterKeeps DEF LInv
<1>5. \A h, b \in Nat : Owned(h, b)' => Owned(h, b)
  BY <1>2, <1>3 DEF Owned, Live, store
<1>6. HashesOK'
  BY <1>3, <1>5, WhatIsTyped, HashesStay DEF LInv, Fresh
<1>7. ConfirmationsOK'
  BY <1>3, NothingRenamed DEF Doing
<1>8. LinksOK'
  BY <1>2, <1>3 DEF LInv, LinksOK, Reset, Account
<1>9. QED  BY <1>4, <1>6, <1>7, <1>8 DEF LInv

LEMMA ConfirmCheckKeeps ==
  ASSUME LInv, NEW w \in Workers, NEW l \in confirms, ConfirmCheck(w, l)
  PROVE  LInv'
<1>1. l.id \in Ids /\ l.mail \in Mails
  BY DEF LInv, LinksOK, Confirm
<1>2. PICK id \in Ids : id = l.id
  BY <1>1
<1> DEFINE job == For(id, "confirm", NoMail, 0)
<1>3. /\ Live(id) /\ accts[id].mail = l.mail /\ work[w] = Idle
      /\ work' = [work EXCEPT ![w] = job] /\ confirmed' = confirmed \cup {l.mail}
      /\ UNCHANGED <<store, hashes, failures, confirms, resets, raced>> /\ OthersSame
  BY <1>2 DEF ConfirmCheck, Start
<1>4. job \in Jobs /\ JobOK(job) /\ job.id = id /\ job.at = "confirm"
  BY <1>2, <1>3, WhatIsTyped, ForIsOK DEF For
<1> HIDE DEF job
<1>5. hashes' \in 0..MaxHashes
  BY <1>3 DEF LInv, IInv
<1>6. IInv'
  BY <1>3, <1>4, <1>5, JobIsSet
<1>7. \A v \in Workers : work'[v] = IF v = w THEN job ELSE work[v]
  BY <1>3, WhatIsTyped DEF JobsOK
<1>8. HashesOK'
  <2>1. \A v \in Workers : Fresh(v)' => Fresh(v) /\ work'[v] = work[v]
    BY <1>4, <1>7 DEF Fresh
  <2>2. QED  BY <1>3, <2>1, WhatIsTyped, OwnedStay, HashesStay DEF LInv, store
<1>9. ConfirmationsOK'
  <2>1. accts' = accts
    BY <1>3 DEF store
  <2>2. \A v \in Workers : Doing(v, "confirm")' =>
          \/ Doing(v, "confirm") /\ work'[v] = work[v]
          \/ Confirmed(accts, work[v].id)'
    BY <1>3, <1>4, <1>7, <2>1 DEF Doing, Confirmed
  <2>3. QED  BY <1>3, <2>2, NothingRenamed
<1>10. LinksOK'
  BY <1>1, <1>3 DEF LInv, LinksOK
<1>11. QED  BY <1>6, <1>8, <1>9, <1>10 DEF LInv

(* The link is bound to a hash, and a hash to one account.                 *)
LEMMA ResetCheckKeeps ==
  ASSUME LInv, NEW w \in Workers, NEW l \in resets, ResetCheck(w, l)
  PROVE  LInv'
<1>1. l.id \in Ids /\ l.hash \in Nat /\ l.born \in Nat
  BY DEF LInv, LinksOK, Reset
<1>2. PICK job : job = [at |-> "reset", id |-> l.id, born |-> l.born, mail |-> NoMail,
                        hash |-> hashes']
  OBVIOUS
<1>3. /\ hashes' = hashes + 1 /\ hashes \in Nat /\ hashes' \in 0..MaxHashes
      /\ work[w] = Idle /\ work' = [work EXCEPT ![w] = job]
      /\ UNCHANGED <<store, failures, links>> /\ OthersSame
  BY <1>2, WhatIsTyped, BoundsAreNaturals DEF ResetCheck, NewHash, Start
<1>4. Live(l.id) /\ accts[l.id].hash = l.hash
  BY DEF ResetCheck, StillBound
<1>5. accts[l.id] \in Account /\ l.id < next
  BY <1>1, <1>4, WhatIsTyped DEF Live, StoreInv, FilesOK, AcctsOK
<1>6. accts[l.id].born = l.born
  <2>1. Owned(l.hash, l.born) /\ Owned(l.hash, accts[l.id].born)
    BY <1>1, <1>4 DEF Owned
  <2>2. accts[l.id].born \in Nat
    BY <1>5 DEF Account
  <2>3. QED  BY <1>1, <2>1, <2>2 DEF LInv, HashesOK
<1>7. job \in Jobs /\ JobOK(job) /\ job.hash = hashes' /\ job.at = "reset"
  BY <1>1, <1>2, <1>3, <1>5, <1>6 DEF Jobs, JobOK, Acts
<1>8. IInv'
  BY <1>3, <1>7, JobIsSet
<1>9. UNCHANGED <<confirms, resets, confirmed, raced>>
  BY <1>3 DEF links
<1>10. HashesOK'
  BY <1>3, <1>7, <1>9, WhatIsTyped, OwnedStay, HashIsMade DEF LInv, store
<1>11. ConfirmationsOK'
  BY <1>3, <1>7, <1>9, SetConfirm, NothingRenamed
<1>12. LinksOK'
  BY <1>9 DEF LInv, LinksOK
<1>13. QED  BY <1>8, <1>10, <1>11, <1>12 DEF LInv

-----------------------------------------------------------------------------
(* Steps that write an account.                                            *)

(* A job that ends leaves no new one.                                      *)
LEMMA FinishLeavesTheOthers ==
  ASSUME LInv, NEW w \in Workers, Finish(w)
  PROVE  \A v \in Workers :
           /\ Doing(v, "confirm")' => Doing(v, "confirm") /\ work'[v] = work[v]
           /\ Fresh(v)' => Fresh(v) /\ work'[v] = work[v]
BY WhatIsTyped DEF Finish, Doing, Fresh, Idle, JobsOK

LEMMA MailsToAnId ==
  ASSUME LInv, NEW id \in Ids \cup {next}, NEW m \in Mails, NEW changed \in BOOLEAN,
         changed => id \in Ids, MailIfWritten(changed, id, m)
  PROVE  confirms' \subseteq Confirm
BY DEF MailIfWritten, MailConfirm, LInv, LinksOK, Confirm

LEMMA RegisterAndMailKeeps ==
  ASSUME LInv, NEW w \in Workers, RegisterAndMail(w)
  PROVE  LInv'
<1>1. PICK j \in Jobs : j = work[w] /\ JobOK(j) /\ j.at = "create"
  BY WhatIsTyped DEF RegisterAndMail, RegisterApply, Doing, JobsOK
<1>2. j.mail \in Mails /\ j.hash \in Nat
  BY <1>1 DEF Jobs, Idle, JobOK
<1>3. /\ Finish(w) /\ UNCHANGED <<hashes, resets, confirmed, raced>>
      /\ \/ ~Taken(j.mail) /\ Insert(j.mail, j.hash) /\ Save
         \/ Taken(j.mail) /\ NotFound
  BY <1>1 DEF RegisterAndMail, RegisterApply
<1>4. IInv'
  BY RegisterApplyKeeps DEF RegisterAndMail, LInv
<1>5. SameOrGone
  BY <1>2, <1>3, WhatIsTyped, InsertKeepsStore, IdleKeepsStore DEF NotFound
<1>6. disk'.accts \in {accts', disk.accts}
  BY <1>3, FileFollows
<1>7. \A id \in Ids : Live(id)' =>
        \/ Live(id) /\ accts'[id] = accts[id]
        \/ /\ accts'[id].hash = j.hash /\ accts'[id].born = j.hash
           /\ ~accts'[id].verified /\ id = next
  <2>1. CASE Insert(j.mail, j.hash)
    BY <2>1, WhatIsTyped DEF Insert, Live, StoreInv, FilesOK, AcctsOK
  <2>2. CASE NotFound
    BY <2>2 DEF NotFound, store, Live
  <2>3. QED  BY <1>3, <2>1, <2>2
<1>8. \A h, b \in Nat : Owned(h, b)' => Owned(h, b) \/ (h = j.hash /\ b = j.hash)
  <2> SUFFICES ASSUME NEW h \in Nat, NEW b \in Nat, Owned(h, b)', ~Owned(h, b)
               PROVE  h = j.hash /\ b = j.hash
    OBVIOUS
  <2>1. PICK id \in Ids : Live(id)' /\ accts'[id].hash = h /\ accts'[id].born = b
    BY <1>3, <1>6, OwnedAfter
  <2>2. QED  BY <1>7, <2>1 DEF Owned
<1>9. HashesOK'
  <2>1. Fresh(w) /\ HashesOK
    BY <1>1 DEF Fresh, LInv
  <2>2. \A h, b \in Nat : Owned(h, b)' => Owned(h, b) \/ (h = work[w].hash /\ b = j.hash)
    BY <1>1, <1>8
  <2>3. QED  BY <1>2, <1>3, <2>1, <2>2, WhatIsTyped, HashIsUsed
<1>10. ConfirmationsOK'
  <2>1. next \in Nat
    BY WhatIsTyped DEF StoreInv, FilesOK, AcctsOK
  <2>2. \A id \in Ids : Live(id)' =>
          \/ /\ Live(id) /\ accts'[id].mail = accts[id].mail
             /\ accts'[id].verified => accts[id].verified \/ Confirmed(accts, id)
          \/ ~accts'[id].verified /\ (id < next /\ id \in BeingConfirmed => id \in raced')
    BY <1>7, <2>1
  <2>3. QED
    BY <1>3, <1>5, <1>6, <2>2, WhatIsTyped, FinishLeavesTheOthers, ConfirmationsStay DEF LInv
<1>11. LinksOK'
  <2>1. ~Taken(j.mail) => next \in Ids
    BY <1>3 DEF Insert
  <2>2. confirms' \subseteq Confirm
    BY <1>1, <1>2, <2>1, MailsToAnId DEF RegisterAndMail, Taken
  <2>3. QED  BY <1>3, <2>2 DEF LInv, LinksOK
<1>12. QED  BY <1>4, <1>9, <1>10, <1>11 DEF LInv

(* A rename in the middle of a confirmation is noted as raced.             *)
LEMMA RenameAndMailKeeps ==
  ASSUME LInv, NEW w \in Workers, RenameAndMail(w)
  PROVE  LInv'
<1>1. PICK id \in Ids, m \in Mails : id = work[w].id /\ m = work[w].mail
  BY WhatIsTyped DEF RenameAndMail, RenameApply, Doing, JobsOK, JobOK, Acts
<1>2. /\ Finish(w) /\ UNCHANGED <<hashes, resets, confirmed>>
      /\ \/ /\ CanTake(id, m) /\ SetEmail(id, m) /\ Save
            /\ raced' = raced \cup ({id} \cap BeingConfirmed)
         \/ NotFound /\ raced' = raced
  BY <1>1 DEF RenameAndMail, RenameApply
<1>3. IInv'
  BY RenameApplyKeeps DEF RenameAndMail, LInv
<1>4. SameOrGone
  BY <1>2, WhatIsTyped, SetEmailKeepsStore, IdleKeepsStore DEF NotFound
<1>5. disk'.accts \in {accts', disk.accts}
  BY <1>2, FileFollows
<1>6. \A i \in Ids : Live(i)' =>
        /\ Live(i) /\ accts'[i].hash = accts[i].hash /\ accts'[i].born = accts[i].born
        /\ \/ accts'[i].mail = accts[i].mail /\ accts'[i].verified = accts[i].verified
           \/ ~accts'[i].verified /\ (i \in BeingConfirmed => i \in raced')
  <2>1. CASE CanTake(id, m) /\ SetEmail(id, m) /\ raced' = raced \cup ({id} \cap BeingConfirmed)
    <3>1. accts[id] \in Account
      BY <2>1, WhatIsTyped DEF CanTake, Live, StoreInv, FilesOK, AcctsOK
    <3>2. QED
      BY <2>1, <3>1, WhatIsTyped
         DEF CanTake, SetEmail, Live, Account, StoreInv, FilesOK, AcctsOK
  <2>2. CASE NotFound
    BY <2>2 DEF NotFound, store, Live
  <2>3. QED  BY <1>2, <2>1, <2>2
<1>7. HashesOK'
  BY <1>2, <1>5, <1>6, WhatIsTyped, OwnedStaysInStore, FinishLeavesTheOthers, HashesStay
     DEF LInv
<1>8. ConfirmationsOK'
  <2>1. raced \subseteq raced'
    BY <1>2
  <2>2. QED
    BY <1>2, <1>4, <1>5, <1>6, <2>1, WhatIsTyped, FinishLeavesTheOthers, ConfirmationsStay
       DEF LInv
<1>9. LinksOK'
  <2>1. raced' \subseteq Ids
    BY <1>2 DEF LInv, LinksOK
  <2>2. confirms' \subseteq Confirm
    BY <1>1, MailsToAnId DEF RenameAndMail, CanTake, Live
  <2>3. QED  BY <1>2, <2>1, <2>2 DEF LInv, LinksOK
<1>10. QED  BY <1>3, <1>7, <1>8, <1>9 DEF LInv

(* A job of a link ends and has put something in its account.              *)
LEMMA JobIsApplied ==
  ASSUME LInv, NEW w \in Workers, ~Doing(w, "purge"), Finish(w),
         StoreInv', SameOrGone, hashes' = hashes, OthersSame
  PROVE  IInv'
<1>1. work' = [work EXCEPT ![w] = Idle] /\ hashes' \in 0..MaxHashes
  BY DEF Finish, LInv, IInv
<1>2. QED  BY <1>1, IdleIsOK, JobStep DEF OthersSame, bans, LInv, IInv, BansOK

LEMMA ConfirmApplyKeeps ==
  ASSUME LInv, NEW w \in Workers, ConfirmApply(w)
  PROVE  LInv'
<1>1. PICK id \in Ids : id = work[w].id /\ id \in BeingConfirmed
  BY WhatIsTyped DEF ConfirmApply, Doing, BeingConfirmed, JobsOK, JobOK, Acts
<1>2. /\ Finish(w) /\ OthersSame /\ UNCHANGED <<hashes, confirms, resets, confirmed, raced>>
      /\ \/ Live(id) /\ Put(id, [accts[id] EXCEPT !.verified = TRUE]) /\ Save
         \/ NotFound
  BY <1>1 DEF ConfirmApply, links
<1>3. Live(id) =>
        /\ accts[id] \in Account
        /\ [accts[id] EXCEPT !.verified = TRUE] \in Account
        /\ [accts[id] EXCEPT !.verified = TRUE].mail = accts[id].mail
        /\ [accts[id] EXCEPT !.verified = TRUE].born = accts[id].born
        /\ [accts[id] EXCEPT !.verified = TRUE].hash = accts[id].hash
  BY WhatIsTyped DEF Live, Account, StoreInv, FilesOK, AcctsOK
<1>4. StoreInv' /\ SameOrGone
  BY <1>2, <1>3, WhatIsTyped, PutKeepsStore, IdleKeepsStore DEF NotFound
<1>5. IInv'
  BY <1>2, <1>4, JobIsApplied DEF ConfirmApply, Doing
<1>6. disk'.accts \in {accts', disk.accts}
  BY <1>2, FileFollows
<1>7. \A i \in Ids : Live(i)' =>
        /\ Live(i) /\ accts'[i].mail = accts[i].mail
        /\ accts'[i].hash = accts[i].hash /\ accts'[i].born = accts[i].born
        /\ accts'[i].verified => accts[i].verified \/ i = id
  <2>1. CASE Live(id) /\ Put(id, [accts[id] EXCEPT !.verified = TRUE])
    BY <1>3, <2>1, WhatIsTyped DEF Put, Live, StoreInv, FilesOK, AcctsOK
  <2>2. CASE NotFound
    BY <2>2 DEF NotFound, store, Live
  <2>3. QED  BY <1>2, <2>1, <2>2
<1>8. HashesOK'
  BY <1>2, <1>6, <1>7, WhatIsTyped, OwnedStaysInStore, FinishLeavesTheOthers, HashesStay
     DEF LInv
<1>9. ConfirmationsOK'
  <2>1. Live(id) => Confirmed(accts, id)
    BY <1>1 DEF ConfirmApply, LInv, ConfirmationsOK
  <2>2. QED
    BY <1>2, <1>4, <1>6, <1>7, <2>1, WhatIsTyped, FinishLeavesTheOthers, ConfirmationsStay
       DEF LInv
<1>10. LinksOK'
  BY <1>2 DEF LInv, LinksOK
<1>11. QED  BY <1>5, <1>8, <1>9, <1>10 DEF LInv

LEMMA ResetApplyKeeps ==
  ASSUME LInv, NEW w \in Workers, ResetApply(w)
  PROVE  LInv'
<1>1. PICK j \in Jobs : j = work[w] /\ JobOK(j) /\ j.at = "reset"
  BY WhatIsTyped DEF ResetApply, Doing, JobsOK
<1>2. PICK id \in Ids : id = j.id /\ j.hash \in Nat /\ j.born \in Nat
  BY <1>1 DEF Jobs, Idle, JobOK, Acts
<1>3. /\ Finish(w) /\ OthersSame /\ UNCHANGED <<hashes, confirms, resets, confirmed, raced>>
      /\ \/ Live(id) /\ Put(id, [accts[id] EXCEPT !.hash = j.hash]) /\ Save
         \/ NotFound
  BY <1>1, <1>2 DEF ResetApply, links
<1>4. Live(id) =>
        /\ [accts[id] EXCEPT !.hash = j.hash] \in Account
        /\ [accts[id] EXCEPT !.hash = j.hash].mail = accts[id].mail
        /\ [accts[id] EXCEPT !.hash = j.hash].born = accts[id].born
        /\ [accts[id] EXCEPT !.hash = j.hash].verified = accts[id].verified
        /\ [accts[id] EXCEPT !.hash = j.hash].hash = j.hash
        /\ accts[id].born = j.born
  BY <1>1, <1>2, WhatIsTyped DEF Live, Account, StoreInv, FilesOK, AcctsOK, JobOK, Acts
<1>5. StoreInv' /\ SameOrGone
  BY <1>3, <1>4, WhatIsTyped, PutKeepsStore, IdleKeepsStore DEF NotFound
<1>6. IInv'
  BY <1>3, <1>5, JobIsApplied DEF ResetApply, Doing
<1>7. disk'.accts \in {accts', disk.accts}
  BY <1>3, FileFollows
<1>8. \A i \in Ids : Live(i)' =>
        /\ Live(i) /\ accts'[i].mail = accts[i].mail /\ accts'[i].born = accts[i].born
        /\ accts'[i].verified = accts[i].verified
        /\ accts'[i].hash = accts[i].hash \/ (accts'[i].hash = j.hash /\ accts'[i].born = j.born)
  <2>1. CASE Live(id) /\ Put(id, [accts[id] EXCEPT !.hash = j.hash])
    BY <1>4, <2>1, WhatIsTyped DEF Put, Live, StoreInv, FilesOK, AcctsOK
  <2>2. CASE NotFound
    BY <2>2 DEF NotFound, store, Live
  <2>3. QED  BY <1>3, <2>1, <2>2
<1>9. \A h, b \in Nat : Owned(h, b)' => Owned(h, b) \/ (h = j.hash /\ b = j.born)
  <2> SUFFICES ASSUME NEW h \in Nat, NEW b \in Nat, Owned(h, b)', ~Owned(h, b)
               PROVE  h = j.hash /\ b = j.born
    OBVIOUS
  <2>1. PICK i \in Ids : Live(i)' /\ accts'[i].hash = h /\ accts'[i].born = b
    BY <1>3, <1>7, OwnedAfter
  <2>2. QED  BY <1>8, <2>1 DEF Owned
<1>10. HashesOK'
  <2>1. Fresh(w) /\ HashesOK
    BY <1>1 DEF Fresh, LInv
  <2>2. \A h, b \in Nat : Owned(h, b)' => Owned(h, b) \/ (h = work[w].hash /\ b = j.born)
    BY <1>1, <1>9
  <2>3. QED  BY <1>2, <1>3, <2>1, <2>2, WhatIsTyped, HashIsUsed
<1>11. ConfirmationsOK'
  BY <1>3, <1>5, <1>7, <1>8, WhatIsTyped, FinishLeavesTheOthers, ConfirmationsStay DEF LInv
<1>12. LinksOK'
  BY <1>3 DEF LInv, LinksOK
<1>13. QED  BY <1>6, <1>10, <1>11, <1>12 DEF LInv

-----------------------------------------------------------------------------

LEMMA LinkInitHolds == LinkInit => LInv
<1> SUFFICES ASSUME LinkInit PROVE LInv
  OBVIOUS
<1>1. IInv
  BY InitHolds DEF LinkInit
<1>2. /\ work = [w \in Workers |-> Idle]
      /\ \A id \in Ids : accts[id] = Gone /\ disk.accts[id] = Gone
  BY DEF LinkInit, Init, StoreInit
<1>3. \A h, b : ~Owned(h, b)
  BY <1>2 DEF Owned, Live, LinkInit
<1>4. HashesOK
  BY <1>2, <1>3 DEF HashesOK, Fresh, Idle
<1>5. ConfirmationsOK
  BY <1>2 DEF ConfirmationsOK, VerifiedWasConfirmed, Doing, Idle, Live
<1>6. LinksOK
  BY DEF LinkInit, LinksOK
<1>7. QED  BY <1>1, <1>4, <1>5, <1>6 DEF LInv

LEMMA OthersLinks ==
  ASSUME LInv, Others, UNCHANGED links
  PROVE  LInv'
<1>1. ASSUME NEW w \in Workers, NEW m \in Mails, RegisterCheck(w, m) PROVE LInv'
  BY <1>1, RegisterCheckLinks
<1>2. ASSUME NEW w \in Workers, NEW id \in Ids, NEW m \in Mails, RenameCheck(w, id, m)
      PROVE  LInv'
  BY <1>2, RenameCheckLinks
<1>3. ASSUME NEW w \in Workers, BanAdd(w) PROVE LInv'
  BY <1>3, BanAddLinks
<1>4. ASSUME NEW w \in Workers, Purge(w) PROVE LInv'
  BY <1>4, PurgeLinks
<1>5. ASSUME NEW w \in Workers, NEW id \in Ids, BanRead(w, id) PROVE LInv'
  BY <1>5, BanReadLinks
<1>6. ASSUME NEW id \in Ids, Delete(id) PROVE LInv'
  BY <1>6, DeleteLinks
<1>7. ASSUME NEW id \in Ids, Unban(id) PROVE LInv'
  BY <1>7, UnbanLinks
<1>8. CASE WriteElsewhere
  BY <1>8, WriteElsewhereLinks
<1>9. CASE Restart
  BY <1>9, RestartLinks
<1>10. QED
  BY <1>1, <1>2, <1>3, <1>4, <1>5, <1>6, <1>7, <1>8, <1>9 DEF Others

LEMMA LinkNextKeeps == LInv /\ [LinkNext]_linkVars => LInv'
<1> SUFFICES ASSUME LInv, [LinkNext]_linkVars PROVE LInv'
  OBVIOUS
<1>1. ASSUME NEW w \in Workers, NEW l \in confirms, ConfirmCheck(w, l) PROVE LInv'
  BY <1>1, ConfirmCheckKeeps
<1>2. ASSUME NEW w \in Workers, NEW l \in resets, ResetCheck(w, l) PROVE LInv'
  BY <1>2, ResetCheckKeeps
<1>3. ASSUME NEW w \in Workers, RegisterAndMail(w) PROVE LInv'
  BY <1>3, RegisterAndMailKeeps
<1>4. ASSUME NEW w \in Workers, RenameAndMail(w) PROVE LInv'
  BY <1>4, RenameAndMailKeeps
<1>5. ASSUME NEW w \in Workers, ConfirmApply(w) PROVE LInv'
  BY <1>5, ConfirmApplyKeeps
<1>6. ASSUME NEW w \in Workers, ResetApply(w) PROVE LInv'
  BY <1>6, ResetApplyKeeps
<1>7. ASSUME NEW id \in Ids, Resend(id) PROVE LInv'
  BY <1>7, ResendKeeps
<1>8. ASSUME NEW m \in Mails, Forgot(m) PROVE LInv'
  BY <1>8, ForgotKeeps
<1>9. CASE Others /\ UNCHANGED links
  BY <1>9, OthersLinks
<1>10. CASE UNCHANGED linkVars
  BY <1>10, StutterLinks
<1>11. QED
  BY <1>1, <1>2, <1>3, <1>4, <1>5, <1>6, <1>7, <1>8, <1>9, <1>10 DEF LinkNext

LEMMA LinkInvariance == LinkSpec => []LInv
BY LinkInitHolds, LinkNextKeeps, PTL DEF LinkSpec

-----------------------------------------------------------------------------

(* A link acts on the account it was mailed for, or on none: for a reset   *)
(* link because it is bound to a password hash, and a hash is of one       *)
(* account only, even when an id has been handed out twice (resetPassword, *)
(* verifyActionToken).                                                     *)
THEOREM LinksActOnTheirAccount == LinkSpec => []ActsOnWhomItRead
<1>1. LInv => ActsOnWhomItRead
  BY LInvHolds
<1>2. QED  BY <1>1, LinkInvariance, PTL

(* A verified address is one at which a link was opened, save when the     *)
(* address changed between the check and the write of a confirmation       *)
(* (verifyEmail, SetEmail).                                                *)
THEOREM VerifiedMeansConfirmed == LinkSpec => []VerifiedWasConfirmed
<1>1. LInv => VerifiedWasConfirmed
  BY LInvHolds
<1>2. QED  BY <1>1, LinkInvariance, PTL

(* Opened links disturb neither the index by address nor a ban: an address *)
(* leads to one account, and a banned account is gone (SetPassword,        *)
(* SetEmailVerified beside Create, SetEmail, banAccount).                  *)
THEOREM LinksSpareTheStore == LinkSpec => [](MailFindsItsAccount /\ BannedIsGone)
<1>1. LInv => MailFindsItsAccount /\ BannedIsGone
  BY LInvHolds
<1>2. QED  BY <1>1, LinkInvariance, PTL

-----------------------------------------------------------------------------
(* A password comes from a handler that has hashed it.                     *)

OldOrMade ==
  \A id \in Ids : Live(id)' =>
    \/ Live(id) /\ accts'[id].hash = accts[id].hash
    \/ \E w \in Workers : Fresh(w) /\ accts'[id].hash = work[w].hash

NoResetBegins == \A w \in Workers : Doing(w, "reset")' => Doing(w, "reset")

LEMMA OtherJobIsNoReset ==
  ASSUME LInv, NEW w \in Workers, NEW job, work' = [work EXCEPT ![w] = job], job.at # "reset"
  PROVE  NoResetBegins
BY WhatIsTyped DEF JobsOK, NoResetBegins, Doing

LEMMA FinishBeginsNone ==
  ASSUME LInv, NEW w \in Workers, Finish(w)
  PROVE  NoResetBegins
<1>1. work' = [work EXCEPT ![w] = Idle] /\ Idle.at # "reset"
  BY DEF Finish, Idle
<1>2. QED  BY <1>1, OtherJobIsNoReset

LEMMA SameStoreIsOld ==
  ASSUME LInv, UNCHANGED store
  PROVE  OldOrMade
BY SameStore DEF OldOrMade

(* The steps of Accounts that mail nothing.                                *)
LEMMA OthersMakeNoHash ==
  ASSUME LInv, Others, restarts' = restarts
  PROVE  OldOrMade /\ NoResetBegins
<1>1. ASSUME NEW w \in Workers, NEW m \in Mails, RegisterCheck(w, m)
      PROVE  OldOrMade /\ NoResetBegins
  <2>1. PICK job : work' = [work EXCEPT ![w] = job] /\ job = ForNobody("create", Nobody, m, hashes')
    BY <1>1 DEF RegisterCheck, Start
  <2>2. job.at # "reset"
    BY <2>1 DEF ForNobody
  <2>3. UNCHANGED store
    BY <1>1 DEF RegisterCheck
  <2>4. QED  BY <2>1, <2>2, <2>3, OtherJobIsNoReset, SameStoreIsOld
<1>2. ASSUME NEW w \in Workers, NEW id \in Ids, NEW m \in Mails, RenameCheck(w, id, m)
      PROVE  OldOrMade /\ NoResetBegins
  <2>1. PICK job : work' = [work EXCEPT ![w] = job] /\ job = For(id, "rename", m, 0)
    BY <1>2 DEF RenameCheck, Start
  <2>2. job.at # "reset"
    BY <2>1 DEF For
  <2>3. UNCHANGED store
    BY <1>2 DEF RenameCheck
  <2>4. QED  BY <2>1, <2>2, <2>3, OtherJobIsNoReset, SameStoreIsOld
<1>3. ASSUME NEW w \in Workers, BanAdd(w)
      PROVE  OldOrMade /\ NoResetBegins
  <2>1. work[w] \in [at : {"ban"}, id : Ids, born : Nat, mail : Mails \cup {NoMail}, hash : Nat]
    <3>1. work[w] \in Jobs /\ JobOK(work[w]) /\ work[w].at = "ban"
      BY <1>3, WhatIsTyped DEF BanAdd, Doing, JobsOK
    <3>2. QED  BY <3>1 DEF Jobs, Idle, JobOK, Acts
  <2>2. PICK job : /\ work' = [work EXCEPT ![w] = job]
                   /\ job = IF work[w].mail = NoMail THEN Idle
                            ELSE [work[w] EXCEPT !.at = "purge", !.mail = NoMail]
    BY <1>3 DEF BanAdd
  <2>3. job.at # "reset"
    BY <2>1, <2>2 DEF Idle
  <2>4. UNCHANGED store
    BY <1>3 DEF BanAdd
  <2>5. QED  BY <2>2, <2>3, <2>4, OtherJobIsNoReset, SameStoreIsOld
<1>4. ASSUME NEW w \in Workers, Purge(w)
      PROVE  OldOrMade /\ NoResetBegins
  <2>1. PICK id \in Ids : id = work[w].id
    BY <1>4, WhatIsTyped DEF Purge, Doing, JobsOK, JobOK, Acts
  <2>2. Remove(id) /\ Finish(w)
    BY <1>4, <2>1 DEF Purge
  <2>3. QED  BY <2>2, RemoveIsQuiet, FinishBeginsNone DEF OldOrMade
<1>5. ASSUME NEW w \in Workers, NEW id \in Ids, BanRead(w, id)
      PROVE  OldOrMade /\ NoResetBegins
  <2>1. PICK job : /\ work' = [work EXCEPT ![w] = job]
                   /\ \/ job = For(id, "ban", accts[id].mail, 0)
                      \/ job = ForNobody("ban", id, NoMail, 0)
    BY <1>5 DEF BanRead, BlindBan, Start
  <2>2. job.at # "reset"
    BY <2>1 DEF For, ForNobody
  <2>3. UNCHANGED store
    BY <1>5 DEF BanRead
  <2>4. QED  BY <2>1, <2>2, <2>3, OtherJobIsNoReset, SameStoreIsOld
<1>6. ASSUME NEW id \in Ids, Delete(id)
      PROVE  OldOrMade /\ NoResetBegins
  <2>1. Remove(id) /\ work' = work
    BY <1>6 DEF Delete
  <2>2. QED  BY <2>1, RemoveIsQuiet DEF OldOrMade, NoResetBegins, Doing
<1>7. ASSUME NEW id \in Ids, Unban(id)
      PROVE  OldOrMade /\ NoResetBegins
  <2>1. UNCHANGED store /\ work' = work
    BY <1>7 DEF Unban
  <2>2. QED  BY <2>1, SameStoreIsOld DEF NoResetBegins, Doing
<1>8. CASE WriteElsewhere
  BY <1>8 DEF WriteElsewhere, OtherSave, OldOrMade, Live, NoResetBegins, Doing
<1>9. ~Restart
  BY WhatIsTyped, BoundsAreNaturals DEF Restart, Reload, LInv, IInv
<1>10. QED
  BY <1>1, <1>2, <1>3, <1>4, <1>5, <1>6, <1>7, <1>8, <1>9 DEF Others

LEMMA RegisterMakesOne ==
  ASSUME LInv, NEW w \in Workers, RegisterAndMail(w)
  PROVE  OldOrMade /\ NoResetBegins
<1>1. PICK h \in Nat, m \in Mails : h = work[w].hash /\ m = work[w].mail
  BY WhatIsTyped DEF RegisterAndMail, RegisterApply, Doing, JobsOK, JobOK, Jobs, Idle
<1>2. /\ Finish(w) /\ Fresh(w)
      /\ Insert(m, h) \/ NotFound
  BY <1>1 DEF RegisterAndMail, RegisterApply, Fresh, Doing
<1>3. \A id \in Ids : Live(id)' => (Live(id) /\ accts'[id] = accts[id]) \/ accts'[id].hash = h
  <2>1. CASE Insert(m, h)
    BY <2>1, WhatIsTyped DEF Insert, Live, StoreInv, FilesOK, AcctsOK
  <2>2. CASE NotFound
    BY <2>2 DEF NotFound, store, Live
  <2>3. QED  BY <1>2, <2>1, <2>2
<1>4. QED  BY <1>1, <1>2, <1>3, FinishBeginsNone DEF OldOrMade

LEMMA RenameMakesNone ==
  ASSUME LInv, NEW w \in Workers, RenameAndMail(w)
  PROVE  OldOrMade /\ NoResetBegins
<1>1. PICK id \in Ids, m \in Mails : id = work[w].id /\ m = work[w].mail
  BY WhatIsTyped DEF RenameAndMail, RenameApply, Doing, JobsOK, JobOK, Acts
<1>2. Finish(w) /\ ((Live(id) /\ SetEmail(id, m)) \/ NotFound)
  BY <1>1 DEF RenameAndMail, RenameApply, CanTake
<1>3. OldOrMade
  <2>1. CASE Live(id) /\ SetEmail(id, m)
    <3>1. accts[id] \in Account
      BY <2>1, WhatIsTyped DEF Live, StoreInv, FilesOK, AcctsOK
    <3>2. QED
      BY <2>1, <3>1, WhatIsTyped
         DEF SetEmail, Live, Account, StoreInv, FilesOK, AcctsOK, OldOrMade
  <2>2. CASE NotFound
    BY <2>2, SameStoreIsOld DEF NotFound
  <2>3. QED  BY <1>2, <2>1, <2>2
<1>4. QED  BY <1>2, <1>3, FinishBeginsNone

LEMMA ConfirmMakesNone ==
  ASSUME LInv, NEW w \in Workers, ConfirmApply(w)
  PROVE  OldOrMade /\ NoResetBegins
<1>1. PICK id \in Ids : id = work[w].id
  BY WhatIsTyped DEF ConfirmApply, Doing, JobsOK, JobOK, Acts
<1>2. /\ Finish(w)
      /\ (Live(id) /\ Put(id, [accts[id] EXCEPT !.verified = TRUE])) \/ NotFound
  BY <1>1 DEF ConfirmApply
<1>3. OldOrMade
  <2>1. CASE Live(id) /\ Put(id, [accts[id] EXCEPT !.verified = TRUE])
    <3>1. accts[id] \in Account
      BY <2>1, WhatIsTyped DEF Live, StoreInv, FilesOK, AcctsOK
    <3>2. [accts[id] EXCEPT !.verified = TRUE].hash = accts[id].hash
      BY <3>1 DEF Account
    <3>3. QED
      BY <2>1, <3>2, WhatIsTyped DEF Put, Live, StoreInv, FilesOK, AcctsOK, OldOrMade
  <2>2. CASE NotFound
    BY <2>2, SameStoreIsOld DEF NotFound
  <2>3. QED  BY <1>2, <2>1, <2>2
<1>4. QED  BY <1>2, <1>3, FinishBeginsNone

LEMMA ResetMakesOne ==
  ASSUME LInv, NEW w \in Workers, ResetApply(w)
  PROVE  OldOrMade /\ NoResetBegins
<1>1. PICK id \in Ids, h \in Nat : id = work[w].id /\ h = work[w].hash
  BY WhatIsTyped DEF ResetApply, Doing, JobsOK, JobOK, Acts, Jobs, Idle
<1>2. /\ Finish(w) /\ Fresh(w)
      /\ (Live(id) /\ Put(id, [accts[id] EXCEPT !.hash = h])) \/ NotFound
  BY <1>1 DEF ResetApply, Fresh, Doing
<1>3. \A i \in Ids : Live(i)' => Live(i) /\ (accts'[i] = accts[i] \/ accts'[i].hash = h)
  <2>1. CASE Live(id) /\ Put(id, [accts[id] EXCEPT !.hash = h])
    <3>1. accts[id] \in Account
      BY <2>1, WhatIsTyped DEF Live, StoreInv, FilesOK, AcctsOK
    <3>2. [accts[id] EXCEPT !.hash = h].hash = h
      BY <3>1 DEF Account
    <3>3. QED
      BY <2>1, <3>2, WhatIsTyped DEF Put, Live, StoreInv, FilesOK, AcctsOK
  <2>2. CASE NotFound
    BY <2>2 DEF NotFound, store, Live
  <2>3. QED  BY <1>2, <2>1, <2>2
<1>4. QED  BY <1>1, <1>2, <1>3, FinishBeginsNone DEF OldOrMade

LEMMA ConfirmCheckMakesNone ==
  ASSUME LInv, NEW w \in Workers, NEW l \in confirms, ConfirmCheck(w, l)
  PROVE  OldOrMade /\ NoResetBegins
<1>1. PICK job : work' = [work EXCEPT ![w] = job] /\ job = For(l.id, "confirm", NoMail, 0)
  BY DEF ConfirmCheck, Start
<1>2. job.at # "reset"
  BY <1>1 DEF For
<1>3. UNCHANGED store
  BY DEF ConfirmCheck
<1>4. QED  BY <1>1, <1>2, <1>3, OtherJobIsNoReset, SameStoreIsOld

(* A password is old or made by a handler, and a reset begins at a link.   *)
LEMMA WhereHashesComeFrom ==
  ASSUME LInv, [LinkNext]_linkVars, restarts' = restarts
  PROVE  /\ OldOrMade
         /\ \/ NoResetBegins
            \/ \E w \in Workers, l \in resets : ResetCheck(w, l)
<1>1. ASSUME NEW w \in Workers, NEW l \in resets, ResetCheck(w, l)
      PROVE  OldOrMade
  BY <1>1, SameStoreIsOld DEF ResetCheck
<1>2. ASSUME NEW id \in Ids, Resend(id)
      PROVE  OldOrMade /\ NoResetBegins
  BY <1>2, SameStoreIsOld DEF Resend, vars, NoResetBegins, Doing
<1>3. ASSUME NEW m \in Mails, Forgot(m)
      PROVE  OldOrMade /\ NoResetBegins
  BY <1>3, SameStoreIsOld DEF Forgot, vars, NoResetBegins, Doing
<1>4. CASE UNCHANGED linkVars
  BY <1>4, SameStoreIsOld DEF linkVars, vars, NoResetBegins, Doing
<1>5. CASE \E w \in Workers :
             \/ \E l \in confirms : ConfirmCheck(w, l)
             \/ \E l \in resets : ResetCheck(w, l)
  BY <1>1, <1>5, ConfirmCheckMakesNone
<1>6. CASE \E w \in Workers :
             RegisterAndMail(w) \/ RenameAndMail(w) \/ ConfirmApply(w) \/ ResetApply(w)
  BY <1>6, RegisterMakesOne, RenameMakesNone, ConfirmMakesNone, ResetMakesOne
<1>7. CASE Others
  BY <1>7, OthersMakeNoHash
<1>8. QED  BY <1>2, <1>3, <1>4, <1>5, <1>6, <1>7 DEF LinkNext

(* A spent link is dead, and so is one whose reset is written now, for it  *)
(* is another password than the link's that is written.                    *)
OpeningsOK ==
  /\ opened \in [Workers -> SUBSET resets] /\ spent \subseteq resets
  /\ \A w \in Workers, l \in resets : l \in opened[w] => Doing(w, "reset") /\ work[w].id = l.id
  /\ \A l \in spent : ~InForce(l)

LEMMA DeadStaysDead ==
  ASSUME LInv, [LinkNext]_linkVars, restarts' = restarts, NEW l \in resets, InForce(l)'
  PROVE  InForce(l)
<1>1. l.id \in Ids /\ l.hash \in Nat /\ l.born \in Nat
  BY DEF LInv, LinksOK, Reset
<1>2. Live(l.id)' /\ accts'[l.id].hash = l.hash
  BY DEF InForce
<1>3. Owned(l.hash, l.born)
  BY DEF Owned
<1>4. \A w \in Workers : Fresh(w) => work[w].hash # l.hash
  BY <1>1, <1>3 DEF LInv, HashesOK
<1>5. QED  BY <1>1, <1>2, <1>4, WhereHashesComeFrom DEF OldOrMade, InForce

LEMMA OpeningsStay ==
  ASSUME LInv, OpeningsOK, LinkNext, restarts' = restarts, UNCHANGED openings,
         \A v \in Workers : Doing(v, "reset") => work'[v] = work[v]
  PROVE  OpeningsOK'
<1>1. resets \subseteq resets'
  BY DEF LinkNext, links, RegisterAndMail, RenameAndMail, ConfirmApply, ConfirmCheck,
         ResetApply, ResetCheck, Resend, Forgot
<1>2. opened' = opened /\ spent' = spent
  BY DEF openings
<1>3. ASSUME NEW v \in Workers, NEW l \in resets', l \in opened'[v]
      PROVE  Doing(v, "reset")' /\ work'[v].id = l.id
  BY <1>2, <1>3 DEF OpeningsOK, Doing
<1>4. \A l \in spent' : ~InForce(l)'
  BY <1>2, DeadStaysDead DEF OpeningsOK
<1>5. QED  BY <1>1, <1>2, <1>3, <1>4 DEF OpeningsOK

(* A handler that resets goes on with it while others set up and end jobs. *)
ResetsGoOn == \A v \in Workers : Doing(v, "reset") => work'[v] = work[v]

LEMMA AnotherHandler ==
  ASSUME LInv, NEW w \in Workers, NEW job, work' = [work EXCEPT ![w] = job],
         ~Doing(w, "reset")
  PROVE  ResetsGoOn
BY WhatIsTyped DEF JobsOK, ResetsGoOn

LEMMA IdleIsNoReset ==
  ASSUME NEW w \in Workers, NEW job, Start(w, job)
  PROVE  work' = [work EXCEPT ![w] = job] /\ ~Doing(w, "reset")
BY DEF Start, Idle, Doing

LEMMA StartsLetGoOn ==
  ASSUME LInv, NEW w \in Workers,
         \/ \E m \in Mails : RegisterCheck(w, m) \/ \E id \in Ids : RenameCheck(w, id, m)
         \/ \E id \in Ids : BanRead(w, id)
         \/ \E l \in confirms : ConfirmCheck(w, l)
  PROVE  ResetsGoOn
<1>1. PICK job : Start(w, job)
  BY DEF RegisterCheck, RenameCheck, BanRead, BlindBan, ConfirmCheck
<1>2. work' = [work EXCEPT ![w] = job] /\ ~Doing(w, "reset")
  BY <1>1, IdleIsNoReset
<1>3. QED  BY <1>2, AnotherHandler

LEMMA EndsLetGoOn ==
  ASSUME LInv, NEW w \in Workers,
         RegisterApply(w) \/ RenameApply(w) \/ ConfirmApply(w) \/ BanAdd(w) \/ Purge(w)
  PROVE  ResetsGoOn
<1>1. ~Doing(w, "reset")
  BY DEF RegisterApply, RenameApply, ConfirmApply, BanAdd, Purge, Doing
<1>2. \E job : work' = [work EXCEPT ![w] = job]
  BY DEF RegisterApply, RenameApply, ConfirmApply, BanAdd, Purge, Finish
<1>3. QED  BY <1>1, <1>2, AnotherHandler

LEMMA OthersLetGoOn ==
  ASSUME LInv, Others, restarts' = restarts
  PROVE  ResetsGoOn
<1>1. ~Restart
  BY WhatIsTyped, BoundsAreNaturals DEF Restart, Reload, LInv, IInv
<1>2. CASE UNCHANGED work
  BY <1>2 DEF ResetsGoOn
<1>3. QED
  BY <1>1, <1>2, StartsLetGoOn, EndsLetGoOn
     DEF Others, Delete, Unban, WriteElsewhere, OtherSave

(* A link that is in force is not spent; a spent link is revived by none   *)
(* of the steps of a process.                                              *)
LEMMA ResetCheckOpens ==
  ASSUME LInv, OpeningsOK, NEW w \in Workers, NEW l \in resets, ResetCheck(w, l)
  PROVE  OpeningsOK' /\ StartsNone
<1> DEFINE job == [at |-> "reset", id |-> l.id, born |-> l.born, mail |-> NoMail,
                   hash |-> hashes']
<1>1. /\ InForce(l) /\ work' = [work EXCEPT ![w] = job]
      /\ opened' = [opened EXCEPT ![w] = {l}] /\ UNCHANGED <<accts, resets, spent>>
  BY DEF ResetCheck, StillBound, InForce, Start, store, links
<1>2. job.at = "reset" /\ job.id = l.id
  OBVIOUS
<1> HIDE DEF job
<1>3. \A v \in Workers : work'[v] = IF v = w THEN job ELSE work[v]
  BY <1>1, WhatIsTyped DEF JobsOK
<1>4. \A v \in Workers : opened'[v] = IF v = w THEN {l} ELSE opened[v]
  BY <1>1 DEF OpeningsOK
<1>5. l \notin spent
  BY <1>1 DEF OpeningsOK
<1>6. StartsNone
  BY <1>4, <1>5 DEF StartsNone
<1>7. opened' \in [Workers -> SUBSET resets'] /\ spent' \subseteq resets'
  BY <1>1 DEF OpeningsOK
<1>8. \A v \in Workers, k \in resets' :
        k \in opened'[v] => Doing(v, "reset")' /\ work'[v].id = k.id
  BY <1>1, <1>2, <1>3, <1>4 DEF OpeningsOK, Doing
<1>9. \A k \in spent' : ~InForce(k)'
  BY <1>1 DEF OpeningsOK, InForce, Live
<1>10. QED  BY <1>6, <1>7, <1>8, <1>9 DEF OpeningsOK

LEMMA ResetApplySpends ==
  ASSUME LInv, OpeningsOK, NEW w \in Workers, ResetApply(w), [LinkNext]_linkVars
  PROVE  OpeningsOK' /\ StartsNone
<1>1. PICK id \in Ids, h \in Nat : id = work[w].id /\ h = work[w].hash
  BY WhatIsTyped DEF ResetApply, Doing, JobsOK, JobOK, Acts, Jobs, Idle
<1>2. /\ \/ /\ Live(id) /\ Put(id, [accts[id] EXCEPT !.hash = h])
            /\ spent' = spent \cup opened[w]
         \/ NotFound /\ spent' = spent
      /\ Finish(w) /\ Fresh(w) /\ restarts' = restarts /\ resets' = resets
      /\ opened' = [opened EXCEPT ![w] = {}]
  BY <1>1 DEF ResetApply, Fresh, Doing, OthersSame, links
<1>3. \A v \in Workers : work'[v] = IF v = w THEN Idle ELSE work[v]
  BY <1>2, WhatIsTyped DEF Finish, JobsOK
<1>4. \A v \in Workers : opened'[v] = IF v = w THEN {} ELSE opened[v]
  BY <1>2 DEF OpeningsOK
<1>5. ASSUME NEW l \in opened[w], Live(id), Put(id, [accts[id] EXCEPT !.hash = h])
      PROVE  ~InForce(l)'
  <2>1. l \in resets /\ l.id = id /\ l.hash \in Nat /\ l.born \in Nat
    BY <1>1 DEF OpeningsOK, LInv, LinksOK, Reset
  <2>2. Owned(l.hash, l.born)
    BY <2>1 DEF Owned
  <2>3. h # l.hash
    BY <1>1, <1>2, <2>1, <2>2 DEF LInv, HashesOK
  <2>4. accts[id] \in Account
    BY <1>5, WhatIsTyped DEF Live, StoreInv, FilesOK, AcctsOK
  <2>5. [accts[id] EXCEPT !.hash = h].hash = h
    BY <2>4 DEF Account
  <2>6. accts'[id].hash = h
    BY <1>5, <2>5, WhatIsTyped DEF Put, StoreInv, FilesOK, AcctsOK
  <2>7. QED  BY <2>1, <2>3, <2>6 DEF InForce
<1>6. ASSUME NEW l \in spent PROVE ~InForce(l)'
  BY <1>2, DeadStaysDead DEF OpeningsOK
<1>7. opened' \in [Workers -> SUBSET resets'] /\ spent' \subseteq resets'
  BY <1>2 DEF OpeningsOK
<1>8. \A v \in Workers, k \in resets' :
        k \in opened'[v] => Doing(v, "reset")' /\ work'[v].id = k.id
  BY <1>2, <1>3, <1>4 DEF OpeningsOK, Doing
<1>9. \A l \in spent' : ~InForce(l)'
  BY <1>2, <1>5, <1>6
<1>10. StartsNone
  BY <1>4 DEF StartsNone
<1>11. QED  BY <1>7, <1>8, <1>9, <1>10 DEF OpeningsOK

LEMMA LinksAreSpent == LInv /\ OpeningsOK /\ [LinkNext]_linkVars => OpeningsOK' /\ [StartsNone]_linkVars
<1> SUFFICES ASSUME LInv, OpeningsOK, [LinkNext]_linkVars
             PROVE  OpeningsOK' /\ StartsNone
  OBVIOUS
<1>1. CASE UNCHANGED linkVars
  BY <1>1 DEF linkVars, vars, store, links, openings, OpeningsOK, StartsNone, InForce, Live, Doing
<1>2. ASSUME NEW w \in Workers, NEW l \in resets, ResetCheck(w, l)
      PROVE  OpeningsOK' /\ StartsNone
  BY <1>2, ResetCheckOpens
<1>3. ASSUME NEW w \in Workers, ResetApply(w)
      PROVE  OpeningsOK' /\ StartsNone
  BY <1>3, ResetApplySpends
<1>4. ASSUME LinkNext, UNCHANGED <<restarts, openings>>, ResetsGoOn
      PROVE  OpeningsOK' /\ StartsNone
  BY <1>4, OpeningsStay DEF StartsNone, openings, ResetsGoOn
<1>5. CASE Others /\ UNCHANGED links /\ Forget
  <2>1. CASE restarts' = restarts /\ UNCHANGED openings
    BY <1>4, <1>5, <2>1, OthersLetGoOn DEF LinkNext
  <2>2. CASE /\ opened' = [w \in Workers |-> {}]
             /\ spent' = {l \in spent : ~InForce(l)'}
    <3>1. resets' = resets
      BY <1>5 DEF links
    <3>2. spent' \subseteq spent /\ \A l \in spent' : ~InForce(l)'
      BY <2>2
    <3>3. QED  BY <2>2, <3>1, <3>2 DEF OpeningsOK, StartsNone
  <2>3. QED  BY <1>5, <2>1, <2>2 DEF Forget
<1>6. ASSUME NEW w \in Workers,
             (\E l \in confirms : ConfirmCheck(w, l)) \/ RegisterAndMail(w) \/ RenameAndMail(w)
             \/ ConfirmApply(w)
      PROVE  OpeningsOK' /\ StartsNone
  <2>1. ResetsGoOn
    BY <1>6, StartsLetGoOn, EndsLetGoOn DEF RegisterAndMail, RenameAndMail
  <2>2. UNCHANGED <<restarts, openings>>
    BY <1>6 DEF ConfirmCheck, RegisterAndMail, RenameAndMail, ConfirmApply, OthersSame,
                RegisterApply, RenameApply
  <2>3. LinkNext
    BY <1>6 DEF LinkNext
  <2>4. QED  BY <1>4, <2>1, <2>2, <2>3
<1>7. CASE (\E id \in Ids : Resend(id)) \/ (\E m \in Mails : Forgot(m))
  <2>1. UNCHANGED <<work, restarts, openings>>
    BY <1>7 DEF Resend, Forgot, vars
  <2>2. ResetsGoOn /\ LinkNext
    BY <1>7, <2>1 DEF ResetsGoOn, LinkNext
  <2>3. QED  BY <1>4, <2>1, <2>2
<1>8. QED
  BY <1>1, <1>2, <1>3, <1>5, <1>6, <1>7 DEF LinkNext

LEMMA OpeningsInvariance == LinkSpec => []OpeningsOK
<1>1. LinkInit => OpeningsOK
  BY DEF LinkInit, OpeningsOK
<1>2. QED  BY <1>1, LinksAreSpent, LinkInvariance, PTL DEF LinkSpec

(* The store, the jobs and the mailed links keep their types (jsonStore).  *)
THEOREM LinksTypeCorrect == LinkSpec => []LinkTypeOK
<1>1. LInv /\ OpeningsOK => LinkTypeOK
  BY IInvHolds DEF LInv, LinksOK, LinkTypeOK, OpeningsOK
<1>2. QED  BY <1>1, LinkInvariance, OpeningsInvariance, PTL

(* A reset link that has set a password starts no further reset, for any   *)
(* number of requests at once and any failed writes, until a restart reads *)
(* a file that has the password it was mailed for (resetPassword): a hash  *)
(* under way is neither of a link nor of an account, so that nothing that  *)
(* is written next revives a link.                                         *)
THEOREM ResetLinksAreSpent == LinkSpec => SpentLinksStartNothing
BY LinkInvariance, OpeningsInvariance, LinksAreSpent, PTL
   DEF LinkSpec, SpentLinksStartNothing

=============================================================================
