----------------------------- MODULE AccountLinks ------------------------------
(***************************************************************************)
(* The e-mailed links (src/email.go and their handlers in src/main.go),    *)
(* beside everything Accounts has: one link confirms an address, the other *)
(* sets a new password.  A link is not stored anywhere: it is signed over  *)
(* the id of an account and what must not have changed when it is opened,  *)
(* the address or the password hash.                                       *)
(*                                                                         *)
(* A link is opened at any time after it was mailed, or never: a mail that *)
(* is lost and a link that expires are never opened.                       *)
(***************************************************************************)
EXTENDS Accounts

VARIABLES
  confirms,   \* confirmation links mailed
  resets,     \* reset links mailed
  confirmed,  \* history: addresses at which a confirmation link was opened
  raced,      \* history: ids renamed while a confirmation was being applied
  opened,     \* history: the reset link whose reset each handler has under way
  spent       \* history: reset links that have set a password

links == <<confirms, resets, confirmed, raced>>
openings == <<opened, spent>>
linkVars == <<vars, links, openings>>

Confirm == [id : Ids, mail : Mails]
Reset == [id : Ids, hash : Nat, born : Nat]

LinkInit ==
  /\ Init
  /\ confirms = {} /\ resets = {}
  /\ confirmed = {} /\ raced = {}
  /\ opened = [w \in Workers |-> {}] /\ spent = {}

-----------------------------------------------------------------------------

(* sendVerificationEmail.                                                  *)
MailConfirm(id, m) == confirms' = confirms \cup {[id |-> id, mail |-> m]}

(* Registration and the change of address mail a link once the account is  *)
(* written.                                                                *)
MailIfWritten(changed, id, m) ==
  \/ changed /\ failures' = failures /\ MailConfirm(id, m)
  \/ ~(changed /\ failures' = failures) /\ UNCHANGED confirms

RegisterAndMail(w) ==
  /\ RegisterApply(w)
  /\ MailIfWritten(~Taken(work[w].mail), next, work[w].mail)
  /\ UNCHANGED <<resets, confirmed, raced, openings>>

BeingConfirmed == {work[v].id : v \in {v \in Workers : Doing(v, "confirm")}}

RenameAndMail(w) ==
  LET id == work[w].id
      m == work[w].mail
  IN
  /\ RenameApply(w)
  /\ MailIfWritten(CanTake(id, m), id, m)
  /\ raced' = IF CanTake(id, m) THEN raced \cup ({id} \cap BeingConfirmed) ELSE raced
  /\ UNCHANGED <<resets, confirmed, openings>>

(* Mutants: each is a later definition of the same name with one slip.     *)
StillBound_idOnly(l) == Live(l.id)

(* resendVerification.                                                     *)
Resend(id) ==
  /\ Live(id) /\ ~accts[id].verified
  /\ MailConfirm(id, accts[id].mail)
  /\ UNCHANGED <<vars, resets, confirmed, raced, openings>>

OthersSame == UNCHANGED <<restarts, bans, loose, moved, interrupted>>

(* verifyEmail: the link names the address.                                *)
ConfirmCheck(w, l) ==
  /\ Live(l.id) /\ accts[l.id].mail = l.mail /\ ~accts[l.id].verified
  /\ Start(w, For(l.id, "confirm", NoMail, 0))
  /\ confirmed' = confirmed \cup {l.mail}
  /\ OthersSame /\ UNCHANGED <<store, hashes, failures, confirms, resets, raced, openings>>

ConfirmApply(w) ==
  /\ Doing(w, "confirm")
  /\ LET id == work[w].id IN
     \/ Live(id) /\ Put(id, [accts[id] EXCEPT !.verified = TRUE]) /\ Save
     \/ ~Live(id) /\ NotFound
  /\ Finish(w)
  /\ OthersSame /\ UNCHANGED <<hashes, links, openings>>

Forgot(m) ==
  /\ Taken(m)
  /\ LET a == accts[byMail[m]] IN
       resets' = resets \cup {[id |-> byMail[m], hash |-> a.hash, born |-> a.born]}
  /\ UNCHANGED <<vars, confirms, confirmed, raced, openings>>

StillBound(l) == Live(l.id) /\ accts[l.id].hash = l.hash

(* resetPassword: the link names the password it replaces.                 *)
ResetCheck(w, l) ==
  /\ StillBound(l)
  /\ NewHash
  /\ Start(w, [at |-> "reset", id |-> l.id, born |-> l.born, mail |-> NoMail, hash |-> hashes'])
  /\ opened' = [opened EXCEPT ![w] = {l}]
  /\ OthersSame /\ UNCHANGED <<store, failures, links, spent>>

ResetApply(w) ==
  /\ Doing(w, "reset")
  /\ LET id == work[w].id IN
     \/ /\ Live(id) /\ Put(id, [accts[id] EXCEPT !.hash = work[w].hash]) /\ Save
        /\ spent' = spent \cup opened[w]
     \/ ~Live(id) /\ NotFound /\ UNCHANGED spent
  /\ Finish(w)
  /\ opened' = [opened EXCEPT ![w] = {}]
  /\ OthersSame /\ UNCHANGED <<hashes, links>>

InForce(l) == Live(l.id) /\ accts[l.id].hash = l.hash

(* A restart reads a file: a link to the password it has is good again.    *)
Forget ==
  \/ restarts' = restarts /\ UNCHANGED openings
  \/ /\ restarts' # restarts
     /\ opened' = [w \in Workers |-> {}]
     /\ spent' = {l \in spent : ~InForce(l)'}

LinkNext ==
  \/ \E w \in Workers : \/ \E l \in confirms : ConfirmCheck(w, l)
                        \/ \E l \in resets : ResetCheck(w, l)
  \/ \E w \in Workers :
       RegisterAndMail(w) \/ RenameAndMail(w) \/ ConfirmApply(w) \/ ResetApply(w)
  \/ \E id \in Ids : Resend(id)
  \/ \E m \in Mails : Forgot(m)
  \/ Others /\ UNCHANGED links /\ Forget

LinkSpec == LinkInit /\ [][LinkNext]_linkVars

-----------------------------------------------------------------------------
(* Properties.                                                             *)

(* The store and the mailed links keep their types.                        *)
LinkTypeOK ==
  /\ TypeOK
  /\ confirms \subseteq Confirm /\ resets \subseteq Reset
  /\ confirmed \subseteq Mails /\ raced \subseteq Ids
  /\ opened \in [Workers -> SUBSET Reset] /\ spent \subseteq Reset

(* A verified address is one at which a link was opened, save when the     *)
(* address of the account was changed between the check and the write of a *)
(* confirmation (verifyEmail, SetEmail).                                   *)
VerifiedWasConfirmed ==
  \A id \in Ids : Live(id) /\ accts[id].verified =>
    accts[id].mail \in confirmed \/ id \in raced

(* A reset link that has set a password starts no further reset            *)
(* (resetPassword, which binds it to the hash it replaces), whatever is    *)
(* being hashed and whoever writes last, until a restart reads a file that *)
(* has the password it was mailed for.  It may still set several: of the   *)
(* requests that have checked it by the time the first of them writes,     *)
(* each sets one.                                                          *)
StartsNone == \A w \in Workers : (opened'[w] \ opened[w]) \cap spent = {}
SpentLinksStartNothing == [][StartsNone]_linkVars

=============================================================================
