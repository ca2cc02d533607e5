------------------------------ MODULE OAuthProofs ------------------------------
(***************************************************************************)
(* Proofs about OAuth, for any applications, codes, requests and bounds:   *)
(* a code is redeemed at most once and for what it was issued, what a      *)
(* token reads was agreed to, and only a bad write loses an application.   *)
(***************************************************************************)
EXTENDS OAuth, TLAPS

(* A code in the table is the consent it was issued for.                   *)
TableIsConsents == \A c \in Codes : codes[c] # None => codes[c] = consents[c]

(* A request that took a code carries its consent and is alone with it.    *)
Took(w, c) == At(w, "exchange") /\ work[w].code = c

TakersAreAlone ==
  \A c \in Codes, w \in Workers : Took(w, c) =>
    /\ codes[c] = None /\ consents[c] # None
    /\ work[w].data = consents[c]
    /\ \A v \in Workers : Took(v, c) => v = w

(* A token stands for one consent.                                         *)
Honest(t) ==
  LET d == consents[t.code] IN
  /\ d # None
  /\ d.pid = t.pid /\ d.client = t.client /\ d.redirect = t.redirect /\ d.scopes = t.scopes
  /\ d.challenge \in {NoPkce, t.verifier}
  /\ t.client = Emulator => d.challenge # NoPkce

TokensAreHonest == \A t \in tokens : Honest(t)

(* Unless the last write went wrong or is under way, the file is the       *)
(* registry.                                                               *)
FileIsRegistry == ~damaged /\ ~Locked => disk = reg

IInv == TypeOK /\ TableIsConsents /\ TakersAreAlone /\ TokensAreHonest /\ FileIsRegistry

-----------------------------------------------------------------------------
(* Jobs.                                                                   *)

(* What a request carries, by the place it is at.                          *)
LEMMA JobsCarry ==
  ASSUME NEW job \in Jobs
  PROVE  /\ job.at = "issue" => job.ask \in Consent
         /\ job.at \in {"consume", "exchange"} => job.code \in Codes /\ job.req \in Request
         /\ job.at = "exchange" => job.data \in Consent
         /\ job.at = "write" => job.app \in Apps
BY DEF Jobs, Idle

(* The jobs the steps begin are jobs.                                      *)
LEMMA JobsBegun ==
  /\ Idle \in Jobs
  /\ \A ask \in Consent : [at |-> "issue", ask |-> ask] \in Jobs
  /\ \A c \in Codes, req \in Request : [at |-> "consume", code |-> c, req |-> req] \in Jobs
  /\ \A c \in Codes, req \in Request, d \in Consent :
       [at |-> "exchange", code |-> c, req |-> req, data |-> d] \in Jobs
  /\ \A a \in Apps : [at |-> "write", app |-> a] \in Jobs
BY DEF Jobs

(* A request that names no scope is for the identity.                      *)
LEMMA AsksAreConsents ==
  ASSUME NEW ask \in Consent PROVE Asks(ask) \in Consent
BY ScopesAreKnown DEF Asks, Consent

(* What a registration becomes has a redirect and a scope.                 *)
LEMMA RegisteredIsTyped ==
  ASSUME NEW offer \in Registration, offer.redirects # {}
  PROVE  /\ Registered(offer) \in Registration
         /\ Registered(offer).redirects # {} /\ Registered(offer).scopes # {}
BY ScopesAreKnown DEF Registered, Registration

(* The token of an exchange that is granted.                               *)
LEMMA TokensAreTyped ==
  ASSUME NEW c \in Codes, NEW req \in Request, NEW d \in Consent
  PROVE  [code |-> c, client |-> req.client, pid |-> d.pid, scopes |-> d.scopes,
          redirect |-> req.redirect, verifier |-> req.verifier] \in Token
BY DEF Request, Consent, Token

-----------------------------------------------------------------------------
(* Types.                                                                  *)

LEMMA InitTypes == Init => TypeOK
<1> SUFFICES ASSUME Init PROVE TypeOK
  OBVIOUS
<1>1. work \in [Workers -> Jobs]
  BY JobsBegun DEF Init
<1>2. reg \in Registry /\ disk \in Registry
  BY DEF Init, NoApps, Registry
<1>3. /\ codes \in [Codes -> Consent \cup {None}]
      /\ consents \in [Codes -> Consent \cup {None}]
  BY DEF Init
<1>4. Usable(reg) /\ Usable(disk)
  BY DEF Init, NoApps, Usable
<1>5. failures \in 0..MaxSaveFailures /\ restarts \in 0..MaxRestarts
  BY BoundsAreNaturals DEF Init
<1>6. QED
  BY <1>1, <1>2, <1>3, <1>4, <1>5 DEF Init, TypeOK

LEMMA TypesStep == TypeOK /\ [Next]_vars => TypeOK'
<1> SUFFICES ASSUME TypeOK, [Next]_vars PROVE TypeOK'
  OBVIOUS
<1> USE DEF RegistrySame, CodesSame, TokensSame, At, Goto
<1>1. ASSUME NEW w \in Workers, NEW offer \in Offers, Register(w, offer)
      PROVE  TypeOK'
  <2>1. offer \in Registration
    BY InputsAreTyped
  <2>2. PICK a \in Apps :
          /\ reg[a] = None /\ a \notin told
          /\ reg' = [reg EXCEPT ![a] = Registered(offer)]
          /\ \/ /\ disk' = Torn
                /\ Goto(w, [at |-> "write", app |-> a])
                /\ UNCHANGED <<told, damaged, failures>>
             \/ /\ failures < MaxSaveFailures /\ failures' = failures + 1
                /\ told' = told \cup {a} /\ damaged' = TRUE
                /\ UNCHANGED <<disk, work>>
    BY <1>1 DEF Register
  <2>3. reg' \in Registry
    BY <2>1, <2>2, <1>1, RegisteredIsTyped DEF TypeOK, Registry, Register
  <2>4. Usable(reg')
    BY <2>1, <2>2, <1>1, RegisteredIsTyped DEF TypeOK, Registry, Register, Usable
  <2>5. work' \in [Workers -> Jobs]
    BY <2>2, JobsBegun DEF TypeOK
  <2>6. failures' \in 0..MaxSaveFailures
    BY <2>2, BoundsAreNaturals DEF TypeOK
  <2>7. disk' \in {disk, Torn} /\ told' \subseteq Apps /\ damaged' \in BOOLEAN
    BY <2>2 DEF TypeOK
  <2>8. QED
    BY <1>1, <2>3, <2>4, <2>5, <2>6, <2>7 DEF TypeOK, Register, Usable
<1>2. ASSUME NEW w \in Workers, RegisterWrite(w) PROVE TypeOK'
  <2>1. work[w].app \in Apps
    BY <1>2, JobsCarry DEF TypeOK, RegisterWrite
  <2>2. work' \in [Workers -> Jobs]
    BY <1>2, JobsBegun DEF TypeOK, RegisterWrite
  <2>3. \/ failures' = failures
        \/ failures < MaxSaveFailures /\ failures' = failures + 1
    BY <1>2 DEF RegisterWrite
  <2>4. failures' \in 0..MaxSaveFailures
    BY <2>3, BoundsAreNaturals DEF TypeOK
  <2>5. damaged' \in BOOLEAN
    BY <1>2 DEF RegisterWrite
  <2>6. disk' \in Registry \cup {Torn}
    BY <1>2 DEF TypeOK, RegisterWrite
  <2>7. QED
    BY <1>2, <2>1, <2>2, <2>4, <2>5, <2>6 DEF TypeOK, RegisterWrite, Usable
<1>3. ASSUME NEW w \in Workers, NEW ask \in Asked, AuthorizeApprove(w, ask) PROVE TypeOK'
  <2>1. [at |-> "issue", ask |-> Asks(ask)] \in Jobs
    BY InputsAreTyped, AsksAreConsents, JobsBegun
  <2>2. QED
    BY <1>3, <2>1 DEF TypeOK, AuthorizeApprove, Usable
<1>4. ASSUME NEW w \in Workers, NEW c \in Codes, NEW req \in Presented, TokenRequest(w, c, req)
      PROVE  TypeOK'
  <2>1. [at |-> "consume", code |-> c, req |-> req] \in Jobs
    BY InputsAreTyped, JobsBegun
  <2>2. QED
    BY <1>4, <2>1 DEF TypeOK, TokenRequest, Usable
<1>5. ASSUME NEW w \in Workers, Issue(w) PROVE TypeOK'
  <2>1. work[w].ask \in Consent
    BY <1>5, JobsCarry DEF TypeOK, Issue
  <2>2. work' \in [Workers -> Jobs]
    BY <1>5, JobsBegun DEF TypeOK, Issue
  <2>3. /\ codes' \in [Codes -> Consent \cup {None}]
        /\ consents' \in [Codes -> Consent \cup {None}]
    BY <1>5, <2>1 DEF TypeOK, Issue, Purged
  <2>4. QED
    BY <1>5, <2>2, <2>3 DEF TypeOK, Issue, Usable
<1>6. ASSUME NEW w \in Workers, Consume(w) PROVE TypeOK'
  <2>1. work[w].code \in Codes /\ work[w].req \in Request
    BY <1>6, JobsCarry DEF TypeOK, Consume
  <2>2. work' \in [Workers -> Jobs]
    BY <1>6, <2>1, JobsBegun DEF TypeOK, Consume
  <2>3. codes' \in [Codes -> Consent \cup {None}] /\ \A c \in expired' : c \in Codes /\ codes'[c] # None
    BY <1>6, <2>1 DEF TypeOK, Consume
  <2>4. QED
    BY <1>6, <2>2, <2>3 DEF TypeOK, Consume, Usable
<1>7. ASSUME NEW w \in Workers, Exchange(w) PROVE TypeOK'
  <2>1. /\ work[w].code \in Codes /\ work[w].req \in Request /\ work[w].data \in Consent
    BY <1>7, JobsCarry DEF TypeOK, Exchange
  <2>2. work' \in [Workers -> Jobs]
    BY <1>7, JobsBegun DEF TypeOK, Exchange
  <2>3. tokens \subseteq tokens' /\ tokens' \subseteq Token
    BY <1>7, <2>1, TokensAreTyped DEF TypeOK, Exchange
  <2>4. QED
    BY <1>7, <2>2, <2>3 DEF TypeOK, Exchange, Usable
<1>8. ASSUME NEW c \in Codes, CodeExpires(c) PROVE TypeOK'
  BY <1>8 DEF TypeOK, CodeExpires, Usable
<1>9. ASSUME NEW t \in tokens, TokenExpires(t) PROVE TypeOK'
  BY <1>9 DEF TypeOK, TokenExpires, Usable
<1>10. ASSUME NEW p \in Pids, DeleteByPID(p) PROVE TypeOK'
  BY <1>10 DEF TypeOK, DeleteByPID, Usable
<1>11. CASE Restart
  <2>1. reg' \in Registry /\ Usable(reg')
    <3>1. CASE disk = Torn
      BY <1>11, <3>1 DEF Restart, NoApps, Registry, Usable
    <3>2. CASE disk # Torn
      BY <1>11, <3>2 DEF TypeOK, Restart
    <3>3. QED  BY <3>1, <3>2
  <2>2. work' \in [Workers -> Jobs]
    BY <1>11, JobsBegun DEF Restart
  <2>3. restarts' \in 0..MaxRestarts
    BY <1>11, BoundsAreNaturals DEF TypeOK, Restart
  <2>4. codes' \in [Codes -> Consent \cup {None}] /\ expired' = {} /\ damaged' \in BOOLEAN
    BY <1>11 DEF TypeOK, Restart, Locked
  <2>5. QED
    BY <1>11, <2>1, <2>2, <2>3, <2>4 DEF TypeOK, Restart
<1>12. CASE UNCHANGED vars
  BY <1>12 DEF TypeOK, Usable, vars
<1>13. QED
  BY <1>1, <1>2, <1>3, <1>4, <1>5, <1>6, <1>7, <1>8, <1>9, <1>10, <1>11, <1>12 DEF Next

(* The registry, codes, requests and tokens keep their types.              *)
THEOREM TypeCorrect == Spec => []TypeOK
BY InitTypes, TypesStep, PTL DEF Spec

-----------------------------------------------------------------------------
(* Codes, their takers and the tokens.                                     *)

(* The consents, tables, tokens and requests with a code stay as they are. *)
CodesUntouched ==
  /\ UNCHANGED <<codes, consents, tokens>>
  /\ \A w \in Workers, c \in Codes :
       Took(w, c)' => Took(w, c) /\ work'[w].data = work[w].data

CodesInv == TableIsConsents /\ TakersAreAlone /\ TokensAreHonest

LEMMA UntouchedKeeps == TypeOK /\ CodesInv /\ CodesUntouched => CodesInv'
<1> SUFFICES ASSUME TypeOK, CodesInv, CodesUntouched PROVE CodesInv'
  OBVIOUS
<1>1. TableIsConsents'
  BY DEF CodesInv, CodesUntouched, TableIsConsents
<1>2. TakersAreAlone'
  BY DEF CodesInv, CodesUntouched, TakersAreAlone
<1>3. TokensAreHonest'
  BY DEF CodesInv, CodesUntouched, TokensAreHonest, Honest
<1>4. QED  BY <1>1, <1>2, <1>3 DEF CodesInv

(* Every other step leaves them alone.                                     *)
LEMMA OthersUntouched ==
  ASSUME TypeOK, [Next]_vars
  PROVE  \/ CodesUntouched
         \/ Restart
         \/ \E w \in Workers : Issue(w) \/ Consume(w) \/ Exchange(w)
<1> USE DEF RegistrySame, CodesSame, TokensSame, At, Goto, Took, CodesUntouched
<1>1. ASSUME NEW w \in Workers, NEW offer \in Offers, Register(w, offer) PROVE CodesUntouched
  BY <1>1 DEF Register, TypeOK
<1>2. ASSUME NEW w \in Workers, RegisterWrite(w) PROVE CodesUntouched
  BY <1>2 DEF RegisterWrite, TypeOK, Idle
<1>3. ASSUME NEW w \in Workers, NEW ask \in Asked, AuthorizeApprove(w, ask) PROVE CodesUntouched
  BY <1>3 DEF AuthorizeApprove, TypeOK
<1>4. ASSUME NEW w \in Workers, NEW c \in Codes, NEW req \in Presented, TokenRequest(w, c, req)
      PROVE  CodesUntouched
  BY <1>4 DEF TokenRequest, TypeOK
<1>5. ASSUME NEW c \in Codes, CodeExpires(c) PROVE CodesUntouched
  BY <1>5 DEF CodeExpires
<1>6. ASSUME NEW t \in tokens, TokenExpires(t) PROVE CodesUntouched
  BY <1>6 DEF TokenExpires
<1>7. ASSUME NEW p \in Pids, DeleteByPID(p) PROVE CodesUntouched
  BY <1>7 DEF DeleteByPID
<1>8. CASE UNCHANGED vars
  BY <1>8 DEF vars
<1>9. QED
  BY <1>1, <1>2, <1>3, <1>4, <1>5, <1>6, <1>7, <1>8 DEF Next

(* A code is issued for a consent, under an id that stood for none.        *)
LEMMA IssueKeeps ==
  ASSUME TypeOK, CodesInv, NEW w \in Workers, Issue(w)
  PROVE  CodesInv'
<1> USE DEF TokensSame, At, Goto, Took
<1>1. PICK c \in Codes :
        /\ consents[c] = None
        /\ consents' = [consents EXCEPT ![c] = work[w].ask]
        /\ codes' = [Purged EXCEPT ![c] = work[w].ask]
  BY DEF Issue
<1>2. work' = [work EXCEPT ![w] = Idle] /\ tokens' = tokens
  BY DEF Issue
<1>3. \A x \in Codes \ {c} : consents'[x] = consents[x] /\ codes'[x] \in {None, codes[x]}
  BY <1>1 DEF TypeOK, Purged
<1>4. consents'[c] = work[w].ask /\ codes'[c] = work[w].ask
  BY <1>1 DEF TypeOK, Purged
<1>5. TableIsConsents'
  BY <1>3, <1>4 DEF CodesInv, TableIsConsents
<1>6. \A v \in Workers, x \in Codes : Took(v, x)' => Took(v, x) /\ work'[v] = work[v]
  BY <1>2 DEF TypeOK, Idle
<1>7. \A v \in Workers : ~Took(v, c)
  BY <1>1 DEF CodesInv, TakersAreAlone
<1>8. TakersAreAlone'
  BY <1>3, <1>6, <1>7 DEF CodesInv, TakersAreAlone
<1>9. \A t \in tokens : t.code \in Codes \ {c}
  BY <1>1 DEF TypeOK, Token, CodesInv, TokensAreHonest, Honest
<1>10. TokensAreHonest'
  BY <1>2, <1>3, <1>9 DEF CodesInv, TokensAreHonest, Honest
<1>11. QED  BY <1>5, <1>8, <1>10 DEF CodesInv

(* Whoever takes a code takes it from the table and is alone with it.      *)
LEMMA ConsumeKeeps ==
  ASSUME TypeOK, CodesInv, NEW w \in Workers, Consume(w)
  PROVE  CodesInv'
<1> USE DEF TokensSame, At, Goto, Took
<1> DEFINE c == work[w].code
<1>1. c \in Codes /\ work[w].at = "consume"
  BY JobsCarry DEF TypeOK, Consume
<1>2. /\ codes' = [codes EXCEPT ![c] = None]
      /\ UNCHANGED <<consents, tokens>>
  BY DEF Consume
<1>3. \/ /\ codes[c] # None
         /\ work' = [work EXCEPT ![w] =
              [at |-> "exchange", code |-> c, req |-> work[w].req, data |-> codes[c]]]
      \/ work' = [work EXCEPT ![w] = Idle]
  BY DEF Consume
<1> HIDE DEF c
<1>4. codes'[c] = None /\ \A x \in Codes \ {c} : codes'[x] = codes[x]
  BY <1>1, <1>2 DEF TypeOK
<1>5. TableIsConsents'
  BY <1>2, <1>4 DEF CodesInv, TableIsConsents
<1>6. \A v \in Workers \ {w} : work'[v] = work[v]
  BY <1>3 DEF TypeOK
<1>7. \A x \in Codes : Took(w, x)' => x = c /\ codes[c] # None /\ work'[w].data = codes[c]
  BY <1>3 DEF TypeOK, Idle
<1>8. codes[c] # None => consents[c] = codes[c] /\ \A v \in Workers : ~Took(v, c)
  BY <1>1 DEF CodesInv, TableIsConsents, TakersAreAlone
<1>9. TakersAreAlone'
  BY <1>2, <1>4, <1>6, <1>7, <1>8 DEF CodesInv, TakersAreAlone
<1>10. TokensAreHonest'
  BY <1>2 DEF CodesInv, TokensAreHonest, Honest
<1>11. QED  BY <1>5, <1>9, <1>10 DEF CodesInv

(* The token of an exchange.                                               *)
Exchanged(job) ==
  [code |-> job.code, client |-> job.req.client, pid |-> job.data.pid,
   scopes |-> job.data.scopes, redirect |-> job.req.redirect, verifier |-> job.req.verifier]

(* What an exchange does: a token of the consent it took, or none.         *)
LEMMA ExchangeStep ==
  ASSUME TypeOK, CodesInv, NEW w \in Workers, Exchange(w)
  PROVE  /\ work[w].code \in Codes /\ Took(w, work[w].code)
         /\ work' = [work EXCEPT ![w] = Idle]
         /\ UNCHANGED <<codes, consents>>
         /\ \/ tokens' = tokens
            \/ /\ tokens' = tokens \cup {Exchanged(work[w])}
               /\ Honest(Exchanged(work[w]))
<1> USE DEF At, Goto, Took
<1>1. work[w].code \in Codes /\ Took(w, work[w].code)
  BY JobsCarry DEF TypeOK, Exchange
<1>2. work' = [work EXCEPT ![w] = Idle] /\ UNCHANGED <<codes, consents>>
  BY DEF Exchange, CodesSame
<1>3. \/ tokens' = tokens
      \/ tokens' = tokens \cup {Exchanged(work[w])} /\ Matches(work[w].req, work[w].data)
  BY DEF Exchange, Exchanged
<1>4. work[w].data = consents[work[w].code] /\ consents[work[w].code] # None
  BY <1>1 DEF CodesInv, TakersAreAlone
<1>5. Matches(work[w].req, work[w].data) => Honest(Exchanged(work[w]))
  BY <1>4 DEF Matches, Honest, Exchanged
<1>6. QED  BY <1>1, <1>2, <1>3, <1>5

LEMMA ExchangeKeeps ==
  ASSUME TypeOK, CodesInv, NEW w \in Workers, Exchange(w)
  PROVE  CodesInv'
<1>1. work' = [work EXCEPT ![w] = Idle] /\ UNCHANGED <<codes, consents>>
  BY ExchangeStep
<1>2. \A v \in Workers, x \in Codes : Took(v, x)' => Took(v, x) /\ work'[v] = work[v]
  BY <1>1 DEF TypeOK, Idle, Took, At
<1>3. TableIsConsents'
  BY <1>1 DEF CodesInv, TableIsConsents
<1>4. TakersAreAlone'
  BY <1>1, <1>2 DEF CodesInv, TakersAreAlone
<1>5. \A t : Honest(t) => Honest(t)'
  BY <1>1 DEF Honest
<1>6. \A t \in tokens' : Honest(t)
  BY ExchangeStep DEF CodesInv, TokensAreHonest
<1>7. TokensAreHonest'
  BY <1>1, <1>6 DEF TokensAreHonest, Honest
<1>8. QED  BY <1>3, <1>4, <1>7 DEF CodesInv

LEMMA CodesStep == TypeOK /\ CodesInv /\ [Next]_vars => CodesInv'
<1> SUFFICES ASSUME TypeOK, CodesInv, [Next]_vars PROVE CodesInv'
  OBVIOUS
<1>1. CASE CodesUntouched
  BY <1>1, UntouchedKeeps
<1>2. CASE Restart
  <2>1. codes' = [c \in Codes |-> None] /\ UNCHANGED <<consents, tokens>>
    BY <1>2 DEF Restart, TokensSame
  <2>2. \A w \in Workers, c \in Codes : ~Took(w, c)'
    BY <1>2 DEF Restart, Took, At, Idle
  <2>3. TableIsConsents' /\ TakersAreAlone'
    BY <2>1, <2>2 DEF TableIsConsents, TakersAreAlone
  <2>4. TokensAreHonest'
    BY <2>1 DEF CodesInv, TokensAreHonest, Honest
  <2>5. QED  BY <2>3, <2>4 DEF CodesInv
<1>3. ASSUME NEW w \in Workers, Issue(w) \/ Consume(w) \/ Exchange(w) PROVE CodesInv'
  BY <1>3, IssueKeeps, ConsumeKeeps, ExchangeKeeps
<1>4. QED
  BY <1>1, <1>2, <1>3, OthersUntouched

-----------------------------------------------------------------------------
(* The registry's file.                                                    *)

LEMMA FileStep == TypeOK /\ FileIsRegistry /\ [Next]_vars => FileIsRegistry'
<1> SUFFICES ASSUME TypeOK, FileIsRegistry, [Next]_vars PROVE FileIsRegistry'
  OBVIOUS
<1> USE DEF FileIsRegistry, Locked, At, Goto
<1>1. ASSUME NEW w \in Workers, NEW offer \in Offers, Register(w, offer) PROVE FileIsRegistry'
  <2>1. damaged' \/ \E a \in Apps : work' = [work EXCEPT ![w] = [at |-> "write", app |-> a]]
    BY <1>1 DEF Register
  <2>2. damaged' \/ work'[w].at = "write"
    BY <2>1 DEF TypeOK
  <2>3. QED  BY <2>2
<1>2. ASSUME NEW w \in Workers, RegisterWrite(w) PROVE FileIsRegistry'
  BY <1>2 DEF RegisterWrite
<1>3. CASE Restart
  <2>1. damaged' \/ (~damaged /\ ~Locked)
    BY <1>3 DEF Restart, TypeOK
  <2>2. CASE ~damaged /\ ~Locked
    <3>1. disk = reg /\ disk # Torn
      BY <2>2, NoneIsNothing DEF TypeOK, Registry
    <3>2. QED  BY <1>3, <3>1 DEF Restart
  <2>3. QED  BY <2>1, <2>2
<1>4. ASSUME UNCHANGED <<reg, disk, damaged>>,
             \A w \in Workers : work[w].at = "write" => work'[w].at = "write"
      PROVE  FileIsRegistry'
  BY <1>4
<1>5. ASSUME NEW w \in Workers, NEW ask \in Asked, AuthorizeApprove(w, ask) PROVE FileIsRegistry'
  BY <1>4, <1>5 DEF AuthorizeApprove, RegistrySame, TypeOK, Idle
<1>6. ASSUME NEW w \in Workers, NEW c \in Codes, NEW req \in Presented, TokenRequest(w, c, req)
      PROVE  FileIsRegistry'
  BY <1>4, <1>6 DEF TokenRequest, RegistrySame, TypeOK, Idle
<1>7. ASSUME NEW w \in Workers, Issue(w) PROVE FileIsRegistry'
  BY <1>4, <1>7 DEF Issue, RegistrySame, TypeOK
<1>8. ASSUME NEW w \in Workers, Consume(w) PROVE FileIsRegistry'
  BY <1>4, <1>8 DEF Consume, RegistrySame, TypeOK
<1>9. ASSUME NEW w \in Workers, Exchange(w) PROVE FileIsRegistry'
  BY <1>4, <1>9 DEF Exchange, RegistrySame, TypeOK
<1>10. ASSUME NEW c \in Codes, CodeExpires(c) PROVE FileIsRegistry'
  BY <1>4, <1>10 DEF CodeExpires, RegistrySame
<1>11. ASSUME NEW t \in tokens, TokenExpires(t) PROVE FileIsRegistry'
  BY <1>4, <1>11 DEF TokenExpires, RegistrySame
<1>12. ASSUME NEW p \in Pids, DeleteByPID(p) PROVE FileIsRegistry'
  BY <1>4, <1>12 DEF DeleteByPID, RegistrySame
<1>13. CASE UNCHANGED vars
  BY <1>4, <1>13 DEF vars
<1>14. QED
  BY <1>1, <1>2, <1>3, <1>5, <1>6, <1>7, <1>8, <1>9, <1>10, <1>11, <1>12, <1>13 DEF Next

(* The inductive invariant.                                                *)
LEMMA Invariance == Spec => []IInv
<1>1. Init => IInv
  <2> SUFFICES ASSUME Init PROVE IInv
    OBVIOUS
  <2>1. TableIsConsents /\ TokensAreHonest /\ FileIsRegistry
    BY DEF Init, TableIsConsents, TokensAreHonest, FileIsRegistry
  <2>2. TakersAreAlone
    BY DEF Init, TakersAreAlone, Took, At, Idle
  <2>3. QED  BY <2>1, <2>2, InitTypes DEF IInv
<1>2. IInv /\ [Next]_vars => IInv'
  BY TypesStep, CodesStep, FileStep DEF IInv, CodesInv
<1>3. QED
  BY <1>1, <1>2, PTL DEF Spec

-----------------------------------------------------------------------------
(* Theorems.                                                               *)

(* What a token reads of an account was agreed to: a token stands for the  *)
(* consent its code was issued for.                                        *)
THEOREM ReadsAreAgreed == Spec => []ReadsWereAgreed
<1>1. IInv => ReadsWereAgreed
  <2> SUFFICES ASSUME IInv PROVE ReadsWereAgreed
    OBVIOUS
  <2>1. \A t \in tokens : Honest(t) /\ Userinfo(t) \subseteq t.scopes
    BY DEF IInv, TokensAreHonest, Userinfo
  <2>2. QED  BY <2>1 DEF Honest, ReadsWereAgreed
<1>2. QED
  BY <1>1, Invariance, PTL

(* An application told of its registration is forgotten only by a restart  *)
(* after a bad write: otherwise the file is the registry.                  *)
THEOREM AppsAreRemembered == Spec => ApplicationsSurvive
<1>1. IInv /\ [Next]_vars => [AppsRemembered]_vars
  <2> SUFFICES ASSUME IInv, [Next]_vars PROVE AppsRemembered \/ UNCHANGED vars
    OBVIOUS
  <2>1. CASE Restart
    <3>1. CASE damaged \/ Locked
      BY <2>1, <3>1 DEF Restart, AppsRemembered
    <3>2. CASE ~damaged /\ ~Locked
      <4>1. disk = reg /\ disk # Torn
        BY <3>2, NoneIsNothing DEF IInv, FileIsRegistry, TypeOK, Registry
      <4>2. QED  BY <2>1, <4>1 DEF Restart, AppsRemembered
    <3>3. QED  BY <3>1, <3>2
  <2>2. ASSUME NEW w \in Workers, NEW offer \in Offers, Register(w, offer) PROVE AppsRemembered
    <3>1. PICK a \in Apps : reg[a] = None /\ reg' = [reg EXCEPT ![a] = Registered(offer)]
      BY <2>2 DEF Register
    <3>2. QED  BY <3>1 DEF IInv, TypeOK, Registry, AppsRemembered
  <2>3. CASE UNCHANGED reg
    BY <2>3 DEF AppsRemembered
  <2>4. UNCHANGED reg \/ Restart \/ \E w \in Workers, offer \in Offers : Register(w, offer)
    BY DEF Next, vars, RegisterWrite, AuthorizeApprove, TokenRequest, Issue, Consume, Exchange,
           CodeExpires, TokenExpires, DeleteByPID, RegistrySame
  <2>5. QED  BY <2>1, <2>2, <2>3, <2>4
<1>2. QED
  BY <1>1, Invariance, PTL DEF Spec, ApplicationsSurvive

(* What was handed out, after a step that adds a token or none.            *)
LEMMA HandedOutStep ==
  /\ tokens' = tokens => HandedOut' = HandedOut
  /\ \A t : tokens' = tokens \cup {t} =>
       HandedOut' = HandedOut \cup
         {[code |-> t.code, client |-> t.client, pid |-> t.pid, scopes |-> t.scopes]}
BY DEF HandedOut

(* The provider implements one-time consents: a step that issues a code is *)
(* an agreement, one that hands out a token redeems it, and all others let *)
(* codes lapse.                                                            *)
THEOREM CodesAreOneTime == Spec => ConsentIsOneTime
<1>1. Init => OneTime!AInit
  BY DEF Init, OneTime!AInit, Pending, HandedOut, At, Idle
<1>2. IInv /\ [Next]_vars => [OneTime!ANext]_(OneTime!avars)
  <2> SUFFICES ASSUME IInv, [Next]_vars PROVE OneTime!ANext
    OBVIOUS
  <2>0. TypeOK /\ CodesInv
    BY DEF IInv, CodesInv
  <2>1. ASSUME NEW w \in Workers, Issue(w) PROVE OneTime!ANext
    <3>1. PICK c \in Codes :
            /\ consents[c] = None
            /\ consents' = [consents EXCEPT ![c] = work[w].ask]
            /\ codes' = [Purged EXCEPT ![c] = work[w].ask]
      BY <2>1 DEF Issue
    <3>2. work[w].ask \in Consent /\ work[w].ask # None
      BY <2>0, <2>1, JobsCarry, NoneIsNothing DEF Issue, TypeOK, At
    <3>3. \A v \in Workers, x \in Codes : Took(v, x)' => Took(v, x)
      BY <2>0, <2>1 DEF Issue, Goto, TypeOK, Took, At, Idle
    <3>4. c \in Pending' /\ Pending' \subseteq Pending \cup {c}
      <4>1. codes' = [Purged EXCEPT ![c] = work[w].ask]
        BY <3>1
      <4>2. codes'[c] # None /\ \A x \in Codes \ {c} : codes'[x] # None => codes[x] # None
        BY <3>2, <4>1 DEF Purged
      <4>3. QED  BY <3>3, <4>2 DEF Pending, Took
    <3>5. HandedOut' = HandedOut
      BY <2>1, HandedOutStep DEF Issue, TokensSame
    <3>6. OneTime!Agree(c, work[w].ask)
      BY <3>1, <3>4, <3>5 DEF OneTime!Agree
    <3>7. QED  BY <3>2, <3>6 DEF OneTime!ANext
  <2>2. ASSUME NEW w \in Workers, Exchange(w) PROVE OneTime!ANext
    <3> DEFINE c == work[w].code
    <3>1. /\ c \in Codes /\ Took(w, c) /\ work' = [work EXCEPT ![w] = Idle]
          /\ UNCHANGED <<codes, consents>>
      BY <2>0, <2>2, ExchangeStep
    <3>2. /\ codes[c] = None /\ work[w].data = consents[c]
          /\ \A v \in Workers : Took(v, c) => v = w
      BY <2>0, <3>1 DEF CodesInv, TakersAreAlone
    <3>3. c \in Pending
      BY <3>1 DEF Pending, Took
    <3>4. /\ \A x \in Codes, v \in Workers : Took(v, x)' <=> Took(v, x) /\ v # w
      BY <2>0, <3>1 DEF Took, At, TypeOK, Idle
    <3>5. Pending' = Pending \ {c}
      BY <3>1, <3>2, <3>4 DEF Pending, Took
    <3>6. CASE tokens' = tokens
      BY <3>1, <3>5, <3>6, HandedOutStep DEF OneTime!ANext, OneTime!Lapse
    <3>7. CASE tokens' = tokens \cup {Exchanged(work[w])} /\ Honest(Exchanged(work[w]))
      <4> DEFINE e == Exchanged(work[w])
      <4>0. HandedOut' = HandedOut \cup
              {[code |-> e.code, client |-> e.client, pid |-> e.pid, scopes |-> e.scopes]}
        <5> HIDE DEF e
        <5>1. tokens' = tokens \cup {e}
          BY <3>7 DEF e
        <5>2. QED  BY <5>1, HandedOutStep
      <4>1. HandedOut' = HandedOut \cup {OneTime!TokenOf(c, consents[c])}
        BY <3>7, <4>0 DEF OneTime!TokenOf, Exchanged, Honest
      <4>2. OneTime!Redeem(c)
        BY <3>1, <3>3, <3>5, <4>1 DEF OneTime!Redeem
      <4>3. QED  BY <3>1, <4>2 DEF OneTime!ANext
    <3>8. QED  BY <2>0, <2>2, <3>6, <3>7, ExchangeStep
  <2>3. ASSUME NEW w \in Workers, Consume(w) PROVE OneTime!ANext
    <3>1. work[w].code \in Codes
      BY <2>0, <2>3, JobsCarry DEF Consume, At, TypeOK
    <3>2. /\ codes' = [codes EXCEPT ![work[w].code] = None]
          /\ UNCHANGED <<consents, tokens>>
          /\ \/ codes[work[w].code] # None /\ \E d \in {codes[work[w].code]}, r \in {work[w].req} :
                 work' = [work EXCEPT ![w] =
                    [at |-> "exchange", code |-> work[w].code, req |-> r, data |-> d]]
             \/ work' = [work EXCEPT ![w] = Idle]
      BY <2>3 DEF Consume, Goto, TokensSame
    <3>3. \A x \in Codes : codes'[x] # None => codes[x] # None
      BY <2>0, <3>1, <3>2 DEF TypeOK
    <3>4. \A x \in Codes, v \in Workers : Took(v, x)' => Took(v, x) \/ codes[x] # None
      BY <2>0, <3>2 DEF Took, At, TypeOK, Idle
    <3>5. Pending' \subseteq Pending
      BY <3>3, <3>4 DEF Pending, Took
    <3>6. QED
      BY <3>2, <3>5, HandedOutStep DEF OneTime!ANext, OneTime!Lapse
  <2>4. CASE Restart
    <3>1. Pending' = {}
      BY <2>4 DEF Restart, Pending, At, Idle
    <3>2. UNCHANGED <<consents, tokens>>
      BY <2>4 DEF Restart, TokensSame
    <3>3. QED
      BY <3>1, <3>2, HandedOutStep DEF OneTime!ANext, OneTime!Lapse
  <2>5. CASE CodesUntouched
    <3>1. Pending' \subseteq Pending
      BY <2>5 DEF CodesUntouched, Pending, Took
    <3>2. QED
      BY <2>5, <3>1, HandedOutStep DEF CodesUntouched, OneTime!ANext, OneTime!Lapse
  <2>6. QED
    BY <2>0, <2>1, <2>2, <2>3, <2>4, <2>5, OthersUntouched
<1>3. QED
  BY <1>1, <1>2, Invariance, PTL DEF Spec, ConsentIsOneTime, OneTime!ASpec

=============================================================================
