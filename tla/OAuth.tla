--------------------------------- MODULE OAuth ---------------------------------
(***************************************************************************)
(* "Sign in with Nextendo" (src/oauth.go): the registry of third-party     *)
(* applications, the codes a member's consent issues and the tokens an     *)
(* application exchanges them for.                                         *)
(*                                                                         *)
(* Applications are kept in oauth_clients.json, rewritten in place under   *)
(* the registry's lock; the emulator is built in, has no secret and must   *)
(* prove that it began the sign-in (PKCE).  Codes are in memory and gone   *)
(* once presented or expired; tokens are signed and outlive the process.   *)
(* A handler is cut where it takes a lock again: between the check of a    *)
(* consent and its code, the check of a client (a slow hash) and the       *)
(* code, the code and the account.                                         *)
(*                                                                         *)
(* A confidential application presents its secret: a request without it,   *)
(* like any other refusal before the code is looked up, changes nothing.   *)
(* Codes and application ids are random and never drawn twice.             *)
(***************************************************************************)
EXTENDS Naturals, FiniteSets

CONSTANTS
  Pids,
  Apps,             \* bound: the ids applications may be given
  Emulator,         \* emulatorClientID
  Scopes,           \* oauthScopes
  Identity,         \* the scope of a request that names none
  Redirects,
  Loopbacks,        \* the redirects isLoopbackRedirect takes
  Verifiers,        \* a challenge stands for the verifier it is the hash of
  NoPkce,
  Codes,            \* bound: the codes oauthRandToken may draw
  Offers,           \* bound: what applications are registered with
  Asked,            \* bound: the authorize requests members approve
  Presented,        \* bound: what clients present with a code
  Workers,          \* bound: requests at once
  MaxSaveFailures,  \* bound: writes of oauth_clients.json that fail
  MaxRestarts,      \* bound: restarts of the process
  None, Torn        \* no client or code; a file cut off while written

Clients == Apps \cup {Emulator}
Registration == [redirects : SUBSET Redirects, scopes : SUBSET Scopes]
Consent == [client : Clients, pid : Pids, scopes : SUBSET Scopes,
            redirect : Redirects, challenge : Verifiers \cup {NoPkce}]
Request == [client : Clients, redirect : Redirects, verifier : Verifiers \cup {NoPkce}]

ASSUME EmulatorIsNoApp == Emulator \notin Apps
ASSUME ScopesAreKnown == Identity \in Scopes /\ Loopbacks \subseteq Redirects
ASSUME InputsAreTyped ==
  Offers \subseteq Registration /\ Asked \subseteq Consent /\ Presented \subseteq Request
ASSUME NoneIsNothing ==
  /\ None \notin Registration /\ None \notin Consent
  /\ NoPkce \notin Verifiers
  /\ Torn \notin [Apps -> Registration \cup {None}]
ASSUME BoundsAreNaturals == MaxSaveFailures \in Nat /\ MaxRestarts \in Nat

VARIABLES
  live,       \* the accounts that exist
  reg,        \* oauthReg.m
  disk,       \* oauth_clients.json
  codes,      \* authCodes.m
  expired,    \* the codes past their sixty seconds
  work,       \* what each request is doing
  tokens,     \* the tokens handed out, with what their exchange presented
  stale,      \* the access tokens past their hour
  consents,   \* history: what each code was issued for
  told,       \* history: applications told that they are registered
  damaged,    \* history: the last write of the file failed or was cut off
  failures,
  restarts

vars == <<live, reg, disk, codes, expired, work, tokens, stale,
          consents, told, damaged, failures, restarts>>

NoApps == [a \in Apps |-> None]
Registry == [Apps -> Registration \cup {None}]

Token == [code : Codes, client : Clients, pid : Pids, scopes : SUBSET Scopes,
          redirect : Redirects, verifier : Verifiers \cup {NoPkce}]

Idle == [at |-> "idle"]

Jobs == {Idle}
  \cup [at : {"issue"}, ask : Consent]
  \cup [at : {"consume"}, code : Codes, req : Request]
  \cup [at : {"exchange"}, code : Codes, req : Request, data : Consent]
  \cup [at : {"write"}, app : Apps]

Init ==
  /\ live = Pids
  /\ reg = NoApps /\ disk = NoApps
  /\ codes = [c \in Codes |-> None] /\ consents = codes
  /\ expired = {} /\ tokens = {} /\ stale = {} /\ told = {}
  /\ work = [w \in Workers |-> Idle]
  /\ damaged = FALSE /\ failures = 0 /\ restarts = 0

-----------------------------------------------------------------------------
(* The registry.                                                           *)

Goto(w, job) == work' = [work EXCEPT ![w] = job]

At(w, place) == work[w].at = place

RegistrySame == UNCHANGED <<reg, disk, told, damaged, failures>>
CodesSame == UNCHANGED <<codes, expired, consents>>
TokensSame == UNCHANGED <<tokens, stale>>

(* oauthReg.mu is held while the file is written.                          *)
Locked == \E w \in Workers : At(w, "write")

(* getOAuthClient finds it; the emulator's is not in the registry.         *)
Known(client) == client # Emulator => ~Locked /\ reg[client] # None

(* An application that names no scope may ask for the identity.            *)
Registered(offer) ==
  IF offer.scopes = {} THEN [offer EXCEPT !.scopes = {Identity}] ELSE offer

(* oauthRegisterClient, validated: in memory, then the file is truncated;  *)
(* a file that cannot be opened is only logged and the answer is the same. *)
Register(w, offer) ==
  /\ work[w] = Idle /\ ~Locked
  /\ offer.redirects # {} /\ offer.redirects \cap Loopbacks = {}
  /\ \E a \in Apps :
       /\ reg[a] = None /\ a \notin told
       /\ reg' = [reg EXCEPT ![a] = Registered(offer)]
       /\ \/ /\ disk' = Torn
             /\ Goto(w, [at |-> "write", app |-> a])
             /\ UNCHANGED <<told, damaged, failures>>
          \/ /\ failures < MaxSaveFailures /\ failures' = failures + 1
             /\ told' = told \cup {a} /\ damaged' = TRUE
             /\ UNCHANGED <<disk, work>>
  /\ CodesSame /\ TokensSame /\ UNCHANGED <<live, restarts>>

(* Mutants: each is a later definition of the same name with one slip.     *)
RegisterWrite_without(w) ==
  /\ At(w, "write")
  /\ disk' = [reg EXCEPT ![work[w].app] = None] /\ damaged' = FALSE
  /\ told' = told \cup {work[w].app}
  /\ Goto(w, Idle)
  /\ CodesSame /\ TokensSame /\ UNCHANGED <<live, reg, failures, restarts>>

(* saveOAuthClientsLocked: a write that fails midway is only logged.       *)
RegisterWrite(w) ==
  /\ At(w, "write")
  /\ \/ disk' = reg /\ damaged' = FALSE /\ UNCHANGED failures
     \/ /\ failures < MaxSaveFailures /\ failures' = failures + 1
        /\ damaged' = TRUE /\ UNCHANGED disk
  /\ told' = told \cup {work[w].app}
  /\ Goto(w, Idle)
  /\ CodesSame /\ TokensSame /\ UNCHANGED <<live, reg, restarts>>

-----------------------------------------------------------------------------
(* oauthAuthorizeApprove.                                                  *)

Asks(ask) == IF ask.scopes = {} THEN [ask EXCEPT !.scopes = {Identity}] ELSE ask

(* The emulator listens on a port of its choice and may ask for anything.  *)
isLoopbackRedirect(redirect) == redirect \in Loopbacks

scopesAllowed(client, asked) ==
  asked \subseteq IF client = Emulator THEN Scopes ELSE reg[client].scopes

(* validateAuthorizeReq.                                                   *)
Valid(ask) ==
  /\ Known(ask.client)
  /\ IF ask.client = Emulator THEN isLoopbackRedirect(ask.redirect)
                              ELSE ask.redirect \in reg[ask.client].redirects
  /\ scopesAllowed(ask.client, Asks(ask).scopes)

(* Bound: there is a code left to draw.                                    *)
CodesLeft ==
  Cardinality({v \in Workers : At(v, "issue")}) < Cardinality({c \in Codes : consents[c] = None})

AuthorizeApprove(w, ask) ==
  /\ work[w] = Idle /\ CodesLeft
  /\ ask.pid \in live
  /\ Valid(ask)
  /\ Goto(w, [at |-> "issue", ask |-> Asks(ask)])
  /\ RegistrySame /\ CodesSame /\ TokensSame /\ UNCHANGED <<live, restarts>>

(* newAuthCode, with its opportunistic purge.                              *)
Purged == [c \in Codes |-> IF c \in expired THEN None ELSE codes[c]]

Issue(w) ==
  /\ At(w, "issue")
  /\ \E c \in Codes :
       /\ consents[c] = None
       /\ consents' = [consents EXCEPT ![c] = work[w].ask]
       /\ codes' = [Purged EXCEPT ![c] = work[w].ask]
  /\ expired' = {}
  /\ Goto(w, Idle)
  /\ RegistrySame /\ TokensSame /\ UNCHANGED <<live, restarts>>

CodeExpires(c) ==
  /\ codes[c] # None /\ c \notin expired
  /\ expired' = expired \cup {c}
  /\ RegistrySame /\ TokensSame /\ UNCHANGED <<live, codes, consents, work, restarts>>

-----------------------------------------------------------------------------
(* oauthToken.                                                             *)

TokenRequest(w, c, req) ==
  /\ work[w] = Idle
  /\ Known(req.client)
  /\ Goto(w, [at |-> "consume", code |-> c, req |-> req])
  /\ RegistrySame /\ CodesSame /\ TokensSame /\ UNCHANGED <<live, restarts>>

Consume_keeps(w) ==
  LET c == work[w].code IN
  /\ At(w, "consume")
  /\ \/ /\ codes[c] # None /\ c \notin expired
        /\ Goto(w, [at |-> "exchange", code |-> c, req |-> work[w].req, data |-> codes[c]])
     \/ /\ codes[c] = None \/ c \in expired
        /\ Goto(w, Idle)
  /\ CodesSame /\ RegistrySame /\ TokensSame /\ UNCHANGED <<live, restarts>>

(* consumeAuthCode: the code is gone whatever becomes of the request.      *)
Consume(w) ==
  LET c == work[w].code IN
  /\ At(w, "consume")
  /\ \/ /\ codes[c] # None /\ c \notin expired
        /\ Goto(w, [at |-> "exchange", code |-> c, req |-> work[w].req, data |-> codes[c]])
     \/ /\ codes[c] = None \/ c \in expired
        /\ Goto(w, Idle)
  /\ codes' = [codes EXCEPT ![c] = None] /\ expired' = expired \ {c}
  /\ RegistrySame /\ TokensSame /\ UNCHANGED <<live, consents, restarts>>

Matches_anyChallenge(req, data) ==
  /\ data.client = req.client /\ data.redirect = req.redirect
  /\ data.challenge # NoPkce => req.verifier = data.challenge

(* The code is the client's, for that redirect, and the verifier is the    *)
(* challenge's; a public client must have sent a challenge.                *)
Matches(req, data) ==
  /\ data.client = req.client /\ data.redirect = req.redirect
  /\ req.client = Emulator => data.challenge # NoPkce
  /\ data.challenge # NoPkce => req.verifier = data.challenge

(* The emulator gets the login of an account that exists, an application   *)
(* an access token.                                                        *)
Exchange(w) ==
  LET job == work[w]
      granted == Matches(job.req, job.data)
                 /\ (job.req.client = Emulator => job.data.pid \in live)
  IN
  /\ At(w, "exchange")
  /\ tokens' = IF granted
       THEN tokens \cup {[code |-> job.code, client |-> job.req.client,
                          pid |-> job.data.pid, scopes |-> job.data.scopes,
                          redirect |-> job.req.redirect, verifier |-> job.req.verifier]}
       ELSE tokens
  /\ Goto(w, Idle)
  /\ RegistrySame /\ CodesSame /\ UNCHANGED <<live, stale, restarts>>

TokenExpires(t) ==
  /\ t.client # Emulator /\ t \notin stale
  /\ stale' = stale \cup {t}
  /\ RegistrySame /\ CodesSame /\ UNCHANGED <<live, work, tokens, restarts>>

(* oauthUserinfo: what an access token reads of an account.                *)
Userinfo(t) ==
  IF t.client # Emulator /\ t \notin stale /\ t.pid \in live THEN t.scopes ELSE {}

-----------------------------------------------------------------------------
(* Accounts go and the process restarts.                                   *)

DeleteByPID(p) ==
  /\ p \in live /\ live' = live \ {p}
  /\ RegistrySame /\ CodesSame /\ TokensSame /\ UNCHANGED <<work, restarts>>

(* loadOAuthClients: a file it cannot parse is an empty registry.          *)
Restart ==
  /\ restarts < MaxRestarts /\ restarts' = restarts + 1
  /\ reg' = IF disk = Torn THEN NoApps ELSE disk
  /\ damaged' = (damaged \/ Locked)
  /\ codes' = [c \in Codes |-> None] /\ expired' = {}
  /\ work' = [w \in Workers |-> Idle]
  /\ TokensSame /\ UNCHANGED <<live, disk, told, consents, failures>>

Next ==
  \/ \E w \in Workers :
       \/ \E offer \in Offers : Register(w, offer)
       \/ \E ask \in Asked : AuthorizeApprove(w, ask)
       \/ \E c \in Codes, req \in Presented : TokenRequest(w, c, req)
       \/ RegisterWrite(w) \/ Issue(w) \/ Consume(w) \/ Exchange(w)
  \/ \E c \in Codes : CodeExpires(c)
  \/ \E t \in tokens : TokenExpires(t)
  \/ \E p \in Pids : DeleteByPID(p)
  \/ Restart

Spec == Init /\ [][Next]_vars

-----------------------------------------------------------------------------
(* Properties.                                                             *)

(* Every application may be sent somewhere and ask for something.          *)
Usable(r) == \A a \in Apps : r[a] # None => r[a].redirects # {} /\ r[a].scopes # {}

(* The registry, its file, the codes, the jobs and the tokens have their   *)
(* types; an application has a redirect and a scope, and only codes that   *)
(* are there expire.                                                       *)
TypeOK ==
  /\ live \subseteq Pids
  /\ reg \in Registry /\ disk \in Registry \cup {Torn}
  /\ Usable(reg) /\ (disk # Torn => Usable(disk))
  /\ codes \in [Codes -> Consent \cup {None}]
  /\ consents \in [Codes -> Consent \cup {None}]
  /\ \A c \in expired : c \in Codes /\ codes[c] # None
  /\ work \in [Workers -> Jobs]
  /\ tokens \subseteq Token /\ stale \subseteq tokens
  /\ told \subseteq Apps /\ damaged \in BOOLEAN
  /\ failures \in 0..MaxSaveFailures /\ restarts \in 0..MaxRestarts

(* The codes that may still be redeemed: in the table, or already taken    *)
(* from it by a request that has not answered.                             *)
Pending ==
  {c \in Codes : codes[c] # None \/ \E w \in Workers : At(w, "exchange") /\ work[w].code = c}

HandedOut ==
  {[code |-> t.code, client |-> t.client, pid |-> t.pid, scopes |-> t.scopes] : t \in tokens}

OneTime == INSTANCE OneTimeConsent
             WITH Consents <- Consent, agreed <- consents, open <- Pending, tokens <- HandedOut

(* "usage unique": the provider implements one-time consents.  A code is   *)
(* redeemed at most once, for the client, account and scopes it was issued *)
(* for, however exchanges, expiries, purges and restarts meet.             *)
ConsentIsOneTime == OneTime!ASpec

(* From consent to what is read: an application reads of an account what   *)
(* its member agreed to, by a token that was exchanged at the redirect the *)
(* code was sent to and by whom knows its verifier; the emulator never     *)
(* without one ("client public ... PKCE obligatoire").                     *)
ReadsWereAgreed ==
  \A t \in tokens :
    LET d == consents[t.code] IN
    /\ d # None /\ Userinfo(t) \subseteq d.scopes
    /\ d.pid = t.pid /\ d.client = t.client /\ d.redirect = t.redirect
    /\ d.challenge \in {NoPkce, t.verifier}
    /\ t.client = Emulator => d.challenge # NoPkce

(* An application that was told its id and its secret ("il ne sera plus    *)
(* jamais affiché") stays registered: only a restart after the last write  *)
(* of the file failed or was cut off forgets it.                           *)
AppsRemembered ==
  \A a \in told : reg[a] # None /\ reg'[a] = None => damaged'
ApplicationsSurvive == [][AppsRemembered]_vars

=============================================================================
