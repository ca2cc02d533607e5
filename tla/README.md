# Nextendo account server: specifications and proofs

`nextendo-account` is the account service of the Nextendo Network: one Go process
(`src/*.go`, package `main`) that keeps accounts, friends, sessions, presence, console
bindings and cloud saves in memory and in a handful of JSON files, and serves the web
site, the Ryujinx emulator, the game servers and the Switch-facing server over HTTP.
Go serves each request in a goroutine of its own, every part of the state has a lock of
its own, and most handlers take several locks in turn: what is hard to test here is what
comes in between, and what a failed write or a restart leaves behind.

This directory holds TLA+ modules for the parts with a logic of their own, TLC
configurations that check them on small instances, and TLAPS proofs of what matters most
for every value of the constants.

## 1. Inventory

| Part | State | Operations | Talks to |
|---|---|---|---|
| Account store (`main.go`, `admin*.go`, `delete_account.go`) | accounts by id, indexes by e-mail, name, PID and friend code, id counters; `accounts.json`, rewritten whole at every change | create, change of name, e-mail, password, profile; disable; two deletions | everything: handlers keep live pointers to accounts |
| Friend graph (same store) | friends, incoming requests, favourites, blocked PIDs of each account | request, accept, decline, remove, favourite, block; cascade of a deletion; lockdown | store lock only, except `friendFavorite` |
| Console bindings (`nintendo_bindings*.go`) | entries (BAAS id, device id) bound to each PID; `nintendo_bindings.json` | bind, unbind, whoami (bound or derived match, then promoted) | reads the account store before it takes its own lock |
| Cloud saves (`save.go`, `main.go`) | one file and one backup per title, quota by booster status, a grace deadline; status and deadline in `accounts.json` | upload, delete, downgrade, sweep of deadlines | link and status pushed by the bot (`discord.go`), upload lock per account, account store |
| Sessions (`sessions.go`) | sessions by id; `sessions.json`, at once or by a 15 s ticker | login, revoke one or all, upsert by device, mark, refresh | the online gate, presence, web tokens |
| Online gate (`main.go`, `online_presence.go`) | none | online check, online status, session status | account store, game servers, sessions |
| Presence (`presence.go`, `console_presence.go`) | last report of each PID, 90 s; consoles heard from, 5 min | report by the player, by game servers in batches, by the console; note of a resolved identity | sessions (refresh), friend views |
| Bans (`ban.go`) | tombstones (PID, e-mail, IPs, friend code, Discord); `bans.json` | ban (five steps), unban, checks at registration | store, sessions, saves, history, Discord relay |
| E-mail links (`email.go`, `main.go`) | none: HMAC links bound to the e-mail or the password hash | verify, forgot, reset, change of e-mail | account store |
| OAuth (`oauth.go`) | registered applications (`oauth_clients.json`, rewritten in place), codes; tokens are signed and kept nowhere | register an application, consent, exchange (PKCE, one use, 60 s), userinfo | account store; tokens name accounts that may be gone |
| Play history (`history.go`) | one file per account, written through one temporary name | push by the emulator, push by the console, wipe by a ban; reads | no lock at all |
| Bug reports (`reports.go`) | an inbox of 200 for seven days, in memory | send (two quota checks around the body), list, mark | - |
| Rate limiter, online counts | one window per key; a 5 s cache | one small operation each | - |
| The rest | none, or read-only | tokens and denylist, mod favourites, country, rotation, games, BCAT, save decoding, NPLN friend views, e-mail transport, Turnstile, Discord relay | - |

What makes each of the stateful parts correct:

- **Friend graph**: friendship is mutual and asked for; nobody waits on somebody who waits on
  them; a block separates; a deleted member is in nobody's lists; a new account has no past.
- **Console bindings**: an identity belongs to one account and changes hands only by being
  released; an account under a PID nobody had owns none; the most specific identifier decides.
- **Cloud saves**: the quota holds whatever runs at once; a real save is never replaced by a
  near-empty one and is kept as the backup, where the backup can be written; losing the booster
  status costs no title that anybody may push; whoever is over the quota without the status has a
  deadline, and an expired one is enforced.
- **Sessions and gate**: a closed session stays closed; a session is in the file before its id
  leaves; devices do not pile up sessions; a device is refused for another one only.
- **Store, bans, links**: e-mails are unique and the indexes agree; a banned account and its
  e-mail do not come back; an e-mail is verified by its owner; a reset link that has set a password
  is dead.
- **Presence**: a weaker report does not hide a stronger fresh one; leaving is instant; what
  nobody reports ends offline.
- **OAuth**: a code is exchanged once, in time, and for what was agreed; an application told that
  it is registered stays so.
- **History**: play time never regresses; nothing is stored that was not played; a ban wipes it.
- **Reports**: the hourly quota holds; one account does not drown the others; a mark hits the
  report that was looked at.

The behaviours that are hard: handlers that read under one lock and write under another
(`friendFavorite`, `internalBind`, `internalWhoami`, `register`, `verifyEmail`,
`resetPassword`, `adminDiscordLink`, the session upserts, `noteConsoleOnline`, the OAuth exchange), goroutines beside
the handlers (the downgrade, the sweep, the flush), files written under a name that others write
too, writes that fail and leave the memory ahead of the file, and restarts that rewind to the
file. `hazards` in `PROJECT.json` lists them at their lines, with the properties about each.

## 2. Plan

1. `FriendGraph` (done), with a proof of every property its run checks.
2. `ConsoleBindings` (done), as an implementation of the abstract `ConsoleOwnership`.
3. `CloudSave` (done), handlers against the sweep; the deadline's liveness with TLC.
4. `PlaySessions` (done), the registry and the online gate.
5. `AccountStore` (done) under `Accounts` (registration, renames, deletion, bans) and
   `AccountLinks` (e-mailed links): handlers of several steps over one store with failed writes
   and restarts.
6. `Presence` (done), the two tables and their four writers, with the liveness of the time to live.
7. `OAuth` (done) as an implementation of the abstract `OneTimeConsent`, with its proofs; `History`
   (done), pushes over a file system of names and inodes; `Reports` (done), the bounded inbox. The
   rate limiter is left out: see section 7.
8. `PresenceProofs` and `HistoryReportsProofs` (done): every safety property and every action
   property of a passing run is proved.
9. Left: the sessions and saves a ban closes and wipes, in `Accounts`.

Abstract specifications: `ConsoleOwnership` and `OneTimeConsent` (done). Still worth stating: a ban
as "an identity that is reserved", which the tombstones implement.

## 3. Modules

Every module has the same shape: the state as the code has it in memory and on disk, `Init`,
one action per handler or per step of a handler, `Next`, `Spec`, then the properties. Definitions
whose name has a suffix (`Taken_baasOnly`, `Close_memoryOnly`...) are slips the properties must
catch; nothing else uses them.

Conventions: a method of a store runs under its lock and is one action, with the write of the
file that ends it. A write may fail (`MaxSaveFailures` bounds how often): the memory keeps the
change, the file does not have it, and the next successful write catches up. A restart
(`MaxRestarts`) replaces memory by the file and ends every handler. A handler that reads under
one lock and acts under another is one action per step; `work` (or `checked`) says what it has
read.

### FriendGraph, FriendGraphProofs

`mem` and `disk` are the graph in memory and in `accounts.json`: accounts, PIDs handed out,
deleted and disabled accounts, and the four lists. Each `jsonStore` method is an action;
`friendFavorite`, which checks the friendship without the lock, is `FavoriteCheck` and
`SetFavorite`. The routes of the site and of the console-facing server reach the same methods with
different conditions: the site asks for an enabled account (`Friends`, `FriendAccept`, `FriendDecline`),
the console's routes do not, and one of them answers both ways (`InternalFriendAccept`). `FriendList` and `SentRequestPIDs` are the
views the handlers compute from the lists, and the properties speak of these. A PID is handed out
once in the life of one file; a restart after a failed write takes back the counter with the
accounts.

- `FriendGraph_pair.cfg`: two accounts, two favourite requests in flight, one failed write, two
  restarts. Two accounts are all a friendship is about; the third actor, an account that reads a
  list naming a deleted one, is an account deleted before the other is created. Deadlock is off:
  once every PID is used and every bound spent nothing can happen.

Proved for any set of PIDs and any bounds: all properties of the run. `GraphInv` is what
one graph must satisfy and `IInv` says it of `mem` and of `disk`, since what is on disk is what
the next process will serve. It adds to the properties that the lists name only PIDs that were
handed out, without which a new account could find itself in an old list.

### ConsoleOwnership, ConsoleBindings, ConsoleBindingsProofs

`ConsoleOwnership` is what the table promises: every identity has one owner or none, and changes
owner only through nobody, or by the reload of a file that a failed write left behind.
`ConsoleBindings` has the lists of entries, the account store as far as PIDs go, and the handlers
`internalBind` (account check, then `Bind`), `internalWhoami` (bound or derived match, then the
answer or the promotion) and `internalUnbind`. The derived ids of an account (an HMAC of its PID)
are the constant `Minted`, all different. The map order of the derived match is a choice.
Labels, dates and NaIDs resolve nothing and are left out.

The two stores have a file each. `live` and `used` (the accounts and the PIDs below the counter)
are written to `saved`, the table to `disk`, and either write may fail; `OtherSave` is a write of
`accounts.json` by any other method, which takes earlier failed changes along. A restart reads both
back, so that accounts and PIDs may be gone which `nintendo_bindings.json` still names; `forgotten`, a
history, has the PIDs a restart took back.

- `ConsoleBindings_race.cfg`: two handlers at once for two players: a console that presents its
  player's ids and then the other player's profile, and a caller that knows one id alone; one failed
  write, of either file, and a restart, which are what it takes to hand out a PID twice.

The run checks `Exclusive`, `OwnershipIsRespected` (`ConsoleOwnership` with the owner of an id read
off the lists) and `FreshPidOwnsNothing`. The last is what the code keeps of "a new account owns
nothing": it holds of a PID nobody had, though handlers may still be on their way to bind for an
account that was deleted. It does not hold of a PID handed out again, because the write of
`accounts.json` that handed it out failed and the process restarted: the property exempts exactly these.

Proved for any accounts, ids, handlers and bounds: types, exclusivity, that fresh PIDs are unbound,
and the refinement. The inductive invariant adds that nothing is bound to a PID that was never handed
out and that handlers act for PIDs that were (`Handed` counts the forgotten ones in), and that
until a write of `accounts.json` fails file and memory agree and nothing is forgotten
(`FileIsMemory`), which is why the exemption needs a failed write.

### CloudSave, CloudSaveProofs

The saves of one account (accounts share only code), and of the account the Discord link, the
booster status and the deadline, in memory and in `accounts.json` (`disk`). `Written`, `WriteFails` and
`Unwritten` are how a store method ends: written, failed with the memory changed, or skipped because
nothing changed (`SetBooster`, `SetCloudGrace`). What each handler does between two locks or two
system calls is a step:

| Code | Steps |
|---|---|
| `save`, the upload | `UploadGate`, `UploadMeasure` (the lock, then the quota), `UploadProtect` (the guard and the backup), `UploadRename` |
| `saveDelete` | `DeleteFile`, `EraseBackup`, `DeleteSettle`, `Lift` |
| `adminDiscordLink` | `PushLink` (`SetDiscordLink`, which ends the push when its write fails), `PushRead` (`wasBooster`), `PushStatus` (`SetBooster`), then `Lift` or the goroutine |
| `applyBoosterDowngrade` | `Downgrade`, `ListBoosterOnly`, `EraseFile` and `EraseBackup` for each title, `Downgrade` again, `DowngradeDeadline` or `Lift` |
| `cloudGraceSweep` | `SweepStart`, `ListBoosterOnly`, `EraseFile`, `EraseBackup`, `SweepWeigh`, `SweepHeaviest`, `Lift` |

Only uploads take the lock, so two pushes overlap, and a deletion, a downgrade or the sweep removes a
backup beside an upload. `UploadProtect` may fail to write the backup and go on, as the code does, with
the old backup left or half a file in its place; `kept`, a history in the job, says whether it was written.
Sizes stand for bytes: 2 is near-empty, 6 is more than the smaller quota, two of 6 are more than the
larger. A deadline expires at any time after it was set. A restart loses every handler and goroutine and
reads the account back from its file, older or not.

- `CloudSave_saves.cfg`: two requests, pushes or downgrades at once beside the sweep, two titles, a
  failed write of `accounts.json`, any number of restarts. `Uploads`, `Deletions` and `Pushes` say which
  request may start what (`MCCloudSave`): a title within the quota, both over it, the status found by
  the one and lost by the other, an unlink. The run is under `FairSpec`: weak fairness of the expiry (time
  passes) and of the sweep (a ticker in a goroutine that does nothing else), and the process is not
  restarted for ever. Requests and downgrades need none.
- `CloudSave_booster.cfg`: a booster's saves deleted, see section 5.

`OverQuotaIsWatched` says that an account over its quota is a booster's, has a deadline, or has a
goroutine about to set one, and names the ways out: a restart, which takes the goroutine or reads an
older file; an upload that lands after the loss of the status it was measured under; a deadline lifted by
somebody who had found it needless, be it a deletion, a downgrade or a push that had the status; and a push
that takes away a status another push gave after it had read there was none, so that nobody starts the
downgrade. It also says that a lift is only decided while it is right. `DeadlineIsEnforced` is the
liveness of the sweep: a deadline in the file over the quota ends with the account within it or a
booster again, unless somebody was about to lift it. `OverwriteIsRecoverable`: an upload whose backup was
written comes to its rename with the save it replaces as the backup, unless a deletion, a downgrade or
the sweep takes the backup of that title in between.

Proved for any titles, sizes, quotas, requests and number of handlers: every property of the run but
`DeadlineIsEnforced`. The invariant is `TypeOK`, `LockHeld` (whoever is between measure and rename holds
the lock), `GuardHolds` (a guard once passed still holds, because no other upload can put a file there and
everything else only removes) and `ErasersAreProper` (a downgrade, or the sweep's first purge, erases
booster titles only, a request one title, and the heaviest save is the sweep's to take).
`WithinLargestQuota` is the argument of the guard about a sum: an upload that
was measured still fits at its rename. What is stored is counted as the number of bytes, the
pairs of a title and a position in its file (`Bytes`), so that `cloudUsage` is a cardinality and the
library's facts on finite sets give the lemmas it needs (a removal lowers it, one file adds its size).
`OverQuotaIsWatched` follows step by step from what each action does to the usage, the quota and the
jobs; that `deleteHeaviestSave` finds a title as long as one is left (`HeaviestIsThere`) keeps the sweep
from going silent, and is where the titles have to be finitely many.

### PlaySessions, PlaySessionsProofs

The sessions of one account, with `sess` in memory and `disk` in the file. `Find`, `Create`
and `Mark` are the three times `upsertPlaySession` takes the lock. `OnlineCheck` lets the game
servers see the account or not, at will: the device's own connection, a ghost, or a server that
did not answer. `Elsewhere` is `activePlayElsewhere`. Ages are counted in ticks up to the five
minutes of the gate, for the sessions in play, the only ones whose age is asked. A tick is minutes
and a request seconds: time passes between requests. After a restart the age is that of the last
flush, any age. `quiet` is a history: the ticks since a device was let in or linked, or a presence
report came. The account is taken to pass the earlier gates.

- `PlaySessions_registry.cfg`: a Switch and an emulator behind one address and a browser, two
  requests at once, three session ids, a failed write, a restart. Three ids are one more than the
  duplicates two requests can make of a device.

`SilenceFreesThePlace` is the promise of the gate: a device is refused only while the account was
heard of within the window. It is stronger than the guard of `Elsewhere`, which asks the age of one
session of another kind: sessions pile up, are closed or marked late, and a report of any device
refreshes them all.

Proved for any ids, devices, window and bounds: types, `ClosedStaysClosed` and `SessionsAreSaved`,
which are inductive together with the fact, in `TypeOK`, that a session to be marked exists
(sessions are never removed), and `SilenceFreesThePlace`, from the invariant that no session in play
is younger than `quiet`. `SessionsAreReused` needs an invariant that counts: a device's open sessions
and the requests that have looked for one in vain and are about to make it are together no more than
the requests there can be (`PilesOK`); whoever looks finds a session as soon as there is one. A restart
ends the requests and reloads the file, so the same is said of what the file still has as open,
which holds up to the first failed write.

### AccountStore, Accounts, AccountLinks, AccountsProofs

`AccountStore` is the store without a handler: `accts`, the index `byMail`, the counter `next`,
the file `disk`, and `work`, what each handler has checked and is about to do. `Insert`,
`SetEmail`, `Put` and `Drop` are the changes the methods make to the memory, `Save` is the write
that ends each of them and may fail, and `OtherSave` is a write by any method this module leaves
out, which takes earlier failed changes to the file too. Passwords are hashed (bcrypt, slow)
with no lock held, between a handler's checks and its method. A hash is a number no other hash
has, as the salt makes it. `born`, the first hash of an account, is a history variable in the
record: it says who the account is when a restart makes an id be handed out twice. An address
stands for all an account reserves; names, friend codes, guests and the freeze at boot are left
out.

`Accounts` adds the tombstones and their file, which has a lock of its own and whose failed write
is only logged. `register` is `RegisterCheck` (bans) and `RegisterApply` (`Create`), `changeEmail`
is `RenameCheck` and `RenameApply`, and `banAccount` is `BanRead`, `BanAdd` and `Purge`, in the
order of the code. `Delete` is either deletion; the password that `deleteAccount` checks first is
that of the account it then deletes, or the account is gone. The histories `loose` (ids deleted
otherwise or unbanned), `moved` (ids whose address was changed beside a ban) and `interrupted` (ids a
restart found half deleted or forgot) name the exceptions the properties allow.

`BanKeepsItsMail` compares addresses: a tombstone never comes to reserve nothing, and comes to reserve
another address only for an account that changed its own while a ban of it was under way, or that a
restart brought back. In the first case the later of two bans may well put the older address in place of
the newer, since `add` replaces the entry by what its ban read; the model has these steps.

- `Accounts_bans.cfg`: two handlers, two accounts with two addresses, three passwords, two failed
  writes (one for each file, or the account's twice) and a restart. The hazards are between two
  handlers; a third account would be a second address for the same ones.

`AccountLinks` extends `Accounts` with the mailed links, two sets that only grow: a link is opened at any time or
never, which is what a lost mail and an expired link come to, and may be opened again. A confirm
link names the id and the address; a reset link the id and the hash it replaces.
`RegisterAndMail` and `RenameAndMail` are the steps of `Accounts` with the mail that follows a
write that succeeded; every other step of `Accounts` (deletions, bans, restarts) leaves the links
alone, and verifying and resetting are steps of their own on the same store. `confirmed` records where a confirmation was
opened, `raced` the ids renamed between the check and the write of one.

`opened` and `spent` are histories too: the link each reset under way was started with, and the links
that have set a password. `SpentLinksStartNothing`: a link that has set one starts no further reset,
whatever is being hashed meanwhile, whoever writes last and whatever write fails, until a restart reads a
file with the password it was mailed for. It does not say that a link sets one password: requests that
have checked it before the first of them writes set one each (section 6).

- `AccountLinks_opened.cfg`: two handlers, two accounts, three passwords, nobody banned
  (`Bannable`), one failed write, one restart; with the failed write an id is handed out twice while links for the first account are
  out.

Deadlock is off in both: with no account and every password spent the bounded model stops.

Proved for any addresses, handlers and bounds, in `AccountsProofs`. Its first part shows once that each method
keeps the store (types, an index that agrees with the accounts, a file whose accounts have
different addresses) and that the account of an id stays who it is or goes (`SameOrGone`), from
which every job stays in order (`JobStays`). The second, about `Accounts`, adds `BannedAreLeaving`: the
property looks at the tombstones in memory and at live accounts, but a restart reads those of the
file and a registration brings an id to life, so the invariant speaks of both copies and of the
ids to come; `BanJobsOK`, for `BanKeepsItsMail`, relates what overlapping bans have read to the
tombstones and to how the account went, and `AddressesAgree` says that the account, its tombstone
and every ban that has read it have one address, unless one of the exceptions applies. The third, about `AccountLinks`, takes both invariants over
as they are (`LinksSpareTheStore`: what the links write of the store is as harmless as the rest) and
adds `HashesOK`, that a hash belongs to one account wherever it
is found (memory, file, link, handler) and that the one a handler has made is nowhere else yet, which is why a
reset link cannot reach the next holder of an id and why a write that ends late cannot bring an old
hash back. It adds `OpeningsOK`, that the hash of a spent link is in force no more, which is
`SpentLinksStartNothing`, and `ConfirmationsOK`, which carries the verified flag through the file and through the
handlers about to set it.

### Presence, PresenceProofs

`table` is `presenceByPID` with the age of each entry, `seen` the table of consoles heard from. The
writers are the emulator's report (`Presence`, `Report`), a game server's batch, which writes one
member after the other (`PresenceBatch`, `BatchSet`), the note of every resolved identity
(`Identity`: `NoteSeen`, `NoteCheck`, `NoteSet`, three acquisitions of locks) and the console's own
report (`InternalPresence`: either `Push` and then the same note, or `Clear` and `Forget`).
`late` and `gone` are histories: notes overtaken by a game's report between their check and their
write, and accounts that left with no request about them under way.

- `Presence_tables.cfg`: two requests at once about two accounts, a table of consoles pruned at
  one entry, entries that expire after one tick, a restart; under `FairSpec`, weak fairness of
  `Tick` alone, which time gives. `SilentEndOffline` needs nothing of the requests: an account
  nobody writes any more ends offline with requests about it unfinished. Two accounts are needed for
  the batch and the pruning.
- `Presence_ttl.cfg`: see section 5.

`PlayingIsNotDowngraded` says that a note only takes a fresh player down by the race `late` names;
`LeavingIsInstant` that a console that left is shown offline until something later says otherwise.
What is played and the joinable room are left out. What a report does to the sessions is
`PresenceReport` of `PlaySessions`: the two share no other state.

Proved for any accounts, times to live, requests at once and bounds: all but the liveness. Three facts
make the invariant, one for each property: an account that is gone has no entry, and every
request about it is done with the table (`GoneAreSilent`); an account just heard of has an entry that
shows it, or a request about it is on its way to write one (`HeardAreTold`); a note past its check
whose account plays is late (`NotesAreLate`). They hold of the states between the locks, where the
properties say nothing.

### OneTimeConsent, OAuth, OAuthProofs

`OneTimeConsent` is what the sign-in promises: an agreement is redeemed at most once, unless it has
lapsed, for the client, the account and the scopes agreed to. `OAuth` has the registry of
applications and its file, the codes, the requests and the tokens. A request is cut between the
checks of the consent page and the issue of a code, between the check of a client (bcrypt) and the
code, and between the code and the account; `Consume` takes the code from the table under its lock,
which is where two exchanges of one code are told apart. `os.WriteFile` on `oauth_clients.json`
truncates first: a crash or a failed write leaves `Torn`, which loads as no application at all.
Applications are registered by the operator. Secrets are taken as presented: a request without
the right one is refused before anything is looked up. `consents` (what each code was issued for),
`damaged` and the like are histories.

- `OAuth_codes.cfg`: one account, two applications and the built-in emulator, two requests at once,
  two codes, two scopes, a site and a loopback redirect, clients that present another client's code,
  another redirect or no verifier; a failed write and a restart. One member is enough: a code
  carries its account and nothing compares two. `MCOAuth` lists the offers and requests.

The run checks `ConsentIsOneTime`, the refinement of `OneTimeConsent`. Proved for any applications,
codes, scopes, requests and bounds: types, `ConsentIsOneTime`, `ReadsWereAgreed` and
`ApplicationsSurvive`. The invariant says that a code in the table is the consent it was issued for,
that a request that took a code is the only one and the table no longer has it, that a token stands
for one consent, and that between writes, none of which went wrong, the file is the registry.

### History, HistoryReportsProofs

One account's file. A push loads, merges and saves with no lock, through `<pid>.json.tmp`, whose
name all pushes of the account share. Names (`path`, `tmp`) point at inodes and an open file is an
inode: a push that was overtaken writes into the file that another one has renamed into place.
`SaveOpen`, `SaveWrite` and `SaveRename` are the system calls of `saveHistory`; a load beside a
write may read half a text. A ban removes the file and not the temporary name.

- `History_pushes.cfg`: two pushes at once of two titles with play times 0 or 1, four inodes (the
  name, and one for each push, and one to spare), a failed write, a restart, a ban.

"Never regresses" does not hold of pushes that overlap, and the properties say what does:
`NeverRegresses`, only a push that overlapped another, or the ban, makes the file lose play time,
whatever crashed or failed before; `AnsweredIsStored`, a push that did not overlap another is in the
file once it is answered; `StoredWasPushed`, nothing is stored that was not pushed, and a wiped
history only comes back through a push in flight at the ban or a later one.

Proved for any titles, play times, pushes at once and bounds: all properties of the run. A push that
has overlapped no other is alone (`AloneIsAlone`), and then the temporary name is still on the file it
opened, which is empty until it writes and then has its text (`AloneIsUndisturbed`). For
`StoredWasPushed` the question is what a rename may bring in, also after a crash or a ban: as long as
anybody is past the opening, what is under the temporary name is empty, torn, or the text of a push that
has yet to rename (`TmpIsInFlight`), and those are counted as pushed. `HistoryReportsProofs` holds the proofs
about `Reports` as well; the two models share no variable.

### Reports, HistoryReportsProofs

The inbox is the set of its reports, in the order of their ids: the slice grows at its end alone, under
the lock that counts `reportSeq`, from one at every start. `Trim` keeps the newest `MaxReports`. `QuotaCheck` is
the check before the body is read, `Decode` reads and stamps the report, `StoreReport` checks again
under the lock, appends and cuts the inbox (`Stored`); `AdminList` and `AdminMark` are the administrator, who
keeps the page listed last (`page`, with `pageOld` after a restart).

- `Reports_inbox.cfg`: three accounts that each may send one report an hour into an inbox of two, two
  at once, four reports and three half hours, reports kept for an hour and a half, a restart. Three
  accounts of one report each are the least that may fill and overflow the inbox.

`DrownedByMany`: a fresh report is only cut when so many accounts write that their quotas fill the
inbox, or for one stamped before it and stored after it. `MarksWhatWasSeen`: a mark hits the report
that was listed, unless the process was restarted since. `QuotaHolds`: however many requests of an
account passed the first check, the second one keeps its reports of the last hour to the quota.

Proved for any accounts, sizes, ages, quotas and reports sent at once, if reports are kept for an hour
at least (`ReportsOutliveTheQuota`): every property of the run. The invariant adds to the quota that the
inbox is finite and that a page listed since the start has an id already counted, which in the inbox is the
same report's or nobody's (`PageIsOfTheInbox`): ids only grow, so no later report takes it. For
`DrownedByMany`, a fresh report that leaves was cut and not pruned, so the inbox is full of reports with
newer ids; if none of them was stamped before it they are all fresh, each account has at most its
quota of them, and by the pigeonhole principle (`Pigeons`) there are enough accounts.

## 4. What proofs cover and what they do not

TLC checks each property on the instance of its cfg; the theorems hold for every value of the
constants that meets the module's assumptions: disjoint ids, natural bounds, ordered quotas and times
to live, special values that are none of the ordinary ones, finitely many titles (`CloudSave`) and
requests at once (`PlaySessions`).

Every safety property and every action property of a passing run is proved. Left to TLC are:

- `DeadlineIsEnforced` and `SilentEndOffline`: liveness under fairness is beyond the prover.
- The two runs that show what the code does otherwise than it says.

Where `TypeOK` is proved for every value of the constants its run does not check it again, but in
`History` and `Reports`, where it says more than types: that the file being written is not the one being
read; that the inbox is bounded and an id one report's.

## 5. What the code does otherwise than it says

Each is a run that ends in a counterexample and an entry of `findings` in `PROJECT.json`.

- `cloud_booster`: the downgrade goroutine does not look at the status again and deletes the saves
  of a member who is a booster again.
- `presence_ttl`: a console heard of is shown for 90 seconds, the time of a game's report, though
  the file gives it a longer time "because 90 seconds would make friends flicker":
  `consoleIsOnline`, which knows the longer one, is called by a test only.

## 6. Seen while modelling, not checked by a run

Friends and sessions:

- `RemoveFriend` and `BlockUser` leave the favourite star; the views filter it. A favourite request
  in flight during `SoftDeleteByPID` leaves a star on the deleted PID, which the cascade promises not
  to.
- No handler calls `UnblockUser`: a block is for good, and the model has no such action.
- A device closed on the site and let in again may be told by `sessionStatus` that it was closed,
  because its old session is still marked as playing.
- `refreshPlayByPID` refreshes every playing session of the account: while one device reports, a
  stopped device of another kind keeps looking active, and the one that plays may be refused.
- Sessions are said to be pruned and never are.

Accounts:

- A failed write of `accounts.json` leaves an account in memory. If it is used (login, binding) and
  the process restarts, its PID is handed out again while `sessions.json` and
  `nintendo_bindings.json` still name it: the next account owns its consoles, the exception of
  `FreshPidOwnsNothing`. `Create` whose write fails answers an error and keeps the
  address taken in memory.
- `verifyEmail` checks the link against the account of a moment ago and then sets the flag by id: a
  change of address in between leaves the new address verified, though nobody opened a link there.
  `VerifiedWasConfirmed` allows this one race by name.
- `register` asks for bans before it hashes the password: a ban pronounced meanwhile does not stop
  the new account. `changeEmail` looks at no tombstone at all.
- Two requests with one reset link set two passwords if both check it before either writes, though the
  link is called single-use (`email.go`, `main.go`). Nothing revives a link that has set a password while
  the process lives (`SpentLinksStartNothing`); a restart that reads the file of a failed write does.
- A ban that read the address before a change of e-mail may replace the tombstone of a later ban that has
  the new one, which is then free to register: the exception `moved` of `BanKeepsItsMail`.
- A tombstone whose write failed is lost at the next restart, and a crash between `bans.add` and
  the deletion leaves a banned account that logs in: the exceptions of `BannedIsGone`.
- A binding merged by one id may leave a second entry with the other. The derived match of a console
  walks the accounts in map order and tests both ids of each, so a device id may win over a BAAS id of
  another account; `resolveConsole` says the BAAS id comes first.
- `internalProfileSync` writes fields of the shared account without the store's lock.

Saves:

- An account may be over its quota without status, deadline or goroutine, and no sweep finds it: a
  crash before the downgrade ran, an upload that passed its measure before the loss, a deadline lifted
  late. Two overlapping pushes of the bot do the same: the one that had the status lifts the deadline the
  other one's loss has set, or the one that takes it away read before the other gave it and starts no
  downgrade. These are the exceptions of `OverQuotaIsWatched`.
- The errors of `SetBooster` and `SetCloudGrace` are logged or ignored: a restart then reads back a
  status or a deadline that was gone, or loses one.
- The backup of an upload is written with its error ignored, and the save is replaced all the same; a
  deletion, a downgrade or the sweep may remove the backup of an upload between its guard and its rename.
- An account that unlinked Discord cannot delete its saves: the gate covers the deletion too.

Presence:

- `noteConsoleOnline` is called by `internalWhoami` alone, though its comment names the identity and
  pid-by-bsdid routes and the login.
- A batch wipes the joinable room (`app_field`) a member had reported, and the note after
  `internalPresence` overwrites with empty fields the application the console had just sent.
- An entry that is about to expire and says "playing" is not refreshed by a note.

OAuth, history, reports:

- The emulator's exchange answers with a `nex_token`, which carries no scope: what the consent page
  showed limits other applications only.
- A torn `oauth_clients.json` loads as an empty registry, which the next registration then writes.
- Two pushes of one account that overlap lose play time, and a crash in the middle of their shared
  temporary name may lose the whole history, though `mergeHistory` says it never regresses. A nx2
  token pushes a history after its account was banned.
- Report ids are counted from one again after a restart, so a mark from an old page hits another
  report. An account at five reports an hour fills the inbox of 200 in forty hours, well within the
  seven days a report is to be kept.
- A key of the rate limiter that is not asked for again is never removed, though a comment says keys
  are purged. A slow collection of the online counts may overwrite a
  newer one.
- The guest handler returns before its body: the rest of it is dead code.

## 7. Not modelled, and why

- **Rate limiter**: one window per key under one lock; a refused request changes nothing, and every
  model takes any request as let through.
- **NPLN friend views, admin views, Discord relay, online counts**: read-only, or network calls whose
  answer is ignored.
- **Mod favourites, country, profile**: single fields with no relation to other state.
- **Web and game tokens, signing, internal guard, Turnstile, e-mail transport**: stateless
  cryptography and network calls; a lost mail is a link nobody opens.
- **Save decoding, weapons, rotation, game list, BCAT cache, update feed**: byte-level decoding for
  display and static content.
- Of the modelled parts: the guest accounts, names and friend codes with their indexes, tombstones
  by IP, friend code and Discord (they reserve as the address does), the download and listing of
  saves, the 45 days of the sessions the site lists, the text and room of a presence.
