------------------------------ MODULE FriendGraph ------------------------------
(***************************************************************************)
(* The friend graph of the account store (jsonStore in src/main.go, with   *)
(* its deletions in src/delete_account.go and src/admin_api.go and its     *)
(* boot-time freeze in src/admin.go).                                      *)
(*                                                                         *)
(* A graph is everything accounts.json says about who knows whom: one list *)
(* per account of friends, of incoming requests, of favourites and of      *)
(* blocked PIDs.  Every store method runs under jsonStore.mu, changes the  *)
(* accounts in memory and then writes the whole file; when that write      *)
(* fails the method returns an error but the memory keeps the change.  So  *)
(* mem is the graph the process serves, disk the graph the next process    *)
(* starts from, and the two may differ.                                    *)
(*                                                                         *)
(* Lists are sets: the code appends only what is absent and removes every  *)
(* occurrence.  PIDs are handed out by a counter that only grows, so a PID *)
(* is "used" once and never again in the life of one file.                 *)
(***************************************************************************)
EXTENDS Naturals, FiniteSets

CONSTANTS
  Pids,             \* the PIDs that may ever be assigned
  Fans,             \* bound: the accounts whose client uses the favourite route
  MaxInFlight,      \* bound: favourite requests being served at once
  MaxSaveFailures,  \* bound: writes of accounts.json that fail
  MaxRestarts       \* bound: restarts of the process

ASSUME FansArePids == Fans \subseteq Pids
ASSUME BoundsAreNaturals ==
  MaxInFlight \in Nat /\ MaxSaveFailures \in Nat /\ MaxRestarts \in Nat

VARIABLES
  mem,       \* the graph in memory
  disk,      \* the graph in accounts.json
  checked,   \* favourite requests past their check and not yet applied
  failures,  \* failed writes so far
  restarts   \* restarts so far

vars == <<mem, disk, checked, failures, restarts>>

Lists == [Pids -> SUBSET Pids]

Graph == [ live:      SUBSET Pids,  \* accounts present in Accts / byPID
           used:      SUBSET Pids,  \* PIDs below NextP
           deleted:   SUBSET Pids,  \* PIDs with a DeletedRecord
           disabled:  SUBSET Pids,
           kept:      SUBSET Pids,  \* history: accounts a lockdown has kept
           friends:   Lists,
           requests:  Lists,        \* incoming, pending
           favorites: Lists,
           blocked:   Lists ]

NoLists == [p \in Pids |-> {}]

EmptyGraph == [ live |-> {}, used |-> {}, deleted |-> {}, disabled |-> {},
                kept |-> {}, friends |-> NoLists, requests |-> NoLists,
                favorites |-> NoLists, blocked |-> NoLists ]

FavoriteRequest == Fans \X Pids \X BOOLEAN

Init ==
  /\ mem = EmptyGraph
  /\ disk = EmptyGraph
  /\ checked = {}
  /\ failures = 0
  /\ restarts = 0

-----------------------------------------------------------------------------
(* The list helpers of main.go and what the two-sided calls do to a graph. *)

Add(lists, a, p) == [lists EXCEPT ![a] = @ \cup {p}]
Drop(lists, a, p) == [lists EXCEPT ![a] = @ \ {p}]
Clear(lists, a) == [lists EXCEPT ![a] = {}]
Without(lists, p) == [a \in Pids |-> lists[a] \ {p}]

(* Mutants: each is a later definition of the same name with one slip.     *)
Unfriend_ownSideOnly(g, a, b) == [g EXCEPT !.friends = Drop(@, a, b)]

Block_ownSideOnly(g, a, b) ==
  [g EXCEPT !.friends  = Drop(@, a, b),
            !.requests = Drop(@, a, b),
            !.blocked  = Add(@, a, b)]

Erase_keepsRequests(g, p) ==
  [g EXCEPT !.deleted = @ \cup {p}, !.friends = Without(@, p)]

Befriend(g, a, b) ==
  [g EXCEPT !.requests = Drop(@, a, b),
            !.friends  = Add(Add(@, a, b), b, a)]

AddRequest(g, to, from) == [g EXCEPT !.requests = Add(@, to, from)]

DropRequest(g, a, from) == [g EXCEPT !.requests = Drop(@, a, from)]

(* Take b out of a's list and, when b's account still exists, a out of     *)
(* b's: a deleted account has no list to clean.                            *)
Sever(lists, live, a, b) ==
  IF b \in live THEN Drop(Drop(lists, a, b), b, a) ELSE Drop(lists, a, b)

Unfriend(g, a, b) == [g EXCEPT !.friends = Sever(@, g.live, a, b)]

Block(g, a, b) ==
  [g EXCEPT !.friends  = Sever(@, g.live, a, b),
            !.requests = Sever(@, g.live, a, b),
            !.blocked  = Add(@, a, b)]

Favorite(g, a, b, fav) ==
  [g EXCEPT !.favorites = IF fav THEN Add(@, a, b) ELSE Drop(@, a, b)]

Register(g, p) == [g EXCEPT !.live = @ \cup {p}, !.used = @ \cup {p}]

(* A store method ends in persist(): the memory has the new graph whatever *)
(* happens, the file only when the write succeeds.                         *)
Commit(g) ==
  /\ mem' = g
  /\ \/ disk' = g /\ UNCHANGED failures
     \/ /\ failures < MaxSaveFailures
        /\ failures' = failures + 1
        /\ UNCHANGED disk

-----------------------------------------------------------------------------
(* Store methods.  "Enabled" is what accountFromBearer requires of the web *)
(* routes; the internal ones, which relay a console's friend requests and  *)
(* answers, do not look at Disabled: a live account is enough for them.    *)

Enabled(a) == a \in mem.live \ mem.disabled

(* Mutants of the actions.                                                 *)
Create_reusesPid(p) ==
  /\ p \notin mem.live
  /\ Commit(Register(mem, p))
  /\ UNCHANGED <<checked, restarts>>

SendFriendRequest_neverAccepts(a, b) ==
  /\ a \in mem.live /\ b \in mem.live
  /\ a # b
  /\ a \notin mem.blocked[b] /\ b \notin mem.blocked[a]
  /\ b \notin mem.friends[a]
  /\ Commit(AddRequest(mem, b, a))
  /\ UNCHANGED <<checked, restarts>>

AcceptFriendRequest_unasked(a, from) ==
  /\ a \in mem.live
  /\ from \in mem.live
  /\ Commit(Befriend(mem, a, from))
  /\ UNCHANGED <<checked, restarts>>

Create(p) ==
  /\ p \notin mem.used
  /\ Commit(Register(mem, p))
  /\ UNCHANGED <<checked, restarts>>

SendFriendRequest(a, b) ==
  /\ a \in mem.live /\ b \in mem.live
  /\ a # b
  /\ a \notin mem.blocked[b] /\ b \notin mem.blocked[a]
  /\ b \notin mem.friends[a]
  /\ \/ b \in mem.requests[a] /\ Commit(Befriend(mem, a, b))
     \/ b \notin mem.requests[a] /\ Commit(AddRequest(mem, b, a))
  /\ UNCHANGED <<checked, restarts>>

AcceptFriendRequest(a, from) ==
  /\ a \in mem.live
  /\ from \in mem.requests[a]
  /\ \/ from \in mem.live /\ Commit(Befriend(mem, a, from))
     \/ from \notin mem.live /\ Commit(DropRequest(mem, a, from))
  /\ UNCHANGED <<checked, restarts>>

DeclineFriendRequest(a, from) ==
  /\ a \in mem.live
  /\ Commit(DropRequest(mem, a, from))
  /\ UNCHANGED <<checked, restarts>>

(* The routes of these three: the web's, then the console's.               *)
Friends(a, b) == Enabled(a) /\ SendFriendRequest(a, b)
FriendAccept(a, from) == Enabled(a) /\ AcceptFriendRequest(a, from)
FriendDecline(a, from) == Enabled(a) /\ DeclineFriendRequest(a, from)

InternalFriendRequest(a, b) == SendFriendRequest(a, b)
InternalFriendAccept(a, from) == AcceptFriendRequest(a, from) \/ DeclineFriendRequest(a, from)

RemoveFriend(a, b) ==
  /\ Enabled(a)
  /\ Commit(Unfriend(mem, a, b))
  /\ UNCHANGED <<checked, restarts>>

(* The target need not exist: any number is accepted and remembered.       *)
BlockUser(a, b) ==
  /\ Enabled(a)
  /\ a # b
  /\ Commit(Block(mem, a, b))
  /\ UNCHANGED <<checked, restarts>>

(* The friendFavorite handler looks at the friend list without the lock    *)
(* (FavoriteCheck); SetFavorite takes the lock later (SetFavorite), on the *)
(* word of that check.                                                     *)
FavoriteCheck(a, b, fav) ==
  /\ Cardinality(checked) < MaxInFlight
  /\ Enabled(a)
  /\ b \in mem.friends[a]
  /\ checked' = checked \cup {<<a, b, fav>>}
  /\ UNCHANGED <<mem, disk, failures, restarts>>

SetFavorite(a, b, fav) ==
  /\ <<a, b, fav>> \in checked
  /\ checked' = checked \ {<<a, b, fav>>}
  /\ \/ /\ a \in mem.live
        /\ Commit(Favorite(mem, a, b, fav))
     \/ a \notin mem.live /\ UNCHANGED <<mem, disk, failures>>
  /\ UNCHANGED restarts

(* The account and its own lists go; other accounts keep naming it.        *)
Forget(g, p) ==
  [g EXCEPT !.live      = @ \ {p},
            !.disabled  = @ \ {p},
            !.friends   = Clear(@, p),
            !.requests  = Clear(@, p),
            !.favorites = Clear(@, p),
            !.blocked   = Clear(@, p)]

(* The administrator's deletion and the last step of a ban.                *)
DeleteByPID(p) ==
  /\ p \in mem.live
  /\ Commit(Forget(mem, p))
  /\ UNCHANGED <<checked, restarts>>

Erase(g, p) ==
  [g EXCEPT !.deleted   = @ \cup {p},
            !.friends   = Without(@, p),
            !.requests  = Without(@, p),
            !.favorites = Without(@, p),
            !.blocked   = Without(@, p)]

(* The member's own deletion: pulled out of every other list, and traced.  *)
SoftDeleteByPID(p) ==
  /\ Enabled(p)
  /\ Commit(Erase(Forget(mem, p), p))
  /\ UNCHANGED <<checked, restarts>>

-----------------------------------------------------------------------------
(* A crash or an orderly stop loses the memory and the requests in flight. *)
(* The next process loads the file and applies the freeze its environment  *)
(* asks for, before it serves anything.                                    *)

LockdownExcept(g, keep) ==
  [g EXCEPT !.disabled = g.live \ {keep},
            !.kept     = @ \cup ({keep} \cap g.live),
            !.friends  = Clear(@, keep),
            !.requests = Clear(@, keep),
            !.blocked  = Clear(@, keep)]

EnableAll(g) == [g EXCEPT !.disabled = {}]

Restart ==
  /\ restarts < MaxRestarts
  /\ restarts' = restarts + 1
  /\ checked' = {}
  /\ \E frozen \in {disk} \cup {LockdownExcept(disk, keep) : keep \in Pids} :
       \E ready \in {frozen, EnableAll(frozen)} :
         /\ mem' = ready
         /\ \/ disk' = ready /\ UNCHANGED failures
            \/ /\ failures < MaxSaveFailures
               /\ failures' = failures + 1
               /\ disk' \in {disk, frozen}

Next ==
  \/ \E p \in Pids : Create(p) \/ DeleteByPID(p) \/ SoftDeleteByPID(p)
  \/ \E a, b \in Pids :
       \/ Friends(a, b) \/ FriendAccept(a, b) \/ FriendDecline(a, b)
       \/ InternalFriendRequest(a, b) \/ InternalFriendAccept(a, b)
       \/ RemoveFriend(a, b)
       \/ BlockUser(a, b)
  \/ \E a \in Fans, b \in Pids, fav \in BOOLEAN :
       FavoriteCheck(a, b, fav) \/ SetFavorite(a, b, fav)
  \/ Restart

Spec == Init /\ [][Next]_vars

-----------------------------------------------------------------------------
(* Properties.  Both graphs are held to them: what is on disk is what the  *)
(* next process will serve.                                                *)

(* An account that is gone has no list of its own, and a graph only names  *)
(* PIDs that were handed out (except as blocked: BlockUser never checks).  *)
WellFormed(g) ==
  /\ g.live \subseteq g.used
  /\ g.disabled \subseteq g.live
  /\ g.kept \subseteq g.used
  /\ \A p \in g.deleted : p \in g.used /\ p \notin g.live
  /\ \A a, p \in Pids :
       /\ \/ p \in g.friends[a]
          \/ p \in g.requests[a]
          \/ p \in g.favorites[a]
          => a \in g.live /\ p \in g.used
       /\ p \in g.blocked[a] => a \in g.live

(* Type invariant: both graphs are well-formed, and a request in flight    *)
(* names PIDs that were handed out.                                        *)
TypeOK ==
  /\ mem \in Graph /\ WellFormed(mem)
  /\ disk \in Graph /\ WellFormed(disk)
  /\ checked \subseteq FavoriteRequest
  /\ \A r \in checked : r[2] \in mem.used
  /\ failures \in Nat /\ restarts \in Nat

Separated(g) ==
  \A a, b \in Pids : b \in g.blocked[a] =>
    /\ b \notin g.friends[a]  /\ a \notin g.friends[b]
    /\ b \notin g.requests[a] /\ a \notin g.requests[b]

(* "PIDs this account blocked (no requests/friendship)": whatever order    *)
(* requests, answers, blocks, deletions, failed writes, restarts and       *)
(* freezes come in, a block leaves neither a friendship nor a pending      *)
(* request between the two, in either direction.                           *)
BlockSeparates == Separated(mem) /\ Separated(disk)

(* friendList: who is shown as a friend.                                   *)
FriendList(g, a) == {b \in Pids : b \in g.friends[a] /\ b \in g.live}

Mutual(g) ==
  \A a, b \in Pids : b \in FriendList(g, a) => a \in g.friends[b] \/ b \in g.kept

(* Who is shown as a friend has the other as a friend too, the accounts    *)
(* kept by a lockdown apart: LockdownExcept clears their list only.        *)
FriendsMutualUnlessKept == Mutual(mem) /\ Mutual(disk)

(* The outbox is derived from the others' lists.                           *)
SentRequestPIDs(g, a) == {b \in Pids : a \in g.requests[b]}

Uncrossed(g) == \A a, b \in Pids : ~(b \in SentRequestPIDs(g, a) /\ b \in g.requests[a])

Strangers(g) ==
  \A a, b \in Pids : b \in g.requests[a] => b \notin g.friends[a] \/ b \in g.kept

(* A pending request waits for an answer that changes something.  Two      *)
(* accounts never wait for each other: SendFriendRequest turns the second  *)
(* of two crossing requests into an acceptance, so that nobody is in the   *)
(* inbox and the outbox of an account (nor the account itself).  And no    *)
(* friend waits (kept accounts apart): Befriend drops the request it       *)
(* answers and none is queued between friends.                             *)
RequestsAreOpen ==
  /\ Uncrossed(mem) /\ Strangers(mem)
  /\ Uncrossed(disk) /\ Strangers(disk)

Erased(g) ==
  \A p \in g.deleted, a \in Pids : p \notin g.friends[a] /\ p \notin g.requests[a]

(* "so nobody keeps a dangling friend": once a member has deleted their    *)
(* account, no list of friends or requests names them, ever again.         *)
DeletedIsForgotten == Erased(mem) /\ Erased(disk)

NewFriendsAsked ==
  \A a, b \in Pids :
    /\ restarts' = restarts
    /\ b \in mem'.friends[a] /\ b \notin mem.friends[a]
    => b \in mem.requests[a] \/ a \in mem.requests[b]

(* A friendship appears only from a request one of the two had sent and    *)
(* the other had not yet answered (a restart only brings back old ones).   *)
FriendshipNeedsRequest == [][NewFriendsAsked]_vars

NewcomersAreUnknown ==
  \A p, a \in Pids :
    /\ restarts' = restarts
    /\ p \in mem'.live /\ p \notin mem.live
    => /\ p \notin mem'.friends[a]
       /\ p \notin mem'.requests[a]
       /\ p \notin mem'.favorites[a]

(* A new account starts with no past: nobody's friends, requests or        *)
(* favourites already hold its PID, because a PID is never handed out      *)
(* twice, though DeleteByPID leaves the old ones dangling in other lists.  *)
NewAccountHasNoPast == [][NewcomersAreUnknown]_vars

=============================================================================
