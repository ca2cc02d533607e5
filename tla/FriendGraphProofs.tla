--------------------------- MODULE FriendGraphProofs ---------------------------
EXTENDS FriendGraph, TLAPS

GraphInv(g) ==
  /\ g \in Graph
  /\ WellFormed(g)
  /\ Separated(g)
  /\ Mutual(g)
  /\ Uncrossed(g)
  /\ Strangers(g)
  /\ Erased(g)

LEMMA EmptyGraphInv == GraphInv(EmptyGraph)
  BY DEF GraphInv, EmptyGraph, NoLists, Graph, Lists, WellFormed, Separated,
         Mutual, Uncrossed, Strangers, Erased,
     FriendList, SentRequestPIDs

(* A registration: the new PID was never used, so no list names it.         *)
LEMMA RegisterInv ==
  ASSUME NEW g, GraphInv(g),
         NEW p \in Pids, p \notin g.used
  PROVE  GraphInv(Register(g, p))
<1> DEFINE h == Register(g, p)
<1>1. /\ g \in Graph /\ p \in Pids
      /\ WellFormed(g) /\ Separated(g) /\ Mutual(g)
      /\ Uncrossed(g) /\ Strangers(g) /\ Erased(g)
  BY DEF GraphInv, Graph
<1>2. h \in Graph
  BY <1>1 DEF Graph, Lists, Register
<1>3. /\ h.deleted = g.deleted /\ h.disabled = g.disabled /\ h.kept = g.kept
      /\ h.friends = g.friends /\ h.requests = g.requests /\ h.favorites = g.favorites
      /\ h.blocked = g.blocked
  BY <1>1 DEF Graph, Register
<1>4. h.live = g.live \cup {p}
  BY <1>1 DEF Graph, Register
<1>5. h.used = g.used \cup {p}
  BY <1>1 DEF Graph, Register
<1> HIDE DEF h
<1>6. WellFormed(h)
  BY <1>1, <1>3, <1>4, <1>5 DEF Graph, WellFormed
<1>7. Separated(h)
  BY <1>1, <1>3, <1>4, <1>5 DEF Separated
<1>8. Mutual(h)
  BY <1>1, <1>3, <1>4, <1>5 DEF Mutual, WellFormed,
     FriendList
<1>9. Uncrossed(h)
  BY <1>1, <1>3, <1>4, <1>5 DEF Uncrossed,
     SentRequestPIDs
<1>10. Strangers(h)
  BY <1>1, <1>3, <1>4, <1>5 DEF Strangers, Uncrossed, Mutual, WellFormed,
     FriendList, SentRequestPIDs
<1>11. Erased(h)
  BY <1>1, <1>3, <1>4, <1>5 DEF Graph, Erased, WellFormed
<1> QED
  BY <1>2, <1>6, <1>7, <1>8, <1>9, <1>10, <1>11 DEF GraphInv, h

(* The two sides of an accepted request.                                    *)
LEMMA BefriendInv ==
  ASSUME NEW g, GraphInv(g),
         NEW a \in g.live, NEW b \in g.live, a # b,
         b \in g.requests[a]
  PROVE  GraphInv(Befriend(g, a, b))
<1> DEFINE h == Befriend(g, a, b)
<1>1. /\ g \in Graph /\ a \in Pids /\ b \in Pids
      /\ WellFormed(g) /\ Separated(g) /\ Mutual(g)
      /\ Uncrossed(g) /\ Strangers(g) /\ Erased(g)
  BY DEF GraphInv, Graph
<1>2. h \in Graph
  BY <1>1 DEF Graph, Lists, Befriend, Add, Drop
<1>3. /\ h.live = g.live /\ h.used = g.used /\ h.deleted = g.deleted
      /\ h.disabled = g.disabled /\ h.kept = g.kept /\ h.favorites = g.favorites
      /\ h.blocked = g.blocked
  BY <1>1 DEF Graph, Befriend, Add, Drop
<1>4. \A x, y \in Pids : y \in h.friends[x] <=> (y \in g.friends[x] \/ (x = a /\ y = b) \/ (x = b /\ y = a))
  BY <1>1 DEF Graph, Lists, Befriend, Add
<1>5. \A x, y \in Pids : y \in h.requests[x] <=> y \in g.requests[x] /\ ~(x = a /\ y = b)
  BY <1>1 DEF Graph, Lists, Befriend, Drop
<1> HIDE DEF h
<1>6. WellFormed(h)
  BY <1>1, <1>3, <1>4, <1>5 DEF Graph, WellFormed
<1>7. Separated(h)
  BY <1>1, <1>3, <1>4, <1>5 DEF Separated
<1>8. Mutual(h)
  BY <1>1, <1>3, <1>4, <1>5 DEF Mutual,
     FriendList
<1>9. Uncrossed(h)
  BY <1>1, <1>3, <1>4, <1>5 DEF Uncrossed,
     SentRequestPIDs
<1>10. Strangers(h)
  BY <1>1, <1>3, <1>4, <1>5 DEF Strangers, Uncrossed, Mutual, WellFormed,
     FriendList, SentRequestPIDs
<1>11. Erased(h)
  BY <1>1, <1>3, <1>4, <1>5 DEF Graph, Erased, WellFormed
<1> QED
  BY <1>2, <1>6, <1>7, <1>8, <1>9, <1>10, <1>11 DEF GraphInv, h

(* A request between live accounts that are neither blocked, nor friends on *)
(* the sender's side, nor already asked by the other one.                   *)
LEMMA AddRequestInv ==
  ASSUME NEW g, GraphInv(g),
         NEW a \in g.live, NEW b \in g.live, a # b,
         a \notin g.blocked[b], b \notin g.blocked[a],
         b \notin g.friends[a], b \notin g.requests[a]
  PROVE  GraphInv(AddRequest(g, b, a))
<1> DEFINE h == AddRequest(g, b, a)
<1>1. /\ g \in Graph /\ a \in Pids /\ b \in Pids
      /\ WellFormed(g) /\ Separated(g) /\ Mutual(g)
      /\ Uncrossed(g) /\ Strangers(g) /\ Erased(g)
  BY DEF GraphInv, Graph
<1>2. h \in Graph
  BY <1>1 DEF Graph, Lists, AddRequest, Add
<1>3. /\ h.live = g.live /\ h.used = g.used /\ h.deleted = g.deleted
      /\ h.disabled = g.disabled /\ h.kept = g.kept /\ h.friends = g.friends
      /\ h.favorites = g.favorites /\ h.blocked = g.blocked
  BY <1>1 DEF Graph, AddRequest, Add
<1>4. \A x, y \in Pids : y \in h.requests[x] <=> y \in g.requests[x] \/ (x = b /\ y = a)
  BY <1>1 DEF Graph, Lists, AddRequest, Add
<1> HIDE DEF h
<1>5. WellFormed(h)
  BY <1>1, <1>3, <1>4 DEF Graph, WellFormed
<1>6. Separated(h)
  BY <1>1, <1>3, <1>4 DEF Separated
<1>7. Mutual(h)
  BY <1>1, <1>3, <1>4 DEF Mutual, WellFormed,
     FriendList
<1>8. Uncrossed(h)
  BY <1>1, <1>3, <1>4 DEF Uncrossed,
     SentRequestPIDs
<1>9. Strangers(h)
  BY <1>1, <1>3, <1>4 DEF Strangers, Uncrossed, Mutual, WellFormed,
     FriendList, SentRequestPIDs
<1>10. Erased(h)
  BY <1>1, <1>3, <1>4 DEF Graph, Erased, WellFormed
<1> QED
  BY <1>2, <1>5, <1>6, <1>7, <1>8, <1>9, <1>10 DEF GraphInv, h

(* An answer that only removes the request.                                 *)
LEMMA DropRequestInv ==
  ASSUME NEW g, GraphInv(g),
         NEW a \in Pids, NEW b \in Pids
  PROVE  GraphInv(DropRequest(g, a, b))
<1> DEFINE h == DropRequest(g, a, b)
<1>1. /\ g \in Graph /\ a \in Pids /\ b \in Pids
      /\ WellFormed(g) /\ Separated(g) /\ Mutual(g)
      /\ Uncrossed(g) /\ Strangers(g) /\ Erased(g)
  BY DEF GraphInv, Graph
<1>2. h \in Graph
  BY <1>1 DEF Graph, Lists, DropRequest, Drop
<1>3. /\ h.live = g.live /\ h.used = g.used /\ h.deleted = g.deleted
      /\ h.disabled = g.disabled /\ h.kept = g.kept /\ h.friends = g.friends
      /\ h.favorites = g.favorites /\ h.blocked = g.blocked
  BY <1>1 DEF Graph, DropRequest, Drop
<1>4. \A x, y \in Pids : y \in h.requests[x] <=> y \in g.requests[x] /\ ~(x = a /\ y = b)
  BY <1>1 DEF Graph, Lists, DropRequest, Drop
<1> HIDE DEF h
<1>5. WellFormed(h)
  BY <1>1, <1>3, <1>4 DEF Graph, WellFormed
<1>6. Separated(h)
  BY <1>1, <1>3, <1>4 DEF Separated
<1>7. Mutual(h)
  BY <1>1, <1>3, <1>4 DEF Mutual, WellFormed,
     FriendList
<1>8. Uncrossed(h)
  BY <1>1, <1>3, <1>4 DEF Uncrossed,
     SentRequestPIDs
<1>9. Strangers(h)
  BY <1>1, <1>3, <1>4 DEF Strangers, Uncrossed, Mutual, WellFormed,
     FriendList, SentRequestPIDs
<1>10. Erased(h)
  BY <1>1, <1>3, <1>4 DEF Graph, Erased, WellFormed
<1> QED
  BY <1>2, <1>5, <1>6, <1>7, <1>8, <1>9, <1>10 DEF GraphInv, h

(* The end of a friendship, on both sides when both accounts exist.         *)
LEMMA UnfriendInv ==
  ASSUME NEW g, GraphInv(g),
         NEW a \in Pids, NEW b \in Pids
  PROVE  GraphInv(Unfriend(g, a, b))
<1> DEFINE h == Unfriend(g, a, b)
<1>1. /\ g \in Graph /\ a \in Pids /\ b \in Pids
      /\ WellFormed(g) /\ Separated(g) /\ Mutual(g)
      /\ Uncrossed(g) /\ Strangers(g) /\ Erased(g)
  BY DEF GraphInv, Graph
<1>2. h \in Graph
  BY <1>1 DEF Graph, Lists, Unfriend, Sever, Drop
<1>3. /\ h.live = g.live /\ h.used = g.used /\ h.deleted = g.deleted
      /\ h.disabled = g.disabled /\ h.kept = g.kept /\ h.requests = g.requests
      /\ h.favorites = g.favorites /\ h.blocked = g.blocked
  BY <1>1 DEF Graph, Unfriend, Sever, Drop
<1>4. \A x, y \in Pids : y \in h.friends[x] <=> y \in g.friends[x] /\ ~(x = a /\ y = b)
               /\ ~(b \in g.live /\ x = b /\ y = a)
  BY <1>1 DEF Graph, Lists, Unfriend, Sever, Drop
<1> HIDE DEF h
<1>5. WellFormed(h)
  BY <1>1, <1>3, <1>4 DEF Graph, WellFormed
<1>6. Separated(h)
  BY <1>1, <1>3, <1>4 DEF Separated
<1>7. Mutual(h)
  BY <1>1, <1>3, <1>4 DEF Mutual, WellFormed,
     FriendList
<1>8. Uncrossed(h)
  BY <1>1, <1>3, <1>4 DEF Uncrossed,
     SentRequestPIDs
<1>9. Strangers(h)
  BY <1>1, <1>3, <1>4 DEF Strangers, Uncrossed, Mutual, WellFormed,
     FriendList, SentRequestPIDs
<1>10. Erased(h)
  BY <1>1, <1>3, <1>4 DEF Graph, Erased, WellFormed
<1> QED
  BY <1>2, <1>5, <1>6, <1>7, <1>8, <1>9, <1>10 DEF GraphInv, h

(* A block severs what BlockSeparates forbids before it records itself.     *)
LEMMA BlockInv ==
  ASSUME NEW g, GraphInv(g),
         NEW a \in g.live, NEW b \in Pids, a # b
  PROVE  GraphInv(Block(g, a, b))
<1> DEFINE h == Block(g, a, b)
<1>1. /\ g \in Graph /\ a \in Pids /\ b \in Pids
      /\ WellFormed(g) /\ Separated(g) /\ Mutual(g)
      /\ Uncrossed(g) /\ Strangers(g) /\ Erased(g)
  BY DEF GraphInv, Graph
<1>2. h \in Graph
  BY <1>1 DEF Graph, Lists, Block, Sever, Add, Drop
<1>3. /\ h.live = g.live /\ h.used = g.used /\ h.deleted = g.deleted
      /\ h.disabled = g.disabled /\ h.kept = g.kept /\ h.favorites = g.favorites
  BY <1>1 DEF Graph, Block, Sever, Add, Drop
<1>4. \A x, y \in Pids : y \in h.friends[x] <=> y \in g.friends[x] /\ ~(x = a /\ y = b)
               /\ ~(b \in g.live /\ x = b /\ y = a)
  BY <1>1 DEF Graph, Lists, Block, Sever, Add, Drop
<1>5. \A x, y \in Pids : y \in h.requests[x] <=> y \in g.requests[x] /\ ~(x = a /\ y = b)
               /\ ~(b \in g.live /\ x = b /\ y = a)
  BY <1>1 DEF Graph, Lists, Block, Sever, Add, Drop
<1>6. \A x, y \in Pids : y \in h.blocked[x] <=> y \in g.blocked[x] \/ (x = a /\ y = b)
  BY <1>1 DEF Graph, Lists, Block, Sever, Add, Drop
<1> HIDE DEF h
<1>7. WellFormed(h)
  BY <1>1, <1>3, <1>4, <1>5, <1>6 DEF Graph, WellFormed
<1>8. Separated(h)
  BY <1>1, <1>3, <1>4, <1>5, <1>6 DEF Separated, WellFormed
<1>9. Mutual(h)
  BY <1>1, <1>3, <1>4, <1>5, <1>6 DEF Mutual, WellFormed,
     FriendList
<1>10. Uncrossed(h)
  BY <1>1, <1>3, <1>4, <1>5, <1>6 DEF Uncrossed,
     SentRequestPIDs
<1>11. Strangers(h)
  BY <1>1, <1>3, <1>4, <1>5, <1>6 DEF Strangers, Uncrossed, Mutual, WellFormed,
     FriendList, SentRequestPIDs
<1>12. Erased(h)
  BY <1>1, <1>3, <1>4, <1>5, <1>6 DEF Graph, Erased, WellFormed
<1> QED
  BY <1>2, <1>7, <1>8, <1>9, <1>10, <1>11, <1>12 DEF GraphInv, h

(* A favourite changes no relation another property speaks of.              *)
LEMMA FavoriteInv ==
  ASSUME NEW g, GraphInv(g),
         NEW a \in g.live, NEW b \in Pids, b \in g.used,
         NEW fav \in BOOLEAN
  PROVE  GraphInv(Favorite(g, a, b, fav))
<1> DEFINE h == Favorite(g, a, b, fav)
<1>1. /\ g \in Graph /\ a \in Pids /\ b \in Pids
      /\ WellFormed(g) /\ Separated(g) /\ Mutual(g)
      /\ Uncrossed(g) /\ Strangers(g) /\ Erased(g)
  BY DEF GraphInv, Graph
<1>2. h \in Graph
  BY <1>1 DEF Graph, Lists, Favorite, Add, Drop
<1>3. /\ h.live = g.live /\ h.used = g.used /\ h.deleted = g.deleted
      /\ h.disabled = g.disabled /\ h.kept = g.kept /\ h.friends = g.friends
      /\ h.requests = g.requests /\ h.blocked = g.blocked
  BY <1>1 DEF Graph, Favorite, Add, Drop
<1>4. \A x, y \in Pids : y \in h.favorites[x] => y \in g.favorites[x] \/ (x = a /\ y = b)
  BY <1>1 DEF Graph, Lists, Favorite, Add, Drop
<1> HIDE DEF h
<1>5. WellFormed(h)
  BY <1>1, <1>3, <1>4 DEF Graph, WellFormed
<1>6. Separated(h)
  BY <1>1, <1>3, <1>4 DEF Separated
<1>7. Mutual(h)
  BY <1>1, <1>3, <1>4 DEF Mutual, WellFormed,
     FriendList
<1>8. Uncrossed(h)
  BY <1>1, <1>3, <1>4 DEF Uncrossed,
     SentRequestPIDs
<1>9. Strangers(h)
  BY <1>1, <1>3, <1>4 DEF Strangers, Uncrossed, Mutual, WellFormed,
     FriendList, SentRequestPIDs
<1>10. Erased(h)
  BY <1>1, <1>3, <1>4 DEF Graph, Erased, WellFormed
<1> QED
  BY <1>2, <1>5, <1>6, <1>7, <1>8, <1>9, <1>10 DEF GraphInv, h

(* A hard deletion: the PID stays used, so nobody inherits the dangling     *)
(* references to it.                                                        *)
LEMMA ForgetInv ==
  ASSUME NEW g, GraphInv(g),
         NEW p \in Pids
  PROVE  GraphInv(Forget(g, p))
<1> DEFINE h == Forget(g, p)
<1>1. /\ g \in Graph /\ p \in Pids
      /\ WellFormed(g) /\ Separated(g) /\ Mutual(g)
      /\ Uncrossed(g) /\ Strangers(g) /\ Erased(g)
  BY DEF GraphInv, Graph
<1>2. h \in Graph
  BY <1>1 DEF Graph, Lists, Forget, Clear
<1>3. /\ h.used = g.used /\ h.deleted = g.deleted /\ h.kept = g.kept
  BY <1>1 DEF Graph, Forget, Clear
<1>4. h.live = g.live \ {p}
  BY <1>1 DEF Graph, Forget, Clear
<1>5. h.disabled = g.disabled \ {p}
  BY <1>1 DEF Graph, Forget, Clear
<1>6. \A x, y \in Pids : y \in h.friends[x] <=> y \in g.friends[x] /\ x # p
  BY <1>1 DEF Graph, Lists, Forget, Clear
<1>7. \A x, y \in Pids : y \in h.requests[x] <=> y \in g.requests[x] /\ x # p
  BY <1>1 DEF Graph, Lists, Forget, Clear
<1>8. \A x, y \in Pids : y \in h.favorites[x] <=> y \in g.favorites[x] /\ x # p
  BY <1>1 DEF Graph, Lists, Forget, Clear
<1>9. \A x, y \in Pids : y \in h.blocked[x] <=> y \in g.blocked[x] /\ x # p
  BY <1>1 DEF Graph, Lists, Forget, Clear
<1> HIDE DEF h
<1>10. WellFormed(h)
  BY <1>1, <1>3, <1>4, <1>5, <1>6, <1>7, <1>8, <1>9 DEF Graph, WellFormed
<1>11. Separated(h)
  BY <1>1, <1>3, <1>4, <1>5, <1>6, <1>7, <1>8, <1>9 DEF Separated
<1>12. Mutual(h)
  BY <1>1, <1>3, <1>4, <1>5, <1>6, <1>7, <1>8, <1>9 DEF Mutual, WellFormed,
     FriendList
<1>13. Uncrossed(h)
  BY <1>1, <1>3, <1>4, <1>5, <1>6, <1>7, <1>8, <1>9 DEF Uncrossed,
     SentRequestPIDs
<1>14. Strangers(h)
  BY <1>1, <1>3, <1>4, <1>5, <1>6, <1>7, <1>8, <1>9 DEF Strangers, Uncrossed, Mutual, WellFormed,
     FriendList, SentRequestPIDs
<1>15. Erased(h)
  BY <1>1, <1>3, <1>4, <1>5, <1>6, <1>7, <1>8, <1>9 DEF Graph, Erased, WellFormed
<1> QED
  BY <1>2, <1>10, <1>11, <1>12, <1>13, <1>14, <1>15 DEF GraphInv, h

(* The extra step of a member's own deletion: out of every list, and traced. *)
LEMMA EraseInv ==
  ASSUME NEW g, GraphInv(g),
         NEW p \in g.used, p \notin g.live
  PROVE  GraphInv(Erase(g, p))
<1> DEFINE h == Erase(g, p)
<1>1. /\ g \in Graph /\ p \in Pids
      /\ WellFormed(g) /\ Separated(g) /\ Mutual(g)
      /\ Uncrossed(g) /\ Strangers(g) /\ Erased(g)
  BY DEF GraphInv, Graph
<1>2. h \in Graph
  BY <1>1 DEF Graph, Lists, Erase, Without
<1>3. /\ h.live = g.live /\ h.used = g.used /\ h.disabled = g.disabled
      /\ h.kept = g.kept
  BY <1>1 DEF Graph, Erase, Without
<1>4. h.deleted = g.deleted \cup {p}
  BY <1>1 DEF Graph, Erase, Without
<1>5. \A x, y \in Pids : y \in h.friends[x] <=> y \in g.friends[x] /\ y # p
  BY <1>1 DEF Graph, Lists, Erase, Without
<1>6. \A x, y \in Pids : y \in h.requests[x] <=> y \in g.requests[x] /\ y # p
  BY <1>1 DEF Graph, Lists, Erase, Without
<1>7. \A x, y \in Pids : y \in h.favorites[x] <=> y \in g.favorites[x] /\ y # p
  BY <1>1 DEF Graph, Lists, Erase, Without
<1>8. \A x, y \in Pids : y \in h.blocked[x] <=> y \in g.blocked[x] /\ y # p
  BY <1>1 DEF Graph, Lists, Erase, Without
<1> HIDE DEF h
<1>9. WellFormed(h)
  BY <1>1, <1>3, <1>4, <1>5, <1>6, <1>7, <1>8 DEF Graph, WellFormed
<1>10. Separated(h)
  BY <1>1, <1>3, <1>4, <1>5, <1>6, <1>7, <1>8 DEF Separated
<1>11. Mutual(h)
  BY <1>1, <1>3, <1>4, <1>5, <1>6, <1>7, <1>8 DEF Mutual, WellFormed,
     FriendList
<1>12. Uncrossed(h)
  BY <1>1, <1>3, <1>4, <1>5, <1>6, <1>7, <1>8 DEF Uncrossed,
     SentRequestPIDs
<1>13. Strangers(h)
  BY <1>1, <1>3, <1>4, <1>5, <1>6, <1>7, <1>8 DEF Strangers, Uncrossed, Mutual, WellFormed,
     FriendList, SentRequestPIDs
<1>14. Erased(h)
  BY <1>1, <1>3, <1>4, <1>5, <1>6, <1>7, <1>8 DEF Graph, Erased, WellFormed
<1> QED
  BY <1>2, <1>9, <1>10, <1>11, <1>12, <1>13, <1>14 DEF GraphInv, h

(* The boot-time freeze: one-sided, which is why p becomes a kept account.  *)
LEMMA LockdownInv ==
  ASSUME NEW g, GraphInv(g),
         NEW p \in Pids
  PROVE  GraphInv(LockdownExcept(g, p))
<1> DEFINE h == LockdownExcept(g, p)
<1>1. /\ g \in Graph /\ p \in Pids
      /\ WellFormed(g) /\ Separated(g) /\ Mutual(g)
      /\ Uncrossed(g) /\ Strangers(g) /\ Erased(g)
  BY DEF GraphInv, Graph
<1>2. h \in Graph
  BY <1>1 DEF Graph, Lists, LockdownExcept, Clear
<1>3. /\ h.live = g.live /\ h.used = g.used /\ h.deleted = g.deleted
      /\ h.favorites = g.favorites
  BY <1>1 DEF Graph, LockdownExcept, Clear
<1>4. h.disabled = g.live \ {p}
  BY <1>1 DEF Graph, LockdownExcept, Clear
<1>5. h.kept = g.kept \cup ({p} \cap g.live)
  BY <1>1 DEF Graph, LockdownExcept, Clear
<1>6. \A x, y \in Pids : y \in h.friends[x] <=> y \in g.friends[x] /\ x # p
  BY <1>1 DEF Graph, Lists, LockdownExcept, Clear
<1>7. \A x, y \in Pids : y \in h.requests[x] <=> y \in g.requests[x] /\ x # p
  BY <1>1 DEF Graph, Lists, LockdownExcept, Clear
<1>8. \A x, y \in Pids : y \in h.blocked[x] <=> y \in g.blocked[x] /\ x # p
  BY <1>1 DEF Graph, Lists, LockdownExcept, Clear
<1> HIDE DEF h
<1>9. WellFormed(h)
  BY <1>1, <1>3, <1>4, <1>5, <1>6, <1>7, <1>8 DEF Graph, WellFormed
<1>10. Separated(h)
  BY <1>1, <1>3, <1>4, <1>5, <1>6, <1>7, <1>8 DEF Separated
<1>11. Mutual(h)
  BY <1>1, <1>3, <1>4, <1>5, <1>6, <1>7, <1>8 DEF Mutual, WellFormed,
     FriendList
<1>12. Uncrossed(h)
  BY <1>1, <1>3, <1>4, <1>5, <1>6, <1>7, <1>8 DEF Uncrossed,
     SentRequestPIDs
<1>13. Strangers(h)
  BY <1>1, <1>3, <1>4, <1>5, <1>6, <1>7, <1>8 DEF Strangers, Uncrossed, Mutual, WellFormed,
     FriendList, SentRequestPIDs
<1>14. Erased(h)
  BY <1>1, <1>3, <1>4, <1>5, <1>6, <1>7, <1>8 DEF Graph, Erased, WellFormed
<1> QED
  BY <1>2, <1>9, <1>10, <1>11, <1>12, <1>13, <1>14 DEF GraphInv, h

(* The end of the freeze.                                                   *)
LEMMA EnableAllInv ==
  ASSUME NEW g, GraphInv(g),
         TRUE
  PROVE  GraphInv(EnableAll(g))
<1> DEFINE h == EnableAll(g)
<1>1. /\ g \in Graph
      /\ WellFormed(g) /\ Separated(g) /\ Mutual(g)
      /\ Uncrossed(g) /\ Strangers(g) /\ Erased(g)
  BY DEF GraphInv, Graph
<1>2. h \in Graph
  BY <1>1 DEF Graph, Lists, EnableAll
<1>3. /\ h.live = g.live /\ h.used = g.used /\ h.deleted = g.deleted
      /\ h.kept = g.kept /\ h.friends = g.friends /\ h.requests = g.requests
      /\ h.favorites = g.favorites /\ h.blocked = g.blocked
  BY <1>1 DEF Graph, EnableAll
<1>4. h.disabled = {}
  BY <1>1 DEF Graph, EnableAll
<1> HIDE DEF h
<1>5. WellFormed(h)
  BY <1>1, <1>3, <1>4 DEF Graph, WellFormed
<1>6. Separated(h)
  BY <1>1, <1>3, <1>4 DEF Separated
<1>7. Mutual(h)
  BY <1>1, <1>3, <1>4 DEF Mutual, WellFormed,
     FriendList
<1>8. Uncrossed(h)
  BY <1>1, <1>3, <1>4 DEF Uncrossed,
     SentRequestPIDs
<1>9. Strangers(h)
  BY <1>1, <1>3, <1>4 DEF Strangers, Uncrossed, Mutual, WellFormed,
     FriendList, SentRequestPIDs
<1>10. Erased(h)
  BY <1>1, <1>3, <1>4 DEF Graph, Erased, WellFormed
<1> QED
  BY <1>2, <1>5, <1>6, <1>7, <1>8, <1>9, <1>10 DEF GraphInv, h
-----------------------------------------------------------------------------
(* The inductive invariant: both graphs, and the requests in flight.       *)

IInv ==
  /\ GraphInv(mem)
  /\ GraphInv(disk)
  /\ checked \subseteq FavoriteRequest
  /\ \A r \in checked : r[2] \in mem.used
  /\ failures \in Nat /\ restarts \in Nat

LEMMA CommitInv ==
  ASSUME NEW g, GraphInv(g), mem.used \subseteq g.used,
         IInv, Commit(g), checked' \subseteq checked,
         restarts' = restarts
  PROVE  IInv'
<1>1. mem' = g /\ disk' \in {g, disk} /\ failures' \in Nat
  BY DEF Commit, IInv
<1>2. \A r \in checked' : r[2] \in mem'.used
  BY <1>1 DEF IInv
<1> QED
  BY <1>1, <1>2 DEF IInv

LEMMA InitInv == Init => IInv
  BY EmptyGraphInv DEF Init, IInv, FavoriteRequest

LEMMA RestartInv ==
  ASSUME IInv, Restart
  PROVE  IInv'
<1>1. PICK frozen \in {disk} \cup {LockdownExcept(disk, keep) : keep \in Pids} :
        \E ready \in {frozen, EnableAll(frozen)} :
          /\ mem' = ready
          /\ \/ disk' = ready /\ UNCHANGED failures
             \/ /\ failures < MaxSaveFailures
                /\ failures' = failures + 1
                /\ disk' \in {disk, frozen}
  BY Zenon DEF Restart
<1>2. PICK ready \in {frozen, EnableAll(frozen)} :
          /\ mem' = ready
          /\ \/ disk' = ready /\ UNCHANGED failures
             \/ /\ failures < MaxSaveFailures
                /\ failures' = failures + 1
                /\ disk' \in {disk, frozen}
  BY <1>1
<1>3. GraphInv(disk) /\ restarts' \in Nat /\ checked' = {}
  BY DEF Restart, IInv
<1>4. GraphInv(frozen)
  BY <1>3, LockdownInv
<1>5. GraphInv(ready)
  BY <1>4, EnableAllInv
<1> QED
  BY <1>2, <1>3, <1>4, <1>5 DEF IInv

LEMMA StepInv ==
  ASSUME IInv, [Next]_vars
  PROVE  IInv'
<1>1. /\ mem \in Graph /\ WellFormed(mem) /\ GraphInv(mem)
      /\ mem.live \subseteq Pids /\ mem.used \subseteq Pids
      /\ mem.live \subseteq mem.used
  BY DEF IInv, GraphInv, WellFormed, Graph
<1>2. ASSUME NEW p \in Pids, Create(p)
      PROVE  IInv'
  <2>1. GraphInv(Register(mem, p)) /\ mem.used \subseteq Register(mem, p).used
    BY <1>1, <1>2, RegisterInv DEF Create, Register, Graph
  <2> QED
    BY <2>1, <1>2, CommitInv DEF Create
<1>3. ASSUME NEW p \in Pids, DeleteByPID(p)
      PROVE  IInv'
  <2>1. GraphInv(Forget(mem, p)) /\ mem.used = Forget(mem, p).used
    BY <1>1, ForgetInv DEF Forget, Graph
  <2> QED
    BY <2>1, <1>3, CommitInv DEF DeleteByPID
<1>4. ASSUME NEW p \in Pids, SoftDeleteByPID(p)
      PROVE  IInv'
  <2> DEFINE g == Forget(mem, p)
  <2>1. GraphInv(g) /\ g \in Graph /\ g.used = mem.used /\ p \notin g.live
    BY <1>1, ForgetInv DEF Forget, Graph, GraphInv
  <2>2. p \in g.used
    BY <2>1, <1>1, <1>4 DEF SoftDeleteByPID, Enabled
  <2>3. Commit(Erase(g, p)) /\ checked' = checked /\ restarts' = restarts
    BY <1>4 DEF SoftDeleteByPID
  <2> HIDE DEF g
  <2>4. GraphInv(Erase(g, p)) /\ Erase(g, p).used = g.used
    BY <2>1, <2>2, EraseInv DEF Erase, Graph
  <2> QED
    BY <2>1, <2>3, <2>4, CommitInv
<1>5. ASSUME NEW a \in Pids, NEW b \in Pids, SendFriendRequest(a, b)
      PROVE  IInv'
  <2>1. CASE b \in mem.requests[a]
    <3>1. GraphInv(Befriend(mem, a, b)) /\ mem.used = Befriend(mem, a, b).used
      BY <1>1, <1>5, <2>1, BefriendInv DEF SendFriendRequest, Befriend, Graph
    <3> QED
      BY <3>1, <2>1, <1>5, CommitInv DEF SendFriendRequest
  <2>2. CASE b \notin mem.requests[a]
    <3>1. GraphInv(AddRequest(mem, b, a)) /\ mem.used = AddRequest(mem, b, a).used
      BY <1>1, <1>5, <2>2, AddRequestInv DEF SendFriendRequest, AddRequest, Graph
    <3> QED
      BY <3>1, <2>2, <1>5, CommitInv DEF SendFriendRequest
  <2> QED
    BY <2>1, <2>2
<1>6. ASSUME NEW a \in Pids, NEW b \in Pids, AcceptFriendRequest(a, b)
      PROVE  IInv'
  <2>1. CASE b \in mem.live
    <3>1. a # b
      BY <1>1, <1>6 DEF AcceptFriendRequest, GraphInv, Uncrossed,
     SentRequestPIDs
    <3>2. GraphInv(Befriend(mem, a, b)) /\ mem.used = Befriend(mem, a, b).used
      BY <1>1, <1>6, <2>1, <3>1, BefriendInv DEF AcceptFriendRequest, Befriend, Graph
    <3> QED
      BY <3>2, <2>1, <1>6, CommitInv DEF AcceptFriendRequest
  <2>2. CASE b \notin mem.live
    <3>1. GraphInv(DropRequest(mem, a, b)) /\ mem.used = DropRequest(mem, a, b).used
      BY <1>1, DropRequestInv DEF DropRequest, Graph
    <3> QED
      BY <3>1, <2>2, <1>6, CommitInv DEF AcceptFriendRequest
  <2> QED
    BY <2>1, <2>2
<1>7. ASSUME NEW a \in Pids, NEW b \in Pids, DeclineFriendRequest(a, b)
      PROVE  IInv'
  <2>1. GraphInv(DropRequest(mem, a, b)) /\ mem.used = DropRequest(mem, a, b).used
    BY <1>1, DropRequestInv DEF DropRequest, Graph
  <2> QED
    BY <2>1, <1>7, CommitInv DEF DeclineFriendRequest
<1>8. ASSUME NEW a \in Pids, NEW b \in Pids, RemoveFriend(a, b)
      PROVE  IInv'
  <2>1. GraphInv(Unfriend(mem, a, b)) /\ mem.used = Unfriend(mem, a, b).used
    BY <1>1, UnfriendInv DEF Unfriend, Graph
  <2> QED
    BY <2>1, <1>8, CommitInv DEF RemoveFriend
<1>9. ASSUME NEW a \in Pids, NEW b \in Pids, BlockUser(a, b)
      PROVE  IInv'
  <2>1. GraphInv(Block(mem, a, b)) /\ mem.used = Block(mem, a, b).used
    BY <1>1, <1>9, BlockInv DEF BlockUser, Enabled, Block, Graph
  <2> QED
    BY <2>1, <1>9, CommitInv DEF BlockUser
<1>10. ASSUME NEW a \in Fans, NEW b \in Pids, NEW fav \in BOOLEAN,
              FavoriteCheck(a, b, fav)
       PROVE  IInv'
  <2>1. a \in Pids /\ <<a, b, fav>> \in FavoriteRequest
    BY FansArePids DEF FavoriteRequest
  <2>2. b \in mem.used
    BY <1>1, <1>10, <2>1 DEF FavoriteCheck, WellFormed
  <2>3. /\ mem' = mem /\ disk' = disk /\ failures' = failures /\ restarts' = restarts
        /\ checked' = checked \cup {<<a, b, fav>>}
    BY <1>10 DEF FavoriteCheck
  <2> QED
    BY <2>1, <2>2, <2>3 DEF IInv
<1>11. ASSUME NEW a \in Fans, NEW b \in Pids, NEW fav \in BOOLEAN,
              SetFavorite(a, b, fav)
       PROVE  IInv'
  <2>1. a \in Pids /\ b \in mem.used /\ checked' \subseteq checked /\ restarts' = restarts
    BY <1>11, FansArePids DEF SetFavorite, IInv
  <2>2. CASE a \in mem.live /\ Commit(Favorite(mem, a, b, fav))
    <3>1. GraphInv(Favorite(mem, a, b, fav)) /\ mem.used = Favorite(mem, a, b, fav).used
      BY <1>1, <2>1, <2>2, FavoriteInv DEF Favorite, Graph
    <3> QED
      BY <2>1, <2>2, <3>1, CommitInv
  <2>3. CASE UNCHANGED <<mem, disk, failures>>
    BY <2>1, <2>3 DEF IInv
  <2> QED
    BY <1>11, <2>2, <2>3 DEF SetFavorite
<1>12. CASE UNCHANGED vars
  BY <1>12 DEF vars, IInv
<1> QED
  BY <1>2, <1>3, <1>4, <1>5, <1>6, <1>7, <1>8, <1>9, <1>10, <1>11, <1>12, RestartInv
     DEF Next,
     Friends, FriendAccept, FriendDecline, InternalFriendRequest, InternalFriendAccept

(* IInv holds in every reachable state.                                     *)
THEOREM Invariance == Spec => []IInv
<1>1. IInv /\ [Next]_vars => IInv'
  BY StepInv
<1> QED
  BY InitInv, <1>1, PTL DEF Spec

(* Both graphs, in memory and on disk, are well-formed: TypeOK.             *)
THEOREM TypeCorrect == Spec => []TypeOK
<1>1. IInv => TypeOK
  BY DEF IInv, GraphInv, TypeOK
<1> QED
  BY Invariance, <1>1, PTL

(* BlockUser, SendFriendRequest and their siblings: a block leaves neither  *)
(* a friendship nor a pending request between the two: BlockSeparates.      *)
THEOREM BlocksSeparate == Spec => []BlockSeparates
<1>1. IInv => BlockSeparates
  BY DEF IInv, GraphInv, BlockSeparates
<1> QED
  BY Invariance, <1>1, PTL

(* Befriend, Sever and the deletions keep the lists of the accounts that    *)
(* exist symmetric, the kept account apart: FriendsMutualUnlessKept.        *)
THEOREM FriendsAreMutual == Spec => []FriendsMutualUnlessKept
<1>1. IInv => FriendsMutualUnlessKept
  BY DEF IInv, GraphInv, FriendsMutualUnlessKept
<1> QED
  BY Invariance, <1>1, PTL

(* SendFriendRequest never queues what it should have answered, and an     *)
(* answer takes the request away: RequestsAreOpen.                          *)
THEOREM RequestsStayOpen == Spec => []RequestsAreOpen
<1>1. IInv => RequestsAreOpen
  BY DEF IInv, GraphInv, RequestsAreOpen
<1> QED
  BY Invariance, <1>1, PTL

(* SoftDeleteByPID's cascade is never undone: DeletedIsForgotten.           *)
THEOREM DeletedStayForgotten == Spec => []DeletedIsForgotten
<1>1. IInv => DeletedIsForgotten
  BY DEF IInv, GraphInv, DeletedIsForgotten
<1> QED
  BY Invariance, <1>1, PTL

-----------------------------------------------------------------------------
(* Action properties: one step of a store method, a restart apart.         *)

LEMMA NewFriendsAskedStep ==
  ASSUME IInv, [Next]_vars
  PROVE  NewFriendsAsked
<1> SUFFICES ASSUME NEW a \in Pids, NEW b \in Pids, restarts' = restarts,
                    b \in mem'.friends[a], b \notin mem.friends[a]
             PROVE  b \in mem.requests[a] \/ a \in mem.requests[b]
  BY DEF NewFriendsAsked
<1>1. mem \in Graph /\ restarts \in Nat /\ mem' # mem
  BY DEF IInv, GraphInv
<1>2. ASSUME NEW p \in Pids, Create(p)
      PROVE  FALSE
  BY <1>1, <1>2 DEF Create, Commit, Register, Graph
<1>3. ASSUME NEW p \in Pids, DeleteByPID(p)
      PROVE  FALSE
  BY <1>1, <1>3 DEF DeleteByPID, Commit, Forget, Clear, Graph, Lists
<1>4. ASSUME NEW p \in Pids, SoftDeleteByPID(p)
      PROVE  FALSE
  <2>1. b \notin Forget(mem, p).friends[a] /\ Forget(mem, p) \in Graph
    BY <1>1 DEF Forget, Clear, Graph, Lists
  <2>2. mem' = Erase(Forget(mem, p), p)
    BY <1>4 DEF SoftDeleteByPID, Commit
  <2> QED
    BY <2>1, <2>2 DEF Erase, Without, Graph, Lists
<1>5. ASSUME NEW x \in Pids, NEW y \in Pids, SendFriendRequest(x, y)
      PROVE  b \in mem.requests[a] \/ a \in mem.requests[b]
  <2>1. CASE y \in mem.requests[x] /\ mem' = Befriend(mem, x, y)
    <3>1. (a = x /\ b = y) \/ (a = y /\ b = x)
      BY <1>1, <2>1 DEF Befriend, Add, Graph, Lists
    <3> QED
      BY <2>1, <3>1
  <2>2. CASE mem' = AddRequest(mem, y, x)
    BY <1>1, <2>2 DEF AddRequest, Graph
  <2> QED
    BY <1>5, <2>1, <2>2 DEF SendFriendRequest, Commit
<1>6. ASSUME NEW x \in Pids, NEW y \in Pids, AcceptFriendRequest(x, y)
      PROVE  b \in mem.requests[a] \/ a \in mem.requests[b]
  <2>1. CASE y \in mem.requests[x] /\ mem' = Befriend(mem, x, y)
    <3>1. (a = x /\ b = y) \/ (a = y /\ b = x)
      BY <1>1, <2>1 DEF Befriend, Add, Graph, Lists
    <3> QED
      BY <2>1, <3>1
  <2>2. CASE mem' = DropRequest(mem, x, y)
    BY <1>1, <2>2 DEF DropRequest, Graph
  <2> QED
    BY <1>6, <2>1, <2>2 DEF AcceptFriendRequest, Commit
<1>7. ASSUME NEW x \in Pids, NEW y \in Pids, DeclineFriendRequest(x, y)
      PROVE  FALSE
  BY <1>1, <1>7 DEF DeclineFriendRequest, Commit, DropRequest, Graph
<1>8. ASSUME NEW x \in Pids, NEW y \in Pids, RemoveFriend(x, y)
      PROVE  FALSE
  BY <1>1, <1>8 DEF RemoveFriend, Commit, Unfriend, Sever, Drop, Graph, Lists
<1>9. ASSUME NEW x \in Pids, NEW y \in Pids, BlockUser(x, y)
      PROVE  FALSE
  <2>1. mem'.friends = Sever(mem.friends, mem.live, x, y)
    BY <1>1, <1>9 DEF BlockUser, Commit, Block, Graph
  <2> QED
    BY <1>1, <2>1 DEF Sever, Drop, Graph, Lists
<1>10. ASSUME NEW x \in Fans, NEW y \in Pids, NEW fav \in BOOLEAN,
              FavoriteCheck(x, y, fav) \/ SetFavorite(x, y, fav)
       PROVE  FALSE
  BY <1>1, <1>10 DEF FavoriteCheck, SetFavorite, Commit, Favorite, Graph
<1>11. CASE Restart
  BY <1>1, <1>11 DEF Restart
<1>12. CASE UNCHANGED vars
  BY <1>1, <1>12 DEF vars
<1> QED
  BY <1>2, <1>3, <1>4, <1>5, <1>6, <1>7, <1>8, <1>9, <1>10, <1>11, <1>12
     DEF Next,
     Friends, FriendAccept, FriendDecline, InternalFriendRequest, InternalFriendAccept

LEMMA NewcomersAreUnknownStep ==
  ASSUME IInv, [Next]_vars
  PROVE  NewcomersAreUnknown
<1> SUFFICES ASSUME NEW p \in Pids, NEW a \in Pids, restarts' = restarts,
                    p \in mem'.live, p \notin mem.live
             PROVE  /\ p \notin mem'.friends[a]
                    /\ p \notin mem'.requests[a]
                    /\ p \notin mem'.favorites[a]
  BY DEF NewcomersAreUnknown
<1>1. mem \in Graph /\ WellFormed(mem) /\ restarts \in Nat /\ mem' # mem
  BY DEF IInv, GraphInv
<1>2. ASSUME NEW q \in Pids, Create(q)
      PROVE  /\ p \notin mem'.friends[a]
             /\ p \notin mem'.requests[a]
             /\ p \notin mem'.favorites[a]
  <2>1. /\ mem'.live = mem.live \cup {q} /\ q \notin mem.used
        /\ mem'.friends = mem.friends /\ mem'.requests = mem.requests
        /\ mem'.favorites = mem.favorites
    BY <1>1, <1>2 DEF Create, Commit, Register, Graph
  <2> QED
    BY <1>1, <2>1 DEF WellFormed
<1>3. ASSUME NEW q \in Pids, DeleteByPID(q)
      PROVE  FALSE
  BY <1>1, <1>3 DEF DeleteByPID, Commit, Forget, Graph
<1>4. ASSUME NEW q \in Pids, SoftDeleteByPID(q)
      PROVE  FALSE
  <2>1. mem' = Erase(Forget(mem, q), q)
    BY <1>4 DEF SoftDeleteByPID, Commit
  <2> QED
    BY <1>1, <2>1 DEF Erase, Forget, Graph
<1>5. ASSUME NEW x \in Pids, NEW y \in Pids, SendFriendRequest(x, y)
      PROVE  FALSE
  BY <1>1, <1>5 DEF SendFriendRequest, Commit, Befriend, AddRequest, Graph
<1>6. ASSUME NEW x \in Pids, NEW y \in Pids, AcceptFriendRequest(x, y)
      PROVE  FALSE
  BY <1>1, <1>6 DEF AcceptFriendRequest, Commit, Befriend, DropRequest, Graph
<1>7. ASSUME NEW x \in Pids, NEW y \in Pids, DeclineFriendRequest(x, y)
      PROVE  FALSE
  BY <1>1, <1>7 DEF DeclineFriendRequest, Commit, DropRequest, Graph
<1>8. ASSUME NEW x \in Pids, NEW y \in Pids, RemoveFriend(x, y)
      PROVE  FALSE
  BY <1>1, <1>8 DEF RemoveFriend, Commit, Unfriend, Graph
<1>9. ASSUME NEW x \in Pids, NEW y \in Pids, BlockUser(x, y)
      PROVE  FALSE
  BY <1>1, <1>9 DEF BlockUser, Commit, Block, Graph
<1>10. ASSUME NEW x \in Fans, NEW y \in Pids, NEW fav \in BOOLEAN,
              FavoriteCheck(x, y, fav) \/ SetFavorite(x, y, fav)
       PROVE  FALSE
  BY <1>1, <1>10 DEF FavoriteCheck, SetFavorite, Commit, Favorite, Graph
<1>11. CASE Restart
  BY <1>1, <1>11 DEF Restart
<1>12. CASE UNCHANGED vars
  BY <1>1, <1>12 DEF vars
<1> QED
  BY <1>2, <1>3, <1>4, <1>5, <1>6, <1>7, <1>8, <1>9, <1>10, <1>11, <1>12
     DEF Next,
     Friends, FriendAccept, FriendDecline, InternalFriendRequest, InternalFriendAccept

(* No handler makes two accounts friends unless one had asked the other:    *)
(* FriendshipNeedsRequest.                                                  *)
THEOREM FriendshipIsAskedFor == Spec => FriendshipNeedsRequest
<1>1. IInv /\ [Next]_vars => [NewFriendsAsked]_vars
  BY NewFriendsAskedStep
<1> QED
  BY Invariance, <1>1, PTL DEF Spec, FriendshipNeedsRequest

(* Create hands out PIDs no list remembers: NewAccountHasNoPast.            *)
THEOREM NewAccountsAreUnknown == Spec => NewAccountHasNoPast
<1>1. IInv /\ [Next]_vars => [NewcomersAreUnknown]_vars
  BY NewcomersAreUnknownStep
<1> QED
  BY Invariance, <1>1, PTL DEF Spec, NewAccountHasNoPast

=============================================================================
