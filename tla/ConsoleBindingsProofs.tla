------------------------- MODULE ConsoleBindingsProofs -------------------------
(***************************************************************************)
(* Proofs about ConsoleBindings, for any accounts, ids, handlers and       *)
(* bounds: no id has two owners, an account under a PID nobody had owns    *)
(* none, and the table implements ConsoleOwnership.                        *)
(***************************************************************************)
EXTENDS ConsoleBindings, FiniteSetTheorems, TLAPS

Lists == Seq(Console)
Tables == [Pids -> Lists]

HasId(list, i) == \E k \in DOMAIN list : Names(list[k], i)

Carried(c) == {c.baas, c.did} \ {NoId}

(* The ids of a new list of p's: some of the old ones, and those in S,     *)
(* which are in no other list.                                             *)
Replaces(t, p, list, S) ==
  /\ list \in Lists
  /\ \A i \in Ids : HasId(list, i) => HasId(t[p], i) \/ i \in S
  /\ \A i \in S : i \in Ids /\ HasId(list, i)
  /\ \A i \in S, q \in Pids : q # p => ~HasId(t[q], i)

(* PIDs that were handed out, those included that a restart took back.     *)
Handed == used \cup forgotten

(* Nothing is bound to a PID that was not handed out, or about to be.      *)
UnusedAreUnbound ==
  \A p \in Pids : p \notin Handed => table[p] = <<>> /\ disk[p] = <<>>
JobsAreForUsed == \A w \in Workers : work[w] # Idle => work[w].pid \in Handed

(* Until a write of accounts.json fails the file is as the memory, and no  *)
(* PID is forgotten.                                                       *)
FileIsMemory ==
  accountFailures = 0 => saved = [live |-> live, used |-> used] /\ forgotten = {}

IInv == TypeOK /\ Exclusive /\ UnusedAreUnbound /\ JobsAreForUsed /\ FileIsMemory

(* What a claim does to the owners, as in ConsoleOwnership.                *)
ClaimIn(old, new, p, S) ==
  /\ \A i \in S : old[i] \in {Nobody, p}
  /\ \E lost \in SUBSET ({i \in Ids : old[i] = p} \ S) :
       new = [i \in Ids |-> IF i \in S THEN p
                            ELSE IF i \in lost THEN Nobody ELSE old[i]]

USE DEF Lists, Tables

-----------------------------------------------------------------------------
(* Lists and owners.                                                       *)

(* The ids a PID lists are those of the entries of its list.               *)
LEMMA ListedIsInList ==
  ASSUME NEW t, NEW p, NEW i
  PROVE  ListedBy(t, p, i) <=> HasId(t[p], i)
BY DEF ListedBy, HasId, Entries

(* A list replaced for p alone keeps every id with one owner.              *)
LEMMA ReplaceKeepsExclusive ==
  ASSUME NEW t \in Tables, NEW p \in Pids, NEW list, NEW S,
         ExclusiveIn(t), Replaces(t, p, list, S)
  PROVE  /\ [t EXCEPT ![p] = list] \in Tables
         /\ ExclusiveIn([t EXCEPT ![p] = list])
<1> DEFINE u == [t EXCEPT ![p] = list]
<1>1. u \in Tables  BY DEF Replaces
<1>2. u[p] = list /\ \A q \in Pids : q # p => u[q] = t[q]
  OBVIOUS
<1> HIDE DEF u
<1>3. \A i \in Ids, q, r \in Pids : HasId(t[q], i) /\ HasId(t[r], i) => q = r
  BY ListedIsInList DEF ExclusiveIn
<1>4. ASSUME NEW i \in Ids, NEW q \in Pids, NEW r \in Pids,
             HasId(u[q], i), HasId(u[r], i), q # r
      PROVE  FALSE
  BY <1>2, <1>3, <1>4 DEF Replaces
<1>5. ExclusiveIn(u)
  BY <1>4, ListedIsInList DEF ExclusiveIn
<1>6. QED  BY <1>1, <1>5 DEF u

(* The owner of an id is the PID that lists it, nobody when none does.     *)
LEMMA OwnerLists ==
  ASSUME NEW t, ExclusiveIn(t), NEW i \in Ids
  PROVE  /\ \A p \in Pids : OwnerIn(t)[i] = p <=> HasId(t[p], i)
         /\ OwnerIn(t)[i] = Nobody <=> \A p \in Pids : ~HasId(t[p], i)
         /\ OwnerIn(t)[i] \in Pids \cup {Nobody}
<1>1. \A p, q \in Pids : HasId(t[p], i) /\ HasId(t[q], i) => p = q
  BY ListedIsInList DEF ExclusiveIn
<1>2. OwnerIn(t)[i] = IF \E p \in Pids : HasId(t[p], i)
                      THEN CHOOSE p \in Pids : HasId(t[p], i) ELSE Nobody
  <2>1. OwnerIn(t)[i] = IF \E p \in Pids : ListedBy(t, p, i)
                        THEN CHOOSE p \in Pids : ListedBy(t, p, i) ELSE Nobody
    BY DEF OwnerIn
  <2>2. \A p : ListedBy(t, p, i) <=> HasId(t[p], i)
    BY ListedIsInList
  <2>3. (CHOOSE p \in Pids : ListedBy(t, p, i)) = (CHOOSE p \in Pids : HasId(t[p], i))
    BY <2>2
  <2>4. QED  BY <2>1, <2>2, <2>3
<1>3. CASE \E p \in Pids : HasId(t[p], i)
  <2>1. OwnerIn(t)[i] \in Pids /\ HasId(t[OwnerIn(t)[i]], i)
    BY <1>2, <1>3
  <2>2. QED  BY <2>1, <1>1, <1>3, NobodyIsNoPid
<1>4. CASE ~ \E p \in Pids : HasId(t[p], i)
  BY <1>2, <1>4, NobodyIsNoPid
<1>5. QED  BY <1>3, <1>4

(* Replacing p's list is a claim of S by p in the abstract table, with the *)
(* ids that vanish as lost.                                                *)
LEMMA ReplaceIsClaim ==
  ASSUME NEW t \in Tables, NEW p \in Pids, NEW list, NEW S,
         ExclusiveIn(t), Replaces(t, p, list, S)
  PROVE  ClaimIn(OwnerIn(t), OwnerIn([t EXCEPT ![p] = list]), p, S)
<1> DEFINE u == [t EXCEPT ![p] = list]
           o == OwnerIn(t)
           lost == {i \in Ids : o[i] = p /\ i \notin S /\ ~HasId(list, i)}
           n == [i \in Ids |-> IF i \in S THEN p
                               ELSE IF i \in lost THEN Nobody ELSE o[i]]
<1>1. u[p] = list /\ \A q \in Pids : q # p => u[q] = t[q]
  OBVIOUS
<1>2. ExclusiveIn(u)  BY ReplaceKeepsExclusive
<1>3. \A i \in Ids : /\ \A q \in Pids : o[i] = q <=> HasId(t[q], i)
                     /\ o[i] = Nobody <=> \A q \in Pids : ~HasId(t[q], i)
                     /\ o[i] \in Pids \cup {Nobody}
  BY OwnerLists
<1>4. \A i \in Ids : /\ \A q \in Pids : OwnerIn(u)[i] = q <=> HasId(u[q], i)
                     /\ OwnerIn(u)[i] = Nobody <=> \A q \in Pids : ~HasId(u[q], i)
                     /\ OwnerIn(u)[i] \in Pids \cup {Nobody}
  BY <1>2, OwnerLists
<1> HIDE DEF u, o
<1>5. \A i \in S : o[i] \in {Nobody, p}
  BY <1>3 DEF Replaces
<1>6. ASSUME NEW i \in Ids PROVE OwnerIn(u)[i] = n[i]
  <2>1. CASE i \in S
    BY <2>1, <1>1, <1>4 DEF Replaces
  <2>2. CASE i \notin S /\ HasId(list, i)
    BY <2>2, <1>1, <1>3, <1>4, NobodyIsNoPid DEF Replaces
  <2>3. CASE i \notin S /\ ~HasId(list, i) /\ o[i] = p
    <3>1. \A q \in Pids : ~HasId(u[q], i)
      BY <2>3, <1>1, <1>3
    <3>2. QED  BY <2>3, <3>1, <1>4
  <2>4. CASE i \notin S /\ ~HasId(list, i) /\ o[i] # p
    <3>1. \A q \in Pids : HasId(u[q], i) <=> HasId(t[q], i)
      BY <2>4, <1>1, <1>3
    <3>2. OwnerIn(u)[i] = o[i]
      BY <3>1, <1>3, <1>4
    <3>3. QED  BY <2>4, <3>2
  <2>5. QED  BY <2>1, <2>2, <2>3, <2>4
<1>7. OwnerIn(u) = n
  <2>1. OwnerIn(u) = [i \in Ids |-> OwnerIn(u)[i]]  BY DEF OwnerIn
  <2>2. QED  BY <2>1, <1>6
<1>8. lost \in SUBSET ({i \in Ids : o[i] = p} \ S)
  OBVIOUS
<1>9. ClaimIn(o, OwnerIn(u), p, S)
  BY <1>5, <1>7, <1>8 DEF ClaimIn
<1>10. QED  BY <1>9 DEF u, o

-----------------------------------------------------------------------------
(* What the table operations do.                                           *)

(* A function on an initial segment of the numbers is a sequence.          *)
LEMMA IsASeq ==
  ASSUME NEW n \in Nat, NEW S, NEW f, \A k \in 1..n : f[k] \in S
  PROVE  [k \in 1..n |-> f[k]] \in Seq(S)
OBVIOUS

(* An id is never the absent id, and names one kind of id only.            *)
LEMMA NamesAnId ==
  ASSUME NEW e \in Console, NEW i \in Ids
  PROVE  /\ Names(e, i) <=> i \in Carried(e)
         /\ Carried(e) \subseteq Ids
BY IdsAreApart DEF Names, Carried, Ids, Console

(* A bind that is not refused gives p a list with every id of the request, *)
(* which nobody else lists.                                                *)
LEMMA BindReplaces ==
  ASSUME TypeOK, NEW p \in Pids, NEW c \in Console,
         ~Taken(p, c), BindEntry(p, c)
  PROVE  \E list : /\ Replaces(table, p, list, Carried(c))
                   /\ Save([table EXCEPT ![p] = list])
<1>1. table[p] \in Seq(Console) /\ \A q \in Pids : table[q] \in Seq(Console)
  BY DEF TypeOK
<1>2. Carried(c) \subseteq Ids
  BY NamesAnId, IdsAreApart DEF Carried, Console, Ids
<1>3. ASSUME NEW i \in Carried(c), NEW q \in Pids, q # p
      PROVE  ~HasId(table[q], i)
  <2> SUFFICES ASSUME NEW k \in DOMAIN table[q], Names(table[q][k], i) PROVE FALSE
    BY DEF HasId
  <2>1. table[q][k] \in Entries(table, q) /\ table[q][k] \in Console
    BY <1>1 DEF Entries
  <2>2. \/ c.baas # NoId /\ table[q][k].baas = c.baas
        \/ c.did # NoId /\ table[q][k].did = c.did
    BY <2>1, IdsAreApart DEF Names, Carried, Console
  <2>3. q \in OwnersByBaas(c) \/ q \in OwnersByDid(c)
    BY <2>1, <2>2 DEF OwnersByBaas, OwnersByDid
  <2>4. QED  BY <2>3, <1>3 DEF Taken
<1>4. CASE Save([table EXCEPT ![p] = Append(table[p], c)])
  <2> DEFINE list == Append(table[p], c)
  <2>1. /\ list \in Seq(Console)
        /\ Len(table[p]) \in Nat
        /\ DOMAIN table[p] = 1..Len(table[p])
        /\ DOMAIN list = 1..(Len(table[p]) + 1)
        /\ \A k \in 1..Len(table[p]) : list[k] = table[p][k]
        /\ list[Len(table[p]) + 1] = c
    BY <1>1
  <2> HIDE DEF list
  <2>2. \A i \in Ids : HasId(list, i) => HasId(table[p], i) \/ i \in Carried(c)
    <3> SUFFICES ASSUME NEW i \in Ids, NEW k \in DOMAIN list, Names(list[k], i)
                 PROVE  HasId(table[p], i) \/ i \in Carried(c)
      BY DEF HasId
    <3>1. CASE k \in 1..Len(table[p])
      BY <3>1, <2>1 DEF HasId
    <3>2. CASE k = Len(table[p]) + 1
      BY <3>2, <2>1, NamesAnId
    <3>3. QED  BY <3>1, <3>2, <2>1
  <2>3. \A i \in Carried(c) : HasId(list, i)
    <3>1. Len(table[p]) + 1 \in DOMAIN list  BY <2>1
    <3>2. QED  BY <3>1, <2>1, <1>2, NamesAnId DEF HasId
  <2>4. Replaces(table, p, list, Carried(c))
    BY <1>2, <1>3, <2>1, <2>2, <2>3 DEF Replaces
  <2>5. QED  BY <2>4, <1>4 DEF list
<1>5. ASSUME NEW j \in FirstMatch(table[p], c),
             Save([table EXCEPT ![p] = [table[p] EXCEPT ![j] = Merge(@, c)]])
      PROVE  \E list : /\ Replaces(table, p, list, Carried(c))
                       /\ Save([table EXCEPT ![p] = list])
  <2> DEFINE m == Merge(table[p][j], c)
             list == [table[p] EXCEPT ![j] = m]
  <2>1. j \in DOMAIN table[p] /\ table[p][j] \in Console
    BY <1>1 DEF FirstMatch
  <2>2. /\ m \in Console
        /\ Carried(c) \subseteq Carried(m)
        /\ Carried(m) \subseteq Carried(c) \cup Carried(table[p][j])
    BY <2>1, IdsAreApart DEF Merge, Console, Carried
  <2> HIDE DEF m
  <2>3. /\ list \in Seq(Console)
        /\ DOMAIN list = DOMAIN table[p]
        /\ list[j] = m
        /\ \A k \in DOMAIN list : k # j => list[k] = table[p][k]
    BY <1>1, <2>1, <2>2
  <2> HIDE DEF list
  <2>4. \A i \in Ids : HasId(list, i) => HasId(table[p], i) \/ i \in Carried(c)
    <3> SUFFICES ASSUME NEW i \in Ids, NEW k \in DOMAIN list, Names(list[k], i)
                 PROVE  HasId(table[p], i) \/ i \in Carried(c)
      BY DEF HasId
    <3>1. CASE k # j
      BY <3>1, <2>3 DEF HasId
    <3>2. CASE k = j
      <4>1. i \in Carried(c) \cup Carried(table[p][j])
        BY <3>2, <2>2, <2>3, NamesAnId
      <4>2. QED  BY <4>1, <2>1, NamesAnId DEF HasId
    <3>3. QED  BY <3>1, <3>2
  <2>5. \A i \in Carried(c) : HasId(list, i)
    BY <1>2, <2>1, <2>2, <2>3, NamesAnId DEF HasId
  <2>6. Replaces(table, p, list, Carried(c))
    BY <1>2, <1>3, <2>3, <2>4, <2>5 DEF Replaces
  <2>7. Save([table EXCEPT ![p] = list])
    BY <1>5 DEF list, m
  <2>8. QED  BY <2>6, <2>7
<1>6. QED  BY <1>4, <1>5 DEF BindEntry

(* An unbind changes nothing or shortens a list that was not empty.        *)
LEMMA UnbindReplaces ==
  ASSUME TypeOK, NEW p \in Pids, NEW c \in Console, Unbind(p, c)
  PROVE  \/ UNCHANGED <<table, disk, failures>>
         \/ /\ table[p] # <<>>
            /\ \E list : /\ Replaces(table, p, list, {})
                         /\ Save([table EXCEPT ![p] = list])
<1> DEFINE old == table[p]
           kept == Others(old, c)
<1>1. old \in Seq(Console) /\ DOMAIN old = 1..Len(old) /\ Len(old) \in Nat
  BY DEF TypeOK
<1>2. CASE kept # DOMAIN old /\ \E f \in InOrder(kept) :
             Save([table EXCEPT ![p] = [k \in DOMAIN f |-> old[f[k]]]])
  <2>1. PICK f \in InOrder(kept) :
             Save([table EXCEPT ![p] = [k \in DOMAIN f |-> old[f[k]]]])
    BY <1>2
  <2> DEFINE list == [k \in DOMAIN f |-> old[f[k]]]
  <2>2. Cardinality(kept) \in Nat
    <3>1. IsFiniteSet(1..Len(old))  BY <1>1, FS_Interval
    <3>2. kept \subseteq 1..Len(old)  BY <1>1 DEF Others
    <3>3. QED  BY <3>1, <3>2, FS_Subset, FS_CardinalityType
  <2>3. /\ DOMAIN f = 1..Cardinality(kept)
        /\ \A k \in DOMAIN f : f[k] \in DOMAIN old
    BY DEF InOrder, Others
  <2>4. /\ list \in Seq(Console)
        /\ \A k \in DOMAIN list : \E j \in DOMAIN old : list[k] = old[j]
    <3>1. \A k \in 1..Cardinality(kept) : list[k] \in Console
      BY <1>1, <2>3
    <3>2. list = [k \in 1..Cardinality(kept) |-> list[k]]
      BY <2>3
    <3>3. list \in Seq(Console)
      BY <2>2, <3>1, <3>2, IsASeq
    <3>4. QED  BY <3>3, <2>3
  <2> HIDE DEF list
  <2>5. Replaces(table, p, list, {})
    BY <2>4 DEF Replaces, HasId
  <2>6. old # <<>>
    BY <1>1, <1>2 DEF Others
  <2>7. QED  BY <2>1, <2>5, <2>6 DEF list
<1>3. CASE kept = DOMAIN old /\ UNCHANGED <<table, disk, failures>>
  BY <1>3
<1>4. QED  BY <1>2, <1>3 DEF Unbind

-----------------------------------------------------------------------------
(* Steps.                                                                  *)

(* One save of a table in which one handed out PID got another list.       *)
TableStep(p, S) ==
  \E list : /\ Replaces(table, p, list, S)
           /\ Save([table EXCEPT ![p] = list])

Reload == table' = disk /\ UNCHANGED disk

Untouched == UNCHANGED <<table, disk>>

(* A bind, refused or not, claims the ids of its request or does nothing.  *)
LEMMA BindSteps ==
  ASSUME TypeOK, NEW p \in Pids, NEW c \in Console, Bind(p, c)
  PROVE  Untouched \/ TableStep(p, Carried(c))
BY BindReplaces DEF Bind, Untouched, TableStep

LEMMA UnbindSteps ==
  ASSUME TypeOK, UnusedAreUnbound, NEW p \in Pids, NEW c \in Console, Unbind(p, c)
  PROVE  Untouched \/ (p \in Handed /\ TableStep(p, {}))
BY UnbindReplaces DEF Untouched, TableStep, UnusedAreUnbound

(* What a step of the program does to the table.                           *)
LEMMA TableSteps ==
  ASSUME IInv, [Next]_vars
  PROVE  \/ Untouched
         \/ \E p \in Handed, S \in SUBSET Ids : p \in Pids /\ TableStep(p, S)
         \/ Reload
<1> USE DEF IInv
<1>1. \A p \in Pids, c \in Requests : OperatorUnbind(p, c) =>
        Untouched \/ (p \in Handed /\ TableStep(p, {}))
  BY UnbindSteps, RequestsAreConsoles DEF OperatorUnbind
<1>2. ASSUME NEW w \in Workers, work[w] # Idle
      PROVE  work[w].pid \in Handed /\ work[w].pid \in Pids /\ work[w].ids \in Console
  BY <1>2 DEF TypeOK, Jobs, JobsAreForUsed
<1>3. ASSUME NEW c \in Console PROVE Carried(c) \in SUBSET Ids
  BY IdsAreApart DEF Carried, Console, Ids
<1>4. ASSUME NEW w \in Workers, BindApply(w) \/ DerivedAnswer(w)
      PROVE  Untouched \/ \E S \in SUBSET Ids : TableStep(work[w].pid, S)
  <2>1. work[w] # Idle  BY <1>4 DEF BindApply, DerivedAnswer, Idle
  <2>2. Bind(work[w].pid, work[w].ids)  BY <1>4 DEF BindApply, DerivedAnswer
  <2>3. QED  BY <1>2, <1>3, <2>1, <2>2, BindSteps
<1>5. ASSUME NEW w \in Workers, FoundAnswer(w)
      PROVE  Untouched \/ TableStep(work[w].pid, {})
  <2>1. work[w] # Idle  BY <1>5 DEF FoundAnswer, Idle
  <2>2. QED  BY <1>2, <1>5, <2>1, UnbindSteps DEF FoundAnswer, Untouched
<1>6. ASSUME NEW w \in Workers,
             BindApply(w) \/ DerivedAnswer(w) \/ FoundAnswer(w)
      PROVE  work[w].pid \in Handed /\ work[w].pid \in Pids
  <2>1. work[w] # Idle
    BY <1>6 DEF BindApply, DerivedAnswer, FoundAnswer, Idle
  <2>2. QED  BY <1>2, <2>1
<1>7. Restart => Reload
  BY DEF Restart, Reload
<1>8. ASSUME NEW w \in Workers, NEW p \in Pids, NEW c \in Requests,
             BindCheck(w, p, c) \/ WhoamiFound(w, p, c) \/ WhoamiDerived(w, p, c)
      PROVE  Untouched
  BY <1>8 DEF BindCheck, WhoamiFound, WhoamiDerived, Start, Untouched
<1>9. ASSUME OtherSave \/ \E p \in Pids : Create(p) \/ DeleteAccount(p) PROVE Untouched
  BY <1>9 DEF Create, DeleteAccount, OtherSave, Untouched
<1>10. UNCHANGED vars => Untouched
  BY DEF vars, Untouched
<1> DEFINE Result == \/ Untouched
                     \/ \E p \in Handed, S \in SUBSET Ids : p \in Pids /\ TableStep(p, S)
                     \/ Reload
<1>11. ASSUME NEW w \in Workers,
              BindApply(w) \/ DerivedAnswer(w) \/ FoundAnswer(w)
       PROVE  Result
  <2>1. work[w].pid \in Handed /\ work[w].pid \in Pids  BY <1>6, <1>11
  <2>2. Untouched \/ \E S \in SUBSET Ids : TableStep(work[w].pid, S)
    BY <1>4, <1>5, <1>11
  <2>3. QED  BY <2>1, <2>2
<1>12. ASSUME NEW p \in Pids, NEW c \in Requests, OperatorUnbind(p, c)
       PROVE  Result
  <2>1. Untouched \/ (p \in Handed /\ TableStep(p, {}))  BY <1>1, <1>12
  <2>2. {} \in SUBSET Ids  OBVIOUS
  <2>3. QED  BY <2>1, <2>2
<1>13. Untouched \/ Reload => Result
  OBVIOUS
<1> HIDE DEF Result
<1>14. Result
  BY <1>7, <1>8, <1>9, <1>10, <1>11, <1>12, <1>13 DEF Next
<1>15. QED  BY <1>14 DEF Result

(* A save keeps both the memory and the file exclusive.                    *)
LEMMA ExclusiveStep ==
  ASSUME IInv, [Next]_vars
  PROVE  /\ table' \in Tables /\ disk' \in Tables
         /\ Exclusive'
<1> USE DEF IInv
<1>1. /\ table \in Tables /\ disk \in Tables
      /\ ExclusiveIn(table) /\ ExclusiveIn(disk)
  BY DEF TypeOK, Exclusive
<1>2. ASSUME NEW p \in Pids, NEW S, TableStep(p, S)
      PROVE  /\ table' \in Tables /\ ExclusiveIn(table')
             /\ disk' = table' \/ disk' = disk
  <2>1. PICK list : /\ Replaces(table, p, list, S)
                    /\ Save([table EXCEPT ![p] = list])
    BY <1>2 DEF TableStep
  <2> DEFINE u == [table EXCEPT ![p] = list]
  <2>2. u \in Tables /\ ExclusiveIn(u)
    BY <1>1, <2>1, ReplaceKeepsExclusive
  <2>3. Save(u)  BY <2>1
  <2> HIDE DEF u
  <2>4. QED  BY <2>2, <2>3 DEF Save
<1>3. /\ table' \in Tables /\ disk' \in Tables
      /\ ExclusiveIn(table') /\ ExclusiveIn(disk')
  BY <1>1, <1>2, TableSteps DEF Untouched, Reload
<1>4. QED  BY <1>3 DEF Exclusive

(* What a step does to the accounts and to accounts.json: a PID once       *)
(* handed out stays so or is forgotten, and an account that appears while  *)
(* the process runs has a PID that was not handed out.                     *)
AccountsOK ==
  /\ live \subseteq used /\ used \subseteq Pids /\ forgotten \subseteq Pids
  /\ saved \in [live : SUBSET Pids, used : SUBSET Pids] /\ saved.live \subseteq saved.used
  /\ accountFailures \in Nat
  /\ FileIsMemory

Created == live' \ live \subseteq Pids \ used /\ (live' \subseteq live \/ Untouched)

LEMMA SaveAccountsSteps ==
  ASSUME AccountsOK, SaveAccounts, live' \subseteq used', used' \subseteq Pids, forgotten' = forgotten
  PROVE  AccountsOK' /\ accountFailures' \in {accountFailures, accountFailures + 1}
<1>1. CASE saved' = [live |-> live', used |-> used'] /\ UNCHANGED accountFailures
  <2>1. saved' \in [live : SUBSET Pids, used : SUBSET Pids] /\ saved'.live \subseteq saved'.used
    BY <1>1
  <2>2. QED  BY <1>1, <2>1 DEF AccountsOK, FileIsMemory
<1>2. CASE accountFailures' = accountFailures + 1 /\ UNCHANGED saved
  <2>1. accountFailures' # 0 /\ accountFailures' \in Nat
    BY <1>2 DEF AccountsOK
  <2>2. QED  BY <1>2, <2>1 DEF AccountsOK, FileIsMemory
<1>3. QED  BY <1>1, <1>2 DEF SaveAccounts

LEMMA AccountSteps ==
  ASSUME IInv, [Next]_vars
  PROVE  /\ AccountsOK' /\ Handed \subseteq Handed'
         /\ restarts' = restarts => Created
<1>1. AccountsOK /\ restarts \in Nat
  BY BoundsAreNaturals DEF IInv, TypeOK, AccountsOK
<1>2. CASE UNCHANGED accounts
  BY <1>1, <1>2 DEF accounts, AccountsOK, FileIsMemory, Handed, Created
<1>3. ASSUME NEW p \in Pids, Create(p)
      PROVE  AccountsOK' /\ Handed \subseteq Handed' /\ Created
  <2>1. AccountsOK'
    BY <1>1, <1>3, SaveAccountsSteps DEF Create, AccountsOK
  <2>2. QED  BY <1>3, <2>1 DEF Create, Handed, Created, Untouched
<1>4. ASSUME NEW p \in Pids, DeleteAccount(p)
      PROVE  AccountsOK' /\ Handed \subseteq Handed' /\ Created
  <2>1. AccountsOK'
    BY <1>1, <1>4, SaveAccountsSteps DEF DeleteAccount, AccountsOK
  <2>2. QED  BY <1>4, <2>1 DEF DeleteAccount, Handed, Created
<1>5. CASE OtherSave
  <2>1. /\ saved' = [live |-> live, used |-> used]
        /\ UNCHANGED <<live, used, forgotten, accountFailures>>
    BY <1>5 DEF OtherSave
  <2>2. saved' \in [live : SUBSET Pids, used : SUBSET Pids] /\ saved'.live \subseteq saved'.used
    BY <1>1, <2>1 DEF AccountsOK
  <2>3. QED  BY <1>1, <2>1, <2>2 DEF AccountsOK, FileIsMemory, Handed, Created
<1>6. CASE Restart
  <2>1. /\ live' = saved.live /\ used' = saved.used
        /\ forgotten' = forgotten \cup (used \ saved.used)
        /\ UNCHANGED <<saved, accountFailures>> /\ restarts' # restarts
    BY <1>1, <1>6 DEF Restart
  <2>2. /\ saved \in [live : SUBSET Pids, used : SUBSET Pids]
        /\ saved.live \subseteq saved.used
    BY <1>1 DEF AccountsOK
  <2>3. FileIsMemory'
    <3> SUFFICES ASSUME accountFailures = 0
                 PROVE  saved = [live |-> saved.live, used |-> saved.used] /\ forgotten' = {}
      BY <2>1 DEF FileIsMemory
    <3>1. saved = [live |-> live, used |-> used] /\ forgotten = {}
      BY <1>1 DEF AccountsOK, FileIsMemory
    <3>2. saved.used = used /\ saved.live = live
      BY <3>1
    <3>3. QED  BY <2>1, <3>1, <3>2
  <2>4. Handed \subseteq Handed'
    BY <2>1 DEF Handed
  <2>5. QED  BY <1>1, <2>1, <2>2, <2>3, <2>4 DEF AccountsOK
<1>7. QED
  BY <1>2, <1>3, <1>4, <1>5, <1>6
     DEF Next, OperatorUnbind, BindCheck, WhoamiFound, WhoamiDerived, Start,
         BindApply, FoundAnswer, DerivedAnswer, Finish, vars

(* Only the lists of handed out PIDs change.                               *)
LEMMA UnboundStep ==
  ASSUME IInv, [Next]_vars
  PROVE  /\ UnusedAreUnbound'
         /\ BornUnbound
<1> USE DEF IInv
<1>1. \A p \in Pids \ Handed : table'[p] = <<>> /\ disk'[p] = <<>>
  <2>1. ASSUME NEW p \in Pids, p \in Handed, NEW S, TableStep(p, S),
               NEW q \in Pids \ Handed
        PROVE  table'[q] = <<>> /\ disk'[q] = <<>>
    BY <2>1 DEF TableStep, Save, UnusedAreUnbound, TypeOK
  <2>2. CASE Untouched \/ Reload
    BY <2>2 DEF Untouched, Reload, UnusedAreUnbound
  <2>3. QED  BY <2>1, <2>2, TableSteps
<1>2. UnusedAreUnbound'
  BY <1>1, AccountSteps DEF UnusedAreUnbound
<1>3. BornUnbound
  <2> SUFFICES ASSUME restarts' = restarts, NEW p \in live' \ live,
                      p \in forgotten => accountFailures = 0
               PROVE  Entries(table', p) = {} /\ Entries(disk', p) = {}
    BY DEF BornUnbound, TypeOK
  <2>1. p \in Pids \ used
    BY AccountSteps DEF Created
  <2>2. p \notin forgotten
    BY DEF FileIsMemory
  <2>3. table'[p] = <<>> /\ disk'[p] = <<>>
    BY <1>1, <2>1, <2>2 DEF Handed
  <2>4. QED  BY <2>3 DEF Entries
<1>4. QED  BY <1>2, <1>3

(* Handlers act for PIDs that were handed out.                             *)
LEMMA RestStep ==
  ASSUME IInv, [Next]_vars
  PROVE  /\ work' \in [Workers -> Jobs] /\ JobsAreForUsed'
         /\ failures' \in Nat /\ failures' + accountFailures' <= MaxSaveFailures
         /\ restarts' \in 0..MaxRestarts
<1> USE DEF IInv
<1>1. /\ live \subseteq used /\ used \subseteq Pids
      /\ work \in [Workers -> Jobs]
      /\ failures \in Nat /\ accountFailures \in Nat
      /\ failures + accountFailures <= MaxSaveFailures /\ restarts \in 0..MaxRestarts
      /\ MaxSaveFailures \in Nat
  BY BoundsAreNaturals DEF TypeOK
<1>2. Handed \subseteq Handed'
  BY AccountSteps
<1>3. restarts' \in 0..MaxRestarts
  BY <1>1, BoundsAreNaturals
     DEF Next, OperatorUnbind, BindCheck, WhoamiFound, WhoamiDerived, Start,
         BindApply, FoundAnswer, DerivedAnswer, Finish, Restart, Create,
         DeleteAccount, OtherSave, vars
<1>4. failures' \in Nat /\ failures' + accountFailures' <= MaxSaveFailures
  <2>1. ASSUME NEW p, NEW c, Bind(p, c) \/ Unbind(p, c), UNCHANGED accounts
        PROVE  failures' \in Nat /\ failures' + accountFailures' <= MaxSaveFailures
    <3>1. \/ failures' = failures
          \/ failures + accountFailures < MaxSaveFailures /\ failures' = failures + 1
      BY <2>1 DEF Bind, BindEntry, Unbind, Save
    <3>2. QED  BY <1>1, <2>1, <3>1 DEF accounts
  <2>2. CASE UNCHANGED <<failures, accountFailures>>  BY <1>1, <2>2
  <2>3. CASE SaveAccounts /\ UNCHANGED failures
    BY <1>1, <2>3 DEF SaveAccounts
  <2>4. QED
    BY <2>1, <2>2, <2>3
       DEF Next, OperatorUnbind, BindCheck, WhoamiFound, WhoamiDerived, Start, accounts,
         BindApply, FoundAnswer, DerivedAnswer, Finish, Restart, Create,
         DeleteAccount, OtherSave, vars
<1>5. work' \in [Workers -> Jobs] /\ JobsAreForUsed'
  <2>1. CASE UNCHANGED work
    BY <1>1, <1>2, <2>1 DEF JobsAreForUsed
  <2>2. ASSUME NEW w \in Workers, work' = [work EXCEPT ![w] = Idle]
        PROVE  work' \in [Workers -> Jobs] /\ JobsAreForUsed'
    BY <1>1, <1>2, <2>2 DEF JobsAreForUsed, Jobs
  <2>3. CASE work' = [w \in Workers |-> Idle]
    BY <2>3 DEF JobsAreForUsed, Jobs
  <2>4. ASSUME NEW w \in Workers, NEW p \in Pids, NEW c \in Requests,
               BindCheck(w, p, c) \/ WhoamiFound(w, p, c) \/ WhoamiDerived(w, p, c)
        PROVE  work' \in [Workers -> Jobs] /\ JobsAreForUsed'
    <3>1. PICK at \in {"bind", "found", "derived"} : Start(w, at, p, c)
      BY <2>4 DEF BindCheck, WhoamiFound, WhoamiDerived
    <3> DEFINE job == [at |-> at, pid |-> p, ids |-> c]
    <3>2. job \in Jobs  BY RequestsAreConsoles DEF Jobs
    <3>3. p \in Handed
      <4>1. ASSUME p \in Resolved(c) PROVE table[p] # <<>>
        BY <4>1 DEF Resolved, OwnersByBaas, OwnersByDid, Entries
      <4>2. p \in live \/ p \in Resolved(c)
        BY <2>4 DEF BindCheck, WhoamiFound, WhoamiDerived, Derived
      <4>3. QED  BY <1>1, <4>1, <4>2 DEF UnusedAreUnbound, Handed
    <3>4. work' = [work EXCEPT ![w] = job]  BY <3>1 DEF Start
    <3> HIDE DEF job
    <3>5. work' \in [Workers -> Jobs]  BY <1>1, <3>2, <3>4
    <3>6. job.pid = p  BY DEF job
    <3>7. QED  BY <1>1, <1>2, <3>3, <3>4, <3>5, <3>6 DEF JobsAreForUsed
  <2>5. QED
    BY <2>1, <2>2, <2>3, <2>4
       DEF Next, OperatorUnbind, BindApply, FoundAnswer, DerivedAnswer, Finish,
           Restart, Create, DeleteAccount, OtherSave, vars
<1>6. QED  BY <1>3, <1>4, <1>5

-----------------------------------------------------------------------------
(* Theorems.                                                               *)

(* IInv is inductive.                                                      *)
THEOREM Invariance == Spec => []IInv
<1>1. Init => IInv
  <2> SUFFICES ASSUME Init PROVE IInv
    OBVIOUS
  <2>1. TypeOK
    BY BoundsAreNaturals DEF Init, TypeOK, Jobs
  <2>2. Exclusive
    BY DEF Init, Exclusive, ExclusiveIn, ListedBy, Entries
  <2>3. UnusedAreUnbound /\ JobsAreForUsed /\ FileIsMemory
    BY DEF Init, UnusedAreUnbound, JobsAreForUsed, FileIsMemory
  <2>4. QED  BY <2>1, <2>2, <2>3 DEF IInv
<1>2. IInv /\ [Next]_vars => IInv'
  <2> SUFFICES ASSUME IInv, [Next]_vars PROVE IInv'
    OBVIOUS
  <2>1. TypeOK'
    BY ExclusiveStep, RestStep, AccountSteps DEF TypeOK, AccountsOK
  <2>2. QED  BY <2>1, ExclusiveStep, UnboundStep, RestStep, AccountSteps DEF IInv, AccountsOK
<1>3. QED  BY <1>1, <1>2, PTL DEF Spec

(* Every variable keeps its type.                                          *)
THEOREM TypeCorrect == Spec => []TypeOK
BY Invariance, PTL DEF IInv

(* No console identity is ever bound to two accounts, in memory or in      *)
(* nintendo_bindings.json.                                                 *)
THEOREM BindingsAreExclusive == Spec => []Exclusive
BY Invariance, PTL DEF IInv

(* An account created under a PID nobody had owns no console; what the     *)
(* file binds to a PID that a failed write of accounts.json and a restart  *)
(* handed out again is all a new account can find bound to it.             *)
THEOREM FreshPidsAreUnbound == Spec => FreshPidOwnsNothing
<1>1. IInv /\ [Next]_vars => [BornUnbound]_vars
  BY UnboundStep
<1>2. QED  BY <1>1, Invariance, PTL DEF Spec, FreshPidOwnsNothing

(* Every step of the table is a claim by one account of identities nobody  *)
(* else owns, a release, or the reload of an ownership once held.          *)
THEOREM ImplementsOwnership == Spec => OwnershipIsRespected
<1>1. Init => Ownership!AInit
  <2> SUFFICES ASSUME Init PROVE Ownership!AInit
    OBVIOUS
  <2>1. ExclusiveIn(table) /\ disk = table
    BY DEF Init, ExclusiveIn, ListedBy, Entries
  <2>2. \A i \in Ids : OwnerIn(table)[i] = Nobody
    <3>1. \A p \in Pids, i \in Ids : ~HasId(table[p], i)
      BY DEF Init, HasId
    <3>2. QED  BY <2>1, <3>1, OwnerLists
  <2>3. OwnerIn(table) = [i \in Ids |-> OwnerIn(table)[i]]
    BY DEF OwnerIn
  <2>4. QED  BY <2>1, <2>2, <2>3 DEF Ownership!AInit
<1>2. IInv /\ [Next]_vars => [Ownership!ANext]_(Ownership!avars)
  <2> SUFFICES ASSUME IInv, [Next]_vars
               PROVE  Ownership!ANext \/ UNCHANGED Ownership!avars
    OBVIOUS
  <2>0. /\ OwnerIn(table)' = OwnerIn(table') /\ OwnerIn(disk)' = OwnerIn(disk')
    BY DEF OwnerIn, ListedBy, Entries
  <2>1. CASE Untouched
    BY <2>1 DEF Untouched, Ownership!avars
  <2>2. CASE Reload
    BY <2>0, <2>2 DEF Reload, Ownership!ANext, Ownership!Reload
  <2>3. ASSUME NEW p \in Pids, NEW S \in SUBSET Ids, TableStep(p, S)
        PROVE  Ownership!ANext
    <3>1. PICK list : /\ Replaces(table, p, list, S)
                      /\ Save([table EXCEPT ![p] = list])
      BY <2>3 DEF TableStep
    <3> DEFINE u == [table EXCEPT ![p] = list]
    <3>2. ClaimIn(OwnerIn(table), OwnerIn(u), p, S)
      <4>1. table \in Tables /\ ExclusiveIn(table)
        BY DEF IInv, TypeOK, Exclusive
      <4>2. Replaces(table, p, list, S)
        BY <3>1
      <4>3. QED  BY <4>1, <4>2, ReplaceIsClaim
    <3>3. table' = u /\ (disk' = u \/ disk' = disk)
      BY <3>1 DEF Save
    <3>4. Ownership!ASave
      BY <2>0, <3>3 DEF Ownership!ASave
    <3> HIDE DEF u
    <3>5. OwnerIn(u) \in Ownership!Owners
      <4>1. ExclusiveIn(u)
        BY <3>1, ReplaceKeepsExclusive DEF IInv, TypeOK, Exclusive, u
      <4>2. \A i \in Ids : OwnerIn(u)[i] \in Pids \cup {Nobody}
        BY <4>1, OwnerLists
      <4>3. OwnerIn(u) = [i \in Ids |-> OwnerIn(u)[i]]
        BY DEF OwnerIn
      <4>4. QED  BY <4>2, <4>3 DEF Ownership!Owners
    <3>6. \A i \in Ids : OwnerIn(u)[i] # OwnerIn(table)[i] =>
            {OwnerIn(table)[i], OwnerIn(u)[i]} = {Nobody, p}
      BY <3>2 DEF ClaimIn
    <3>7. Ownership!Change(p)
      BY <2>0, <3>3, <3>4, <3>5, <3>6 DEF Ownership!Change
    <3>8. QED  BY <3>7 DEF Ownership!ANext
  <2>4. QED  BY <2>1, <2>2, <2>3, TableSteps
<1>3. QED
  BY <1>1, <1>2, Invariance, PTL DEF Spec, OwnershipIsRespected, Ownership!ASpec

=============================================================================
