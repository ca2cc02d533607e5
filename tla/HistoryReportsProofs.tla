-------------------------- MODULE HistoryReportsProofs --------------------------
(***************************************************************************)
(* Proofs about the two parts of the server that keep what players send    *)
(* and share nothing else: History, and then Reports.                      *)
(*                                                                         *)
(* History, for any titles, play times, number of pushes at once, failed   *)
(* writes and restarts: a push that nobody overlaps is stored and loses    *)
(* nothing, and whatever overlapping pushes do to each other, nothing is   *)
(* stored that was not pushed.                                             *)
(*                                                                         *)
(* Reports, for any accounts, size and age of the inbox, quota and number  *)
(* of reports sent at once: the quota is kept, it keeps one account from   *)
(* drowning the others, and a mark hits the report it was meant for.       *)
(***************************************************************************)
EXTENDS History, Reports, TLAPS, FiniteSetTheorems, NaturalsInduction, WellFoundedInduction

(* A push that overlapped nobody so far.                                   *)
Alone(w) == Busy(w) /\ ~work[w].raced

AloneIsAlone == \A v, w \in Workers : Alone(w) /\ v # w => ~Busy(v)

(* It writes to the file it opened under the temporary name, which has its *)
(* text once it is written, and that text keeps what is stored.            *)
AloneIsUndisturbed ==
  \A w \in Workers : Alone(w) =>
    /\ Upto(loadHistory, work[w].merged)
    /\ work[w].at = "write" => work[w].ino = tmp /\ content[tmp] = Empty
    /\ work[w].at = "rename" => tmp # None /\ content[tmp] = work[w].merged

InFlightWasPushed == \A w \in Workers : Busy(w) => Upto(work[w].merged, pushed)

(* What may come to be renamed is of a push that has yet to rename: the    *)
(* temporary file another process left is truncated before.                *)
Past == \E w \in Workers : work[w].at \in {"write", "rename"}

TmpIsInFlight ==
  tmp # None /\ Past =>
    \/ content[tmp] \in {Empty, Torn}
    \/ \E w \in Workers : work[w].at = "rename" /\ content[tmp] = work[w].merged

IInv ==
  /\ TypeOK /\ AloneIsAlone /\ AloneIsUndisturbed
  /\ StoredWasPushed /\ InFlightWasPushed /\ TmpIsInFlight

-----------------------------------------------------------------------------
(* Histories by their play times.                                          *)

LEMMA MaxOfBounded ==
  ASSUME NEW n \in Nat, NEW S \in SUBSET (0..n), S # {}
  PROVE  Max(S) \in S /\ \A x \in S : Max(S) >= x
<1> DEFINE R == {ss \in Nat \X Nat : ss[1] < ss[2]}
           left == {n - x : x \in S}
<1>1. left \subseteq Nat /\ left # {}
  <2>1. PICK x \in S : TRUE
    OBVIOUS
  <2>2. n - x \in left
    BY <2>1
  <2>3. \A y \in S : n - y \in Nat
    OBVIOUS
  <2>4. QED  BY <2>2, <2>3
<1>2. PICK m \in left : \A k \in left : ~(<<k, m>> \in R)
  <2>1. IsWellFoundedOn(R, Nat)
    BY NatLessThanWellFounded DEF OpToRel
  <2> HIDE DEF left, R
  <2>2. QED  BY <1>1, <2>1, WFMin
<1>3. PICK top \in S : m = n - top
  OBVIOUS
<1>4. \A x \in S : top >= x
  <2> SUFFICES ASSUME NEW x \in S PROVE top >= x
    OBVIOUS
  <2>1. n - x \in left /\ n - x \in Nat /\ m \in Nat
    BY <1>1
  <2>2. ~(n - x < m)
    BY <1>2, <2>1
  <2>3. QED  BY <1>3, <2>2
<1>5. QED  BY <1>4 DEF Max

LEMMA MostIsUpper ==
  ASSUME NEW g \in Histories, NEW h \in Histories
  PROVE  /\ Most(g, h) \in Histories
         /\ Upto(g, Most(g, h)) /\ Upto(h, Most(g, h))
         /\ \A k \in Histories : Upto(g, k) /\ Upto(h, k) => Upto(Most(g, h), k)
<1>1. ASSUME NEW t \in Titles
      PROVE  /\ Max({g[t], h[t]}) \in {g[t], h[t]}
             /\ Max({g[t], h[t]}) >= g[t] /\ Max({g[t], h[t]}) >= h[t]
  <2>1. {g[t], h[t]} \in SUBSET (0..MaxSeconds) /\ MaxSeconds \in Nat
    BY BoundsAreNaturals DEF Histories
  <2>2. QED  BY <2>1, MaxOfBounded
<1>2. \A t \in Titles : g[t] \in 0..MaxSeconds /\ h[t] \in 0..MaxSeconds
  BY DEF Histories
<1>3. Most(g, h) \in Histories
  BY <1>1, <1>2 DEF Most, Histories
<1>4. QED  BY <1>1, <1>2, <1>3 DEF Most, Upto

LEMMA UptoOrders ==
  /\ \A h \in Histories : Upto(h, h) /\ Upto(NoTitles, h)
  /\ \A g, h, k \in Histories : Upto(g, h) /\ Upto(h, k) => Upto(g, k)
BY BoundsAreNaturals DEF Upto, Histories, NoTitles

LEMMA NoTitlesIsOne == NoTitles \in Histories
BY BoundsAreNaturals DEF Histories, NoTitles

LEMMA LoadedIsOne ==
  ASSUME TypeOK
  PROVE  loadHistory \in Histories
BY NoTitlesIsOne DEF TypeOK, loadHistory

LEMMA JobKinds ==
  ASSUME TypeOK, NEW w \in Workers
  PROVE  /\ Busy(w) <=> work[w].at # "idle"
         /\ Busy(w) => work[w].merged \in Histories /\ work[w].raced \in BOOLEAN
         /\ work[w].at \in {"open", "rename"} =>
              work[w] \in [at : {"open", "rename"}, merged : Histories, raced : BOOLEAN]
         /\ work[w].at = "write" =>
              work[w] \in [at : {"write"}, merged : Histories, raced : BOOLEAN, ino : Inodes]
         /\ work[w].at \in {"idle", "open", "write", "rename"}
<1>1. work[w] \in Jobs
  BY DEF TypeOK
<1>2. QED  BY <1>1 DEF Jobs, Idle, Busy

LEMMA IInvHolds ==
  ASSUME IInv
  PROVE  TypeOK /\ StoredWasPushed
BY DEF IInv

-----------------------------------------------------------------------------
(* A push that goes on, or ends.                                           *)

LEMMA MovesOn ==
  ASSUME IInv, NEW w \in Workers, Busy(w), NEW job \in Jobs, work' = [work EXCEPT ![w] = job],
         job # Idle => job.merged = work[w].merged /\ job.raced = work[w].raced,
         UNCHANGED pushed
  PROVE  /\ work' \in [Workers -> Jobs]
         /\ \A v \in Workers : work'[v] = IF v = w THEN job ELSE work[v]
         /\ Alone(w)' => Alone(w)
         /\ \A v \in Workers \ {w} : ~Alone(v)'
         /\ AloneIsAlone' /\ InFlightWasPushed'
<1>1. /\ work' \in [Workers -> Jobs]
      /\ \A v \in Workers : work'[v] = IF v = w THEN job ELSE work[v]
  BY DEF IInv, TypeOK
<1>2. \A v \in Workers \ {w} : ~Alone(v) /\ (Alone(v)' <=> Alone(v)) /\ (Busy(v)' <=> Busy(v))
  BY <1>1 DEF IInv, AloneIsAlone, Alone, Busy
<1>3. Alone(w)' => Alone(w)
  BY <1>1 DEF Alone, Busy
<1>4. AloneIsAlone'
  BY <1>2, <1>3 DEF IInv, AloneIsAlone
<1>5. InFlightWasPushed'
  BY <1>1, <1>2 DEF IInv, InFlightWasPushed, Busy, Upto
<1>6. QED  BY <1>1, <1>2, <1>3, <1>4, <1>5

(* Nobody has the file that is opened under the temporary name for the     *)
(* history's own.                                                          *)
LEMMA SaveOpenKeeps ==
  ASSUME IInv, NEW w \in Workers, SaveOpen(w)
  PROVE  IInv'
<1>1. PICK i \in IF tmp = None THEN Unused ELSE {tmp} :
        Writing(w, i) /\ content' = [content EXCEPT ![i] = Empty] /\ tmp' = i
  BY DEF SaveOpen
<1>2. i \in Inodes /\ i # path /\ i # None
  BY NoneIsNoInode DEF IInv, TypeOK, Unused
<1>3. UNCHANGED <<path, banned, pushed, failures, restarts>>
  BY DEF SaveOpen
<1>4. work[w] \in [at : {"open", "rename"}, merged : Histories, raced : BOOLEAN] /\ Busy(w)
  BY JobKinds DEF IInv, SaveOpen
<1> DEFINE job == [at |-> "write", merged |-> work[w].merged, raced |-> work[w].raced, ino |-> i]
<1>5. /\ job \in Jobs /\ job # Idle /\ work' = [work EXCEPT ![w] = job]
      /\ job.merged = work[w].merged /\ job.raced = work[w].raced
      /\ job.at = "write" /\ job.ino = i
  BY <1>1, <1>2, <1>4 DEF Jobs, Idle, Writing
<1> HIDE DEF job
<1>6. /\ work' \in [Workers -> Jobs]
      /\ \A v \in Workers : work'[v] = IF v = w THEN job ELSE work[v]
      /\ Alone(w)' => Alone(w)
      /\ \A v \in Workers \ {w} : ~Alone(v)'
      /\ AloneIsAlone' /\ InFlightWasPushed'
  BY <1>3, <1>4, <1>5, MovesOn
<1>7. content'[i] = Empty /\ loadHistory' = loadHistory
  BY <1>1, <1>2, <1>3 DEF IInv, TypeOK, loadHistory
<1>8. TypeOK'
  <2>1. content' \in [Inodes -> Histories \cup {Empty, Torn}]
    BY <1>1 DEF IInv, TypeOK
  <2>2. QED  BY <1>1, <1>2, <1>3, <1>6, <2>1 DEF IInv, TypeOK
<1>9. AloneIsUndisturbed'
  <2> SUFFICES ASSUME Alone(w)'
               PROVE  Upto(loadHistory', job.merged) /\ job.ino = tmp' /\ content'[tmp'] = Empty
    BY <1>5, <1>6 DEF AloneIsUndisturbed, Upto
  <2>1. Upto(loadHistory, work[w].merged)
    BY <1>6 DEF IInv, AloneIsUndisturbed
  <2>2. QED  BY <1>1, <1>5, <1>7, <2>1
<1>10. StoredWasPushed'
  BY <1>3, <1>7 DEF IInv, StoredWasPushed, Upto
<1>11. TmpIsInFlight'
  BY <1>1, <1>7 DEF TmpIsInFlight
<1>12. QED  BY <1>6, <1>8, <1>9, <1>10, <1>11 DEF IInv

LEMMA SaveWriteKeeps ==
  ASSUME IInv, NEW w \in Workers, SaveWrite(w)
  PROVE  IInv'
<1>1. /\ work[w] \in [at : {"write"}, merged : Histories, raced : BOOLEAN, ino : Inodes]
      /\ Busy(w)
  BY JobKinds DEF IInv, SaveWrite
<1>2. PICK i \in Inodes : i = work[w].ino
  BY <1>1
<1>3. UNCHANGED <<path, tmp, banned, pushed, restarts>>
  BY DEF SaveWrite
<1>4. PICK text \in {work[w].merged, Torn} : content' = [content EXCEPT ![i] = text]
  BY <1>2 DEF SaveWrite
<1>5. PICK job \in Jobs :
        /\ work' = [work EXCEPT ![w] = job]
        /\ \/ job = Idle /\ text = Torn
           \/ /\ job \in [at : {"rename"}, merged : {work[w].merged}, raced : {work[w].raced}]
              /\ text = Torn => content[i] # Empty
  <2> DEFINE next == [at |-> "rename", merged |-> work[w].merged, raced |-> work[w].raced]
  <2>1. Idle \in Jobs /\ next \in Jobs
    BY <1>1 DEF Jobs
  <2>2. next \in [at : {"rename"}, merged : {work[w].merged}, raced : {work[w].raced}]
    OBVIOUS
  <2>3. work[w].merged # Torn
    BY <1>1, FilesAreNoHistories
  <2>4. content'[i] = text
    BY <1>4 DEF IInv, TypeOK
  <2>5. \/ work' = [work EXCEPT ![w] = Idle] /\ content' = [content EXCEPT ![i] = Torn]
        \/ /\ work' = [work EXCEPT ![w] = next]
           /\ content' = [content EXCEPT ![i] = work[w].merged] \/ content[i] # Empty
    BY <1>2 DEF SaveWrite
  <2>6. content' = [content EXCEPT ![i] = Torn] => text = Torn
    BY <2>4 DEF IInv, TypeOK
  <2>7. content' = [content EXCEPT ![i] = work[w].merged] => text # Torn
    BY <2>3, <2>4 DEF IInv, TypeOK
  <2> HIDE DEF next
  <2>8. QED  BY <2>1, <2>2, <2>5, <2>6, <2>7
<1>6. /\ work' \in [Workers -> Jobs]
      /\ \A v \in Workers : work'[v] = IF v = w THEN job ELSE work[v]
      /\ Alone(w)' => Alone(w)
      /\ \A v \in Workers \ {w} : ~Alone(v)'
      /\ AloneIsAlone' /\ InFlightWasPushed'
  <2>1. job # Idle => job.merged = work[w].merged /\ job.raced = work[w].raced
    BY <1>5
  <2>2. QED  BY <1>1, <1>3, <1>5, <2>1, MovesOn
<1>7. \A j \in Inodes : content'[j] = IF j = i THEN text ELSE content[j]
  BY <1>4 DEF IInv, TypeOK
<1>8. path # i => loadHistory' = loadHistory
  BY <1>3, <1>7 DEF IInv, TypeOK, loadHistory
<1>9. TypeOK'
  <2>1. content' \in [Inodes -> Histories \cup {Empty, Torn}]
    BY <1>1, <1>4 DEF IInv, TypeOK
  <2>2. failures' \in 0..MaxSaveFailures
    BY BoundsAreNaturals DEF IInv, TypeOK, SaveWrite
  <2>3. QED  BY <1>3, <1>6, <2>1, <2>2 DEF IInv, TypeOK
<1>10. AloneIsUndisturbed'
  <2> SUFFICES ASSUME Alone(w)'
               PROVE  /\ Upto(loadHistory', job.merged)
                      /\ job.at = "rename" /\ tmp # None /\ content'[tmp] = job.merged
    BY <1>3, <1>6 DEF AloneIsUndisturbed, Upto
  <2>1. /\ Upto(loadHistory, work[w].merged) /\ i = tmp /\ content[i] = Empty
    BY <1>1, <1>2, <1>6 DEF IInv, AloneIsUndisturbed
  <2>2. job # Idle
    BY <1>6 DEF Alone, Busy
  <2>3. path # i /\ tmp # None
    BY <2>1, NoneIsNoInode DEF IInv, TypeOK
  <2>4. QED  BY <1>2, <1>5, <1>7, <1>8, <2>1, <2>2, <2>3
<1>11. StoredWasPushed'
  <2>1. CASE path = i
    <3>1. loadHistory' \in {NoTitles, work[w].merged}
      BY <1>3, <1>7, <2>1, FilesAreNoHistories DEF loadHistory
    <3>2. Upto(NoTitles, pushed) /\ Upto(work[w].merged, pushed)
      BY <1>1, UptoOrders DEF IInv, TypeOK, InFlightWasPushed
    <3>3. QED  BY <1>3, <3>1, <3>2 DEF StoredWasPushed, Upto
  <2>2. CASE path # i
    BY <1>3, <1>8, <2>2 DEF IInv, StoredWasPushed, Upto
  <2>3. QED  BY <2>1, <2>2
<1>12. TmpIsInFlight'
  <2> SUFFICES ASSUME tmp # None
               PROVE  \/ content'[tmp] \in {Empty, Torn}
                      \/ \E v \in Workers : work'[v].at = "rename" /\ content'[tmp] = work'[v].merged
    BY <1>3 DEF TmpIsInFlight
  <2>1. CASE tmp = i
    BY <1>5, <1>6, <1>7, <2>1
  <2>2. CASE tmp # i
    <3>1. content'[tmp] = content[tmp]
      BY <1>7, <2>2 DEF IInv, TypeOK
    <3>2. \/ content[tmp] \in {Empty, Torn}
          \/ \E v \in Workers : work[v].at = "rename" /\ content[tmp] = work[v].merged
      BY <1>1 DEF IInv, TmpIsInFlight, Past
    <3>3. QED  BY <1>1, <1>6, <3>1, <3>2
  <2>3. QED  BY <2>1, <2>2
<1>13. QED  BY <1>6, <1>9, <1>10, <1>11, <1>12 DEF IInv

(* Whatever the temporary name is on by now was pushed.                    *)
LEMMA SaveRenameKeeps ==
  ASSUME IInv, NEW w \in Workers, SaveRename(w)
  PROVE  IInv'
<1>1. work[w].at = "rename" /\ Busy(w)
  BY JobKinds DEF IInv, SaveRename
<1>2. /\ path' = IF tmp = None THEN path ELSE tmp
      /\ tmp' = None /\ work' = [work EXCEPT ![w] = Idle]
      /\ UNCHANGED <<content, banned, pushed, failures, restarts>>
  BY DEF SaveRename
<1>3. Idle \in Jobs
  BY DEF Jobs
<1>4. /\ work' \in [Workers -> Jobs]
      /\ \A v \in Workers : work'[v] = IF v = w THEN Idle ELSE work[v]
      /\ \A v \in Workers \ {w} : ~Alone(v)'
      /\ AloneIsAlone' /\ InFlightWasPushed'
  BY <1>1, <1>2, <1>3, MovesOn
<1>5. TypeOK'
  BY <1>2, <1>4 DEF IInv, TypeOK
<1>6. AloneIsUndisturbed'
  BY <1>4 DEF AloneIsUndisturbed, Alone, Busy
<1>7. StoredWasPushed'
  <2>1. CASE tmp = None
    BY <1>2, <2>1 DEF IInv, StoredWasPushed, Upto, loadHistory
  <2>2. CASE tmp # None
    <3>1. loadHistory' = IF content[tmp] \in {Empty, Torn} THEN NoTitles ELSE content[tmp]
      BY <1>2, <2>2 DEF loadHistory
    <3>2. \/ content[tmp] \in {Empty, Torn}
          \/ \E v \in Workers : Busy(v) /\ content[tmp] = work[v].merged
      BY <1>1, <2>2, JobKinds DEF IInv, TmpIsInFlight, Past
    <3>3. Upto(NoTitles, pushed) /\ \A v \in Workers : Busy(v) => Upto(work[v].merged, pushed)
      BY UptoOrders DEF IInv, TypeOK, InFlightWasPushed
    <3>4. QED  BY <1>2, <3>1, <3>2, <3>3 DEF StoredWasPushed, Upto
  <2>3. QED  BY <2>1, <2>2
<1>8. TmpIsInFlight'
  BY <1>2 DEF TmpIsInFlight
<1>9. QED  BY <1>4, <1>5, <1>6, <1>7, <1>8 DEF IInv


-----------------------------------------------------------------------------
(* A push begins; the account is banned; the process restarts.             *)

LEMMA PushKeeps ==
  ASSUME IInv, NEW w \in Workers, NEW incoming \in Histories, Push(w, incoming)
  PROVE  IInv'
<1>1. PICK existing \in Readings :
        work' = [v \in Workers |->
          IF v = w
            THEN [at |-> "open", merged |-> mergeHistory(existing, incoming),
                  raced |-> \E u \in Workers : Busy(u)]
            ELSE IF Busy(v) THEN [work[v] EXCEPT !.raced = TRUE] ELSE Idle]
  BY DEF Push
<1>2. /\ UNCHANGED <<content, path, tmp, banned, failures, restarts>>
      /\ pushed' = Most(pushed, incoming) /\ ~Busy(w)
  BY DEF Push, FileSame, Busy
<1>3. loadHistory' = loadHistory /\ loadHistory \in Histories /\ pushed \in Histories
  BY <1>2, LoadedIsOne DEF IInv, TypeOK, loadHistory
<1>4. existing \in {loadHistory, NoTitles} /\ existing \in Histories
  BY <1>3, NoTitlesIsOne DEF Readings
<1>5. PICK merged \in Histories :
        /\ merged = mergeHistory(existing, incoming)
        /\ Upto(existing, merged) /\ Upto(merged, pushed')
  <2>1. Upto(existing, pushed)
    BY <1>3, <1>4, UptoOrders DEF IInv, StoredWasPushed
  <2>2. /\ pushed' \in Histories /\ Upto(pushed, pushed') /\ Upto(incoming, pushed')
    BY <1>2, <1>3, MostIsUpper
  <2>3. Upto(existing, pushed')
    BY <1>3, <1>4, <2>1, <2>2, UptoOrders
  <2>4. QED  BY <1>4, <2>2, <2>3, MostIsUpper DEF mergeHistory
<1>6. PICK raced \in BOOLEAN :
        /\ raced <=> \E u \in Workers : Busy(u)
        /\ work'[w] = [at |-> "open", merged |-> merged, raced |-> raced]
  BY <1>1, <1>5
<1>7. ASSUME NEW v \in Workers, v # w
      PROVE  /\ ~Busy(v) => work'[v] = Idle /\ work[v] = Idle
             /\ Busy(v) => /\ work'[v] \in Jobs /\ work'[v] # Idle
                           /\ work'[v].raced = TRUE /\ work'[v].merged = work[v].merged
                           /\ work'[v].at = work[v].at
  <2>1. CASE ~Busy(v)
    BY <1>1, <1>7, <2>1 DEF Busy
  <2>2. CASE Busy(v)
    <3>1. work'[v] = [work[v] EXCEPT !.raced = TRUE]
      BY <1>1, <1>7, <2>2
    <3>2. CASE work[v] \in [at : {"open", "rename"}, merged : Histories, raced : BOOLEAN]
      <4>1. /\ work'[v] \in [at : {"open", "rename"}, merged : Histories, raced : BOOLEAN]
            /\ work'[v].at = work[v].at /\ work'[v].merged = work[v].merged /\ work'[v].raced = TRUE
        BY <3>1, <3>2
      <4>2. QED  BY <2>2, <4>1 DEF Jobs, Idle
    <3>3. CASE work[v] \in [at : {"write"}, merged : Histories, raced : BOOLEAN, ino : Inodes]
      <4>1. /\ work'[v] \in [at : {"write"}, merged : Histories, raced : BOOLEAN, ino : Inodes]
            /\ work'[v].at = work[v].at /\ work'[v].merged = work[v].merged /\ work'[v].raced = TRUE
        BY <3>1, <3>3
      <4>2. QED  BY <2>2, <4>1 DEF Jobs, Idle
    <3>4. QED  BY <2>2, <3>2, <3>3, JobKinds DEF IInv
  <2>3. QED  BY <2>1, <2>2
<1>8. Busy(w)' /\ work'[w] \in Jobs /\ work'[w].at = "open" /\ work'[w].merged = merged
  BY <1>6 DEF Jobs, Idle, Busy
<1>9. TypeOK'
  <2>1. \A v \in Workers : work'[v] \in Jobs
    BY <1>7, <1>8 DEF Jobs
  <2>2. work' \in [Workers -> Jobs]
    BY <1>1, <2>1
  <2>3. pushed' \in Histories
    BY <1>2, <1>3, MostIsUpper
  <2>4. QED  BY <1>2, <2>2, <2>3 DEF IInv, TypeOK
<1>10. \A v \in Workers \ {w} : ~Alone(v)'
  BY <1>7 DEF Alone, Busy
<1>11. Alone(w)' => \A v \in Workers : ~Busy(v)
  BY <1>6 DEF Alone
<1>12. AloneIsAlone'
  BY <1>7, <1>10, <1>11 DEF AloneIsAlone, Busy
<1>13. AloneIsUndisturbed'
  <2> SUFFICES ASSUME Alone(w)' PROVE Upto(loadHistory, merged)
    BY <1>3, <1>8, <1>10 DEF AloneIsUndisturbed, Upto
  <2>1. {v \in Workers : work[v].at = "write" /\ work[v].ino = path} = {}
    BY <1>11, JobKinds DEF IInv
  <2>2. existing = loadHistory
    BY <2>1 DEF Readings
  <2>3. QED  BY <1>5, <2>2
<1>14. StoredWasPushed'
  <2>1. Upto(pushed, pushed') /\ pushed' \in Histories
    BY <1>2, <1>3, MostIsUpper
  <2>2. QED  BY <1>3, <2>1, UptoOrders DEF IInv, StoredWasPushed, Upto
<1>15. InFlightWasPushed'
  <2> SUFFICES ASSUME NEW v \in Workers, Busy(v)' PROVE Upto(work'[v].merged, pushed')
    BY DEF InFlightWasPushed, Upto
  <2>1. CASE v = w
    BY <1>5, <1>8, <2>1
  <2>2. CASE v # w
    <3>1. Busy(v) /\ work'[v].merged = work[v].merged
      BY <1>7, <2>2 DEF Busy
    <3>2. work[v].merged \in Histories /\ Upto(work[v].merged, pushed)
      BY <3>1, JobKinds DEF IInv, InFlightWasPushed
    <3>3. Upto(pushed, pushed') /\ pushed' \in Histories
      BY <1>2, <1>3, MostIsUpper
    <3>4. QED  BY <1>3, <3>1, <3>2, <3>3, UptoOrders
  <2>3. QED  BY <2>1, <2>2
<1>16. TmpIsInFlight'
  <2>1. ASSUME NEW v \in Workers, work'[v].at \in {"write", "rename"}
        PROVE  v # w /\ work[v].at = work'[v].at
    BY <1>7, <1>8, <2>1 DEF Idle
  <2>2. Past' => Past
    BY <2>1 DEF Past
  <2>3. ASSUME NEW v \in Workers, work[v].at = "rename"
        PROVE  work'[v].at = "rename" /\ work'[v].merged = work[v].merged
    <3>1. Busy(v) /\ v # w
      BY <1>2, <2>3, JobKinds DEF IInv
    <3>2. QED  BY <1>7, <2>3, <3>1
  <2>4. QED  BY <1>2, <2>2, <2>3 DEF IInv, TmpIsInFlight
<1>17. QED  BY <1>9, <1>12, <1>13, <1>14, <1>15, <1>16 DEF IInv

LEMMA InFlightIsUpper ==
  ASSUME TypeOK
  PROVE  /\ InFlight \in Histories
         /\ \A w \in Workers : Busy(w) => Upto(work[w].merged, InFlight)
<1> DEFINE times(t) == {0} \cup {work[w].merged[t] : w \in {v \in Workers : Busy(v)}}
<1>1. ASSUME NEW t \in Titles
      PROVE  Max(times(t)) \in 0..MaxSeconds /\ \A x \in times(t) : Max(times(t)) >= x
  <2>1. ASSUME NEW w \in Workers, Busy(w)
        PROVE  work[w].merged[t] \in 0..MaxSeconds
    BY <2>1, JobKinds DEF Histories
  <2>2. times(t) \in SUBSET (0..MaxSeconds) /\ times(t) # {}
    BY <2>1, BoundsAreNaturals
  <2> HIDE DEF times
  <2>3. QED  BY <2>2, MaxOfBounded, BoundsAreNaturals
<1>2. InFlight = [t \in Titles |-> Max(times(t))]
  BY DEF InFlight
<1>3. \A w \in Workers, t \in Titles : Busy(w) => work[w].merged[t] \in times(t)
  OBVIOUS
<1> HIDE DEF times
<1>4. InFlight \in Histories
  BY <1>1, <1>2 DEF Histories
<1>5. ASSUME NEW w \in Workers, Busy(w), NEW t \in Titles
      PROVE  work[w].merged[t] <= InFlight[t]
  <2>1. work[w].merged[t] \in times(t) /\ work[w].merged[t] \in 0..MaxSeconds
    BY <1>3, <1>5, JobKinds DEF Histories
  <2>2. QED  BY <1>1, <1>2, <2>1, BoundsAreNaturals
<1>6. QED  BY <1>4, <1>5 DEF Upto

LEMMA BanAccountKeeps ==
  ASSUME IInv, BanAccount
  PROVE  IInv'
<1>1. /\ path' = None /\ banned' = TRUE /\ pushed' = InFlight
      /\ UNCHANGED <<content, tmp, work, failures, restarts>>
  BY DEF BanAccount
<1>2. /\ loadHistory' = NoTitles
      /\ InFlight \in Histories
      /\ \A w \in Workers : Busy(w) => Upto(work[w].merged, InFlight)
  BY <1>1, InFlightIsUpper DEF IInv, loadHistory
<1>3. TypeOK'
  BY <1>1, <1>2 DEF IInv, TypeOK
<1>4. AloneIsAlone' /\ TmpIsInFlight'
  BY <1>1 DEF IInv, AloneIsAlone, Alone, Busy, TmpIsInFlight, Past
<1>5. AloneIsUndisturbed'
  <2> SUFFICES ASSUME NEW w \in Workers, Alone(w)
               PROVE  Upto(NoTitles, work[w].merged)
    BY <1>1, <1>2 DEF IInv, AloneIsUndisturbed, Alone, Busy, Upto
  <2>1. work[w].merged \in Histories
    BY JobKinds DEF IInv, Alone
  <2>2. QED  BY <2>1, UptoOrders
<1>6. StoredWasPushed'
  <2>1. Upto(NoTitles, InFlight)
    BY <1>2, UptoOrders
  <2>2. QED  BY <1>1, <1>2, <2>1 DEF StoredWasPushed, Upto
<1>7. InFlightWasPushed'
  BY <1>1, <1>2 DEF InFlightWasPushed, Busy, Upto
<1>8. QED  BY <1>3, <1>4, <1>5, <1>6, <1>7 DEF IInv

LEMMA RestartKeeps ==
  ASSUME IInv, Restart
  PROVE  IInv'
<1>1. \A w \in Workers : work'[w] = Idle /\ ~Busy(w)'
  BY DEF Restart, Busy
<1>2. UNCHANGED <<content, path, tmp, banned, pushed, failures>>
  BY DEF Restart, FileSame
<1>3. TypeOK'
  BY <1>2, BoundsAreNaturals DEF IInv, TypeOK, Restart, Jobs
<1>4. AloneIsAlone' /\ AloneIsUndisturbed' /\ InFlightWasPushed'
  BY <1>1 DEF AloneIsAlone, AloneIsUndisturbed, InFlightWasPushed, Alone
<1>5. TmpIsInFlight'
  BY <1>1 DEF TmpIsInFlight, Past, Idle
<1>6. StoredWasPushed'
  BY <1>2 DEF IInv, StoredWasPushed, Upto, loadHistory
<1>7. QED  BY <1>3, <1>4, <1>5, <1>6 DEF IInv

-----------------------------------------------------------------------------
(* The invariant and the theorems.                                         *)

LEMMA InitHolds == Init => IInv
<1> SUFFICES ASSUME Init PROVE IInv
  OBVIOUS
<1>1. \A w \in Workers : work[w] = Idle /\ ~Busy(w)
  BY DEF Init, Busy
<1>2. TypeOK
  <2>1. work \in [Workers -> Jobs]
    BY DEF Init, Jobs
  <2>2. failures \in 0..MaxSaveFailures /\ restarts \in 0..MaxRestarts
    BY BoundsAreNaturals DEF Init
  <2>3. QED  BY <2>1, <2>2, NoTitlesIsOne, Zenon DEF Init, TypeOK
<1>3. AloneIsAlone /\ AloneIsUndisturbed /\ InFlightWasPushed
  BY <1>1 DEF AloneIsAlone, AloneIsUndisturbed, InFlightWasPushed, Alone
<1>4. StoredWasPushed
  BY NoTitlesIsOne, UptoOrders DEF Init, StoredWasPushed, loadHistory
<1>5. TmpIsInFlight
  BY DEF Init, TmpIsInFlight
<1>6. QED  BY <1>2, <1>3, <1>4, <1>5 DEF IInv

LEMMA NextKeeps == IInv /\ [Next]_vars => IInv'
<1> SUFFICES ASSUME IInv, [Next]_vars PROVE IInv'
  OBVIOUS
<1>1. ASSUME NEW w \in Workers, NEW incoming \in Histories,
             Push(w, incoming) \/ PushPlayLog(w, incoming)
      PROVE  IInv'
  BY <1>1, PushKeeps DEF PushPlayLog
<1>2. ASSUME NEW w \in Workers, SaveOpen(w) \/ SaveWrite(w) \/ SaveRename(w)
      PROVE  IInv'
  BY <1>2, SaveOpenKeeps, SaveWriteKeeps, SaveRenameKeeps
<1>3. CASE UNCHANGED vars
  BY <1>3 DEF vars, IInv, TypeOK, AloneIsAlone, AloneIsUndisturbed, InFlightWasPushed,
     StoredWasPushed, TmpIsInFlight, Past, Alone, Busy, Upto, loadHistory
<1>4. QED
  BY <1>1, <1>2, <1>3, BanAccountKeeps, RestartKeeps DEF Next

LEMMA Invariance == Spec => []IInv
BY InitHolds, NextKeeps, PTL DEF Spec

(* Contents, names and jobs keep their types, and what is being written is *)
(* never the file that is read.                                            *)
THEOREM TypeCorrect == Spec => []TypeOK
<1>1. IInv => TypeOK
  BY DEF IInv
<1>2. QED  BY <1>1, Invariance, PTL

(* However pushes overlap, fail and die, the history has no play time that *)
(* nobody pushed, and a ban leaves none but of the pushes in flight.       *)
THEOREM NothingIsInvented == Spec => []StoredWasPushed
<1>1. IInv => StoredWasPushed
  BY DEF IInv
<1>2. QED  BY <1>1, Invariance, PTL


-----------------------------------------------------------------------------
(* What a step may do to the history that is read.                         *)

Disturbed == \E w \in Workers : Busy(w) /\ work[w].raced /\ work'[w] # work[w]

LEMMA OpenLeavesIt ==
  ASSUME IInv, NEW w \in Workers, SaveOpen(w)
  PROVE  loadHistory' = loadHistory
<1>1. PICK i \in IF tmp = None THEN Unused ELSE {tmp} : content' = [content EXCEPT ![i] = Empty]
  BY DEF SaveOpen
<1>2. i # path
  BY DEF IInv, TypeOK, Unused
<1>3. QED  BY <1>1, <1>2 DEF IInv, TypeOK, loadHistory, SaveOpen

LEMMA WriteLeavesIt ==
  ASSUME IInv, NEW w \in Workers, SaveWrite(w)
  PROVE  loadHistory' = loadHistory \/ Disturbed
<1>1. Busy(w) /\ work[w].at = "write" /\ work[w].raced \in BOOLEAN /\ work[w].ino \in Inodes
  BY JobKinds DEF IInv, SaveWrite
<1>2. CASE path = work[w].ino
  <2>1. ~Alone(w)
    BY <1>1, <1>2, NoneIsNoInode DEF IInv, TypeOK, AloneIsUndisturbed
  <2>2. work'[w].at # "write"
    BY DEF IInv, TypeOK, SaveWrite, Idle
  <2>3. QED  BY <1>1, <2>1, <2>2 DEF Alone, Disturbed
<1>3. CASE path # work[w].ino
  <2>1. \A j \in Inodes : j # work[w].ino => content'[j] = content[j]
    BY <1>1 DEF IInv, TypeOK, SaveWrite
  <2>2. path' = path
    BY DEF SaveWrite
  <2>3. QED  BY <1>3, <2>1, <2>2 DEF IInv, TypeOK, loadHistory
<1>4. QED  BY <1>2, <1>3

(* A push alone of its account renames what it wrote.                      *)
LEMMA RenameStores ==
  ASSUME IInv, NEW w \in Workers, SaveRename(w)
  PROVE  /\ Disturbed \/ Upto(loadHistory, loadHistory')
         /\ ~work[w].raced => loadHistory' = work[w].merged
<1>1. Busy(w) /\ work[w].at = "rename" /\ work[w].raced \in BOOLEAN /\ work[w].merged \in Histories
  BY JobKinds DEF IInv, SaveRename
<1>2. work'[w] # work[w]
  BY <1>1 DEF IInv, TypeOK, SaveRename, Idle
<1>3. CASE work[w].raced
  BY <1>1, <1>2, <1>3 DEF Disturbed
<1>4. CASE ~work[w].raced
  <2>1. tmp # None /\ content[tmp] = work[w].merged /\ Upto(loadHistory, work[w].merged)
    BY <1>1, <1>4 DEF IInv, AloneIsUndisturbed, Alone
  <2>2. path' = tmp /\ content' = content
    BY <2>1 DEF SaveRename
  <2>3. loadHistory' = work[w].merged
    BY <1>1, <2>1, <2>2, FilesAreNoHistories DEF loadHistory
  <2>4. QED  BY <2>1, <2>3
<1>5. QED  BY <1>1, <1>3, <1>4

LEMMA StepsRegressNot == IInv /\ [Next]_vars => [Regress]_vars
<1> SUFFICES ASSUME IInv, Next
             PROVE  Disturbed \/ banned' # banned \/ Upto(loadHistory, loadHistory')
  <2>1. Disturbed => \E w \in Workers : Busy(w) /\ work[w].raced /\ work'[w] # work[w]
    BY DEF Disturbed
  <2>2. QED  BY <2>1 DEF Regress
<1>1. loadHistory' = loadHistory => Upto(loadHistory, loadHistory')
  BY LoadedIsOne, UptoOrders DEF IInv
<1>2. ASSUME NEW w \in Workers, NEW incoming \in Histories,
             Push(w, incoming) \/ PushPlayLog(w, incoming)
      PROVE  loadHistory' = loadHistory
  BY <1>2 DEF Push, PushPlayLog, FileSame, loadHistory
<1>3. Restart => loadHistory' = loadHistory
  BY DEF Restart, FileSame, loadHistory
<1>4. ASSUME BanAccount
      PROVE  banned' # banned
  <2>1. banned' = TRUE
    BY <1>4 DEF BanAccount
  <2>2. ~banned
    BY <1>4 DEF BanAccount
  <2>3. TRUE # banned
    BY <2>2, Zenon
  <2>4. QED  BY <2>1, <2>3, Zenon
<1>5. QED
  BY <1>1, <1>2, <1>3, <1>4, OpenLeavesIt, WriteLeavesIt, RenameStores DEF Next

LEMMA StepsStoreWhatTheyAnswer == IInv /\ [Next]_vars => [Answered]_vars
<1> SUFFICES ASSUME IInv, Next, NEW w \in Workers, work[w].at = "rename", ~work[w].raced,
                    work'[w] = Idle, restarts' = restarts
             PROVE  loadHistory' = work[w].merged
  BY DEF Answered
<1>1. work[w] # Idle
  BY DEF Idle
<1>2. ASSUME NEW v \in Workers, NEW incoming \in Histories,
             Push(v, incoming) \/ PushPlayLog(v, incoming)
      PROVE  FALSE
  <2>1. v # w /\ Push(v, incoming)
    BY <1>1, <1>2 DEF Push, PushPlayLog
  <2>2. work'[w] = [work[w] EXCEPT !.raced = TRUE]
    BY <1>1, <2>1 DEF Push, Busy
  <2>3. work'[w].at = "rename"
    BY <2>2, JobKinds DEF IInv
  <2>4. QED  BY <2>3 DEF Idle
<1>3. ASSUME NEW v \in Workers, SaveOpen(v) \/ SaveWrite(v) \/ SaveRename(v), v # w
      PROVE  work'[w] = work[w]
  BY <1>3 DEF IInv, TypeOK, SaveOpen, SaveWrite, SaveRename, Writing
<1>4. ~SaveOpen(w) /\ ~SaveWrite(w)
  BY DEF SaveOpen, SaveWrite
<1>5. ~BanAccount
  BY <1>1 DEF BanAccount
<1>6. ~Restart
  BY BoundsAreNaturals DEF IInv, TypeOK, Restart
<1>7. SaveRename(w)
  BY <1>1, <1>2, <1>3, <1>4, <1>5, <1>6 DEF Next
<1>8. QED  BY <1>7, RenameStores

(* Through crashes, failed writes and restarts, what is read of the        *)
(* account's history loses play time to a ban, or to a push that           *)
(* overlapped another one, and to nothing else.                            *)
THEOREM HistoryNeverRegresses == Spec => NeverRegresses
BY Invariance, StepsRegressNot, PTL DEF Spec, NeverRegresses

(* A push alone of its account that ends well is what is read from then    *)
(* on: nothing of another writer, dead or alive, takes its place.          *)
THEOREM AnsweredPushesAreStored == Spec => AnsweredIsStored
BY Invariance, StepsStoreWhatTheyAnswer, PTL DEF Spec, AnsweredIsStored

-----------------------------------------------------------------------------
(***************************************************************************)
(* Reports.                                                                *)
(***************************************************************************)

(* Finite sets.                                                            *)

(* What a function makes of a set is no larger than the set.              *)
LEMMA ImageIsNoLarger ==
  ASSUME NEW S, IsFiniteSet(S), NEW T, NEW f, \A t \in T : \E s \in S : t = f[s]
  PROVE  IsFiniteSet(T) /\ Cardinality(T) <= Cardinality(S)
<1> DEFINE g == [t \in T |-> CHOOSE s \in S : t = f[s]]
<1>1. \A t \in T : g[t] \in S /\ t = f[g[t]]
  OBVIOUS
<1>2. g \in Injection(T, S)
  <2>1. g \in [T -> S]
    BY <1>1
  <2>2. \A t, u \in T : g[t] = g[u] => t = u
    <3> HIDE DEF g
    <3>1. QED  BY <1>1
  <2> HIDE DEF g
  <2>3. QED  BY <2>1, <2>2 DEF Injection, IsInjective
<1> HIDE DEF g
<1>3. QED  BY <1>2, FS_Injection

(* No more than k in each of the holes: no more than k times the holes.    *)
LEMMA Pigeons ==
  ASSUME NEW S, IsFiniteSet(S), NEW A, IsFiniteSet(A), NEW k \in Nat,
         NEW f \in [S -> A], \A a \in A : Cardinality({s \in S : f[s] = a}) <= k
  PROVE  Cardinality(S) <= Cardinality(A) * k
<1> DEFINE hole(a) == {s \in S : f[s] = a}
           place == [a \in A |-> CHOOSE g : g \in Injection(hole(a), 1..k)]
           h == [s \in S |-> <<f[s], place[f[s]][s]>>]
<1>1. ASSUME NEW a \in A
      PROVE  place[a] \in Injection(hole(a), 1..k)
  <2> DEFINE n == Cardinality(hole(a))
  <2>1. IsFiniteSet(hole(a)) /\ n \in Nat /\ n <= k
    BY FS_Subset, FS_CardinalityType
  <2>2. IsFiniteSet(1..n) /\ Cardinality(1..n) = n
    BY <2>1, FS_Interval
  <2>3. PICK g : g \in Bijection(hole(a), 1..n)
    BY <2>1, <2>2, FS_SameCardinalityBij DEF ExistsBijection
  <2>4. 1..n \subseteq 1..k
    BY <2>1
  <2>5. g \in Injection(hole(a), 1..k)
    BY <2>3, <2>4 DEF Bijection, Injection
  <2>6. place[a] = CHOOSE e : e \in Injection(hole(a), 1..k)
    OBVIOUS
  <2> HIDE DEF hole
  <2>7. QED  BY <2>5, <2>6
<1>2. \A s \in S : f[s] \in A /\ s \in hole(f[s])
  OBVIOUS
<1>3. h \in Injection(S, A \X (1..k))
  <2>1. \A s \in S : place[f[s]][s] \in 1..k
    <3> HIDE DEF hole, place
    <3>1. QED  BY <1>1, <1>2 DEF Injection
  <2>2. h \in [S -> A \X (1..k)]
    <3> HIDE DEF hole, place
    <3>1. QED  BY <1>2, <2>1
  <2>3. ASSUME NEW s \in S, NEW t \in S, h[s] = h[t]
        PROVE  s = t
    <3>1. f[s] = f[t] /\ place[f[s]][s] = place[f[t]][t]
      <4> HIDE DEF place
      <4>1. h[s] = <<f[s], place[f[s]][s]>> /\ h[t] = <<f[t], place[f[t]][t]>>
        OBVIOUS
      <4> HIDE DEF h
      <4>2. QED  BY <4>1, <2>3
    <3>2. s \in hole(f[s]) /\ t \in hole(f[s])
      BY <3>1
    <3> HIDE DEF hole, place, h
    <3>3. place[f[s]] \in Injection(hole(f[s]), 1..k)
      BY <1>1, <1>2
    <3>4. QED  BY <3>1, <3>2, <3>3 DEF Injection, IsInjective
  <2> HIDE DEF h, hole, place
  <2>4. QED  BY <2>2, <2>3 DEF Injection, IsInjective
<1> HIDE DEF h, hole, place
<1>4. IsFiniteSet(1..k) /\ Cardinality(1..k) = k
  BY FS_Interval
<1>5. IsFiniteSet(A \X (1..k)) /\ Cardinality(A \X (1..k)) = Cardinality(A) * k
  BY <1>4, FS_Product
<1>6. QED  BY <1>3, <1>5, FS_Injection

-----------------------------------------------------------------------------
(* The invariant.                                                          *)

(* The report on the administrator's page, while its id means anything,    *)
(* has been counted, and nothing else in the inbox has its id.             *)
PageIsOfTheInbox ==
  page # NoPage /\ ~pageOld =>
    /\ page.id <= reportSeq
    /\ \A r \in reports : r.id = page.id => r.pid = page.pid /\ r.at = page.at

InboxIInv ==
  /\ InboxTypeOK /\ IsFiniteSet(reports)
  /\ QuotaHolds /\ PageIsOfTheInbox

-----------------------------------------------------------------------------
(* The inbox.                                                              *)

(* Cutting an inbox that is full by one takes its oldest report.           *)
LEMMA TrimTakesTheOldest ==
  ASSUME NEW inbox \in SUBSET Report, IsFiniteSet(inbox),
         Cardinality(inbox) <= MaxReports + 1,
         \A r, q \in inbox : q.id = r.id => q = r
  PROVE  \/ Trim(inbox) = inbox /\ Cardinality(inbox) <= MaxReports
         \/ \E o \in inbox : /\ Trim(inbox) = inbox \ {o}
                             /\ Cardinality(Trim(inbox)) = MaxReports
<1> DEFINE newer(r) == {q \in inbox : q.id > r.id}
<1>0. MaxReports \in Nat \ {0} /\ Cardinality(inbox) \in Nat
  BY InboxBoundsAreNaturals, FS_CardinalityType
<1>1. ASSUME NEW r \in inbox
      PROVE  /\ IsFiniteSet(newer(r)) /\ Cardinality(newer(r)) \in Nat
             /\ Cardinality(newer(r)) <= Cardinality(inbox) - 1
  <2>1. newer(r) \subseteq inbox \ {r}
    BY DEF Report
  <2>2. IsFiniteSet(inbox \ {r}) /\ Cardinality(inbox \ {r}) = Cardinality(inbox) - 1
    BY FS_RemoveElement
  <2> HIDE DEF newer
  <2>3. QED  BY <2>1, <2>2, FS_Subset, FS_CardinalityType
<1>2. Trim(inbox) = {r \in inbox : Cardinality(newer(r)) < MaxReports}
  BY DEF Trim
<1>3. CASE Cardinality(inbox) <= MaxReports
  <2>1. \A r \in inbox : Cardinality(newer(r)) < MaxReports
    <3> HIDE DEF newer
    <3>1. QED  BY <1>0, <1>1, <1>3
  <2>2. QED  BY <1>2, <1>3, <2>1
<1>4. CASE Cardinality(inbox) = MaxReports + 1
  <2>1. inbox # {}
    BY <1>0, <1>4, FS_EmptySet
  <2>2. PICK o \in inbox : \A r \in inbox : o.id <= r.id
    <3> DEFINE R == {ss \in Nat \X Nat : ss[1] < ss[2]}
               ids == {r.id : r \in inbox}
    <3>1. ids \subseteq Nat /\ ids # {}
      <4>1. PICK r \in inbox : TRUE
        BY <2>1
      <4>2. r.id \in ids
        BY <4>1
      <4>3. \A q \in inbox : q.id \in Nat
        BY InboxBoundsAreNaturals DEF Report
      <4>4. QED  BY <4>2, <4>3
    <3>2. PICK m \in ids : \A i \in ids : ~(<<i, m>> \in R)
      <4>1. IsWellFoundedOn(R, Nat)
        BY NatLessThanWellFounded DEF OpToRel
      <4> HIDE DEF ids, R
      <4>2. QED  BY <3>1, <4>1, WFMin
    <3>3. PICK o \in inbox : m = o.id
      BY <3>2
    <3>4. \A i \in ids : m <= i
      <4>1. m \in Nat /\ \A i \in ids : i \in Nat
        BY <3>1, <3>2
      <4>2. \A i \in ids : ~(i < m)
        <5> HIDE DEF ids
        <5>1. QED  BY <3>2, <4>1
      <4> HIDE DEF ids
      <4>3. QED  BY <4>1, <4>2
    <3>5. \A r \in inbox : r.id \in ids
      OBVIOUS
    <3> HIDE DEF ids
    <3>6. QED  BY <3>3, <3>4, <3>5
  <2>3. newer(o) = inbox \ {o}
    <3>1. \A r \in inbox : r # o => r.id > o.id
      <4>1. \A r \in inbox : r.id \in Nat
        BY InboxBoundsAreNaturals DEF Report
      <4>2. QED  BY <2>2, <4>1
    <3>2. o.id \in Nat
      BY InboxBoundsAreNaturals DEF Report
    <3>3. QED  BY <3>1, <3>2
  <2>4. IsFiniteSet(inbox \ {o}) /\ Cardinality(inbox \ {o}) = MaxReports
    BY <1>0, <1>4, FS_RemoveElement
  <2>5. o \notin Trim(inbox)
    <3>1. Cardinality(newer(o)) = MaxReports
      BY <2>3, <2>4
    <3> HIDE DEF newer
    <3>2. ~(Cardinality(newer(o)) < MaxReports)
      BY <1>0, <3>1
    <3>3. QED  BY <1>2, <3>2
  <2>6. ASSUME NEW r \in inbox, r # o
        PROVE  r \in Trim(inbox)
    <3>1. newer(r) \subseteq (inbox \ {o}) \ {r}
      <4>1. \A q \in inbox : q.id \in Nat
        BY InboxBoundsAreNaturals DEF Report
      <4>2. QED  BY <2>2, <4>1
    <3>2. IsFiniteSet((inbox \ {o}) \ {r}) /\ Cardinality((inbox \ {o}) \ {r}) = MaxReports - 1
      BY <1>0, <2>4, <2>6, FS_RemoveElement
    <3>3. Cardinality(newer(r)) <= MaxReports - 1
      <4> HIDE DEF newer
      <4>1. QED  BY <3>1, <3>2, FS_Subset
    <3>4. Cardinality(newer(r)) < MaxReports
      <4> HIDE DEF newer
      <4>1. QED  BY <1>0, <1>1, <3>3
    <3> HIDE DEF newer
    <3>5. QED  BY <1>2, <2>6, <3>4
  <2>7. Trim(inbox) \subseteq inbox
    BY DEF Trim
  <2>8. Trim(inbox) = inbox \ {o}
    BY <2>5, <2>6, <2>7
  <2>9. QED  BY <2>4, <2>8
<1> HIDE DEF newer
<1>5. Cardinality(inbox) <= MaxReports \/ Cardinality(inbox) = MaxReports + 1
  BY <1>0
<1>6. QED  BY <1>3, <1>4, <1>5

LEMMA InboxFacts ==
  ASSUME InboxIInv
  PROVE  /\ now \in Nat /\ reportSeq \in Nat
         /\ \A pid : /\ IsFiniteSet(LastHour(reports, pid))
                     /\ reportsFromLastHour(pid) \in Nat
         /\ pruneReports \subseteq reports /\ IsFiniteSet(pruneReports)
         /\ Cardinality(pruneReports) <= MaxReports
<1>1. now \in Nat /\ reportSeq \in Nat
  BY InboxBoundsAreNaturals DEF InboxIInv, InboxTypeOK
<1>2. IsFiniteSet(reports) /\ Cardinality(reports) \in Nat /\ Cardinality(reports) <= MaxReports
  BY FS_CardinalityType DEF InboxIInv, InboxTypeOK
<1>3. \A pid : LastHour(reports, pid) \subseteq reports
  BY DEF LastHour
<1>4. \A pid : IsFiniteSet(LastHour(reports, pid)) /\ reportsFromLastHour(pid) \in Nat
  BY <1>2, <1>3, FS_Subset, FS_CardinalityType DEF reportsFromLastHour
<1>5. pruneReports \subseteq reports
  BY DEF pruneReports
<1>6. IsFiniteSet(pruneReports) /\ Cardinality(pruneReports) <= Cardinality(reports)
  BY <1>2, <1>5, FS_Subset
<1>7. Cardinality(pruneReports) \in Nat /\ MaxReports \in Nat
  BY <1>6, FS_CardinalityType, InboxBoundsAreNaturals
<1>8. QED  BY <1>1, <1>2, <1>4, <1>5, <1>6, <1>7

LEMMA PostKinds ==
  ASSUME NEW s \in Senders, posts \in [Senders -> Posts]
  PROVE  /\ posts[s].at = "body" => posts[s].pid \in Pids
         /\ posts[s].at = "store" => posts[s].pid \in Pids /\ posts[s].stamp \in 0..MaxTime
<1>1. posts[s] \in Posts
  OBVIOUS
<1>2. QED  BY <1>1 DEF Posts, NoPost

(* What leaves the inbox, or stays in it, breaks nothing.                  *)
LEMMA FewerReportsKeep ==
  ASSUME InboxIInv, now' = now, reportSeq' = reportSeq, losses' = losses,
         posts' \in [Senders -> Posts], reports' \subseteq reports
  PROVE  /\ reports' \subseteq Report /\ Cardinality(reports') <= MaxReports /\ IsFiniteSet(reports')
         /\ \A r \in reports' : r.id <= reportSeq' /\ \A q \in reports' : q.id = r.id => q = r
         /\ QuotaHolds'
<1>1. IsFiniteSet(reports) /\ Cardinality(reports) \in Nat /\ Cardinality(reports) <= MaxReports
  BY FS_CardinalityType DEF InboxIInv, InboxTypeOK
<1>2. IsFiniteSet(reports') /\ Cardinality(reports') <= Cardinality(reports)
  BY <1>1, FS_Subset
<1>3. Cardinality(reports') \in Nat /\ MaxReports \in Nat
  BY <1>2, FS_CardinalityType, InboxBoundsAreNaturals
<1>4. ASSUME NEW pid \in Pids
      PROVE  reportsFromLastHour(pid)' <= PerHour
  <2>1. LastHour(reports, pid)' \subseteq LastHour(reports, pid)
    BY DEF LastHour
  <2>2. IsFiniteSet(LastHour(reports, pid)) /\ reportsFromLastHour(pid) \in Nat
    BY InboxFacts
  <2>3. /\ IsFiniteSet(LastHour(reports, pid)')
        /\ Cardinality(LastHour(reports, pid)') <= Cardinality(LastHour(reports, pid))
    BY <2>1, <2>2, FS_Subset
  <2>4. Cardinality(LastHour(reports, pid)') \in Nat
    BY <2>3, FS_CardinalityType
  <2>5. reportsFromLastHour(pid) <= PerHour
    BY DEF InboxIInv, QuotaHolds
  <2>6. QED  BY <2>2, <2>3, <2>4, <2>5, InboxBoundsAreNaturals DEF reportsFromLastHour
<1>5. QED  BY <1>1, <1>2, <1>3, <1>4 DEF InboxIInv, InboxTypeOK, QuotaHolds

-----------------------------------------------------------------------------
(* The steps.                                                              *)

LEMMA QuotaCheckKeeps ==
  ASSUME InboxIInv, NEW s \in Senders, NEW pid \in Pids, QuotaCheck(s, pid)
  PROVE  InboxIInv'
<1>1. posts' \in [Senders -> Posts]
  <2>1. [at |-> "body", pid |-> pid] \in Posts
    BY DEF Posts
  <2>2. QED  BY <2>1 DEF InboxIInv, InboxTypeOK, QuotaCheck, Goto
<1>2. UNCHANGED <<now, reports, reportSeq, page, pageOld, losses>>
  BY DEF QuotaCheck, InboxSame, PageSame
<1>3. QED  BY <1>1, <1>2, FewerReportsKeep DEF InboxIInv, InboxTypeOK, PageIsOfTheInbox

LEMMA DecodeKeeps ==
  ASSUME InboxIInv, NEW s \in Senders, Decode(s)
  PROVE  InboxIInv'
<1>1. posts' \in [Senders -> Posts]
  <2>1. posts \in [Senders -> Posts] /\ now \in 0..MaxTime /\ posts[s].pid \in Pids
    BY PostKinds DEF InboxIInv, InboxTypeOK, Decode
  <2>2. [at |-> "store", pid |-> posts[s].pid, stamp |-> now] \in Posts /\ NoPost \in Posts
    BY <2>1 DEF Posts
  <2>3. QED  BY <2>1, <2>2 DEF Decode, Goto
<1>2. UNCHANGED <<now, reports, reportSeq, page, pageOld, losses>>
  BY DEF Decode, InboxSame, PageSame
<1>3. QED  BY <1>1, <1>2, FewerReportsKeep DEF InboxIInv, InboxTypeOK, PageIsOfTheInbox

(* What a report that passes the second check is stored into.              *)
LEMMA StoredInto ==
  ASSUME InboxIInv, NEW s \in Senders, posts[s].at = "store", reportSeq < MaxSeq,
         NEW inbox, inbox = pruneReports \cup {NewReport(pruneReports, posts[s])}
  PROVE  /\ inbox \subseteq Report /\ IsFiniteSet(inbox) /\ Cardinality(inbox) <= MaxReports + 1
         /\ \A r \in inbox : r.id <= reportSeq + 1 /\ \A q \in inbox : q.id = r.id => q = r
         /\ \A r \in inbox : r.id <= reportSeq => r \in reports
<1> DEFINE new == NewReport(pruneReports, posts[s])
<1>1. /\ reportSeq \in 0..MaxSeq /\ MaxSeq \in Nat /\ MaxReports \in Nat
      /\ reports \subseteq Report /\ posts \in [Senders -> Posts]
      /\ \A r \in reports : r.id <= reportSeq /\ \A q \in reports : q.id = r.id => q = r
  BY InboxBoundsAreNaturals DEF InboxIInv, InboxTypeOK
<1>2. new \in Report /\ new.id = reportSeq + 1
  <2>1. posts[s].pid \in Pids /\ posts[s].stamp \in 0..MaxTime
    BY <1>1, PostKinds
  <2>2. reportSeq + 1 \in 1..MaxSeq
    BY <1>1
  <2>3. QED  BY <2>1, <2>2 DEF Report, NewReport
<1> HIDE DEF new
<1>3. inbox = pruneReports \cup {new}
  BY DEF new
<1>4. pruneReports \subseteq reports /\ IsFiniteSet(pruneReports) /\ Cardinality(pruneReports) <= MaxReports
  BY InboxFacts
<1>5. IsFiniteSet(inbox) /\ Cardinality(inbox) <= MaxReports + 1
  <2>1. Cardinality(pruneReports) \in Nat
    BY <1>4, FS_CardinalityType
  <2>2. IsFiniteSet(inbox) /\ Cardinality(inbox) <= Cardinality(pruneReports) + 1
    <3>1. IsFiniteSet(pruneReports)
      BY <1>4
    <3>2. /\ IsFiniteSet(pruneReports \cup {new})
          /\ Cardinality(pruneReports \cup {new}) =
               IF new \in pruneReports THEN Cardinality(pruneReports) ELSE Cardinality(pruneReports) + 1
      BY <3>1, FS_AddElement
    <3>3. QED  BY <1>3, <2>1, <3>2
  <2>3. Cardinality(inbox) \in Nat
    BY <2>2, FS_CardinalityType
  <2>4. QED  BY <1>1, <1>4, <2>1, <2>2, <2>3
<1>6. \A r \in inbox : r = new \/ (r \in reports /\ r.id \in Nat /\ r.id <= reportSeq)
  BY <1>1, <1>3, <1>4 DEF Report
<1>7. QED  BY <1>1, <1>2, <1>3, <1>4, <1>5, <1>6

LEMMA StoreReportKeeps ==
  ASSUME InboxIInv, NEW s \in Senders, StoreReport(s)
  PROVE  InboxIInv'
<1> DEFINE pid == posts[s].pid
           new == NewReport(pruneReports, posts[s])
           inbox == pruneReports \cup {new}
<1>1. UNCHANGED <<now, page, pageOld, losses>> /\ posts[s].at = "store"
  BY DEF StoreReport, PageSame
<1>2. posts' \in [Senders -> Posts]
  <2>1. posts \in [Senders -> Posts] /\ NoPost \in Posts
    BY DEF InboxIInv, InboxTypeOK, Posts
  <2>2. posts' = [posts EXCEPT ![s] = NoPost]
    BY DEF StoreReport, Goto
  <2>3. QED  BY <2>1, <2>2
<1>3. CASE InboxSame
  <2>1. UNCHANGED <<reports, reportSeq>>
    BY <1>3 DEF InboxSame
  <2>2. QED  BY <1>1, <1>2, <2>1, FewerReportsKeep DEF InboxIInv, InboxTypeOK, PageIsOfTheInbox
<1>4. CASE /\ reportsFromLastHour(pid) < PerHour /\ reportSeq < MaxSeq
           /\ reports' = Stored(posts[s]) /\ reportSeq' = reportSeq + 1
  <2>1. /\ inbox \subseteq Report /\ IsFiniteSet(inbox) /\ Cardinality(inbox) <= MaxReports + 1
        /\ \A r \in inbox : r.id <= reportSeq + 1 /\ \A q \in inbox : q.id = r.id => q = r
        /\ \A r \in inbox : r.id <= reportSeq => r \in reports
    <3> HIDE DEF inbox
    <3>1. inbox = pruneReports \cup {NewReport(pruneReports, posts[s])}
      BY DEF inbox
    <3>2. QED  BY <1>1, <1>4, <3>1, StoredInto
  <2>2. reports' = Trim(inbox)
    BY <1>4 DEF Stored
  <2>3. reports' \subseteq inbox
    BY <2>2 DEF Trim
  <2>4. IsFiniteSet(reports') /\ Cardinality(reports') <= MaxReports
    <3> HIDE DEF inbox
    <3>1. IsFiniteSet(reports')
      BY <2>1, <2>3, FS_Subset
    <3>2. QED  BY <2>1, <2>2, <3>1, TrimTakesTheOldest, InboxBoundsAreNaturals
  <2>5. /\ reportSeq' \in 0..MaxSeq /\ reports' \subseteq Report
        /\ \A r \in reports' : r.id <= reportSeq' /\ \A q \in reports' : q.id = r.id => q = r
    <3> HIDE DEF inbox
    <3>1. reportSeq \in 0..MaxSeq /\ MaxSeq \in Nat
      BY InboxBoundsAreNaturals DEF InboxIInv, InboxTypeOK
    <3>2. reportSeq' \in 0..MaxSeq
      BY <1>4, <3>1
    <3>3. QED  BY <1>4, <2>1, <2>3, <3>2
  <2>6. InboxTypeOK'
    BY <1>1, <1>2, <2>4, <2>5 DEF InboxIInv, InboxTypeOK
  <2>7. ASSUME NEW p \in Pids
        PROVE  reportsFromLastHour(p)' <= PerHour
    <3>1. LastHour(reports, p)' \subseteq LastHour(reports, p) \cup (IF p = pid THEN {new} ELSE {})
      <4>1. new.pid = pid
        BY DEF NewReport
      <4>2. pruneReports \subseteq reports
        BY InboxFacts
      <4> HIDE DEF new, pid
      <4>3. QED  BY <1>1, <2>3, <4>1, <4>2 DEF LastHour
    <3>2. IsFiniteSet(LastHour(reports, p)) /\ Cardinality(LastHour(reports, p)) \in Nat
      BY InboxFacts DEF reportsFromLastHour
    <3>3. Cardinality(LastHour(reports, p)) <= PerHour /\ PerHour \in Nat
      BY InboxBoundsAreNaturals DEF InboxIInv, QuotaHolds, reportsFromLastHour
    <3>4. CASE p = pid
      <4>1. /\ IsFiniteSet(LastHour(reports, p) \cup {new})
            /\ Cardinality(LastHour(reports, p) \cup {new}) <= Cardinality(LastHour(reports, p)) + 1
        BY <3>2, FS_AddElement
      <4>2. Cardinality(LastHour(reports, p)) < PerHour
        BY <1>4, <3>4 DEF reportsFromLastHour
      <4>3. LastHour(reports, p)' \subseteq LastHour(reports, p) \cup {new}
        BY <3>1
      <4> HIDE DEF new, pid
      <4>4. /\ IsFiniteSet(LastHour(reports, p)')
            /\ Cardinality(LastHour(reports, p)') <= Cardinality(LastHour(reports, p) \cup {new})
        BY <4>1, <4>3, FS_Subset
      <4>5. Cardinality(LastHour(reports, p)') \in Nat /\ Cardinality(LastHour(reports, p) \cup {new}) \in Nat
        BY <4>1, <4>4, FS_CardinalityType
      <4>6. QED  BY <3>2, <3>3, <4>1, <4>2, <4>4, <4>5 DEF reportsFromLastHour
    <3>5. CASE p # pid
      <4>1. LastHour(reports, p)' \subseteq LastHour(reports, p)
        BY <3>1, <3>5
      <4>2. /\ IsFiniteSet(LastHour(reports, p)')
            /\ Cardinality(LastHour(reports, p)') <= Cardinality(LastHour(reports, p))
        BY <3>2, <4>1, FS_Subset
      <4>3. Cardinality(LastHour(reports, p)') \in Nat
        BY <4>2, FS_CardinalityType
      <4>4. QED  BY <3>2, <3>3, <4>2, <4>3 DEF reportsFromLastHour
    <3>6. QED  BY <3>4, <3>5
  <2>8. PageIsOfTheInbox'
    <3> HIDE DEF inbox
    <3>1. SUFFICES ASSUME page # NoPage, ~pageOld
                   PROVE  /\ page.id <= reportSeq + 1
                          /\ \A r \in reports' : r.id = page.id => r.pid = page.pid /\ r.at = page.at
      BY <1>1, <1>4 DEF PageIsOfTheInbox
    <3>2. /\ page.id <= reportSeq
          /\ \A r \in reports : r.id = page.id => r.pid = page.pid /\ r.at = page.at
      BY <3>1 DEF InboxIInv, PageIsOfTheInbox
    <3>3. page.id \in Nat /\ reportSeq \in Nat
      BY <3>1, InboxBoundsAreNaturals DEF InboxIInv, InboxTypeOK, Report
    <3>4. QED  BY <2>1, <2>3, <3>2, <3>3
  <2>9. QED  BY <2>4, <2>6, <2>7, <2>8 DEF InboxIInv, QuotaHolds
<1>5. QED  BY <1>3, <1>4 DEF StoreReport

LEMMA AdminListKeeps ==
  ASSUME InboxIInv, AdminList
  PROVE  InboxIInv'
<1>1. /\ UNCHANGED <<now, reportSeq, posts, losses>> /\ reports' = pruneReports /\ pageOld' = FALSE
      /\ page' \in IF pruneReports = {} THEN {NoPage} ELSE pruneReports
  BY DEF AdminList
<1>2. pruneReports \subseteq reports
  BY InboxFacts
<1>3. /\ reports' \subseteq Report /\ Cardinality(reports') <= MaxReports /\ IsFiniteSet(reports')
      /\ \A r \in reports' : r.id <= reportSeq' /\ \A q \in reports' : q.id = r.id => q = r
      /\ QuotaHolds'
  BY <1>1, <1>2, FewerReportsKeep DEF InboxIInv, InboxTypeOK
<1>4. page' = NoPage \/ page' \in reports'
  BY <1>1
<1>5. InboxTypeOK'
  BY <1>1, <1>3, <1>4 DEF InboxIInv, InboxTypeOK
<1>6. PageIsOfTheInbox'
  <2>1. page' \in reports' => page'.id <= reportSeq'
    BY <1>3
  <2>2. \A r \in reports' : page' \in reports' /\ r.id = page'.id => r = page'
    BY <1>3
  <2>3. QED  BY <1>4, <2>1, <2>2 DEF PageIsOfTheInbox
<1>7. QED  BY <1>3, <1>5, <1>6 DEF InboxIInv

(* A mark leaves everything else of a report as it is.                     *)
AfterMark(r, id, handled) == IF r.id = id THEN [r EXCEPT !.handled = handled] ELSE r

LEMMA MarkKeepsTheRest ==
  ASSUME NEW r \in Report, NEW id, NEW handled \in BOOLEAN
  PROVE  /\ AfterMark(r, id, handled) \in Report
         /\ AfterMark(r, id, handled).id = r.id
         /\ AfterMark(r, id, handled).pid = r.pid
         /\ AfterMark(r, id, handled).at = r.at
         /\ r.id # id => AfterMark(r, id, handled) = r
<1>1. r \in [id : 1..MaxSeq, pid : Pids, at : 0..MaxTime, handled : BOOLEAN]
  BY DEF Report
<1>2. QED  BY <1>1 DEF AfterMark, Report

LEMMA AdminMarkKeeps ==
  ASSUME InboxIInv, NEW handled \in BOOLEAN, AdminMark(page.id, handled)
  PROVE  InboxIInv'
<1> DEFINE after(r) == AfterMark(r, page.id, handled)
<1>1. UNCHANGED <<now, reportSeq, posts, page, pageOld, losses>>
  BY DEF AdminMark, PageSame
<1>2. \A q \in reports' : \E r \in reports : q = after(r)
  <2>1. pruneReports \subseteq reports
    BY InboxFacts
  <2>2. QED  BY <2>1 DEF AdminMark, AfterMark
<1>3. \A r \in reports : /\ after(r) \in Report
                          /\ after(r).id = r.id /\ after(r).pid = r.pid /\ after(r).at = r.at
  BY MarkKeepsTheRest DEF InboxIInv, InboxTypeOK
<1>4. \A r \in reports : r.id <= reportSeq /\ \A q \in reports : q.id = r.id => q = r
  BY DEF InboxIInv, InboxTypeOK
<1> HIDE DEF after
<1>5. /\ reports' \subseteq Report
      /\ \A r \in reports' : r.id <= reportSeq' /\ \A q \in reports' : q.id = r.id => q = r
  <2>1. \A r \in reports' : r \in Report /\ r.id <= reportSeq
    BY <1>2, <1>3, <1>4
  <2>2. ASSUME NEW r \in reports', NEW q \in reports', q.id = r.id
        PROVE  q = r
    <3>1. PICK x \in reports, y \in reports : r = after(x) /\ q = after(y)
      BY <1>2
    <3>2. x = y
      BY <1>3, <1>4, <2>2, <3>1
    <3>3. QED  BY <3>1, <3>2
  <2>3. QED  BY <1>1, <2>1, <2>2
<1>6. IsFiniteSet(reports) /\ Cardinality(reports) \in Nat /\ Cardinality(reports) <= MaxReports
  BY FS_CardinalityType DEF InboxIInv, InboxTypeOK
<1>7. IsFiniteSet(reports') /\ Cardinality(reports') <= MaxReports
  <2>1. IsFiniteSet(reports') /\ Cardinality(reports') <= Cardinality(reports)
    <3> DEFINE f == [r \in reports |-> after(r)]
    <3>1. \A q \in reports' : \E r \in reports : q = f[r]
      BY <1>2
    <3> HIDE DEF f
    <3>2. QED  BY <1>6, <3>1, ImageIsNoLarger
  <2>2. Cardinality(reports') \in Nat /\ MaxReports \in Nat
    BY <2>1, FS_CardinalityType, InboxBoundsAreNaturals
  <2>3. QED  BY <1>6, <2>1, <2>2
<1>8. InboxTypeOK'
  BY <1>1, <1>5, <1>7 DEF InboxIInv, InboxTypeOK
<1>9. ASSUME NEW pid \in Pids
      PROVE  reportsFromLastHour(pid)' <= PerHour
  <2>1. \A q \in LastHour(reports, pid)' : \E r \in LastHour(reports, pid) : q = after(r)
    BY <1>1, <1>2, <1>3 DEF LastHour
  <2>2. IsFiniteSet(LastHour(reports, pid)) /\ Cardinality(LastHour(reports, pid)) \in Nat
    BY InboxFacts DEF reportsFromLastHour
  <2>3. /\ IsFiniteSet(LastHour(reports, pid)')
        /\ Cardinality(LastHour(reports, pid)') <= Cardinality(LastHour(reports, pid))
    <3> DEFINE f == [r \in LastHour(reports, pid) |-> after(r)]
    <3>1. \A q \in LastHour(reports, pid)' : \E r \in LastHour(reports, pid) : q = f[r]
      BY <2>1
    <3> HIDE DEF f
    <3>2. QED  BY <2>2, <3>1, ImageIsNoLarger
  <2>4. Cardinality(LastHour(reports, pid)') \in Nat
    BY <2>3, FS_CardinalityType
  <2>5. Cardinality(LastHour(reports, pid)) <= PerHour /\ PerHour \in Nat
    BY InboxBoundsAreNaturals DEF InboxIInv, QuotaHolds, reportsFromLastHour
  <2>6. QED  BY <2>2, <2>3, <2>4, <2>5 DEF reportsFromLastHour
<1>10. PageIsOfTheInbox'
  BY <1>1, <1>2, <1>3 DEF InboxIInv, PageIsOfTheInbox
<1>11. QED  BY <1>7, <1>8, <1>9, <1>10 DEF InboxIInv, QuotaHolds

LEMMA TickKeeps ==
  ASSUME InboxIInv, Tick
  PROVE  InboxIInv'
<1>1. UNCHANGED <<reports, reportSeq, posts, page, pageOld, losses>> /\ now' = now + 1
  BY DEF Tick, InboxSame, PageSame
<1>2. now' \in 0..MaxTime
  BY InboxBoundsAreNaturals DEF InboxIInv, InboxTypeOK, Tick
<1>3. InboxTypeOK'
  BY <1>1, <1>2 DEF InboxIInv, InboxTypeOK
<1>4. ASSUME NEW pid \in Pids
      PROVE  reportsFromLastHour(pid)' <= PerHour
  <2>1. LastHour(reports, pid)' \subseteq LastHour(reports, pid)
    <3>1. now \in Nat /\ Hour \in Nat /\ \A r \in reports : r.at \in Nat
      BY InboxBoundsAreNaturals DEF InboxIInv, InboxTypeOK, Report
    <3>2. QED  BY <1>1, <3>1 DEF LastHour
  <2>2. IsFiniteSet(LastHour(reports, pid)) /\ Cardinality(LastHour(reports, pid)) \in Nat
    BY InboxFacts DEF reportsFromLastHour
  <2>3. /\ IsFiniteSet(LastHour(reports, pid)')
        /\ Cardinality(LastHour(reports, pid)') <= Cardinality(LastHour(reports, pid))
    BY <2>1, <2>2, FS_Subset
  <2>4. Cardinality(LastHour(reports, pid)') \in Nat
    BY <2>3, FS_CardinalityType
  <2>5. Cardinality(LastHour(reports, pid)) <= PerHour /\ PerHour \in Nat
    BY InboxBoundsAreNaturals DEF InboxIInv, QuotaHolds, reportsFromLastHour
  <2>6. QED  BY <2>2, <2>3, <2>4, <2>5 DEF reportsFromLastHour
<1>5. PageIsOfTheInbox'
  BY <1>1 DEF InboxIInv, PageIsOfTheInbox
<1>6. QED  BY <1>1, <1>3, <1>4, <1>5 DEF InboxIInv, QuotaHolds

LEMMA EmptyInboxIsFine ==
  /\ IsFiniteSet({}) /\ Cardinality({}) = 0 /\ Cardinality({}) <= MaxReports
  /\ \A pid : LastHour({}, pid) = {}
  /\ 0 <= PerHour /\ \A n \in {MaxSeq, MaxTime, MaxLosses} : 0 \in 0..n
<1>1. IsFiniteSet({}) /\ Cardinality({}) = 0
  BY FS_EmptySet
<1>2. \A pid : LastHour({}, pid) = {}
  BY DEF LastHour
<1>3. QED  BY <1>1, <1>2, InboxBoundsAreNaturals

LEMMA InboxLostKeeps ==
  ASSUME InboxIInv, InboxLost
  PROVE  InboxIInv'
<1>1. UNCHANGED <<now, page>> /\ reports' = {} /\ reportSeq' = 0 /\ pageOld' = TRUE
  BY DEF InboxLost
<1>2. losses' \in 0..MaxLosses
  BY InboxBoundsAreNaturals DEF InboxIInv, InboxTypeOK, InboxLost
<1>3. posts' \in [Senders -> Posts]
  BY DEF InboxLost, Posts
<1>4. InboxTypeOK'
  BY <1>1, <1>2, <1>3, EmptyInboxIsFine DEF InboxIInv, InboxTypeOK
<1>5. QuotaHolds'
  <2>1. \A pid : LastHour(reports, pid)' = {}
    BY <1>1 DEF LastHour
  <2>2. QED  BY <2>1, EmptyInboxIsFine DEF QuotaHolds, reportsFromLastHour
<1>6. PageIsOfTheInbox'
  BY <1>1 DEF PageIsOfTheInbox
<1>7. QED  BY <1>1, <1>4, <1>5, <1>6, EmptyInboxIsFine DEF InboxIInv

LEMMA InboxInitHolds == InboxInit => InboxIInv
<1> SUFFICES ASSUME InboxInit PROVE InboxIInv
  OBVIOUS
<1>1. /\ now = 0 /\ reports = {} /\ reportSeq = 0 /\ page = NoPage /\ pageOld = FALSE /\ losses = 0
      /\ posts \in [Senders -> Posts]
  BY DEF InboxInit, Posts
<1>2. InboxTypeOK
  BY <1>1, EmptyInboxIsFine DEF InboxTypeOK
<1>3. QuotaHolds
  BY <1>1, EmptyInboxIsFine DEF QuotaHolds, reportsFromLastHour
<1>4. QED  BY <1>1, <1>2, <1>3, EmptyInboxIsFine DEF InboxIInv, PageIsOfTheInbox

LEMMA InboxNextKeeps == InboxIInv /\ [InboxNext]_inboxVars => InboxIInv'
<1> SUFFICES ASSUME InboxIInv, [InboxNext]_inboxVars PROVE InboxIInv'
  OBVIOUS
<1>1. ASSUME NEW s \in Senders, NEW pid \in Pids, QuotaCheck(s, pid)
      PROVE  InboxIInv'
  BY <1>1, QuotaCheckKeeps
<1>2. ASSUME NEW s \in Senders, Decode(s)
      PROVE  InboxIInv'
  BY <1>2, DecodeKeeps
<1>3. ASSUME NEW s \in Senders, StoreReport(s)
      PROVE  InboxIInv'
  BY <1>3, StoreReportKeeps
<1>4. CASE AdminList
  BY <1>4, AdminListKeeps
<1>5. ASSUME NEW handled \in BOOLEAN, AdminMark(page.id, handled)
      PROVE  InboxIInv'
  BY <1>5, AdminMarkKeeps
<1>6. CASE Tick
  BY <1>6, TickKeeps
<1>7. CASE InboxLost
  BY <1>7, InboxLostKeeps
<1>8. CASE UNCHANGED inboxVars
  BY <1>8 DEF inboxVars, InboxIInv, InboxTypeOK, QuotaHolds, PageIsOfTheInbox,
              reportsFromLastHour, LastHour
<1>9. QED  BY <1>1, <1>2, <1>3, <1>4, <1>5, <1>6, <1>7, <1>8 DEF InboxNext

LEMMA InboxInvariance == InboxSpec => []InboxIInv
<1>1. QED  BY InboxInitHolds, InboxNextKeeps, PTL DEF InboxSpec

(* However many reports are sent at once and wherever the process dies, the *)
(* inbox keeps its bound and an id in it is one report's (adminReports     *)
(* marks the first it finds).                                              *)
THEOREM InboxTypeCorrect == InboxSpec => []InboxTypeOK
<1>1. InboxIInv => InboxTypeOK
  BY DEF InboxIInv
<1>2. QED  BY <1>1, InboxInvariance, PTL

(* The hourly quota, for any quota and any number of requests that pass    *)
(* the check before the body together: the second check, under the lock    *)
(* that stores, is the one that counts (report).                           *)
THEOREM QuotaIsKept == InboxSpec => []QuotaHolds
<1>1. InboxIInv => QuotaHolds
  BY DEF InboxIInv
<1>2. QED  BY <1>1, InboxInvariance, PTL

-----------------------------------------------------------------------------
(* What a step takes away, and what a mark hits.                           *)

(* A report that is fresh is not pruned, so that only the cut takes it.    *)
LEMMA OnlyTheCutTakes ==
  ASSUME InboxIInv, [InboxNext]_inboxVars, NEW r \in reports, r.at + Hour > now,
         r.id \notin {q.id : q \in reports'}, losses' = losses
  PROVE  \E s \in Senders :
           /\ posts[s].at = "store" /\ reportSeq < MaxSeq
           /\ reports' = Stored(posts[s]) /\ now' = now
<1>1. r \in pruneReports
  <2>1. now \in Nat /\ {Hour, ReportMaxAge, r.at} \subseteq Nat
    BY InboxBoundsAreNaturals DEF InboxIInv, InboxTypeOK, Report
  <2>2. r.at + ReportMaxAge > now
    BY <2>1, ReportsOutliveTheQuota
  <2>3. QED  BY <2>2 DEF pruneReports
<1>2. reports' # reports
  OBVIOUS
<1>3. ~InboxLost
  BY InboxBoundsAreNaturals DEF InboxLost, InboxIInv, InboxTypeOK
<1>4. ~AdminList
  <2>1. r.id \in {q.id : q \in pruneReports}
    BY <1>1
  <2>2. QED  BY <2>1 DEF AdminList
<1>5. ASSUME NEW handled \in BOOLEAN, AdminMark(page.id, handled)
      PROVE  FALSE
  <2>1. AfterMark(r, page.id, handled).id = r.id
    BY MarkKeepsTheRest DEF InboxIInv, InboxTypeOK
  <2>2. AfterMark(r, page.id, handled) \in reports'
    BY <1>1, <1>5 DEF AdminMark, AfterMark
  <2>3. QED  BY <2>1, <2>2
<1>6. PICK s \in Senders : StoreReport(s)
  <2>1. \A s \in Senders : ~Decode(s) /\ \A pid \in Pids : ~QuotaCheck(s, pid)
    BY <1>2 DEF Decode, QuotaCheck, InboxSame
  <2>2. ~Tick /\ ~UNCHANGED inboxVars
    BY <1>2 DEF Tick, InboxSame, inboxVars
  <2>3. QED  BY <1>3, <1>4, <1>5, <2>1, <2>2 DEF InboxNext
<1>7. ~InboxSame
  BY <1>2 DEF InboxSame
<1>8. QED  BY <1>6, <1>7 DEF StoreReport

LEMMA StepsDrownNobody == InboxIInv /\ [InboxNext]_inboxVars => [Drowned]_inboxVars
<1> SUFFICES ASSUME InboxIInv, [InboxNext]_inboxVars, NEW r \in reports, r.at + Hour > now,
                    r.id \notin {q.id : q \in reports'}, losses' = losses,
                    \A q \in reports' : ~(q.at < r.at)
             PROVE  Cardinality(Authors') * PerHour >= MaxReports
  BY DEF Drowned
<1>1. PICK s \in Senders : /\ posts[s].at = "store" /\ reportSeq < MaxSeq
                           /\ reports' = Stored(posts[s]) /\ now' = now
  BY OnlyTheCutTakes
<1>2. InboxIInv'
  BY InboxNextKeeps
<1> DEFINE inbox == pruneReports \cup {NewReport(pruneReports, posts[s])}
           author == [q \in reports' |-> q.pid]
<1>3. /\ inbox \subseteq Report /\ IsFiniteSet(inbox) /\ Cardinality(inbox) <= MaxReports + 1
      /\ \A q, p \in inbox : p.id = q.id => p = q
  <2> HIDE DEF inbox
  <2>1. inbox = pruneReports \cup {NewReport(pruneReports, posts[s])}
    BY DEF inbox
  <2>2. QED  BY <1>1, <2>1, StoredInto
(* The step has cut: r was in the inbox, as fresh reports are not pruned.  *)
<1>4. r \in inbox /\ r \notin Trim(inbox) /\ reports' = Trim(inbox)
  <2>1. now \in Nat /\ {Hour, ReportMaxAge, r.at} \subseteq Nat
    BY InboxBoundsAreNaturals DEF InboxIInv, InboxTypeOK, Report
  <2>2. r.at + ReportMaxAge > now
    BY <2>1, ReportsOutliveTheQuota
  <2>3. r \in pruneReports
    BY <2>2 DEF pruneReports
  <2>4. r \notin reports'
    OBVIOUS
  <2>5. reports' = Trim(inbox)
    BY <1>1 DEF Stored
  <2>6. QED  BY <2>3, <2>4, <2>5
<1>5. Cardinality(reports') = MaxReports
  <2> HIDE DEF inbox
  <2>1. QED  BY <1>3, <1>4, TrimTakesTheOldest
(* All that is left is as fresh.                                           *)
<1>6. \A q \in reports' : q.at + Hour > now'
  <2>1. now \in Nat /\ {Hour, r.at} \subseteq Nat
    BY InboxBoundsAreNaturals DEF InboxIInv, InboxTypeOK, Report
  <2>2. \A q \in reports' : q.at \in Nat
    BY <1>2, InboxBoundsAreNaturals DEF InboxIInv, InboxTypeOK, Report
  <2>3. QED  BY <1>1, <2>1, <2>2
<1>7. Authors' = {q.pid : q \in reports'}
  BY <1>6 DEF Authors
<1>8. author \in [reports' -> Authors']
  BY <1>7
<1>9. IsFiniteSet(reports')
  BY <1>2 DEF InboxIInv
<1>10. IsFiniteSet(Authors')
  <2>1. \A a \in Authors' : \E q \in reports' : a = author[q]
    BY <1>7
  <2> HIDE DEF author
  <2>2. QED  BY <1>9, <2>1, ImageIsNoLarger
<1>11. ASSUME NEW a \in Authors'
       PROVE  Cardinality({q \in reports' : author[q] = a}) <= PerHour
  <2>1. {q \in reports' : author[q] = a} = LastHour(reports, a)'
    BY <1>6 DEF LastHour
  <2>2. a \in Pids
    BY <1>2, <1>7 DEF InboxIInv, InboxTypeOK, Report
  <2> HIDE DEF author
  <2>3. QED  BY <1>2, <2>1, <2>2 DEF InboxIInv, QuotaHolds, reportsFromLastHour
<1>12. Cardinality(reports') <= Cardinality(Authors') * PerHour
  <2> HIDE DEF author
  <2>1. PerHour \in Nat
    BY InboxBoundsAreNaturals
  <2>2. QED  BY <1>8, <1>9, <1>10, <1>11, <2>1, Pigeons
<1>13. Cardinality(Authors') \in Nat /\ PerHour \in Nat /\ MaxReports \in Nat
  BY <1>10, FS_CardinalityType, InboxBoundsAreNaturals
<1>14. QED  BY <1>5, <1>12, <1>13

(* One account does not drown the others, for any quota and any size of    *)
(* the inbox: a fresh report that is cut leaves an inbox of reports as     *)
(* fresh, and the accounts they are from, by the quota each keeps, are     *)
(* enough to fill it.                                                      *)
THEOREM NobodyIsDrowned == InboxSpec => DrownedByMany
<1>1. QED  BY InboxInvariance, StepsDrownNobody, PTL DEF InboxSpec, DrownedByMany

LEMMA StepsMarkWhatWasSeen == InboxIInv /\ [InboxNext]_inboxVars => [Marked]_inboxVars
<1> SUFFICES ASSUME InboxIInv, [InboxNext]_inboxVars, NEW r \in reports, NEW q \in reports',
                    r.id = q.id, r.handled # q.handled, ~pageOld
             PROVE  page.id = q.id /\ page.pid = q.pid /\ page.at = q.at
  BY DEF Marked
<1>1. /\ reports \subseteq Report
      /\ \A p \in reports : p.id <= reportSeq /\ \A x \in reports : x.id = p.id => x = p
  BY DEF InboxIInv, InboxTypeOK
(* No other step changes a report: a stored one has a new id.              *)
<1>2. q \notin reports
  BY <1>1
<1>3. ~(reports' \subseteq reports)
  BY <1>2
<1>4. PICK handled \in BOOLEAN : page # NoPage /\ AdminMark(page.id, handled)
  <2>1. ASSUME NEW s \in Senders, StoreReport(s)
        PROVE  FALSE
    <3>1. ~InboxSame
      BY <1>3 DEF InboxSame
    <3>2. posts[s].at = "store" /\ reportSeq < MaxSeq /\ reports' = Stored(posts[s])
      BY <2>1, <3>1 DEF StoreReport
    <3> DEFINE inbox == pruneReports \cup {NewReport(pruneReports, posts[s])}
    <3>3. q \in inbox
      BY <3>2 DEF Stored, Trim
    <3>4. inbox = pruneReports \cup {NewReport(pruneReports, posts[s])}
      OBVIOUS
    <3> HIDE DEF inbox
    <3>5. q.id <= reportSeq => q \in reports
      BY <3>2, <3>3, <3>4, StoredInto
    <3>6. QED  BY <1>1, <1>2, <3>5
  <2>2. \A s \in Senders : ~Decode(s) /\ \A pid \in Pids : ~QuotaCheck(s, pid)
    BY <1>3 DEF Decode, QuotaCheck, InboxSame
  <2>3. ~Tick /\ ~InboxLost /\ ~UNCHANGED inboxVars
    BY <1>3 DEF Tick, InboxLost, InboxSame, inboxVars
  <2>4. ~AdminList
    BY <1>3 DEF AdminList, pruneReports
  <2>5. QED  BY <2>1, <2>2, <2>3, <2>4 DEF InboxNext
<1>5. PICK p \in reports : q = AfterMark(p, page.id, handled)
  BY <1>4 DEF AdminMark, AfterMark, pruneReports
<1>6. q.id = p.id /\ q.pid = p.pid /\ q.at = p.at /\ (p.id # page.id => q = p)
  BY <1>1, <1>5, MarkKeepsTheRest
<1>7. p.id = page.id
  BY <1>2, <1>6
<1>8. p.pid = page.pid /\ p.at = page.at
  BY <1>4, <1>7 DEF InboxIInv, PageIsOfTheInbox
<1>9. QED  BY <1>6, <1>7, <1>8

(* A mark hits the report that was looked at, whatever was stored, cut and *)
(* pruned since: ids are not used again while the process lives.           *)
THEOREM MarksHitWhatWasSeen == InboxSpec => MarksWhatWasSeen
<1>1. QED  BY InboxInvariance, StepsMarkWhatWasSeen, PTL DEF InboxSpec, MarksWhatWasSeen

=============================================================================
