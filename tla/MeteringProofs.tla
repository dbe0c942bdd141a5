--------------------------- MODULE MeteringProofs ---------------------------
(***************************************************************************)
(* Proofs about what is metered: Applications and Publishing, for every    *)
(* number of listings, requests, transactions and free uses, and for every *)
(* price.                                                                  *)
(*                                                                         *)
(* In Applications a transaction counts what it inserts, so it is enough   *)
(* that inserts are apart.  In Publishing the row comes first and the bill *)
(* later, so the requests in between are counted: PendingMoves says what a *)
(* request that turns to its next errand does to that count, and each step *)
(* is balanced with it.                                                    *)
(***************************************************************************)
EXTENDS Applications, Publishing, FiniteSetTheorems, TLAPS

-----------------------------------------------------------------------------
(* Applications.                                                           *)

RowsType ==
    /\ submitted \subseteq Opening \cup OwnListing
    /\ promoted \in Nat
    /\ sent \in Nat
    /\ wallet \in 0 .. SeekerFunds
    /\ tx \in [Applicant -> {NoTx} \cup [at : {"inserted", "locked"}, on : Opening]]

\* What a transaction has inserted is nobody else's, committed or not: this is
\* what makes the counter count.
InsertsAreApart ==
    /\ \A a \in Applicant : tx[a] # NoTx => tx[a].on \notin submitted
    /\ \A a, b \in Applicant : a # b /\ tx[a] # NoTx /\ tx[b] # NoTx => tx[a].on # tx[b].on

ApplicationsInv == RowsType /\ InsertsAreApart /\ SubmissionsAreMetered

-----------------------------------------------------------------------------

\* A transaction that is open has inserted an answer to a listing.
LEMMA OpenTx ==
    ASSUME RowsType, NEW a \in Applicant, tx[a] # NoTx
    PROVE  tx[a].on \in Opening
BY DEF RowsType

\* An answer that was not there is one more.
LEMMA OneMore ==
    ASSUME NEW S, S \subseteq Opening \cup OwnListing, NEW o \in Opening, o \notin S
    PROVE  Cardinality((S \cup {o}) \cap Opening) = Cardinality(S \cap Opening) + 1
<1>1. IsFiniteSet(S \cap Opening)
  BY ApplicationAssumption, FS_Subset
<1>2. (S \cup {o}) \cap Opening = (S \cap Opening) \cup {o} /\ o \notin S \cap Opening
  OBVIOUS
<1> QED BY <1>1, <1>2, FS_AddElement

\* The counter does not leave its range: there are only so many listings.
LEMMA CounterFits == ApplicationsInv => ApplicationsTypeOK
<1> SUFFICES ASSUME ApplicationsInv PROVE ApplicationsTypeOK
  OBVIOUS
<1>1. /\ IsFiniteSet(submitted \cap Opening)
      /\ Cardinality(submitted \cap Opening) <= Cardinality(Opening)
      /\ Cardinality(Opening) \in Nat
  BY ApplicationAssumption, FS_Subset, FS_CardinalityType
<1>2. sent \in 0 .. Cardinality(Opening)
  BY <1>1 DEF ApplicationsInv, RowsType, SubmissionsAreMetered
<1> QED BY <1>2 DEF ApplicationsInv, RowsType, ApplicationsTypeOK

LEMMA ApplicationsInitInv == ApplicationsInit => ApplicationsInv
<1> SUFFICES ASSUME ApplicationsInit PROVE ApplicationsInv
  OBVIOUS
<1>1. RowsType
  BY ApplicationAssumption DEF ApplicationsInit, RowsType
<1>2. InsertsAreApart
  BY DEF ApplicationsInit, InsertsAreApart
<1>3. submitted \cap Opening = {} /\ Cardinality({}) = 0
  BY FS_EmptySet DEF ApplicationsInit
<1>4. SubmissionsAreMetered
  BY <1>3, ApplicationAssumption DEF ApplicationsInit, SubmissionsAreMetered, Excess
<1> QED BY <1>1, <1>2, <1>4 DEF ApplicationsInv

-----------------------------------------------------------------------------

\* A transaction that opens, waits or rolls back leaves no trace.
LEMMA OpenSteps ==
    ASSUME ApplicationsInv, NEW a \in Applicant,
           (\E o \in Opening : InsertSubmission(a, o)) \/ LockCounter(a) \/ AbortSubmission(a)
    PROVE  ApplicationsInv'
<1>1. UNCHANGED <<submitted, promoted, sent, wallet>>
  BY DEF InsertSubmission, LockCounter, AbortSubmission, Rollback
<1>2. SubmissionsAreMetered'
  BY <1>1 DEF ApplicationsInv, SubmissionsAreMetered, Excess
<1>3. ASSUME NEW o \in Opening, InsertSubmission(a, o) PROVE RowsType' /\ InsertsAreApart'
  <2>1. RowsType'
    BY <1>1, <1>3 DEF ApplicationsInv, RowsType, InsertSubmission, NoTx
  <2>2. InsertsAreApart'
    BY <1>1, <1>3 DEF ApplicationsInv, RowsType, InsertsAreApart, InsertSubmission, NoTx
  <2> QED BY <2>1, <2>2
<1>4. CASE LockCounter(a)
  <2>1. tx[a] \in [at : {"inserted", "locked"}, on : Opening] /\ tx[a] # NoTx
    BY <1>4 DEF ApplicationsInv, RowsType, LockCounter, NoTx
  <2>2. RowsType'
    BY <1>1, <1>4, <2>1 DEF ApplicationsInv, RowsType, LockCounter
  <2>3. \A b \in Applicant : (tx'[b] # NoTx <=> tx[b] # NoTx) /\ tx'[b].on = tx[b].on
    BY <1>4, <2>1 DEF ApplicationsInv, RowsType, LockCounter, NoTx
  <2>4. InsertsAreApart'
    BY <1>1, <2>3 DEF ApplicationsInv, InsertsAreApart
  <2> QED BY <1>2, <2>2, <2>4 DEF ApplicationsInv
<1>5. CASE AbortSubmission(a)
  BY <1>1, <1>2, <1>5 DEF ApplicationsInv, RowsType, InsertsAreApart, AbortSubmission, Rollback
<1> QED BY <1>2, <1>3, <1>4, <1>5 DEF ApplicationsInv

\* The counter is compared and incremented in one transaction, so the first
\* FreeApplications answers are free and each of the others is paid.
LEMMA CommitStep ==
    ASSUME ApplicationsInv, NEW a \in Applicant, MeterAndCommit(a)
    PROVE  ApplicationsInv'
<1> DEFINE o == tx[a].on
           free == sent < FreeApplications
<1>1. tx[a] # NoTx /\ o \in Opening /\ o \notin submitted
  BY OpenTx DEF MeterAndCommit, CommitWhere, ApplicationsInv, InsertsAreApart, NoTx
<1>2. /\ free \/ wallet >= ApplicationCost
      /\ wallet' = IF free THEN wallet ELSE wallet - ApplicationCost
      /\ sent' = sent + 1
      /\ submitted' = submitted \cup {o}
      /\ tx' = [tx EXCEPT ![a] = NoTx]
      /\ promoted' = promoted
  BY DEF MeterAndCommit, CommitWhere
<1>3. RowsType'
  BY <1>1, <1>2, ApplicationAssumption DEF ApplicationsInv, RowsType
<1>4. InsertsAreApart'
  BY <1>1, <1>2 DEF ApplicationsInv, RowsType, InsertsAreApart
<1>5. sent' = Cardinality(submitted' \cap Opening)
  BY <1>1, <1>2, OneMore DEF ApplicationsInv, RowsType, SubmissionsAreMetered
<1>6. wallet' = SeekerFunds - ApplicationCost * Excess(sent') - PromotionCost * promoted'
  <2>1. /\ sent \in Nat /\ wallet \in Int /\ SeekerFunds \in Nat
        /\ ApplicationCost \in Nat /\ PromotionCost \in Nat /\ promoted \in Nat
        /\ FreeApplications \in Nat
        /\ wallet = SeekerFunds - ApplicationCost * Excess(sent) - PromotionCost * promoted
    BY ApplicationAssumption DEF ApplicationsInv, RowsType, SubmissionsAreMetered
  <2>2. CASE free
    <3>1. Excess(sent') = 0 /\ Excess(sent) = 0
      BY <1>2, <2>1, <2>2 DEF Excess
    <3> QED BY <1>2, <2>1, <2>2, <3>1
  <2>3. CASE ~free
    <3>1. Excess(sent') = Excess(sent) + 1 /\ Excess(sent) \in Nat
      BY <1>2, <2>1, <2>3 DEF Excess
    <3>2. ApplicationCost * (Excess(sent) + 1) = ApplicationCost * Excess(sent) + ApplicationCost
      BY <2>1, <3>1
    <3>3. ApplicationCost * Excess(sent) \in Int /\ PromotionCost * promoted \in Int
      BY <2>1, <3>1
    <3> QED BY <1>2, <2>1, <2>3, <3>1, <3>2, <3>3
  <2> QED BY <2>2, <2>3
<1> QED BY <1>3, <1>4, <1>5, <1>6 DEF ApplicationsInv, SubmissionsAreMetered

\* A company's answer is to another kind of listing and is not counted.
LEMMA CompanyStep ==
    ASSUME ApplicationsInv, NEW o \in OwnListing, SubmitAsCompany(o)
    PROVE  ApplicationsInv'
<1>1. submitted' \cap Opening = submitted \cap Opening
  BY ApplicationAssumption DEF SubmitAsCompany
<1>2. RowsType'
  BY DEF ApplicationsInv, RowsType, SubmitAsCompany
<1>3. InsertsAreApart'
  BY OpenTx, ApplicationAssumption DEF ApplicationsInv, InsertsAreApart, SubmitAsCompany
<1>4. SubmissionsAreMetered'
  BY <1>1 DEF ApplicationsInv, SubmissionsAreMetered, SubmitAsCompany, Excess
<1> QED BY <1>2, <1>3, <1>4 DEF ApplicationsInv

LEMMA PromotionStep ==
    ASSUME ApplicationsInv, BuyPromotion
    PROVE  ApplicationsInv'
<1>1. RowsType'
  BY ApplicationAssumption DEF ApplicationsInv, RowsType, BuyPromotion
<1>2. InsertsAreApart'
  BY DEF ApplicationsInv, InsertsAreApart, BuyPromotion
<1>3. /\ PromotionCost \in Nat /\ ApplicationCost \in Nat /\ promoted \in Nat /\ SeekerFunds \in Nat
      /\ sent \in Nat /\ Excess(sent) \in Nat
  BY ApplicationAssumption DEF ApplicationsInv, RowsType, Excess
<1>4. PromotionCost * (promoted + 1) = PromotionCost * promoted + PromotionCost
  BY <1>3
<1>5. PromotionCost * promoted \in Int /\ ApplicationCost * Excess(sent) \in Int
  BY <1>3
<1>6. wallet = SeekerFunds - ApplicationCost * Excess(sent) - PromotionCost * promoted
  BY DEF ApplicationsInv, SubmissionsAreMetered
<1>7. wallet' = SeekerFunds - ApplicationCost * Excess(sent) - PromotionCost * promoted'
  BY <1>3, <1>4, <1>5, <1>6 DEF BuyPromotion
<1>8. SubmissionsAreMetered'
  BY <1>7 DEF ApplicationsInv, SubmissionsAreMetered, BuyPromotion, Excess
<1> QED BY <1>1, <1>2, <1>8 DEF ApplicationsInv

LEMMA ApplicationsStep ==
    ApplicationsInv /\ [ApplicationsNext]_applicationVars => ApplicationsInv'
<1> SUFFICES ASSUME ApplicationsInv, [ApplicationsNext]_applicationVars PROVE ApplicationsInv'
  OBVIOUS
<1>1. CASE Promote
  BY <1>1, PromotionStep DEF Promote, PromoteListing, PromoteSubmission
<1>2. ASSUME NEW a \in Applicant, Apply(a) PROVE ApplicationsInv'
  BY <1>2, OpenSteps, CommitStep, CompanyStep DEF Apply
<1>3. CASE UNCHANGED applicationVars
  BY <1>3 DEF applicationVars, ApplicationsInv, RowsType, InsertsAreApart,
              SubmissionsAreMetered, Excess
<1> QED BY <1>1, <1>2, <1>3 DEF ApplicationsNext

-----------------------------------------------------------------------------

\* However applications overlap, the counter stays within the number of
\* listings and the wallet between nothing and what there was.
THEOREM ApplicationsTypeCorrect == ApplicationsSpec => []ApplicationsTypeOK
BY ApplicationsInitInv, ApplicationsStep, CounterFits, PTL DEF ApplicationsSpec

\* The counter is the number of applications that are there, and the wallet has
\* paid for exactly those beyond the free ones and for the promotions.
THEOREM ApplicationsAreMetered == ApplicationsSpec => []SubmissionsAreMetered
<1>1. ApplicationsInv => SubmissionsAreMetered
  BY DEF ApplicationsInv
<1> QED BY ApplicationsInitInv, ApplicationsStep, <1>1, PTL DEF ApplicationsSpec

-----------------------------------------------------------------------------
(* Publishing.                                                             *)

Bills == {"quota", "credits"}

\* The books of one ad: every request that published it left one bill, and what
\* shows, and every job that was ever written, was billed before.
AdFits(i) ==
    /\ Billed(i) = tally[i].published
    /\ ad[i].until <= Extended(i)
    /\ Extended(i) > 0 => ad[i].until > 0
    /\ ad[i].status = "NONE" => tally[i].published = 0 /\ ~ad[i].deleted
    /\ Published(i) \/ (i \in JobAd /\ ad[i].status # "NONE") => tally[i].published > 0

\* What a request read may be old, but was once true: an ad it read as published
\* was billed, and the promotion it read was paid for.
TaskFits(t) ==
    /\ t.op \in {"update", "remove", "restore"} => ad[t.i].status # "NONE"
    /\ t.op = "update" /\ t.was => tally[t.i].published > 0
    /\ t.op \in {"boost", "extend"} => t.until <= Extended(t.i)

\* Credits are asked for, and spent, when the month's quota is gone.
QuotaComesFirst ==
    /\ \A k \in Clerk : task[k].op = "credits" /\ task[k].i \notin Post
                          => used[MetricOf(task[k].i)] = FreeAds
    /\ QuotaGoesFirst

PublishingInv ==
    /\ PublishingTypeOK
    /\ \A i \in Ad : AdFits(i)
    /\ \A k \in Clerk : TaskFits(task[k])
    /\ QuotaComesFirst

-----------------------------------------------------------------------------

\* A set of requests with one element of it exchanged.
LEMMA WithoutOne ==
    ASSUME NEW S \in SUBSET Clerk, NEW k \in Clerk
    PROVE  /\ Cardinality(S) \in Nat
           /\ k \in S => Cardinality(S) = Cardinality(S \ {k}) + 1
           /\ k \notin S => Cardinality(S) = Cardinality(S \ {k})
<1>1. IsFiniteSet(S) /\ IsFiniteSet(S \ {k})
  BY PublishingAssumption, FS_Subset
<1>2. Cardinality(S) \in Nat /\ Cardinality(S \ {k}) \in Nat
  BY <1>1, FS_CardinalityType
<1>3. CASE k \in S
  <2>1. Cardinality(S \ {k}) = Cardinality(S) - 1
    BY <1>1, <1>3, FS_RemoveElement
  <2> QED BY <2>1, <1>2, <1>3
<1>4. CASE k \notin S
  <2>1. S \ {k} = S
    BY <1>4
  <2> QED BY <2>1, <1>2, <1>4
<1> QED BY <1>3, <1>4

\* A request that goes from one errand to another is counted under the new one.
Counts(t, i, ops) == IF t.op \in ops /\ t.i = i THEN 1 ELSE 0

LEMMA PendingMoves ==
    ASSUME PublishingTypeOK, NEW k \in Clerk, NEW t, task' = [task EXCEPT ![k] = t],
           NEW i \in Ad, NEW ops
    PROVE  /\ Pending(i, ops) \in Nat /\ Pending(i, ops)' \in Nat
           /\ Pending(i, ops)' = Pending(i, ops) - Counts(task[k], i, ops) + Counts(t, i, ops)
<1> DEFINE S == {c \in Clerk : task[c].op \in ops /\ task[c].i = i}
           T == {c \in Clerk : task'[c].op \in ops /\ task'[c].i = i}
<1>1. task'[k] = t /\ \A c \in Clerk \ {k} : task'[c] = task[c]
  BY DEF PublishingTypeOK
<1>2. S \ {k} = T \ {k}
  BY <1>1
<1>3. (k \in S <=> Counts(task[k], i, ops) = 1) /\ (k \in T <=> Counts(t, i, ops) = 1)
  BY <1>1 DEF Counts
<1>4. Counts(task[k], i, ops) \in {0, 1} /\ Counts(t, i, ops) \in {0, 1}
  BY DEF Counts
<1>5. S \in SUBSET Clerk /\ T \in SUBSET Clerk
  OBVIOUS
<1>6. Pending(i, ops) = Cardinality(S) /\ Pending(i, ops)' = Cardinality(T)
  BY DEF Pending
<1> HIDE DEF S, T
<1>7. /\ Cardinality(S) \in Nat
      /\ k \in S => Cardinality(S) = Cardinality(S \ {k}) + 1
      /\ k \notin S => Cardinality(S) = Cardinality(S \ {k})
  BY <1>5, WithoutOne
<1>8. /\ Cardinality(T) \in Nat
      /\ k \in T => Cardinality(T) = Cardinality(T \ {k}) + 1
      /\ k \notin T => Cardinality(T) = Cardinality(T \ {k})
  BY <1>5, WithoutOne
<1> QED BY <1>2, <1>3, <1>4, <1>6, <1>7, <1>8

\* What the counts of ad i become when a request turns from t to u and the tally
\* of i from its old value to r.
Moved(i, t, u, r) ==
    /\ Billed(i) \in Nat /\ Extended(i) \in Int
    /\ Billed(i)' = Billed(i) - Counts(t, i, Bills) + Counts(u, i, Bills)
                      + (r.free + r.paid + r.unpaid)
                      - (tally[i].free + tally[i].paid + tally[i].unpaid)
    /\ Extended(i)' = Extended(i) + Counts(t, i, {"extend"}) - Counts(u, i, {"extend"})
                        + (r.boosts - r.unextended) - (tally[i].boosts - tally[i].unextended)

LEMMA CountsMove ==
    ASSUME PublishingTypeOK, NEW k \in Clerk, NEW t, task' = [task EXCEPT ![k] = t],
           NEW i \in Ad, NEW r \in AdTally, tally'[i] = r
    PROVE  Moved(i, task[k], t, r)
<1>1. tally[i] \in AdTally
  BY DEF PublishingTypeOK
<1>2. \A ops : /\ Pending(i, ops) \in Nat /\ Pending(i, ops)' \in Nat
               /\ Pending(i, ops)' = Pending(i, ops) - Counts(task[k], i, ops) + Counts(t, i, ops)
  BY PendingMoves
<1>3. \A u, ops : Counts(u, i, ops) \in {0, 1}
  BY DEF Counts
<1>4. /\ Billed(i) = tally[i].free + tally[i].paid + tally[i].unpaid + Pending(i, Bills)
      /\ Billed(i)' = r.free + r.paid + r.unpaid + Pending(i, Bills)'
      /\ Extended(i) = tally[i].boosts - tally[i].unextended - Pending(i, {"extend"})
      /\ Extended(i)' = r.boosts - r.unextended - Pending(i, {"extend"})'
  BY DEF Billed, Extended, Bills
<1>5. /\ tally[i].free \in Nat /\ tally[i].paid \in Nat /\ tally[i].unpaid \in Nat
      /\ tally[i].boosts \in Nat /\ tally[i].unextended \in Nat
      /\ r.free \in Nat /\ r.paid \in Nat /\ r.unpaid \in Nat
      /\ r.boosts \in Nat /\ r.unextended \in Nat
  BY <1>1 DEF AdTally
<1>6. /\ Pending(i, Bills) \in Nat /\ Pending(i, Bills)' \in Nat
      /\ Pending(i, {"extend"}) \in Nat /\ Pending(i, {"extend"})' \in Nat
  BY <1>2
<1>7. Billed(i) \in Nat /\ Extended(i) \in Int
  BY <1>4, <1>5, <1>6
<1>8. Billed(i)' = Billed(i) - Counts(task[k], i, Bills) + Counts(t, i, Bills)
                      + (r.free + r.paid + r.unpaid)
                      - (tally[i].free + tally[i].paid + tally[i].unpaid)
  <2>1. Pending(i, Bills)' = Pending(i, Bills) - Counts(task[k], i, Bills) + Counts(t, i, Bills)
    BY <1>2
  <2>2. Counts(task[k], i, Bills) \in {0, 1} /\ Counts(t, i, Bills) \in {0, 1}
    BY <1>3
  <2> QED BY <1>4, <1>5, <1>6, <2>1, <2>2
<1>9. Extended(i)' = Extended(i) + Counts(task[k], i, {"extend"}) - Counts(t, i, {"extend"})
                        + (r.boosts - r.unextended) - (tally[i].boosts - tally[i].unextended)
  <2>1. Pending(i, {"extend"})' = Pending(i, {"extend"}) - Counts(task[k], i, {"extend"})
                                    + Counts(t, i, {"extend"})
    BY <1>2
  <2>2. Counts(task[k], i, {"extend"}) \in {0, 1} /\ Counts(t, i, {"extend"}) \in {0, 1}
    BY <1>3
  <2> QED BY <1>4, <1>5, <1>6, <2>1, <2>2
<1> QED BY <1>7, <1>8, <1>9 DEF Moved

\* The errand of a request is about an ad.
LEMMA TaskFields ==
    ASSUME PublishingTypeOK, NEW k \in Clerk
    PROVE  /\ task[k] \in Task
           /\ task[k].op \in {"update", "quota", "credits", "remove", "restore"} => task[k].i \in Ad
           /\ task[k].op \in {"boost", "extend"} =>
                task[k].i \in Post /\ task[k].i \in Ad /\ task[k].until \in Nat
           /\ task[k].op = "update" =>
                task[k].was \in BOOLEAN /\ task[k].to \in {"HIDDEN", "PUBLISHED", "SAME"}
BY DEF PublishingTypeOK, Task, NoTask, Ad

\* A step that leaves the promotion of an ad alone, bills it for nothing and
\* publishes it only where it was billed before.
LEMMA QuietAd ==
    ASSUME PublishingTypeOK, NEW k \in Clerk, NEW t, task' = [task EXCEPT ![k] = t],
           NEW j \in Ad, AdFits(j),
           tally'[j] = tally[j], ad'[j].until = ad[j].until,
           ad'[j].status = "NONE" <=> ad[j].status = "NONE",
           ad'[j].status = "NONE" /\ ad'[j].deleted => ad[j].deleted,
           ad'[j].status = "PUBLISHED" => ad[j].status = "PUBLISHED" \/ tally[j].published > 0,
           task[k].op \in Bills \cup {"extend"} => task[k].i # j,
           t.op \in Bills \cup {"extend"} => t.i # j
    PROVE  AdFits(j)' /\ Extended(j)' = Extended(j)
<1>1. tally[j] \in AdTally /\ tally[j] = tally'[j]
  BY DEF PublishingTypeOK
<1>2. Moved(j, task[k], t, tally[j])
  BY <1>1, CountsMove
<1>3. /\ Counts(task[k], j, Bills) = 0 /\ Counts(t, j, Bills) = 0
      /\ Counts(task[k], j, {"extend"}) = 0 /\ Counts(t, j, {"extend"}) = 0
  BY DEF Counts, Bills
<1>4. Billed(j)' = Billed(j)
  BY <1>1, <1>2, <1>3 DEF Moved, AdTally
<1>5. Extended(j)' = Extended(j)
  BY <1>1, <1>2, <1>3 DEF Moved, AdTally
<1>6. /\ Billed(j)' = tally'[j].published
      /\ ad'[j].until <= Extended(j)'
      /\ Extended(j)' > 0 => ad'[j].until > 0
  BY <1>4, <1>5 DEF AdFits
<1>7. ad'[j].status = "NONE" => tally'[j].published = 0 /\ ~ad'[j].deleted
  BY DEF AdFits
<1>8. Published(j)' \/ (j \in JobAd /\ ad'[j].status # "NONE") => tally'[j].published > 0
  BY DEF AdFits, Published
<1> QED BY <1>5, <1>6, <1>7, <1>8 DEF AdFits

\* What a request read stays true, since no count of an ad falls.
LEMMA TasksStep ==
    ASSUME PublishingInv, NEW k \in Clerk, NEW t \in Task, task' = [task EXCEPT ![k] = t],
           \A j \in Ad : /\ tally'[j].published \in Nat /\ Extended(j)' \in Int
                         /\ tally'[j].published >= tally[j].published
                         /\ Extended(j)' >= Extended(j) /\ Extended(j) \in Int
                         /\ ad'[j].status = "NONE" => ad[j].status = "NONE",
           t.op \in {"update", "remove", "restore"} => ad'[t.i].status # "NONE",
           t.op = "update" /\ t.was => tally'[t.i].published > 0,
           \A j \in Ad : t.op \in {"boost", "extend"} /\ t.i = j => t.until <= Extended(j)'
    PROVE  \A c \in Clerk : TaskFits(task[c])'
<1> SUFFICES ASSUME NEW c \in Clerk PROVE TaskFits(task[c])'
  OBVIOUS
<1>1. PublishingTypeOK /\ TaskFits(task[c])
  BY DEF PublishingInv
<1>2. task'[c] = IF c = k THEN t ELSE task[c]
  BY <1>1 DEF PublishingTypeOK
<1>3. PICK u \in Task : u = task'[c]
  BY <1>1, <1>2 DEF PublishingTypeOK
<1>4. ASSUME u.op \in {"update", "remove", "restore"}
      PROVE  ad'[u.i].status # "NONE" /\ (u.op = "update" /\ u.was => tally'[u.i].published > 0)
  <2>1. CASE c = k
    BY <1>2, <1>3, <1>4, <2>1
  <2>2. CASE c # k
    <3>1. u = task[c]
      BY <1>2, <1>3, <2>2
    <3>2. u.i \in Ad
      BY <1>4 DEF Task, NoTask
    <3>3. ad[u.i].status # "NONE" /\ (u.op = "update" /\ u.was => tally[u.i].published > 0)
      BY <1>1, <1>4, <3>1 DEF TaskFits
    <3>4. tally[u.i].published \in Nat
      BY <1>1, <3>2 DEF PublishingTypeOK, AdTally
    <3> QED BY <3>2, <3>3, <3>4
  <2> QED BY <2>1, <2>2
<1>5. ASSUME u.op \in {"boost", "extend"} PROVE u.until <= Extended(u.i)'
  <2>1. u.i \in Ad /\ u.until \in Nat
    BY <1>5 DEF Task, NoTask, Ad
  <2>2. CASE c = k
    BY <1>2, <1>3, <1>5, <2>1, <2>2
  <2>3. CASE c # k
    <3>1. u = task[c]
      BY <1>2, <1>3, <2>3
    <3>2. u.until <= Extended(u.i)
      BY <1>1, <1>5, <3>1 DEF TaskFits
    <3> QED BY <2>1, <3>2
  <2> QED BY <2>2, <2>3
<1>6. \A x : x = task'[c] => x = u
  BY <1>3
<1> QED BY <1>3, <1>4, <1>5, <1>6 DEF TaskFits

-----------------------------------------------------------------------------

LEMMA PublishingInitInv == PublishingInit => PublishingInv
<1> SUFFICES ASSUME PublishingInit PROVE PublishingInv
  OBVIOUS
<1>1. PublishingTypeOK
  BY PublishingAssumption DEF PublishingInit, PublishingTypeOK, Task, AdRow, AdTally
<1>2. ASSUME NEW i \in Ad PROVE AdFits(i)
  <2>1. ASSUME NEW ops \in {Bills, {"extend"}} PROVE Pending(i, ops) = 0
    <3>1. {c \in Clerk : task[c].op \in ops /\ task[c].i = i} = {}
      BY <2>1 DEF PublishingInit, NoTask, Bills
    <3> QED BY <3>1, FS_EmptySet DEF Pending
  <2>2. Billed(i) = 0 /\ Extended(i) = 0
    BY <2>1 DEF Billed, Extended, Bills, PublishingInit
  <2> QED BY <2>2 DEF AdFits, Published, PublishingInit
<1>3. \A k \in Clerk : TaskFits(task[k])
  BY DEF PublishingInit, TaskFits, NoTask
<1>4. QuotaComesFirst
  BY DEF PublishingInit, QuotaComesFirst, QuotaGoesFirst, NoTask, Ad
<1> QED BY <1>1, <1>2, <1>3, <1>4 DEF PublishingInv

\* A request that begins, removes or restores bills nothing.
LEMMA QuietSteps ==
    ASSUME PublishingInv, NEW k \in Clerk, NEW t \in Task,
           task' = [task EXCEPT ![k] = t], UNCHANGED <<used, funds, tally>>,
           task[k].op \notin Bills \cup {"extend"}, t.op \notin Bills \cup {"extend"},
           ad' \in [Ad -> AdRow],
           \A i \in Ad : /\ ad'[i].until = ad[i].until
                         /\ ad'[i].status = "NONE" <=> ad[i].status = "NONE"
                         /\ ad'[i].status = "NONE" /\ ad'[i].deleted => ad[i].deleted
                         /\ ad'[i].status = "PUBLISHED" => ad[i].status = "PUBLISHED",
           t.op \in {"update", "remove", "restore"} => ad[t.i].status # "NONE",
           t.op = "update" /\ t.was => ad[t.i].status = "PUBLISHED",
           t.op = "boost" => t.until = ad[t.i].until
    PROVE  PublishingInv'
<1>1. PublishingTypeOK /\ PublishingTypeOK' /\ \A i \in Ad : AdFits(i)
  BY DEF PublishingInv, PublishingTypeOK
<1>2. \A i \in Ad : AdFits(i)' /\ Extended(i)' = Extended(i)
  BY <1>1, QuietAd
<1>3. \A i \in Ad : Extended(i) \in Int /\ tally[i].published \in Nat
  BY <1>1, CountsMove DEF Moved, PublishingTypeOK, AdTally
<1>4. /\ t.op \in {"update", "remove", "restore"} => ad'[t.i].status # "NONE"
      /\ t.op = "update" /\ t.was => tally'[t.i].published > 0
  <2>1. t.op \in {"update", "remove", "restore"} => t.i \in Ad
    BY DEF Task, NoTask
  <2> QED BY <1>1, <2>1 DEF AdFits, Published
<1>5. ASSUME NEW j \in Ad, t.op \in {"boost", "extend"}, t.i = j PROVE t.until <= Extended(j)'
  <2>1. t.until = ad[j].until /\ ad[j].until <= Extended(j)
    BY <1>1, <1>5 DEF AdFits
  <2> QED BY <1>2, <2>1
<1>6. \A c \in Clerk : TaskFits(task[c])'
  <2>1. \A j \in Ad : /\ tally'[j].published \in Nat /\ Extended(j)' \in Int
                      /\ tally'[j].published >= tally[j].published
                      /\ Extended(j)' >= Extended(j) /\ Extended(j) \in Int
                      /\ ad'[j].status = "NONE" => ad[j].status = "NONE"
    <3> SUFFICES ASSUME NEW j \in Ad
                 PROVE  /\ tally'[j].published \in Nat /\ Extended(j)' \in Int
                        /\ tally'[j].published >= tally[j].published
                        /\ Extended(j)' >= Extended(j) /\ Extended(j) \in Int
                        /\ ad'[j].status = "NONE" => ad[j].status = "NONE"
      OBVIOUS
    <3>1. Extended(j)' = Extended(j) /\ Extended(j) \in Int
      BY <1>2, <1>3
    <3>2. tally'[j].published = tally[j].published /\ tally[j].published \in Nat
      BY <1>3
    <3> QED BY <3>1, <3>2
  <2> QED BY <1>4, <1>5, <2>1, TasksStep
<1>7. QuotaComesFirst'
  <2>1. \A c \in Clerk : task'[c].op = "credits" => task'[c] = task[c]
    BY <1>1 DEF PublishingTypeOK, Bills
  <2> QED BY <2>1 DEF PublishingInv, QuotaComesFirst, QuotaGoesFirst
<1> QED BY <1>1, <1>2, <1>6, <1>7 DEF PublishingInv

\* A request that begins, removes or restores.
LEMMA UnbilledSteps ==
    ASSUME PublishingInv, NEW k \in Clerk,
           \/ \E i \in Ad : BeginRemoveAd(k, i) \/ BeginRestoreAd(k, i) \/ BeginBoost(k, i)
           \/ \E i \in Ad, to \in {"HIDDEN", "PUBLISHED", "SAME"} :
                BeginUpdateVehicleAd(k, i, to) \/ BeginUpdatePost(k, i, to)
           \/ CommitRemoveAd(k) \/ CommitRestoreAd(k)
    PROVE  PublishingInv'
<1>1. PublishingTypeOK
  BY DEF PublishingInv
<1>2. ASSUME NEW i \in Ad, BeginRemoveAd(k, i) \/ BeginRestoreAd(k, i) \/ BeginBoost(k, i)
      PROVE  PublishingInv'
  <2>1. PICK t \in Task : /\ task' = [task EXCEPT ![k] = t]
                          /\ t.op \in {"remove", "restore", "boost"}
                          /\ t.op = "boost" => t.until = ad[t.i].until
                          /\ t.op # "boost" => ad[t.i].status # "NONE"
    <3>1. ad[i].deleted => ad[i].status # "NONE"
      BY DEF PublishingInv, AdFits
    <3>2. ad[i] \in AdRow
      BY <1>1 DEF PublishingTypeOK
    <3>3. CASE BeginRemoveAd(k, i)
      <4>1. [op |-> "remove", i |-> i] \in Task
        BY DEF Task
      <4> QED BY <3>3, <4>1 DEF BeginRemoveAd, Ask, Live
    <3>4. CASE BeginRestoreAd(k, i)
      <4>1. [op |-> "restore", i |-> i] \in Task
        BY DEF Task
      <4> QED BY <3>1, <3>4, <4>1 DEF BeginRestoreAd, Ask
    <3>5. CASE BeginBoost(k, i)
      <4>1. PICK n \in Nat : n = ad[i].until
        BY <3>2 DEF AdRow
      <4>2. [op |-> "boost", i |-> i, until |-> n] \in Task
        BY <3>5 DEF BeginBoost, Task
      <4> QED BY <3>5, <4>1, <4>2 DEF BeginBoost, Ask
    <3> QED BY <1>2, <3>3, <3>4, <3>5
  <2>2. task[k] = NoTask /\ UNCHANGED <<ad, used, funds, tally>>
    BY <1>2 DEF BeginRemoveAd, BeginRestoreAd, BeginBoost, Ask, ReadOnly
  <2>3. task[k].op \notin Bills \cup {"extend"} /\ t.op \notin Bills \cup {"extend"}
        /\ t.op # "update"
    BY <2>1, <2>2 DEF Bills, NoTask
  <2> QED BY <1>1, <2>1, <2>2, <2>3, QuietSteps DEF PublishingTypeOK
<1>3. ASSUME NEW i \in Ad, NEW to \in {"HIDDEN", "PUBLISHED", "SAME"},
             BeginUpdateVehicleAd(k, i, to) \/ BeginUpdatePost(k, i, to)
      PROVE  PublishingInv'
  <2>1. PICK was \in BOOLEAN : was = Published(i)
    BY DEF Published
  <2> DEFINE t == [op |-> "update", i |-> i, was |-> was, to |-> to]
  <2>2. t \in Task /\ t.op = "update" /\ t.i = i /\ t.was = was
    BY DEF Task
  <2>3. task[k] = NoTask /\ UNCHANGED <<ad, used, funds, tally>> /\ Live(i)
        /\ task' = [task EXCEPT ![k] = t]
    BY <1>3, <2>1 DEF BeginUpdateVehicleAd, BeginUpdatePost, Ask, ReadOnly
  <2> HIDE DEF t
  <2>4. ad[t.i].status # "NONE" /\ (t.was => ad[t.i].status = "PUBLISHED")
    BY <2>1, <2>2, <2>3 DEF Live, Published
  <2>5. task[k].op \notin Bills \cup {"extend"} /\ t.op \notin Bills \cup {"extend", "boost"}
    BY <2>2, <2>3 DEF Bills, NoTask
  <2> QED BY <1>1, <2>2, <2>3, <2>4, <2>5, QuietSteps DEF PublishingTypeOK
<1>4. CASE CommitRemoveAd(k) \/ CommitRestoreAd(k)
  <2>1. /\ task' = [task EXCEPT ![k] = NoTask] /\ UNCHANGED <<used, funds, tally>>
        /\ task[k].op \in {"remove", "restore"}
    BY <1>4 DEF CommitRemoveAd, CommitRestoreAd, Proceed
  <2>2. task[k].i \in Ad /\ ad[task[k].i].status # "NONE"
    BY <1>1, <2>1, TaskFields DEF PublishingInv, TaskFits
  <2>3. /\ ad' \in [Ad -> AdRow]
        /\ \A i \in Ad : /\ ad'[i].until = ad[i].until
                         /\ ad'[i].status = "NONE" <=> ad[i].status = "NONE"
                         /\ ad'[i].status = "NONE" /\ ad'[i].deleted => ad[i].deleted
                         /\ ad'[i].status = "PUBLISHED" => ad[i].status = "PUBLISHED"
    <3> DEFINE i == task[k].i
    <3>1. PICK deleted \in BOOLEAN, status \in {"HIDDEN", ad[i].status} :
            ad' = [ad EXCEPT ![i].deleted = deleted, ![i].status = status]
      BY <1>4 DEF CommitRemoveAd, CommitRestoreAd
    <3>2. ad[i].status \in {"HIDDEN", "PUBLISHED"}
      BY <1>1, <2>2 DEF PublishingTypeOK, AdRow
    <3>3. status \in {"HIDDEN", "PUBLISHED"}
      BY <3>1, <3>2
    <3>4. i \in Ad
      BY <2>2
    <3> HIDE DEF i
    <3> QED BY <1>1, <3>1, <3>2, <3>3, <3>4 DEF PublishingTypeOK, AdRow
  <2>4. NoTask \in Task /\ NoTask.op = "none"
    BY DEF Task, NoTask
  <2> QED BY <2>1, <2>3, <2>4, QuietSteps DEF Bills
<1> QED BY <1>2, <1>3, <1>4

\* Patching a job listing bills nothing.
LEMMA PublishingJobStep ==
    ASSUME PublishingInv, NEW i \in JobAd, NEW to \in {"HIDDEN", "PUBLISHED"}, UpdateJobAd(i, to)
    PROVE  PublishingInv'
<1>1. /\ PublishingTypeOK /\ i \in Ad /\ ad[i].status # "NONE"
      /\ ad' = [ad EXCEPT ![i].status = to] /\ UNCHANGED <<used, funds, task, tally>>
  BY DEF PublishingInv, UpdateJobAd, Ad
<1>2. PublishingTypeOK'
  BY <1>1 DEF PublishingTypeOK, AdRow
<1>3. \A j \in Ad : Billed(j)' = Billed(j) /\ Extended(j)' = Extended(j)
  BY <1>1 DEF Billed, Extended, Pending
<1>4. \A j \in Ad : /\ ad'[j].until = ad[j].until /\ ad'[j].deleted = ad[j].deleted
                    /\ ad'[j].status = "NONE" <=> ad[j].status = "NONE"
                    /\ j # i => ad'[j] = ad[j]
  BY <1>1 DEF PublishingTypeOK, AdRow
<1>5. ASSUME NEW j \in Ad PROVE AdFits(j)'
  <2>1. AdFits(j) /\ AdFits(i)
    BY <1>1 DEF PublishingInv
  <2>2. Published(j)' => Published(j) \/ (j \in JobAd /\ ad[j].status # "NONE")
    BY <1>1, <1>4 DEF Published
  <2> QED BY <1>1, <1>3, <1>4, <2>1, <2>2 DEF AdFits
<1>6. ASSUME NEW c \in Clerk PROVE TaskFits(task[c])'
  <2>1. TaskFits(task[c])
    BY DEF PublishingInv
  <2>2. /\ task[c].op \in {"update", "remove", "restore"} => task[c].i \in Ad
        /\ task[c].op \in {"boost", "extend"} => task[c].i \in Ad
    BY <1>1, TaskFields
  <2>3. /\ task[c].op \in {"update", "remove", "restore"} => ad'[task[c].i].status # "NONE"
        /\ task[c].op = "update" /\ task[c].was => tally'[task[c].i].published > 0
    BY <1>1, <1>4, <2>1, <2>2 DEF TaskFits
  <2>4. ASSUME task[c].op \in {"boost", "extend"} PROVE task[c].until <= Extended(task[c].i)'
    <3>1. Extended(task[c].i)' = Extended(task[c].i)
      BY <1>1 DEF Extended, Pending
    <3> QED BY <2>1, <2>4, <3>1 DEF TaskFits
  <2> QED BY <1>1, <2>3, <2>4 DEF TaskFits
<1>7. QuotaComesFirst'
  BY <1>1 DEF PublishingInv, QuotaComesFirst, QuotaGoesFirst
<1> QED BY <1>2, <1>5, <1>6, <1>7 DEF PublishingInv

-----------------------------------------------------------------------------

\* A step about one ad, whose books it leaves in order.
LEMMA OneAdStep ==
    ASSUME PublishingInv, NEW k \in Clerk, NEW i \in Ad,
           NEW t \in Task, task' = [task EXCEPT ![k] = t],
           NEW r \in AdTally, tally' = [tally EXCEPT ![i] = r],
           NEW a \in AdRow, ad' = [ad EXCEPT ![i] = a],
           used' \in [Metered -> 0 .. FreeAds], funds' \in 0 .. Funds,
           task[k].op \in Bills \cup {"extend"} => task[k].i = i,
           t.op \in Bills \cup {"extend"} => t.i = i,
           t.op \notin {"update", "remove", "restore", "boost"},
           t.op = "extend" => t.until <= Extended(i)',
           a.status = "NONE" => ad[i].status = "NONE",
           r.published >= tally[i].published, Extended(i)' >= Extended(i),
           AdFits(i)', QuotaComesFirst'
    PROVE  PublishingInv'
<1>1. PublishingTypeOK /\ PublishingTypeOK' /\ \A j \in Ad : AdFits(j)
  BY DEF PublishingInv, PublishingTypeOK
<1>2. ASSUME NEW j \in Ad, j # i PROVE AdFits(j)' /\ Extended(j)' = Extended(j)
  <2>1. tally'[j] = tally[j] /\ ad'[j] = ad[j]
    BY <1>1, <1>2 DEF PublishingTypeOK
  <2>2. AdFits(j) /\ task[k].op \in Bills \cup {"extend"} => task[k].i # j
    BY <1>2
  <2>3. t.op \in Bills \cup {"extend"} => t.i # j
    BY <1>2
  <2> QED BY <1>1, <2>1, <2>2, <2>3, QuietAd
<1>3. \A j \in Ad : AdFits(j)'
  BY <1>2
<1>4. \A j \in Ad : /\ tally'[j].published \in Nat /\ Extended(j)' \in Int
                    /\ tally'[j].published >= tally[j].published
                    /\ Extended(j)' >= Extended(j) /\ Extended(j) \in Int
                    /\ ad'[j].status = "NONE" => ad[j].status = "NONE"
  <2> SUFFICES ASSUME NEW j \in Ad
               PROVE  /\ tally'[j].published \in Nat /\ Extended(j)' \in Int
                      /\ tally'[j].published >= tally[j].published
                      /\ Extended(j)' >= Extended(j) /\ Extended(j) \in Int
                      /\ ad'[j].status = "NONE" => ad[j].status = "NONE"
    OBVIOUS
  <2>1. tally'[j] = (IF j = i THEN r ELSE tally[j]) /\ ad'[j] = IF j = i THEN a ELSE ad[j]
    BY <1>1 DEF PublishingTypeOK
  <2>2. tally[j] \in AdTally /\ tally'[j] \in AdTally
    BY <1>1 DEF PublishingTypeOK
  <2>3. PICK q \in AdTally : q = tally'[j]
    BY <2>2
  <2>4. Moved(j, task[k], t, q)
    BY <1>1, <2>3, CountsMove
  <2>5. Extended(j) \in Int
    BY <2>4 DEF Moved
  <2>6. Extended(j)' \in Int
    <3>1. /\ Counts(task[k], j, {"extend"}) \in Int /\ Counts(t, j, {"extend"}) \in Int
          /\ q.boosts \in Int /\ q.unextended \in Int
          /\ tally[j].boosts \in Int /\ tally[j].unextended \in Int
      BY <2>2 DEF Counts, AdTally
    <3> QED BY <2>4, <3>1 DEF Moved
  <2>7. Extended(j)' >= Extended(j)
    BY <1>2, <2>5
  <2>8. tally[j].published \in Nat /\ tally'[j].published \in Nat
    BY <2>2 DEF AdTally
  <2> QED BY <2>1, <2>5, <2>6, <2>7, <2>8
<1>5. \A c \in Clerk : TaskFits(task[c])'
  <2>1. \A j \in Ad : t.op \in {"boost", "extend"} /\ t.i = j => t.until <= Extended(j)'
    OBVIOUS
  <2> QED BY <1>4, <2>1, TasksStep
<1> QED BY <1>1, <1>3, <1>5 DEF PublishingInv

\* A creation: an ad that was never written has no bill yet.
LEMMA CreateStep ==
    ASSUME PublishingInv, NEW k \in Clerk, NEW i \in Ad, NEW status \in {"HIDDEN", "PUBLISHED"},
           i \in JobAd => status = "PUBLISHED",
           CreateAd(k, i, status)
    PROVE  PublishingInv'
<1> DEFINE n == IF status = "PUBLISHED" THEN 1 ELSE 0
<1>1. PICK t \in {NoTask, [op |-> "quota", i |-> i]} :
        /\ task' = [task EXCEPT ![k] = t] /\ task[k] = NoTask
        /\ t.op = "quota" <=> status = "PUBLISHED"
        /\ t.op = "quota" => t.i = i
  BY DEF CreateAd, Ask, NoTask
<1>2. /\ PublishingTypeOK /\ AdFits(i) /\ ad[i].status = "NONE"
      /\ ad' = [ad EXCEPT ![i].status = status]
      /\ tally' = [tally EXCEPT ![i].published = n]
      /\ UNCHANGED <<used, funds>>
  BY DEF PublishingInv, CreateAd
<1>3. tally[i] \in AdTally /\ ad[i] \in AdRow
  BY <1>2 DEF PublishingTypeOK
<1>4. PICK r \in AdTally : r = [tally[i] EXCEPT !.published = n]
  BY <1>3 DEF AdTally
<1>5. PICK a \in AdRow : a = [ad[i] EXCEPT !.status = status]
  BY <1>3 DEF AdRow
<1>6. /\ tally' = [tally EXCEPT ![i] = r] /\ tally'[i] = r
      /\ ad' = [ad EXCEPT ![i] = a] /\ ad'[i] = a
  BY <1>2, <1>4, <1>5 DEF PublishingTypeOK
<1>7. Moved(i, task[k], t, r)
  BY <1>1, <1>2, <1>6, CountsMove
<1>8. /\ Counts(task[k], i, Bills) = 0 /\ Counts(task[k], i, {"extend"}) = 0
      /\ Counts(t, i, {"extend"}) = 0
      /\ Counts(t, i, Bills) = n
  BY <1>1 DEF Counts, Bills, NoTask
<1>9. /\ r.published = n /\ r.free = tally[i].free /\ r.paid = tally[i].paid
      /\ r.unpaid = tally[i].unpaid /\ r.boosts = tally[i].boosts
      /\ r.unextended = tally[i].unextended
      /\ a.status = status /\ a.until = ad[i].until
  BY <1>3, <1>4, <1>5 DEF AdTally, AdRow
<1>10. Extended(i)' = Extended(i) /\ Extended(i) \in Int
  BY <1>3, <1>7, <1>8, <1>9 DEF Moved, AdTally
<1>11. Billed(i) = 0 /\ tally[i].published = 0
  BY <1>2 DEF AdFits
<1>12. Billed(i)' = n
  BY <1>3, <1>7, <1>8, <1>9, <1>11 DEF Moved, AdTally
<1>13. AdFits(i)'
  BY <1>2, <1>6, <1>9, <1>10, <1>12 DEF AdFits, Published
<1>14. QuotaComesFirst'
  <2>1. ASSUME NEW j \in VehicleAd \cup JobAd PROVE tally'[j].paid = tally[j].paid
    BY <1>2, <1>6, <1>9 DEF PublishingTypeOK, Ad
  <2>2. \A c \in Clerk : task'[c].op = "credits" => task'[c] = task[c]
    BY <1>1, <1>2 DEF PublishingTypeOK, NoTask
  <2> QED BY <1>2, <2>1, <2>2 DEF PublishingInv, QuotaComesFirst, QuotaGoesFirst
<1>15. t \in Task /\ t.op \notin {"update", "remove", "restore", "boost", "extend"}
       /\ (t.op \in Bills \cup {"extend"} => t.i = i) /\ task[k].op \notin Bills \cup {"extend"}
  BY <1>1 DEF Task, NoTask, Bills
<1>16. r.published >= tally[i].published /\ Extended(i)' >= Extended(i) /\ a.status # "NONE"
  BY <1>9, <1>10, <1>11
<1>17. used' \in [Metered -> 0 .. FreeAds] /\ funds' \in 0 .. Funds
  BY <1>2 DEF PublishingTypeOK
<1> QED BY <1>1, <1>6, <1>13, <1>14, <1>15, <1>16, <1>17, OneAdStep

\* The free quota, or its end.
LEMMA QuotaStep ==
    ASSUME PublishingInv, NEW k \in Clerk, UseMonthlyQuota(k) \/ UsePostQuota(k)
    PROVE  PublishingInv'
<1>1. PICK i \in Ad : i = task[k].i
  BY TaskFields DEF PublishingInv, UseMonthlyQuota, MonthlyQuota, UsePostQuota
<1> DEFINE m == MetricOf(i)
<1>2. /\ PublishingTypeOK /\ task[k].op = "quota" /\ AdFits(i) /\ UNCHANGED <<ad, funds>>
  BY DEF PublishingInv, UseMonthlyQuota, MonthlyQuota, UsePostQuota
<1>3. PICK t \in {NoTask, [op |-> "credits", i |-> i]} :
        /\ task' = [task EXCEPT ![k] = t]
        /\ tally' = IF t = NoTask THEN [tally EXCEPT ![i].free = @ + 1] ELSE tally
        /\ \/ used' = used
           \/ used' = [used EXCEPT ![m] = @ + 1] /\ used[m] < FreeAds
        /\ i \notin Post /\ t # NoTask => used[m] = FreeAds
  <2>1. used[m] \in 0 .. FreeAds /\ FreeAds \in Nat
    BY <1>2, PublishingAssumption DEF PublishingTypeOK, MetricOf, Metered
  <2>2. [op |-> "credits", i |-> i] # NoTask
    BY DEF NoTask
  <2>3. CASE UseMonthlyQuota(k)
    BY <1>1, <2>1, <2>2, <2>3 DEF UseMonthlyQuota, MonthlyQuota, Proceed
  <2>4. CASE UsePostQuota(k)
    BY <1>1, <2>2, <2>4 DEF UsePostQuota, Proceed
  <2> QED BY <2>3, <2>4, <1>2 DEF PublishingInv, UseMonthlyQuota, MonthlyQuota, UsePostQuota
<1>4. /\ t \in Task /\ t.op \in {"none", "credits"} /\ (t.op = "credits" => t.i = i)
      /\ t.op = "none" <=> t = NoTask
  BY <1>3 DEF Task, NoTask
<1>5. \A j \in Metered : used'[j] \in 0 .. FreeAds /\ (used[j] = FreeAds => used'[j] = FreeAds)
  BY <1>2, <1>3, PublishingAssumption DEF PublishingTypeOK
<1>6. used' \in [Metered -> 0 .. FreeAds] /\ funds' \in 0 .. Funds
  BY <1>2, <1>3, <1>5 DEF PublishingTypeOK
<1>7. tally[i] \in AdTally /\ ad[i] \in AdRow
  BY <1>2 DEF PublishingTypeOK
<1>8. PICK r \in AdTally :
        /\ r = IF t = NoTask THEN [tally[i] EXCEPT !.free = @ + 1] ELSE tally[i]
        /\ r.free = IF t = NoTask THEN tally[i].free + 1 ELSE tally[i].free
        /\ r.published = tally[i].published /\ r.paid = tally[i].paid
        /\ r.unpaid = tally[i].unpaid /\ r.boosts = tally[i].boosts
        /\ r.unextended = tally[i].unextended
  <2>1. CASE t = NoTask
    <3>1. [tally[i] EXCEPT !.free = @ + 1] \in AdTally
      BY <1>7 DEF AdTally
    <3> QED BY <1>7, <2>1, <3>1 DEF AdTally
  <2>2. CASE t # NoTask
    BY <1>7, <2>2
  <2> QED BY <2>1, <2>2
<1>9. PICK a \in AdRow : a = ad[i]
  BY <1>7
<1>10. /\ tally' = [tally EXCEPT ![i] = r] /\ tally'[i] = r
       /\ ad' = [ad EXCEPT ![i] = a] /\ ad'[i] = a
  BY <1>2, <1>3, <1>8, <1>9 DEF PublishingTypeOK
<1>11. Moved(i, task[k], t, r)
  BY <1>2, <1>3, <1>10, CountsMove
<1>12. /\ Counts(task[k], i, Bills) = 1 /\ Counts(task[k], i, {"extend"}) = 0
       /\ Counts(t, i, {"extend"}) = 0
       /\ Counts(t, i, Bills) = IF t = NoTask THEN 0 ELSE 1
  BY <1>1, <1>2, <1>4 DEF Counts, Bills
<1>13. /\ r.published = tally[i].published /\ r.paid = tally[i].paid
       /\ r.free = IF t = NoTask THEN tally[i].free + 1 ELSE tally[i].free
       /\ r.unpaid = tally[i].unpaid /\ r.boosts = tally[i].boosts
       /\ r.unextended = tally[i].unextended
  BY <1>8
<1>14. Extended(i)' = Extended(i) /\ Extended(i) \in Int
  BY <1>7, <1>11, <1>12, <1>13 DEF Moved, AdTally
<1>15. Billed(i)' = Billed(i)
  <2>1. CASE t = NoTask
    BY <1>7, <1>11, <1>12, <1>13, <2>1 DEF Moved, AdTally
  <2>2. CASE t # NoTask
    BY <1>7, <1>11, <1>12, <1>13, <2>2 DEF Moved, AdTally
  <2> QED BY <2>1, <2>2
<1>16. AdFits(i)'
  BY <1>2, <1>9, <1>10, <1>13, <1>14, <1>15 DEF AdFits, Published
<1>17. QuotaComesFirst'
  <2>1. ASSUME NEW j \in Ad PROVE tally'[j].paid = tally[j].paid
    BY <1>2, <1>10, <1>13 DEF PublishingTypeOK
  <2>2. ASSUME NEW c \in Clerk, task'[c].op = "credits", task'[c].i \notin Post
        PROVE  used[MetricOf(task'[c].i)] = FreeAds
    BY <1>2, <1>3, <1>4, <2>2 DEF PublishingInv, QuotaComesFirst, PublishingTypeOK
  <2>3. \A j : MetricOf(j) \in Metered
    BY DEF MetricOf, Metered
  <2> QED BY <1>5, <2>1, <2>2, <2>3 DEF PublishingInv, QuotaComesFirst, QuotaGoesFirst, Ad
<1>18. t.op \notin {"update", "remove", "restore", "boost", "extend"}
       /\ (t.op \in Bills \cup {"extend"} => t.i = i)
       /\ (task[k].op \in Bills \cup {"extend"} => task[k].i = i)
  BY <1>1, <1>4 DEF Bills
<1>19. r.published >= tally[i].published /\ Extended(i)' >= Extended(i)
       /\ (a.status = "NONE" => ad[i].status = "NONE")
  BY <1>7, <1>9, <1>13, <1>14 DEF AdTally
<1> QED BY <1>3, <1>4, <1>6, <1>10, <1>16, <1>17, <1>18, <1>19, OneAdStep

\* The debit, or INSUFFICIENT_CREDITS.
LEMMA SpendStep ==
    ASSUME PublishingInv, NEW k \in Clerk, SpendCredits(k)
    PROVE  PublishingInv'
<1>1. PICK i \in Ad : i = task[k].i
  BY TaskFields DEF PublishingInv, SpendCredits
<1>2. /\ PublishingTypeOK /\ task[k].op = "credits" /\ AdFits(i) /\ UNCHANGED <<ad, used>>
      /\ task' = [task EXCEPT ![k] = NoTask]
  BY DEF PublishingInv, SpendCredits, Proceed
<1>3. funds' \in 0 .. Funds
  BY <1>2, PublishingAssumption DEF SpendCredits, PublishingTypeOK
<1>4. tally' = [tally EXCEPT ![i].paid = @ + 1] \/ tally' = [tally EXCEPT ![i].unpaid = @ + 1]
  BY <1>1 DEF SpendCredits
<1>5. tally[i] \in AdTally /\ ad[i] \in AdRow
  BY <1>2 DEF PublishingTypeOK
<1>6. PICK r \in AdTally :
        /\ tally' = [tally EXCEPT ![i] = r]
        /\ r.published = tally[i].published /\ r.free = tally[i].free
        /\ r.paid + r.unpaid = tally[i].paid + tally[i].unpaid + 1
        /\ r.boosts = tally[i].boosts /\ r.unextended = tally[i].unextended
  <2>1. CASE tally' = [tally EXCEPT ![i].paid = @ + 1]
    <3> DEFINE r == [tally[i] EXCEPT !.paid = @ + 1]
    <3>1. r \in AdTally
      BY <1>5 DEF AdTally
    <3>2. /\ r.published = tally[i].published /\ r.free = tally[i].free
          /\ r.paid + r.unpaid = tally[i].paid + tally[i].unpaid + 1
          /\ r.boosts = tally[i].boosts /\ r.unextended = tally[i].unextended
      BY <1>5 DEF AdTally
    <3>3. tally' = [tally EXCEPT ![i] = r]
      BY <2>1
    <3> HIDE DEF r
    <3> QED BY <3>1, <3>2, <3>3
  <2>2. CASE tally' = [tally EXCEPT ![i].unpaid = @ + 1]
    <3> DEFINE r == [tally[i] EXCEPT !.unpaid = @ + 1]
    <3>1. r \in AdTally
      BY <1>5 DEF AdTally
    <3>2. /\ r.published = tally[i].published /\ r.free = tally[i].free
          /\ r.paid + r.unpaid = tally[i].paid + tally[i].unpaid + 1
          /\ r.boosts = tally[i].boosts /\ r.unextended = tally[i].unextended
      BY <1>5 DEF AdTally
    <3>3. tally' = [tally EXCEPT ![i] = r]
      BY <2>2
    <3> HIDE DEF r
    <3> QED BY <3>1, <3>2, <3>3
  <2> QED BY <1>4, <2>1, <2>2
<1>7. PICK a \in AdRow : a = ad[i]
  BY <1>5
<1>8. /\ tally' = [tally EXCEPT ![i] = r] /\ tally'[i] = r
      /\ ad' = [ad EXCEPT ![i] = a] /\ ad'[i] = a
  BY <1>2, <1>6, <1>7 DEF PublishingTypeOK
<1>9. PICK t \in Task : t = NoTask
  BY DEF Task
<1>10. Moved(i, task[k], t, r)
  BY <1>2, <1>8, <1>9, CountsMove
<1>11. /\ Counts(task[k], i, Bills) = 1 /\ Counts(task[k], i, {"extend"}) = 0
       /\ Counts(t, i, {"extend"}) = 0 /\ Counts(t, i, Bills) = 0
  BY <1>1, <1>2, <1>9 DEF Counts, Bills, NoTask
<1>12. /\ r.published = tally[i].published /\ r.free = tally[i].free
       /\ r.paid + r.unpaid = tally[i].paid + tally[i].unpaid + 1
       /\ r.boosts = tally[i].boosts /\ r.unextended = tally[i].unextended
  BY <1>6
<1>13. Extended(i)' = Extended(i) /\ Extended(i) \in Int
  BY <1>5, <1>10, <1>11, <1>12 DEF Moved, AdTally
<1>14. Billed(i)' = Billed(i)
  BY <1>5, <1>10, <1>11, <1>12 DEF Moved, AdTally
<1>15. AdFits(i)'
  BY <1>2, <1>7, <1>8, <1>12, <1>13, <1>14 DEF AdFits, Published
<1>16. QuotaComesFirst'
  <2>1. ASSUME NEW j \in VehicleAd \cup JobAd, tally'[j].paid > 0
        PROVE  used[MetricOf(j)] = FreeAds
    <3>1. CASE j = i
      <4>1. i \notin Post
        BY <3>1, PublishingAssumption
      <4> QED BY <1>1, <1>2, <3>1, <4>1 DEF PublishingInv, QuotaComesFirst
    <3>2. CASE j # i
      <4>1. tally'[j] = tally[j]
        BY <1>2, <1>8, <3>2 DEF PublishingTypeOK, Ad
      <4> QED BY <2>1, <4>1 DEF PublishingInv, QuotaComesFirst, QuotaGoesFirst
    <3> QED BY <3>1, <3>2
  <2>2. \A c \in Clerk : task'[c].op = "credits" => task'[c] = task[c]
    BY <1>2 DEF PublishingTypeOK, NoTask
  <2> QED BY <1>2, <2>1, <2>2 DEF PublishingInv, QuotaComesFirst, QuotaGoesFirst
<1>17. t.op = "none" /\ (task[k].op \in Bills \cup {"extend"} => task[k].i = i)
  BY <1>1, <1>9 DEF NoTask
<1>18. t.op \notin {"update", "remove", "restore", "boost", "extend"} \cup Bills
  BY <1>17 DEF Bills
<1>19. r.published >= tally[i].published /\ Extended(i)' >= Extended(i)
       /\ (a.status = "NONE" => ad[i].status = "NONE")
  BY <1>5, <1>7, <1>12, <1>13 DEF AdTally
<1>20. used' \in [Metered -> 0 .. FreeAds] /\ task' = [task EXCEPT ![k] = t]
  BY <1>2, <1>9 DEF PublishingTypeOK
<1> QED BY <1>3, <1>8, <1>15, <1>16, <1>17, <1>18, <1>19, <1>20, OneAdStep

\* An update that bills is a publication; any other leaves the books alone, and
\* shows the ad only where this request, or the row, had it published before.
LEMMA UpdateStep ==
    ASSUME PublishingInv, NEW k \in Clerk, CommitUpdateAd(k)
    PROVE  PublishingInv'
<1>1. PICK i \in Ad : i = task[k].i
  BY TaskFields DEF PublishingInv, CommitUpdateAd, UpdateAd
<1>2. /\ PublishingTypeOK /\ task[k].op = "update" /\ AdFits(i) /\ TaskFits(task[k])
      /\ UNCHANGED <<used, funds>>
  BY DEF PublishingInv, CommitUpdateAd, UpdateAd
<1>3. /\ task[k].was \in BOOLEAN /\ task[k].to \in {"HIDDEN", "PUBLISHED", "SAME"}
      /\ tally[i] \in AdTally /\ ad[i] \in AdRow /\ ad[i].status \in {"HIDDEN", "PUBLISHED"}
  BY <1>1, <1>2, TaskFields DEF PublishingTypeOK, AdRow, TaskFits
<1>4. PICK status \in {"HIDDEN", "PUBLISHED"} :
        status = IF task[k].to = "SAME" THEN ad[i].status ELSE task[k].to
  BY <1>3
<1> DEFINE bills == ~task[k].was /\ status = "PUBLISHED"
<1>5. /\ ad' = [ad EXCEPT ![i].status = status]
      /\ tally' = [tally EXCEPT ![i].published = IF bills THEN @ + 1 ELSE @]
      /\ task' = [task EXCEPT ![k] = IF bills THEN [op |-> "quota", i |-> i] ELSE NoTask]
  BY <1>1, <1>4 DEF CommitUpdateAd, UpdateAd, Proceed
<1>6. PICK a \in AdRow : a = [ad[i] EXCEPT !.status = status]
  BY <1>3 DEF AdRow
<1>7. ad' = [ad EXCEPT ![i] = a] /\ ad'[i] = a
  BY <1>2, <1>5, <1>6 DEF PublishingTypeOK
<1>8. a.status = status /\ a.until = ad[i].until /\ a.deleted = ad[i].deleted
  BY <1>3, <1>6 DEF AdRow
<1>9. used' \in [Metered -> 0 .. FreeAds] /\ funds' \in 0 .. Funds
  BY <1>2 DEF PublishingTypeOK
<1>10. CASE bills
  <2>1. PICK t \in Task : t = [op |-> "quota", i |-> i]
    BY DEF Task
  <2>2. PICK r \in AdTally : r = [tally[i] EXCEPT !.published = @ + 1]
    <3>1. [tally[i] EXCEPT !.published = @ + 1] \in AdTally
      BY <1>3 DEF AdTally
    <3> QED BY <3>1
  <2>3. task' = [task EXCEPT ![k] = t] /\ tally' = [tally EXCEPT ![i] = r] /\ tally'[i] = r
    BY <1>2, <1>5, <1>10, <2>1, <2>2 DEF PublishingTypeOK
  <2>4. Moved(i, task[k], t, r)
    BY <1>2, <2>3, CountsMove
  <2>5. /\ Counts(task[k], i, Bills) = 0 /\ Counts(task[k], i, {"extend"}) = 0
        /\ Counts(t, i, {"extend"}) = 0 /\ Counts(t, i, Bills) = 1
    BY <1>2, <2>1 DEF Counts, Bills
  <2>6. /\ r.published = tally[i].published + 1 /\ r.free = tally[i].free
        /\ r.paid = tally[i].paid /\ r.unpaid = tally[i].unpaid
        /\ r.boosts = tally[i].boosts /\ r.unextended = tally[i].unextended
    BY <1>3, <2>2 DEF AdTally
  <2>7. Extended(i)' = Extended(i) /\ Extended(i) \in Int
    BY <1>3, <2>4, <2>5, <2>6 DEF Moved, AdTally
  <2>8. Billed(i)' = Billed(i) + 1
    BY <1>3, <2>4, <2>5, <2>6 DEF Moved, AdTally
  <2>9. Billed(i)' = tally'[i].published /\ tally'[i].published > 0
    BY <1>2, <1>3, <2>3, <2>6, <2>8 DEF AdFits, AdTally
  <2>10. AdFits(i)'
    BY <1>2, <1>7, <1>8, <2>3, <2>7, <2>9 DEF AdFits
  <2>11. QuotaComesFirst'
    <3>1. ASSUME NEW j \in Ad PROVE tally'[j].paid = tally[j].paid
      BY <1>2, <2>3, <2>6 DEF PublishingTypeOK
    <3>2. \A c \in Clerk : task'[c].op = "credits" => task'[c] = task[c]
      BY <1>2, <2>1, <2>3 DEF PublishingTypeOK
    <3> QED BY <1>2, <3>1, <3>2 DEF PublishingInv, QuotaComesFirst, QuotaGoesFirst, Ad
  <2>12. t.op = "quota" /\ t.i = i /\ task[k].op \notin Bills \cup {"extend"}
    BY <1>2, <2>1 DEF Bills
  <2>13. r.published >= tally[i].published /\ Extended(i)' >= Extended(i)
         /\ (a.status = "NONE" => ad[i].status = "NONE")
    BY <1>3, <1>4, <1>8, <2>6, <2>7 DEF AdTally
  <2>14. t.op \notin {"update", "remove", "restore", "boost", "extend"}
    BY <2>12
  <2> QED BY <1>7, <1>9, <2>3, <2>10, <2>11, <2>12, <2>13, <2>14, OneAdStep
<1>11. CASE ~bills
  <2>1. PICK t \in Task : t = NoTask
    BY DEF Task
  <2>2. PICK r \in AdTally : r = tally[i]
    BY <1>3
  <2>3. tally' = tally
    <3>1. tally' = [tally EXCEPT ![i].published = tally[i].published]
      BY <1>5, <1>11
    <3>2. [tally[i] EXCEPT !.published = tally[i].published] = tally[i]
      BY <1>3 DEF AdTally
    <3> QED BY <1>2, <3>1, <3>2 DEF PublishingTypeOK
  <2>4. task' = [task EXCEPT ![k] = t] /\ tally' = [tally EXCEPT ![i] = r]
    BY <1>2, <1>5, <1>11, <2>1, <2>2, <2>3 DEF PublishingTypeOK
  <2>5. status = "PUBLISHED" => tally[i].published > 0
    BY <1>1, <1>2, <1>3, <1>11 DEF TaskFits
  <2>6. /\ task[k].op \notin Bills \cup {"extend"} /\ t.op = "none"
        /\ t.op \notin Bills \cup {"extend"}
    BY <1>2, <2>1 DEF Bills, NoTask
  <2>7. AdFits(i)' /\ Extended(i)' = Extended(i)
    <3>1. /\ tally'[i] = tally[i] /\ ad'[i].until = ad[i].until
          /\ ad'[i].status = "NONE" <=> ad[i].status = "NONE"
          /\ ad'[i].status = "NONE" /\ ad'[i].deleted => ad[i].deleted
          /\ ad'[i].status = "PUBLISHED" => ad[i].status = "PUBLISHED" \/ tally[i].published > 0
      BY <1>3, <1>4, <1>7, <1>8, <2>3, <2>5
    <3> QED BY <1>2, <2>4, <2>6, <3>1, QuietAd
  <2>8. Extended(i) \in Int /\ tally[i].published \in Nat
    <3>1. Moved(i, task[k], t, r)
      BY <1>2, <2>2, <2>3, <2>4, CountsMove
    <3> QED BY <1>3, <3>1 DEF Moved, AdTally
  <2>9. QuotaComesFirst'
    <3>1. \A c \in Clerk : task'[c].op = "credits" => task'[c] = task[c]
      BY <1>2, <2>4, <2>6 DEF PublishingTypeOK
    <3> QED BY <1>2, <2>3, <3>1 DEF PublishingInv, QuotaComesFirst, QuotaGoesFirst
  <2>10. r.published >= tally[i].published /\ Extended(i)' >= Extended(i)
         /\ (a.status = "NONE" => ad[i].status = "NONE")
    BY <1>4, <1>8, <2>2, <2>7, <2>8
  <2>11. t.op \notin {"update", "remove", "restore", "boost", "extend"}
    BY <2>6
  <2> QED BY <1>7, <1>9, <2>4, <2>6, <2>7, <2>9, <2>10, <2>11, OneAdStep
<1> QED BY <1>10, <1>11

\* A boost that is paid is still to be written.
LEMMA PayBoostStep ==
    ASSUME PublishingInv, NEW k \in Clerk, PayBoost(k)
    PROVE  PublishingInv'
<1>1. PICK i \in Ad : i = task[k].i
  BY TaskFields DEF PublishingInv, PayBoost
<1>2. /\ PublishingTypeOK /\ task[k].op = "boost" /\ AdFits(i) /\ TaskFits(task[k])
      /\ i \in Post /\ task[k].until \in Nat /\ UNCHANGED <<ad, used>>
      /\ task' = [task EXCEPT ![k] = [task[k] EXCEPT !.op = "extend"]]
      /\ tally' = [tally EXCEPT ![i].boosts = @ + 1]
  BY <1>1, TaskFields DEF PublishingInv, PayBoost, Proceed
<1>3. funds' \in 0 .. Funds /\ used' \in [Metered -> 0 .. FreeAds]
  BY <1>2, PublishingAssumption DEF PayBoost, PublishingTypeOK
<1>4. PICK t \in Task : /\ task' = [task EXCEPT ![k] = t]
                        /\ t.op = "extend" /\ t.i = i /\ t.until = task[k].until
  <2>1. task[k] \in [op : {"boost", "extend"}, i : Post, until : Nat]
    BY <1>2 DEF PublishingTypeOK, Task, NoTask
  <2> DEFINE t == [task[k] EXCEPT !.op = "extend"]
  <2>2. t \in Task /\ t.op = "extend" /\ t.i = i /\ t.until = task[k].until
    BY <1>1, <2>1 DEF Task
  <2>3. task' = [task EXCEPT ![k] = t]
    BY <1>2
  <2> HIDE DEF t
  <2> QED BY <2>2, <2>3
<1>5. tally[i] \in AdTally /\ ad[i] \in AdRow
  BY <1>2 DEF PublishingTypeOK
<1>6. PICK r \in AdTally : r = [tally[i] EXCEPT !.boosts = @ + 1]
  <2>1. [tally[i] EXCEPT !.boosts = @ + 1] \in AdTally
    BY <1>5 DEF AdTally
  <2> QED BY <2>1
<1>7. PICK a \in AdRow : a = ad[i]
  BY <1>5
<1>8. /\ tally' = [tally EXCEPT ![i] = r] /\ tally'[i] = r
      /\ ad' = [ad EXCEPT ![i] = a] /\ ad'[i] = a
  BY <1>2, <1>6, <1>7 DEF PublishingTypeOK
<1>9. Moved(i, task[k], t, r)
  BY <1>2, <1>4, <1>8, CountsMove
<1>10. /\ Counts(task[k], i, Bills) = 0 /\ Counts(task[k], i, {"extend"}) = 0
       /\ Counts(t, i, {"extend"}) = 1 /\ Counts(t, i, Bills) = 0
  BY <1>2, <1>4 DEF Counts, Bills
<1>11. /\ r.published = tally[i].published /\ r.free = tally[i].free
       /\ r.paid = tally[i].paid /\ r.unpaid = tally[i].unpaid
       /\ r.boosts = tally[i].boosts + 1 /\ r.unextended = tally[i].unextended
  BY <1>5, <1>6 DEF AdTally
<1>12. Extended(i)' = Extended(i) /\ Extended(i) \in Int
  BY <1>5, <1>9, <1>10, <1>11 DEF Moved, AdTally
<1>13. Billed(i)' = Billed(i)
  BY <1>5, <1>9, <1>10, <1>11 DEF Moved, AdTally
<1>14. AdFits(i)'
  BY <1>2, <1>7, <1>8, <1>11, <1>12, <1>13 DEF AdFits, Published
<1>15. t.until <= Extended(i)'
  BY <1>1, <1>2, <1>4, <1>12 DEF TaskFits
<1>16. QuotaComesFirst'
  <2>1. ASSUME NEW j \in Ad PROVE tally'[j].paid = tally[j].paid
    BY <1>2, <1>8, <1>11 DEF PublishingTypeOK
  <2>2. \A c \in Clerk : task'[c].op = "credits" => task'[c] = task[c]
    BY <1>2, <1>4 DEF PublishingTypeOK
  <2> QED BY <1>2, <2>1, <2>2 DEF PublishingInv, QuotaComesFirst, QuotaGoesFirst, Ad
<1>17. r.published >= tally[i].published /\ Extended(i)' >= Extended(i)
       /\ (a.status = "NONE" => ad[i].status = "NONE")
  BY <1>5, <1>7, <1>11, <1>12 DEF AdTally
<1>18. task[k].op \notin Bills \cup {"extend"}
       /\ t.op \notin {"update", "remove", "restore", "boost"}
  BY <1>2, <1>4 DEF Bills
<1> QED BY <1>3, <1>4, <1>8, <1>14, <1>15, <1>16, <1>17, <1>18, OneAdStep

\* A boost that is written adds one period to a promotion that was paid for.
LEMMA CommitBoostStep ==
    ASSUME PublishingInv, NEW k \in Clerk, CommitBoost(k)
    PROVE  PublishingInv'
<1>1. PICK i \in Ad : i = task[k].i
  BY TaskFields DEF PublishingInv, CommitBoost
<1>2. /\ PublishingTypeOK /\ task[k].op = "extend" /\ AdFits(i) /\ TaskFits(task[k])
      /\ task[k].until \in Nat /\ UNCHANGED <<used, funds, tally>>
      /\ task' = [task EXCEPT ![k] = NoTask]
      /\ ad' = [ad EXCEPT ![i].until = task[k].until + 1]
  BY <1>1, TaskFields DEF PublishingInv, CommitBoost, Proceed
<1>3. funds' \in 0 .. Funds /\ used' \in [Metered -> 0 .. FreeAds]
  BY <1>2 DEF PublishingTypeOK
<1>4. PICK t \in Task : t = NoTask
  BY DEF Task
<1>5. tally[i] \in AdTally /\ ad[i] \in AdRow
  BY <1>2 DEF PublishingTypeOK
<1>6. PICK r \in AdTally : r = tally[i]
  BY <1>5
<1>7. PICK a \in AdRow : a = [ad[i] EXCEPT !.until = task[k].until + 1]
  <2>1. [ad[i] EXCEPT !.until = task[k].until + 1] \in AdRow
    BY <1>2, <1>5 DEF AdRow
  <2> QED BY <2>1
<1>8. /\ tally' = [tally EXCEPT ![i] = r] /\ tally'[i] = tally[i]
      /\ ad' = [ad EXCEPT ![i] = a] /\ ad'[i] = a /\ task' = [task EXCEPT ![k] = t]
  BY <1>2, <1>4, <1>6, <1>7 DEF PublishingTypeOK
<1>9. Moved(i, task[k], t, r)
  BY <1>2, <1>6, <1>8, CountsMove
<1>10. /\ Counts(task[k], i, Bills) = 0 /\ Counts(task[k], i, {"extend"}) = 1
       /\ Counts(t, i, {"extend"}) = 0 /\ Counts(t, i, Bills) = 0
  BY <1>1, <1>2, <1>4 DEF Counts, Bills, NoTask
<1>11. Extended(i)' = Extended(i) + 1 /\ Extended(i) \in Int
  BY <1>5, <1>6, <1>9, <1>10 DEF Moved, AdTally
<1>12. Billed(i)' = Billed(i)
  BY <1>5, <1>6, <1>9, <1>10 DEF Moved, AdTally
<1>13. task[k].until <= Extended(i)
  BY <1>1, <1>2 DEF TaskFits
<1>14. a.until = task[k].until + 1 /\ a.status = ad[i].status /\ a.deleted = ad[i].deleted
  BY <1>5, <1>7 DEF AdRow
<1>15. AdFits(i)'
  <2>1. Billed(i)' = tally'[i].published
    BY <1>2, <1>12 DEF AdFits
  <2>2. ad'[i].until <= Extended(i)' /\ ad'[i].until > 0
    BY <1>2, <1>8, <1>11, <1>13, <1>14
  <2> QED BY <1>2, <1>8, <1>14, <2>1, <2>2 DEF AdFits, Published
<1>16. QuotaComesFirst'
  <2>1. \A c \in Clerk : task'[c].op = "credits" => task'[c] = task[c]
    BY <1>2 DEF PublishingTypeOK, NoTask
  <2> QED BY <1>2, <2>1 DEF PublishingInv, QuotaComesFirst, QuotaGoesFirst
<1>17. r.published >= tally[i].published /\ Extended(i)' >= Extended(i)
       /\ (a.status = "NONE" => ad[i].status = "NONE")
  BY <1>5, <1>6, <1>11, <1>14 DEF AdTally
<1>18. t.op = "none" /\ (task[k].op \in Bills \cup {"extend"} => task[k].i = i)
  BY <1>1, <1>4 DEF NoTask
<1>19. t.op \notin {"update", "remove", "restore", "boost", "extend"} \cup Bills
  BY <1>18 DEF Bills
<1> QED BY <1>3, <1>8, <1>15, <1>16, <1>17, <1>18, <1>19, OneAdStep

\* A request that is gone takes its bill, or its paid boost, with it.
LEMMA DropStep ==
    ASSUME PublishingInv, NEW k \in Clerk, DropTask(k)
    PROVE  PublishingInv'
<1>1. /\ PublishingTypeOK /\ UNCHANGED <<ad, used, funds>>
      /\ task' = [task EXCEPT ![k] = NoTask]
  BY DEF PublishingInv, DropTask, Proceed
<1>2. PICK t \in Task : t = NoTask
  BY DEF Task
<1>3. /\ funds' \in 0 .. Funds /\ used' \in [Metered -> 0 .. FreeAds] /\ ad' \in [Ad -> AdRow]
      /\ task' = [task EXCEPT ![k] = t] /\ t.op = "none"
      /\ t.op \notin {"update", "remove", "restore", "boost", "extend"} \cup Bills
  BY <1>1, <1>2 DEF PublishingTypeOK, NoTask, Bills
<1>4. CASE task[k].op \notin Bills \cup {"extend"}
  <2>1. tally' = tally
    BY <1>4 DEF DropTask, Bills
  <2> QED BY <1>1, <1>3, <1>4, <2>1, QuietSteps
<1>5. CASE task[k].op \in Bills \cup {"extend"}
  <2>1. PICK i \in Ad : i = task[k].i
    BY <1>1, <1>5, TaskFields DEF Bills
  <2>2. tally[i] \in AdTally /\ ad[i] \in AdRow /\ AdFits(i)
    BY <1>1 DEF PublishingTypeOK, PublishingInv
  <2>3. PICK a \in AdRow : a = ad[i]
    BY <2>2
  <2>4. ad' = [ad EXCEPT ![i] = a] /\ ad'[i] = ad[i]
    BY <1>1, <2>3 DEF PublishingTypeOK
  <2>5. PICK r \in AdTally :
          /\ tally' = [tally EXCEPT ![i] = r]
          /\ r.published = tally[i].published /\ r.free = tally[i].free
          /\ r.paid = tally[i].paid /\ r.boosts = tally[i].boosts
          /\ r.unpaid = tally[i].unpaid + Counts(task[k], i, Bills)
          /\ r.unextended = tally[i].unextended + Counts(task[k], i, {"extend"})
    <3>1. CASE task[k].op = "extend"
      <4> DEFINE r == [tally[i] EXCEPT !.unextended = @ + 1]
      <4>1. r \in AdTally
        BY <2>2 DEF AdTally
      <4>2. /\ r.published = tally[i].published /\ r.free = tally[i].free
            /\ r.paid = tally[i].paid /\ r.boosts = tally[i].boosts
            /\ r.unpaid = tally[i].unpaid /\ r.unextended = tally[i].unextended + 1
        BY <2>2 DEF AdTally
      <4>3. Counts(task[k], i, Bills) = 0 /\ Counts(task[k], i, {"extend"}) = 1
        BY <2>1, <3>1 DEF Counts, Bills
      <4>4. tally' = [tally EXCEPT ![i] = r]
        BY <2>1, <3>1 DEF DropTask
      <4>5. tally[i].unpaid + 0 = tally[i].unpaid
        BY <2>2 DEF AdTally
      <4> HIDE DEF r
      <4> QED BY <4>1, <4>2, <4>3, <4>4, <4>5
    <3>2. CASE task[k].op # "extend"
      <4> DEFINE r == [tally[i] EXCEPT !.unpaid = @ + 1]
      <4>1. r \in AdTally
        BY <2>2 DEF AdTally
      <4>2. /\ r.published = tally[i].published /\ r.free = tally[i].free
            /\ r.paid = tally[i].paid /\ r.boosts = tally[i].boosts
            /\ r.unpaid = tally[i].unpaid + 1 /\ r.unextended = tally[i].unextended
        BY <2>2 DEF AdTally
      <4>3. Counts(task[k], i, Bills) = 1 /\ Counts(task[k], i, {"extend"}) = 0
        BY <1>5, <2>1, <3>2 DEF Counts
      <4>4. tally' = [tally EXCEPT ![i] = r]
        BY <1>5, <2>1, <3>2 DEF DropTask, Bills
      <4>5. tally[i].unextended + 0 = tally[i].unextended
        BY <2>2 DEF AdTally
      <4> HIDE DEF r
      <4> QED BY <4>1, <4>2, <4>3, <4>4, <4>5
    <3> QED BY <3>1, <3>2
  <2>6. tally'[i] = r
    BY <1>1, <2>5 DEF PublishingTypeOK
  <2>7. Moved(i, task[k], t, r)
    BY <1>1, <1>3, <2>6, CountsMove
  <2>8. /\ Counts(t, i, {"extend"}) = 0 /\ Counts(t, i, Bills) = 0
        /\ Counts(task[k], i, Bills) \in {0, 1} /\ Counts(task[k], i, {"extend"}) \in {0, 1}
    BY <1>3 DEF Counts, Bills
  <2>9. Extended(i)' = Extended(i) /\ Extended(i) \in Int
    BY <2>2, <2>5, <2>7, <2>8 DEF Moved, AdTally
  <2>10. Billed(i)' = Billed(i)
    BY <2>2, <2>5, <2>7, <2>8 DEF Moved, AdTally
  <2>11. AdFits(i)'
    BY <2>2, <2>4, <2>5, <2>6, <2>9, <2>10 DEF AdFits, Published
  <2>12. QuotaComesFirst'
    <3>1. ASSUME NEW j \in Ad PROVE tally'[j].paid = tally[j].paid
      BY <1>1, <2>5, <2>6 DEF PublishingTypeOK
    <3>2. \A c \in Clerk : task'[c].op = "credits" => task'[c] = task[c]
      BY <1>1 DEF PublishingTypeOK, NoTask
    <3> QED BY <1>1, <3>1, <3>2 DEF PublishingInv, QuotaComesFirst, QuotaGoesFirst, Ad
  <2>13. r.published >= tally[i].published /\ Extended(i)' >= Extended(i)
         /\ (a.status = "NONE" => ad[i].status = "NONE")
    BY <2>2, <2>3, <2>5, <2>9 DEF AdTally
  <2> QED BY <1>3, <2>1, <2>4, <2>5, <2>11, <2>12, <2>13, OneAdStep
<1> QED BY <1>4, <1>5

-----------------------------------------------------------------------------

LEMMA AdRequestSteps ==
    ASSUME PublishingInv, NEW k \in Clerk,
           VehicleAdRequest(k) \/ JobAdRequest(k) \/ PostAdRequest(k)
    PROVE  PublishingInv'
<1>0. VehicleAd \subseteq Ad /\ JobAd \subseteq Ad /\ Post \subseteq Ad
  BY DEF Ad
<1>1. CASE VehicleAdRequest(k)
  <2>1. ASSUME NEW i \in VehicleAd, NEW status \in {"HIDDEN", "PUBLISHED"},
               CreateVehicleAd(k, i, status)
        PROVE  PublishingInv'
    <3>1. i \in Ad /\ i \notin JobAd
      BY <1>0, PublishingAssumption
    <3> QED BY <2>1, <3>1, CreateStep DEF CreateVehicleAd
  <2> QED BY <1>0, <1>1, <2>1, UnbilledSteps DEF VehicleAdRequest
<1>2. CASE JobAdRequest(k)
  BY <1>0, <1>2, CreateStep, UnbilledSteps, PublishingJobStep DEF JobAdRequest, CreateJobAd
<1>3. CASE PostAdRequest(k)
  <2>1. ASSUME NEW i \in Post, NEW status \in {"HIDDEN", "PUBLISHED"},
               CreatePostAd(k, i, status)
        PROVE  PublishingInv'
    <3>1. i \in Ad /\ i \notin JobAd
      BY <1>0, PublishingAssumption
    <3> QED BY <2>1, <3>1, CreateStep DEF CreatePostAd
  <2> QED BY <1>0, <1>3, <2>1, UnbilledSteps DEF PostAdRequest
<1> QED BY <1>1, <1>2, <1>3

LEMMA PublishingStep == PublishingInv /\ [PublishingNext]_publishingVars => PublishingInv'
<1> SUFFICES ASSUME PublishingInv, [PublishingNext]_publishingVars PROVE PublishingInv'
  OBVIOUS
<1>1. CASE UNCHANGED publishingVars
  BY <1>1 DEF publishingVars, PublishingInv, PublishingTypeOK, AdFits, TaskFits, Billed, Extended,
              Pending, Published, QuotaComesFirst, QuotaGoesFirst
<1>2. CASE PublishingNext
  BY <1>2, AdRequestSteps, QuotaStep, SpendStep, UpdateStep, UnbilledSteps, PayBoostStep,
     CommitBoostStep, DropStep DEF PublishingNext
<1> QED BY <1>1, <1>2

\* Every reachable state of the publishing requests is well typed: neither the
\* counters nor the wallet leave their range.
THEOREM PublishingTypeCorrect == PublishingSpec => []PublishingTypeOK
<1>1. PublishingInv => PublishingTypeOK
  BY DEF PublishingInv
<1> QED BY PublishingInitInv, PublishingStep, <1>1, PTL DEF PublishingSpec

\* Of any number of requests that overlap, die, or write on rows that changed
\* since: an ad that shows has been billed, only requests that published it are
\* billed, credits come after the free quota, and promotions were paid for.
THEOREM PublicationsAreCharged == PublishingSpec => []PublishedIsCharged
<1>1. PublishingInv => PublishedIsCharged
  <2> SUFFICES ASSUME PublishingInv PROVE PublishedIsCharged
    OBVIOUS
  <2>1. ASSUME NEW i \in Ad
        PROVE  /\ Published(i) => Billed(i) > 0
               /\ Billed(i) <= tally[i].published
               /\ ad[i].until <= Extended(i) /\ (Extended(i) > 0 => ad[i].until > 0)
    <3>1. AdFits(i) /\ tally[i].published \in Nat
      BY DEF PublishingInv, PublishingTypeOK, AdTally
    <3> QED BY <3>1 DEF AdFits
  <2> QED BY <2>1 DEF PublishingInv, PublishedIsCharged, OnlyPublishingIsBilled, BoostsArePaid,
                      QuotaComesFirst
<1> QED BY PublishingInitInv, PublishingStep, <1>1, PTL DEF PublishingSpec
=============================================================================
