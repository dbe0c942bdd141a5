----------------------------- MODULE Publishing -----------------------------
(***************************************************************************)
(* Publishing and its price: the vehicle listings, job listings and        *)
(* transport posts of one owner, in one calendar month.  (A company and a  *)
(* job seeker are charged by the same code written twice; a job seeker has *)
(* no posts.)  A row is written first.  Only then is the month's free      *)
(* quota used or, when that is gone, the wallet debited: with an empty     *)
(* wallet the request fails and what it published stays published.         *)
(*                                                                         *)
(* PUBLISHED stands for OPEN (and a post's ASSIGNED), HIDDEN for every     *)
(* other status.  Contents, and the checks of the owner's profile, are     *)
(* left out.                                                               *)
(***************************************************************************)
EXTENDS Integers, FiniteSets

CONSTANTS
    VehicleAd, JobAd, Post,
    Clerk,          \* requests that may be under way at a time
    FreeAds,        \* free publications a month, for vehicles and for jobs
    ActivePosts,    \* maxActivePosts of the plan
    Price, Funds,
    MaxEntries      \* bound on the publications of one ad

ASSUME PublishingAssumption ==
    /\ {FreeAds, ActivePosts, Price, Funds, MaxEntries} \subseteq Nat
    /\ VehicleAd \cap Post = {} /\ JobAd \cap Post = {} /\ VehicleAd \cap JobAd = {}
    /\ IsFiniteSet(Clerk)

VARIABLES
    ad,             \* rows
    used,           \* the counters of free publications
    funds,          \* balance of the owner's wallet
    task,           \* what each request is doing
    tally           \* history of each ad: the requests that found it hidden and
                    \* left it published, what became of their bills (unpaid:
                    \* refused, or lost with the process), the boosts paid, and
                    \* those of them lost with the process

publishingVars == <<ad, used, funds, task, tally>>

Ad == VehicleAd \cup JobAd \cup Post
Metered == {"VEHICLE", "JOB"}
MetricOf(i) == IF i \in VehicleAd THEN "VEHICLE" ELSE "JOB"

NoTask == [op |-> "none"]
Task ==
    {NoTask}
    \cup [op : {"update"}, i : Ad, was : BOOLEAN, to : {"HIDDEN", "PUBLISHED", "SAME"}]
    \cup [op : {"quota", "credits", "remove", "restore"}, i : Ad]
    \cup [op : {"boost", "extend"}, i : Post, until : Nat]

AdRow == [status : {"NONE", "HIDDEN", "PUBLISHED"}, deleted : BOOLEAN, until : Nat]
AdTally == [published : Nat, free : Nat, paid : Nat, unpaid : Nat, boosts : Nat, unextended : Nat]

PublishingTypeOK ==
    /\ ad \in [Ad -> AdRow]
    /\ used \in [Metered -> 0 .. FreeAds]
    /\ funds \in 0 .. Funds
    /\ task \in [Clerk -> Task]
    /\ tally \in [Ad -> AdTally]

PublishingInit ==
    /\ ad = [i \in Ad |-> [status |-> "NONE", deleted |-> FALSE, until |-> 0]]
    /\ used = [m \in Metered |-> 0]
    /\ funds = Funds
    /\ task = [k \in Clerk |-> NoTask]
    /\ tally = [i \in Ad |-> [published |-> 0, free |-> 0, paid |-> 0, unpaid |-> 0,
                             boosts |-> 0, unextended |-> 0]]

Ask(k, t) == task[k] = NoTask /\ task' = [task EXCEPT ![k] = t]
Proceed(k, t) == task' = [task EXCEPT ![k] = t]
ReadOnly == UNCHANGED <<ad, used, funds, tally>>

Live(i) == ad[i].status # "NONE" /\ ~ad[i].deleted
Published(i) == ad[i].status = "PUBLISHED"

-----------------------------------------------------------------------------
(* Creation.                                                               *)

CreateAd(k, i, status) ==
    /\ ad[i].status = "NONE"
    /\ ad' = [ad EXCEPT ![i].status = status]
    /\ tally' = [tally EXCEPT ![i].published = IF status = "PUBLISHED" THEN 1 ELSE 0]
    /\ Ask(k, IF status = "PUBLISHED" THEN [op |-> "quota", i |-> i] ELSE NoTask)
    /\ UNCHANGED <<used, funds>>

CreateVehicleAd(k, i, status) == i \in VehicleAd /\ CreateAd(k, i, status)

\* A job listing is OPEN from the start.
CreateJobAd(k, i) == i \in JobAd /\ CreateAd(k, i, "PUBLISHED")

CreatePostAd(k, i, status) == i \in Post /\ CreateAd(k, i, status)

-----------------------------------------------------------------------------
(* Billing.                                                                *)

MonthlyQuota(k, limit) ==
    /\ task[k].op = "quota" /\ task[k].i \notin Post
    /\ LET i == task[k].i
           m == MetricOf(i)
       IN  IF used[m] < limit
           THEN /\ used' = [used EXCEPT ![m] = @ + 1]
                /\ tally' = [tally EXCEPT ![i].free = @ + 1]
                /\ Proceed(k, NoTask)
           ELSE /\ Proceed(k, [op |-> "credits", i |-> i])
                /\ UNCHANGED <<used, tally>>
    /\ UNCHANGED <<ad, funds>>

\* MUTANT of UseMonthlyQuota: one more than the limit.
UseMonthlyQuotaOneMore(k) == MonthlyQuota(k, FreeAds + 1)

\* The counter is incremented where it is below the limit.
UseMonthlyQuota(k) == MonthlyQuota(k, FreeAds)

\* The posts are counted after the post was written.
UsePostQuota(k) ==
    /\ task[k].op = "quota" /\ task[k].i \in Post
    /\ LET i == task[k].i
       IN  IF Cardinality({p \in Post : Live(p) /\ Published(p)}) <= ActivePosts
           THEN /\ tally' = [tally EXCEPT ![i].free = @ + 1]
                /\ Proceed(k, NoTask)
           ELSE Proceed(k, [op |-> "credits", i |-> i]) /\ UNCHANGED tally
    /\ UNCHANGED <<ad, used, funds>>

\* spendCompanyCredits, spendJobSeekerCredits: INSUFFICIENT_CREDITS ends the
\* request.
SpendCredits(k) ==
    /\ task[k].op = "credits"
    /\ LET i == task[k].i
       IN  IF funds >= Price
           THEN funds' = funds - Price /\ tally' = [tally EXCEPT ![i].paid = @ + 1]
           ELSE UNCHANGED funds /\ tally' = [tally EXCEPT ![i].unpaid = @ + 1]
    /\ Proceed(k, NoTask)
    /\ UNCHANGED <<ad, used>>

-----------------------------------------------------------------------------
(* Updates, decided on the row as it was read and written by id.           *)

\* PATCH of a vehicle listing: the status may be left out.
BeginUpdateVehicleAd(k, i, to) ==
    /\ i \in VehicleAd /\ Live(i)
    /\ to = "PUBLISHED" => tally[i].published < MaxEntries
    /\ Ask(k, [op |-> "update", i |-> i, was |-> Published(i), to |-> to])
    /\ ReadOnly

\* changeStatus of a post, which asks for another status.
BeginUpdatePost(k, i, to) ==
    /\ i \in Post /\ Live(i)
    /\ to \in {"HIDDEN", "PUBLISHED"} \ {ad[i].status}
    /\ to = "PUBLISHED" => tally[i].published < MaxEntries
    /\ Ask(k, [op |-> "update", i |-> i, was |-> Published(i), to |-> to])
    /\ ReadOnly

UpdateAd(k, bills) ==
    /\ task[k].op = "update"
    /\ LET i == task[k].i
           status == IF task[k].to = "SAME" THEN ad[i].status ELSE task[k].to
       IN  /\ ad' = [ad EXCEPT ![i].status = status]
           /\ tally' = [tally EXCEPT ![i].published =
                            IF ~task[k].was /\ status = "PUBLISHED" THEN @ + 1 ELSE @]
           /\ Proceed(k, IF bills /\ status = "PUBLISHED" THEN [op |-> "quota", i |-> i]
                         ELSE NoTask)
    /\ UNCHANGED <<used, funds>>

\* MUTANT of CommitUpdateAd: a listing that was published is billed again.
CommitUpdateAdAlways(k) == UpdateAd(k, TRUE)

CommitUpdateAd(k) == UpdateAd(k, ~task[k].was)

\* PATCH of a job listing, deleted or not: never billed, one statement.
UpdateJobAd(i, to) ==
    /\ i \in JobAd /\ ad[i].status # "NONE"
    /\ ad' = [ad EXCEPT ![i].status = to]
    /\ UNCHANGED <<used, funds, task, tally>>

-----------------------------------------------------------------------------
(* Deletion.  Restoring publishes nothing that was not published before.   *)

BeginRemoveAd(k, i) == Live(i) /\ Ask(k, [op |-> "remove", i |-> i]) /\ ReadOnly

CommitRemoveAd(k) ==
    /\ task[k].op = "remove"
    /\ ad' = [ad EXCEPT ![task[k].i].deleted = TRUE,
                        ![task[k].i].status = IF task[k].i \in JobAd THEN "HIDDEN" ELSE @]
    /\ Proceed(k, NoTask)
    /\ UNCHANGED <<used, funds, tally>>

BeginRestoreAd(k, i) == ad[i].deleted /\ Ask(k, [op |-> "restore", i |-> i]) /\ ReadOnly

CommitRestoreAd(k) ==
    /\ task[k].op = "restore"
    /\ ad' = [ad EXCEPT ![task[k].i].deleted = FALSE,
                        ![task[k].i].status = IF task[k].i \in JobAd THEN "HIDDEN" ELSE @]
    /\ Proceed(k, NoTask)
    /\ UNCHANGED <<used, funds, tally>>

-----------------------------------------------------------------------------
(* Boosts: read promotedUntil, pay, write what was read plus one period.   *)

BeginBoost(k, i) ==
    /\ i \in Post /\ Live(i) /\ Published(i)
    /\ Ask(k, [op |-> "boost", i |-> i, until |-> ad[i].until])
    /\ ReadOnly

PayBoost(k) ==
    /\ task[k].op = "boost" /\ funds >= Price
    /\ funds' = funds - Price
    /\ tally' = [tally EXCEPT ![task[k].i].boosts = @ + 1]
    /\ Proceed(k, [task[k] EXCEPT !.op = "extend"])
    /\ UNCHANGED <<ad, used>>

CommitBoost(k) ==
    /\ task[k].op = "extend"
    /\ ad' = [ad EXCEPT ![task[k].i].until = task[k].until + 1]
    /\ Proceed(k, NoTask)
    /\ UNCHANGED <<used, funds, tally>>

\* The request ends where it is: refused, or its process is gone.
DropTask(k) ==
    /\ task[k] # NoTask
    /\ tally' = CASE task[k].op \in {"quota", "credits"} ->
                       [tally EXCEPT ![task[k].i].unpaid = @ + 1]
                  [] task[k].op = "extend" -> [tally EXCEPT ![task[k].i].unextended = @ + 1]
                  [] OTHER -> tally
    /\ Proceed(k, NoTask)
    /\ UNCHANGED <<ad, used, funds>>

-----------------------------------------------------------------------------

VehicleAdRequest(k) ==
    \E i \in VehicleAd :
      \/ \E status \in {"HIDDEN", "PUBLISHED"} : CreateVehicleAd(k, i, status)
      \/ \E to \in {"HIDDEN", "PUBLISHED", "SAME"} : BeginUpdateVehicleAd(k, i, to)
      \/ BeginRemoveAd(k, i) \/ BeginRestoreAd(k, i)

JobAdRequest(k) ==
    \E i \in JobAd :
      \/ CreateJobAd(k, i) \/ BeginRemoveAd(k, i) \/ BeginRestoreAd(k, i)
      \/ \E to \in {"HIDDEN", "PUBLISHED"} : UpdateJobAd(i, to)

PostAdRequest(k) ==
    \E i \in Post :
      \/ \E status \in {"HIDDEN", "PUBLISHED"} :
           CreatePostAd(k, i, status) \/ BeginUpdatePost(k, i, status)
      \/ BeginRemoveAd(k, i) \/ BeginRestoreAd(k, i) \/ BeginBoost(k, i)

PublishingNext ==
    \E k \in Clerk :
      \/ VehicleAdRequest(k) \/ JobAdRequest(k) \/ PostAdRequest(k)
      \/ UseMonthlyQuota(k) \/ UsePostQuota(k) \/ SpendCredits(k)
      \/ CommitUpdateAd(k) \/ CommitRemoveAd(k) \/ CommitRestoreAd(k)
      \/ PayBoost(k) \/ CommitBoost(k) \/ DropTask(k)

PublishingSpec == PublishingInit /\ [][PublishingNext]_publishingVars

-----------------------------------------------------------------------------

Pending(i, ops) == Cardinality({k \in Clerk : task[k].op \in ops /\ task[k].i = i})

\* The bills an ad has had: settled from the free quota or with credits, left
\* unpaid, or on the way.
Billed(i) ==
    tally[i].free + tally[i].paid + tally[i].unpaid + Pending(i, {"quota", "credits"})

\* The paid boosts that were written, by a request that may have read stale.
Extended(i) == tally[i].boosts - tally[i].unextended - Pending(i, {"extend"})

\* However requests overlap, die, or write on rows that changed since they read
\* them: an ad that shows was billed for the first time, and only requests that
\* found it hidden and left it published are billed; editing, deleting and
\* restoring it, or patching a job, never is.  (An ad that is hidden and
\* published again is billed again: see OnlyFirstPublishIsCharged.)
OnlyPublishingIsBilled ==
    \A i \in Ad : (Published(i) => Billed(i) > 0) /\ Billed(i) <= tally[i].published

\* Nobody pays credits for a vehicle or a job while the month's quota lasts.
QuotaGoesFirst ==
    \A i \in VehicleAd \cup JobAd : tally[i].paid > 0 => used[MetricOf(i)] = FreeAds

\* No ad is promoted for longer than was paid for, and none is left without a
\* promotion by a boost that was written; two overlapping ones may count as one.
BoostsArePaid ==
    \A i \in Ad : ad[i].until <= Extended(i) /\ (Extended(i) > 0 => ad[i].until > 0)

\* What the owner is billed for, with which means, and what a boost buys.
PublishedIsCharged == OnlyPublishingIsBilled /\ QuotaGoesFirst /\ BoostsArePaid

=============================================================================
