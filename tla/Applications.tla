---------------------------- MODULE Applications ----------------------------
(***************************************************************************)
(* Responses to job listings.  A job seeker's application is one           *)
(* transaction: insert it, lock the month's counter (the upsert), use free *)
(* quota or credits, and commit all or nothing.  A company's response to a *)
(* job seeker's listing is not metered.  Promotions are transactions too.  *)
(*                                                                         *)
(* One job seeker in one month.  Nothing about the listing is checked but  *)
(* who made it: a closed or deleted listing still takes applications.      *)
(***************************************************************************)
EXTENDS Integers, FiniteSets

CONSTANTS
    Opening,        \* job listings of companies, which the job seeker answers
    OwnListing,     \* the job seeker's own listings, which companies answer
    Applicant,      \* transactions that may be open at a time
    FreeApplications, ApplicationCost, PromotionCost, SeekerFunds

ASSUME ApplicationAssumption ==
    /\ {FreeApplications, ApplicationCost, PromotionCost, SeekerFunds} \subseteq Nat
    /\ Opening \cap OwnListing = {}
    /\ IsFiniteSet(Opening)

VARIABLES
    submitted,      \* listings with a committed submission
    promoted,       \* history: promotions bought
    sent,           \* the job seeker's counter of applications
    wallet,         \* balance of the job seeker
    tx              \* open transactions

applicationVars == <<submitted, promoted, sent, wallet, tx>>

NoTx == [at |-> "none"]

ApplicationsTypeOK ==
    /\ submitted \subseteq Opening \cup OwnListing
    /\ promoted \in Nat
    /\ sent \in 0 .. Cardinality(Opening)
    /\ wallet \in 0 .. SeekerFunds
    /\ tx \in [Applicant -> {NoTx} \cup [at : {"inserted", "locked"}, on : Opening]]

ApplicationsInit ==
    /\ submitted = {}
    /\ promoted = 0
    /\ sent = 0
    /\ wallet = SeekerFunds
    /\ tx = [a \in Applicant |-> NoTx]

\* (jobApplicationId, submittedByUserId) is unique: ALREADY_APPLIED where a row
\* is committed, and a wait where another transaction has inserted one.
InsertSubmission(a, o) ==
    /\ tx[a] = NoTx
    /\ o \notin submitted
    /\ \A b \in Applicant : tx[b] # NoTx => tx[b].on # o
    /\ tx' = [tx EXCEPT ![a] = [at |-> "inserted", on |-> o]]
    /\ UNCHANGED <<submitted, promoted, sent, wallet>>

\* The upsert holds the counter's row until the transaction ends.
LockCounter(a) ==
    /\ tx[a].at = "inserted"
    /\ \A b \in Applicant : tx[b].at # "locked"
    /\ tx' = [tx EXCEPT ![a].at = "locked"]
    /\ UNCHANGED <<submitted, promoted, sent, wallet>>

Rollback(a) ==
    /\ tx' = [tx EXCEPT ![a] = NoTx]
    /\ UNCHANGED <<submitted, promoted, sent, wallet>>

CommitWhere(a, free) ==
    /\ tx[a].at = "locked"
    /\ free \/ wallet >= ApplicationCost
    /\ wallet' = IF free THEN wallet ELSE wallet - ApplicationCost
    /\ sent' = sent + 1
    /\ submitted' = submitted \cup {tx[a].on}
    /\ tx' = [tx EXCEPT ![a] = NoTx]
    /\ UNCHANGED promoted

\* MUTANT of MeterAndCommit: one application too many is free.
MeterAndCommitOneMore(a) == CommitWhere(a, sent <= FreeApplications)

MeterAndCommit(a) == CommitWhere(a, sent < FreeApplications)

\* INSUFFICIENT_CREDITS, or a failure anywhere.
AbortSubmission(a) == tx[a] # NoTx /\ Rollback(a)

\* A company answers; no quota.
SubmitAsCompany(o) ==
    /\ o \in OwnListing \ submitted
    /\ submitted' = submitted \cup {o}
    /\ UNCHANGED <<promoted, sent, wallet, tx>>

BuyPromotion ==
    /\ wallet >= PromotionCost
    /\ wallet' = wallet - PromotionCost
    /\ promoted' = promoted + 1
    /\ UNCHANGED <<submitted, sent, tx>>

\* The listing may be deleted.
PromoteListing(o) == o \in OwnListing /\ BuyPromotion

PromoteSubmission(o) == o \in submitted \cap Opening /\ BuyPromotion

Apply(a) ==
    \/ \E o \in Opening : InsertSubmission(a, o)
    \/ LockCounter(a) \/ MeterAndCommit(a) \/ AbortSubmission(a)
    \/ \E o \in OwnListing : SubmitAsCompany(o)

Promote == \E o \in Opening \cup OwnListing : PromoteListing(o) \/ PromoteSubmission(o)

ApplicationsNext == Promote \/ \E a \in Applicant : Apply(a)

ApplicationsSpec == ApplicationsInit /\ [][ApplicationsNext]_applicationVars

-----------------------------------------------------------------------------

Excess(n) == IF n > FreeApplications THEN n - FreeApplications ELSE 0

\* The counter is the number of applications that are there, and the wallet
\* has paid for those beyond the free ones and for the promotions, for
\* nothing else: an application that failed has cost nothing.
SubmissionsAreMetered ==
    /\ sent = Cardinality(submitted \cap Opening)
    /\ wallet = SeekerFunds - ApplicationCost * Excess(sent) - PromotionCost * promoted
=============================================================================
