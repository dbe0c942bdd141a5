------------------------ MODULE CompanyVerification ------------------------
(***************************************************************************)
(* The verification of one company.  An admin asks for it: the company is  *)
(* marked PENDING and a job added, under an id made from the company's;    *)
(* with BullMQ off the request runs the check itself.  The check reads the *)
(* company's identity (name, place, registration, VAT), asks a simulated   *)
(* registry, and writes the verdict by id.  An update that gives any part  *)
(* of the identity takes the verdict back.                                 *)
(*                                                                         *)
(* An identity is one that the registry accepts, or one that it does not.  *)
(***************************************************************************)
EXTENDS Integers

CONSTANTS
    Usable, Unusable,   \* identities
    Caller,             \* requests that may be under way at a time
    Job,                \* the queue's job, which runs checks as a caller may
    MaxTries            \* attempts of the queue, 3 in the code

ASSUME VerificationAssumption ==
    Usable \cap Unusable = {} /\ Job \notin Caller /\ MaxTries \in Nat \ {0}

VARIABLES
    firm,       \* the company's row
    check,      \* where each request, and the job, is
    tries,      \* attempts of the job that failed
    bullmq,     \* BULLMQ_ENABLED
    stale,      \* history: the verdict is about an identity the company no
                \* longer had when it was written
    byHand      \* history: isVerified was last written by an admin

verificationVars == <<firm, check, tries, bullmq, stale, byHand>>

Identity == Usable \cup Unusable
NoCheck == [at |-> "none"]

VerificationTypeOK ==
    /\ firm \in [identity : Identity, isVerified : BOOLEAN, deleted : BOOLEAN,
                 status : {"UNVERIFIED", "PENDING", "VERIFIED", "NEEDS_REVIEW"}]
    /\ check \in [Caller \cup {Job} ->
                    [at : {"none", "asked", "marked", "waiting", "due", "written", "failed"}]
                    \cup [at : {"read"}, identity : Identity]]
    /\ check[Job].at \notin {"asked", "marked"}
    /\ \A c \in Caller : check[c].at \notin {"waiting", "written", "failed"}
    /\ tries \in 0 .. MaxTries
    /\ {bullmq, stale, byHand} \subseteq BOOLEAN

VerificationInit ==
    /\ firm \in [identity : Identity, isVerified : {FALSE}, deleted : {FALSE},
                 status : {"UNVERIFIED"}]
    /\ check = [x \in Caller \cup {Job} |-> NoCheck]
    /\ tries = 0
    /\ bullmq \in BOOLEAN
    /\ stale = FALSE
    /\ byHand = FALSE

Go(x, at) == check' = [check EXCEPT ![x] = [at |-> at]]

-----------------------------------------------------------------------------
(* The company's row, which its admins write without looking at it.        *)

\* MUTANT of UpdateIdentity: the verdict stays.
UpdateIdentityOnly(i) ==
    /\ firm' = [firm EXCEPT !.identity = i]
    /\ UNCHANGED <<check, tries, bullmq, stale, byHand>>

\* updateMine with a part of the identity, the same as before or not.
UpdateIdentity(i) ==
    /\ firm' = [firm EXCEPT !.identity = i, !.isVerified = FALSE, !.status = "UNVERIFIED"]
    /\ stale' = FALSE
    /\ byHand' = FALSE
    /\ UNCHANGED <<check, tries, bullmq>>

\* updateMine without: isVerified may be given.
UpdateFlag(isVerified) ==
    /\ firm' = [firm EXCEPT !.isVerified = isVerified]
    /\ byHand' = TRUE
    /\ UNCHANGED <<check, tries, bullmq, stale>>

RemoveMine ==
    /\ ~firm.deleted
    /\ firm' = [firm EXCEPT !.deleted = TRUE]
    /\ UNCHANGED <<check, tries, bullmq, stale, byHand>>

RestoreMine ==
    /\ firm.deleted
    /\ firm' = [firm EXCEPT !.deleted = FALSE]
    /\ UNCHANGED <<check, tries, bullmq, stale, byHand>>

-----------------------------------------------------------------------------
(* The request.                                                            *)

FirmUnchanged == UNCHANGED <<firm, stale, byHand>>

BeginVerification(c) ==
    /\ check[c].at = "none" /\ ~firm.deleted
    /\ Go(c, "asked")
    /\ FirmUnchanged /\ UNCHANGED <<tries, bullmq>>

MarkPending(c) ==
    /\ check[c].at = "asked"
    /\ firm' = [firm EXCEPT !.isVerified = FALSE, !.status = "PENDING"]
    /\ stale' = FALSE
    /\ byHand' = FALSE
    /\ Go(c, "marked")
    /\ UNCHANGED <<tries, bullmq>>

\* add is ignored while a job with the id exists, a failed one included.
EnqueueCheck(c) ==
    /\ check[c].at = "marked"
    /\ check' = IF ~bullmq THEN [check EXCEPT ![c] = [at |-> "due"]]
                ELSE IF check[Job] = NoCheck
                     THEN [check EXCEPT ![c] = NoCheck, ![Job] = [at |-> "waiting"]]
                     ELSE [check EXCEPT ![c] = NoCheck]
    /\ FirmUnchanged /\ UNCHANGED <<tries, bullmq>>

\* The request fails, or its process dies, wherever it is.
DropRequest(c) ==
    /\ check[c] # NoCheck
    /\ check' = [check EXCEPT ![c] = NoCheck]
    /\ FirmUnchanged /\ UNCHANGED <<tries, bullmq>>

-----------------------------------------------------------------------------
(* The check, by the job or by a request.  A deleted company fails it.     *)

ReadTarget(x) ==
    /\ check[x].at = "due" /\ ~firm.deleted
    /\ check' = [check EXCEPT ![x] = [at |-> "read", identity |-> firm.identity]]
    /\ FirmUnchanged /\ UNCHANGED <<tries, bullmq>>

Verdict(identity) == IF identity \in Usable THEN "VERIFIED" ELSE "NEEDS_REVIEW"

WriteVerdict(x) ==
    /\ check[x].at = "read"
    /\ LET status == Verdict(check[x].identity)
       IN  firm' = [firm EXCEPT !.isVerified = status = "VERIFIED", !.status = status]
    /\ stale' = (check[x].identity # firm.identity)
    /\ byHand' = FALSE
    /\ Go(x, IF x = Job THEN "written" ELSE "none")
    /\ UNCHANGED <<tries, bullmq>>

-----------------------------------------------------------------------------
(* The queue.                                                              *)

TakeCheck ==
    /\ check[Job].at = "waiting"
    /\ Go(Job, "due")
    /\ FirmUnchanged /\ UNCHANGED <<tries, bullmq>>

\* removeOnComplete.
FinishCheck ==
    /\ check[Job].at = "written"
    /\ Go(Job, "none")
    /\ tries' = 0
    /\ FirmUnchanged /\ UNCHANGED bullmq

Checking == check[Job].at \in {"due", "read", "written"}

\* An error: another attempt, or the failed job stays.
FailCheck ==
    /\ Checking
    /\ tries' = tries + 1
    /\ Go(Job, IF tries + 1 < MaxTries THEN "waiting" ELSE "failed")
    /\ FirmUnchanged /\ UNCHANGED bullmq

\* The worker dies: its job is handed out again, or has failed if that has
\* happened before.
StallCheck ==
    /\ Checking
    /\ \E at \in {"waiting", "failed"} : Go(Job, at)
    /\ FirmUnchanged /\ UNCHANGED <<tries, bullmq>>

-----------------------------------------------------------------------------

UpdateMine == (\E i \in Identity : UpdateIdentity(i)) \/ (\E v \in BOOLEAN : UpdateFlag(v))

RequestVerification(c) ==
    BeginVerification(c) \/ MarkPending(c) \/ EnqueueCheck(c) \/ DropRequest(c)

ProcessVerificationJob(x) == ReadTarget(x) \/ WriteVerdict(x)

QueueVerification == TakeCheck \/ FinishCheck \/ FailCheck \/ StallCheck

VerificationNext ==
    \/ UpdateMine \/ RemoveMine \/ RestoreMine
    \/ \E c \in Caller : RequestVerification(c)
    \/ \E x \in Caller \cup {Job} : ProcessVerificationJob(x)
    \/ QueueVerification

VerificationSpec == VerificationInit /\ [][VerificationNext]_verificationVars

-----------------------------------------------------------------------------

\* A company is shown as checked only for the identity that was checked: no
\* matter which requests and attempts overlap, a verdict disagrees with the
\* identity only when the identity changed while that check was running.  And
\* isVerified says what the verdict says until an admin writes it.
VerdictMatchesIdentity ==
    /\ firm.status \in {"VERIFIED", "NEEDS_REVIEW"} /\ ~stale
         => firm.status = Verdict(firm.identity)
    /\ ~byHand => (firm.isVerified <=> firm.status = "VERIFIED")
=============================================================================
