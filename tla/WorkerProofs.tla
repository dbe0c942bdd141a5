---------------------------- MODULE WorkerProofs ----------------------------
(***************************************************************************)
(* Proofs about the two queues whose workers write what they looked up     *)
(* earlier: CompanyVerification, for any number of callers, attempts and   *)
(* identities, and Notifications, for any number of people, companies,     *)
(* threads, replies and attempts.                                          *)
(*                                                                         *)
(* The steps of the verification fall into three groups: those that write  *)
(* the company's row, those of a request and those of the queue; only the  *)
(* first can disturb the verdict, and only the others where a check is.    *)
(* Those of the notifications write rows (what is there keeps its sides),  *)
(* jobs, or the inbox.                                                     *)
(***************************************************************************)
EXTENDS CompanyVerification, Notifications, FiniteSetTheorems, TLAPS

-----------------------------------------------------------------------------
(* The verification of a company.                                         *)

\* A job that has not failed for good has an attempt left.
AttemptLeft == check[Job].at # "failed" => tries < MaxTries

CheckType ==
    /\ check \in [Caller \cup {Job} ->
                    [at : {"none", "asked", "marked", "waiting", "due", "written", "failed"}]
                    \cup [at : {"read"}, identity : Identity]]
    /\ check[Job].at \notin {"asked", "marked"}
    /\ \A c \in Caller : check[c].at \notin {"waiting", "written", "failed"}
    /\ tries \in 0 .. MaxTries
    /\ bullmq \in BOOLEAN

FirmType ==
    /\ firm \in [identity : Identity, isVerified : BOOLEAN, deleted : BOOLEAN,
                 status : {"UNVERIFIED", "PENDING", "VERIFIED", "NEEDS_REVIEW"}]
    /\ {stale, byHand} \subseteq BOOLEAN

VerificationInv == FirmType /\ CheckType /\ AttemptLeft /\ VerdictMatchesIdentity

\* Where a check has got to is well typed and, but for the job, tells a caller
\* from the queue.
LEMMA VerificationFits == VerificationInv => VerificationTypeOK
BY DEF VerificationInv, VerificationTypeOK, FirmType, CheckType

LEMMA VerificationInitInv == VerificationInit => VerificationInv
<1> SUFFICES ASSUME VerificationInit PROVE VerificationInv
  OBVIOUS
<1>1. FirmType
  BY DEF VerificationInit, FirmType, Identity
<1>2. CheckType /\ AttemptLeft
  BY VerificationAssumption DEF VerificationInit, CheckType, AttemptLeft, NoCheck
<1>3. VerdictMatchesIdentity
  BY DEF VerificationInit, VerdictMatchesIdentity
<1> QED BY <1>1, <1>2, <1>3 DEF VerificationInv

\* Writing the company's row does not move a check, and leaves a verdict only
\* with the identity it is about.
LEMMA RowSteps ==
    ASSUME VerificationInv, UpdateMine \/ RemoveMine \/ RestoreMine
    PROVE  VerificationInv'
<1>1. CheckType' /\ AttemptLeft'
  BY DEF VerificationInv, CheckType, AttemptLeft, UpdateMine, UpdateIdentity, UpdateFlag,
         RemoveMine, RestoreMine
<1>2. ASSUME NEW i \in Identity, UpdateIdentity(i) PROVE FirmType' /\ VerdictMatchesIdentity'
  BY <1>2 DEF VerificationInv, FirmType, VerdictMatchesIdentity, UpdateIdentity
<1>3. ASSUME NEW v \in BOOLEAN, UpdateFlag(v) PROVE FirmType' /\ VerdictMatchesIdentity'
  BY <1>3 DEF VerificationInv, FirmType, VerdictMatchesIdentity, UpdateFlag
<1>4. CASE RemoveMine \/ RestoreMine
  <2>1. FirmType' /\ VerdictMatchesIdentity'
    BY <1>4 DEF VerificationInv, FirmType, VerdictMatchesIdentity, RemoveMine, RestoreMine
  <2> QED BY <1>1, <2>1 DEF VerificationInv
<1> QED BY <1>1, <1>2, <1>3, <1>4 DEF VerificationInv, UpdateMine

\* A step that leaves the company's row alone keeps the verdict.
LEMMA FirmKept ==
    ASSUME VerificationInv, FirmUnchanged
    PROVE  FirmType' /\ VerdictMatchesIdentity'
BY DEF VerificationInv, FirmUnchanged, FirmType, VerdictMatchesIdentity

\* The steps of a request.  Only MarkPending writes the row.
LEMMA CheckRequestSteps ==
    ASSUME VerificationInv, NEW c \in Caller, RequestVerification(c)
    PROVE  VerificationInv'
<1> USE VerificationAssumption DEF VerificationInv, CheckType, AttemptLeft
<1>1. CASE BeginVerification(c)
  <2>1. CheckType' /\ AttemptLeft'
    BY <1>1 DEF BeginVerification, Go
  <2> QED BY <1>1, <2>1, FirmKept DEF BeginVerification
<1>2. CASE MarkPending(c)
  <2>1. CheckType' /\ AttemptLeft'
    BY <1>2 DEF MarkPending, Go
  <2>2. FirmType' /\ VerdictMatchesIdentity'
    BY <1>2 DEF MarkPending, FirmType, VerdictMatchesIdentity
  <2> QED BY <2>1, <2>2
<1>3. CASE EnqueueCheck(c)
  <2>1. CheckType'
    BY <1>3 DEF EnqueueCheck, NoCheck
  <2>2. AttemptLeft'
    BY <1>3 DEF EnqueueCheck, NoCheck
  <2> QED BY <1>3, <2>1, <2>2, FirmKept DEF EnqueueCheck
<1>4. CASE DropRequest(c)
  <2>1. CheckType' /\ AttemptLeft'
    BY <1>4 DEF DropRequest, NoCheck
  <2> QED BY <1>4, <2>1, FirmKept DEF DropRequest
<1> QED BY <1>1, <1>2, <1>3, <1>4 DEF RequestVerification

\* A verdict that is written over another identity than the one it is about
\* is remembered as stale.
LEMMA CheckSteps ==
    ASSUME VerificationInv, NEW x \in Caller \cup {Job}, ProcessVerificationJob(x)
    PROVE  VerificationInv'
<1> USE VerificationAssumption DEF VerificationInv, CheckType, AttemptLeft
<1>1. CASE ReadTarget(x)
  <2>1. CheckType' /\ AttemptLeft'
    BY <1>1 DEF ReadTarget, FirmType
  <2> QED BY <1>1, <2>1, FirmKept DEF ReadTarget
<1>2. CASE WriteVerdict(x)
  <2>1. CheckType' /\ AttemptLeft'
    BY <1>2 DEF WriteVerdict, Go
  <2>2. FirmType' /\ VerdictMatchesIdentity'
    BY <1>2 DEF WriteVerdict, Verdict, FirmType, VerdictMatchesIdentity
  <2> QED BY <2>1, <2>2
<1> QED BY <1>1, <1>2 DEF ProcessVerificationJob

LEMMA QueueSteps ==
    ASSUME VerificationInv, QueueVerification
    PROVE  VerificationInv'
<1> USE VerificationAssumption DEF VerificationInv, CheckType, AttemptLeft
<1>1. CheckType' /\ AttemptLeft'
  <2>1. CASE TakeCheck
    BY <2>1 DEF TakeCheck, Go
  <2>2. CASE FinishCheck
    BY <2>2 DEF FinishCheck, Go
  <2>3. CASE FailCheck
    BY <2>3 DEF FailCheck, Go, Checking
  <2>4. CASE StallCheck
    BY <2>4 DEF StallCheck, Go, Checking
  <2> QED BY <2>1, <2>2, <2>3, <2>4 DEF QueueVerification
<1>2. FirmUnchanged
  BY DEF QueueVerification, TakeCheck, FinishCheck, FailCheck, StallCheck
<1> QED BY <1>1, <1>2, FirmKept

LEMMA VerificationStep == VerificationInv /\ [VerificationNext]_verificationVars => VerificationInv'
<1> SUFFICES ASSUME VerificationInv, [VerificationNext]_verificationVars PROVE VerificationInv'
  OBVIOUS
<1>1. CASE VerificationNext
  BY <1>1, RowSteps, CheckRequestSteps, CheckSteps, QueueSteps DEF VerificationNext
<1>2. CASE UNCHANGED verificationVars
  BY <1>2 DEF verificationVars, VerificationInv, FirmType, CheckType, AttemptLeft,
              VerdictMatchesIdentity
<1> QED BY <1>1, <1>2

\* What the requests, attempts and edits of a company can make of its row and
\* of its job, in any order, is well typed: no attempt beyond the last.
THEOREM VerificationTypeCorrect == VerificationSpec => []VerificationTypeOK
BY VerificationInitInv, VerificationStep, VerificationFits, PTL DEF VerificationSpec

\* However requests, attempts of the job and edits of the company overlap, a
\* verdict that was not stale when it was written is the one for the identity
\* the company has, and isVerified agrees with it until an admin sets it.
THEOREM VerdictsMatch == VerificationSpec => []VerdictMatchesIdentity
<1>1. VerificationInv => VerdictMatchesIdentity
  BY DEF VerificationInv
<1> QED BY VerificationInitInv, VerificationStep, <1>1, PTL DEF VerificationSpec

-----------------------------------------------------------------------------
(* Notifications.                                                          *)

\* Whom a reply may be delivered to.
Proper(r, to) ==
    LET t == thread[reply[r].on]
        On(side) == side.person = reply[r].author
                    \/ (reply[r].firm # NoFirm /\ side.firm = reply[r].firm)
    IN  /\ On(t.owner) /\ ~On(t.sender) => to = Address(t.sender)
        /\ On(t.sender) /\ ~On(t.owner) => to = Address(t.owner)

\* Bids are between companies.
BidsFit ==
    \A t \in Thread :
      thread[t].state # "NONE" /\ thread[t].kind = "BID" =>
        /\ thread[t].owner.firm # NoFirm /\ thread[t].owner.person = NoPerson
        /\ thread[t].sender.firm # NoFirm /\ thread[t].sender.person = NoPerson

\* A reply stands on a thread that is there, and on a bid for one of its sides.
RepliesFit ==
    \A r \in Reply :
      reply[r].state # "NONE" =>
        LET t == thread[reply[r].on]
        IN  /\ t.state # "NONE"
            /\ t.kind \in {"BID", "INQUIRY", "SUBMISSION"}
            /\ t.kind = "BID" => reply[r].firm \in {t.owner.firm, t.sender.firm}

\* An event is about a reply that is there; a recipient that was worked out, or
\* told, is a proper one.
EventsFit ==
    /\ \A e \in pending : e.type = "reply" => reply[e.on].state # "NONE"
    /\ \A e \in Event :
         e.type = "reply" /\ job[e].at # "none" =>
           /\ reply[e.on].state # "NONE"
           /\ job[e].at = "read" => Proper(e.on, job[e].to)
    /\ \A n \in inbox :
         n.of.type = "reply" => reply[n.of.on].state # "NONE" /\ Proper(n.of.on, n.to)

\* What has not failed has an attempt left, and the inbox is a table.
AttemptsAreLeft ==
    /\ \A e \in Event : job[e].at # "failed" => job[e].tries < MaxAttempts
    /\ inbox \subseteq [of : Event, to : Side, nth : Nat, read : BOOLEAN]
    /\ IsFiniteSet(inbox)

NotificationsInv ==
    NotificationsTypeOK /\ BidsFit /\ RepliesFit /\ EventsFit /\ AttemptsAreLeft

-----------------------------------------------------------------------------

LEMMA NotificationsInitInv == NotificationsInit => NotificationsInv
<1> SUFFICES ASSUME NotificationsInit PROVE NotificationsInv
  OBVIOUS
<1>1. NotificationsTypeOK
  <2>1. Nobody \in Side /\ NoJob.to \in Side
    BY DEF Side, Nobody, NoJob
  <2>2. (CHOOSE t \in Thread : TRUE) \in Thread /\ (CHOOSE p \in Person : TRUE) \in Person
    BY NotificationAssumption
  <2>3. /\ thread \in [Thread -> [kind : Kind, state : {"NONE", "DRAFT", "OPEN", "ANSWERED", "GONE"},
                                  owner : Side, sender : Side]]
        /\ reply \in [Reply -> [state : {"NONE", "OPEN", "GONE"}, on : Thread,
                                author : Person, firm : Firm \cup {NoFirm}]]
    BY <2>1, <2>2 DEF NotificationsInit, Kind
  <2>4. job \in [Event -> [at : {"none", "waiting", "active", "read", "written", "failed"},
                           tries : 0 .. MaxAttempts, stalled : BOOLEAN, to : Side]]
    BY <2>1, NotificationAssumption DEF NotificationsInit, NoJob
  <2> QED BY <2>3, <2>4 DEF NotificationsInit, NotificationsTypeOK
<1>2. BidsFit /\ RepliesFit /\ EventsFit
  BY DEF NotificationsInit, BidsFit, RepliesFit, EventsFit, NoJob
<1>3. AttemptsAreLeft
  BY NotificationAssumption, FS_EmptySet DEF NotificationsInit, AttemptsAreLeft, NoJob
<1> QED BY <1>1, <1>2, <1>3 DEF NotificationsInv

\* The other side of whoever wrote a reply is who its handler finds.
LEMMA RecipientIsProper ==
    ASSUME NotificationsInv, NEW e \in Event, e.type = "reply", reply[e.on].state # "NONE"
    PROVE  Proper(e.on, Recipient(e))
<1> DEFINE r == e.on
           t == thread[reply[r].on]
<1>1. r \in Reply
  BY DEF Event
<1>2. /\ reply[r].author \in Person /\ reply[r].on \in Thread /\ t.state # "NONE"
      /\ t.kind \in {"BID", "INQUIRY", "SUBMISSION"}
      /\ t.kind = "BID" => reply[r].firm \in {t.owner.firm, t.sender.firm}
  BY <1>1 DEF NotificationsInv, NotificationsTypeOK, RepliesFit
<1>3. CASE t.kind = "BID"
  <2>1. /\ t.owner.firm # NoFirm /\ t.owner.person = NoPerson
        /\ t.sender.firm # NoFirm /\ t.sender.person = NoPerson
        /\ t.owner \in Side /\ t.sender \in Side
    BY <1>2, <1>3 DEF NotificationsInv, BidsFit, NotificationsTypeOK
  <2>2. Address(t.owner) = t.owner /\ Address(t.sender) = t.sender
    BY <2>1 DEF Address, Company, Side
  <2>3. Recipient(e) = IF reply[r].firm = t.sender.firm THEN t.owner ELSE t.sender
    BY <1>3 DEF Recipient, BidReplyRecipient
  <2> QED BY <1>2, <1>3, <2>1, <2>2, <2>3, NotificationAssumption DEF Proper
<1>4. CASE t.kind \in {"INQUIRY", "SUBMISSION"}
  <2>1. Recipient(e) = Address(IF AuthorIsOwner(r) THEN t.sender ELSE t.owner)
    BY <1>4 DEF Recipient, InquiryReplyRecipient, SubmissionReplyRecipient
  <2>2. AuthorIsOwner(r) <=> \/ t.owner.person = reply[r].author
                             \/ reply[r].firm # NoFirm /\ t.owner.firm = reply[r].firm
    BY DEF AuthorIsOwner
  <2> QED BY <2>1, <2>2 DEF Proper
<1> QED BY <1>2, <1>3, <1>4

LEMMA AddressFits ==
    ASSUME NEW s \in Side
    PROVE  Address(s) \in Side
BY DEF Address, Company, Side

\* An event of a subject that is there has a recipient.
LEMMA RecipientFits ==
    ASSUME NotificationsInv, NEW e \in Event, e.type = "reply" => reply[e.on].state # "NONE"
    PROVE  Recipient(e) \in Side
<1>1. CASE e.type = "reply"
  <2> DEFINE t == thread[reply[e.on].on]
  <2>1. e.on \in Reply
    BY <1>1 DEF Event
  <2>2. /\ t.owner \in Side /\ t.sender \in Side
        /\ t.kind \in {"BID", "INQUIRY", "SUBMISSION"}
    BY <1>1, <2>1 DEF NotificationsInv, NotificationsTypeOK, RepliesFit
  <2>3. Recipient(e) \in {t.owner, t.sender, Address(t.owner), Address(t.sender)}
    BY <1>1, <2>2 DEF Recipient, InquiryReplyRecipient, SubmissionReplyRecipient, BidReplyRecipient
  <2> QED BY <2>2, <2>3, AddressFits
<1>2. CASE e.type # "reply"
  <2> DEFINE t == thread[e.on]
  <2>1. e.on \in Thread
    BY <1>2 DEF Event
  <2>2. t.owner \in Side /\ t.sender \in Side /\ t.kind \in Kind
    BY <2>1 DEF NotificationsInv, NotificationsTypeOK
  <2>3. Recipient(e) \in {t.owner, t.sender, Address(t.owner), Address(t.sender)}
    BY <1>2, <2>2 DEF Recipient, BidRecipient, ContractRecipient, InquiryRecipient,
                      SubmissionRecipient, ReviewRecipient, Kind
  <2> QED BY <2>2, <2>3, AddressFits
<1> QED BY <1>1, <1>2

-----------------------------------------------------------------------------
(* Threads and replies: what is there keeps its sides.                     *)

Settled ==
    /\ \A t \in Thread : thread[t].state # "NONE" =>
         /\ thread'[t].state # "NONE" /\ thread'[t].kind = thread[t].kind
         /\ thread'[t].owner = thread[t].owner /\ thread'[t].sender = thread[t].sender
    /\ \A r \in Reply : reply[r].state # "NONE" =>
         /\ reply'[r].state # "NONE" /\ reply'[r].on = reply[r].on
         /\ reply'[r].author = reply[r].author /\ reply'[r].firm = reply[r].firm

LEMMA ProperStays ==
    ASSUME NotificationsInv, Settled, NEW r \in Reply, reply[r].state # "NONE", NEW to, Proper(r, to)
    PROVE  Proper(r, to)'
<1>1. reply[r].on \in Thread /\ thread[reply[r].on].state # "NONE"
  BY DEF NotificationsInv, NotificationsTypeOK, RepliesFit
<1> QED BY <1>1 DEF Settled, Proper

\* A step of the rows announces nothing but what they hold.
LEMMA EventsStay ==
    ASSUME NotificationsInv, Settled, NotificationsTypeOK', UNCHANGED <<job, inbox>>,
           \A e \in pending' \ pending : e.type = "reply" => reply'[e.on].state # "NONE"
    PROVE  EventsFit' /\ AttemptsAreLeft'
<1>1. \A e \in Event : e.type = "reply" => e.on \in Reply
  BY DEF Event
<1>2. \A e \in pending' : e.type = "reply" => reply'[e.on].state # "NONE"
  BY <1>1 DEF NotificationsInv, NotificationsTypeOK, EventsFit, Settled
<1>3. ASSUME NEW e \in Event, e.type = "reply", job'[e].at # "none"
      PROVE  /\ reply'[e.on].state # "NONE"
             /\ job'[e].at = "read" => Proper(e.on, job[e].to)'
  <2>1. reply[e.on].state # "NONE" /\ (job[e].at = "read" => Proper(e.on, job[e].to))
    BY <1>3 DEF NotificationsInv, EventsFit
  <2>2. ASSUME NEW to, Proper(e.on, to) PROVE Proper(e.on, to)'
    BY <1>1, <1>3, <2>1, <2>2, ProperStays
  <2>3. Proper(e.on, job[e].to) => Proper(e.on, job[e].to)'
    BY <2>2 DEF Proper
  <2> QED BY <1>1, <1>3, <2>1, <2>3 DEF Settled
<1>4. ASSUME NEW n \in inbox, n.of.type = "reply"
      PROVE  reply'[n.of.on].state # "NONE" /\ Proper(n.of.on, n.to)'
  <2>1. n.of.on \in Reply /\ reply[n.of.on].state # "NONE" /\ Proper(n.of.on, n.to)
    BY <1>1, <1>4 DEF NotificationsInv, NotificationsTypeOK, EventsFit
  <2> QED BY <2>1, ProperStays DEF Settled
<1>5. EventsFit'
  BY <1>2, <1>3, <1>4 DEF EventsFit
<1>6. AttemptsAreLeft'
  BY DEF NotificationsInv, AttemptsAreLeft
<1> QED BY <1>5, <1>6

SideType == [kind : Kind, state : {"NONE", "DRAFT", "OPEN", "ANSWERED", "GONE"},
             owner : Side, sender : Side]

\* A thread is opened on an id that is free.
LEMMA OpenStep ==
    ASSUME NotificationsInv, NEW t \in Thread, NEW kind \in Kind, NEW state \in {"DRAFT", "OPEN"},
           NEW owner \in Side, NEW sender \in Side, Open(t, kind, state, owner, sender),
           kind = "BID" => /\ owner.firm # NoFirm /\ owner.person = NoPerson
                           /\ sender.firm # NoFirm /\ sender.person = NoPerson,
           pending' \subseteq Event,
           \A e \in pending' \ pending : e.type # "reply"
    PROVE  NotificationsInv'
<1>1. /\ NotificationsTypeOK /\ thread[t].state = "NONE"
      /\ thread' = [thread EXCEPT ![t] = [kind |-> kind, state |-> state, owner |-> owner,
                                        sender |-> sender]]
      /\ UNCHANGED <<member, reply, job, inbox>>
  BY DEF NotificationsInv, Open, QueueUnchanged
<1>2. NotificationsTypeOK'
  <2>1. thread' \in [Thread -> SideType]
    BY <1>1 DEF NotificationsTypeOK, SideType
  <2> QED BY <1>1, <2>1 DEF NotificationsTypeOK, SideType
<1>3. Settled
  BY <1>1 DEF Settled, NotificationsTypeOK
<1>4. BidsFit'
  BY <1>1 DEF NotificationsInv, BidsFit, NotificationsTypeOK
<1>5. RepliesFit'
  BY <1>1, <1>3 DEF NotificationsInv, RepliesFit, Settled, NotificationsTypeOK
<1>6. EventsFit' /\ AttemptsAreLeft'
  BY <1>1, <1>2, <1>3, EventsStay
<1> QED BY <1>2, <1>4, <1>5, <1>6 DEF NotificationsInv

\* A thread that is there moves on.
LEMMA TurnStep ==
    ASSUME NotificationsInv, NEW t \in Thread, NEW kind, NEW from \in SUBSET {"DRAFT", "OPEN", "ANSWERED"},
           NEW to \in {"OPEN", "ANSWERED", "GONE"}, Turn(t, kind, from, to),
           pending' \subseteq Event,
           \A e \in pending' \ pending : e.type # "reply"
    PROVE  NotificationsInv'
<1>1. /\ NotificationsTypeOK /\ thread[t].state \in from
      /\ thread' = [thread EXCEPT ![t].state = to]
      /\ UNCHANGED <<member, reply, job, inbox>>
  BY DEF NotificationsInv, Turn, QueueUnchanged
<1>2. NotificationsTypeOK'
  <2>1. thread' \in [Thread -> SideType]
    BY <1>1 DEF NotificationsTypeOK, SideType
  <2> QED BY <1>1, <2>1 DEF NotificationsTypeOK, SideType
<1>3. /\ Settled
      /\ \A x \in Thread : thread'[x].state # "NONE" => thread[x].state # "NONE"
  BY <1>1 DEF Settled, NotificationsTypeOK
<1>4. BidsFit'
  BY <1>3 DEF NotificationsInv, BidsFit, Settled
<1>5. RepliesFit'
  BY <1>1, <1>3 DEF NotificationsInv, RepliesFit, Settled, NotificationsTypeOK
<1>6. EventsFit' /\ AttemptsAreLeft'
  BY <1>1, <1>2, <1>3, EventsStay
<1> QED BY <1>2, <1>4, <1>5, <1>6 DEF NotificationsInv

\* What is announced is an event.
LEMMA Announced ==
    ASSUME NotificationsTypeOK, NEW t \in Thread, NEW by,
           NEW type \in {"opened", "accepted", "rejected", "responded", "published", "moved"},
           IF type = "moved" THEN by \in Firm ELSE by = NoFirm,
           Announce(type, t, by)
    PROVE  pending' \subseteq Event /\ \A e \in pending' \ pending : e.type # "reply"
<1>1. [type |-> type, on |-> t, by |-> by] \in Event
  BY DEF Event
<1> QED BY <1>1 DEF Announce, NotificationsTypeOK

LEMMA Companies ==
    /\ \A f \in Firm : Company(f) \in Side /\ Company(f).firm # NoFirm
                       /\ Company(f).person = NoPerson
BY NotificationAssumption DEF Company, Side

LEMMA BusinessSteps ==
    ASSUME NotificationsInv, NEW t \in Thread, NEW p \in Person,
           \/ \E f \in Firm : PlaceBid(t, p, f) \/ SignContract(t, p, f)
           \/ \E f \in Firm, state \in {"DRAFT", "OPEN"} : CreateReview(t, p, f, state)
           \/ \E answer \in {"accepted", "rejected"} : AnswerBid(t, answer)
           \/ MoveContract(t, p) \/ PublishReview(t, p) \/ Discard(t)
    PROVE  NotificationsInv'
<1>1. NotificationsTypeOK
  BY DEF NotificationsInv
<1>2. ASSUME NEW f \in Firm, PlaceBid(t, p, f) PROVE NotificationsInv'
  <2>1. member[p] \in Firm
    BY <1>2 DEF PlaceBid
  <2>2. pending' \subseteq Event /\ \A e \in pending' \ pending : e.type # "reply"
    BY <1>1, <1>2, Announced DEF PlaceBid
  <2>3. Open(t, "BID", "OPEN", Company(f), Company(member[p]))
    BY <1>2 DEF PlaceBid
  <2> QED BY <2>1, <2>2, <2>3, Companies, OpenStep DEF Kind
<1>3. ASSUME NEW f \in Firm, SignContract(t, p, f) PROVE NotificationsInv'
  <2>1. member[p] \in Firm
    BY <1>3 DEF SignContract
  <2>2. pending' \subseteq Event /\ \A e \in pending' \ pending : e.type # "reply"
    BY <1>1, <1>3, Announced DEF SignContract
  <2>3. Open(t, "CONTRACT", "OPEN", Company(member[p]), Company(f))
    BY <1>3 DEF SignContract
  <2> QED BY <2>1, <2>2, <2>3, Companies, OpenStep DEF Kind
<1>4. ASSUME NEW f \in Firm, NEW state \in {"DRAFT", "OPEN"}, CreateReview(t, p, f, state)
      PROVE  NotificationsInv'
  <2>1. member[p] \in Firm /\ pending' = pending
    BY <1>4 DEF CreateReview
  <2>2. Open(t, "REVIEW", state, Company(f), Company(member[p]))
    BY <1>4 DEF CreateReview
  <2>3. pending' \subseteq Event /\ pending' \ pending = {}
    BY <1>1, <2>1 DEF NotificationsTypeOK
  <2> QED BY <2>1, <2>2, <2>3, Companies, OpenStep DEF Kind
<1>5. ASSUME NEW answer \in {"accepted", "rejected"}, AnswerBid(t, answer) PROVE NotificationsInv'
  BY <1>1, <1>5, Announced, TurnStep DEF AnswerBid
<1>6. CASE MoveContract(t, p)
  BY <1>1, <1>6, Announced, TurnStep DEF MoveContract
<1>7. CASE PublishReview(t, p)
  BY <1>1, <1>7, Announced, TurnStep DEF PublishReview
<1>8. CASE Discard(t)
  BY <1>1, <1>8, TurnStep DEF Discard, NotificationsTypeOK
<1> QED BY <1>2, <1>3, <1>4, <1>5, <1>6, <1>7, <1>8

LEMMA PeopleSteps ==
    ASSUME NotificationsInv, NEW t \in Thread, NEW p \in Person,
           \/ \E owner \in Side : SendInquiry(t, p, owner) \/ Submit(t, p, owner)
           \/ RespondInquiry(t, p)
    PROVE  NotificationsInv'
<1>1. NotificationsTypeOK /\ [firm |-> member[p], person |-> p] \in Side
  BY DEF NotificationsInv, NotificationsTypeOK, Side
<1>2. ASSUME NEW owner \in Side, SendInquiry(t, p, owner) PROVE NotificationsInv'
  <2>1. Open(t, "INQUIRY", "OPEN", owner, [firm |-> member[p], person |-> p])
    BY <1>2 DEF SendInquiry
  <2>2. pending' \subseteq Event /\ \A e \in pending' \ pending : e.type # "reply"
    BY <1>1, <1>2, Announced DEF SendInquiry
  <2> QED BY <1>1, <2>1, <2>2, OpenStep DEF Kind
<1>3. ASSUME NEW owner \in Side, Submit(t, p, owner) PROVE NotificationsInv'
  <2>1. Open(t, "SUBMISSION", "OPEN", owner, [firm |-> member[p], person |-> p])
    BY <1>3 DEF Submit
  <2>2. pending' \subseteq Event /\ \A e \in pending' \ pending : e.type # "reply"
    BY <1>1, <1>3, Announced DEF Submit
  <2> QED BY <1>1, <2>1, <2>2, OpenStep DEF Kind
<1>4. CASE RespondInquiry(t, p)
  BY <1>1, <1>4, Announced, TurnStep DEF RespondInquiry
<1> QED BY <1>2, <1>3, <1>4

LEMMA ReplySteps ==
    ASSUME NotificationsInv, NEW t \in Thread, NEW p \in Person, NEW r \in Reply,
           WriteReply(r, p, t) \/ DeleteReply(r, p)
    PROVE  NotificationsInv'
<1>1. /\ NotificationsTypeOK /\ member[p] \in Firm \cup {NoFirm}
      /\ UNCHANGED <<member, thread, job, inbox>>
  BY DEF NotificationsInv, NotificationsTypeOK, WriteReply, DeleteReply, QueueUnchanged
<1>2. BidsFit'
  BY <1>1 DEF NotificationsInv, BidsFit
<1>3. CASE WriteReply(r, p, t)
  <2>1. /\ reply[r].state = "NONE" /\ MayReply(p, t)
        /\ reply' = [reply EXCEPT ![r] = [state |-> "OPEN", on |-> t, author |-> p,
                                         firm |-> member[p]]]
        /\ pending' = pending \cup {[type |-> "reply", on |-> r, by |-> NoFirm]}
    BY <1>3 DEF WriteReply, Announce
  <2>2. [type |-> "reply", on |-> r, by |-> NoFirm] \in Event
    BY DEF Event
  <2>3. NotificationsTypeOK'
    BY <1>1, <2>1, <2>2 DEF NotificationsTypeOK
  <2>4. Settled
    BY <1>1, <2>1 DEF Settled, NotificationsTypeOK
  <2>5. reply'[r].state # "NONE" /\ reply'[r].on = t /\ reply'[r].firm = member[p]
        /\ \A x \in Reply \ {r} : reply'[x] = reply[x]
    BY <1>1, <2>1 DEF NotificationsTypeOK
  <2>6. /\ thread[t].state # "NONE" /\ thread[t].kind \in {"BID", "INQUIRY", "SUBMISSION"}
        /\ thread[t].kind = "BID" => member[p] \in {thread[t].owner.firm, thread[t].sender.firm}
    BY <2>1 DEF MayReply, MayReplyToBid, MayReplyToInquiry, MayReplyToSubmission
  <2>7. RepliesFit'
    BY <1>1, <2>5, <2>6 DEF NotificationsInv, RepliesFit
  <2>8. EventsFit' /\ AttemptsAreLeft'
    BY <1>1, <2>1, <2>3, <2>4, <2>5, EventsStay
  <2> QED BY <1>2, <2>3, <2>7, <2>8 DEF NotificationsInv
<1>4. CASE DeleteReply(r, p)
  <2>1. /\ reply[r].state = "OPEN" /\ pending' = pending
        /\ reply' = [reply EXCEPT ![r].state = "GONE"]
    BY <1>4 DEF DeleteReply
  <2>2. NotificationsTypeOK'
    BY <1>1, <2>1 DEF NotificationsTypeOK
  <2>3. Settled /\ \A x \in Reply : reply'[x].state # "NONE" => reply[x].state # "NONE"
    BY <1>1, <2>1 DEF Settled, NotificationsTypeOK
  <2>4. RepliesFit'
    BY <1>1, <2>3 DEF NotificationsInv, RepliesFit, Settled
  <2>5. EventsFit' /\ AttemptsAreLeft'
    BY <1>1, <2>1, <2>2, <2>3, EventsStay
  <2> QED BY <1>2, <2>2, <2>4, <2>5 DEF NotificationsInv
<1> QED BY <1>3, <1>4

LEMMA MemberStep ==
    ASSUME NotificationsInv, NEW p \in Person, NEW f \in Firm \cup {NoFirm}, ChangeMember(p, f)
    PROVE  NotificationsInv'
<1>1. NotificationsTypeOK'
  BY DEF NotificationsInv, NotificationsTypeOK, ChangeMember, QueueUnchanged
<1>2. BidsFit' /\ RepliesFit' /\ AttemptsAreLeft'
  BY DEF NotificationsInv, BidsFit, RepliesFit, AttemptsAreLeft, ChangeMember, QueueUnchanged
<1>3. EventsFit'
  BY DEF NotificationsInv, EventsFit, Proper, ChangeMember, QueueUnchanged
<1> QED BY <1>1, <1>2, <1>3 DEF NotificationsInv

-----------------------------------------------------------------------------
(* The queue: the rows stay as they are.                                   *)

\* A job that turns to j.
LEMMA EventJobStep ==
    ASSUME NotificationsInv, RowsUnchanged, inbox' = inbox, NEW e \in Event, pending' \subseteq pending,
           NEW j \in [at : {"none", "waiting", "active", "read", "written", "failed"},
                      tries : 0 .. MaxAttempts, stalled : BOOLEAN, to : Side],
           job' = [job EXCEPT ![e] = j],
           j.at # "failed" => j.tries < MaxAttempts,
           e.type = "reply" /\ j.at # "none" => reply[e.on].state # "NONE",
           e.type = "reply" /\ j.at = "read" => Proper(e.on, j.to)
    PROVE  NotificationsInv'
<1>1. NotificationsTypeOK' /\ \A x \in Event : job'[x] = IF x = e THEN j ELSE job[x]
  BY DEF NotificationsInv, NotificationsTypeOK, RowsUnchanged
<1>2. BidsFit' /\ RepliesFit' /\ AttemptsAreLeft'
  BY <1>1 DEF NotificationsInv, BidsFit, RepliesFit, AttemptsAreLeft, RowsUnchanged
<1>3. \A r, to : Proper(r, to)' <=> Proper(r, to)
  BY DEF Proper, RowsUnchanged
<1>4. EventsFit'
  <2>1. \A x \in pending' : x.type = "reply" => reply'[x.on].state # "NONE"
    BY DEF NotificationsInv, EventsFit, RowsUnchanged
  <2>2. ASSUME NEW x \in Event, x.type = "reply", job'[x].at # "none"
        PROVE  reply'[x.on].state # "NONE" /\ (job'[x].at = "read" => Proper(x.on, job[x].to)')
    <3>1. CASE x = e
      <4>1. job'[x].at = "read" => Proper(x.on, j.to)
        BY <1>1, <2>2, <3>1
      <4>2. job'[x].to = j.to
        BY <1>1, <3>1
      <4> QED BY <1>1, <2>2, <3>1, <4>1, <4>2 DEF Proper, RowsUnchanged
    <3>2. CASE x # e
      <4>1. job'[x] = job[x]
        BY <1>1, <3>2
      <4>2. reply[x.on].state # "NONE" /\ (job[x].at = "read" => Proper(x.on, job[x].to))
        BY <2>2, <4>1 DEF NotificationsInv, EventsFit
      <4> QED BY <4>1, <4>2 DEF Proper, RowsUnchanged
    <3> QED BY <3>1, <3>2
  <2>3. \A n \in inbox : n.of.type = "reply" =>
          reply'[n.of.on].state # "NONE" /\ Proper(n.of.on, n.to)'
    BY <1>3 DEF NotificationsInv, EventsFit, RowsUnchanged
  <2> QED BY <2>1, <2>2, <2>3 DEF EventsFit
<1> QED BY <1>1, <1>2, <1>4 DEF NotificationsInv

JobType == [at : {"none", "waiting", "active", "read", "written", "failed"},
            tries : 0 .. MaxAttempts, stalled : BOOLEAN, to : Side]

LEMMA NobodyHasNoJob == Nobody \in Side /\ NoJob \in JobType /\ NoJob.at = "none" /\ NoJob.tries = 0
BY NotificationAssumption DEF Nobody, Side, NoJob, JobType

LEMMA EventQueueSteps ==
    ASSUME NotificationsInv, NEW e \in Event,
           \/ EnqueueEvent(e) \/ LoseEvent(e) \/ TakeEvent(e) \/ ReadSubject(e)
           \/ FinishEvent(e) \/ FailEvent(e) \/ StallEvent(e)
    PROVE  NotificationsInv'
<1>1. /\ NotificationsTypeOK /\ job[e] \in JobType
      /\ MaxAttempts \in Nat \ {0}
      /\ job[e].at # "failed" => job[e].tries < MaxAttempts
      /\ e.type = "reply" /\ job[e].at # "none" => reply[e.on].state # "NONE"
      /\ pending \subseteq pending
  BY NotificationAssumption
     DEF NotificationsInv, NotificationsTypeOK, AttemptsAreLeft, EventsFit, JobType
<1> DEFINE Turns(j) == /\ RowsUnchanged /\ inbox' = inbox /\ pending' \subseteq pending
                       /\ job' = [job EXCEPT ![e] = j] /\ j \in JobType
                       /\ j.at # "failed" => j.tries < MaxAttempts
                       /\ e.type = "reply" /\ j.at # "none" => reply[e.on].state # "NONE"
                       /\ e.type = "reply" /\ j.at = "read" => Proper(e.on, j.to)
<1>2. ASSUME NEW j, Turns(j) PROVE NotificationsInv'
  BY <1>2, EventJobStep DEF JobType
<1> SUFFICES \E j : Turns(j)
  BY <1>2
<1>3. job = [job EXCEPT ![e] = job[e]]
  BY <1>1 DEF NotificationsTypeOK
<1>4. e.type = "reply" /\ job[e].at = "read" => Proper(e.on, job[e].to)
  BY DEF NotificationsInv, EventsFit
<1>5. ASSUME e \in pending, pending' = pending \ {e}, RowsUnchanged, inbox' = inbox, job' = job
      PROVE  Turns(job[e])
  BY <1>1, <1>3, <1>4, <1>5
<1>6. CASE LoseEvent(e)
  BY <1>5, <1>6 DEF LoseEvent, QueueUnchanged
<1>7. CASE EnqueueEvent(e)
  <2>1. CASE job[e] = NoJob
    <3> DEFINE j == [NoJob EXCEPT !.at = "waiting"]
    <3>1. j \in JobType /\ j.at = "waiting" /\ j.tries = 0
      BY NobodyHasNoJob DEF JobType, NoJob
    <3>2. e.type = "reply" => reply[e.on].state # "NONE"
      BY <1>7 DEF NotificationsInv, EventsFit, EnqueueEvent
    <3>3. job' = [job EXCEPT ![e] = j] /\ pending' = pending \ {e} /\ RowsUnchanged /\ inbox' = inbox
      BY <1>7, <2>1 DEF EnqueueEvent, SetJob
    <3> HIDE DEF j
    <3>4. Turns(j)
      BY <1>1, <3>1, <3>2, <3>3
    <3> QED BY <3>4
  <2>2. CASE job[e] # NoJob
    BY <1>5, <1>7, <2>2 DEF EnqueueEvent
  <2> QED BY <2>1, <2>2
<1>8. CASE TakeEvent(e)
  <2> DEFINE j == [job[e] EXCEPT !.at = "active"]
  <2>1. j \in JobType /\ j.at = "active" /\ j.tries = job[e].tries /\ job[e].at = "waiting"
    BY <1>1, <1>8 DEF JobType, TakeEvent
  <2>2. job' = [job EXCEPT ![e] = j] /\ pending' = pending /\ RowsUnchanged /\ inbox' = inbox
    BY <1>8 DEF TakeEvent, SetJob
  <2> HIDE DEF j
  <2>3. Turns(j)
    BY <1>1, <2>1, <2>2
  <2> QED BY <2>3
<1>9. CASE ReadSubject(e)
  <2>1. pending' = pending /\ RowsUnchanged /\ inbox' = inbox /\ job[e].at = "active"
    BY <1>9 DEF ReadSubject
  <2>2. CASE SubjectGone(e)
    <3>1. job' = [job EXCEPT ![e] = NoJob]
      BY <1>9, <2>2 DEF ReadSubject, SetJob
    <3>2. Turns(NoJob)
      BY <1>1, <2>1, <3>1, NobodyHasNoJob
    <3> QED BY <3>2
  <2>3. CASE ~SubjectGone(e)
    <3> DEFINE j == [job[e] EXCEPT !.at = "read", !.to = Recipient(e)]
    <3>1. Recipient(e) \in Side
      BY <1>1, <2>1, RecipientFits
    <3>2. j \in JobType /\ j.at = "read" /\ j.tries = job[e].tries /\ j.to = Recipient(e)
      BY <1>1, <3>1 DEF JobType
    <3>3. job' = [job EXCEPT ![e] = j]
      BY <1>9, <2>3 DEF ReadSubject, SetJob
    <3>4. e.type = "reply" => reply[e.on].state # "NONE" /\ Proper(e.on, Recipient(e))
      BY <1>1, <2>1, RecipientIsProper
    <3> HIDE DEF j
    <3>5. Turns(j)
      BY <1>1, <2>1, <3>2, <3>3, <3>4
    <3> QED BY <3>5
  <2> QED BY <2>2, <2>3
<1>10. CASE FinishEvent(e)
  <2>1. /\ pending' = pending /\ RowsUnchanged /\ inbox' = inbox
        /\ job' = [job EXCEPT ![e] = NoJob]
    BY <1>10 DEF FinishEvent, SetJob
  <2>2. Turns(NoJob)
    BY <1>1, <2>1, NobodyHasNoJob
  <2> QED BY <2>2
<1>11. CASE FailEvent(e) \/ StallEvent(e)
  <2>1. job[e].at \in {"active", "read", "written"}
    BY <1>11 DEF FailEvent, StallEvent, Running
  <2>2. job[e].tries + 1 \in 0 .. MaxAttempts /\ job[e].tries \in 0 .. MaxAttempts
        /\ job[e].stalled \in BOOLEAN
    BY <1>1, <2>1 DEF JobType
  <2>3. PICK at \in {"waiting", "failed"}, spent \in {job[e].tries, job[e].tries + 1}, stalled \in BOOLEAN :
          /\ job' = [job EXCEPT ![e] = [NoJob EXCEPT !.at = at, !.tries = spent, !.stalled = stalled]]
          /\ at = "waiting" => spent < MaxAttempts
    <3>1. CASE FailEvent(e)
      BY <2>2, <3>1 DEF FailEvent, SetJob
    <3>2. CASE StallEvent(e)
      BY <1>1, <2>1, <2>2, <3>2 DEF StallEvent, SetJob
    <3> QED BY <1>11, <3>1, <3>2
  <2> DEFINE j == [NoJob EXCEPT !.at = at, !.tries = spent, !.stalled = stalled]
  <2>4. j \in JobType /\ j.at = at /\ j.tries = spent
    BY <2>2, <2>3, NobodyHasNoJob DEF JobType, NoJob
  <2>5. pending' = pending /\ RowsUnchanged /\ inbox' = inbox
    BY <1>11 DEF FailEvent, StallEvent
  <2>6. job' = [job EXCEPT ![e] = j]
    BY <2>3
  <2> HIDE DEF j
  <2>7. Turns(j)
    BY <1>1, <2>1, <2>3, <2>4, <2>5, <2>6
  <2> QED BY <2>7
<1> QED BY <1>6, <1>7, <1>8, <1>9, <1>10, <1>11

-----------------------------------------------------------------------------
(* The inbox.                                                              *)

NoteType == [of : Event, to : Side, nth : Nat, read : BOOLEAN]

\* New notes, or old ones marked as read: whom they tell what stays proper.
LEMMA InboxStep ==
    ASSUME NotificationsInv, RowsUnchanged, pending' = pending,
           inbox' \subseteq NoteType, IsFiniteSet(inbox'),
           \A n \in inbox' : n.of.type = "reply" =>
             reply[n.of.on].state # "NONE" /\ Proper(n.of.on, n.to),
           NEW e \in Event, NEW at \in {job[e].at, "written"},
           job' = [job EXCEPT ![e].at = at], job[e].at \in {at, "read"}
    PROVE  NotificationsInv'
<1>1. /\ NotificationsTypeOK
      /\ \A x \in Event : /\ job'[x].tries = job[x].tries /\ job'[x].to = job[x].to
                          /\ job'[x].at = IF x = e THEN at ELSE job[x].at
  BY DEF NotificationsInv, NotificationsTypeOK
<1>2. NotificationsTypeOK'
  <2>1. \A n \in inbox' : n.of \in Event /\ n.to \in Side /\ n.nth \in Nat /\ n.read \in BOOLEAN
    BY DEF NoteType
  <2>2. job' \in [Event -> JobType]
    BY <1>1 DEF NotificationsTypeOK, JobType
  <2> QED BY <1>1, <2>1, <2>2 DEF NotificationsTypeOK, RowsUnchanged, JobType
<1>3. BidsFit' /\ RepliesFit'
  BY DEF NotificationsInv, BidsFit, RepliesFit, RowsUnchanged
<1>4. AttemptsAreLeft'
  BY <1>1 DEF NotificationsInv, AttemptsAreLeft, NoteType
<1>5. \A r, to : Proper(r, to)' <=> Proper(r, to)
  BY DEF Proper, RowsUnchanged
<1>6. EventsFit'
  <2>1. \A x \in pending' : x.type = "reply" => reply'[x.on].state # "NONE"
    BY DEF NotificationsInv, EventsFit, RowsUnchanged
  <2>2. ASSUME NEW x \in Event, x.type = "reply", job'[x].at # "none"
        PROVE  reply'[x.on].state # "NONE" /\ (job'[x].at = "read" => Proper(x.on, job[x].to)')
    <3>1. reply[x.on].state # "NONE" /\ (job[x].at = "read" => Proper(x.on, job[x].to))
      BY <1>1, <2>2 DEF NotificationsInv, EventsFit
    <3>2. job'[x].at = "read" => job[x].at = "read"
      BY <1>1
    <3>3. Proper(x.on, job[x].to) => Proper(x.on, job[x].to)'
      BY <1>1 DEF Proper, RowsUnchanged
    <3> QED BY <3>1, <3>2, <3>3 DEF RowsUnchanged
  <2>3. \A n \in inbox' : n.of.type = "reply" =>
          reply'[n.of.on].state # "NONE" /\ Proper(n.of.on, n.to)'
    BY <1>5 DEF RowsUnchanged
  <2> QED BY <2>1, <2>2, <2>3 DEF EventsFit
<1> QED BY <1>2, <1>3, <1>4, <1>6 DEF NotificationsInv

LEMMA NotifyStep ==
    ASSUME NotificationsInv, NEW e \in Event, WriteNotification(e)
    PROVE  NotificationsInv'
<1> DEFINE n == [of |-> e, to |-> job[e].to, read |-> FALSE,
                 nth |-> Cardinality({x \in inbox : x.of = e})]
<1>1. /\ RowsUnchanged /\ pending' = pending /\ inbox' = inbox \cup {n}
      /\ job[e].at = "read" /\ job' = [job EXCEPT ![e].at = "written"]
  BY DEF WriteNotification, SetJob, NotificationsInv, NotificationsTypeOK
<1>2. /\ inbox \subseteq NoteType /\ IsFiniteSet(inbox) /\ job[e].to \in Side
  BY DEF NotificationsInv, AttemptsAreLeft, NotificationsTypeOK, NoteType
<1>3. Cardinality({x \in inbox : x.of = e}) \in Nat
  BY <1>2, FS_Subset, FS_CardinalityType
<1>4. n \in NoteType /\ n.of = e /\ n.to = job[e].to
  BY <1>2, <1>3 DEF NoteType
<1> HIDE DEF n
<1>5. inbox' \subseteq NoteType /\ IsFiniteSet(inbox')
  BY <1>1, <1>2, <1>4, FS_AddElement
<1>6. \A x \in inbox' : x.of.type = "reply" => reply[x.of.on].state # "NONE" /\ Proper(x.of.on, x.to)
  BY <1>1, <1>4 DEF NotificationsInv, EventsFit
<1> QED BY <1>1, <1>5, <1>6, InboxStep

\* Notes that are marked are the notes that were there.
LEMMA ReadSteps ==
    ASSUME NotificationsInv, NEW p \in Person,
           MarkAllRead(p) \/ \E n \in inbox : MarkRead(p, n)
    PROVE  NotificationsInv'
<1>1. /\ NotificationsTypeOK /\ inbox \subseteq NoteType /\ IsFiniteSet(inbox)
      /\ UNCHANGED <<member, thread, reply, pending, job>>
  BY DEF NotificationsInv, AttemptsAreLeft, NoteType, MarkAllRead, MarkRead, RowsUnchanged
<1>2. PICK m \in [inbox -> BOOLEAN] : inbox' = {[n EXCEPT !.read = m[n]] : n \in inbox}
  <2>1. CASE MarkAllRead(p)
    <3> DEFINE m == [n \in inbox |-> n.read \/ InScope(p, n)]
    <3>1. m \in [inbox -> BOOLEAN]
      BY <1>1 DEF NoteType, InScope
    <3>2. \A n \in inbox : m[n] = (n.read \/ InScope(p, n))
      OBVIOUS
    <3>3. inbox' = {[n EXCEPT !.read = n.read \/ InScope(p, n)] : n \in inbox}
      BY <2>1 DEF MarkAllRead
    <3> HIDE DEF m
    <3>4. inbox' = {[n EXCEPT !.read = m[n]] : n \in inbox}
      BY <3>2, <3>3, Zenon
    <3> QED BY <3>1, <3>4
  <2>2. ASSUME NEW x \in inbox, MarkRead(p, x)
        PROVE  \E m \in [inbox -> BOOLEAN] : inbox' = {[n EXCEPT !.read = m[n]] : n \in inbox}
    <3> DEFINE m == [n \in inbox |-> n.read \/ n = x]
    <3>1. m \in [inbox -> BOOLEAN]
      BY <1>1 DEF NoteType
    <3>2. \A n \in inbox : [n EXCEPT !.read = m[n]] = IF n = x THEN [x EXCEPT !.read = TRUE] ELSE n
      BY <1>1 DEF NoteType
    <3>3. inbox' = (inbox \ {x}) \cup {[x EXCEPT !.read = TRUE]}
      BY <2>2 DEF MarkRead
    <3> HIDE DEF m
    <3>4. ASSUME NEW y PROVE y \in inbox' <=> \E n \in inbox : y = [n EXCEPT !.read = m[n]]
      <4>1. y \in inbox' <=> (y \in inbox /\ y # x) \/ y = [x EXCEPT !.read = TRUE]
        BY <3>3, Zenon
      <4>2. CASE y \in inbox'
        <5>1. CASE y \in inbox /\ y # x
          BY <3>2, <4>2, <5>1, Zenon
        <5>2. CASE y = [x EXCEPT !.read = TRUE]
          BY <3>2, <4>2, <5>2, Zenon
        <5> QED BY <4>1, <4>2, <5>1, <5>2, Zenon
      <4>3. ASSUME NEW n \in inbox, y = [n EXCEPT !.read = m[n]] PROVE y \in inbox'
        BY <3>2, <4>1, <4>3, Zenon
      <4> QED BY <4>2, <4>3, Zenon
    <3>5. inbox' = {[n EXCEPT !.read = m[n]] : n \in inbox}
      BY <3>4, Zenon
    <3> QED BY <3>1, <3>5
  <2> QED BY <2>1, <2>2
<1> DEFINE f == [n \in inbox |-> [n EXCEPT !.read = m[n]]]
<1>3. f \in Surjection(inbox, inbox')
  BY <1>2 DEF Surjection
<1>4. IsFiniteSet(inbox')
  BY <1>1, <1>3, FS_Surjection
<1>5. ASSUME NEW n \in inbox'
      PROVE  \E x \in inbox : n \in NoteType /\ n.of = x.of /\ n.to = x.to
  <2>1. PICK x \in inbox : n = [x EXCEPT !.read = m[x]]
    BY <1>2, <1>5
  <2>2. x \in NoteType /\ m[x] \in BOOLEAN
    BY <1>1, <1>2
  <2> QED BY <2>1, <2>2 DEF NoteType
<1>6. inbox' \subseteq NoteType
  BY <1>5
<1>7. \A n \in inbox' : n.of.type = "reply" => reply[n.of.on].state # "NONE" /\ Proper(n.of.on, n.to)
  BY <1>5 DEF NotificationsInv, EventsFit
<1>8. PICK e : e \in Event
  <2>1. PICK t : t \in Thread
    BY NotificationAssumption
  <2>2. [type |-> "opened", on |-> t, by |-> NoFirm] \in Event
    BY <2>1 DEF Event
  <2> QED BY <2>2
<1>9. job' = [job EXCEPT ![e].at = job[e].at]
  BY <1>1, <1>8 DEF NotificationsTypeOK
<1>10. RowsUnchanged
  BY <1>1 DEF RowsUnchanged
<1> HIDE DEF f
<1> QED BY <1>1, <1>4, <1>6, <1>7, <1>8, <1>9, <1>10, InboxStep

-----------------------------------------------------------------------------

LEMMA NotificationsStep ==
    NotificationsInv /\ [NotificationsNext]_notificationVars => NotificationsInv'
<1> SUFFICES ASSUME NotificationsInv, [NotificationsNext]_notificationVars PROVE NotificationsInv'
  OBVIOUS
<1>1. CASE ThreadStep
  BY <1>1, BusinessSteps, PeopleSteps, ReplySteps, MemberStep DEF ThreadStep
<1>2. CASE QueueStep
  BY <1>2, EventQueueSteps, NotifyStep DEF QueueStep, Work
<1>3. CASE ReadStep
  BY <1>3, ReadSteps DEF ReadStep
<1>4. CASE UNCHANGED notificationVars
  BY <1>4 DEF notificationVars, NotificationsInv, NotificationsTypeOK, BidsFit, RepliesFit, EventsFit,
              Proper, AttemptsAreLeft
<1> QED BY <1>1, <1>2, <1>3, <1>4 DEF NotificationsNext

\* Every reachable state of the notifications is well typed: no event outlives
\* its attempts, and every recipient is a side of something.
THEOREM NotificationsTypeCorrect == NotificationsSpec => []NotificationsTypeOK
<1>1. NotificationsInv => NotificationsTypeOK
  BY DEF NotificationsInv
<1> QED BY NotificationsInitInv, NotificationsStep, <1>1, PTL DEF NotificationsSpec

\* A reply is told to the other side, for any number of people, companies,
\* threads and replies, and however people change companies in between.
THEOREM RepliesReachTheOtherSide == NotificationsSpec => []ReplyReachesTheOtherSide
<1>1. NotificationsInv => ReplyReachesTheOtherSide
  BY DEF NotificationsInv, EventsFit, Proper, ReplyReachesTheOtherSide
<1> QED BY NotificationsInitInv, NotificationsStep, <1>1, PTL DEF NotificationsSpec
-----------------------------------------------------------------------------
(* No event is dropped.                                                    *)

\* The notification of e was written, whether or not it was read since.
Told(e) == \E n \in inbox : n.of = e

\* A job past its INSERT has its row: reading changes rows and removes none.
WrittenIsTold == \A e \in Event : job[e].at = "written" => Told(e)

\* A step that takes a job out of the queue finds its event told, or its
\* subject gone.
LeavesOnlyTold ==
    \A e \in Event : job[e].at # "none" /\ job'[e].at = "none" => Told(e) \/ SubjectGone(e)

\* What a step of the queue does to the job of an event and to who was told.
LEMMA JobMoves ==
    ASSUME NotificationsTypeOK, NEW d \in Event,
           EnqueueEvent(d) \/ LoseEvent(d) \/ Work(d) \/ FailEvent(d) \/ StallEvent(d),
           NEW e \in Event
    PROVE  /\ Told(e) => Told(e)'
           /\ \/ job'[e] = job[e]
              \/ job'[e].at \notin {"none", "written"}
              \/ job'[e].at = "written" /\ Told(e)'
              \/ job'[e].at = "none" /\ (job[e].at = "written" \/ SubjectGone(e))
<1>0. job \in [Event -> JobType] /\ NoJob \in JobType /\ NoJob.at = "none"
  BY NobodyHasNoJob DEF NotificationsTypeOK, JobType
<1>s. ASSUME NEW j, SetJob(d, j) PROVE job'[e] = IF e = d THEN j ELSE job[e]
  BY <1>0, <1>s DEF SetJob
<1>1. CASE EnqueueEvent(d)
  <2>1. Told(e) => Told(e)'
    BY <1>1 DEF EnqueueEvent, Told
  <2>2. [NoJob EXCEPT !.at = "waiting"].at = "waiting"
    BY DEF NoJob
  <2> QED BY <1>1, <1>s, <2>1, <2>2 DEF EnqueueEvent
<1>2. CASE LoseEvent(d)
  BY <1>2 DEF LoseEvent, QueueUnchanged, Told
<1>3. CASE TakeEvent(d)
  <2>1. [job[d] EXCEPT !.at = "active"].at = "active"
    BY <1>0 DEF JobType
  <2> QED BY <1>3, <1>s, <2>1 DEF TakeEvent, Told
<1>4. CASE ReadSubject(d)
  <2>1. [job[d] EXCEPT !.at = "read", !.to = Recipient(d)].at = "read"
    BY <1>0 DEF JobType
  <2>2. CASE SubjectGone(d)
    BY <1>0, <1>4, <1>s, <2>2 DEF ReadSubject, Told
  <2>3. CASE ~SubjectGone(d)
    BY <1>4, <1>s, <2>1, <2>3 DEF ReadSubject, Told
  <2> QED BY <2>2, <2>3
<1>5. CASE WriteNotification(d)
  <2>1. [job[d] EXCEPT !.at = "written"].at = "written"
    BY <1>0 DEF JobType
  <2>2. Told(e) => Told(e)'
    BY <1>5 DEF WriteNotification, Told
  <2>3. Told(d)'
    <3> DEFINE n == [of |-> d, to |-> job[d].to, read |-> FALSE,
                     nth |-> Cardinality({m \in inbox : m.of = d})]
    <3>1. n \in inbox' /\ n.of = d
      BY <1>5 DEF WriteNotification
    <3> QED BY <3>1 DEF Told
  <2> QED BY <1>5, <1>s, <2>1, <2>2, <2>3 DEF WriteNotification
<1>6. CASE FinishEvent(d)
  <2>1. SetJob(d, NoJob) /\ job[d].at = "written" /\ UNCHANGED inbox
    BY <1>6 DEF FinishEvent
  <2>2. Told(e) => Told(e)'
    BY <2>1 DEF Told
  <2> QED BY <1>0, <1>s, <2>1, <2>2
<1>7. CASE FailEvent(d)
  <2> DEFINE n == job[d].tries + 1
             j == [NoJob EXCEPT !.at = IF n < MaxAttempts THEN "waiting" ELSE "failed",
                                !.tries = n, !.stalled = job[d].stalled]
  <2>1. j.at \in {"waiting", "failed"}
    BY DEF NoJob
  <2>2. SetJob(d, j) /\ UNCHANGED inbox
    BY <1>7 DEF FailEvent
  <2>3. Told(e) => Told(e)'
    BY <2>2 DEF Told
  <2> HIDE DEF j
  <2> QED BY <1>s, <2>1, <2>2, <2>3
<1>8. CASE StallEvent(d)
  <2> DEFINE j == [NoJob EXCEPT !.at = IF job[d].stalled THEN "failed" ELSE "waiting",
                                !.tries = job[d].tries, !.stalled = TRUE]
  <2>1. j.at \in {"waiting", "failed"}
    BY DEF NoJob
  <2>2. SetJob(d, j) /\ UNCHANGED inbox
    BY <1>8 DEF StallEvent
  <2>3. Told(e) => Told(e)'
    BY <2>2 DEF Told
  <2> HIDE DEF j
  <2> QED BY <1>s, <2>1, <2>2, <2>3
<1> QED BY <1>1, <1>2, <1>3, <1>4, <1>5, <1>6, <1>7, <1>8 DEF Work

\* Neither requests nor readers touch the jobs, and nobody's row goes away.
LEMMA OthersKeepJobs ==
    ASSUME ThreadStep \/ ReadStep, NEW e \in Event
    PROVE  job' = job /\ (Told(e) => Told(e)')
<1>1. CASE ThreadStep
  <2>1. UNCHANGED <<job, inbox>>
    BY <1>1 DEF ThreadStep, PlaceBid, SignContract, CreateReview, SendInquiry, Submit, AnswerBid,
       MoveContract, PublishReview, RespondInquiry, Discard, WriteReply, DeleteReply,
       ChangeMember, Open, Turn, QueueUnchanged
  <2> QED BY <2>1 DEF Told
<1>2. ASSUME NEW p \in Person, MarkAllRead(p) PROVE job' = job /\ (Told(e) => Told(e)')
  <2>1. ASSUME NEW n \in inbox, n.of = e PROVE Told(e)'
    <3> DEFINE m == [n EXCEPT !.read = n.read \/ InScope(p, n)]
    <3>1. m \in inbox' /\ m.of = e
      BY <1>2, <2>1 DEF MarkAllRead
    <3> QED BY <3>1 DEF Told
  <2> QED BY <1>2, <2>1 DEF MarkAllRead, Told
<1>3. ASSUME NEW p \in Person, NEW n \in inbox, MarkRead(p, n)
      PROVE  job' = job /\ (Told(e) => Told(e)')
  <2>1. n.of = e => Told(e)'
    <3> DEFINE m == [n EXCEPT !.read = TRUE]
    <3>1. m \in inbox' /\ m.of = n.of
      BY <1>3 DEF MarkRead
    <3> QED BY <3>1 DEF Told
  <2>2. ASSUME NEW m \in inbox, m # n PROVE m \in inbox'
    BY <1>3, <2>2 DEF MarkRead
  <2> QED BY <1>3, <2>1, <2>2 DEF MarkRead, Told
<1> QED BY <1>1, <1>2, <1>3 DEF ReadStep

LEMMA JobStep ==
    ASSUME NotificationsTypeOK, WrittenIsTold, [NotificationsNext]_notificationVars
    PROVE  WrittenIsTold' /\ LeavesOnlyTold
<1>1. CASE ThreadStep \/ ReadStep
  BY <1>1, OthersKeepJobs DEF WrittenIsTold, LeavesOnlyTold
<1>2. CASE UNCHANGED notificationVars
  BY <1>2 DEF notificationVars, WrittenIsTold, LeavesOnlyTold, Told
<1>3. CASE QueueStep
  <2>1. PICK d \in Event :
            EnqueueEvent(d) \/ LoseEvent(d) \/ Work(d) \/ FailEvent(d) \/ StallEvent(d)
    BY <1>3 DEF QueueStep
  <2>2. ASSUME NEW e \in Event, job'[e].at = "written" PROVE Told(e)'
    BY <2>1, <2>2, JobMoves DEF WrittenIsTold
  <2>3. ASSUME NEW e \in Event, job[e].at # "none", job'[e].at = "none"
        PROVE  Told(e) \/ SubjectGone(e)
    BY <2>1, <2>3, JobMoves DEF WrittenIsTold
  <2> QED BY <2>2, <2>3 DEF WrittenIsTold, LeavesOnlyTold
<1> QED BY <1>1, <1>2, <1>3 DEF NotificationsNext

\* The queue drops no event: through failed attempts, dead workers and repeated
\* adds, a job goes away only when its notification is written or its subject
\* deleted.  The safety half of EventIsNotified.
THEOREM JobsEndTold == NotificationsSpec => [][LeavesOnlyTold]_notificationVars
<1>1. NotificationsInit => WrittenIsTold
  BY NobodyHasNoJob DEF NotificationsInit, WrittenIsTold
<1>2. NotificationsTypeOK /\ WrittenIsTold /\ [NotificationsNext]_notificationVars
        => WrittenIsTold' /\ LeavesOnlyTold
  BY JobStep
<1> QED BY <1>1, <1>2, NotificationsTypeCorrect, PTL DEF NotificationsSpec
=============================================================================
