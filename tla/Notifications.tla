--------------------------- MODULE Notifications ---------------------------
(***************************************************************************)
(* Who is told about what.  A request commits its change and then adds an  *)
(* event to a BullMQ queue, under an id made from the change; a worker     *)
(* looks the subject up again, works out whose inbox it is for, and writes *)
(* a notification.  There is no outbox: a process that dies between the    *)
(* commit and the add loses the event.                                     *)
(*                                                                         *)
(* A thread is a bid, a contract, an inquiry about a vehicle, a submission *)
(* to a job listing, or a review.  It has two sides: the owner (of the     *)
(* post, of the listing; the company reviewed; the shipper) and the sender.*)
(* A side is a company, a person or both.  "member" is the company in a    *)
(* person's token; those without one are job seekers, the others admins.   *)
(* A person acts through a request of its own, whose check of access and   *)
(* INSERT are one step: nothing that access depends on changes.            *)
(***************************************************************************)
EXTENDS Integers, FiniteSets

CONSTANTS
    Person, NoPerson, Firm, NoFirm,
    Thread, Reply,
    MaxAttempts     \* attempts of the queue, 5 in the code

ASSUME NotificationAssumption ==
    /\ NoPerson \notin Person /\ NoFirm \notin Firm
    /\ Person # {} /\ Thread # {}
    /\ MaxAttempts \in Nat \ {0}

VARIABLES
    member,         \* companyId in each person's token
    thread,         \* the subjects of notifications
    reply,          \* reply rows
    pending,        \* events committed and not yet added to the queue
    job,            \* the queue's job of each event id
    inbox           \* notification rows; "of" tells those of one event apart

notificationVars == <<member, thread, reply, pending, job, inbox>>

Kind == {"BID", "CONTRACT", "INQUIRY", "SUBMISSION", "REVIEW"}
Side == [firm : Firm \cup {NoFirm}, person : Person \cup {NoPerson}]
Company(f) == [firm |-> f, person |-> NoPerson]
Nobody == [firm |-> NoFirm, person |-> NoPerson]

\* A row is addressed to the company if there is one, else to the person.
Address(s) == IF s.firm # NoFirm THEN Company(s.firm) ELSE [firm |-> NoFirm, person |-> s.person]

Event ==
    [type : {"opened", "accepted", "rejected", "responded", "published"}, on : Thread, by : {NoFirm}]
    \cup [type : {"moved"}, on : Thread, by : Firm]
    \cup [type : {"reply"}, on : Reply, by : {NoFirm}]

NoJob == [at |-> "none", tries |-> 0, stalled |-> FALSE, to |-> Nobody]

NotificationsTypeOK ==
    /\ member \in [Person -> Firm \cup {NoFirm}]
    /\ thread \in [Thread -> [kind : Kind, state : {"NONE", "DRAFT", "OPEN", "ANSWERED", "GONE"},
                              owner : Side, sender : Side]]
    /\ reply \in [Reply -> [state : {"NONE", "OPEN", "GONE"}, on : Thread,
                            author : Person, firm : Firm \cup {NoFirm}]]
    /\ pending \subseteq Event
    /\ job \in [Event -> [at : {"none", "waiting", "active", "read", "written", "failed"},
                          tries : 0 .. MaxAttempts, stalled : BOOLEAN, to : Side]]
    /\ \A n \in inbox : n.of \in Event /\ n.to \in Side /\ n.nth \in Nat /\ n.read \in BOOLEAN

NotificationsInit ==
    /\ member \in [Person -> Firm \cup {NoFirm}]
    /\ thread = [t \in Thread |-> [kind |-> "BID", state |-> "NONE", owner |-> Nobody,
                                   sender |-> Nobody]]
    /\ reply = [r \in Reply |-> [state |-> "NONE", on |-> CHOOSE t \in Thread : TRUE,
                                 author |-> CHOOSE p \in Person : TRUE, firm |-> NoFirm]]
    /\ pending = {}
    /\ job = [e \in Event |-> NoJob]
    /\ inbox = {}

QueueUnchanged == UNCHANGED <<job, inbox>>

Announce(type, x, by) == pending' = pending \cup {[type |-> type, on |-> x, by |-> by]}

Open(t, kind, state, owner, sender) ==
    /\ thread[t].state = "NONE"
    /\ thread' = [thread EXCEPT ![t] = [kind |-> kind, state |-> state, owner |-> owner,
                                        sender |-> sender]]
    /\ UNCHANGED <<member, reply>> /\ QueueUnchanged

Turn(t, kind, from, to) ==
    /\ thread[t].kind = kind /\ thread[t].state \in from
    /\ thread' = [thread EXCEPT ![t].state = to]
    /\ UNCHANGED <<member, reply>> /\ QueueUnchanged

-----------------------------------------------------------------------------
(* Bids, contracts and reviews: between companies.                         *)

PlaceBid(t, p, f) ==
    /\ member[p] \in Firm \ {f}
    /\ Open(t, "BID", "OPEN", Company(f), Company(member[p]))
    /\ Announce("opened", t, NoFirm)

AnswerBid(t, answer) ==
    Turn(t, "BID", {"OPEN"}, "ANSWERED") /\ Announce(answer, t, NoFirm)

SignContract(t, p, f) ==
    /\ member[p] \in Firm \ {f}
    /\ Open(t, "CONTRACT", "OPEN", Company(member[p]), Company(f))
    /\ Announce("opened", t, NoFirm)

\* One change of a contract's status, by either company.
MoveContract(t, p) ==
    /\ member[p] \in {thread[t].owner.firm, thread[t].sender.firm} \cap Firm
    /\ Turn(t, "CONTRACT", {"OPEN"}, "ANSWERED")
    /\ Announce("moved", t, member[p])

\* A review that is created as PUBLISHED is not announced.
CreateReview(t, p, f, state) ==
    /\ member[p] \in Firm \ {f}
    /\ Open(t, "REVIEW", state, Company(f), Company(member[p]))
    /\ UNCHANGED pending

PublishReview(t, p) ==
    /\ member[p] = thread[t].sender.firm /\ member[p] \in Firm
    /\ Turn(t, "REVIEW", {"DRAFT"}, "OPEN")
    /\ Announce("published", t, NoFirm)

\* A bid or a contract is deleted, a review deleted or withdrawn.
Discard(t) ==
    \E kind \in {"BID", "CONTRACT", "REVIEW"} :
      Turn(t, kind, {"DRAFT", "OPEN", "ANSWERED"}, "GONE") /\ UNCHANGED pending

-----------------------------------------------------------------------------
(* Inquiries and submissions: with people too.                             *)

\* canOwnListing: an admin owns what the company listed, a job seeker what
\* they listed themselves.
OwnsAd(p, owner) ==
    IF member[p] # NoFirm THEN owner.firm = member[p] ELSE owner.person = p

Sent(p, t) ==
    \/ thread[t].sender.person = p
    \/ member[p] # NoFirm /\ thread[t].sender.firm = member[p]

SendInquiry(t, p, owner) ==
    /\ (owner.firm = NoFirm) # (owner.person = NoPerson)
    /\ ~OwnsAd(p, owner)
    /\ Open(t, "INQUIRY", "OPEN", owner, [firm |-> member[p], person |-> p])
    /\ Announce("opened", t, NoFirm)

\* The status may be set to RESPONDED again; the owner only is announced.
RespondInquiry(t, p) ==
    /\ OwnsAd(p, thread[t].owner)
    /\ Turn(t, "INQUIRY", {"OPEN", "ANSWERED"}, "ANSWERED")
    /\ Announce("responded", t, NoFirm)

\* A job seeker answers a company, a company a job seeker.
Submit(t, p, owner) ==
    /\ owner.person \in Person \ {p}
    /\ (owner.firm = NoFirm) # (member[p] = NoFirm)
    /\ Open(t, "SUBMISSION", "OPEN", owner, [firm |-> member[p], person |-> p])
    /\ Announce("opened", t, NoFirm)

OwnsJobAd(p, owner) == owner.person = p \/ (member[p] # NoFirm /\ owner.firm = member[p])

-----------------------------------------------------------------------------
(* Replies.                                                                *)

MayReplyToInquiry(p, t) ==
    thread[t].kind = "INQUIRY" /\ (OwnsAd(p, thread[t].owner) \/ Sent(p, t))
MayReplyToSubmission(p, t) ==
    thread[t].kind = "SUBMISSION" /\ (OwnsJobAd(p, thread[t].owner) \/ Sent(p, t))
MayReplyToBid(p, t) ==
    /\ thread[t].kind = "BID" /\ member[p] # NoFirm
    /\ member[p] \in {thread[t].owner.firm, thread[t].sender.firm}

MayReply(p, t) ==
    /\ thread[t].state \in {"OPEN", "ANSWERED"}
    /\ MayReplyToInquiry(p, t) \/ MayReplyToSubmission(p, t) \/ MayReplyToBid(p, t)

WriteReply(r, p, t) ==
    /\ reply[r].state = "NONE"
    /\ MayReply(p, t)
    /\ reply' = [reply EXCEPT ![r] = [state |-> "OPEN", on |-> t, author |-> p, firm |-> member[p]]]
    /\ Announce("reply", r, NoFirm)
    /\ UNCHANGED <<member, thread>> /\ QueueUnchanged

DeleteReply(r, p) ==
    /\ reply[r].state = "OPEN" /\ reply[r].author = p
    /\ MayReply(p, reply[r].on)
    /\ reply' = [reply EXCEPT ![r].state = "GONE"]
    /\ UNCHANGED <<member, thread, pending>> /\ QueueUnchanged

\* Invites, removals and admins change who belongs where.
ChangeMember(p, f) ==
    /\ member' = [member EXCEPT ![p] = f]
    /\ UNCHANGED <<thread, reply, pending>> /\ QueueUnchanged

-----------------------------------------------------------------------------
(* Recipients, as the handler of each event works them out.                *)

BidRecipient(type, t) ==
    IF type = "opened" THEN thread[t].owner ELSE thread[t].sender

ContractRecipient(type, t, by) ==
    IF type = "opened" \/ by = thread[t].owner.firm THEN thread[t].sender ELSE thread[t].owner

InquiryRecipient(type, t) ==
    Address(IF type = "opened" THEN thread[t].owner ELSE thread[t].sender)

SubmissionRecipient(t) == Address(thread[t].owner)

ReviewRecipient(t) == thread[t].owner

\* MUTANT of AuthorIsOwner: people who own without a company are forgotten.
AuthorIsOwnerFirm(r) ==
    reply[r].firm # NoFirm /\ reply[r].firm = thread[reply[r].on].owner.firm

AuthorIsOwner(r) ==
    LET owner == thread[reply[r].on].owner
    IN  (reply[r].firm # NoFirm /\ reply[r].firm = owner.firm) \/ reply[r].author = owner.person

InquiryReplyRecipient(r) ==
    LET t == thread[reply[r].on]
    IN  Address(IF AuthorIsOwner(r) THEN t.sender ELSE t.owner)

SubmissionReplyRecipient(r) ==
    LET t == thread[reply[r].on]
    IN  Address(IF AuthorIsOwner(r) THEN t.sender ELSE t.owner)

BidReplyRecipient(r) ==
    LET t == thread[reply[r].on]
    IN  IF reply[r].firm = t.sender.firm THEN t.owner ELSE t.sender

Recipient(e) ==
    IF e.type = "reply"
    THEN LET kind == thread[reply[e.on].on].kind
         IN  CASE kind = "INQUIRY" -> InquiryReplyRecipient(e.on)
               [] kind = "SUBMISSION" -> SubmissionReplyRecipient(e.on)
               [] kind = "BID" -> BidReplyRecipient(e.on)
    ELSE LET kind == thread[e.on].kind
         IN  CASE kind = "BID" -> BidRecipient(e.type, e.on)
               [] kind = "CONTRACT" -> ContractRecipient(e.type, e.on, e.by)
               [] kind = "INQUIRY" -> InquiryRecipient(e.type, e.on)
               [] kind = "SUBMISSION" -> SubmissionRecipient(e.on)
               [] kind = "REVIEW" -> ReviewRecipient(e.on)

\* The handler looks a subject up among those that are not deleted, a review
\* among the published.
SubjectGone(e) ==
    IF e.type = "reply" THEN reply[e.on].state = "GONE" ELSE thread[e.on].state = "GONE"

-----------------------------------------------------------------------------
(* The queue and its worker.                                               *)

RowsUnchanged == UNCHANGED <<member, thread, reply>>

SetJob(e, j) == job' = [job EXCEPT ![e] = j]

\* add is ignored while a job with the id exists, a failed one included.
EnqueueEvent(e) ==
    /\ e \in pending
    /\ pending' = pending \ {e}
    /\ IF job[e] = NoJob THEN SetJob(e, [NoJob EXCEPT !.at = "waiting"]) ELSE UNCHANGED job
    /\ RowsUnchanged /\ UNCHANGED inbox

\* The process dies, or Redis cannot be reached.
LoseEvent(e) ==
    /\ e \in pending
    /\ pending' = pending \ {e}
    /\ RowsUnchanged /\ QueueUnchanged

TakeEvent(e) ==
    /\ job[e].at = "waiting"
    /\ SetJob(e, [job[e] EXCEPT !.at = "active"])
    /\ RowsUnchanged /\ UNCHANGED <<pending, inbox>>

ReadSubject(e) ==
    /\ job[e].at = "active"
    /\ SetJob(e, IF SubjectGone(e) THEN NoJob
                 ELSE [job[e] EXCEPT !.at = "read", !.to = Recipient(e)])
    /\ RowsUnchanged /\ UNCHANGED <<pending, inbox>>

WriteNotification(e) ==
    /\ job[e].at = "read"
    /\ inbox' = inbox \cup {[of |-> e, to |-> job[e].to, read |-> FALSE,
                             nth |-> Cardinality({n \in inbox : n.of = e})]}
    /\ SetJob(e, [job[e] EXCEPT !.at = "written"])
    /\ RowsUnchanged /\ UNCHANGED pending

\* removeOnComplete.
FinishEvent(e) ==
    /\ job[e].at = "written"
    /\ SetJob(e, NoJob)
    /\ RowsUnchanged /\ UNCHANGED <<pending, inbox>>

Running(e) == job[e].at \in {"active", "read", "written"}

\* MUTANT of FailEvent: the handler swallows its errors.
FailEventQuietly(e) ==
    /\ Running(e)
    /\ SetJob(e, NoJob)
    /\ RowsUnchanged /\ UNCHANGED <<pending, inbox>>

\* An error: another attempt, or the failed job stays.
FailEvent(e) ==
    /\ Running(e)
    /\ LET tries == job[e].tries + 1
       IN  SetJob(e, [NoJob EXCEPT !.at = IF tries < MaxAttempts THEN "waiting" ELSE "failed",
                                   !.tries = tries, !.stalled = job[e].stalled])
    /\ RowsUnchanged /\ UNCHANGED <<pending, inbox>>

\* The worker dies: its job is handed out again, once.
StallEvent(e) ==
    /\ Running(e)
    /\ SetJob(e, [NoJob EXCEPT !.at = IF job[e].stalled THEN "failed" ELSE "waiting",
                               !.tries = job[e].tries, !.stalled = TRUE])
    /\ RowsUnchanged /\ UNCHANGED <<pending, inbox>>

-----------------------------------------------------------------------------
(* Reading.  A job seeker sees their own, an admin those of the company.   *)

InScope(p, n) ==
    IF member[p] # NoFirm THEN n.to.firm = member[p] ELSE n.to.person = p

MarkRead(p, n) ==
    /\ InScope(p, n)
    /\ inbox' = (inbox \ {n}) \cup {[n EXCEPT !.read = TRUE]}
    /\ RowsUnchanged /\ UNCHANGED <<pending, job>>

MarkAllRead(p) ==
    /\ inbox' = {[n EXCEPT !.read = n.read \/ InScope(p, n)] : n \in inbox}
    /\ RowsUnchanged /\ UNCHANGED <<pending, job>>

-----------------------------------------------------------------------------

Work(e) == TakeEvent(e) \/ ReadSubject(e) \/ WriteNotification(e) \/ FinishEvent(e)

ThreadStep ==
    \E t \in Thread, p \in Person :
      \/ \E f \in Firm : PlaceBid(t, p, f) \/ SignContract(t, p, f)
      \/ \E f \in Firm, state \in {"DRAFT", "OPEN"} : CreateReview(t, p, f, state)
      \/ \E owner \in Side : SendInquiry(t, p, owner) \/ Submit(t, p, owner)
      \/ \E answer \in {"accepted", "rejected"} : AnswerBid(t, answer)
      \/ MoveContract(t, p) \/ PublishReview(t, p) \/ RespondInquiry(t, p) \/ Discard(t)
      \/ \E r \in Reply : WriteReply(r, p, t) \/ DeleteReply(r, p)
      \/ \E f \in Firm \cup {NoFirm} : ChangeMember(p, f)

ReadStep == \E p \in Person : MarkAllRead(p) \/ \E n \in inbox : MarkRead(p, n)

QueueStep ==
    \E e \in Event :
      EnqueueEvent(e) \/ LoseEvent(e) \/ Work(e) \/ FailEvent(e) \/ StallEvent(e)

NotificationsNext == ThreadStep \/ QueueStep \/ ReadStep

\* The worker process is restarted when it dies, and takes what waits.
NotificationsFairness == \A e \in Event : WF_notificationVars(Work(e))

NotificationsSpec ==
    NotificationsInit /\ [][NotificationsNext]_notificationVars /\ NotificationsFairness

-----------------------------------------------------------------------------

\* A reply reaches the other side: its author may have joined or left a
\* company since the thread began, but as long as they stand on one side of
\* it only, the notification is for the other.
ReplyReachesTheOtherSide ==
    \A n \in inbox :
      n.of.type = "reply" =>
        LET r == reply[n.of.on]
            t == thread[r.on]
            On(side) == side.person = r.author \/ (r.firm # NoFirm /\ side.firm = r.firm)
        IN  /\ On(t.owner) /\ ~On(t.sender) => n.to = Address(t.sender)
            /\ On(t.sender) /\ ~On(t.owner) => n.to = Address(t.owner)

\* An event that is in the queue ends as a notification, unless its subject
\* is deleted first or all attempts fail, in which case the failed job stays.
EventIsNotified ==
    \A e \in Event :
      job[e].at = "waiting" ~>
        \/ \E n \in inbox : n.of = e
        \/ SubjectGone(e)
        \/ job[e].at = "failed"
=============================================================================
