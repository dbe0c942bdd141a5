---------------------------- MODULE MCOperations ----------------------------
(* Five components that share no state, in one run: the initial state says *)
(* which of them moves ("part"), and "about" which of its operations are   *)
(* looked at, where all of them together are too many.  Nothing else is    *)
(* taken from them but the bounds below.                                   *)
EXTENDS Publishing, Applications, Notifications, CompanyVerification, VehicleAssignments

CONSTANTS v1, j1, p1, p2, person1, person2, firm1, firm2, d1

VARIABLES part, about

mcVars == <<publishingVars, applicationVars, notificationVars, verificationVars,
            assignmentVars, part, about>>

MCInit ==
    /\ part \in {"publishing", "applications", "notifications", "verification", "assignments"}
    /\ about \in CASE part = "publishing" -> {"ads", "posts", "boosts"}
                   [] part = "notifications" -> Kind
                   [] OTHER -> {"all"}
    /\ PublishingInit /\ ApplicationsInit /\ VerificationInit /\ AssignmentInit
    /\ NotificationsInit
    /\ part = "verification" \/ (firm.identity \in Usable /\ ~bullmq)
    /\ part = "notifications" \/ member = [p \in Person |-> NoFirm]
    /\ member[person1] # firm2 /\ member[person2] # firm1
    /\ about \in {"BID", "CONTRACT", "REVIEW"} => member[person1] = firm1

-----------------------------------------------------------------------------

\* A vehicle and a job listing; or two posts that are not boosted, of which one
\* is created, removed and restored only; or one post that is boosted.
MCPublishing ==
    /\ part = "publishing"
    /\ PublishingNext
    /\ \A i \in Ad : ad'[i] # ad[i] =>
         i \in CASE about = "ads" -> VehicleAd \cup JobAd
                [] about = "posts" -> Post
                [] about = "boosts" -> {p1}
    /\ \A k \in Clerk : task'[k].op # "none" =>
         /\ task'[k].i \in Post <=> about # "ads"
         /\ task'[k].i = p2 => task'[k].op # "update"
         /\ task'[k].op = "boost" => about = "boosts"
    /\ UNCHANGED <<applicationVars, notificationVars, verificationVars, assignmentVars>>

MCApplications ==
    /\ part = "applications"
    /\ ApplicationsNext
    /\ UNCHANGED <<publishingVars, notificationVars, verificationVars, assignmentVars>>

MCVerification ==
    /\ part = "verification"
    /\ VerificationNext
    /\ UNCHANGED <<publishingVars, applicationVars, notificationVars, assignmentVars>>

\* One field a PATCH; the vehicle and one driver come and go between requests.
MCAssignments ==
    /\ part = "assignments"
    /\ AssignmentNext
    /\ \A k \in Dispatcher : request'[k].op = "update" =>
         \E f \in {"driver", "startsAt", "endsAt"} :
           \A g \in DOMAIN request'[k].body \ {f} : request'[k].body[g] = NoChange
    /\ d1 \in crew'
    /\ <<fleet', crew'>> # <<fleet, crew>> => \A k \in Dispatcher : request[k] = NoPlan
    /\ UNCHANGED <<publishingVars, applicationVars, notificationVars, verificationVars>>

Busy(e) == e \in pending \/ job[e].at \notin {"none", "failed"}

\* Threads of one kind.  Of bids, inquiries and submissions, the replies:
\* person2 sends bids and inquiries, and moves before there is a reply; the
\* worker meets no failure.  Of contracts and reviews, the queue: one event at a
\* time meets with failures, and person1 reads when it is empty.  Two events are
\* under way at a time, and none is announced again once notified.
MCNotifications ==
    /\ part = "notifications"
    /\ NotificationsNext
    /\ \A t \in Thread : thread'[t].state # "NONE" => thread'[t].kind = about
    /\ about = "BID" => \A t \in Thread : thread'[t].sender # Company(firm1)
    /\ about = "INQUIRY" => \A t \in Thread : thread'[t].sender.person # person1
    /\ member' # member =>
         /\ member'[person1] = member[person1] /\ pending = {}
         /\ \A t \in Thread : thread[t].state = "OPEN"
         /\ \A r \in Reply : reply[r].state = "NONE"
    /\ about \in {"BID", "INQUIRY", "SUBMISSION"} =>
         \A e \in Event : job'[e].tries = 0 /\ ~job'[e].stalled
    /\ \A d, e \in Event :
         d # e /\ (job'[d].tries > 0 \/ job'[d].stalled) => job'[e].tries = 0 /\ ~job'[e].stalled
    /\ inbox' # inbox /\ job' = job =>
         /\ \A e \in Event : ~Busy(e)
         /\ about \in {"CONTRACT", "REVIEW"} /\ \A n \in inbox \ inbox' : InScope(person1, n)
    /\ pending' \ pending # {} => Cardinality({e \in Event : Busy(e)}) < 2
    /\ \A e \in pending' \ pending : ~ \E n \in inbox : n.of = e
    /\ UNCHANGED <<publishingVars, applicationVars, verificationVars, assignmentVars>>

MCNext ==
    /\ MCPublishing \/ MCApplications \/ MCVerification \/ MCAssignments \/ MCNotifications
    /\ UNCHANGED <<part, about>>

MCSpec == MCInit /\ [][MCNext]_mcVars /\ NotificationsFairness

\* The state of the component that moves has its type; the others stay as they
\* were.
OperationsTypeOK ==
    /\ part = "publishing" => PublishingTypeOK
    /\ part = "applications" => ApplicationsTypeOK
    /\ part = "notifications" => NotificationsTypeOK
    /\ part = "verification" => VerificationTypeOK
    /\ part = "assignments" => AssignmentTypeOK
=============================================================================
