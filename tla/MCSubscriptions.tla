-------------------------- MODULE MCSubscriptions --------------------------
(* One company in three parts, each from a state the system gets to from   *)
(* SubscriptionInit by its checkouts and requests:                         *)
(*   checkouts: two open checkouts and no more cancel requests; a          *)
(*              downgrade may commit again after its handler failed.       *)
(*   request:   one checkout (the other has expired), one request.         *)
(*   overlap:   two open checkouts, and two requests once an event is      *)
(*              handled; handlers do not fail, the reconcile job does not  *)
(*              run, and checkouts stay as they are.                       *)
EXTENDS Subscriptions

CONSTANTS b1, b2, q1, q2

VARIABLE part

mcVars == <<subscriptionVars, part>>

Answered == [NoRequest EXCEPT !.pc = "done", !.row = FirstRow, !.cancel = TRUE]

MCInit ==
    /\ row = [r \in RowId |-> IF r = FirstRow THEN FreePlan ELSE Absent]
    /\ company = "FREE"
    /\ \/ /\ part = "checkouts"
          /\ request = [q \in Request |-> Answered]
          /\ checkout = [b \in Sub |-> "CREATED"]
       \/ /\ part = "request"
          /\ request = [q \in Request |-> IF q = q1 THEN NoRequest ELSE Answered]
          /\ checkout = [b \in Sub |-> IF b = b1 THEN "NONE" ELSE "EXPIRED"]
       \/ /\ part = "overlap"
          /\ request = [q \in Request |-> NoRequest]
          /\ checkout = [b \in Sub |-> "CREATED"]
    /\ billed = {}
    /\ handler = [s \in Slot |-> Idle]
    /\ sweep = {}
    /\ stripe = [b \in Sub |-> [status |-> "NONE", cancel |-> FALSE]]
    /\ events = <<>>
    /\ ordered = TRUE

\* Bound: FREE rows that are written, the first one included.
MaxFree == IF part = "checkouts" THEN 3 ELSE 2

MCNext ==
    /\ SubscriptionNext
    /\ Cardinality({f \in FreeRow : Exists(f)'}) <= MaxFree
    /\ part = "overlap" =>
         /\ \A s \in Slot : ~FailHandler(s)
         /\ UNCHANGED <<sweep, checkout>>
         /\ request'[q1] # NoRequest => billed # {}
         /\ request'[q2] # NoRequest => request'[q1] # NoRequest
         /\ \A n \in DOMAIN events' : events'[1].sub = b1 /\ events'[n].type # "checkout"
    /\ UNCHANGED part

MCSpec == MCInit /\ [][MCNext]_mcVars /\ WF_subscriptionVars(Reconcile)
=============================================================================
