---------------------------- MODULE CompanyPlan ----------------------------
(***************************************************************************)
(* What the subscriptions of a company promise, without rows, locks, jobs  *)
(* or retries: each event of Stripe's is applied before it is acknowledged *)
(* and not after, and between events only an unpaid plan changes.          *)
(***************************************************************************)
EXTENDS Integers, Sequences

CONSTANTS Sub, NoSub

VARIABLES
    plan,           \* the subscription the company is on, and its status
    announced,      \* Stripe's events, oldest first
    acknowledged    \* the numbers of those that were handled

planVars == <<plan, announced, acknowledged>>

Event == [sub : Sub, type : {"checkout", "updated", "deleted"},
          status : {"ACTIVE", "UNPAID", "CANCELED"}, cancel : BOOLEAN]

Free == [sub |-> NoSub, status |-> "FREE"]

PlanOf(e) == IF e.type = "deleted" THEN Free ELSE [sub |-> e.sub, status |-> e.status]

PlanInit == plan = Free /\ announced = <<>> /\ acknowledged = {}

Announce ==
    /\ \E e \in Event : announced' = Append(announced, e)
    /\ UNCHANGED <<plan, acknowledged>>

\* An event may be applied again until it is acknowledged; that a checkout was
\* paid says nothing of the plan.
Apply(n) ==
    /\ n \in DOMAIN announced \ acknowledged
    /\ announced[n].type # "checkout"
    /\ plan' = PlanOf(announced[n])
    /\ UNCHANGED <<announced, acknowledged>>

Acknowledge(n) ==
    /\ n \in DOMAIN announced \ acknowledged
    /\ announced[n].type # "checkout" => plan = PlanOf(announced[n])
    /\ acknowledged' = acknowledged \cup {n}
    /\ UNCHANGED <<plan, announced>>

Lapse ==
    /\ plan.status = "UNPAID"
    /\ plan' = Free
    /\ UNCHANGED <<announced, acknowledged>>

PlanNext == Announce \/ Lapse \/ \E n \in DOMAIN announced : Apply(n) \/ Acknowledge(n)

PlanSpec == PlanInit /\ [][PlanNext]_planVars
=============================================================================
