---------------------------- MODULE BillingQueue ----------------------------
(***************************************************************************)
(* How a Stripe event reaches its handler.                                 *)
(*                                                                         *)
(* Stripe posts an event until it gets a 2xx answer.  With BULLMQ_ENABLED  *)
(* the endpoint adds a job whose id is the event's and answers; a worker   *)
(* slot takes it, and a failed attempt is retried until "attempts" are     *)
(* used up.  Without it the endpoint runs the handler before it answers,   *)
(* and nothing stops Stripe from posting again meanwhile.                  *)
(*                                                                         *)
(* What BullMQ does is modelled from the options the code gives it: add    *)
(* ignores an id that it still holds, completed jobs are removed and       *)
(* failed jobs are kept, and a job whose worker died goes back to the      *)
(* queue, once.  A worker that lives keeps its lock (its event loop is not *)
(* blocked for the lock's 30 seconds).                                     *)
(***************************************************************************)
EXTENDS Naturals

CONSTANTS
    Event,          \* Stripe events
    Worker,         \* handler slots: worker concurrency, or API requests
    NoEvent,
    QueueEnabled,   \* BULLMQ_ENABLED
    MaxAttempts,    \* attempts of a job
    MaxFaults,      \* bound: handler errors and lost answers
    MaxCrashes      \* bound: deaths of the process that runs the handlers

ASSUME QueueAssumption ==
    /\ NoEvent \notin Event
    /\ QueueEnabled \in BOOLEAN
    /\ MaxAttempts \in Nat \ {0}
    /\ MaxFaults \in Nat
    /\ MaxCrashes \in Nat

VARIABLES
    stripe,     \* Stripe's view of each event
    job,        \* the job with the event's id
    attempts,   \* its failed attempts
    stalls,     \* how often it was recovered from a dead worker
    handler,    \* the event each slot is handling
    faults,
    crashes

queueVars == <<stripe, job, attempts, stalls, handler, faults, crashes>>

QueueTypeOK ==
    /\ stripe \in [Event -> {"none", "due", "acked"}]
    /\ job \in [Event -> {"none", "waiting", "active", "failed"}]
    /\ attempts \in [Event -> 0 .. MaxAttempts]
    /\ stalls \in [Event -> 0 .. 1]
    /\ handler \in [Worker -> Event \cup {NoEvent}]
    /\ faults \in 0 .. MaxFaults
    /\ crashes \in 0 .. MaxCrashes

QueueInit ==
    /\ stripe = [e \in Event |-> "none"]
    /\ job = [e \in Event |-> "none"]
    /\ attempts = [e \in Event |-> 0]
    /\ stalls = [e \in Event |-> 0]
    /\ handler = [w \in Worker |-> NoEvent]
    /\ faults = 0
    /\ crashes = 0

\* Something happened at Stripe.
Emit(e) ==
    /\ stripe[e] = "none"
    /\ stripe' = [stripe EXCEPT ![e] = "due"]
    /\ UNCHANGED <<job, attempts, stalls, handler, faults, crashes>>

\* The answer to Stripe, which may get lost.
Answer(e) ==
    \/ stripe' = [stripe EXCEPT ![e] = "acked"] /\ UNCHANGED faults
    \/ faults < MaxFaults /\ faults' = faults + 1 /\ UNCHANGED stripe

\* MUTANT of Enqueue: the job gets an id of its own, so it is queued again.
EnqueueAnew(e) ==
    /\ QueueEnabled
    /\ stripe[e] = "due"
    /\ job' = [job EXCEPT ![e] = "waiting"]
    /\ attempts' = [attempts EXCEPT ![e] = 0]
    /\ stalls' = [stalls EXCEPT ![e] = 0]
    /\ Answer(e)
    /\ UNCHANGED <<handler, crashes>>

\* MUTANT of Enqueue: the answer does not wait for the add, which may fail.
EnqueueUnawaited(e) ==
    /\ QueueEnabled
    /\ stripe[e] = "due"
    /\ \/ job[e] = "none" /\ job' = [job EXCEPT ![e] = "waiting"]
       \/ UNCHANGED job
    /\ Answer(e)
    /\ UNCHANGED <<attempts, stalls, handler, crashes>>

\* POST /webhooks/stripe, queued: the job id makes a second add a no-op.
Enqueue(e) ==
    /\ QueueEnabled
    /\ stripe[e] = "due"
    /\ IF job[e] = "none"
       THEN /\ job' = [job EXCEPT ![e] = "waiting"]
            /\ attempts' = [attempts EXCEPT ![e] = 0]
            /\ stalls' = [stalls EXCEPT ![e] = 0]
       ELSE UNCHANGED <<job, attempts, stalls>>
    /\ Answer(e)
    /\ UNCHANGED <<handler, crashes>>

\* POST /webhooks/stripe, inline: the handler starts in the request.
HandleInline(w, e) ==
    /\ ~QueueEnabled
    /\ stripe[e] = "due"
    /\ handler[w] = NoEvent
    /\ handler' = [handler EXCEPT ![w] = e]
    /\ UNCHANGED <<stripe, job, attempts, stalls, faults, crashes>>

Take(w, e) ==
    /\ job[e] = "waiting"
    /\ handler[w] = NoEvent
    /\ job' = [job EXCEPT ![e] = "active"]
    /\ handler' = [handler EXCEPT ![w] = e]
    /\ UNCHANGED <<stripe, attempts, stalls, faults, crashes>>

\* The handler returned.
Finish(w) ==
    /\ handler[w] # NoEvent
    /\ handler' = [handler EXCEPT ![w] = NoEvent]
    /\ IF QueueEnabled
       THEN /\ job' = [job EXCEPT ![handler[w]] = "none"]
            /\ UNCHANGED <<stripe, faults>>
       ELSE Answer(handler[w]) /\ UNCHANGED job
    /\ UNCHANGED <<attempts, stalls, crashes>>

\* MUTANT of EndAttempt: the request answers 200 although the handler threw.
EndAttemptAnswered(w) ==
    /\ handler[w] # NoEvent
    /\ handler' = [handler EXCEPT ![w] = NoEvent]
    /\ stripe' = [stripe EXCEPT ![handler[w]] = "acked"]
    /\ UNCHANGED <<job, attempts, stalls, crashes>>

\* The handler threw: retry until the attempts are used up, or answer 500.
EndAttempt(w) ==
    /\ handler[w] # NoEvent
    /\ handler' = [handler EXCEPT ![w] = NoEvent]
    /\ IF QueueEnabled
       THEN /\ attempts' = [attempts EXCEPT ![handler[w]] = @ + 1]
            /\ job' = [job EXCEPT ![handler[w]] =
                IF attempts[handler[w]] + 1 < MaxAttempts THEN "waiting" ELSE "failed"]
       ELSE UNCHANGED <<job, attempts>>
    /\ UNCHANGED <<stripe, stalls, crashes>>

\* The process that runs the handlers dies; its active jobs are found stalled.
Crash ==
    /\ crashes < MaxCrashes
    /\ crashes' = crashes + 1
    /\ handler' = [w \in Worker |-> NoEvent]
    /\ job' = [e \in Event |-> IF job[e] # "active" THEN job[e]
                               ELSE IF stalls[e] = 0 THEN "waiting" ELSE "failed"]
    /\ stalls' = [e \in Event |-> IF job[e] = "active" THEN 1 ELSE stalls[e]]
    /\ UNCHANGED <<stripe, attempts, faults>>
=============================================================================
