------------------------- MODULE VehicleAssignments -------------------------
(***************************************************************************)
(* The assignments of one company's drivers to its vehicles.  A request    *)
(* looks for an overlapping assignment of the driver and then writes; the  *)
(* database has the last word, with a CHECK on the window and an exclusion *)
(* constraint on (driver, [startsAt, endsAt)) over the active rows.  A     *)
(* PATCH writes only the fields it gives, and is checked with the others   *)
(* as they were read.                                                      *)
(*                                                                         *)
(* Time is cut into a few instants before the year 9999, which the check   *)
(* takes for infinity.  A job seeker and a vehicle of their own are a      *)
(* company with one driver.                                                *)
(***************************************************************************)
EXTENDS Integers

CONSTANTS
    Vehicle, Driver, NoChange,
    Assignment,         \* ids, each created once
    Dispatcher,         \* requests that may be under way at a time
    LastInstant         \* bound on startsAt and endsAt

ASSUME AssignmentAssumption == LastInstant \in Nat /\ NoChange \notin Vehicle \cup Driver \cup Int

VARIABLES
    assignment,     \* rows
    fleet,          \* vehicles that are not deleted
    crew,           \* active users who are drivers of the company
    request         \* what each request has checked and is about to write

assignmentVars == <<assignment, fleet, crew, request>>

Instant == 0 .. LastInstant
Infinity == LastInstant + 1     \* endsAt = null
End == Instant \cup {Infinity}

NoRow == [state |-> "none"]
NoPlan == [op |-> "none"]
Row == [state : {"active", "deleted"}, vehicle : Vehicle, driver : Driver,
        startsAt : Instant, endsAt : End]
\* The body of a PATCH, which gives at least one field.
Patch == {b \in [vehicle : Vehicle \cup {NoChange}, driver : Driver \cup {NoChange},
                 startsAt : Instant \cup {NoChange}, endsAt : End \cup {NoChange}] :
            \E f \in DOMAIN b : b[f] # NoChange}

AssignmentTypeOK ==
    /\ assignment \in [Assignment -> Row \cup {NoRow}]
    /\ fleet \subseteq Vehicle
    /\ crew \subseteq Driver
    /\ \A k \in Dispatcher :
         request[k] \in {NoPlan}
                        \cup [op : {"create"}, id : Assignment, row : Row]
                        \cup [op : {"update"}, id : Assignment, body : Patch]
                        \cup [op : {"remove", "restore"}, id : Assignment]

AssignmentInit ==
    /\ assignment = [a \in Assignment |-> NoRow]
    /\ fleet = Vehicle
    /\ crew = Driver
    /\ request = [k \in Dispatcher |-> NoPlan]

Rows == {a \in Assignment : assignment[a].state = "active"}

\* MUTANT of HasDriverOverlap: windows that touch overlap.
HasDriverOverlapTouching(driver, startsAt, endsAt, except) ==
    \E a \in Rows \ except :
      /\ assignment[a].driver = driver
      /\ assignment[a].startsAt <= endsAt /\ assignment[a].endsAt >= startsAt

HasDriverOverlap(driver, startsAt, endsAt, except) ==
    \E a \in Rows \ except :
      /\ assignment[a].driver = driver
      /\ assignment[a].startsAt < endsAt
      /\ assignment[a].endsAt = Infinity \/ assignment[a].endsAt > startsAt

\* assertCanMutateTarget, of a company's admin.
CanMutateTarget(vehicle, driver) == vehicle \in fleet /\ driver \in crew

Plan(k, p) ==
    /\ request' = [request EXCEPT ![k] = p]
    /\ UNCHANGED <<assignment, fleet, crew>>

-----------------------------------------------------------------------------
(* Checks.                                                                 *)

\* validateWindow.
PlanCreate(k, a, vehicle, driver, startsAt, endsAt) ==
    /\ assignment[a] = NoRow /\ \A j \in Dispatcher : request[j] # NoPlan => request[j].id # a
    /\ startsAt < endsAt
    /\ CanMutateTarget(vehicle, driver)
    /\ ~HasDriverOverlap(driver, startsAt, endsAt, {})
    /\ Plan(k, [op |-> "create", id |-> a,
                row |-> [state |-> "active", vehicle |-> vehicle, driver |-> driver,
                         startsAt |-> startsAt, endsAt |-> endsAt]])

Patched(row, body) ==
    [f \in DOMAIN row |-> IF f \in DOMAIN body /\ body[f] # NoChange THEN body[f] ELSE row[f]]

PlanUpdate(k, a, body) ==
    /\ assignment[a].state = "active"
    /\ LET row == Patched(assignment[a], body)
       IN  /\ row.startsAt < row.endsAt
           /\ CanMutateTarget(row.vehicle, row.driver)
           /\ ~HasDriverOverlap(row.driver, row.startsAt, row.endsAt, {a})
    /\ Plan(k, [op |-> "update", id |-> a, body |-> body])

PlanRemove(k, a) ==
    assignment[a].state = "active" /\ Plan(k, [op |-> "remove", id |-> a])

\* Neither the vehicle nor the driver is looked at again.
PlanRestore(k, a) ==
    /\ assignment[a].state = "deleted"
    /\ ~HasDriverOverlap(assignment[a].driver, assignment[a].startsAt, assignment[a].endsAt, {a})
    /\ Plan(k, [op |-> "restore", id |-> a])

-----------------------------------------------------------------------------
(* Writes, by id.                                                          *)

\* [startsAt, endsAt) && [startsAt, endsAt) of PostgreSQL: some instant is in
\* both.
Overlap(r, s) ==
    \E t \in Instant : t \in (r.startsAt .. r.endsAt - 1) \cap (s.startsAt .. s.endsAt - 1)

\* The exclusion constraint and the CHECK.
Permits(a, row) ==
    /\ row.startsAt < row.endsAt
    /\ row.state = "active" =>
         \A b \in Rows \ {a} : assignment[b].driver = row.driver => ~Overlap(assignment[b], row)

\* A statement the database refuses is answered DRIVER_ALREADY_ASSIGNED.
Put(k, row) ==
    /\ assignment' = IF Permits(request[k].id, row)
                     THEN [assignment EXCEPT ![request[k].id] = row] ELSE assignment
    /\ request' = [request EXCEPT ![k] = NoPlan]
    /\ UNCHANGED <<fleet, crew>>

CommitCreate(k) == request[k].op = "create" /\ Put(k, request[k].row)

CommitUpdate(k) ==
    request[k].op = "update" /\ Put(k, Patched(assignment[request[k].id], request[k].body))

CommitRemove(k) ==
    request[k].op = "remove" /\ Put(k, [assignment[request[k].id] EXCEPT !.state = "deleted"])

CommitRestore(k) ==
    request[k].op = "restore" /\ Put(k, [assignment[request[k].id] EXCEPT !.state = "active"])

\* The process dies between the check and the write.
DropPlan(k) ==
    /\ request[k] # NoPlan
    /\ request' = [request EXCEPT ![k] = NoPlan]
    /\ UNCHANGED <<assignment, fleet, crew>>

-----------------------------------------------------------------------------
(* Vehicles and drivers come and go, and their assignments stay.           *)

RemoveVehicle(v) ==
    v \in fleet /\ fleet' = fleet \ {v} /\ UNCHANGED <<assignment, crew, request>>

RestoreVehicle(v) ==
    v \notin fleet /\ fleet' = fleet \cup {v} /\ UNCHANGED <<assignment, crew, request>>

RemoveDriver(d) == d \in crew /\ crew' = crew \ {d} /\ UNCHANGED <<assignment, fleet, request>>

RestoreDriver(d) ==
    d \notin crew /\ crew' = crew \cup {d} /\ UNCHANGED <<assignment, fleet, request>>

-----------------------------------------------------------------------------

AssignmentRequest(k, a) ==
    /\ request[k] = NoPlan
    /\ \/ \E v \in Vehicle, d \in Driver, s \in Instant, e \in End : PlanCreate(k, a, v, d, s, e)
       \/ \E body \in Patch : PlanUpdate(k, a, body)
       \/ PlanRemove(k, a) \/ PlanRestore(k, a)

AssignmentWrite(k) ==
    CommitCreate(k) \/ CommitUpdate(k) \/ CommitRemove(k) \/ CommitRestore(k) \/ DropPlan(k)

FleetStep ==
    \/ \E v \in Vehicle : RemoveVehicle(v) \/ RestoreVehicle(v)
    \/ \E d \in Driver : RemoveDriver(d) \/ RestoreDriver(d)

AssignmentNext ==
    \/ \E k \in Dispatcher : AssignmentWrite(k) \/ \E a \in Assignment : AssignmentRequest(k, a)
    \/ FleetStep

AssignmentSpec == AssignmentInit /\ [][AssignmentNext]_assignmentVars

-----------------------------------------------------------------------------

\* However PATCHes that give different fields overlap, no driver is in two
\* places at a time and no window is turned round; and what the service looks
\* for before it writes is what the database refuses: it neither turns away an
\* assignment that would be accepted, nor leaves the database to refuse one
\* that it could have seen.
AssignmentsAreSound ==
    /\ \A a, b \in Rows :
         a # b /\ assignment[a].driver = assignment[b].driver
           => ~Overlap(assignment[a], assignment[b])
    /\ \A a \in Rows : assignment[a].startsAt < assignment[a].endsAt
    /\ \A a \in Assignment, d \in Driver, s \in Instant, e \in End :
         s < e =>
           LET row == [state |-> "active", vehicle |-> CHOOSE v \in Vehicle : TRUE,
                       driver |-> d, startsAt |-> s, endsAt |-> e]
           IN  HasDriverOverlap(d, s, e, {a}) <=> ~Permits(a, row)
=============================================================================
