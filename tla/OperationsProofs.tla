--------------------------- MODULE OperationsProofs ---------------------------
(***************************************************************************)
(* Proofs about VehicleAssignments, for any number of vehicles, drivers,   *)
(* assignments, overlapping requests and instants, and about the           *)
(* composition MCOperations, whose behaviours are behaviours of each of    *)
(* its five components.                                                    *)
(*                                                                         *)
(* What a request has checked may be out of date when it writes; the proof *)
(* needs of it only that the row it names exists.  That drivers are in one *)
(* place at a time rests on the statement, and that the check agrees with  *)
(* the statement on arithmetic (OverlapIsArithmetic).                      *)
(***************************************************************************)
EXTENDS MCOperations, MeteringProofs, WorkerProofs, TLAPS

-----------------------------------------------------------------------------
(* Vehicle assignments.                                                    *)

\* A request to change a row names one that was created, and rows never go.
RowsAreThere ==
    \A k \in Dispatcher :
      request[k].op \in {"update", "remove", "restore"} => assignment[request[k].id] # NoRow

\* No driver in two places, no window turned round.
PlacesAndWindows ==
    /\ \A a, b \in Rows :
         a # b /\ assignment[a].driver = assignment[b].driver
           => ~Overlap(assignment[a], assignment[b])
    /\ \A a \in Rows : assignment[a].startsAt < assignment[a].endsAt

Plans ==
    {NoPlan}
    \cup [op : {"create"}, id : Assignment, row : Row]
    \cup [op : {"update"}, id : Assignment, body : Patch]
    \cup [op : {"remove", "restore"}, id : Assignment]

RequestsFit == \A k \in Dispatcher : request[k] \in Plans
\* AssignmentTypeOK leaves open what request is outside Dispatcher; it is a
\* function on it.
RequestIsMap == request = [k \in Dispatcher |-> request[k]]

AssignmentInv ==
    /\ assignment \in [Assignment -> Row \cup {NoRow}]
    /\ fleet \subseteq Vehicle
    /\ crew \subseteq Driver
    /\ RequestIsMap /\ RequestsFit
    /\ RowsAreThere
    /\ PlacesAndWindows

-----------------------------------------------------------------------------
(* Windows.                                                                *)

\* Two windows share an instant exactly when each begins before the other
\* ends: the service's comparison and PostgreSQL's && are the same.
LEMMA OverlapIsArithmetic ==
    ASSUME NEW r, NEW s,
           r.startsAt \in Instant, r.endsAt \in End, s.startsAt \in Instant, s.endsAt \in End,
           r.startsAt < r.endsAt, s.startsAt < s.endsAt
    PROVE  Overlap(r, s) <=> r.startsAt < s.endsAt /\ s.startsAt < r.endsAt
<1> USE AssignmentAssumption DEF Instant, End, Infinity
<1>1. ASSUME Overlap(r, s) PROVE r.startsAt < s.endsAt /\ s.startsAt < r.endsAt
  BY <1>1 DEF Overlap
<1>2. ASSUME r.startsAt < s.endsAt, s.startsAt < r.endsAt PROVE Overlap(r, s)
  <2> DEFINE t == IF r.startsAt < s.startsAt THEN s.startsAt ELSE r.startsAt
  <2>1. t \in Instant /\ t \in r.startsAt .. r.endsAt - 1 /\ t \in s.startsAt .. s.endsAt - 1
    BY <1>2
  <2> QED BY <2>1 DEF Overlap
<1> QED BY <1>1, <1>2

LEMMA RowFields ==
    ASSUME AssignmentInv, NEW a \in Rows
    PROVE  /\ a \in Assignment
           /\ assignment[a] \in Row
           /\ assignment[a].startsAt \in Instant /\ assignment[a].endsAt \in End
           /\ assignment[a].startsAt < assignment[a].endsAt
BY DEF AssignmentInv, Rows, Row, NoRow, PlacesAndWindows

\* What the service looks for is what the database refuses.
LEMMA CheckAgrees ==
    ASSUME AssignmentInv, NEW a \in Assignment, NEW d \in Driver, NEW s \in Instant, NEW e \in End,
           s < e, NEW v
    PROVE  HasDriverOverlap(d, s, e, {a})
             <=> ~Permits(a, [state |-> "active", vehicle |-> v, driver |-> d,
                              startsAt |-> s, endsAt |-> e])
<1> DEFINE row == [state |-> "active", vehicle |-> v, driver |-> d, startsAt |-> s, endsAt |-> e]
<1>1. ASSUME NEW b \in Rows \ {a}
      PROVE  Overlap(assignment[b], row) <=>
               /\ assignment[b].startsAt < e
               /\ assignment[b].endsAt = Infinity \/ assignment[b].endsAt > s
  <2>1. /\ assignment[b].startsAt \in Instant /\ assignment[b].endsAt \in End
        /\ assignment[b].startsAt < assignment[b].endsAt
    BY RowFields
  <2>2. row.startsAt = s /\ row.endsAt = e
    OBVIOUS
  <2>3. Overlap(assignment[b], row) <=> assignment[b].startsAt < e /\ s < assignment[b].endsAt
    <3>1. row.startsAt \in Instant /\ row.endsAt \in End /\ row.startsAt < row.endsAt
      BY <2>2
    <3> HIDE DEF row
    <3> QED BY <2>1, <2>2, <3>1, OverlapIsArithmetic
  <2>4. assignment[b].endsAt = Infinity => s < assignment[b].endsAt
    BY AssignmentAssumption DEF Instant, Infinity
  <2>5. assignment[b].endsAt \in Int /\ s \in Int
    BY <2>1, AssignmentAssumption DEF Instant, End, Infinity
  <2> QED BY <2>3, <2>4, <2>5
<1>2. Permits(a, row) <=>
        \A b \in Rows \ {a} : assignment[b].driver = d => ~Overlap(assignment[b], row)
  BY DEF Permits
<1> HIDE DEF row
<1>3. HasDriverOverlap(d, s, e, {a}) <=>
        \E b \in Rows \ {a} : assignment[b].driver = d /\ Overlap(assignment[b], row)
  BY <1>1 DEF HasDriverOverlap
<1>4. HasDriverOverlap(d, s, e, {a}) <=> ~Permits(a, row)
  BY <1>2, <1>3
<1> QED BY <1>4 DEF row

-----------------------------------------------------------------------------
(* Writes.                                                                 *)

\* A row that is patched is a row of the same state.
LEMMA PatchedRow ==
    ASSUME NEW r \in Row, NEW body \in Patch
    PROVE  Patched(r, body) \in Row
<1> DEFINE p == Patched(r, body)
<1>1. /\ DOMAIN r = {"state", "vehicle", "driver", "startsAt", "endsAt"}
      /\ DOMAIN body = {"vehicle", "driver", "startsAt", "endsAt"}
  BY DEF Row, Patch
<1>2. /\ r.state \in {"active", "deleted"} /\ r.vehicle \in Vehicle /\ r.driver \in Driver
      /\ r.startsAt \in Instant /\ r.endsAt \in End
  BY DEF Row
<1>3. /\ body.vehicle \in Vehicle \cup {NoChange} /\ body.driver \in Driver \cup {NoChange}
      /\ body.startsAt \in Instant \cup {NoChange} /\ body.endsAt \in End \cup {NoChange}
  BY DEF Patch
<1>4. p = [f \in {"state", "vehicle", "driver", "startsAt", "endsAt"} |->
             IF f \in DOMAIN body /\ body[f] # NoChange THEN body[f] ELSE r[f]]
  BY <1>1 DEF Patched
<1>5. /\ p.state = r.state
      /\ p.vehicle = IF body.vehicle # NoChange THEN body.vehicle ELSE r.vehicle
      /\ p.driver = IF body.driver # NoChange THEN body.driver ELSE r.driver
      /\ p.startsAt = IF body.startsAt # NoChange THEN body.startsAt ELSE r.startsAt
      /\ p.endsAt = IF body.endsAt # NoChange THEN body.endsAt ELSE r.endsAt
  BY <1>1, <1>4
<1>6. /\ p.state \in {"active", "deleted"} /\ p.vehicle \in Vehicle /\ p.driver \in Driver
      /\ p.startsAt \in Instant /\ p.endsAt \in End
  BY <1>2, <1>3, <1>5
<1>7. p = [state |-> p.state, vehicle |-> p.vehicle, driver |-> p.driver,
           startsAt |-> p.startsAt, endsAt |-> p.endsAt]
  BY <1>4
<1> HIDE DEF p
<1>8. p \in Row
  BY <1>6, <1>7 DEF Row
<1> QED BY <1>8 DEF p

\* A statement either changes one row to one that fits, or nothing.
LEMMA PutKeeps ==
    ASSUME AssignmentInv, NEW k \in Dispatcher, NEW r \in Row,
           request[k].id \in Assignment, Put(k, r)
    PROVE  AssignmentInv'
<1> DEFINE id == request[k].id
<1>1. /\ assignment' = IF Permits(id, r) THEN [assignment EXCEPT ![id] = r] ELSE assignment
      /\ request' = [request EXCEPT ![k] = NoPlan]
      /\ fleet' = fleet /\ crew' = crew
  BY DEF Put
<1>2. assignment' \in [Assignment -> Row \cup {NoRow}]
  BY <1>1 DEF AssignmentInv
<1>3. RequestIsMap' /\ RequestsFit'
  BY <1>1 DEF AssignmentInv, RequestIsMap, RequestsFit, Plans
<1>4. RowsAreThere'
  <2>1. r # NoRow
    BY DEF Row, NoRow
  <2>2. \A a \in Assignment : assignment[a] # NoRow => assignment'[a] # NoRow
    BY <1>1, <2>1 DEF AssignmentInv
  <2>3. \A j \in Dispatcher : request'[j] = request[j] \/ request'[j] = NoPlan
    BY <1>1 DEF AssignmentInv, RequestIsMap
  <2>4. ASSUME NEW j \in Dispatcher, request[j].op \in {"update", "remove", "restore"}
        PROVE  request[j].id \in Assignment
    BY <2>4 DEF AssignmentInv, RequestsFit, Plans, NoPlan
  <2> QED BY <2>2, <2>3, <2>4 DEF AssignmentInv, RowsAreThere, NoPlan
<1>5. PlacesAndWindows'
  <2>1. CASE ~Permits(id, r)
    BY <1>1, <2>1 DEF AssignmentInv, PlacesAndWindows, Rows, Overlap
  <2>2. CASE Permits(id, r)
    <3>1. \A a \in Assignment : assignment'[a] = IF a = id THEN r ELSE assignment[a]
      BY <1>1, <2>2 DEF AssignmentInv
    <3>2. Rows' \ {id} = Rows \ {id}
      BY <3>1 DEF Rows
    <3>3. r.startsAt < r.endsAt
      BY <2>2 DEF Permits
    <3>4. \A b \in Rows \ {id} : r.state = "active" /\ assignment[b].driver = r.driver
             => ~Overlap(assignment[b], r) /\ ~Overlap(r, assignment[b])
      BY <2>2 DEF Permits, Overlap
    <3>5. \A a \in Rows' : a \in Assignment /\ (a = id => r.state = "active")
      BY <3>1 DEF Rows
    <3>6. ASSUME NEW a \in Rows', NEW b \in Rows', a # b,
                 assignment'[a].driver = assignment'[b].driver
          PROVE  ~Overlap(assignment'[a], assignment'[b])
      <4>1. CASE a = id
        BY <3>1, <3>2, <3>4, <3>5, <3>6, <4>1
      <4>2. CASE b = id
        BY <3>1, <3>2, <3>4, <3>5, <3>6, <4>2
      <4>3. CASE a # id /\ b # id
        BY <3>1, <3>2, <3>5, <3>6, <4>3 DEF AssignmentInv, PlacesAndWindows
      <4> QED BY <4>1, <4>2, <4>3
    <3>7. \A a \in Rows' : assignment'[a].startsAt < assignment'[a].endsAt
      BY <3>1, <3>2, <3>3, <3>5 DEF AssignmentInv, PlacesAndWindows
    <3>8. \A a, b \in Rows' : a # b /\ assignment'[a].driver = assignment'[b].driver
             => ~Overlap(assignment'[a], assignment'[b])
      BY <3>6
    <3> QED BY <3>7, <3>8 DEF PlacesAndWindows, Overlap
  <2> QED BY <2>1, <2>2
<1> QED BY <1>1, <1>2, <1>3, <1>4, <1>5 DEF AssignmentInv

LEMMA WriteSteps ==
    ASSUME AssignmentInv, NEW k \in Dispatcher, AssignmentWrite(k)
    PROVE  AssignmentInv'
<1>1. CASE CommitCreate(k)
  <2>1. request[k].id \in Assignment /\ request[k].row \in Row
    BY <1>1 DEF AssignmentInv, RequestsFit, Plans, NoPlan, CommitCreate
  <2> QED BY <1>1, <2>1, PutKeeps DEF CommitCreate
<1>2. CASE CommitUpdate(k)
  <2>1. request[k].id \in Assignment /\ request[k].body \in Patch
    BY <1>2 DEF AssignmentInv, RequestsFit, Plans, NoPlan, CommitUpdate
  <2>2. assignment[request[k].id] \in Row
    BY <1>2, <2>1 DEF AssignmentInv, RowsAreThere, CommitUpdate
  <2> QED BY <1>2, <2>1, <2>2, PatchedRow, PutKeeps DEF CommitUpdate
<1>3. CASE CommitRemove(k)
  <2>1. request[k].id \in Assignment
    BY <1>3 DEF AssignmentInv, RequestsFit, Plans, NoPlan, CommitRemove
  <2>2. assignment[request[k].id] \in Row
    BY <1>3, <2>1 DEF AssignmentInv, RowsAreThere, CommitRemove
  <2>3. [assignment[request[k].id] EXCEPT !.state = "deleted"] \in Row
    BY <2>2 DEF Row
  <2> QED BY <1>3, <2>1, <2>3, PutKeeps DEF CommitRemove
<1>4. CASE CommitRestore(k)
  <2>1. request[k].id \in Assignment
    BY <1>4 DEF AssignmentInv, RequestsFit, Plans, NoPlan, CommitRestore
  <2>2. assignment[request[k].id] \in Row
    BY <1>4, <2>1 DEF AssignmentInv, RowsAreThere, CommitRestore
  <2>3. [assignment[request[k].id] EXCEPT !.state = "active"] \in Row
    BY <2>2 DEF Row
  <2> QED BY <1>4, <2>1, <2>3, PutKeeps DEF CommitRestore
<1>5. CASE DropPlan(k)
  <2>1. \A j \in Dispatcher : request'[j] = request[j] \/ request'[j] = NoPlan
    BY <1>5 DEF AssignmentInv, RequestIsMap, DropPlan
  <2>2. RequestIsMap' /\ RequestsFit'
    BY <1>5 DEF AssignmentInv, RequestIsMap, RequestsFit, Plans, DropPlan
  <2>3. RowsAreThere'
    BY <1>5, <2>1 DEF AssignmentInv, RowsAreThere, DropPlan, NoPlan
  <2>4. PlacesAndWindows'
    BY <1>5 DEF AssignmentInv, PlacesAndWindows, Rows, Overlap, DropPlan
  <2> QED BY <1>5, <2>2, <2>3, <2>4 DEF AssignmentInv, DropPlan
<1> QED BY <1>1, <1>2, <1>3, <1>4, <1>5 DEF AssignmentWrite

-----------------------------------------------------------------------------
(* Checks, and the fleet.                                                  *)

LEMMA PlanKeeps ==
    ASSUME AssignmentInv, NEW k \in Dispatcher, NEW p \in Plans, Plan(k, p),
           p.op \in {"update", "remove", "restore"} => assignment[p.id] # NoRow
    PROVE  AssignmentInv'
<1>1. \A j \in Dispatcher : request'[j] = IF j = k THEN p ELSE request[j]
  BY DEF AssignmentInv, RequestIsMap, Plan
<1>2. RequestIsMap' /\ RequestsFit'
  BY <1>1 DEF AssignmentInv, RequestIsMap, RequestsFit, Plan
<1>3. RowsAreThere'
  BY <1>1 DEF AssignmentInv, RowsAreThere, Plan
<1>4. PlacesAndWindows'
  BY DEF AssignmentInv, PlacesAndWindows, Rows, Overlap, Plan
<1> QED BY <1>2, <1>3, <1>4 DEF AssignmentInv, Plan

LEMMA RequestSteps ==
    ASSUME AssignmentInv, NEW k \in Dispatcher, NEW a \in Assignment, AssignmentRequest(k, a)
    PROVE  AssignmentInv'
<1>1. ASSUME NEW v \in Vehicle, NEW d \in Driver, NEW s \in Instant, NEW e \in End,
             PlanCreate(k, a, v, d, s, e)
      PROVE  AssignmentInv'
  <2> DEFINE row == [state |-> "active", vehicle |-> v, driver |-> d, startsAt |-> s, endsAt |-> e]
             p == [op |-> "create", id |-> a, row |-> row]
  <2>1. row \in Row
    BY DEF Row
  <2>2. Plan(k, p)
    BY <1>1 DEF PlanCreate
  <2> HIDE DEF row
  <2>3. p \in Plans /\ p.op = "create"
    BY <2>1 DEF Plans
  <2> HIDE DEF p
  <2> QED BY <2>2, <2>3, PlanKeeps
<1>2. ASSUME NEW body \in Patch, PlanUpdate(k, a, body)
      PROVE  AssignmentInv'
  <2> DEFINE p == [op |-> "update", id |-> a, body |-> body]
  <2>1. p \in Plans /\ p.id = a
    BY DEF Plans
  <2>2. Plan(k, p) /\ assignment[a] # NoRow
    BY <1>2 DEF PlanUpdate, NoRow
  <2> HIDE DEF p
  <2> QED BY <2>1, <2>2, PlanKeeps
<1>3. CASE PlanRemove(k, a)
  <2> DEFINE p == [op |-> "remove", id |-> a]
  <2>1. p \in Plans /\ p.id = a
    BY DEF Plans
  <2>2. Plan(k, p) /\ assignment[a] # NoRow
    BY <1>3 DEF PlanRemove, NoRow
  <2> HIDE DEF p
  <2> QED BY <2>1, <2>2, PlanKeeps
<1>4. CASE PlanRestore(k, a)
  <2> DEFINE p == [op |-> "restore", id |-> a]
  <2>1. p \in Plans /\ p.id = a
    BY DEF Plans
  <2>2. Plan(k, p) /\ assignment[a] # NoRow
    BY <1>4 DEF PlanRestore, NoRow
  <2> HIDE DEF p
  <2> QED BY <2>1, <2>2, PlanKeeps
<1> QED BY <1>1, <1>2, <1>3, <1>4 DEF AssignmentRequest

\* The assignments of a vehicle or driver that leaves stay as they are.
LEMMA FleetSteps ==
    ASSUME AssignmentInv, FleetStep
    PROVE  AssignmentInv'
<1>1. UNCHANGED <<assignment, request>> /\ fleet' \subseteq Vehicle /\ crew' \subseteq Driver
  BY DEF AssignmentInv, FleetStep, RemoveVehicle, RestoreVehicle, RemoveDriver, RestoreDriver
<1> QED BY <1>1 DEF AssignmentInv, RequestIsMap, RequestsFit, RowsAreThere, PlacesAndWindows,
                    Rows, Overlap

LEMMA AssignmentInitInv == AssignmentInit => AssignmentInv
<1> SUFFICES ASSUME AssignmentInit PROVE AssignmentInv
  OBVIOUS
<1>1. Rows = {}
  BY DEF AssignmentInit, Rows, NoRow
<1>2. RequestIsMap /\ RequestsFit /\ RowsAreThere
  BY DEF AssignmentInit, RequestIsMap, RequestsFit, Plans, RowsAreThere, NoPlan
<1> QED BY <1>1, <1>2 DEF AssignmentInit, AssignmentInv, PlacesAndWindows

LEMMA AssignmentStep == AssignmentInv /\ [AssignmentNext]_assignmentVars => AssignmentInv'
<1> SUFFICES ASSUME AssignmentInv, [AssignmentNext]_assignmentVars PROVE AssignmentInv'
  OBVIOUS
<1>1. CASE AssignmentNext
  BY <1>1, WriteSteps, RequestSteps, FleetSteps DEF AssignmentNext
<1>2. CASE UNCHANGED assignmentVars
  BY <1>2 DEF assignmentVars, AssignmentInv, RequestIsMap, RequestsFit, RowsAreThere,
              PlacesAndWindows, Rows, Overlap
<1> QED BY <1>1, <1>2

LEMMA InvGivesSound == AssignmentInv => AssignmentsAreSound
<1> SUFFICES ASSUME AssignmentInv PROVE AssignmentsAreSound
  OBVIOUS
<1>1. \A a \in Assignment, d \in Driver, s \in Instant, e \in End :
        s < e =>
          LET row == [state |-> "active", vehicle |-> CHOOSE v \in Vehicle : TRUE,
                      driver |-> d, startsAt |-> s, endsAt |-> e]
          IN  HasDriverOverlap(d, s, e, {a}) <=> ~Permits(a, row)
  BY CheckAgrees
<1> QED BY <1>1 DEF AssignmentInv, PlacesAndWindows, AssignmentsAreSound

-----------------------------------------------------------------------------

\* Every row is created whole and patched field by field into a row again.
THEOREM AssignmentTypeCorrect == AssignmentSpec => []AssignmentTypeOK
<1>1. AssignmentInv => AssignmentTypeOK
  BY DEF AssignmentInv, RequestsFit, Plans, AssignmentTypeOK
<1> QED BY AssignmentInitInv, AssignmentStep, <1>1, PTL DEF AssignmentSpec

\* However requests overlap, no driver is in two places at a time, and what
\* the service looks for before it writes is what the database refuses.
THEOREM DriversAreInOnePlace == AssignmentSpec => []AssignmentsAreSound
BY AssignmentInitInv, AssignmentStep, InvGivesSound, PTL DEF AssignmentSpec

-----------------------------------------------------------------------------
(* The composition.                                                        *)

\* Every component starts as it does alone.
LEMMA PartsInit ==
  ASSUME MCInit
  PROVE  PublishingInit /\ ApplicationsInit /\ VerificationInit /\ AssignmentInit
         /\ NotificationsInit
BY DEF MCInit

\* A step of the composition is a step of one component, and the others
\* stutter.
LEMMA PartsStep ==
  ASSUME [MCNext]_mcVars
  PROVE  /\ [PublishingNext]_publishingVars
         /\ [ApplicationsNext]_applicationVars
         /\ [VerificationNext]_verificationVars
         /\ [AssignmentNext]_assignmentVars
         /\ [NotificationsNext]_notificationVars
<1>1. CASE MCPublishing  BY <1>1 DEF MCPublishing
<1>2. CASE MCApplications  BY <1>2 DEF MCApplications
<1>3. CASE MCVerification  BY <1>3 DEF MCVerification
<1>4. CASE MCAssignments  BY <1>4 DEF MCAssignments
<1>5. CASE MCNotifications  BY <1>5 DEF MCNotifications
<1>6. CASE UNCHANGED mcVars  BY <1>6 DEF mcVars
<1> QED BY <1>1, <1>2, <1>3, <1>4, <1>5, <1>6 DEF MCNext

\* The composition adds nothing to its components: what it does of each is
\* what that component does alone, so the bounds of the run take behaviours
\* away and add none.
THEOREM OperationsImplementParts ==
    MCSpec => PublishingSpec /\ ApplicationsSpec /\ VerificationSpec /\ AssignmentSpec
              /\ NotificationsSpec
BY PartsInit, PartsStep, PTL
   DEF MCSpec, PublishingSpec, ApplicationsSpec, VerificationSpec, AssignmentSpec,
       NotificationsSpec

\* Every component of the composition stays in its types.
THEOREM OperationsTypeCorrect == MCSpec => []OperationsTypeOK
<1>1. PublishingTypeOK /\ ApplicationsTypeOK /\ NotificationsTypeOK /\ VerificationTypeOK
      /\ AssignmentTypeOK => OperationsTypeOK
  BY DEF OperationsTypeOK
<1> QED BY OperationsImplementParts, PublishingTypeCorrect, ApplicationsTypeCorrect,
           NotificationsTypeCorrect, VerificationTypeCorrect, AssignmentTypeCorrect, <1>1, PTL
=============================================================================
