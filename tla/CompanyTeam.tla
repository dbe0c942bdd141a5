---------------------------- MODULE CompanyTeam ----------------------------
(***************************************************************************)
(* Company invites, and who belongs to which company.                       *)
(*                                                                          *)
(* Accepting an invite is five statements or transactions: the row is read, *)
(* the code consumed, the seats counted, the member read and the invite and *)
(* the member written.  Revocation and the admins' changes are decided on a *)
(* row that was read and written by id.                                     *)
(*                                                                          *)
(* The admin of a company who acts here is none of User.  Roles, mails and  *)
(* tokens of invites are left out: a call names the invite it is about.     *)
(***************************************************************************)
EXTENDS Sessions

CONSTANTS
    Company,
    NoCompany,
    Invite,
    SeatLimit       \* TEAM_MEMBERS of the companies' plan, beyond the admin

ASSUME TeamAssumption ==
    NoCompany \notin Company /\ Company # {} /\ SeatLimit \in Nat

VARIABLES
    member,         \* companyId of each user
    invite          \* CompanyInvite rows; "joins" counts acceptances (history)

teamVars == <<member, invite>>

InviteRow == [status: {"NONE", "PENDING", "ACCEPTED", "REVOKED", "EXPIRED"},
              company: Company, to: User, late: BOOLEAN, joins: Nat]
TeamCall ==
    [op: {"invite"}, u: User, co: Company]
    \cup [op: {"accept"}, u: User, i: Invite, c: Challenge]
    \cup [op: {"seat", "member", "join"}, u: User, i: Invite]
    \cup [op: {"revoke"}, i: Invite]
    \cup [op: {"membership"}, u: User, co: Company \cup {NoCompany}]

TeamInit ==
    /\ member = [u \in User |-> NoCompany]
    /\ invite = [i \in Invite |-> [status |-> "NONE", company |-> CHOOSE co \in Company : TRUE,
                                   to |-> CHOOSE u \in User : TRUE, late |-> FALSE, joins |-> 0]]

TeamRest == UNCHANGED <<otpVars, sessionVars>>

\* getUsage of TEAM_MEMBERS.
SeatsTaken(co) == Cardinality({u \in User : member[u] = co /\ IsActive(u)})

-----------------------------------------------------------------------------
(* POST /company-invites.                                                  *)

BeginInvite(k, co, u) ==
    /\ SeatsTaken(co) < SeatLimit
    /\ Begin(k, [op |-> "invite", u |-> u, co |-> co])
    /\ UNCHANGED teamVars /\ TeamRest

CreateInvite(k, i) ==
    /\ call[k].op = "invite"
    /\ invite[i].status = "NONE"
    /\ invite' = [invite EXCEPT ![i] = [status |-> "PENDING", company |-> call[k].co,
                                        to |-> call[k].u, late |-> FALSE, joins |-> 0]]
    /\ Return(k)
    /\ UNCHANGED member /\ TeamRest

InviteRunsOut(i) ==
    /\ invite[i].status = "PENDING" /\ ~invite[i].late
    /\ invite' = [invite EXCEPT ![i].late = TRUE]
    /\ UNCHANGED <<member, call>> /\ TeamRest

\* markInviteExpired, by a preview or an acceptance that comes too late.
ExpireInvite(i) ==
    /\ invite[i].status = "PENDING" /\ invite[i].late
    /\ invite' = [invite EXCEPT ![i].status = "EXPIRED"]
    /\ UNCHANGED <<member, call>> /\ TeamRest

BeginRevokeInvite(k, i) ==
    /\ invite[i].status = "PENDING"
    /\ Begin(k, [op |-> "revoke", i |-> i])
    /\ UNCHANGED teamVars /\ TeamRest

\* revokeInvite, by id: also an invite that was accepted meanwhile.
CommitRevokeInvite(k) ==
    /\ call[k].op = "revoke"
    /\ invite' = [invite EXCEPT ![call[k].i].status = "REVOKED"]
    /\ Return(k)
    /\ UNCHANGED member /\ TeamRest

-----------------------------------------------------------------------------
(* POST /company-invites/accept.                                           *)

BeginAccept(k, u, i, c) ==
    /\ IsActive(u)
    /\ invite[i].status = "PENDING" /\ ~invite[i].late
    /\ invite[i].to = u
    /\ Begin(k, [op |-> "accept", u |-> u, i |-> i, c |-> c])
    /\ UNCHANGED teamVars /\ TeamRest

\* The code is spent even if the acceptance fails after it.
ConsumeInviteOtp(k) ==
    /\ call[k].op = "accept"
    /\ Consume(call[k].c, "INVITE_ACCEPT", call[k].u)
    /\ GoOn(k, [op |-> "seat", u |-> call[k].u, i |-> call[k].i])
    /\ UNCHANGED <<sessionVars, teamVars>>

CheckSeat(k) ==
    /\ call[k].op = "seat"
    /\ SeatsTaken(invite[call[k].i].company) < SeatLimit
    /\ GoOn(k, [call[k] EXCEPT !.op = "member"])
    /\ UNCHANGED teamVars /\ TeamRest

ReadMember(k) ==
    /\ call[k].op = "member"
    /\ member[call[k].u] \in {NoCompany, invite[call[k].i].company}
    /\ GoOn(k, [call[k] EXCEPT !.op = "join"])
    /\ UNCHANGED teamVars /\ TeamRest

Join(k) ==
    LET u == call[k].u
        i == call[k].i
    IN  /\ call[k].op = "join"
        /\ invite' = [invite EXCEPT ![i].status = "ACCEPTED", ![i].joins = @ + 1]
        /\ member' = [member EXCEPT ![u] = invite[i].company]
        /\ Return(k)
        /\ TeamRest

\* MUTANT of CommitAccept: the invite is updated by id.
CommitAcceptById(k) == Join(k)

\* acceptInvite: the UPDATE repeats the status and the expiry.
CommitAccept(k) ==
    /\ call[k].op = "join"
    /\ invite[call[k].i].status = "PENDING" /\ ~invite[call[k].i].late
    /\ Join(k)

-----------------------------------------------------------------------------
(* PATCH /users/:userId/membership, by the admin of company "by".          *)

BeginUpdateMembership(k, by, u, co) ==
    /\ user[u].exists /\ ~user[u].deleted
    /\ member[u] \in {NoCompany, by}
    /\ co \in {NoCompany, by}
    /\ Begin(k, [op |-> "membership", u |-> u, co |-> co])
    /\ UNCHANGED teamVars /\ TeamRest

CommitUpdateMembership(k) ==
    /\ call[k].op = "membership"
    /\ member' = [member EXCEPT ![call[k].u] = call[k].co]
    /\ Return(k)
    /\ UNCHANGED invite /\ TeamRest

\* POST /users/:userId/restore is for the admin of the user's company.
RestoreMember(k, u) == member[u] # NoCompany /\ BeginRestoreUser(k, u) /\ UNCHANGED teamVars

TeamStep ==
    \/ \E k \in Caller, co \in Company, u \in User :
         \/ BeginInvite(k, co, u)
         \/ \E to \in {co, NoCompany} : BeginUpdateMembership(k, co, u, to)
    \/ \E k \in Caller, i \in Invite :
         \/ CreateInvite(k, i) \/ BeginRevokeInvite(k, i)
         \/ \E u \in User, c \in Challenge : BeginAccept(k, u, i, c)
    \/ \E i \in Invite : InviteRunsOut(i) \/ ExpireInvite(i)
    \/ \E k \in Caller :
         \/ CommitRevokeInvite(k) \/ ConsumeInviteOtp(k) \/ CheckSeat(k) \/ ReadMember(k)
         \/ CommitAccept(k) \/ CommitUpdateMembership(k)
    \/ \E k \in Caller, u \in User : RestoreMember(k, u)

-----------------------------------------------------------------------------

\* An invite is single-use: it lets one acceptance through, whatever else is
\* accepted, revoked or expires at the same time.
InviteUsedOnce == \A i \in Invite : invite[i].joins <= 1
=============================================================================
