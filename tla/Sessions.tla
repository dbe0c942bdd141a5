------------------------------ MODULE Sessions ------------------------------
(***************************************************************************)
(* Users, their passwords and their sessions.                               *)
(*                                                                          *)
(* A login reads the user, checks the password (bcrypt, an await) and opens *)
(* a session later, with the tokenVersion it read; a refresh reads the      *)
(* session, then the user, then rotates the session by id.  A session       *)
(* stands for both of its tokens: the refresh token, good while the row is  *)
(* open, and the access token, which carries the same sid and version.      *)
(*                                                                          *)
(* A refresh or a logout with a token that was rotated away finds no row    *)
(* and changes nothing; it is not an action.  A session row remembers, for  *)
(* the properties only, the password it was opened with.                    *)
(***************************************************************************)
EXTENDS OtpChallenges

CONSTANTS
    Session,
    MfaUser,        \* users with a role of AUTH_LOGIN_MFA_REQUIRED_ROLES
    MaxVersion      \* bound on tokenVersion

ASSUME SessionAssumption == MfaUser \subseteq User /\ MaxVersion \in Nat \ {0}

VARIABLES
    user,           \* the users, and which password they have
    session         \* AuthSession rows

sessionVars == <<user, session>>

UserRow == [exists: BOOLEAN, active: BOOLEAN, deleted: BOOLEAN, password: Nat, version: Nat]
SessionRow == [status: {"NONE", "OPEN", "REVOKED"}, user: User, version: Nat,
               password: Nat, late: BOOLEAN]

SessionCall ==
    [op: {"open"}, u: User, version: Nat, password: Nat]
    \cup [op: {"mfa"}, u: User, c: Challenge, version: Nat, password: Nat]
    \cup [op: {"register", "bump", "setPassword"}, u: User]
    \cup [op: {"refresh", "rotate", "change"}, s: Session]
    \cup [op: {"reset"}, c: Challenge]
    \cup [op: {"profile"}, u: User, active: BOOLEAN]
    \cup [op: {"remove", "restore"}, u: User]

Nobody == [exists |-> FALSE, active |-> FALSE, deleted |-> FALSE, password |-> 0, version |-> 0]
NewUser == [exists |-> TRUE, active |-> TRUE, deleted |-> FALSE, password |-> 1, version |-> 1]

SessionInit ==
    /\ user = [u \in User |-> Nobody]
    /\ session = [s \in Session |-> [status |-> "NONE", user |-> CHOOSE u \in User : TRUE,
                                     version |-> 0, password |-> 0, late |-> FALSE]]

\* findActiveUserByEmail looks at isActive alone.
CanLogIn(u) == user[u].exists /\ user[u].active
IsActive(u) == CanLogIn(u) /\ ~user[u].deleted

\* requireAuth, for an access token of session s.
Accepted(s) ==
    /\ session[s].status # "NONE"
    /\ IsActive(session[s].user)
    /\ session[s].version = user[session[s].user].version

\* findActiveSessionByRefreshHash.  requireActiveSession asks the same of an
\* access token, but only where AUTH_STRICT_SESSION_CHECK_ENABLED.
Active(s) == session[s].status = "OPEN" /\ ~session[s].late

-----------------------------------------------------------------------------
(* POST /auth/otp/request, /auth/forgot-password and the MFA step of login. *)

\* An unknown or inactive address that forgot its password is answered and
\* ignored; an invite code is for the caller's own address.
RequestOtp(k, u, purpose) ==
    /\ purpose = "FORGOT_PASSWORD" => CanLogIn(u)
    /\ purpose = "INVITE_ACCEPT" => IsActive(u)
    /\ BeginRequestOtp(k, u, purpose, FALSE)
    /\ UNCHANGED sessionVars

RequestLoginOtp(k, u) ==
    /\ u \in MfaUser /\ CanLogIn(u)
    /\ BeginRequestOtp(k, u, "LOGIN_MFA", FALSE)
    /\ UNCHANGED sessionVars

-----------------------------------------------------------------------------
(* Login and registration.                                                 *)

Credentials(u) == [op |-> "open", u |-> u, version |-> user[u].version,
                   password |-> user[u].password]

BeginLogin(k, u) ==
    /\ u \notin MfaUser /\ CanLogIn(u)
    /\ Begin(k, Credentials(u))
    /\ UNCHANGED <<otpVars, sessionVars>>

BeginLoginWithOtp(k, u, c) ==
    /\ CanLogIn(u)
    /\ Begin(k, [op |-> "mfa", u |-> u, c |-> c, version |-> user[u].version,
                 password |-> user[u].password])
    /\ UNCHANGED <<otpVars, sessionVars>>

ConsumeLoginOtp(k) ==
    /\ call[k].op = "mfa"
    /\ Consume(call[k].c, "LOGIN_MFA", call[k].u)
    /\ GoOn(k, [op |-> "open", u |-> call[k].u, version |-> call[k].version,
                password |-> call[k].password])
    /\ UNCHANGED sessionVars

BeginRegister(k, u, c) ==
    /\ Begin(k, [op |-> "register", u |-> u])
    /\ Consume(c, "REGISTER_VERIFY", u)
    /\ UNCHANGED sessionVars

\* createUser; the email is unique.
CommitRegister(k) ==
    /\ call[k].op = "register"
    /\ ~user[call[k].u].exists
    /\ user' = [user EXCEPT ![call[k].u] = NewUser]
    /\ GoOn(k, [op |-> "open", u |-> call[k].u, version |-> 1, password |-> 1])
    /\ UNCHANGED <<otpVars, session>>

\* createSession, the last step of every login and registration.
OpenSession(k, s) ==
    /\ call[k].op = "open"
    /\ session[s].status = "NONE"
    /\ session' = [session EXCEPT ![s] =
           [status |-> "OPEN", user |-> call[k].u, version |-> call[k].version,
            password |-> call[k].password, late |-> FALSE]]
    /\ Return(k)
    /\ UNCHANGED <<otpVars, user>>

-----------------------------------------------------------------------------
(* POST /auth/refresh.                                                     *)

BeginRefresh(k, s) ==
    /\ Active(s)
    /\ Begin(k, [op |-> "refresh", s |-> s])
    /\ UNCHANGED <<otpVars, sessionVars>>

Revoke(s) == session' = [session EXCEPT ![s].status = "REVOKED"]

\* The user is gone or has a new tokenVersion: the session ends here.
RefuseRefresh(k) ==
    /\ call[k].op = "refresh"
    /\ ~Accepted(call[k].s)
    /\ Revoke(call[k].s)
    /\ Return(k)
    /\ UNCHANGED <<otpVars, user>>

CheckRefresh(k) ==
    /\ call[k].op = "refresh"
    /\ Accepted(call[k].s)
    /\ GoOn(k, [op |-> "rotate", s |-> call[k].s])
    /\ UNCHANGED <<otpVars, sessionVars>>

\* MUTANT of CommitRotate: the rotated session is open.
CommitRotateOpen(k) ==
    /\ call[k].op = "rotate"
    /\ session' = [session EXCEPT ![call[k].s].late = FALSE, ![call[k].s].status = "OPEN"]
    /\ Return(k)
    /\ UNCHANGED <<otpVars, user>>

\* rotateSessionRefreshToken, by id: a session revoked meanwhile stays so.
CommitRotate(k) ==
    /\ call[k].op = "rotate"
    /\ session' = [session EXCEPT ![call[k].s].late = FALSE]
    /\ Return(k)
    /\ UNCHANGED <<otpVars, user>>

-----------------------------------------------------------------------------
(* Logout.                                                                 *)

Logout(s) ==
    /\ session[s].status = "OPEN"
    /\ Revoke(s)
    /\ UNCHANGED <<otpVars, call, user>>

\* DELETE /auth/sessions/:sessionId, asked with the access token of another.
RevokeSession(s, by) ==
    /\ Accepted(by) /\ session[by].user = session[s].user
    /\ session[s].status = "OPEN"
    /\ Revoke(s)
    /\ UNCHANGED <<otpVars, call, user>>

RevokeAll(u, kept) ==
    session' = [s \in Session |->
                  IF session[s].user = u /\ session[s].status = "OPEN" /\ s \notin kept
                  THEN [session[s] EXCEPT !.status = "REVOKED"] ELSE session[s]]

\* Every session is revoked, and tokenVersion is incremented after that.
BeginLogoutAll(k, s) ==
    /\ Accepted(s)
    /\ Begin(k, [op |-> "bump", u |-> session[s].user])
    /\ RevokeAll(session[s].user, {})
    /\ UNCHANGED <<otpVars, user>>

CommitLogoutAll(k) ==
    /\ call[k].op = "bump"
    /\ user[call[k].u].version < MaxVersion
    /\ user' = [user EXCEPT ![call[k].u].version = @ + 1]
    /\ Return(k)
    /\ UNCHANGED <<otpVars, session>>

-----------------------------------------------------------------------------
(* Passwords.                                                              *)

\* MUTANT of SetPassword: the sessions are revoked, tokenVersion stays.
SetPasswordOnly(u, kept) ==
    /\ user[u].version < MaxVersion
    /\ user' = [user EXCEPT ![u].password = @ + 1]
    /\ RevokeAll(u, kept)

\* changePasswordAndRevokeSessions, one transaction.
SetPassword(u, kept) ==
    /\ user[u].version < MaxVersion
    /\ user' = [user EXCEPT ![u].password = @ + 1, ![u].version = @ + 1]
    /\ RevokeAll(u, kept)

BeginReset(k, c) ==
    /\ otp[c].status = "VERIFIED" /\ otp[c].purpose = "FORGOT_PASSWORD" /\ ~otp[c].late
    /\ Begin(k, [op |-> "reset", c |-> c])
    /\ UNCHANGED <<otpVars, sessionVars>>

ConsumeResetOtp(k) ==
    /\ call[k].op = "reset"
    /\ LET u == otp[call[k].c].to
       IN  /\ Consume(call[k].c, "FORGOT_PASSWORD", u)
           /\ GoOn(k, [op |-> "setPassword", u |-> u])
    /\ UNCHANGED sessionVars

CommitReset(k) ==
    /\ call[k].op = "setPassword"
    /\ SetPassword(call[k].u, {})
    /\ Return(k)
    /\ UNCHANGED otpVars

BeginChangePassword(k, s) ==
    /\ Accepted(s)
    /\ Begin(k, [op |-> "change", s |-> s])
    /\ UNCHANGED <<otpVars, sessionVars>>

\* The session that asked is kept.
CommitChangePassword(k) ==
    /\ call[k].op = "change"
    /\ SetPassword(session[call[k].s].user, {call[k].s})
    /\ Return(k)
    /\ UNCHANGED otpVars

-----------------------------------------------------------------------------
(* The users' own rows.                                                    *)

\* PATCH /users/me may set isActive; asked with any accepted access token.
BeginUpdateProfile(k, s, active) ==
    /\ Accepted(s)
    /\ Begin(k, [op |-> "profile", u |-> session[s].user, active |-> active])
    /\ UNCHANGED <<otpVars, sessionVars>>

CommitUpdateProfile(k) ==
    /\ call[k].op = "profile"
    /\ user' = [user EXCEPT ![call[k].u].active = call[k].active]
    /\ Return(k)
    /\ UNCHANGED <<otpVars, session>>

\* DELETE /users/:userId, by the user or an admin of the company.
BeginRemoveUser(k, u) ==
    /\ user[u].exists /\ ~user[u].deleted
    /\ Begin(k, [op |-> "remove", u |-> u])
    /\ UNCHANGED <<otpVars, sessionVars>>

CommitRemoveUser(k) ==
    /\ call[k].op = "remove"
    /\ user' = [user EXCEPT ![call[k].u].deleted = TRUE, ![call[k].u].active = FALSE]
    /\ Return(k)
    /\ UNCHANGED <<otpVars, session>>

BeginRestoreUser(k, u) ==
    /\ user[u].deleted
    /\ Begin(k, [op |-> "restore", u |-> u])
    /\ UNCHANGED <<otpVars, sessionVars>>

\* isActive stays as the removal left it.
CommitRestoreUser(k) ==
    /\ call[k].op = "restore"
    /\ user' = [user EXCEPT ![call[k].u].deleted = FALSE]
    /\ Return(k)
    /\ UNCHANGED <<otpVars, session>>

-----------------------------------------------------------------------------
(* Time, and the cleanup job.                                              *)

SessionRunsOut(s) ==
    /\ session[s].status = "OPEN" /\ ~session[s].late
    /\ session' = [session EXCEPT ![s].late = TRUE]
    /\ UNCHANGED <<otpVars, call, user>>

CleanupSessions ==
    /\ \E s \in Session : session[s].status = "OPEN" /\ session[s].late
    /\ session' = [s \in Session |->
                     IF session[s].status = "OPEN" /\ session[s].late
                     THEN [session[s] EXCEPT !.status = "REVOKED"] ELSE session[s]]
    /\ UNCHANGED <<otpVars, call, user>>

SessionStep ==
    \/ \E k \in Caller, u \in User :
         \/ \E purpose \in Purpose : RequestOtp(k, u, purpose)
         \/ RequestLoginOtp(k, u) \/ BeginLogin(k, u) \/ BeginRemoveUser(k, u)
         \/ \E c \in Challenge : BeginLoginWithOtp(k, u, c) \/ BeginRegister(k, u, c)
    \/ \E k \in Caller, s \in Session :
         \/ OpenSession(k, s) \/ BeginRefresh(k, s) \/ BeginLogoutAll(k, s)
         \/ BeginChangePassword(k, s)
         \/ \E active \in BOOLEAN : BeginUpdateProfile(k, s, active)
    \/ \E k \in Caller, c \in Challenge : BeginReset(k, c)
    \/ \E k \in Caller :
         \/ ConsumeLoginOtp(k) \/ CommitRegister(k) \/ RefuseRefresh(k) \/ CheckRefresh(k)
         \/ CommitRotate(k) \/ CommitLogoutAll(k) \/ ConsumeResetOtp(k) \/ CommitReset(k)
         \/ CommitChangePassword(k) \/ CommitUpdateProfile(k) \/ CommitRemoveUser(k)
         \/ CommitRestoreUser(k)
    \/ \E s \in Session : Logout(s) \/ SessionRunsOut(s)
    \/ \E s, by \in Session : RevokeSession(s, by)
    \/ CleanupSessions

-----------------------------------------------------------------------------

\* No token of a session that was opened with an earlier password is still
\* accepted, for access or for refresh: also when the login, the refresh and
\* the change or reset of the password overlapped, and for the session that a
\* change of password keeps.
OldPasswordsAreDead ==
    \A s \in Session : Accepted(s) => session[s].password = user[session[s].user].password

Outdated(s) == session[s].version # user[session[s].user].version

\* What was ended stays ended, although a refresh rotates by id what may have
\* been revoked since and a login opens with a version it read earlier: a
\* revoked session is not opened again, and a token of an outdated version
\* stays outdated, also when the user is removed and restored.
EndedStaysEnded ==
    [][\A s \in Session : session[s].status # "NONE" =>
         /\ session[s].status = "REVOKED" => session'[s].status = "REVOKED"
         /\ Outdated(s) => Outdated(s)']_sessionVars
=============================================================================
