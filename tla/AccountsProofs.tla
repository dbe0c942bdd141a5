---------------------------- MODULE AccountsProofs ----------------------------
(***************************************************************************)
(* Proofs about Accounts: one-time passwords, sessions, registration and   *)
(* teams together, for any number of users, rows and overlapping calls.    *)
(*                                                                         *)
(* Every step is shown to move each table in one of a few ways (OtpMoves,  *)
(* CallMoves, UserMoves, SessionMoves, InviteMoves, DraftMoves); the       *)
(* invariants are then shown for the moves, once, and not for each of the  *)
(* sixty actions.                                                          *)
(***************************************************************************)
EXTENDS Accounts, TLAPS

AnyCall == OtpCall \cup SessionCall \cup TeamCall \cup DraftCall

\* A challenge that is VERIFIED has a verification that was not used yet.
Backed(c) == credit[c] >= 0 /\ (otp[c].status = "VERIFIED" => credit[c] >= 1)

\* Credentials that were read are at most as new as the user, and where they
\* are as new, the password is the one the user has.
Fresh(u, version, password) ==
    /\ user[u].exists
    /\ version <= user[u].version
    /\ version = user[u].version => password = user[u].password

CallFresh(r) ==
    /\ r.op \in {"open", "mfa"} => Fresh(r.u, r.version, r.password)
    /\ r.op = "refresh" => session[r.s].status # "NONE"

SessionFresh(s) ==
    session[s].status # "NONE" => Fresh(session[s].user, session[s].version, session[s].password)

\* A pending invite has let nobody in.
InviteFits(i) == invite[i].joins <= 1 /\ (invite[i].status = "PENDING" => invite[i].joins = 0)

\* What an account was made from is there, and so is the account.
OriginFits(u) ==
    origin[u] # NoDraft => user[u].exists /\ draft[origin[u]].status # "NONE"

AccountInv ==
    /\ AccountTypeOK
    /\ \A c \in Challenge : Backed(c)
    /\ \A k \in Caller : CallFresh(call[k])
    /\ \A s \in Session : SessionFresh(s)
    /\ \A i \in Invite : InviteFits(i)
    /\ \A u \in User : OriginFits(u)
    /\ RegisteredOnce

-----------------------------------------------------------------------------
(* How the tables move.                                                    *)

OtpMoves ==
    /\ otp' \in [Challenge -> OtpRow]
    /\ credit' \in [Challenge -> Int]
    /\ \A c \in Challenge : Backed(c)'

CallMoves ==
    /\ call' \in [Caller -> AnyCall]
    /\ \A k \in Caller : call'[k] = call[k] \/ CallFresh(call[k])'

UserMoves ==
    /\ user' \in [User -> UserRow]
    /\ \A u \in User : user[u].exists =>
         /\ user'[u].exists
         /\ \/ user'[u].version > user[u].version
            \/ user'[u].version = user[u].version /\ user'[u].password = user[u].password

SessionMoves ==
    /\ session' \in [Session -> SessionRow]
    /\ \A s \in Session : session[s].status # "NONE" =>
         /\ session'[s].status # "NONE"
         /\ session'[s].user = session[s].user
         /\ session'[s].version = session[s].version
         /\ session'[s].password = session[s].password
         /\ session[s].status = "REVOKED" => session'[s].status = "REVOKED"
    /\ \A s \in Session : session[s].status = "NONE" => SessionFresh(s)'

InviteMoves ==
    /\ member' \in [User -> Company \cup {NoCompany}]
    /\ invite' \in [Invite -> InviteRow]
    /\ \A i \in Invite : InviteFits(i)'

DraftMoves ==
    /\ draft' \in [Draft -> DraftRow]
    /\ origin' \in [User -> Draft \cup {NoDraft}]
    /\ companies' \in [User -> Nat]
    /\ \A u \in User : OriginFits(u)'
    /\ RegisteredOnce'

Moves == OtpMoves /\ CallMoves /\ UserMoves /\ SessionMoves /\ InviteMoves /\ DraftMoves

\* What a call carries.
LEMMA CallFields ==
    ASSUME NEW r \in AnyCall
    PROVE  /\ r.op = "send" => r.to \in User /\ r.purpose \in Purpose
           /\ r.op = "pass" => r.c \in Challenge /\ r.d \in Draft \cup {NoDraft}
           /\ r.op = "fail" => r.c \in Challenge /\ r.tries \in Nat
           /\ r.op = "resend" => r.c \in Challenge
           /\ r.op = "open" => r.u \in User /\ r.version \in Nat /\ r.password \in Nat
           /\ r.op = "mfa" => /\ r.u \in User /\ r.c \in Challenge
                              /\ r.version \in Nat /\ r.password \in Nat
           /\ r.op \in {"register", "bump", "setPassword", "remove", "restore"} => r.u \in User
           /\ r.op \in {"refresh", "rotate", "change"} => r.s \in Session
           /\ r.op = "reset" => r.c \in Challenge
           /\ r.op = "profile" => r.u \in User /\ r.active \in BOOLEAN
           /\ r.op = "invite" => r.u \in User /\ r.co \in Company
           /\ r.op = "accept" => r.u \in User /\ r.i \in Invite /\ r.c \in Challenge
           /\ r.op \in {"seat", "member", "join"} => r.u \in User /\ r.i \in Invite
           /\ r.op = "revoke" => r.i \in Invite
           /\ r.op = "membership" => r.u \in User /\ r.co \in Company \cup {NoCompany}
           /\ r.op = "draft" => r.to \in User /\ r.c \in Challenge
           /\ r.op \in {"mark", "complete"} => r.d \in Draft
<1>1. CASE r \in OtpCall
  BY <1>1 DEF OtpCall, Idle
<1>2. CASE r \in SessionCall
  BY <1>2 DEF SessionCall
<1>3. CASE r \in TeamCall
  BY <1>3 DEF TeamCall
<1>4. CASE r \in DraftCall
  BY <1>4 DEF DraftCall
<1> QED BY <1>1, <1>2, <1>3, <1>4 DEF AnyCall

LEMMA CallsAre == AccountInv => \A k \in Caller : call[k] \in AnyCall
BY DEF AccountInv, AccountTypeOK, AnyCall

\* The moves keep the invariant.
LEMMA MovesKeepInv == AccountInv /\ Moves => AccountInv'
<1> SUFFICES ASSUME AccountInv, Moves PROVE AccountInv'
  OBVIOUS
<1>1. AccountTypeOK'
  BY DEF Moves, OtpMoves, CallMoves, UserMoves, SessionMoves, InviteMoves, DraftMoves,
         AccountTypeOK, AnyCall
<1>2. ASSUME NEW u \in User, NEW v \in Nat, NEW p, Fresh(u, v, p) PROVE Fresh(u, v, p)'
  <2>1. user[u].version \in Nat /\ user'[u].version \in Nat
    BY DEF Moves, UserMoves, AccountInv, AccountTypeOK, UserRow
  <2> QED BY <1>2, <2>1 DEF Moves, UserMoves, Fresh
<1>3. ASSUME NEW k \in Caller PROVE CallFresh(call[k])'
  <2>1. CASE call'[k] = call[k]
    <3>1. PICK r \in AnyCall : r = call[k] /\ CallFresh(r)
      BY CallsAre DEF AccountInv
    <3>2. r.op \in {"open", "mfa"} => Fresh(r.u, r.version, r.password)'
      BY <1>2, <3>1, CallFields DEF CallFresh
    <3>3. r.op = "refresh" => session'[r.s].status # "NONE"
      BY <3>1, CallFields DEF CallFresh, Moves, SessionMoves
    <3> QED BY <2>1, <3>1, <3>2, <3>3 DEF CallFresh, Fresh
  <2>2. CASE CallFresh(call[k])'
    BY <2>2
  <2> QED BY <2>1, <2>2 DEF Moves, CallMoves
<1>4. ASSUME NEW s \in Session PROVE SessionFresh(s)'
  <2>1. session[s].user \in User /\ session[s].version \in Nat
    BY DEF AccountInv, AccountTypeOK, SessionRow
  <2> QED BY <1>2, <2>1 DEF Moves, SessionMoves, AccountInv, SessionFresh
<1> QED BY <1>1, <1>3, <1>4 DEF Moves, OtpMoves, InviteMoves, DraftMoves, AccountInv

-----------------------------------------------------------------------------
(* Tables that a step leaves alone.                                        *)

LEMMA OtpStays == AccountInv /\ UNCHANGED otpVars => OtpMoves
BY DEF otpVars, AccountInv, AccountTypeOK, OtpMoves, Backed

LEMMA CallStays == AccountInv /\ UNCHANGED call => CallMoves
BY DEF AccountInv, AccountTypeOK, CallMoves, AnyCall

LEMMA UserStays == AccountInv /\ UNCHANGED user => UserMoves
BY DEF AccountInv, AccountTypeOK, UserMoves

LEMMA SessionStays == AccountInv /\ UNCHANGED session => SessionMoves
BY DEF AccountInv, AccountTypeOK, SessionMoves, SessionFresh

LEMMA InviteStays == AccountInv /\ UNCHANGED teamVars => InviteMoves
BY DEF teamVars, AccountInv, AccountTypeOK, InviteMoves, InviteFits

LEMMA DraftStays == AccountInv /\ UserMoves /\ UNCHANGED draftVars => DraftMoves
BY DEF draftVars, AccountInv, AccountTypeOK, DraftMoves, UserMoves, OriginFits, RegisteredOnce

-----------------------------------------------------------------------------
(* Calls.                                                                  *)

\* A call that goes on or returns.
LEMMA CallGoesOn ==
    ASSUME AccountInv, NEW k \in Caller, NEW r \in AnyCall, GoOn(k, r), CallFresh(r)'
    PROVE  CallMoves
<1>1. call \in [Caller -> AnyCall]
  BY DEF AccountInv, AccountTypeOK, AnyCall
<1>2. call' \in [Caller -> AnyCall]
  BY <1>1 DEF GoOn
<1>3. ASSUME NEW j \in Caller PROVE call'[j] = call[j] \/ CallFresh(call[j])'
  <2>1. CASE j = k
    BY <1>1, <2>1 DEF GoOn, CallFresh
  <2>2. CASE j # k
    BY <1>1, <2>2 DEF GoOn
  <2> QED BY <2>1, <2>2
<1> QED BY <1>2, <1>3 DEF CallMoves

LEMMA CallReturns ==
    ASSUME AccountInv, NEW k \in Caller, Return(k)
    PROVE  CallMoves
<1>1. Idle \in AnyCall /\ CallFresh(Idle)'
  BY DEF AnyCall, OtpCall, Idle, CallFresh
<1> QED BY <1>1, CallGoesOn DEF Return

\* A call that carries no credentials.
LEMMA CallMovesOn ==
    ASSUME AccountInv, NEW k \in Caller, NEW r \in AnyCall, Begin(k, r) \/ GoOn(k, r),
           r.op \notin {"open", "mfa", "refresh"}
    PROVE  CallMoves
<1>1. CallFresh(r)'
  BY DEF CallFresh
<1> QED BY <1>1, CallGoesOn DEF Begin, GoOn

-----------------------------------------------------------------------------
(* Challenges.                                                             *)

LEMMA PendingAreCanceled ==
    ASSUME AccountInv, NEW u \in User, NEW p \in Purpose, CancelPending(u, p), UNCHANGED credit
    PROVE  OtpMoves
BY DEF AccountInv, AccountTypeOK, CancelPending, OtpMoves, OtpRow, OtpStatus, Backed

LEMMA UseIsBacked ==
    ASSUME AccountInv, NEW c \in Challenge, NEW p \in Purpose, NEW u \in User, Consume(c, p, u)
    PROVE  OtpMoves
<1>1. otp' \in [Challenge -> OtpRow] /\ credit' \in [Challenge -> Int]
  BY DEF AccountInv, AccountTypeOK, Consume, Use, OtpRow, OtpStatus
<1>2. ASSUME NEW d \in Challenge PROVE Backed(d)'
  BY DEF AccountInv, AccountTypeOK, Consume, Use, OtpRow, Backed
<1> QED BY <1>1, <1>2 DEF OtpMoves

\* A code is requested; login, the wizard and the invite page do the same.
LEMMA RequestMoves ==
    ASSUME AccountInv, NEW k \in Caller, NEW u \in User, NEW p \in Purpose,
           NEW b \in BOOLEAN, BeginRequestOtp(k, u, p, b)
    PROVE  OtpMoves /\ CallMoves
<1>1. OtpMoves
  BY PendingAreCanceled DEF BeginRequestOtp
<1> DEFINE r == [op |-> "send", to |-> u, purpose |-> p, registering |-> b]
<1>2. r \in AnyCall
  BY DEF AnyCall, OtpCall
<1>3. Begin(k, r) /\ r.op = "send"
  BY DEF BeginRequestOtp
<1> HIDE DEF r
<1> QED BY <1>1, <1>2, <1>3, CallMovesOn

LEMMA VerifyMoves ==
    ASSUME AccountInv, NEW k \in Caller, NEW c \in Challenge, NEW d \in Draft \cup {NoDraft},
           BeginVerify(k, c, d)
    PROVE  OtpMoves /\ CallMoves
<1>1. OtpMoves
  BY OtpStays DEF BeginVerify
<1> DEFINE good == [op |-> "pass", c |-> c, d |-> d]
           bad == [op |-> "fail", c |-> c, tries |-> otp[c].tries]
<1>2. good \in AnyCall /\ bad \in AnyCall
  BY DEF AnyCall, OtpCall, AccountInv, AccountTypeOK, OtpRow
<1>3. (Begin(k, good) /\ good.op = "pass") \/ (Begin(k, bad) /\ bad.op = "fail")
  BY DEF BeginVerify
<1> HIDE DEF good, bad
<1> QED BY <1>1, <1>2, <1>3, CallMovesOn

LEMMA OtpActionMoves ==
    ASSUME AccountInv, OtpStep
    PROVE  OtpMoves /\ CallMoves
<1>0. /\ otp \in [Challenge -> OtpRow]
      /\ credit \in [Challenge -> Int]
      /\ \A k \in Caller : call[k] \in AnyCall
      /\ \A c \in Challenge : Backed(c)
  BY CallsAre DEF AccountInv, AccountTypeOK
<1>1. ASSUME NEW k \in Caller, PassVerify(k) PROVE OtpMoves /\ CallMoves
  <2>1. call[k].c \in Challenge /\ call[k].d \in Draft \cup {NoDraft}
    BY <1>0, <1>1, CallFields DEF PassVerify
  <2>2. OtpMoves
    <3>1. otp' \in [Challenge -> OtpRow] /\ credit' \in [Challenge -> Int]
      BY <1>0, <1>1, <2>1 DEF PassVerify, OtpRow, OtpStatus
    <3>2. ASSUME NEW c \in Challenge PROVE Backed(c)'
      BY <1>0, <1>1, <2>1 DEF PassVerify, Backed
    <3> QED BY <3>1, <3>2 DEF OtpMoves
  <2>3. CallMoves
    <3> DEFINE r == [op |-> "mark", d |-> call[k].d]
    <3>1. CASE call[k].d = NoDraft
      BY <1>1, <3>1, CallReturns DEF PassVerify, Return
    <3>2. CASE call[k].d \in Draft /\ call[k].d # NoDraft
      <4>1. r \in AnyCall
        BY <3>2 DEF AnyCall, DraftCall
      <4>2. GoOn(k, r) /\ r.op = "mark"
        BY <1>1, <3>2 DEF PassVerify
      <4> HIDE DEF r
      <4> QED BY <4>1, <4>2, CallMovesOn
    <3> QED BY <2>1, <3>1, <3>2
  <2> QED BY <2>2, <2>3
<1>2. ASSUME NEW k \in Caller, FailVerify(k) PROVE OtpMoves /\ CallMoves
  <2>1. call[k].c \in Challenge
    BY <1>0, <1>2, CallFields DEF FailVerify
  <2>2. otp' \in [Challenge -> OtpRow] /\ credit' = credit
    BY <1>0, <1>2, <2>1 DEF FailVerify, OtpRow, OtpStatus
  <2>3. ASSUME NEW c \in Challenge PROVE Backed(c)'
    BY <1>0, <1>2, <2>1, <2>2 DEF FailVerify, Backed
  <2> QED BY <1>0, <1>2, <2>2, <2>3, CallReturns DEF FailVerify, OtpMoves
<1>3. ASSUME NEW k \in Caller, CommitResend(k) PROVE OtpMoves /\ CallMoves
  <2>1. call[k].c \in Challenge
    BY <1>0, <1>3, CallFields DEF CommitResend
  <2>2. otp' \in [Challenge -> OtpRow] /\ credit' = credit
    BY <1>0, <1>3, <2>1 DEF CommitResend, OtpRow, OtpStatus
  <2>3. ASSUME NEW c \in Challenge PROVE Backed(c)'
    BY <1>0, <1>3, <2>1, <2>2 DEF CommitResend, Backed
  <2> QED BY <1>0, <1>3, <2>2, <2>3, CallReturns DEF CommitResend, OtpMoves
<1>4. ASSUME NEW k \in Caller, NEW c \in Challenge, CreateChallenge(k, c)
      PROVE OtpMoves /\ CallMoves
  <2>1. call[k].to \in User /\ call[k].purpose \in Purpose
    BY <1>0, <1>4, CallFields DEF CreateChallenge
  <2>2. otp' \in [Challenge -> OtpRow] /\ credit' = credit
    BY <1>0, <1>4, <2>1 DEF CreateChallenge, NewOtp, OtpRow, OtpStatus
  <2>3. ASSUME NEW d \in Challenge PROVE Backed(d)'
    BY <1>0, <1>4, <2>2 DEF CreateChallenge, NewOtp, Backed
  <2>4. CallMoves
    <3> DEFINE r == [op |-> "draft", to |-> call[k].to, c |-> c]
    <3>1. r \in AnyCall
      BY <2>1 DEF AnyCall, DraftCall
    <3>2. (GoOn(k, r) /\ r.op = "draft") \/ Return(k)
      BY <1>4 DEF CreateChallenge, Return
    <3> HIDE DEF r
    <3> QED BY <3>1, <3>2, CallMovesOn, CallReturns
  <2> QED BY <1>0, <2>2, <2>3, <2>4 DEF OtpMoves
<1>5. ASSUME NEW k \in Caller, NEW c \in Challenge, BeginVerify(k, c, NoDraft)
      PROVE OtpMoves /\ CallMoves
  BY <1>5, VerifyMoves
<1>6. ASSUME NEW k \in Caller, NEW c \in Challenge, BeginResend(k, c)
      PROVE OtpMoves /\ CallMoves
  <2> DEFINE r == [op |-> "resend", c |-> c]
  <2>1. r \in AnyCall /\ r.op = "resend"
    BY DEF AnyCall, OtpCall
  <2>2. Begin(k, r) /\ UNCHANGED otpVars
    BY <1>6 DEF BeginResend
  <2> HIDE DEF r
  <2> QED BY <2>1, <2>2, CallMovesOn, OtpStays
<1>7. ASSUME NEW c \in Challenge, ExpireOnUse(c) PROVE OtpMoves /\ CallMoves
  <2>1. otp' \in [Challenge -> OtpRow] /\ UNCHANGED <<credit, call>>
    BY <1>0, <1>7 DEF ExpireOnUse, OtpRow, OtpStatus
  <2>2. ASSUME NEW d \in Challenge PROVE Backed(d)'
    BY <1>0, <1>7, <2>1 DEF ExpireOnUse, Backed
  <2> QED BY <1>0, <2>1, <2>2, CallStays DEF OtpMoves
<1>8. ASSUME NEW c \in Challenge, OtpRunsOut(c) PROVE OtpMoves /\ CallMoves
  <2>1. otp' \in [Challenge -> OtpRow] /\ UNCHANGED <<credit, call>>
    BY <1>0, <1>8 DEF OtpRunsOut, OtpRow, OtpStatus
  <2>2. ASSUME NEW d \in Challenge PROVE Backed(d)'
    BY <1>0, <1>8, <2>1 DEF OtpRunsOut, Backed
  <2> QED BY <1>0, <2>1, <2>2, CallStays DEF OtpMoves
<1>9. ASSUME CleanupExpire PROVE OtpMoves /\ CallMoves
  <2>1. otp' \in [Challenge -> OtpRow] /\ UNCHANGED <<credit, call>>
    BY <1>0, <1>9 DEF CleanupExpire, OtpRow, OtpStatus
  <2>2. ASSUME NEW d \in Challenge PROVE Backed(d)'
    BY <1>0, <1>9, <2>1 DEF CleanupExpire, Backed
  <2> QED BY <1>0, <2>1, <2>2, CallStays DEF OtpMoves
<1>10. ASSUME NEW old \in SUBSET Challenge, CleanupPurge(old) PROVE OtpMoves /\ CallMoves
  <2>1. otp' \in [Challenge -> OtpRow] /\ UNCHANGED <<credit, call>>
    BY <1>0, <1>10 DEF CleanupPurge, OtpRow, OtpStatus
  <2>2. ASSUME NEW d \in Challenge PROVE Backed(d)'
    BY <1>0, <1>10, <2>1 DEF CleanupPurge, Backed
  <2> QED BY <1>0, <2>1, <2>2, CallStays DEF OtpMoves
<1> QED BY <1>1, <1>2, <1>3, <1>4, <1>5, <1>6, <1>7, <1>8, <1>9, <1>10 DEF OtpStep

-----------------------------------------------------------------------------
(* Sessions and users.                                                     *)

\* A call goes on with credentials that are good where it arrives.
LEMMA CredentialsMove ==
    ASSUME AccountInv, NEW k \in Caller, NEW u \in User, NEW v \in Nat, NEW p \in Nat,
           Fresh(u, v, p)',
           \/ GoOn(k, [op |-> "open", u |-> u, version |-> v, password |-> p])
           \/ \E c \in Challenge :
                GoOn(k, [op |-> "mfa", u |-> u, c |-> c, version |-> v, password |-> p])
    PROVE  CallMoves
<1>1. CASE GoOn(k, [op |-> "open", u |-> u, version |-> v, password |-> p])
  <2> DEFINE r == [op |-> "open", u |-> u, version |-> v, password |-> p]
  <2>1. r \in AnyCall /\ CallFresh(r)'
    BY DEF AnyCall, SessionCall, CallFresh
  <2>2. GoOn(k, r)
    BY <1>1
  <2> HIDE DEF r
  <2> QED BY <2>1, <2>2, CallGoesOn
<1>2. ASSUME NEW c \in Challenge,
             GoOn(k, [op |-> "mfa", u |-> u, c |-> c, version |-> v, password |-> p])
      PROVE  CallMoves
  <2> DEFINE r == [op |-> "mfa", u |-> u, c |-> c, version |-> v, password |-> p]
  <2>1. r \in AnyCall /\ CallFresh(r)'
    BY DEF AnyCall, SessionCall, CallFresh
  <2>2. GoOn(k, r)
    BY <1>2
  <2> HIDE DEF r
  <2> QED BY <2>1, <2>2, CallGoesOn
<1> QED BY <1>1, <1>2

LEMMA RevokeAllMoves ==
    ASSUME AccountInv, NEW u, NEW kept, RevokeAll(u, kept)
    PROVE  SessionMoves
<1>1. session' \in [Session -> SessionRow]
  BY DEF AccountInv, AccountTypeOK, RevokeAll, SessionRow
<1>2. ASSUME NEW s \in Session
      PROVE  /\ session'[s].status # "NONE" <=> session[s].status # "NONE"
             /\ session[s].status = "REVOKED" => session'[s].status = "REVOKED"
             /\ session'[s].user = session[s].user
             /\ session'[s].version = session[s].version
             /\ session'[s].password = session[s].password
  BY DEF AccountInv, AccountTypeOK, RevokeAll, SessionRow
<1> QED BY <1>1, <1>2 DEF SessionMoves, SessionFresh

LEMMA RevokeMoves ==
    ASSUME AccountInv, NEW s \in Session, session[s].status # "NONE", Revoke(s)
    PROVE  SessionMoves
<1>1. session' \in [Session -> SessionRow]
  BY DEF AccountInv, AccountTypeOK, Revoke, SessionRow
<1>2. ASSUME NEW t \in Session
      PROVE  /\ session'[t].status # "NONE" <=> session[t].status # "NONE"
             /\ session[t].status = "REVOKED" => session'[t].status = "REVOKED"
             /\ session'[t].user = session[t].user
             /\ session'[t].version = session[t].version
             /\ session'[t].password = session[t].password
  BY DEF AccountInv, AccountTypeOK, Revoke, SessionRow
<1> QED BY <1>1, <1>2 DEF SessionMoves, SessionFresh

\* A new password is a new version, and closes the sessions but the kept one.
LEMMA SetPasswordMoves ==
    ASSUME AccountInv, NEW u \in User, NEW kept, SetPassword(u, kept)
    PROVE  UserMoves /\ SessionMoves
<1>1. UserMoves
  <2>1. user' \in [User -> UserRow]
    BY DEF AccountInv, AccountTypeOK, SetPassword, UserRow
  <2>2. ASSUME NEW w \in User, user[w].exists
        PROVE  /\ user'[w].exists
               /\ \/ user'[w].version > user[w].version
                  \/ user'[w].version = user[w].version /\ user'[w].password = user[w].password
    BY <2>2 DEF AccountInv, AccountTypeOK, SetPassword, UserRow
  <2> QED BY <2>1, <2>2 DEF UserMoves
<1> QED BY <1>1, RevokeAllMoves DEF SetPassword

LEMMA RegistrationMakesUsers ==
    ASSUME AccountInv, NEW u \in User, ~user[u].exists, user' = [user EXCEPT ![u] = NewUser]
    PROVE  UserMoves /\ Fresh(u, 1, 1)'
BY DEF AccountInv, AccountTypeOK, UserMoves, UserRow, NewUser, Fresh

LEMMA SessionActionMoves ==
    ASSUME AccountInv, SessionStep
    PROVE  OtpMoves /\ CallMoves /\ UserMoves /\ SessionMoves
<1> DEFINE Goal == OtpMoves /\ CallMoves /\ UserMoves /\ SessionMoves
<1>0. /\ user \in [User -> UserRow]
      /\ session \in [Session -> SessionRow]
      /\ \A k \in Caller : call[k] \in AnyCall
      /\ \A k \in Caller : CallFresh(call[k])
      /\ \A s \in Session : session[s].user \in User
  BY CallsAre DEF AccountInv, AccountTypeOK, SessionRow
<1>s. /\ UNCHANGED otpVars => OtpMoves
      /\ UNCHANGED call => CallMoves
      /\ UNCHANGED user => UserMoves
      /\ UNCHANGED session => SessionMoves
      /\ UNCHANGED sessionVars => UserMoves /\ SessionMoves
  BY OtpStays, CallStays, UserStays, SessionStays DEF sessionVars
<1>1. ASSUME NEW k \in Caller, NEW u \in User, NEW p \in Purpose, RequestOtp(k, u, p) PROVE Goal
  BY <1>1, <1>s, RequestMoves DEF RequestOtp
<1>2. ASSUME NEW k \in Caller, NEW u \in User, RequestLoginOtp(k, u) PROVE Goal
  BY <1>2, <1>s, RequestMoves DEF RequestLoginOtp, Purpose
<1>3. ASSUME NEW k \in Caller, NEW u \in User, BeginLogin(k, u) PROVE Goal
  <2>1. PICK v \in Nat, p \in Nat : v = user[u].version /\ p = user[u].password
    BY <1>0 DEF UserRow
  <2>2. /\ GoOn(k, [op |-> "open", u |-> u, version |-> v, password |-> p])
        /\ UNCHANGED <<otpVars, sessionVars>>
    BY <1>3, <2>1 DEF BeginLogin, Credentials, Begin, GoOn
  <2>3. Fresh(u, v, p)'
    BY <1>3, <2>1, <2>2 DEF BeginLogin, CanLogIn, Fresh, sessionVars
  <2> QED BY <2>2, <2>3, <1>s, CredentialsMove
<1>4. ASSUME NEW k \in Caller, NEW u \in User, NEW c \in Challenge, BeginLoginWithOtp(k, u, c) PROVE Goal
  <2>1. PICK v \in Nat, p \in Nat : v = user[u].version /\ p = user[u].password
    BY <1>0 DEF UserRow
  <2>2. /\ GoOn(k, [op |-> "mfa", u |-> u, c |-> c, version |-> v, password |-> p])
        /\ UNCHANGED <<otpVars, sessionVars>>
    BY <1>4, <2>1 DEF BeginLoginWithOtp, Begin, GoOn
  <2>3. Fresh(u, v, p)'
    BY <1>4, <2>1, <2>2 DEF BeginLoginWithOtp, CanLogIn, Fresh, sessionVars
  <2> QED BY <2>2, <2>3, <1>s, CredentialsMove
<1>5. ASSUME NEW k \in Caller, NEW u \in User, BeginRemoveUser(k, u) PROVE Goal
  <2> DEFINE r == [op |-> "remove", u |-> u]
  <2>1. r \in AnyCall /\ r.op = "remove"
    BY <1>0 DEF AnyCall, SessionCall
  <2>2. Begin(k, r) /\ UNCHANGED <<otpVars, sessionVars>>
    BY <1>5 DEF BeginRemoveUser
  <2> HIDE DEF r
  <2> QED BY <2>1, <2>2, <1>s, CallMovesOn
<1>6. ASSUME NEW k \in Caller, NEW u \in User, NEW c \in Challenge, BeginRegister(k, u, c) PROVE Goal
  <2> DEFINE r == [op |-> "register", u |-> u]
  <2>1. r \in AnyCall /\ r.op = "register"
    BY DEF AnyCall, SessionCall
  <2>2. Begin(k, r) /\ UNCHANGED sessionVars
    BY <1>6 DEF BeginRegister
  <2>3. OtpMoves
    BY <1>6, UseIsBacked DEF BeginRegister, Purpose
  <2> HIDE DEF r
  <2> QED BY <2>1, <2>2, <2>3, <1>s, CallMovesOn
<1>7. ASSUME NEW k \in Caller, NEW s \in Session, OpenSession(k, s) PROVE Goal
  <2>1. PICK r \in AnyCall : r = call[k] /\ CallFresh(r)
    BY <1>0
  <2>2. /\ r.u \in User /\ r.version \in Nat /\ r.password \in Nat
        /\ Fresh(r.u, r.version, r.password)
    BY <1>7, <2>1, CallFields DEF OpenSession, CallFresh
  <2>3. session' \in [Session -> SessionRow]
    BY <1>0, <1>7, <2>1, <2>2 DEF OpenSession, SessionRow
  <2>4. SessionFresh(s)'
    BY <1>0, <1>7, <2>1, <2>2 DEF OpenSession, SessionFresh, Fresh
  <2>5. session[s].status = "NONE" /\ \A t \in Session \ {s} : session'[t] = session[t]
    BY <1>0, <1>7 DEF OpenSession
  <2>6. SessionMoves
    BY <2>3, <2>4, <2>5 DEF SessionMoves, SessionFresh
  <2> QED BY <1>7, <2>6, <1>s, CallReturns DEF OpenSession
<1>8. ASSUME NEW k \in Caller, NEW s \in Session, BeginRefresh(k, s) PROVE Goal
  <2> DEFINE r == [op |-> "refresh", s |-> s]
  <2>1. r \in AnyCall
    BY DEF AnyCall, SessionCall
  <2>2. GoOn(k, r) /\ UNCHANGED <<otpVars, sessionVars>>
    BY <1>8 DEF BeginRefresh, Begin, GoOn
  <2>3. CallFresh(r)'
    BY <1>8 DEF BeginRefresh, Active, CallFresh, sessionVars
  <2> HIDE DEF r
  <2> QED BY <2>1, <2>2, <2>3, <1>s, CallGoesOn
<1>9. ASSUME NEW k \in Caller, NEW s \in Session, BeginLogoutAll(k, s) PROVE Goal
  <2> DEFINE r == [op |-> "bump", u |-> session[s].user]
  <2>1. r \in AnyCall /\ r.op = "bump"
    BY <1>0 DEF AnyCall, SessionCall
  <2>2. Begin(k, r) /\ UNCHANGED <<otpVars, user>>
    BY <1>9 DEF BeginLogoutAll
  <2>3. SessionMoves
    BY <1>9, RevokeAllMoves DEF BeginLogoutAll
  <2> HIDE DEF r
  <2> QED BY <2>1, <2>2, <2>3, <1>s, CallMovesOn
<1>10. ASSUME NEW k \in Caller, NEW s \in Session, BeginChangePassword(k, s) PROVE Goal
  <2> DEFINE r == [op |-> "change", s |-> s]
  <2>1. r \in AnyCall /\ r.op = "change"
    BY <1>0 DEF AnyCall, SessionCall
  <2>2. Begin(k, r) /\ UNCHANGED <<otpVars, sessionVars>>
    BY <1>10 DEF BeginChangePassword
  <2> HIDE DEF r
  <2> QED BY <2>1, <2>2, <1>s, CallMovesOn
<1>11. ASSUME NEW k \in Caller, NEW s \in Session, NEW active \in BOOLEAN, BeginUpdateProfile(k, s, active) PROVE Goal
  <2> DEFINE r == [op |-> "profile", u |-> session[s].user, active |-> active]
  <2>1. r \in AnyCall /\ r.op = "profile"
    BY <1>0 DEF AnyCall, SessionCall
  <2>2. Begin(k, r) /\ UNCHANGED <<otpVars, sessionVars>>
    BY <1>11 DEF BeginUpdateProfile
  <2> HIDE DEF r
  <2> QED BY <2>1, <2>2, <1>s, CallMovesOn
<1>12. ASSUME NEW k \in Caller, NEW c \in Challenge, BeginReset(k, c) PROVE Goal
  <2> DEFINE r == [op |-> "reset", c |-> c]
  <2>1. r \in AnyCall /\ r.op = "reset"
    BY <1>0 DEF AnyCall, SessionCall
  <2>2. Begin(k, r) /\ UNCHANGED <<otpVars, sessionVars>>
    BY <1>12 DEF BeginReset
  <2> HIDE DEF r
  <2> QED BY <2>1, <2>2, <1>s, CallMovesOn
<1>13. ASSUME NEW k \in Caller, ConsumeLoginOtp(k) PROVE Goal
  <2>1. PICK r \in AnyCall : r = call[k] /\ CallFresh(r)
    BY <1>0
  <2>2. /\ r.u \in User /\ r.c \in Challenge /\ r.version \in Nat /\ r.password \in Nat
        /\ Fresh(r.u, r.version, r.password)
    BY <1>13, <2>1, CallFields DEF ConsumeLoginOtp, CallFresh
  <2>3. OtpMoves
    BY <1>13, <2>1, <2>2, UseIsBacked DEF ConsumeLoginOtp, Purpose
  <2>4. /\ GoOn(k, [op |-> "open", u |-> r.u, version |-> r.version, password |-> r.password])
        /\ UNCHANGED sessionVars
    BY <1>13, <2>1 DEF ConsumeLoginOtp
  <2>5. Fresh(r.u, r.version, r.password)'
    BY <2>2, <2>4 DEF Fresh, sessionVars
  <2> QED BY <2>2, <2>3, <2>4, <2>5, <1>s, CredentialsMove
<1>14. ASSUME NEW k \in Caller, CommitRegister(k) PROVE Goal
  <2>1. PICK u \in User : u = call[k].u
    BY <1>0, <1>14, CallFields DEF CommitRegister
  <2>2. UserMoves /\ Fresh(u, 1, 1)'
    BY <1>14, <2>1, RegistrationMakesUsers DEF CommitRegister
  <2>3. CallMoves
    BY <1>14, <2>1, <2>2, CredentialsMove DEF CommitRegister
  <2> QED BY <1>14, <2>2, <2>3, <1>s DEF CommitRegister
<1>15. ASSUME NEW k \in Caller, RefuseRefresh(k) PROVE Goal
  <2>1. PICK r \in AnyCall : r = call[k] /\ CallFresh(r)
    BY <1>0
  <2>2. r.s \in Session /\ session[r.s].status # "NONE"
    BY <1>15, <2>1, CallFields DEF RefuseRefresh, CallFresh
  <2>3. SessionMoves
    BY <1>15, <2>1, <2>2, RevokeMoves DEF RefuseRefresh
  <2> QED BY <1>15, <2>3, <1>s, CallReturns DEF RefuseRefresh
<1>16. ASSUME NEW k \in Caller, CheckRefresh(k) PROVE Goal
  <2>1. call[k].s \in Session
    BY <1>0, <1>16, CallFields DEF CheckRefresh
  <2> DEFINE r == [op |-> "rotate", s |-> call[k].s]
  <2>2. r \in AnyCall /\ r.op = "rotate"
    BY <2>1 DEF AnyCall, SessionCall
  <2>3. GoOn(k, r) /\ UNCHANGED <<otpVars, sessionVars>>
    BY <1>16 DEF CheckRefresh
  <2> HIDE DEF r
  <2> QED BY <2>2, <2>3, <1>s, CallMovesOn
<1>17. ASSUME NEW k \in Caller, CommitRotate(k) PROVE Goal
  <2>1. call[k].s \in Session
    BY <1>0, <1>17, CallFields DEF CommitRotate
  <2>2. session' \in [Session -> SessionRow]
    BY <1>0, <1>17, <2>1 DEF CommitRotate, SessionRow
  <2>3. ASSUME NEW t \in Session
        PROVE  /\ session'[t].status = session[t].status
               /\ session'[t].user = session[t].user
               /\ session'[t].version = session[t].version
               /\ session'[t].password = session[t].password
    BY <1>0, <1>17, <2>1 DEF CommitRotate, SessionRow
  <2>4. SessionMoves
    BY <2>2, <2>3 DEF SessionMoves, SessionFresh
  <2> QED BY <1>17, <2>4, <1>s, CallReturns DEF CommitRotate
<1>18. ASSUME NEW k \in Caller, CommitLogoutAll(k) PROVE Goal
  <2>1. PICK r \in AnyCall : r = call[k]
    BY <1>0
  <2>2. r.u \in User /\ (r.op = "profile" => r.active \in BOOLEAN)
    BY <1>18, <2>1, CallFields DEF CommitLogoutAll
  <2>3. user' \in [User -> UserRow]
    BY <1>0, <1>18, <2>1, <2>2 DEF CommitLogoutAll, UserRow
  <2>4. ASSUME NEW w \in User, user[w].exists
        PROVE  /\ user'[w].exists
               /\ \/ user'[w].version > user[w].version
                  \/ user'[w].version = user[w].version /\ user'[w].password = user[w].password
    BY <1>0, <1>18, <2>1, <2>2, <2>4 DEF CommitLogoutAll, UserRow
  <2>5. UserMoves
    BY <2>3, <2>4 DEF UserMoves
  <2> QED BY <1>18, <2>5, <1>s, CallReturns DEF CommitLogoutAll
<1>19. ASSUME NEW k \in Caller, ConsumeResetOtp(k) PROVE Goal
  <2>1. call[k].c \in Challenge
    BY <1>0, <1>19, CallFields DEF ConsumeResetOtp
  <2>2. PICK u \in User : u = otp[call[k].c].to
    BY <2>1 DEF AccountInv, AccountTypeOK, OtpRow
  <2>3. OtpMoves
    BY <1>19, <2>1, <2>2, UseIsBacked DEF ConsumeResetOtp, Purpose
  <2> DEFINE r == [op |-> "setPassword", u |-> u]
  <2>4. r \in AnyCall /\ r.op = "setPassword"
    BY DEF AnyCall, SessionCall
  <2>5. GoOn(k, r) /\ UNCHANGED sessionVars
    BY <1>19, <2>2 DEF ConsumeResetOtp
  <2> HIDE DEF r
  <2> QED BY <2>3, <2>4, <2>5, <1>s, CallMovesOn
<1>20. ASSUME NEW k \in Caller, CommitReset(k) PROVE Goal
  <2>1. call[k].u \in User
    BY <1>0, <1>20, CallFields DEF CommitReset
  <2> QED BY <1>20, <2>1, <1>s, SetPasswordMoves, CallReturns DEF CommitReset
<1>21. ASSUME NEW k \in Caller, CommitChangePassword(k) PROVE Goal
  <2>1. session[call[k].s].user \in User
    BY <1>0, <1>21, CallFields DEF CommitChangePassword
  <2> QED BY <1>21, <2>1, <1>s, SetPasswordMoves, CallReturns DEF CommitChangePassword
<1>22. ASSUME NEW k \in Caller, CommitUpdateProfile(k) PROVE Goal
  <2>1. PICK r \in AnyCall : r = call[k]
    BY <1>0
  <2>2. r.u \in User /\ (r.op = "profile" => r.active \in BOOLEAN)
    BY <1>22, <2>1, CallFields DEF CommitUpdateProfile
  <2>3. user' \in [User -> UserRow]
    BY <1>0, <1>22, <2>1, <2>2 DEF CommitUpdateProfile, UserRow
  <2>4. ASSUME NEW w \in User, user[w].exists
        PROVE  /\ user'[w].exists
               /\ \/ user'[w].version > user[w].version
                  \/ user'[w].version = user[w].version /\ user'[w].password = user[w].password
    BY <1>0, <1>22, <2>1, <2>2, <2>4 DEF CommitUpdateProfile, UserRow
  <2>5. UserMoves
    BY <2>3, <2>4 DEF UserMoves
  <2> QED BY <1>22, <2>5, <1>s, CallReturns DEF CommitUpdateProfile
<1>23. ASSUME NEW k \in Caller, CommitRemoveUser(k) PROVE Goal
  <2>1. PICK r \in AnyCall : r = call[k]
    BY <1>0
  <2>2. r.u \in User /\ (r.op = "profile" => r.active \in BOOLEAN)
    BY <1>23, <2>1, CallFields DEF CommitRemoveUser
  <2>3. user' \in [User -> UserRow]
    BY <1>0, <1>23, <2>1, <2>2 DEF CommitRemoveUser, UserRow
  <2>4. ASSUME NEW w \in User, user[w].exists
        PROVE  /\ user'[w].exists
               /\ \/ user'[w].version > user[w].version
                  \/ user'[w].version = user[w].version /\ user'[w].password = user[w].password
    BY <1>0, <1>23, <2>1, <2>2, <2>4 DEF CommitRemoveUser, UserRow
  <2>5. UserMoves
    BY <2>3, <2>4 DEF UserMoves
  <2> QED BY <1>23, <2>5, <1>s, CallReturns DEF CommitRemoveUser
<1>24. ASSUME NEW k \in Caller, CommitRestoreUser(k) PROVE Goal
  <2>1. PICK r \in AnyCall : r = call[k]
    BY <1>0
  <2>2. r.u \in User /\ (r.op = "profile" => r.active \in BOOLEAN)
    BY <1>24, <2>1, CallFields DEF CommitRestoreUser
  <2>3. user' \in [User -> UserRow]
    BY <1>0, <1>24, <2>1, <2>2 DEF CommitRestoreUser, UserRow
  <2>4. ASSUME NEW w \in User, user[w].exists
        PROVE  /\ user'[w].exists
               /\ \/ user'[w].version > user[w].version
                  \/ user'[w].version = user[w].version /\ user'[w].password = user[w].password
    BY <1>0, <1>24, <2>1, <2>2, <2>4 DEF CommitRestoreUser, UserRow
  <2>5. UserMoves
    BY <2>3, <2>4 DEF UserMoves
  <2> QED BY <1>24, <2>5, <1>s, CallReturns DEF CommitRestoreUser
<1>25. ASSUME NEW s \in Session, Logout(s) PROVE Goal
  BY <1>25, <1>s, RevokeMoves DEF Logout
<1>26. ASSUME NEW s \in Session, NEW by \in Session, RevokeSession(s, by) PROVE Goal
  BY <1>26, <1>s, RevokeMoves DEF RevokeSession
<1>27. ASSUME NEW s \in Session, SessionRunsOut(s) PROVE Goal
  <2>1. session' \in [Session -> SessionRow]
    BY <1>0, <1>27 DEF SessionRunsOut, SessionRow
  <2>2. ASSUME NEW t \in Session
        PROVE  /\ session'[t].status # "NONE" <=> session[t].status # "NONE"
               /\ session[t].status = "REVOKED" => session'[t].status = "REVOKED"
               /\ session'[t].user = session[t].user
               /\ session'[t].version = session[t].version
               /\ session'[t].password = session[t].password
    BY <1>0, <1>27 DEF SessionRunsOut, SessionRow
  <2>3. SessionMoves
    BY <2>1, <2>2 DEF SessionMoves, SessionFresh
  <2> QED BY <1>27, <2>3, <1>s DEF SessionRunsOut
<1>28. ASSUME CleanupSessions PROVE Goal
  <2>1. session' \in [Session -> SessionRow]
    BY <1>0, <1>28 DEF CleanupSessions, SessionRow
  <2>2. ASSUME NEW t \in Session
        PROVE  /\ session'[t].status # "NONE" <=> session[t].status # "NONE"
               /\ session[t].status = "REVOKED" => session'[t].status = "REVOKED"
               /\ session'[t].user = session[t].user
               /\ session'[t].version = session[t].version
               /\ session'[t].password = session[t].password
    BY <1>0, <1>28 DEF CleanupSessions, SessionRow
  <2>3. SessionMoves
    BY <2>1, <2>2 DEF SessionMoves, SessionFresh
  <2> QED BY <1>28, <2>3, <1>s DEF CleanupSessions
<1> HIDE DEF Goal
<1>99. Goal
  BY <1>1, <1>2, <1>3, <1>4, <1>5, <1>6, <1>7, <1>8, <1>9, <1>10, <1>11, <1>12,
     <1>13, <1>14, <1>15, <1>16, <1>17, <1>18, <1>19, <1>20, <1>21, <1>22, <1>23, <1>24,
     <1>25, <1>26, <1>27, <1>28
     DEF SessionStep
<1> QED BY <1>99 DEF Goal

-----------------------------------------------------------------------------
(* Invites and members.                                                    *)

\* What an acceptance knows stays as it is between its steps.
LEMMA AcceptanceGoesOn ==
    ASSUME NEW r \in AnyCall, r.op \in {"seat", "member"}, NEW op \in {"member", "join"}
    PROVE  [r EXCEPT !.op = op] \in AnyCall /\ [r EXCEPT !.op = op].op = op
<1>1. r \in [op: {"seat", "member", "join"}, u: User, i: Invite]
  <2>1. CASE r \in OtpCall
    BY <2>1 DEF OtpCall, Idle
  <2>2. CASE r \in SessionCall
    BY <2>2 DEF SessionCall
  <2>3. CASE r \in TeamCall
    BY <2>3 DEF TeamCall
  <2>4. CASE r \in DraftCall
    BY <2>4 DEF DraftCall
  <2> QED BY <2>1, <2>2, <2>3, <2>4 DEF AnyCall
<1>2. /\ [r EXCEPT !.op = op] \in [op: {"seat", "member", "join"}, u: User, i: Invite]
      /\ [r EXCEPT !.op = op].op = op
  BY <1>1
<1> QED BY <1>2 DEF AnyCall, TeamCall

LEMMA TeamActionMoves ==
    ASSUME AccountInv, TeamStep
    PROVE  OtpMoves /\ CallMoves /\ UserMoves /\ SessionMoves /\ InviteMoves
<1> DEFINE Goal == OtpMoves /\ CallMoves /\ UserMoves /\ SessionMoves /\ InviteMoves
<1>0. /\ member \in [User -> Company \cup {NoCompany}]
      /\ invite \in [Invite -> InviteRow]
      /\ \A k \in Caller : call[k] \in AnyCall
      /\ \A j \in Invite : InviteFits(j)
  BY CallsAre DEF AccountInv, AccountTypeOK
<1>s. /\ UNCHANGED otpVars => OtpMoves
      /\ UNCHANGED call => CallMoves
      /\ UNCHANGED teamVars => InviteMoves
      /\ UNCHANGED sessionVars => UserMoves /\ SessionMoves
  BY OtpStays, CallStays, UserStays, SessionStays, InviteStays DEF sessionVars
<1>1. ASSUME NEW k \in Caller, NEW co \in Company, NEW u \in User, BeginInvite(k, co, u) PROVE Goal
  <2> DEFINE r == [op |-> "invite", u |-> u, co |-> co]
  <2>1. r \in AnyCall /\ r.op = "invite"
    BY <1>0 DEF AnyCall, TeamCall
  <2>2. Begin(k, r) /\ UNCHANGED <<otpVars, sessionVars, teamVars>>
    BY <1>1 DEF BeginInvite, TeamRest
  <2> HIDE DEF r
  <2> QED BY <2>1, <2>2, <1>s, CallMovesOn
<1>2. ASSUME NEW k \in Caller, NEW co \in Company, NEW u \in User, NEW to \in {co, NoCompany}, BeginUpdateMembership(k, co, u, to) PROVE Goal
  <2> DEFINE r == [op |-> "membership", u |-> u, co |-> to]
  <2>1. r \in AnyCall /\ r.op = "membership"
    BY <1>0 DEF AnyCall, TeamCall
  <2>2. Begin(k, r) /\ UNCHANGED <<otpVars, sessionVars, teamVars>>
    BY <1>2 DEF BeginUpdateMembership, TeamRest
  <2> HIDE DEF r
  <2> QED BY <2>1, <2>2, <1>s, CallMovesOn
<1>3. ASSUME NEW k \in Caller, NEW i \in Invite, CreateInvite(k, i) PROVE Goal
  <2>1. call[k].co \in Company /\ call[k].u \in User
    BY <1>0, <1>3, CallFields DEF CreateInvite
  <2>2. invite' \in [Invite -> InviteRow] /\ member' = member
    BY <1>0, <1>3, <2>1 DEF CreateInvite, InviteRow
  <2>3. ASSUME NEW j \in Invite PROVE InviteFits(j)'
    BY <1>0, <1>3, <2>2, <2>1 DEF CreateInvite, InviteFits, InviteRow
  <2>4. InviteMoves
    BY <1>0, <2>2, <2>3 DEF InviteMoves
  <2> QED BY <1>3, <2>4, <1>s, CallReturns DEF CreateInvite, TeamRest
<1>4. ASSUME NEW k \in Caller, NEW i \in Invite, BeginRevokeInvite(k, i) PROVE Goal
  <2> DEFINE r == [op |-> "revoke", i |-> i]
  <2>1. r \in AnyCall /\ r.op = "revoke"
    BY <1>0 DEF AnyCall, TeamCall
  <2>2. Begin(k, r) /\ UNCHANGED <<otpVars, sessionVars, teamVars>>
    BY <1>4 DEF BeginRevokeInvite, TeamRest
  <2> HIDE DEF r
  <2> QED BY <2>1, <2>2, <1>s, CallMovesOn
<1>5. ASSUME NEW k \in Caller, NEW u \in User, NEW i \in Invite, NEW c \in Challenge, BeginAccept(k, u, i, c) PROVE Goal
  <2> DEFINE r == [op |-> "accept", u |-> u, i |-> i, c |-> c]
  <2>1. r \in AnyCall /\ r.op = "accept"
    BY <1>0 DEF AnyCall, TeamCall
  <2>2. Begin(k, r) /\ UNCHANGED <<otpVars, sessionVars, teamVars>>
    BY <1>5 DEF BeginAccept, TeamRest
  <2> HIDE DEF r
  <2> QED BY <2>1, <2>2, <1>s, CallMovesOn
<1>6. ASSUME NEW i \in Invite, InviteRunsOut(i) PROVE Goal
  <2>2. invite' \in [Invite -> InviteRow] /\ member' = member
    BY <1>0, <1>6 DEF InviteRunsOut, InviteRow
  <2>3. ASSUME NEW j \in Invite PROVE InviteFits(j)'
    BY <1>0, <1>6, <2>2 DEF InviteRunsOut, InviteFits, InviteRow
  <2>4. InviteMoves
    BY <1>0, <2>2, <2>3 DEF InviteMoves
  <2> QED BY <1>6, <2>4, <1>s DEF InviteRunsOut, TeamRest
<1>7. ASSUME NEW i \in Invite, ExpireInvite(i) PROVE Goal
  <2>2. invite' \in [Invite -> InviteRow] /\ member' = member
    BY <1>0, <1>7 DEF ExpireInvite, InviteRow
  <2>3. ASSUME NEW j \in Invite PROVE InviteFits(j)'
    BY <1>0, <1>7, <2>2 DEF ExpireInvite, InviteFits, InviteRow
  <2>4. InviteMoves
    BY <1>0, <2>2, <2>3 DEF InviteMoves
  <2> QED BY <1>7, <2>4, <1>s DEF ExpireInvite, TeamRest
<1>8. ASSUME NEW k \in Caller, CommitRevokeInvite(k) PROVE Goal
  <2>1. call[k].i \in Invite
    BY <1>0, <1>8, CallFields DEF CommitRevokeInvite
  <2>2. invite' \in [Invite -> InviteRow] /\ member' = member
    BY <1>0, <1>8, <2>1 DEF CommitRevokeInvite, InviteRow
  <2>3. ASSUME NEW j \in Invite PROVE InviteFits(j)'
    BY <1>0, <1>8, <2>2, <2>1 DEF CommitRevokeInvite, InviteFits, InviteRow
  <2>4. InviteMoves
    BY <1>0, <2>2, <2>3 DEF InviteMoves
  <2> QED BY <1>8, <2>4, <1>s, CallReturns DEF CommitRevokeInvite, TeamRest
<1>9. ASSUME NEW k \in Caller, ConsumeInviteOtp(k) PROVE Goal
  <2>1. call[k].u \in User /\ call[k].i \in Invite /\ call[k].c \in Challenge
    BY <1>0, <1>9, CallFields DEF ConsumeInviteOtp
  <2>2. OtpMoves
    BY <1>9, <2>1, UseIsBacked DEF ConsumeInviteOtp, Purpose
  <2> DEFINE r == [op |-> "seat", u |-> call[k].u, i |-> call[k].i]
  <2>3. r \in AnyCall /\ r.op = "seat"
    BY <2>1 DEF AnyCall, TeamCall
  <2>4. GoOn(k, r) /\ UNCHANGED <<sessionVars, teamVars>>
    BY <1>9 DEF ConsumeInviteOtp
  <2> HIDE DEF r
  <2> QED BY <2>2, <2>3, <2>4, <1>s, CallMovesOn
<1>10. ASSUME NEW k \in Caller, CheckSeat(k) PROVE Goal
  <2>1. PICK r \in AnyCall : r = [call[k] EXCEPT !.op = "member"] /\ r.op = "member"
    BY <1>0, <1>10, AcceptanceGoesOn DEF CheckSeat
  <2>2. GoOn(k, r) /\ UNCHANGED <<otpVars, sessionVars, teamVars>>
    BY <1>10, <2>1 DEF CheckSeat, TeamRest
  <2> QED BY <2>1, <2>2, <1>s, CallMovesOn
<1>11. ASSUME NEW k \in Caller, ReadMember(k) PROVE Goal
  <2>1. PICK r \in AnyCall : r = [call[k] EXCEPT !.op = "join"] /\ r.op = "join"
    BY <1>0, <1>11, AcceptanceGoesOn DEF ReadMember
  <2>2. GoOn(k, r) /\ UNCHANGED <<otpVars, sessionVars, teamVars>>
    BY <1>11, <2>1 DEF ReadMember, TeamRest
  <2> QED BY <2>1, <2>2, <1>s, CallMovesOn
<1>12. ASSUME NEW k \in Caller, CommitAccept(k) PROVE Goal
  <2>1. call[k].u \in User /\ call[k].i \in Invite
    BY <1>0, <1>12, CallFields DEF CommitAccept
  <2>2. invite' \in [Invite -> InviteRow]
    BY <1>0, <1>12, <2>1 DEF CommitAccept, Join, InviteRow
  <2>3. member' \in [User -> Company \cup {NoCompany}]
    BY <1>0, <1>12, <2>1 DEF CommitAccept, Join, InviteRow
  <2>4. ASSUME NEW j \in Invite PROVE InviteFits(j)'
    BY <1>0, <1>12, <2>1 DEF CommitAccept, Join, InviteFits, InviteRow
  <2>5. InviteMoves
    BY <2>2, <2>3, <2>4 DEF InviteMoves
  <2> QED BY <1>12, <2>5, <1>s, CallReturns DEF CommitAccept, Join, TeamRest
<1>13. ASSUME NEW k \in Caller, CommitUpdateMembership(k) PROVE Goal
  <2>1. call[k].u \in User /\ call[k].co \in Company \cup {NoCompany}
    BY <1>0, <1>13, CallFields DEF CommitUpdateMembership
  <2>2. member' \in [User -> Company \cup {NoCompany}] /\ invite' = invite
    BY <1>0, <1>13, <2>1 DEF CommitUpdateMembership
  <2>3. InviteMoves
    BY <1>0, <2>2 DEF InviteMoves, InviteFits
  <2> QED BY <1>13, <2>3, <1>s, CallReturns DEF CommitUpdateMembership, TeamRest
<1>14. ASSUME NEW k \in Caller, NEW u \in User, RestoreMember(k, u) PROVE Goal
  <2> DEFINE r == [op |-> "restore", u |-> u]
  <2>1. r \in AnyCall /\ r.op = "restore"
    BY <1>0 DEF AnyCall, SessionCall
  <2>2. Begin(k, r) /\ UNCHANGED <<otpVars, sessionVars, teamVars>>
    BY <1>14 DEF RestoreMember, BeginRestoreUser
  <2> HIDE DEF r
  <2> QED BY <2>1, <2>2, <1>s, CallMovesOn
<1> HIDE DEF Goal
<1>99. Goal
  BY <1>1, <1>2, <1>3, <1>4, <1>5, <1>6, <1>7, <1>8, <1>9, <1>10, <1>11, <1>12,
     <1>13, <1>14
     DEF TeamStep
<1> QED BY <1>99 DEF Goal

-----------------------------------------------------------------------------
(* Registration.                                                           *)

\* Drafts move, and no account is made.
LEMMA DraftRowsMove ==
    ASSUME AccountInv, draft' \in [Draft -> DraftRow], UNCHANGED <<origin, companies, user>>,
           \A d \in Draft :
             /\ draft'[d].status = "COMPLETED" => draft[d].status = "COMPLETED"
             /\ draft[d].status # "NONE" =>
                  /\ draft'[d].status # "NONE"
                  /\ draft'[d].kind = draft[d].kind
                  /\ draft'[d].email = draft[d].email
    PROVE  DraftMoves
<1>0. /\ origin \in [User -> Draft \cup {NoDraft}]
      /\ companies \in [User -> Nat]
      /\ RegisteredOnce
      /\ \A u \in User : OriginFits(u)
  BY DEF AccountInv, AccountTypeOK
<1>1. ASSUME NEW u \in User PROVE OriginFits(u)'
  BY <1>0 DEF OriginFits
<1>2. ASSUME NEW d \in Draft, draft'[d].status = "COMPLETED" PROVE origin'[draft'[d].email] = d
  BY <1>0, <1>2 DEF RegisteredOnce
<1>3. ASSUME NEW u \in User
      PROVE  companies'[u] = IF origin'[u] # NoDraft /\ draft'[origin'[u]].kind = "COMPANY"
                             THEN 1 ELSE 0
  <2>1. CASE origin[u] = NoDraft
    BY <1>0, <2>1 DEF RegisteredOnce
  <2>2. CASE origin[u] # NoDraft
    <3>1. origin[u] \in Draft /\ draft[origin[u]].status # "NONE"
      BY <1>0, <2>2 DEF OriginFits
    <3>2. draft'[origin[u]].kind = draft[origin[u]].kind
      BY <3>1
    <3> QED BY <1>0, <3>2 DEF RegisteredOnce
  <2> QED BY <2>1, <2>2
<1> QED BY <1>0, <1>1, <1>2, <1>3 DEF DraftMoves, RegisteredOnce

\* An account is made from a draft whose email was free.
LEMMA CompletionMoves ==
    ASSUME AccountInv, NEW k \in Caller, NEW kind \in Kind, EmailIsFree(k), CompleteAs(k, kind)
    PROVE  OtpMoves /\ CallMoves /\ UserMoves /\ SessionMoves /\ DraftMoves
<1>0. /\ draft \in [Draft -> DraftRow]
      /\ origin \in [User -> Draft \cup {NoDraft}]
      /\ companies \in [User -> Nat]
      /\ RegisteredOnce
      /\ \A u \in User : OriginFits(u)
  BY DEF AccountInv, AccountTypeOK
<1>1. PICK d \in Draft : d = call[k].d
  BY CallsAre, CallFields DEF EmailIsFree
<1>2. PICK u \in User : u = draft[d].email
  BY <1>0 DEF DraftRow
<1>3. /\ ~user[u].exists
      /\ draft[d].kind = kind
      /\ user' = [user EXCEPT ![u] = NewUser]
      /\ origin' = [origin EXCEPT ![u] = d]
      /\ companies' = [companies EXCEPT ![u] = @ + IF kind = "COMPANY" THEN 1 ELSE 0]
      /\ draft' = [draft EXCEPT ![d].status = "COMPLETED"]
      /\ GoOn(k, [op |-> "open", u |-> u, version |-> 1, password |-> 1])
      /\ UNCHANGED <<otpVars, session>>
  BY <1>1, <1>2 DEF EmailIsFree, CompleteAs
<1>4. UserMoves /\ Fresh(u, 1, 1)'
  BY <1>3, RegistrationMakesUsers
<1>5. OtpMoves /\ SessionMoves /\ CallMoves
  BY <1>3, <1>4, CredentialsMove, OtpStays, SessionStays
<1>6. /\ draft' \in [Draft -> DraftRow]
      /\ origin' \in [User -> Draft \cup {NoDraft}]
      /\ companies' \in [User -> Nat]
  BY <1>0, <1>3 DEF DraftRow
<1>7. origin[u] = NoDraft /\ companies[u] = 0
  BY <1>0, <1>3 DEF OriginFits, RegisteredOnce
<1>8. ASSUME NEW w \in User PROVE OriginFits(w)'
  BY <1>0, <1>3, <1>4 DEF OriginFits, UserMoves, Fresh, DraftRow
<1>9. ASSUME NEW e \in Draft, draft'[e].status = "COMPLETED" PROVE origin'[draft'[e].email] = e
  <2>1. CASE e = d
    BY <1>0, <1>2, <1>3, <2>1 DEF DraftRow
  <2>2. CASE e # d
    <3>1. draft'[e] = draft[e] /\ draft[e].status = "COMPLETED"
      BY <1>0, <1>3, <1>9, <2>2
    <3>2. origin[draft[e].email] = e /\ draft[e].email \in User
      BY <1>0, <3>1 DEF RegisteredOnce, DraftRow
    <3>3. draft[e].email # u
      BY <1>7, <3>2, OtpAssumption DEF OtpAssumption
    <3> QED BY <1>0, <1>3, <3>1, <3>2, <3>3
  <2> QED BY <2>1, <2>2
<1>10. ASSUME NEW e \in Draft PROVE draft'[e].kind = draft[e].kind
  BY <1>0, <1>3 DEF DraftRow
<1>11. ASSUME NEW w \in User
       PROVE  companies'[w] = IF origin'[w] # NoDraft /\ draft'[origin'[w]].kind = "COMPANY"
                              THEN 1 ELSE 0
  <2>1. CASE w = u
    <3>1. origin'[w] = d /\ d # NoDraft
      BY <1>0, <1>3, <2>1, OtpAssumption DEF OtpAssumption
    <3>2. companies'[w] = IF kind = "COMPANY" THEN 1 ELSE 0
      BY <1>0, <1>3, <1>7, <2>1
    <3> QED BY <1>3, <1>10, <3>1, <3>2
  <2>2. CASE w # u
    <3>1. companies'[w] = companies[w] /\ origin'[w] = origin[w]
      BY <1>0, <1>3, <2>2
    <3>2. origin[w] # NoDraft => draft'[origin[w]].kind = draft[origin[w]].kind
      BY <1>0, <1>10
    <3> QED BY <1>0, <3>1, <3>2 DEF RegisteredOnce
  <2> QED BY <2>1, <2>2
<1>12. RegisteredOnce'
  BY <1>9, <1>11 DEF RegisteredOnce
<1> QED BY <1>4, <1>5, <1>6, <1>8, <1>12 DEF DraftMoves

LEMMA DraftActionMoves ==
    ASSUME AccountInv, DraftStep
    PROVE  OtpMoves /\ CallMoves /\ UserMoves /\ SessionMoves /\ DraftMoves
<1> DEFINE Goal == OtpMoves /\ CallMoves /\ UserMoves /\ SessionMoves /\ DraftMoves
<1>0. /\ draft \in [Draft -> DraftRow]
      /\ \A k \in Caller : call[k] \in AnyCall
  BY CallsAre DEF AccountInv, AccountTypeOK
<1>s. /\ UNCHANGED otpVars => OtpMoves
      /\ UNCHANGED call => CallMoves
      /\ UNCHANGED sessionVars => UserMoves /\ SessionMoves
      /\ UNCHANGED <<sessionVars, draftVars>> => DraftMoves
  BY OtpStays, CallStays, UserStays, SessionStays, DraftStays DEF sessionVars
<1>r. DraftRest => /\ OtpMoves /\ UserMoves /\ SessionMoves
                   /\ UNCHANGED <<origin, companies, user>>
  BY <1>s DEF DraftRest, sessionVars
<1>1. ASSUME NEW k \in Caller, NEW u \in User, StartRegistration(k, u) PROVE Goal
  BY <1>1, <1>s, RequestMoves DEF StartRegistration, Purpose
<1>2. ASSUME NEW k \in Caller, NEW d \in Draft, CreateDraft(k, d) PROVE Goal
  <2>1. call[k].to \in User /\ call[k].c \in Challenge
    BY <1>0, <1>2, CallFields DEF CreateDraft
  <2>2. draft' \in [Draft -> DraftRow]
    BY <1>0, <1>2, <2>1 DEF CreateDraft, DraftRow
  <2>3. ASSUME NEW e \in Draft
        PROVE  /\ draft'[e].status = "COMPLETED" => draft[e].status = "COMPLETED"
               /\ draft[e].status # "NONE" =>
                    /\ draft'[e].status # "NONE"
                    /\ draft'[e].kind = draft[e].kind
                    /\ draft'[e].email = draft[e].email
    BY <1>0, <1>2, <2>1 DEF CreateDraft, DraftRow
  <2>4. DraftRest
    BY <1>2 DEF CreateDraft
  <2>5. DraftMoves
    BY <2>2, <2>3, <2>4, <1>r, DraftRowsMove
  <2>6. CallMoves
    BY <1>2, <1>s, CallReturns DEF CreateDraft
  <2> QED BY <2>4, <2>5, <2>6, <1>r
<1>3. ASSUME NEW k \in Caller, NEW d \in Draft, BeginVerifyDraft(k, d) PROVE Goal
  <2>1. draft[d].c \in Challenge
    BY <1>0 DEF DraftRow
  <2> QED BY <1>3, <2>1, <1>s, VerifyMoves DEF BeginVerifyDraft
<1>4. ASSUME NEW k \in Caller, NEW d \in Draft, BeginComplete(k, d) PROVE Goal
  <2> DEFINE r == [op |-> "complete", d |-> d]
  <2>1. r \in AnyCall /\ r.op = "complete"
    BY DEF AnyCall, DraftCall
  <2>2. Begin(k, r) /\ UNCHANGED <<otpVars, sessionVars, draftVars>>
    BY <1>4 DEF BeginComplete, DraftRest, draftVars
  <2> HIDE DEF r
  <2> QED BY <2>1, <2>2, <1>s, CallMovesOn
<1>5. ASSUME NEW k \in Caller, MarkDraftVerified(k) PROVE Goal
  <2>1. call[k].d \in Draft
    BY <1>0, <1>5, CallFields DEF MarkDraftVerified
  <2>2. draft' \in [Draft -> DraftRow]
    BY <1>0, <1>5, <2>1 DEF MarkDraftVerified, DraftRow
  <2>3. ASSUME NEW e \in Draft
        PROVE  /\ draft'[e].status = "COMPLETED" => draft[e].status = "COMPLETED"
               /\ draft[e].status # "NONE" =>
                    /\ draft'[e].status # "NONE"
                    /\ draft'[e].kind = draft[e].kind
                    /\ draft'[e].email = draft[e].email
    BY <1>0, <1>5, <2>1 DEF MarkDraftVerified, DraftRow
  <2>4. DraftRest
    BY <1>5 DEF MarkDraftVerified
  <2>5. DraftMoves
    BY <2>2, <2>3, <2>4, <1>r, DraftRowsMove
  <2>6. CallMoves
    BY <1>5, <1>s, CallReturns DEF MarkDraftVerified
  <2> QED BY <2>4, <2>5, <2>6, <1>r
<1>6. ASSUME NEW k \in Caller, CompleteJobSeeker(k) PROVE Goal
  BY <1>6, CompletionMoves DEF CompleteJobSeeker, Kind
<1>7. ASSUME NEW k \in Caller, CompleteCompany(k) PROVE Goal
  BY <1>7, CompletionMoves DEF CompleteCompany, Kind
<1>8. ASSUME NEW d \in Draft, DraftRunsOut(d) PROVE Goal
  <2>2. draft' \in [Draft -> DraftRow]
    BY <1>0, <1>8 DEF DraftRunsOut, DraftRow
  <2>3. ASSUME NEW e \in Draft
        PROVE  /\ draft'[e].status = "COMPLETED" => draft[e].status = "COMPLETED"
               /\ draft[e].status # "NONE" =>
                    /\ draft'[e].status # "NONE"
                    /\ draft'[e].kind = draft[e].kind
                    /\ draft'[e].email = draft[e].email
    BY <1>0, <1>8 DEF DraftRunsOut, DraftRow
  <2>4. DraftRest
    BY <1>8 DEF DraftRunsOut
  <2>5. DraftMoves
    BY <2>2, <2>3, <2>4, <1>r, DraftRowsMove
  <2>6. CallMoves
    BY <1>8, <1>s DEF DraftRunsOut
  <2> QED BY <2>4, <2>5, <2>6, <1>r
<1>9. ASSUME NEW old \in SUBSET Draft, CleanupDrafts(old) PROVE Goal
  <2>2. draft' \in [Draft -> DraftRow]
    BY <1>0, <1>9 DEF CleanupDrafts, DraftRow
  <2>3. ASSUME NEW e \in Draft
        PROVE  /\ draft'[e].status = "COMPLETED" => draft[e].status = "COMPLETED"
               /\ draft[e].status # "NONE" =>
                    /\ draft'[e].status # "NONE"
                    /\ draft'[e].kind = draft[e].kind
                    /\ draft'[e].email = draft[e].email
    BY <1>0, <1>9 DEF CleanupDrafts, DraftRow
  <2>4. DraftRest
    BY <1>9 DEF CleanupDrafts
  <2>5. DraftMoves
    BY <2>2, <2>3, <2>4, <1>r, DraftRowsMove
  <2>6. CallMoves
    BY <1>9, <1>s DEF CleanupDrafts
  <2> QED BY <2>4, <2>5, <2>6, <1>r
<1> HIDE DEF Goal
<1>99. Goal
  BY <1>1, <1>2, <1>3, <1>4, <1>5, <1>6, <1>7, <1>8, <1>9 DEF DraftStep
<1> QED BY <1>99 DEF Goal

-----------------------------------------------------------------------------
(* The invariant.                                                          *)

LEMMA AccountsStart == AccountInit => AccountInv
<1> SUFFICES ASSUME AccountInit PROVE AccountInv
  OBVIOUS
<1>1. /\ (CHOOSE u \in User : TRUE) \in User
      /\ (CHOOSE c \in Challenge : TRUE) \in Challenge
      /\ (CHOOSE co \in Company : TRUE) \in Company
  BY OtpAssumption, TeamAssumption DEF OtpAssumption, TeamAssumption
<1>2. otp \in [Challenge -> OtpRow] /\ credit \in [Challenge -> Int]
  BY <1>1 DEF AccountInit, OtpInit, NewOtp, OtpRow, OtpStatus, Purpose
<1>3. call \in [Caller -> OtpCall \cup SessionCall \cup TeamCall \cup DraftCall]
  BY DEF AccountInit, OtpInit, OtpCall
<1>4. user \in [User -> UserRow] /\ session \in [Session -> SessionRow]
  BY <1>1 DEF AccountInit, SessionInit, Nobody, UserRow, SessionRow
<1>5. member \in [User -> Company \cup {NoCompany}] /\ invite \in [Invite -> InviteRow]
  BY <1>1 DEF AccountInit, TeamInit, InviteRow
<1>6. /\ draft \in [Draft -> DraftRow]
      /\ origin \in [User -> Draft \cup {NoDraft}]
      /\ companies \in [User -> Nat]
  BY <1>1 DEF AccountInit, DraftInit, DraftRow, Kind
<1>7. AccountTypeOK
  BY <1>2, <1>3, <1>4, <1>5, <1>6 DEF AccountTypeOK
<1>8. \A c \in Challenge : Backed(c)
  BY DEF AccountInit, OtpInit, NewOtp, Backed
<1>9. \A k \in Caller : CallFresh(call[k])
  BY DEF AccountInit, OtpInit, Idle, CallFresh
<1>10. \A s \in Session : SessionFresh(s)
  BY DEF AccountInit, SessionInit, SessionFresh
<1>11. \A i \in Invite : InviteFits(i)
  BY DEF AccountInit, TeamInit, InviteFits
<1>12. (\A u \in User : OriginFits(u)) /\ RegisteredOnce
  BY DEF AccountInit, DraftInit, OriginFits, RegisteredOnce
<1> QED BY <1>7, <1>8, <1>9, <1>10, <1>11, <1>12 DEF AccountInv

LEMMA StepsAreMoves == AccountInv /\ [AccountNext]_accountVars => Moves
<1> SUFFICES ASSUME AccountInv, [AccountNext]_accountVars PROVE Moves
  OBVIOUS
<1>s. /\ UNCHANGED otpVars => OtpMoves
      /\ UNCHANGED call => CallMoves
      /\ UNCHANGED sessionVars => UserMoves /\ SessionMoves
      /\ UNCHANGED teamVars => InviteMoves
      /\ UserMoves /\ UNCHANGED draftVars => DraftMoves
  BY OtpStays, CallStays, UserStays, SessionStays, InviteStays, DraftStays DEF sessionVars
<1>1. CASE OtpStep /\ UNCHANGED <<sessionVars, teamVars, draftVars>>
  BY <1>1, <1>s, OtpActionMoves DEF Moves
<1>2. CASE SessionStep /\ UNCHANGED <<teamVars, draftVars>>
  BY <1>2, <1>s, SessionActionMoves DEF Moves
<1>3. CASE TeamStep /\ UNCHANGED draftVars
  BY <1>3, <1>s, TeamActionMoves DEF Moves
<1>4. CASE DraftStep /\ UNCHANGED teamVars
  BY <1>4, <1>s, DraftActionMoves DEF Moves
<1>5. CASE DropCall
  BY <1>5, <1>s, CallReturns DEF DropCall, Drop, Moves
<1>6. CASE UNCHANGED accountVars
  BY <1>6, <1>s DEF accountVars, Moves
<1> QED BY <1>1, <1>2, <1>3, <1>4, <1>5, <1>6 DEF AccountNext

LEMMA AccountsMove == AccountInv /\ [AccountNext]_accountVars => AccountInv'
BY StepsAreMoves, MovesKeepInv

\* What the tables and the overlapping calls keep true of each other; the other
\* theorems are read off it.
THEOREM AccountsAreSound == AccountSpec => []AccountInv
<1>1. AccountInit => AccountInv
  BY AccountsStart
<1>2. AccountInv /\ [AccountNext]_accountVars => AccountInv'
  BY AccountsMove
<1> QED BY <1>1, <1>2, PTL DEF AccountSpec

\* Users, sessions, challenges, drafts and invites stay as their tables
\* declare them, whatever calls overlap.
THEOREM AccountTypeCorrect == AccountSpec => []AccountTypeOK
<1>1. AccountInv => AccountTypeOK
  BY DEF AccountInv
<1> QED BY <1>1, AccountsAreSound, PTL

\* A code that was typed once lets one login, reset, registration or
\* acceptance through, never two.
THEOREM EachUseIsBacked == AccountSpec => []EachUseIsVerified
<1>1. AccountInv => EachUseIsVerified
  BY DEF AccountInv, AccountTypeOK, Backed, EachUseIsVerified
<1> QED BY <1>1, AccountsAreSound, PTL

\* After a change or a reset of the password no token that an earlier password
\* obtained is accepted, although logins and refreshes overlap with it.
THEOREM OldPasswordsDie == AccountSpec => []OldPasswordsAreDead
<1>1. AccountInv => OldPasswordsAreDead
  BY DEF AccountInv, SessionFresh, Fresh, Accepted, OldPasswordsAreDead
<1> QED BY <1>1, AccountsAreSound, PTL

\* An invite lets one acceptance through.
THEOREM InvitesAreSingleUse == AccountSpec => []InviteUsedOnce
<1>1. AccountInv => InviteUsedOnce
  BY DEF AccountInv, InviteFits, InviteUsedOnce
<1> QED BY <1>1, AccountsAreSound, PTL

\* One account for a draft that was completed, and a company only with it.
THEOREM RegistrationsAreSingle == AccountSpec => []RegisteredOnce
<1>1. AccountInv => RegisteredOnce
  BY DEF AccountInv
<1> QED BY <1>1, AccountsAreSound, PTL

\* No overlap of refreshes, logins, logouts and changes of password opens a
\* revoked session again or makes an outdated token good again.
THEOREM EndedSessionsStayEnded == AccountSpec => EndedStaysEnded
<1>1. AccountInv /\ [AccountNext]_accountVars =>
        [\A s \in Session : session[s].status # "NONE" =>
           /\ session[s].status = "REVOKED" => session'[s].status = "REVOKED"
           /\ Outdated(s) => Outdated(s)']_sessionVars
  <2> SUFFICES ASSUME AccountInv, Moves, NEW s \in Session, session[s].status # "NONE"
               PROVE  /\ session[s].status = "REVOKED" => session'[s].status = "REVOKED"
                      /\ Outdated(s) => Outdated(s)'
    BY StepsAreMoves
  <2> DEFINE u == session[s].user
  <2>1. /\ u \in User /\ user[u].exists
        /\ session[s].version <= user[u].version
        /\ session[s].version \in Nat /\ user[u].version \in Nat /\ user'[u].version \in Nat
    BY DEF AccountInv, AccountTypeOK, SessionRow, UserRow, SessionFresh, Fresh, Moves, UserMoves
  <2>2. session'[s].user = u /\ session'[s].version = session[s].version
    BY DEF Moves, SessionMoves
  <2>3. user'[u].version >= user[u].version
    BY <2>1 DEF Moves, UserMoves
  <2>4. Outdated(s) => Outdated(s)'
    BY <2>1, <2>2, <2>3 DEF Outdated
  <2> QED BY <2>4 DEF Moves, SessionMoves
<1> QED BY <1>1, AccountsAreSound, PTL DEF AccountSpec, EndedStaysEnded
=============================================================================
