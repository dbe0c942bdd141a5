--------------------------- MODULE OtpChallenges ---------------------------
(***************************************************************************)
(* One-time passwords: AuthOtpChallenge rows, as requested, verified, sent  *)
(* again, consumed, expired and purged.                                     *)
(*                                                                          *)
(* An API call is a caller of "call": what it has read and decided, and     *)
(* not yet written.  verifyOtp and resendOtp read the row, decide, and      *)
(* write it by id; a consumer's UPDATE repeats its conditions.  Every call  *)
(* may be dropped between two of its statements (a refusal, an error, the   *)
(* end of the process), so refusals are not listed one by one.              *)
(*                                                                          *)
(* The email channel only: an address stands for the user it belongs to, or *)
(* could belong to.  Codes are right or wrong, and mail delivery, previews  *)
(* and the rate limits of the routes are left out.  Time is left open: a    *)
(* row may be past its expiresAt ("late") from any moment on.               *)
(***************************************************************************)
EXTENDS Integers, FiniteSets

CONSTANTS
    User,           \* email addresses
    Challenge,
    Draft,          \* registration drafts
    NoDraft,
    Caller,         \* API calls the processes handle at the same time
    MaxTries,       \* AUTH_OTP_MAX_ATTEMPTS
    MaxResends      \* AUTH_OTP_MAX_RESENDS

ASSUME OtpAssumption ==
    /\ MaxTries \in Nat \ {0} /\ MaxResends \in Nat
    /\ NoDraft \notin Draft
    /\ User # {} /\ Challenge # {}

VARIABLES
    otp,            \* the challenges
    credit,         \* history: verifications of each challenge less its uses
    call            \* what each API call has decided

otpVars == <<otp, credit>>

-----------------------------------------------------------------------------

Purpose == {"REGISTER_VERIFY", "FORGOT_PASSWORD", "LOGIN_MFA", "INVITE_ACCEPT"}
OtpStatus == {"PENDING", "VERIFIED", "EXPIRED", "LOCKED", "CANCELED"}

OtpRow == [status: OtpStatus \cup {"NONE", "PURGED"}, purpose: Purpose, to: User,
           tries: Nat, resends: Nat, late: BOOLEAN]

Idle == [op |-> "idle"]
OtpCall ==
    {Idle}
    \cup [op: {"send"}, to: User, purpose: Purpose, registering: BOOLEAN]
    \cup [op: {"pass"}, c: Challenge, d: Draft \cup {NoDraft}]
    \cup [op: {"fail"}, c: Challenge, tries: Nat]
    \cup [op: {"resend"}, c: Challenge]

NewOtp(status, purpose, u) ==
    [status |-> status, purpose |-> purpose, to |-> u, tries |-> 0, resends |-> 0,
     late |-> FALSE]

OtpInit ==
    /\ otp = [c \in Challenge |-> NewOtp("NONE", "LOGIN_MFA", CHOOSE u \in User : TRUE)]
    /\ credit = [c \in Challenge |-> 0]
    /\ call = [k \in Caller |-> Idle]

Begin(k, r) == call[k] = Idle /\ call' = [call EXCEPT ![k] = r]
GoOn(k, r) == call' = [call EXCEPT ![k] = r]
Return(k) == GoOn(k, Idle)

Drop(k) ==
    /\ call[k] # Idle
    /\ Return(k)
    /\ UNCHANGED otpVars

-----------------------------------------------------------------------------
(* POST /auth/otp/request, and the calls that request a code themselves.   *)

\* cancelPendingOtpChallenges, before the mail is sent.
CancelPending(u, purpose) ==
    otp' = [c \in Challenge |->
               IF otp[c].to = u /\ otp[c].purpose = purpose /\ otp[c].status = "PENDING"
               THEN [otp[c] EXCEPT !.status = "CANCELED"] ELSE otp[c]]

BeginRequestOtp(k, u, purpose, registering) ==
    /\ Begin(k, [op |-> "send", to |-> u, purpose |-> purpose, registering |-> registering])
    /\ CancelPending(u, purpose)
    /\ UNCHANGED credit

\* createOtpChallenge, after the mail was sent.
CreateChallenge(k, c) ==
    /\ call[k].op = "send"
    /\ otp[c].status = "NONE"
    /\ otp' = [otp EXCEPT ![c] = NewOtp("PENDING", call[k].purpose, call[k].to)]
    /\ GoOn(k, IF call[k].registering THEN [op |-> "draft", to |-> call[k].to, c |-> c]
               ELSE Idle)
    /\ UNCHANGED credit

-----------------------------------------------------------------------------
(* POST /auth/otp/verify and /auth/otp/resend.                             *)

\* The row is read, and the code compared with the hash that was read.
BeginVerify(k, c, d) ==
    /\ otp[c].status = "PENDING" /\ ~otp[c].late
    /\ \/ Begin(k, [op |-> "pass", c |-> c, d |-> d])
       \/ Begin(k, [op |-> "fail", c |-> c, tries |-> otp[c].tries])
    /\ UNCHANGED otpVars

\* A row the cleanup job has purged cannot be updated by id.
Present(c) == otp[c].status # "PURGED"

\* markOtpVerified; the status is not looked at again.
PassVerify(k) ==
    /\ call[k].op = "pass" /\ Present(call[k].c)
    /\ LET c == call[k].c
           d == call[k].d
       IN  /\ otp' = [otp EXCEPT ![c].status = "VERIFIED"]
           /\ credit' = [credit EXCEPT ![c] = @ + 1]
           /\ GoOn(k, IF d = NoDraft THEN Idle ELSE [op |-> "mark", d |-> d])

\* markOtpAttempt: the count is incremented, but the lock is decided by the
\* count that was read.
FailVerify(k) ==
    /\ call[k].op = "fail" /\ Present(call[k].c)
    /\ otp' = [otp EXCEPT ![call[k].c].tries = @ + 1,
                          ![call[k].c].status =
                              IF call[k].tries + 1 >= MaxTries THEN "LOCKED" ELSE @]
    /\ Return(k)
    /\ UNCHANGED credit

\* markOtpExpired, by a verification or a resend that comes too late.
ExpireOnUse(c) ==
    /\ otp[c].status = "PENDING" /\ otp[c].late
    /\ otp' = [otp EXCEPT ![c].status = "EXPIRED"]
    /\ UNCHANGED <<credit, call>>

BeginResend(k, c) ==
    /\ otp[c].status = "PENDING" /\ ~otp[c].late
    /\ otp[c].resends < MaxResends
    /\ Begin(k, [op |-> "resend", c |-> c])
    /\ UNCHANGED otpVars

\* MUTANT of CommitResend: the counter is of the resends left.
CommitResendDown(k) ==
    /\ call[k].op = "resend" /\ Present(call[k].c)
    /\ otp' = [otp EXCEPT ![call[k].c].resends = @ - 1, ![call[k].c].late = FALSE]
    /\ Return(k)
    /\ UNCHANGED credit

\* rotateOtpCode: a new code and a new expiresAt.
CommitResend(k) ==
    /\ call[k].op = "resend" /\ Present(call[k].c)
    /\ otp' = [otp EXCEPT ![call[k].c].resends = @ + 1, ![call[k].c].late = FALSE]
    /\ Return(k)
    /\ UNCHANGED credit

-----------------------------------------------------------------------------
(* Consumers.                                                              *)

Use(c) ==
    /\ otp' = [otp EXCEPT ![c].status = "CANCELED"]
    /\ credit' = [credit EXCEPT ![c] = @ - 1]

\* MUTANT of Consume: the UPDATE relies on the status that was read before.
ConsumeRead(c, purpose, u) ==
    /\ Present(c) /\ otp[c].purpose = purpose /\ otp[c].to = u
    /\ Use(c)

\* consumeVerifiedOtpChallenge, consumeVerifiedInviteOtp.
Consume(c, purpose, u) ==
    /\ otp[c].status = "VERIFIED" /\ otp[c].purpose = purpose /\ otp[c].to = u
    /\ ~otp[c].late
    /\ Use(c)

-----------------------------------------------------------------------------
(* Time, and the cleanup job.                                              *)

OtpRunsOut(c) ==
    /\ otp[c].status # "NONE" /\ ~otp[c].late
    /\ otp' = [otp EXCEPT ![c].late = TRUE]
    /\ UNCHANGED <<credit, call>>

CleanupExpire ==
    /\ \E c \in Challenge : otp[c].status = "PENDING" /\ otp[c].late
    /\ otp' = [c \in Challenge |->
                 IF otp[c].status = "PENDING" /\ otp[c].late
                 THEN [otp[c] EXCEPT !.status = "EXPIRED"] ELSE otp[c]]
    /\ UNCHANGED <<credit, call>>

\* Rows that ended a week ago are deleted; which these are is left open.
CleanupPurge(old) ==
    /\ old # {}
    /\ \A c \in old : otp[c].status \in {"CANCELED", "EXPIRED", "LOCKED"} /\ otp[c].late
    /\ otp' = [c \in Challenge |->
                 IF c \in old THEN [otp[c] EXCEPT !.status = "PURGED"] ELSE otp[c]]
    /\ UNCHANGED <<credit, call>>

OtpStep ==
    \/ \E k \in Caller : PassVerify(k) \/ FailVerify(k) \/ CommitResend(k)
    \/ \E k \in Caller, c \in Challenge :
         CreateChallenge(k, c) \/ BeginVerify(k, c, NoDraft) \/ BeginResend(k, c)
    \/ \E c \in Challenge : ExpireOnUse(c) \/ OtpRunsOut(c)
    \/ CleanupExpire
    \/ \E old \in SUBSET Challenge : CleanupPurge(old)

-----------------------------------------------------------------------------

\* Every use of a challenge (a reset, a login, a registration, an invite
\* accepted) is backed by a verification of its own: the code typed once lets
\* one of several overlapping requests through, not all.
EachUseIsVerified == \A c \in Challenge : credit[c] >= 0
=============================================================================
