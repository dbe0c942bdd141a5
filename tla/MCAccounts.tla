----------------------------- MODULE MCAccounts -----------------------------
(* Three questions in one run, told apart by the initial state: the        *)
(* sessions of one user (with a login MFA or without), invites of two      *)
(* companies for one user, and registrations of one address.  Each starts  *)
(* in a state the code gets to from AccountInit and takes the steps of its *)
(* own components, about its own user.                                     *)
EXTENDS Accounts, TLC

CONSTANTS u1, u2, c1, c2, co2

VARIABLES part, who, purpose

mcVars == <<accountVars, part, who, purpose>>

Registered == [u \in User |-> IF u = who THEN NewUser ELSE Nobody]
Verified(p) == [c \in Challenge |-> NewOtp("VERIFIED", p, who)]

LoginInit ==
    /\ part = "login"
    /\ \/ who = u1 /\ purpose = "FORGOT_PASSWORD" /\ user = Registered
       \/ who = u2 /\ purpose = "LOGIN_MFA" /\ user = Registered
       \/ who = u1 /\ purpose = "REGISTER_VERIFY" /\ user = [u \in User |-> Nobody]
    /\ OtpInit /\ TeamInit /\ DraftInit
    /\ session = [s \in Session |-> [status |-> "NONE", user |-> who, version |-> 0,
                                     password |-> 0, late |-> FALSE]]

TeamPartInit ==
    /\ part = "team" /\ who = u1 /\ purpose = "INVITE_ACCEPT"
    /\ otp = Verified("INVITE_ACCEPT") /\ credit = [c \in Challenge |-> 1]
    /\ call = [k \in Caller |-> Idle]
    /\ user = Registered
    /\ session = [s \in Session |-> [status |-> "NONE", user |-> who, version |-> 0,
                                     password |-> 0, late |-> FALSE]]
    /\ TeamInit /\ DraftInit

DraftPartInit ==
    /\ part = "register" /\ who = u1 /\ purpose = "REGISTER_VERIFY"
    /\ OtpInit /\ SessionInit /\ TeamInit /\ DraftInit

MCInit == LoginInit \/ TeamPartInit \/ DraftPartInit

\* What a part is about, and how much of it happens.
Focus ==
    /\ UNCHANGED <<part, who, purpose>>
    /\ \A c \in Challenge : otp'[c] # otp[c] =>
         /\ otp'[c].to = who /\ otp'[c].purpose = purpose
         /\ part = "login" => c = c1
    /\ \A k \in Caller : call'[k].op = "send" =>
         call'[k].to = who /\ call'[k].purpose = purpose
    /\ \A k \in Caller : call'[k].op \in {"profile", "remove"} =>
         part = "team" \/ purpose = "LOGIN_MFA"
    /\ \A k \in Caller : call'[k].op \in {"rotate", "bump"} => purpose # "LOGIN_MFA"
    /\ \A s \in Session : session'[s].late => purpose = "LOGIN_MFA"
    /\ \A k \in Caller : call'[k].op = "fail" => purpose # "REGISTER_VERIFY"
    /\ \A k \in Caller : call'[k].op = "resend" => purpose # "REGISTER_VERIFY"
    /\ part = "team" =>
         \A k \in Caller : call'[k].op \in {"remove", "restore"} => member[call'[k].u] # NoCompany
    /\ part = "team" =>
         \A k \in Caller : call'[k].op = "membership" => call'[k].co # co2

MembersStep ==
    \/ \E k \in Caller, u \in User : BeginRemoveUser(k, u)
    \/ \E k \in Caller : CommitRemoveUser(k) \/ CommitRestoreUser(k)

DraftOtpStep ==
    \E k \in Caller : PassVerify(k) \/ \E c \in Challenge : CreateChallenge(k, c)

MCNext ==
    /\ \/ part = "login" /\ OtpStep /\ UNCHANGED <<sessionVars, teamVars, draftVars>>
       \/ part = "register" /\ DraftOtpStep /\ UNCHANGED <<sessionVars, teamVars, draftVars>>
       \/ part = "login" /\ SessionStep /\ UNCHANGED <<teamVars, draftVars>>
       \/ part = "team" /\ TeamStep /\ UNCHANGED draftVars
       \/ part = "team" /\ MembersStep /\ UNCHANGED <<teamVars, draftVars>>
       \/ part = "register" /\ DraftStep /\ UNCHANGED teamVars
       \/ DropCall
    /\ Focus

MCSpec == MCInit /\ [][MCNext]_mcVars

Alike == Permutations(Caller) \cup Permutations(Session) \cup Permutations(Invite)
=============================================================================
