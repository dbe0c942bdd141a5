------------------------------ MODULE Accounts ------------------------------
(* One-time passwords, sessions, registration and teams together.          *)
EXTENDS CompanyTeam, Registration

accountVars == <<otpVars, call, sessionVars, teamVars, draftVars>>

AccountTypeOK ==
    /\ otp \in [Challenge -> OtpRow]
    /\ credit \in [Challenge -> Int]
    /\ call \in [Caller -> OtpCall \cup SessionCall \cup TeamCall \cup DraftCall]
    /\ user \in [User -> UserRow]
    /\ session \in [Session -> SessionRow]
    /\ member \in [User -> Company \cup {NoCompany}]
    /\ invite \in [Invite -> InviteRow]
    /\ draft \in [Draft -> DraftRow]
    /\ origin \in [User -> Draft \cup {NoDraft}]
    /\ companies \in [User -> Nat]

AccountInit == OtpInit /\ SessionInit /\ TeamInit /\ DraftInit

DropCall ==
    \E k \in Caller : Drop(k) /\ UNCHANGED <<sessionVars, teamVars, draftVars>>

AccountNext ==
    \/ OtpStep /\ UNCHANGED <<sessionVars, teamVars, draftVars>>
    \/ SessionStep /\ UNCHANGED <<teamVars, draftVars>>
    \/ TeamStep /\ UNCHANGED draftVars
    \/ DraftStep /\ UNCHANGED teamVars
    \/ DropCall

AccountSpec == AccountInit /\ [][AccountNext]_accountVars
=============================================================================
