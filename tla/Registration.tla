---------------------------- MODULE Registration ----------------------------
(***************************************************************************)
(* The registration wizard: a draft with its code, verified, then completed *)
(* as a job seeker or as a company, which creates the account (and the      *)
(* company with its FREE subscription) in one transaction.                  *)
(*                                                                          *)
(* That transaction reads the draft and later marks it completed by id;     *)
(* what keeps two of them apart is the unique email of users.  A company's  *)
(* founder is not one of its members in CompanyTeam, where the acting admin *)
(* is outside User.                                                         *)
(***************************************************************************)
EXTENDS Sessions

VARIABLES
    draft,          \* RegistrationDraft rows
    origin,         \* history: the draft each account was made from
    companies       \* companies founded with each email

draftVars == <<draft, origin, companies>>

Kind == {"JOB_SEEKER", "COMPANY"}
DraftRow == [status: {"NONE", "OPEN", "COMPLETED", "PURGED"}, kind: Kind, email: User,
             c: Challenge, verified: BOOLEAN, late: BOOLEAN]
DraftCall ==
    [op: {"draft"}, to: User, c: Challenge]
    \cup [op: {"mark", "complete"}, d: Draft]

DraftInit ==
    /\ draft = [d \in Draft |-> [status |-> "NONE", kind |-> "COMPANY",
                                 email |-> CHOOSE u \in User : TRUE,
                                 c |-> CHOOSE c \in Challenge : TRUE,
                                 verified |-> FALSE, late |-> FALSE]]
    /\ origin = [u \in User |-> NoDraft]
    /\ companies = [u \in User |-> 0]

DraftRest == UNCHANGED <<origin, companies, otpVars, sessionVars>>

-----------------------------------------------------------------------------

StartRegistration(k, u) ==
    /\ BeginRequestOtp(k, u, "REGISTER_VERIFY", TRUE)
    /\ UNCHANGED <<sessionVars, draftVars>>

CreateDraft(k, d) ==
    /\ call[k].op = "draft"
    /\ draft[d].status = "NONE"
    /\ \E kind \in Kind :
         draft' = [draft EXCEPT ![d] = [status |-> "OPEN", kind |-> kind, email |-> call[k].to,
                                        c |-> call[k].c, verified |-> FALSE, late |-> FALSE]]
    /\ Return(k)
    /\ DraftRest

BeginVerifyDraft(k, d) ==
    /\ draft[d].status = "OPEN" /\ ~draft[d].late
    /\ BeginVerify(k, draft[d].c, d)
    /\ UNCHANGED <<sessionVars, draftVars>>

\* markRegistrationOtpVerified.
MarkDraftVerified(k) ==
    /\ call[k].op = "mark"
    /\ draft[call[k].d].status # "PURGED"
    /\ draft' = [draft EXCEPT ![call[k].d].verified = TRUE]
    /\ Return(k)
    /\ DraftRest

\* complete...Registration reads the draft.
BeginComplete(k, d) ==
    /\ draft[d].status = "OPEN" /\ draft[d].verified /\ ~draft[d].late
    /\ Begin(k, [op |-> "complete", d |-> d])
    /\ UNCHANGED draft /\ DraftRest

CompleteAs(k, kind) ==
    /\ call[k].op = "complete"
    /\ LET d == call[k].d
           u == draft[d].email
       IN  /\ draft[d].kind = kind /\ draft[d].status # "PURGED"
           /\ user' = [user EXCEPT ![u] = NewUser]
           /\ origin' = [origin EXCEPT ![u] = d]
           /\ companies' = [companies EXCEPT ![u] = @ + IF kind = "COMPANY" THEN 1 ELSE 0]
           /\ draft' = [draft EXCEPT ![d].status = "COMPLETED"]
           /\ GoOn(k, [op |-> "open", u |-> u, version |-> 1, password |-> 1])
    /\ UNCHANGED <<otpVars, session>>

\* User.email is unique: where it is taken all is rolled back.
EmailIsFree(k) ==
    call[k].op = "complete" /\ ~user[draft[call[k].d].email].exists

CompleteJobSeeker(k) == EmailIsFree(k) /\ CompleteAs(k, "JOB_SEEKER")

\* MUTANT of CompleteCompany: the company survives a taken email.
CompleteCompanyFirst(k) == CompleteAs(k, "COMPANY")

CompleteCompany(k) == EmailIsFree(k) /\ CompleteAs(k, "COMPANY")

DraftRunsOut(d) ==
    /\ draft[d].status \in {"OPEN", "COMPLETED"} /\ ~draft[d].late
    /\ draft' = [draft EXCEPT ![d].late = TRUE]
    /\ UNCHANGED call /\ DraftRest

\* The cleanup job deletes what was never completed, and completed drafts
\* after a week.
CleanupDrafts(old) ==
    /\ old # {} /\ \A d \in old : draft[d].status \in {"OPEN", "COMPLETED"} /\ draft[d].late
    /\ \A d \in Draft : draft[d].status = "OPEN" /\ draft[d].late => d \in old
    /\ draft' = [d \in Draft |->
                   IF d \in old THEN [draft[d] EXCEPT !.status = "PURGED"] ELSE draft[d]]
    /\ UNCHANGED call /\ DraftRest

DraftStep ==
    \/ \E k \in Caller, u \in User : StartRegistration(k, u)
    \/ \E k \in Caller, d \in Draft :
         CreateDraft(k, d) \/ BeginVerifyDraft(k, d) \/ BeginComplete(k, d)
    \/ \E k \in Caller :
         MarkDraftVerified(k) \/ CompleteJobSeeker(k) \/ CompleteCompany(k)
    \/ \E d \in Draft : DraftRunsOut(d)
    \/ \E old \in SUBSET Draft : CleanupDrafts(old)

-----------------------------------------------------------------------------

\* An account is registered once: however the completions of one draft, or of
\* two drafts for one address, overlap, a completed draft is the one its
\* account was made from, and a company exists only together with the account
\* of the one who founded it.
RegisteredOnce ==
    /\ \A d \in Draft :
         draft[d].status = "COMPLETED" => origin[draft[d].email] = d
    /\ \A u \in User :
         companies[u] = IF origin[u] # NoDraft /\ draft[origin[u]].kind = "COMPANY" THEN 1 ELSE 0
=============================================================================
