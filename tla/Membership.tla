----------------------------- MODULE Membership -----------------------------
(***************************************************************************)
(* Organizations and their staff: registration, review, invitation and      *)
(* removal, beside users who register an account of their own.              *)
(***************************************************************************)
EXTENDS OrganizationsService

vars == <<accountTables, sessionTables, lapsed, orgTables, req>>

Init == AccountTablesInit /\ SessionTablesInit /\ OrgTablesInit /\ RequestsInit

\* register() and verifyEmail() of AuthService, beside which invitations are accepted.
Account(r) ==
    /\ \/ \E e \in Email : CreateUserAccount(r, e)
       \/ CreateMailToken(r)
       \/ \E m \in MailToken : ClaimRead(r, m)
       \/ ClaimToken(r)
       \/ VerifyEmail(r)
    /\ UNCHANGED orgTables

Fail(r) ==
    /\ Fails(r)
    /\ UNCHANGED <<accountTables, sessionTables, lapsed, orgTables>>

\* No request is left to come.
Quiescent == AllDone /\ UNCHANGED vars

Next ==
    \/ \E r \in Request :
         BeginOrganization(r) \/ ContinueOrganization(r) \/ Account(r) \/ Fail(r)
    \/ Quiescent

Spec == Init /\ [][Next]_vars

-----------------------------------------------------------------------------
Approved(o) == \E k \in DOMAIN reviewLog[o] : reviewLog[o][k] = "ACTIVE"

\* Whatever reviews overlap, the audit log says what became of an organization:
\* its status is that of the latest entry, and it is pending while there is none.
\* approve() and reject() write both in one transaction.
ReviewsAreAudited ==
    \A o \in Organizations :
        organizations[o] = IF reviewLog[o] = <<>> THEN "PENDING_APPROVAL"
                           ELSE reviewLog[o][Len(reviewLog[o])]

\* Until it is approved an organization consists of the owner who registered it:
\* inviteStaff() reads ACTIVE, removeMember() needs a second owner.
OwnerAloneUntilApproved ==
    \A o \in Organizations : Approved(o) \/
        \E e \in Registered : {m \in members : m[2] = o} = {<<e, o, "COMPANY_OWNER">>}

Accepted(m) ==
    {i \in Invitation : /\ invitations[i] # None /\ invitations[i].accepted
                        /\ m = <<invitations[i].email, invitations[i].org, invitations[i].role>>}

\* An accepted invitation made its addressee, who has an account, a member with
\* the role invited to, until removed, and nothing else verifies an account but
\* a verification token that was used: the claim, the account and the role are
\* one transaction, whatever registers or verifies the same email meanwhile and
\* also when that rolls the acceptance back.
AcceptedAreMembers ==
    /\ \A m \in Membership : Accepted(m) # {} =>
         m \in members \/ <<m[1], m[2]>> \in removed
    /\ \A m \in members : m[1] \in Registered
    /\ \A e \in Registered \ SeedUsers : users[e].verified =>
         \/ \E m \in MailTokens : mailTokens[m].user = e /\ mailTokens[m].used
         \/ \E m \in Membership : m[1] = e /\ Accepted(m) # {}

\* A role was given at most once for each invitation accepted, and once to the
\* user who registered the organization: an invitation presented twice, or after
\* the member was removed, gives nothing.
AdmittedOncePerInvitation ==
    \A m \in Membership :
        joined[m] <= Cardinality(Accepted(m)) + (IF m[3] = "COMPANY_OWNER" THEN 1 ELSE 0)

-----------------------------------------------------------------------------
\* An organization keeps an owner: removeMember() refuses to remove the last.
OwnerRemains == \A o \in Organizations : Owners(o) # {}
=============================================================================
