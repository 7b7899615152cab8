------------------------ MODULE OrganizationsService ------------------------
(***************************************************************************)
(* OrganizationsService: a company registers and is approved or rejected,   *)
(* its owners invite staff by mail and remove members.  updateMine() writes *)
(* a name only.                                                             *)
(***************************************************************************)
EXTENDS AuthService, Sequences

CONSTANTS
    Org,          \* ids of Organization rows
    Invitation,   \* ids of Invitation rows
    SeedOwners    \* for each organization that is ACTIVE at the start its owners

VARIABLES
    organizations,  \* Organization.status
    reviewLog,      \* AuditLog actions with that organization as target, by commit
    members,        \* UserOrganizationRole, which is unique
    invitations,    \* Invitation
    joined,         \* how often a user was given a role in an organization
    removed         \* <<user, organization>> for each removal so far

orgTables == <<organizations, reviewLog, members, invitations, joined, removed>>

\* RECRUITER stands for every role that is not the owner's.
Role == {"COMPANY_OWNER", "RECRUITER"}
Membership == Email \X Org \X Role

\* SUSPENDED is a status, too, that nothing writes.
OrganizationStatus == {"PENDING_APPROVAL", "ACTIVE", "REJECTED"}
Review == {"ACTIVE", "REJECTED"}

\* A row that cancelInvitation() deleted is kept, marked as deleted.
InvitationRow ==
    [org: Org, email: Email, role: Role, accepted: BOOLEAN, deleted: BOOLEAN]

ASSUME OrganizationAssumption ==
    /\ SeedOwners \in [Org -> SUBSET SeedUsers]
    /\ None \notin OrganizationStatus /\ None \notin InvitationRow

Founders ==
    {m \in Membership : m[1] \in SeedOwners[m[2]] /\ m[3] = "COMPANY_OWNER"}

OrgTablesInit ==
    /\ organizations = [o \in Org |-> IF SeedOwners[o] = {} THEN None ELSE "ACTIVE"]
    /\ reviewLog = [o \in Org |-> IF SeedOwners[o] = {} THEN <<>> ELSE <<"ACTIVE">>]
    /\ members = Founders
    /\ invitations = [i \in Invitation |-> None]
    /\ joined = [m \in Membership |-> IF m \in Founders THEN 1 ELSE 0]
    /\ removed = {}

Organizations == {o \in Org : organizations[o] # None}
Invitations == {i \in Invitation : invitations[i] # None /\ ~ invitations[i].deleted}
Owners(o) == {e \in Email : <<e, o, "COMPANY_OWNER">> \in members}

\* An invitation's expiresAt is left out: one that expires is as good as never sent.
Pending(i) == i \in Invitations /\ ~ invitations[i].accepted

\* The bound on invitations: an id is left for each request on its way to one.
RoomForInvitation ==
    Cardinality({r \in Request : req[r].pc \in {"findMember", "findPending", "invite"}})
        < Cardinality({i \in Invitation : invitations[i] = None})

Grant(m) ==
    /\ members' = members \cup {m}
    /\ joined' = [joined EXCEPT ![m] = @ + 1]

-----------------------------------------------------------------------------
(* registerOrganization(): account, its token, organization and owner in    *)
(* one $transaction, rolled back when the email is taken (P2002).           *)

RegisterOrganization(r, o, e) ==
    /\ Arrives(r)
    /\ RoomForMailToken
    /\ organizations[o] = None
    /\ IF e \in Registered
       THEN UNCHANGED <<accountTables, organizations, members, joined>>
       ELSE /\ users' = [users EXCEPT ![e] = NewUser(FALSE)]
            /\ \E m \in MailToken \ MailTokens :
                 mailTokens' = [mailTokens EXCEPT ![m] = NewMailToken(e, "EMAIL_VERIFICATION")]
            /\ organizations' = [organizations EXCEPT ![o] = "PENDING_APPROVAL"]
            /\ Grant(<<e, o, "COMPANY_OWNER">>)
    /\ Finish(r)
    /\ UNCHANGED <<sessionTables, lapsed, reviewLog, invitations, removed>>

-----------------------------------------------------------------------------
(* approve() and reject(): a $transaction that reads the status, and writes *)
(* it by id along with an audit row.                                        *)

ReviewRead(r, o) ==
    /\ Arrives(r)
    /\ o \in Organizations
    /\ IF organizations[o] = "PENDING_APPROVAL"
       THEN \E status \in Review : Goto(r, [pc |-> "review", org |-> o, status |-> status])
       ELSE Finish(r)
    /\ UNCHANGED <<accountTables, sessionTables, lapsed, orgTables>>

\* Mutation of ReviewWrite: only an approval is audited.
ReviewWriteUnaudited(r) ==
    /\ At(r, "review")
    /\ organizations' = [organizations EXCEPT ![req[r].org] = req[r].status]
    /\ reviewLog' = [reviewLog EXCEPT ![req[r].org] =
           IF req[r].status = "ACTIVE" THEN Append(@, "ACTIVE") ELSE @]
    /\ Finish(r)
    /\ UNCHANGED <<accountTables, sessionTables, lapsed, members, invitations, joined, removed>>

ReviewWrite(r) ==
    /\ At(r, "review")
    /\ organizations' = [organizations EXCEPT ![req[r].org] = req[r].status]
    /\ reviewLog' = [reviewLog EXCEPT ![req[r].org] = Append(@, req[r].status)]
    /\ Finish(r)
    /\ UNCHANGED <<accountTables, sessionTables, lapsed, members, invitations, joined, removed>>

-----------------------------------------------------------------------------
(* inviteStaff(): the organization is read ACTIVE, the invitee holds not yet *)
(* the role, no invitation is pending, and then the row is inserted.         *)

InviteRead(r, o, e, role) ==
    /\ Arrives(r)
    /\ RoomForInvitation
    /\ o \in Organizations
    /\ Goto(r, IF organizations[o] = "ACTIVE"
               THEN [pc |-> "findMember", org |-> o, email |-> e, role |-> role]
               ELSE Done)
    /\ UNCHANGED <<accountTables, sessionTables, lapsed, orgTables>>

\* The account is looked up first: who has none holds no role.
InviteFindMember(r) ==
    /\ At(r, "findMember")
    /\ Goto(r, IF <<req[r].email, req[r].org, req[r].role>> \in members THEN Done
               ELSE [req[r] EXCEPT !.pc = "findPending"])
    /\ UNCHANGED <<accountTables, sessionTables, lapsed, orgTables>>

InviteFindPending(r) ==
    /\ At(r, "findPending")
    /\ LET same == {i \in Invitation : /\ Pending(i)
                                       /\ invitations[i].org = req[r].org
                                       /\ invitations[i].email = req[r].email
                                       /\ invitations[i].role = req[r].role}
       IN  \/ same # {} /\ Finish(r)
           \/ Goto(r, [req[r] EXCEPT !.pc = "invite"])  \* none, or they have expired
    /\ UNCHANGED <<accountTables, sessionTables, lapsed, orgTables>>

NewInvitation(o, e, role) ==
    [org |-> o, email |-> e, role |-> role, accepted |-> FALSE, deleted |-> FALSE]

InviteInsert(r) ==
    /\ At(r, "invite")
    /\ \E i \in Invitation :
         /\ invitations[i] = None
         /\ invitations' = [invitations EXCEPT ![i] =
                NewInvitation(req[r].org, req[r].email, req[r].role)]
    /\ Finish(r)
    /\ UNCHANGED <<accountTables, sessionTables, lapsed,
                   organizations, reviewLog, members, joined, removed>>

-----------------------------------------------------------------------------
(* cancelInvitation() deletes by id a row it read as pending;                *)
(* acceptInvitation() reads it, too, and then in one $transaction claims it  *)
(* if it is still not accepted, makes the account if there is none, and      *)
(* gives the role if it is not held.                                         *)

OnPending(r, i, pc) ==
    /\ Arrives(r)
    /\ i \in Invitations
    /\ Goto(r, IF invitations[i].accepted THEN Done ELSE [pc |-> pc, invitation |-> i])
    /\ UNCHANGED <<accountTables, sessionTables, lapsed, orgTables>>

\* P2025 when another request has deleted it.
CancelDelete(r) ==
    LET i == req[r].invitation
    IN  /\ At(r, "cancel")
        /\ IF i \in Invitations
           THEN invitations' = [invitations EXCEPT ![i].deleted = TRUE]
           ELSE UNCHANGED invitations
        /\ Finish(r)
        /\ UNCHANGED <<accountTables, sessionTables, lapsed,
                       organizations, reviewLog, members, joined, removed>>

\* Without a name and a password there is no account to make, and a concurrent
\* insert of the same account or role is a P2002: the claim is rolled back, too.
AcceptRollsBack(r) ==
    /\ At(r, "accept")
    /\ Finish(r)
    /\ UNCHANGED <<accountTables, sessionTables, lapsed, orgTables>>

\* Mutation of AcceptClaim: the update is not conditional on acceptedAt: null.
AcceptClaimAgain(r) ==
    LET i == req[r].invitation
        e == invitations[i].email
        m == <<e, invitations[i].org, invitations[i].role>>
    IN  /\ At(r, "accept")
        /\ i \in Invitations
        /\ invitations' = [invitations EXCEPT ![i].accepted = TRUE]
        /\ users' = [users EXCEPT ![e] = IF e \in Registered THEN @ ELSE NewUser(TRUE)]
        /\ IF m \in members THEN UNCHANGED <<members, joined>> ELSE Grant(m)
        /\ Finish(r)
        /\ UNCHANGED <<mailTokens, sessionTables, lapsed, organizations, reviewLog, removed>>

\* Mutation of AcceptClaim: only a new account is given the role.
AcceptClaimNewcomers(r) ==
    LET i == req[r].invitation
        e == invitations[i].email
    IN  /\ At(r, "accept")
        /\ Pending(i)
        /\ invitations' = [invitations EXCEPT ![i].accepted = TRUE]
        /\ users' = [users EXCEPT ![e] = IF e \in Registered THEN @ ELSE NewUser(TRUE)]
        /\ IF e \in Registered THEN UNCHANGED <<members, joined>>
           ELSE Grant(<<e, invitations[i].org, invitations[i].role>>)
        /\ Finish(r)
        /\ UNCHANGED <<mailTokens, sessionTables, lapsed, organizations, reviewLog, removed>>

AcceptClaim(r) ==
    LET i == req[r].invitation
        e == invitations[i].email
        m == <<e, invitations[i].org, invitations[i].role>>
    IN  /\ At(r, "accept")
        /\ Pending(i)
        /\ invitations' = [invitations EXCEPT ![i].accepted = TRUE]
        /\ users' = [users EXCEPT ![e] = IF e \in Registered THEN @ ELSE NewUser(TRUE)]
        /\ IF m \in members THEN UNCHANGED <<members, joined>> ELSE Grant(m)
        /\ Finish(r)
        /\ UNCHANGED <<mailTokens, sessionTables, lapsed, organizations, reviewLog, removed>>

-----------------------------------------------------------------------------
(* removeMember(): the roles of the member are read; if the owner's is among *)
(* them the owners are counted; then all the member's rows are deleted.  The *)
(* caller is someone else whose access token names them as an owner: they    *)
(* are one, or were removed while the token had still to run.                *)

RemoveRead(r, o, e) ==
    /\ Arrives(r)
    /\ \E actor \in Email \ {e} : joined[<<actor, o, "COMPANY_OWNER">>] > 0
    /\ Goto(r, IF e \in Owners(o) THEN [pc |-> "countOwners", org |-> o, email |-> e]
               ELSE IF \E role \in Role : <<e, o, role>> \in members
               THEN [pc |-> "removeMember", org |-> o, email |-> e]
               ELSE Done)
    /\ UNCHANGED <<accountTables, sessionTables, lapsed, orgTables>>

RemoveCountOwners(r) ==
    /\ At(r, "countOwners")
    /\ Goto(r, IF Cardinality(Owners(req[r].org)) <= 1 THEN Done
               ELSE [req[r] EXCEPT !.pc = "removeMember"])
    /\ UNCHANGED <<accountTables, sessionTables, lapsed, orgTables>>

RemoveDelete(r) ==
    LET o == req[r].org
        e == req[r].email
    IN  /\ At(r, "removeMember")
        /\ members' = members \ {<<e, o, role>> : role \in Role}
        /\ removed' = removed \cup {<<e, o>>}
        /\ Finish(r)
        /\ UNCHANGED <<accountTables, sessionTables, lapsed,
                       organizations, reviewLog, invitations, joined>>

-----------------------------------------------------------------------------
OrganizationsController(r) ==
    \/ \E o \in Org :
         \/ \E e \in Email : RegisterOrganization(r, o, e) \/ RemoveRead(r, o, e)
         \/ ReviewRead(r, o)
         \/ \E e \in Email, role \in Role : InviteRead(r, o, e, role)
    \/ \E i \in Invitation : OnPending(r, i, "cancel")

InvitationsController(r) == \E i \in Invitation : OnPending(r, i, "accept")

BeginOrganization(r) == OrganizationsController(r) \/ InvitationsController(r)

ContinueOrganization(r) ==
    \/ ReviewWrite(r)
    \/ InviteFindMember(r)
    \/ InviteFindPending(r)
    \/ InviteInsert(r)
    \/ CancelDelete(r)
    \/ AcceptRollsBack(r)
    \/ AcceptClaim(r)
    \/ RemoveCountOwners(r)
    \/ RemoveDelete(r)
=============================================================================
