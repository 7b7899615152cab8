-------------------------- MODULE Membership_proofs --------------------------
(***************************************************************************)
(* Theorems on organizations and their staff.  What a handler has read may  *)
(* have changed when it writes, but not that there is an account, a token,  *)
(* an invitation or an approval: the invariant speaks of these.             *)
(***************************************************************************)
EXTENDS Membership, FiniteSetTheorems, TLAPS

\* What is there to stay.
Proven == {e \in Email : \E m \in MailTokens : mailTokens[m].user = e /\ mailTokens[m].used}
ApprovedOrgs == {o \in Org : Approved(o)}
Sent == {i \in Invitation : invitations[i] # None}

RowsInv ==
    /\ req = [r \in Request |-> req[r]]
    /\ users \in [Email -> UserRow \cup {None}]
    /\ mailTokens \in [MailToken -> MailTokenRow \cup {None}]
    /\ organizations \in [Org -> OrganizationStatus \cup {None}]
    /\ reviewLog \in [Org -> Seq(Review)]
    /\ members \subseteq Membership
    /\ invitations \in [Invitation -> InvitationRow \cup {None}]
    /\ joined \in [Membership -> Nat]
    /\ removed \subseteq Email \X Org

\* Accounts, the tokens sent to them, and why they are verified.
AccountsInv ==
    /\ \A m \in MailTokens : mailTokens[m].user \in Registered
    /\ \A e \in Registered \ SeedUsers : users[e].verified =>
         e \in Proven \/ \E m \in Membership : m[1] = e /\ Accepted(m) # {}

\* An organization that is not registered has left no trace, one that is not approved
\* has the member it was registered by and has sent no invitation.
OrgsInv ==
    /\ ReviewsAreAudited
    /\ \A o \in Org \ Organizations : reviewLog[o] = <<>>
    /\ \A m \in Membership : m[2] \notin Organizations => m \notin members /\ joined[m] = 0
    /\ \A i \in Sent : invitations[i].org \in ApprovedOrgs
    /\ \A o \in Organizations \ ApprovedOrgs : \E e \in Registered :
         /\ <<e, o, "COMPANY_OWNER">> \in members
         /\ \A m \in Membership : m[2] = o /\ (m \in members \/ joined[m] > 0) =>
              m = <<e, o, "COMPANY_OWNER">>

\* Members have accounts, and who accepted an invitation is one until removed.
StaffInv ==
    /\ \A m \in members : m[1] \in Registered
    /\ \A m \in Membership : Accepted(m) # {} => m \in members \/ <<m[1], m[2]>> \in removed

\* What a request must hold for the next statement of its handler.
HandlerHolds(x, known, tokens, proven, approved, orgs, sent) ==
    /\ x.pc = "mailToken" => x.user \in known /\ x.purpose \in Purpose
    /\ x.pc = "claim" => x.token \in tokens
    /\ x.pc = "verify" => x.user \in known \cap proven
    /\ x.pc = "review" => x.org \in orgs /\ x.status \in Review
    /\ x.pc \in {"findMember", "findPending", "invite"} =>
         /\ x = [pc |-> x.pc, org |-> x.org, email |-> x.email, role |-> x.role]
         /\ x.org \in approved /\ x.email \in Email /\ x.role \in Role
    /\ x.pc \in {"countOwners", "removeMember"} =>
         /\ x = [pc |-> x.pc, org |-> x.org, email |-> x.email]
         /\ x.org \in approved /\ x.email \in Email
    /\ x.pc \in {"accept", "cancel"} => x.invitation \in sent

HandlersInv ==
    \A r \in Request : HandlerHolds(req[r], Registered, MailTokens, Proven,
                                    ApprovedOrgs, Organizations, Sent)

IInv == RowsInv /\ AccountsInv /\ OrgsInv /\ StaffInv /\ HandlersInv

-----------------------------------------------------------------------------
(* What the handlers rely on stays. *)

Grows ==
    /\ Registered \subseteq Registered' /\ MailTokens \subseteq MailTokens'
    /\ Proven \subseteq Proven' /\ ApprovedOrgs \subseteq ApprovedOrgs'
    /\ Organizations \subseteq Organizations' /\ Sent \subseteq Sent'

\* A step that only adds accounts, tokens, approvals and invitations disturbs no
\* request but its own.
LEMMA RequestsHold ==
    ASSUME RowsInv, HandlersInv, Grows, NEW r \in Request, NEW x, Goto(r, x),
           HandlerHolds(x, Registered', MailTokens', Proven', ApprovedOrgs',
                        Organizations', Sent')
    PROVE  HandlersInv' /\ req' = [q \in Request |-> req'[q]]
<1>1. /\ req'[r] = x /\ \A q \in Request \ {r} : req'[q] = req[q]
      /\ req' = [q \in Request |-> req'[q]]
  BY DEF RowsInv, Goto
<1>2. ASSUME NEW q \in Request \ {r}
      PROVE  HandlerHolds(req[q], Registered', MailTokens', Proven', ApprovedOrgs',
                          Organizations', Sent')
  <2>1. HandlerHolds(req[q], Registered, MailTokens, Proven, ApprovedOrgs,
                     Organizations, Sent)
    BY DEF HandlersInv
  <2> QED
    BY <2>1 DEF HandlerHolds, Grows
<1> QED
  BY <1>1, <1>2 DEF HandlersInv

\* A request that ends needs nothing.
LEMMA EndsHold ==
    ASSUME NEW known, NEW tokens, NEW proven, NEW approved, NEW orgs, NEW sent
    PROVE  /\ HandlerHolds(Done, known, tokens, proven, approved, orgs, sent)
           /\ HandlerHolds(Lost, known, tokens, proven, approved, orgs, sent)
  BY DEF HandlerHolds, Done, Lost

\* The accounts as they are, whatever the tables of the sessions say.
LEMMA AccountsKept ==
    ASSUME UNCHANGED accountTables
    PROVE  /\ Registered' = Registered /\ MailTokens' = MailTokens /\ Proven' = Proven
           /\ UNCHANGED <<users, mailTokens>>
  BY DEF accountTables, Registered, MailTokens, Proven

\* The organizations as they are.
LEMMA OrgsKept ==
    ASSUME UNCHANGED orgTables
    PROVE  /\ ApprovedOrgs' = ApprovedOrgs /\ Organizations' = Organizations /\ Sent' = Sent
           /\ \A m : Accepted(m)' = Accepted(m)
           /\ UNCHANGED <<organizations, reviewLog, members, invitations, joined, removed>>
  BY DEF orgTables, ApprovedOrgs, Approved, Organizations, Sent, Accepted

\* Nothing in the tables of organizations speaks of accounts but that they are there.
LEMMA OrgTablesStand ==
    ASSUME OrgsInv, StaffInv, UNCHANGED orgTables, Registered \subseteq Registered'
    PROVE  OrgsInv' /\ StaffInv'
  BY OrgsKept DEF OrgsInv, StaffInv, ReviewsAreAudited

\* A step of a request that leaves every table alone.
LEMMA RequestReads ==
    ASSUME IInv, UNCHANGED <<accountTables, orgTables>>, NEW r \in Request, NEW x, Goto(r, x),
           HandlerHolds(x, Registered, MailTokens, Proven, ApprovedOrgs, Organizations, Sent)
    PROVE  IInv'
<1>1. /\ Registered' = Registered /\ MailTokens' = MailTokens /\ Proven' = Proven
      /\ ApprovedOrgs' = ApprovedOrgs /\ Organizations' = Organizations /\ Sent' = Sent
  BY AccountsKept, OrgsKept
<1>2. HandlersInv' /\ req' = [q \in Request |-> req'[q]]
  BY <1>1, RequestsHold DEF IInv, Grows
<1>3. RowsInv'
  BY <1>2, AccountsKept, OrgsKept DEF IInv, RowsInv
<1>4. AccountsInv'
  BY <1>1, AccountsKept, OrgsKept DEF IInv, AccountsInv
<1>5. OrgsInv' /\ StaffInv'
  BY <1>1, OrgTablesStand DEF IInv
<1> QED
  BY <1>2, <1>3, <1>4, <1>5 DEF IInv

\* What a request holds.
LEMMA Held ==
    ASSUME IInv, NEW r \in Request
    PROVE  HandlerHolds(req[r], Registered, MailTokens, Proven, ApprovedOrgs,
                        Organizations, Sent)
  BY DEF IInv, HandlersInv

-----------------------------------------------------------------------------
(* The initial state. *)

\* The seeds are approved organizations whose owners have accounts.
LEMMA InitIInv == Init => IInv
<1> SUFFICES ASSUME Init PROVE IInv
  OBVIOUS
<1> USE DEF Init, AccountTablesInit, OrgTablesInit
<1>1. /\ Registered = SeedUsers /\ MailTokens = {} /\ Sent = {}
      /\ \A m : Accepted(m) = {}
  <2>1. [verified |-> TRUE, resets |-> 0] \in UserRow /\ None \notin UserRow
    BY AccountAssumption DEF UserRow
  <2>2. Registered = SeedUsers
    BY <2>1, AccountAssumption DEF Registered
  <2> QED
    BY <2>2 DEF MailTokens, Sent, Accepted
<1>2. RowsInv
  <2>1. users \in [Email -> UserRow \cup {None}]
    BY DEF UserRow
  <2>2. organizations \in [Org -> OrganizationStatus \cup {None}]
    BY DEF OrganizationStatus
  <2>3. reviewLog \in [Org -> Seq(Review)]
    <3>1. <<>> \in Seq(Review) /\ <<"ACTIVE">> \in Seq(Review)
      BY DEF Review
    <3> QED
      BY <3>1
  <2>4. members \subseteq Membership /\ joined \in [Membership -> Nat]
    BY DEF Founders
  <2> QED
    BY <2>1, <2>2, <2>3, <2>4 DEF RowsInv, RequestsInit
<1>3. AccountsInv
  BY <1>1 DEF AccountsInv
<1>4. ApprovedOrgs = Organizations
  <2>1. ASSUME NEW o \in Org
        PROVE  Approved(o) <=> organizations[o] # None
    <3>1. CASE SeedOwners[o] = {}
      BY <3>1 DEF Approved
    <3>2. CASE SeedOwners[o] # {}
      <4>1. reviewLog[o] = <<"ACTIVE">> /\ organizations[o] = "ACTIVE"
        BY <3>2
      <4>2. 1 \in DOMAIN reviewLog[o] /\ reviewLog[o][1] = "ACTIVE"
        BY <4>1
      <4>3. organizations[o] # None
        BY <4>1, OrganizationAssumption DEF OrganizationStatus
      <4> QED
        BY <4>2, <4>3 DEF Approved
    <3> QED
      BY <3>1, <3>2
  <2> QED
    BY <2>1 DEF ApprovedOrgs, Organizations
<1>5. OrgsInv
  <2>1. ReviewsAreAudited
    BY DEF ReviewsAreAudited, Organizations
  <2>2. \A o \in Org \ Organizations : reviewLog[o] = <<>> /\ SeedOwners[o] = {}
    BY OrganizationAssumption DEF Organizations, OrganizationStatus
  <2>3. ASSUME NEW m \in Membership, m[2] \notin Organizations
        PROVE  m \notin members /\ joined[m] = 0
    BY <2>2, <2>3 DEF Founders, Membership
  <2> QED
    BY <1>1, <1>4, <2>1, <2>2, <2>3 DEF OrgsInv
<1>6. StaffInv
  BY <1>1, OrganizationAssumption DEF StaffInv, Founders, Membership
<1>7. HandlersInv
  BY DEF HandlersInv, HandlerHolds, RequestsInit, Idle
<1> QED
  BY <1>2, <1>3, <1>5, <1>6, <1>7 DEF IInv

-----------------------------------------------------------------------------
(* AuthService. *)

\* A step that leaves the organizations alone and only adds to the accounts.
LEMMA AccountMoves ==
    ASSUME IInv, UNCHANGED orgTables, NEW r \in Request, NEW x, Goto(r, x),
           users' \in [Email -> UserRow \cup {None}],
           mailTokens' \in [MailToken -> MailTokenRow \cup {None}],
           Registered \subseteq Registered', MailTokens \subseteq MailTokens',
           Proven \subseteq Proven', AccountsInv',
           HandlerHolds(x, Registered', MailTokens', Proven', ApprovedOrgs,
                        Organizations, Sent)
    PROVE  IInv'
<1>1. ApprovedOrgs' = ApprovedOrgs /\ Organizations' = Organizations /\ Sent' = Sent
  BY OrgsKept
<1>2. HandlersInv' /\ req' = [q \in Request |-> req'[q]]
  BY <1>1, RequestsHold DEF IInv, Grows
<1>3. RowsInv'
  BY <1>2, OrgsKept DEF IInv, RowsInv
<1>4. OrgsInv' /\ StaffInv'
  BY OrgTablesStand DEF IInv
<1> QED
  BY <1>2, <1>3, <1>4 DEF IInv

\* Registration makes an account that is not verified, and a token is what verifies
\* the account it was sent to.
LEMMA AccountSteps ==
    ASSUME IInv, NEW r \in Request, Account(r)
    PROVE  IInv'
<1>0. /\ UNCHANGED orgTables /\ \A m : Accepted(m)' = Accepted(m)
      /\ users \in [Email -> UserRow \cup {None}] /\ None \notin UserRow
      /\ mailTokens \in [MailToken -> MailTokenRow \cup {None}] /\ None \notin MailTokenRow
  BY OrgsKept, AccountAssumption DEF Account, IInv, RowsInv
<1>1. ASSUME NEW e \in Email, CreateUserAccount(r, e)
      PROVE  IInv'
  <2>1. CASE users[e] # None
    BY <1>0, <1>1, <2>1, EndsHold, RequestReads DEF CreateUserAccount, accountTables, Finish
  <2>2. CASE users[e] = None
    <3> DEFINE x == [pc |-> "mailToken", user |-> e, purpose |-> "EMAIL_VERIFICATION"]
    <3>1. users' = [users EXCEPT ![e] = NewUser(FALSE)] /\ Goto(r, x) /\ mailTokens' = mailTokens
      BY <1>1, <2>2 DEF CreateUserAccount
    <3>2. NewUser(FALSE) \in UserRow /\ ~ NewUser(FALSE).verified
      BY DEF NewUser, UserRow
    <3>3. users' \in [Email -> UserRow \cup {None}]
      BY <1>0, <3>1, <3>2
    <3>4. Registered' = Registered \cup {e} /\ MailTokens' = MailTokens /\ Proven' = Proven
      BY <1>0, <3>1, <3>2 DEF Registered, MailTokens, Proven
    <3>5. ~ users'[e].verified /\ \A d \in Email \ {e} : users'[d] = users[d]
      BY <1>0, <3>1, <3>2
    <3>6. AccountsInv'
      <4>1. \A m \in MailTokens' : mailTokens'[m].user \in Registered'
        BY <3>1, <3>4 DEF IInv, AccountsInv
      <4>2. ASSUME NEW d \in Registered' \ SeedUsers, users'[d].verified
            PROVE  d \in Proven' \/ \E m \in Membership : m[1] = d /\ Accepted(m)' # {}
        <5>1. d # e /\ d \in Registered /\ users[d].verified
          BY <3>4, <3>5, <4>2 DEF Registered
        <5>2. d \in Proven \/ \E m \in Membership : m[1] = d /\ Accepted(m) # {}
          BY <4>2, <5>1 DEF IInv, AccountsInv
        <5> QED
          BY <1>0, <3>4, <5>2
      <4> QED
        BY <4>1, <4>2 DEF AccountsInv
    <3>7. HandlerHolds(x, Registered', MailTokens', Proven', ApprovedOrgs, Organizations, Sent)
      BY <3>4 DEF HandlerHolds, Purpose
    <3> HIDE DEF x
    <3> QED
      BY <1>0, <3>1, <3>3, <3>4, <3>6, <3>7, AccountMoves
  <2> QED
    BY <2>1, <2>2
<1>2. CASE CreateMailToken(r)
  <2>1. req[r].user \in Registered /\ req[r].purpose \in Purpose
    BY <1>2, Held DEF CreateMailToken, At, HandlerHolds
  <2>2. PICK m \in MailToken \ MailTokens :
            mailTokens' = [mailTokens EXCEPT ![m] = NewMailToken(req[r].user, req[r].purpose)]
    BY <1>2 DEF CreateMailToken
  <2> DEFINE row == NewMailToken(req[r].user, req[r].purpose)
  <2>3. row \in MailTokenRow /\ row.user = req[r].user
    BY <2>1 DEF NewMailToken, MailTokenRow, Registered
  <2> HIDE DEF row
  <2>4. /\ mailTokens' \in [MailToken -> MailTokenRow \cup {None}]
        /\ mailTokens'[m] = row
        /\ \A n \in MailToken \ {m} : mailTokens'[n] = mailTokens[n]
    BY <1>0, <2>2, <2>3 DEF row
  <2>5. users' = users /\ Registered' = Registered
    BY <1>2 DEF CreateMailToken, Registered
  <2>6. MailTokens' = MailTokens \cup {m}
    BY <1>0, <2>3, <2>4 DEF MailTokens
  <2>7. Proven \subseteq Proven'
    BY <2>2, <2>4, <2>6 DEF Proven, MailTokens
  <2>8. AccountsInv'
    BY <1>0, <2>1, <2>3, <2>4, <2>5, <2>6, <2>7 DEF IInv, AccountsInv, MailTokens
  <2> QED
    BY <1>0, <1>2, <2>4, <2>5, <2>6, <2>7, <2>8, EndsHold, AccountMoves
    DEF CreateMailToken, Finish
<1>3. ASSUME NEW m \in MailToken, ClaimRead(r, m)
      PROVE  IInv'
  <2>1. PICK x \in {Done, [pc |-> "claim", token |-> m]} : Goto(r, x)
    BY <1>3 DEF ClaimRead
  <2>2. HandlerHolds(x, Registered, MailTokens, Proven, ApprovedOrgs, Organizations, Sent)
    BY <1>3, EndsHold DEF ClaimRead, HandlerHolds
  <2> QED
    BY <1>0, <1>3, <2>1, <2>2, RequestReads DEF ClaimRead
<1>4. CASE ClaimToken(r)
  <2> DEFINE m == req[r].token
  <2>1. m \in MailTokens
    BY <1>4, Held DEF ClaimToken, At, HandlerHolds
  <2>2. CASE mailTokens[m].used
    BY <1>0, <1>4, <2>2, EndsHold, RequestReads DEF ClaimToken, accountTables, Finish
  <2>3. CASE ~ mailTokens[m].used
    <3> DEFINE row == [mailTokens[m] EXCEPT !.used = TRUE]
    <3>1. mailTokens[m] \in MailTokenRow
      BY <1>0, <2>1 DEF MailTokens
    <3>2. row \in MailTokenRow /\ row.used /\ row.user = mailTokens[m].user
      BY <3>1 DEF MailTokenRow
    <3>3. mailTokens' = [mailTokens EXCEPT ![m] = row] /\ users' = users
      BY <1>4, <2>3 DEF ClaimToken
    <3> HIDE DEF row
    <3>4. /\ mailTokens' \in [MailToken -> MailTokenRow \cup {None}]
          /\ mailTokens'[m] = row
          /\ \A n \in MailToken \ {m} : mailTokens'[n] = mailTokens[n]
      BY <1>0, <2>1, <3>2, <3>3 DEF MailTokens
    <3>5. Registered' = Registered /\ MailTokens' = MailTokens
      BY <1>0, <2>1, <3>2, <3>3, <3>4 DEF Registered, MailTokens
    <3>6. Proven \subseteq Proven' /\ mailTokens[m].user \in Proven'
      <4>1. mailTokens[m].user \in Email
        BY <3>1 DEF MailTokenRow
      <4> QED
        BY <2>1, <3>2, <3>4, <3>5, <4>1 DEF Proven, MailTokens
    <3>7. AccountsInv'
      BY <1>0, <2>1, <3>2, <3>3, <3>4, <3>5, <3>6 DEF IInv, AccountsInv, MailTokens
    <3>8. PICK pc \in {"setPassword", "verify"} :
              Goto(r, [pc |-> pc, user |-> mailTokens[m].user])
      BY <1>4, <2>3 DEF ClaimToken, Claimed
    <3> DEFINE x == [pc |-> pc, user |-> mailTokens[m].user]
    <3>9. HandlerHolds(x, Registered', MailTokens', Proven', ApprovedOrgs, Organizations, Sent)
      BY <2>1, <3>5, <3>6 DEF HandlerHolds, IInv, AccountsInv
    <3> QED
      BY <1>0, <3>3, <3>4, <3>5, <3>6, <3>7, <3>8, <3>9, AccountMoves
  <2> QED
    BY <2>2, <2>3
<1>5. CASE VerifyEmail(r)
  <2> DEFINE e == req[r].user
  <2>1. e \in Registered /\ e \in Proven
    BY <1>5, Held DEF VerifyEmail, At, HandlerHolds
  <2> DEFINE row == [users[e] EXCEPT !.verified = TRUE]
  <2>2. row \in UserRow
    BY <1>0, <2>1 DEF UserRow, Registered
  <2>3. users' = [users EXCEPT ![e] = row] /\ mailTokens' = mailTokens
    BY <1>5 DEF VerifyEmail
  <2> HIDE DEF row
  <2>4. /\ users' \in [Email -> UserRow \cup {None}]
        /\ \A d \in Email \ {e} : users'[d] = users[d]
    BY <1>0, <2>1, <2>2, <2>3 DEF Registered
  <2>5. Registered' = Registered
    BY <1>0, <2>1, <2>2, <2>3 DEF Registered
  <2>6. MailTokens' = MailTokens /\ Proven' = Proven
    BY <2>3 DEF MailTokens, Proven
  <2>7. AccountsInv'
    BY <1>0, <2>1, <2>3, <2>4, <2>5, <2>6 DEF IInv, AccountsInv, Registered
  <2> QED
    BY <1>0, <1>5, <2>3, <2>4, <2>5, <2>6, <2>7, EndsHold, AccountMoves DEF VerifyEmail, Finish
<1> QED
  BY <1>1, <1>2, <1>3, <1>4, <1>5 DEF Account

-----------------------------------------------------------------------------
(* OrganizationsService: the reads. *)

\* An organization that reads ACTIVE has been approved.
LEMMA ActiveIsApproved ==
    ASSUME IInv, NEW o \in Org, organizations[o] = "ACTIVE"
    PROVE  o \in ApprovedOrgs
<1>1. o \in Organizations
  BY OrganizationAssumption DEF Organizations, OrganizationStatus
<1>2. reviewLog[o] # <<>> /\ reviewLog[o][Len(reviewLog[o])] = "ACTIVE"
  BY <1>1 DEF IInv, OrgsInv, ReviewsAreAudited
<1>3. reviewLog[o] \in Seq(Review)
  BY DEF IInv, RowsInv
<1>4. Len(reviewLog[o]) \in DOMAIN reviewLog[o]
  BY <1>2, <1>3
<1> QED
  BY <1>2, <1>4 DEF ApprovedOrgs, Approved

\* Who is somebody else's owner is a member of an approved organization.
LEMMA RemovedAreApproved ==
    ASSUME IInv, NEW o \in Org, NEW actor \in Email, NEW e \in Email \ {actor},
           joined[<<actor, o, "COMPANY_OWNER">>] > 0,
           NEW role \in Role, <<e, o, role>> \in members
    PROVE  o \in ApprovedOrgs
<1> DEFINE theirs == <<actor, o, "COMPANY_OWNER">>
           row == <<e, o, role>>
<1>1. theirs \in Membership /\ row \in Membership
  BY DEF Membership, Role
<1>2. theirs[2] = o /\ row[2] = o
  OBVIOUS
<1>3. o \in Organizations
  BY <1>1, <1>2 DEF IInv, OrgsInv
<1>4. ASSUME o \notin ApprovedOrgs PROVE FALSE
  <2>1. PICK d \in Registered :
            \A m \in Membership : m[2] = o /\ (m \in members \/ joined[m] > 0) =>
                m = <<d, o, "COMPANY_OWNER">>
    BY <1>3, <1>4 DEF IInv, OrgsInv
  <2>2. theirs = <<d, o, "COMPANY_OWNER">> /\ row = <<d, o, "COMPANY_OWNER">>
    BY <1>1, <1>2, <2>1
  <2> QED
    BY <2>2
<1> QED
  BY <1>4

\* What a handler finds before its write is what the write relies on.
LEMMA OrganizationReads ==
    ASSUME IInv, NEW r \in Request,
           \/ \E o \in Org : \/ \E e \in Email : RemoveRead(r, o, e)
                             \/ ReviewRead(r, o)
                             \/ \E e \in Email, role \in Role : InviteRead(r, o, e, role)
           \/ \E i \in Invitation : OnPending(r, i, "cancel") \/ OnPending(r, i, "accept")
           \/ InviteFindMember(r) \/ InviteFindPending(r) \/ AcceptRollsBack(r)
           \/ RemoveCountOwners(r)
    PROVE  IInv'
<1> DEFINE HoldsNow(x) == HandlerHolds(x, Registered, MailTokens, Proven, ApprovedOrgs,
                                       Organizations, Sent)
<1>0. HoldsNow(Done)
  BY EndsHold
<1>1. SUFFICES /\ UNCHANGED <<accountTables, orgTables>>
               /\ \E x : Goto(r, x) /\ HoldsNow(x)
  BY RequestReads
<1>2. ASSUME NEW o \in Org, NEW e \in Email, RemoveRead(r, o, e)
      PROVE  /\ UNCHANGED <<accountTables, orgTables>>
             /\ \E x : Goto(r, x) /\ HoldsNow(x)
  <2>1. PICK actor \in Email \ {e} : joined[<<actor, o, "COMPANY_OWNER">>] > 0
    BY <1>2 DEF RemoveRead
  <2>2. CASE Goto(r, Done)
    BY <1>0, <1>2, <2>2 DEF RemoveRead
  <2>3. ASSUME NEW pc \in {"countOwners", "removeMember"}, NEW role \in Role,
               <<e, o, role>> \in members, Goto(r, [pc |-> pc, org |-> o, email |-> e])
        PROVE  \E x : Goto(r, x) /\ HoldsNow(x)
    <3>1. o \in ApprovedOrgs
      BY <2>1, <2>3, RemovedAreApproved
    <3> QED
      BY <2>3, <3>1 DEF HandlerHolds
  <2> QED
    BY <1>2, <2>2, <2>3 DEF RemoveRead, Owners, Role
<1>3. ASSUME NEW o \in Org, ReviewRead(r, o)
      PROVE  /\ UNCHANGED <<accountTables, orgTables>>
             /\ \E x : Goto(r, x) /\ HoldsNow(x)
  <2>1. ASSUME NEW status \in Review, Goto(r, [pc |-> "review", org |-> o, status |-> status])
        PROVE  \E x : Goto(r, x) /\ HoldsNow(x)
    BY <1>3, <2>1 DEF HandlerHolds, ReviewRead
  <2> QED
    BY <1>0, <1>3, <2>1 DEF ReviewRead, Finish
<1>4. ASSUME NEW o \in Org, NEW e \in Email, NEW role \in Role, InviteRead(r, o, e, role)
      PROVE  /\ UNCHANGED <<accountTables, orgTables>>
             /\ \E x : Goto(r, x) /\ HoldsNow(x)
  <2>1. ASSUME organizations[o] = "ACTIVE"
        PROVE  HoldsNow([pc |-> "findMember", org |-> o, email |-> e, role |-> role])
    BY <2>1, ActiveIsApproved DEF HandlerHolds
  <2> QED
    BY <1>0, <1>4, <2>1 DEF InviteRead
<1>5. ASSUME NEW i \in Invitation, NEW pc \in {"cancel", "accept"}, OnPending(r, i, pc)
      PROVE  /\ UNCHANGED <<accountTables, orgTables>>
             /\ \E x : Goto(r, x) /\ HoldsNow(x)
  <2>1. HoldsNow([pc |-> pc, invitation |-> i])
    BY <1>5 DEF OnPending, HandlerHolds, Invitations, Sent
  <2> QED
    BY <1>0, <1>5, <2>1 DEF OnPending
<1>6. CASE InviteFindMember(r) \/ InviteFindPending(r)
  <2>1. /\ req[r] = [pc |-> req[r].pc, org |-> req[r].org, email |-> req[r].email,
                     role |-> req[r].role]
        /\ req[r].org \in ApprovedOrgs /\ req[r].email \in Email /\ req[r].role \in Role
    BY <1>6, Held DEF InviteFindMember, InviteFindPending, At, HandlerHolds
  <2>2. ASSUME NEW pc \in {"findPending", "invite"}
        PROVE  HoldsNow([req[r] EXCEPT !.pc = pc])
    <3>1. [req[r] EXCEPT !.pc = pc] =
              [pc |-> pc, org |-> req[r].org, email |-> req[r].email, role |-> req[r].role]
      BY <2>1
    <3> QED
      BY <2>1, <3>1 DEF HandlerHolds
  <2>3. \E x : Goto(r, x) /\ HoldsNow(x)
    BY <1>0, <1>6, <2>2 DEF InviteFindMember, InviteFindPending, Finish
  <2> QED
    BY <1>6, <2>3 DEF InviteFindMember, InviteFindPending
<1>7. CASE AcceptRollsBack(r)
  BY <1>0, <1>7 DEF AcceptRollsBack, Finish
<1>8. CASE RemoveCountOwners(r)
  <2>1. /\ req[r] = [pc |-> req[r].pc, org |-> req[r].org, email |-> req[r].email]
        /\ req[r].org \in ApprovedOrgs /\ req[r].email \in Email
    BY <1>8, Held DEF RemoveCountOwners, At, HandlerHolds
  <2>2. [req[r] EXCEPT !.pc = "removeMember"] =
            [pc |-> "removeMember", org |-> req[r].org, email |-> req[r].email]
    BY <2>1
  <2>3. HoldsNow([req[r] EXCEPT !.pc = "removeMember"])
    BY <2>1, <2>2 DEF HandlerHolds
  <2> QED
    BY <1>0, <1>8, <2>3 DEF RemoveCountOwners
<1> HIDE DEF HoldsNow
<1> QED
  BY <1>2, <1>3, <1>4, <1>5, <1>6, <1>7, <1>8

-----------------------------------------------------------------------------
(* OrganizationsService: the transactions. *)

TablesInv ==
    /\ users \in [Email -> UserRow \cup {None}]
    /\ mailTokens \in [MailToken -> MailTokenRow \cup {None}]
    /\ organizations \in [Org -> OrganizationStatus \cup {None}]
    /\ reviewLog \in [Org -> Seq(Review)]
    /\ members \subseteq Membership
    /\ invitations \in [Invitation -> InvitationRow \cup {None}]
    /\ joined \in [Membership -> Nat]
    /\ removed \subseteq Email \X Org

\* A request ends with a transaction that keeps the tables in order.
LEMMA Ends ==
    ASSUME IInv, NEW r \in Request, Finish(r), Grows,
           TablesInv', AccountsInv', OrgsInv', StaffInv'
    PROVE  IInv'
<1>1. HandlersInv' /\ req' = [q \in Request |-> req'[q]]
  BY EndsHold, RequestsHold DEF IInv, Finish
<1>2. RowsInv'
  BY <1>1 DEF RowsInv, TablesInv
<1> QED
  BY <1>1, <1>2 DEF IInv

\* A member that is added to an approved organization, or is there, disturbs nothing.
LEMMA Granted ==
    ASSUME TablesInv, NEW m \in Membership, Grant(m)
    PROVE  /\ members' \subseteq Membership /\ joined' \in [Membership -> Nat]
           /\ members \subseteq members' /\ m \in members' /\ joined'[m] = joined[m] + 1
           /\ \A n \in Membership \ {m} :
                joined'[n] = joined[n] /\ (n \in members' => n \in members)
  BY DEF TablesInv, Grant

\* The organization is registered by a new user, who is its first member.
LEMMA RegisterInv ==
    ASSUME IInv, NEW r \in Request, NEW o \in Org, NEW e \in Email,
           RegisterOrganization(r, o, e)
    PROVE  IInv'
<1>0. TablesInv /\ None \notin UserRow /\ None \notin MailTokenRow
  BY AccountAssumption DEF IInv, RowsInv, TablesInv
<1>1. CASE e \in Registered
  <2>1. UNCHANGED <<accountTables, orgTables>> /\ Goto(r, Done)
    BY <1>1 DEF RegisterOrganization, orgTables, Finish
  <2> QED
    BY <2>1, EndsHold, RequestReads
<1>2. CASE e \notin Registered
  <2> DEFINE m0 == <<e, o, "COMPANY_OWNER">>
             token == NewMailToken(e, "EMAIL_VERIFICATION")
  <2>1. /\ organizations[o] = None
        /\ users' = [users EXCEPT ![e] = NewUser(FALSE)]
        /\ organizations' = [organizations EXCEPT ![o] = "PENDING_APPROVAL"]
        /\ Grant(m0) /\ Finish(r)
        /\ UNCHANGED <<reviewLog, invitations, removed>>
    BY <1>2 DEF RegisterOrganization
  <2>2. PICK t \in MailToken \ MailTokens : mailTokens' = [mailTokens EXCEPT ![t] = token]
    BY <1>2 DEF RegisterOrganization
  <2>3. NewUser(FALSE) \in UserRow /\ ~ NewUser(FALSE).verified
    BY DEF NewUser, UserRow
  <2>4. /\ users' \in [Email -> UserRow \cup {None}]
        /\ ~ users'[e].verified
        /\ \A d \in Email \ {e} : users'[d] = users[d]
        /\ Registered' = Registered \cup {e}
    BY <1>0, <2>1, <2>3 DEF TablesInv, Registered
  <2>5. token \in MailTokenRow /\ token.user = e
    BY DEF NewMailToken, MailTokenRow, Purpose
  <2> HIDE DEF token
  <2>6. /\ mailTokens' \in [MailToken -> MailTokenRow \cup {None}]
        /\ mailTokens'[t] = token
        /\ \A n \in MailToken \ {t} : mailTokens'[n] = mailTokens[n]
        /\ MailTokens' = MailTokens \cup {t}
    BY <1>0, <2>2, <2>5 DEF TablesInv, MailTokens
  <2>7. Proven \subseteq Proven'
    BY <2>2, <2>6 DEF Proven, MailTokens
  <2>8. /\ "PENDING_APPROVAL" \in OrganizationStatus /\ None \notin OrganizationStatus
        /\ organizations' \in [Org -> OrganizationStatus \cup {None}]
        /\ organizations'[o] = "PENDING_APPROVAL"
        /\ \A p \in Org \ {o} : organizations'[p] = organizations[p]
        /\ Organizations' = Organizations \cup {o} /\ o \notin Organizations
    BY <1>0, <2>1, OrganizationAssumption DEF TablesInv, OrganizationStatus, Organizations
  <2>9. ApprovedOrgs' = ApprovedOrgs /\ Sent' = Sent /\ \A m : Accepted(m)' = Accepted(m)
    BY <2>1 DEF ApprovedOrgs, Approved, Sent, Accepted
  <2>10. m0 \in Membership /\ m0[1] = e /\ m0[2] = o
    BY DEF Membership, Role
  <2>11. /\ members' \subseteq Membership /\ joined' \in [Membership -> Nat]
         /\ members \subseteq members' /\ m0 \in members'
         /\ \A n \in Membership \ {m0} :
              joined'[n] = joined[n] /\ (n \in members' => n \in members)
    BY <1>0, <2>1, <2>10, Granted
  <2>12. TablesInv'
    BY <1>0, <2>1, <2>4, <2>6, <2>8, <2>11 DEF TablesInv
  <2>13. AccountsInv'
    <3>1. \A n \in MailTokens' : mailTokens'[n].user \in Registered'
      BY <2>4, <2>5, <2>6 DEF IInv, AccountsInv, MailTokens
    <3>2. ASSUME NEW d \in Registered' \ SeedUsers, users'[d].verified
          PROVE  d \in Proven' \/ \E m \in Membership : m[1] = d /\ Accepted(m)' # {}
      <4>1. d # e /\ d \in Registered /\ users[d].verified
        BY <2>4, <3>2 DEF Registered
      <4>2. d \in Proven \/ \E m \in Membership : m[1] = d /\ Accepted(m) # {}
        BY <3>2, <4>1 DEF IInv, AccountsInv
      <4> QED
        BY <2>7, <2>9, <4>2
    <3> QED
      BY <3>1, <3>2 DEF AccountsInv
  <2> HIDE DEF m0
  <2>14. OrgsInv'
    <3>1. reviewLog[o] = <<>>
      BY <2>8 DEF IInv, OrgsInv
    <3>2. ReviewsAreAudited'
      BY <2>1, <2>8, <3>1 DEF IInv, OrgsInv, ReviewsAreAudited
    <3>3. \A p \in Org \ Organizations' : reviewLog'[p] = <<>>
      BY <2>1, <2>8 DEF IInv, OrgsInv
    <3>4. ASSUME NEW m \in Membership, m[2] \notin Organizations'
          PROVE  m \notin members' /\ joined'[m] = 0
      <4>1. m # m0 /\ m[2] \notin Organizations
        BY <2>8, <2>10, <3>4
      <4>2. m \notin members /\ joined[m] = 0
        BY <4>1 DEF IInv, OrgsInv
      <4> QED
        BY <2>11, <4>1, <4>2
    <3>5. \A i \in Sent' : invitations'[i].org \in ApprovedOrgs'
      BY <2>1, <2>9 DEF IInv, OrgsInv
    <3>6. ASSUME NEW p \in Organizations' \ ApprovedOrgs'
          PROVE  \E d \in Registered' :
                   /\ <<d, p, "COMPANY_OWNER">> \in members'
                   /\ \A m \in Membership : m[2] = p /\ (m \in members' \/ joined'[m] > 0) =>
                        m = <<d, p, "COMPANY_OWNER">>
      <4>1. CASE p = o
        <5>1. ASSUME NEW m \in Membership, m[2] = o, m # m0
              PROVE  m \notin members' /\ ~ joined'[m] > 0
          <6>1. m \notin members /\ joined[m] = 0
            BY <2>8, <5>1 DEF IInv, OrgsInv
          <6> QED
            BY <2>11, <5>1, <6>1
        <5> QED
          BY <2>4, <2>11, <4>1, <5>1 DEF m0
      <4>2. CASE p # o
        <5>1. PICK d \in Registered :
                /\ <<d, p, "COMPANY_OWNER">> \in members
                /\ \A m \in Membership : m[2] = p /\ (m \in members \/ joined[m] > 0) =>
                     m = <<d, p, "COMPANY_OWNER">>
          BY <2>8, <2>9, <4>2 DEF IInv, OrgsInv
        <5>2. ASSUME NEW m \in Membership, m[2] = p
              PROVE  joined'[m] = joined[m] /\ (m \in members' => m \in members)
          BY <2>10, <2>11, <4>2, <5>2
        <5>3. \A m \in Membership : m[2] = p /\ (m \in members' \/ joined'[m] > 0) =>
                m = <<d, p, "COMPANY_OWNER">>
          BY <5>1, <5>2
        <5> QED
          BY <2>4, <2>11, <5>1, <5>3
      <4> QED
        BY <4>1, <4>2
    <3> QED
      BY <3>2, <3>3, <3>4, <3>5, <3>6 DEF OrgsInv
  <2>15. StaffInv'
    BY <2>1, <2>4, <2>9, <2>10, <2>11 DEF IInv, StaffInv, TablesInv
  <2>16. Grows
    BY <2>4, <2>6, <2>7, <2>8, <2>9 DEF Grows
  <2> QED
    BY <2>1, <2>12, <2>13, <2>14, <2>15, <2>16, Ends
<1> QED
  BY <1>1, <1>2

\* A review writes a status and its audit row, whatever was written since it was read.
LEMMA ReviewInv ==
    ASSUME IInv, NEW r \in Request, ReviewWrite(r)
    PROVE  IInv'
<1>0. TablesInv
  BY DEF IInv, RowsInv, TablesInv
<1>1. req[r].org \in Organizations /\ req[r].status \in Review
  BY Held DEF ReviewWrite, At, HandlerHolds
<1>2. PICK o \in Organizations, status \in Review : o = req[r].org /\ status = req[r].status
  BY <1>1
<1>3. /\ organizations' = [organizations EXCEPT ![o] = status]
      /\ reviewLog' = [reviewLog EXCEPT ![o] = Append(reviewLog[o], status)]
      /\ UNCHANGED <<accountTables, members, invitations, joined, removed>> /\ Finish(r)
  BY <1>2 DEF ReviewWrite
<1>4. /\ o \in Org /\ status \in OrganizationStatus /\ status # None
      /\ reviewLog[o] \in Seq(Review)
  BY <1>0, OrganizationAssumption DEF Organizations, Review, OrganizationStatus, TablesInv
<1>5. /\ organizations' \in [Org -> OrganizationStatus \cup {None}]
      /\ organizations'[o] = status
      /\ \A p \in Org \ {o} : organizations'[p] = organizations[p]
      /\ Organizations' = Organizations
  BY <1>0, <1>3, <1>4 DEF TablesInv, Organizations
<1>6. /\ reviewLog' \in [Org -> Seq(Review)]
      /\ reviewLog'[o] = Append(reviewLog[o], status)
      /\ \A p \in Org \ {o} : reviewLog'[p] = reviewLog[p]
  BY <1>0, <1>3, <1>4 DEF TablesInv
<1>7. /\ reviewLog'[o] # <<>> /\ reviewLog'[o][Len(reviewLog'[o])] = status
      /\ Approved(o) => Approved(o)'
  <2>1. LET log == reviewLog[o]
        IN  /\ Append(log, status) # <<>>
            /\ Append(log, status)[Len(Append(log, status))] = status
            /\ \A k \in DOMAIN log :
                 k \in DOMAIN Append(log, status) /\ Append(log, status)[k] = log[k]
    BY <1>4
  <2> QED
    BY <1>6, <2>1 DEF Approved
<1>8. ApprovedOrgs \subseteq ApprovedOrgs'
  BY <1>6, <1>7 DEF ApprovedOrgs, Approved
<1>9. /\ Sent' = Sent /\ \A m : Accepted(m)' = Accepted(m)
      /\ Registered' = Registered /\ MailTokens' = MailTokens /\ Proven' = Proven
      /\ UNCHANGED <<users, mailTokens>>
  BY <1>3, AccountsKept DEF Sent, Accepted
<1>10. TablesInv'
  BY <1>0, <1>3, <1>5, <1>6, <1>9 DEF TablesInv
<1>11. AccountsInv' /\ StaffInv'
  BY <1>3, <1>9 DEF IInv, AccountsInv, StaffInv
<1>12. OrgsInv'
  <2>1. ReviewsAreAudited'
    BY <1>5, <1>6, <1>7 DEF IInv, OrgsInv, ReviewsAreAudited, Organizations
  <2>2. \A p \in Org \ Organizations' : reviewLog'[p] = <<>>
    BY <1>5, <1>6 DEF IInv, OrgsInv
  <2>3. \A m \in Membership : m[2] \notin Organizations' => m \notin members' /\ joined'[m] = 0
    BY <1>3, <1>5 DEF IInv, OrgsInv
  <2>4. \A i \in Sent' : invitations'[i].org \in ApprovedOrgs'
    BY <1>3, <1>8, <1>9 DEF IInv, OrgsInv
  <2>5. \A p \in Organizations' \ ApprovedOrgs' : \E d \in Registered' :
          /\ <<d, p, "COMPANY_OWNER">> \in members'
          /\ \A m \in Membership : m[2] = p /\ (m \in members' \/ joined'[m] > 0) =>
               m = <<d, p, "COMPANY_OWNER">>
    BY <1>3, <1>5, <1>8, <1>9 DEF IInv, OrgsInv
  <2> QED
    BY <2>1, <2>2, <2>3, <2>4, <2>5 DEF OrgsInv
<1>13. Grows
  BY <1>5, <1>8, <1>9 DEF Grows
<1> QED
  BY <1>3, <1>10, <1>11, <1>12, <1>13, Ends

\* What is written to invitations alone, by a request of an approved organization, and
\* says of nobody else that they accepted.
LEMMA InvitationInv ==
    ASSUME IInv, NEW r \in Request, Finish(r),
           UNCHANGED <<accountTables, organizations, reviewLog, members, joined, removed>>,
           invitations' \in [Invitation -> InvitationRow \cup {None}],
           Sent \subseteq Sent', \A i \in Sent' : invitations'[i].org \in ApprovedOrgs,
           \A m \in Membership : Accepted(m)' = Accepted(m)
    PROVE  IInv'
<1>1. /\ Registered' = Registered /\ MailTokens' = MailTokens /\ Proven' = Proven
      /\ UNCHANGED <<users, mailTokens>>
  BY AccountsKept
<1>2. ApprovedOrgs' = ApprovedOrgs /\ Organizations' = Organizations
  BY DEF ApprovedOrgs, Approved, Organizations
<1>3. TablesInv'
  BY <1>1 DEF IInv, RowsInv, TablesInv
<1>4. AccountsInv' /\ StaffInv'
  BY <1>1 DEF IInv, AccountsInv, StaffInv, RowsInv
<1>5. OrgsInv'
  BY <1>1, <1>2 DEF IInv, OrgsInv, ReviewsAreAudited
<1>6. Grows
  BY <1>1, <1>2 DEF Grows
<1> QED
  BY <1>3, <1>4, <1>5, <1>6, Ends

\* An invitation is sent by an approved organization, and may be deleted at any time.
LEMMA InviteInv ==
    ASSUME IInv, NEW r \in Request, InviteInsert(r) \/ CancelDelete(r)
    PROVE  IInv'
<1>0. invitations \in [Invitation -> InvitationRow \cup {None}] /\ None \notin InvitationRow
  BY OrganizationAssumption DEF IInv, RowsInv
<1>1. CASE InviteInsert(r)
  <2> DEFINE row == NewInvitation(req[r].org, req[r].email, req[r].role)
  <2>1. req[r].org \in ApprovedOrgs /\ req[r].email \in Email /\ req[r].role \in Role
    BY <1>1, Held DEF InviteInsert, At, HandlerHolds
  <2>2. row \in InvitationRow /\ ~ row.accepted /\ row.org \in ApprovedOrgs
    BY <2>1 DEF NewInvitation, InvitationRow, ApprovedOrgs
  <2>3. PICK i \in Invitation :
            invitations[i] = None /\ invitations' = [invitations EXCEPT ![i] = row]
    BY <1>1 DEF InviteInsert
  <2> HIDE DEF row
  <2>4. /\ invitations' \in [Invitation -> InvitationRow \cup {None}]
        /\ invitations'[i] = row
        /\ \A k \in Invitation \ {i} : invitations'[k] = invitations[k]
    BY <1>0, <2>2, <2>3
  <2>5. Sent' = Sent \cup {i} /\ \A m \in Membership : Accepted(m)' = Accepted(m)
    BY <1>0, <2>2, <2>3, <2>4 DEF Sent, Accepted
  <2>6. \A k \in Sent' : invitations'[k].org \in ApprovedOrgs
    BY <2>2, <2>4, <2>5 DEF IInv, OrgsInv, Sent
  <2> QED
    BY <1>1, <2>4, <2>5, <2>6, InvitationInv DEF InviteInsert
<1>2. CASE CancelDelete(r)
  <2>1. PICK i \in Sent : i = req[r].invitation
    BY <1>2, Held DEF CancelDelete, At, HandlerHolds
  <2>2. CASE UNCHANGED invitations
    <3>1. Sent' = Sent /\ \A m \in Membership : Accepted(m)' = Accepted(m)
      BY <2>2 DEF Sent, Accepted
    <3> QED
      BY <1>0, <1>2, <2>2, <3>1, InvitationInv DEF CancelDelete, IInv, OrgsInv
  <2>3. CASE invitations' = [invitations EXCEPT ![i].deleted = TRUE]
    <3> DEFINE row == [invitations[i] EXCEPT !.deleted = TRUE]
    <3>1. i \in Invitation /\ invitations[i] \in InvitationRow
      BY <1>0 DEF Sent
    <3>2. /\ row \in InvitationRow /\ row.org = invitations[i].org
          /\ row.email = invitations[i].email /\ row.role = invitations[i].role
          /\ row.accepted = invitations[i].accepted
      BY <3>1 DEF InvitationRow
    <3>3. invitations' = [invitations EXCEPT ![i] = row]
      BY <2>3
    <3> HIDE DEF row
    <3>4. /\ invitations' \in [Invitation -> InvitationRow \cup {None}]
          /\ invitations'[i] = row
          /\ \A k \in Invitation \ {i} : invitations'[k] = invitations[k]
      BY <1>0, <3>1, <3>2, <3>3
    <3>5. Sent' = Sent
      BY <1>0, <3>1, <3>2, <3>4 DEF Sent
    <3>6. \A m \in Membership : Accepted(m)' = Accepted(m)
      BY <1>0, <3>1, <3>2, <3>4 DEF Accepted
    <3>7. \A k \in Sent' : invitations'[k].org \in ApprovedOrgs
      BY <3>2, <3>4, <3>5 DEF IInv, OrgsInv, Sent
    <3> QED
      BY <1>2, <3>4, <3>5, <3>6, <3>7, InvitationInv DEF CancelDelete
  <2> QED
    BY <1>2, <2>1, <2>2, <2>3 DEF CancelDelete
<1> QED
  BY <1>1, <1>2

\* What the transaction of acceptInvitation() does, in names that stand for rows.
LEMMA ClaimDoes ==
    ASSUME IInv, NEW r \in Request, AcceptClaim(r)
    PROVE  \E i \in Sent, m \in Membership :
             /\ m = <<invitations[i].email, invitations[i].org, invitations[i].role>>
             /\ ~ invitations[i].accepted
             /\ invitations' \in [Invitation -> InvitationRow \cup {None}]
             /\ invitations'[i].accepted
             /\ \A k \in Invitation : /\ k # i => invitations'[k] = invitations[k]
                                      /\ invitations'[k] # None <=> invitations[k] # None
             /\ invitations'[i].email = m[1] /\ invitations'[i].org = m[2]
             /\ invitations'[i].role = m[3]
             /\ users' = [users EXCEPT ![m[1]] =
                    IF m[1] \in Registered THEN users[m[1]] ELSE NewUser(TRUE)]
             /\ (m \in members /\ UNCHANGED <<members, joined>>) \/ (m \notin members /\ Grant(m))
<1> DEFINE i == req[r].invitation
           e == invitations[i].email
           m == <<e, invitations[i].org, invitations[i].role>>
           row == [invitations[i] EXCEPT !.accepted = TRUE]
<1>1. i \in Sent
  BY Held DEF AcceptClaim, At, HandlerHolds
<1>2. /\ i \in Invitation /\ invitations[i] \in InvitationRow
      /\ invitations \in [Invitation -> InvitationRow \cup {None}] /\ None \notin InvitationRow
  BY <1>1, OrganizationAssumption DEF Sent, IInv, RowsInv
<1>3. m \in Membership /\ m[1] = e /\ m[2] = invitations[i].org /\ m[3] = invitations[i].role
  BY <1>2 DEF InvitationRow, Membership
<1>4. /\ row \in InvitationRow /\ row.accepted /\ row.email = e
      /\ row.org = invitations[i].org /\ row.role = invitations[i].role
  BY <1>2 DEF InvitationRow
<1>5. /\ invitations' = [invitations EXCEPT ![i] = row]
      /\ ~ invitations[i].accepted
      /\ users' = [users EXCEPT ![e] = IF e \in Registered THEN users[e] ELSE NewUser(TRUE)]
      /\ (m \in members /\ UNCHANGED <<members, joined>>) \/ (m \notin members /\ Grant(m))
  BY DEF AcceptClaim, Pending
<1> HIDE DEF row
<1>6. /\ invitations' \in [Invitation -> InvitationRow \cup {None}]
      /\ invitations'[i] = row
      /\ \A k \in Invitation : /\ k # i => invitations'[k] = invitations[k]
                               /\ invitations'[k] # None <=> invitations[k] # None
  BY <1>2, <1>4, <1>5
<1> HIDE DEF i, m, e
<1>7. PICK j \in Sent, n \in Membership : j = i /\ n = m
  BY <1>1, <1>3
<1>8. n = <<invitations[j].email, invitations[j].org, invitations[j].role>>
  BY <1>7 DEF m, e
<1>9. Grant(m) => Grant(n)
  BY <1>7 DEF Grant
<1> QED
  BY ZenonT(40), <1>3, <1>4, <1>5, <1>6, <1>7, <1>8, <1>9

\* Who accepts has an account from then on, is a member, and is told from others who
\* are verified by the invitation.
LEMMA AcceptInv ==
    ASSUME IInv, NEW r \in Request, AcceptClaim(r)
    PROVE  IInv'
<1>0. TablesInv /\ None \notin UserRow
  BY AccountAssumption DEF IInv, RowsInv, TablesInv
<1>1. PICK i \in Sent, m \in Membership :
        /\ m = <<invitations[i].email, invitations[i].org, invitations[i].role>>
        /\ ~ invitations[i].accepted
        /\ invitations' \in [Invitation -> InvitationRow \cup {None}]
        /\ invitations'[i].accepted
        /\ \A k \in Invitation : /\ k # i => invitations'[k] = invitations[k]
                                 /\ invitations'[k] # None <=> invitations[k] # None
        /\ invitations'[i].email = m[1] /\ invitations'[i].org = m[2]
        /\ invitations'[i].role = m[3]
        /\ users' = [users EXCEPT ![m[1]] =
               IF m[1] \in Registered THEN users[m[1]] ELSE NewUser(TRUE)]
        /\ (m \in members /\ UNCHANGED <<members, joined>>) \/ (m \notin members /\ Grant(m))
  BY ClaimDoes
<1>2. Finish(r) /\ UNCHANGED <<mailTokens, organizations, reviewLog, removed>>
  BY DEF AcceptClaim
<1>3. m[1] \in Email /\ m = <<m[1], m[2], m[3]>> /\ m[2] = invitations[i].org
  BY <1>1 DEF Membership
<1>4. /\ users' \in [Email -> UserRow \cup {None}]
      /\ \A d \in Email \ {m[1]} : users'[d] = users[d]
      /\ m[1] \in Registered => users'[m[1]] = users[m[1]]
      /\ Registered' = Registered \cup {m[1]}
  <2>1. NewUser(TRUE) \in UserRow
    BY DEF NewUser, UserRow
  <2> QED
    BY ZenonT(40), <1>0, <1>1, <1>3, <2>1 DEF TablesInv, Registered
<1>5. /\ members' \subseteq Membership /\ joined' \in [Membership -> Nat]
      /\ members \subseteq members' /\ m \in members'
      /\ \A n \in Membership \ {m} :
           joined'[n] = joined[n] /\ (n \in members' => n \in members)
  BY <1>0, <1>1, Granted DEF TablesInv
<1>6. /\ Sent' = Sent /\ MailTokens' = MailTokens /\ Proven' = Proven
      /\ ApprovedOrgs' = ApprovedOrgs /\ Organizations' = Organizations
  BY <1>1, <1>2 DEF Sent, MailTokens, Proven, ApprovedOrgs, Approved, Organizations
<1>7. i \in Accepted(m)' /\ \A n \in Membership \ {m} : Accepted(n)' = Accepted(n)
  <2>1. i \in Invitation /\ invitations'[i] # None
    BY <1>1 DEF Sent
  <2>2. i \in Accepted(m)'
    BY <1>1, <1>3, <2>1 DEF Accepted
  <2>3. ASSUME NEW n \in Membership \ {m}
        PROVE  Accepted(n)' = Accepted(n)
    <3>1. i \notin Accepted(n) /\ i \notin Accepted(n)'
      BY <1>1, <1>3 DEF Accepted
    <3>2. \A k \in Invitation \ {i} : k \in Accepted(n) <=> k \in Accepted(n)'
      BY <1>1 DEF Accepted
    <3> QED
      BY <3>1, <3>2 DEF Accepted
  <2> QED
    BY <2>2, <2>3
<1>8. \A n \in Membership : Accepted(n) # {} => Accepted(n)' # {}
  BY <1>7
<1>9. TablesInv'
  BY <1>0, <1>1, <1>2, <1>4, <1>5 DEF TablesInv
<1>10. AccountsInv'
  <2>1. \A t \in MailTokens' : mailTokens'[t].user \in Registered'
    BY <1>2, <1>4, <1>6 DEF IInv, AccountsInv
  <2>2. ASSUME NEW d \in Registered' \ SeedUsers, users'[d].verified
        PROVE  d \in Proven' \/ \E n \in Membership : n[1] = d /\ Accepted(n)' # {}
    <3>1. CASE d = m[1]
      BY <1>7, <3>1
    <3>2. CASE d # m[1]
      <4>1. d \in Registered /\ users[d].verified
        BY <1>4, <2>2, <3>2 DEF Registered
      <4>2. d \in Proven \/ \E n \in Membership : n[1] = d /\ Accepted(n) # {}
        BY <2>2, <4>1 DEF IInv, AccountsInv
      <4> QED
        BY <1>6, <1>8, <4>2
    <3> QED
      BY <3>1, <3>2
  <2> QED
    BY <2>1, <2>2 DEF AccountsInv
<1>11. m[2] \in ApprovedOrgs /\ m[2] \in Organizations
  <2>1. m[2] \in ApprovedOrgs
    BY <1>3 DEF IInv, OrgsInv
  <2>2. ASSUME m[2] \notin Organizations PROVE FALSE
    <3>1. reviewLog[m[2]] = <<>>
      BY <2>1, <2>2 DEF IInv, OrgsInv, ApprovedOrgs
    <3> QED
      BY <2>1, <3>1 DEF ApprovedOrgs, Approved
  <2> QED
    BY <2>1, <2>2
<1>12. OrgsInv'
  <2>1. ReviewsAreAudited' /\ \A p \in Org \ Organizations' : reviewLog'[p] = <<>>
    BY <1>2, <1>6 DEF IInv, OrgsInv, ReviewsAreAudited
  <2>2. \A n \in Membership : n[2] \notin Organizations' => n \notin members' /\ joined'[n] = 0
    BY <1>5, <1>6, <1>11 DEF IInv, OrgsInv
  <2>3. \A k \in Sent' : invitations'[k].org \in ApprovedOrgs'
    BY <1>1, <1>6, <1>11 DEF IInv, OrgsInv, Sent
  <2>4. ASSUME NEW p \in Organizations' \ ApprovedOrgs'
        PROVE  \E d \in Registered' :
                 /\ <<d, p, "COMPANY_OWNER">> \in members'
                 /\ \A n \in Membership : n[2] = p /\ (n \in members' \/ joined'[n] > 0) =>
                      n = <<d, p, "COMPANY_OWNER">>
    <3>1. PICK d \in Registered :
            /\ <<d, p, "COMPANY_OWNER">> \in members
            /\ \A n \in Membership : n[2] = p /\ (n \in members \/ joined[n] > 0) =>
                 n = <<d, p, "COMPANY_OWNER">>
      BY <1>6, <2>4 DEF IInv, OrgsInv
    <3>2. ASSUME NEW n \in Membership, n[2] = p
          PROVE  joined'[n] = joined[n] /\ (n \in members' => n \in members)
      BY <1>5, <1>6, <1>11, <2>4, <3>2
    <3>3. \A n \in Membership : n[2] = p /\ (n \in members' \/ joined'[n] > 0) =>
            n = <<d, p, "COMPANY_OWNER">>
      BY <3>1, <3>2
    <3> QED
      BY <1>4, <1>5, <3>1, <3>3
  <2> QED
    BY <2>1, <2>2, <2>3, <2>4 DEF OrgsInv
<1>13. StaffInv'
  <2>1. \A n \in members' : n[1] \in Registered'
    BY <1>4, <1>5 DEF IInv, StaffInv
  <2>2. ASSUME NEW n \in Membership, Accepted(n)' # {}
        PROVE  n \in members' \/ <<n[1], n[2]>> \in removed'
    <3>1. CASE n = m
      BY <1>5, <3>1
    <3>2. CASE n # m
      BY <1>2, <1>5, <1>7, <2>2, <3>2 DEF IInv, StaffInv
    <3> QED
      BY <3>1, <3>2
  <2> QED
    BY <2>1, <2>2 DEF StaffInv
<1>14. Grows
  BY <1>4, <1>6 DEF Grows
<1> QED
  BY <1>2, <1>9, <1>10, <1>12, <1>13, <1>14, Ends

\* A member is removed from an approved organization, and that is remembered.
LEMMA RemoveInv ==
    ASSUME IInv, NEW r \in Request, RemoveDelete(r)
    PROVE  IInv'
<1>1. req[r].org \in ApprovedOrgs /\ req[r].email \in Email
  BY Held DEF RemoveDelete, At, HandlerHolds
<1>2. PICK o \in ApprovedOrgs, e \in Email : o = req[r].org /\ e = req[r].email
  BY <1>1
<1>3. /\ members' = members \ {<<e, o, role>> : role \in Role}
      /\ removed' = removed \cup {<<e, o>>} /\ Finish(r)
      /\ UNCHANGED <<accountTables, organizations, reviewLog, invitations, joined>>
  BY <1>2 DEF RemoveDelete
<1>4. /\ Registered' = Registered /\ MailTokens' = MailTokens /\ Proven' = Proven
      /\ UNCHANGED <<users, mailTokens>>
  BY <1>3, AccountsKept
<1>5. /\ ApprovedOrgs' = ApprovedOrgs /\ Organizations' = Organizations /\ Sent' = Sent
      /\ \A m : Accepted(m)' = Accepted(m)
  BY <1>3 DEF ApprovedOrgs, Approved, Organizations, Sent, Accepted
<1>6. TablesInv'
  BY <1>3, <1>4 DEF IInv, RowsInv, TablesInv, ApprovedOrgs
<1>7. AccountsInv'
  BY <1>4, <1>5, <1>3 DEF IInv, AccountsInv
<1>8. OrgsInv'
  <2>1. /\ ReviewsAreAudited' /\ \A p \in Org \ Organizations' : reviewLog'[p] = <<>>
        /\ \A m \in Membership : m[2] \notin Organizations' => m \notin members' /\ joined'[m] = 0
        /\ \A i \in Sent' : invitations'[i].org \in ApprovedOrgs'
    BY <1>3, <1>5 DEF IInv, OrgsInv, ReviewsAreAudited
  <2>2. ASSUME NEW p \in Organizations' \ ApprovedOrgs'
        PROVE  \E d \in Registered' :
                 /\ <<d, p, "COMPANY_OWNER">> \in members'
                 /\ \A m \in Membership : m[2] = p /\ (m \in members' \/ joined'[m] > 0) =>
                      m = <<d, p, "COMPANY_OWNER">>
    <3>1. PICK d \in Registered :
            /\ <<d, p, "COMPANY_OWNER">> \in members
            /\ \A m \in Membership : m[2] = p /\ (m \in members \/ joined[m] > 0) =>
                 m = <<d, p, "COMPANY_OWNER">>
      BY <1>5, <2>2 DEF IInv, OrgsInv
    <3>2. p # o
      BY <1>5, <2>2
    <3>3. <<d, p, "COMPANY_OWNER">> \in members'
      BY <1>3, <3>1, <3>2
    <3> QED
      BY <1>3, <1>4, <3>1, <3>3
  <2> QED
    BY <2>1, <2>2 DEF OrgsInv
<1>9. StaffInv'
  <2>1. \A m \in members' : m[1] \in Registered'
    BY <1>3, <1>4 DEF IInv, StaffInv
  <2>2. ASSUME NEW m \in Membership, Accepted(m)' # {}, m \notin members'
        PROVE  <<m[1], m[2]>> \in removed'
    <3>1. CASE m \in members
      <4>1. PICK role \in Role : m = <<e, o, role>>
        BY <1>3, <2>2, <3>1
      <4> QED
        BY <1>3, <4>1
    <3>2. CASE m \notin members
      BY <1>3, <1>5, <2>2, <3>2 DEF IInv, StaffInv
    <3> QED
      BY <3>1, <3>2
  <2> QED
    BY <2>1, <2>2 DEF StaffInv
<1>10. Grows
  BY <1>4, <1>5 DEF Grows
<1> QED
  BY <1>3, <1>6, <1>7, <1>8, <1>9, <1>10, Ends

-----------------------------------------------------------------------------
\* Every step keeps the invariant.
LEMMA StepIInv == IInv /\ [Next]_vars => IInv'
<1> SUFFICES ASSUME IInv, [Next]_vars
             PROVE  IInv'
  OBVIOUS
<1>1. ASSUME NEW r \in Request, BeginOrganization(r)
      PROVE  IInv'
  BY <1>1, OrganizationReads, RegisterInv
  DEF BeginOrganization, OrganizationsController, InvitationsController
<1>2. ASSUME NEW r \in Request, ContinueOrganization(r)
      PROVE  IInv'
  BY <1>2, OrganizationReads, ReviewInv, InviteInv, AcceptInv, RemoveInv
  DEF ContinueOrganization
<1>3. ASSUME NEW r \in Request, Fail(r)
      PROVE  IInv'
  BY <1>3, EndsHold, RequestReads DEF Fail, Fails
<1>4. CASE UNCHANGED vars
  <2>1. UNCHANGED <<accountTables, orgTables, req>>
    BY <1>4 DEF vars
  <2>2. /\ Registered' = Registered /\ MailTokens' = MailTokens /\ Proven' = Proven
        /\ ApprovedOrgs' = ApprovedOrgs /\ Organizations' = Organizations /\ Sent' = Sent
    BY <2>1, AccountsKept, OrgsKept
  <2>3. RowsInv' /\ AccountsInv'
    BY <2>1, <2>2, AccountsKept, OrgsKept DEF IInv, RowsInv, AccountsInv
  <2>4. OrgsInv' /\ StaffInv'
    BY <2>1, <2>2, OrgTablesStand DEF IInv
  <2>5. HandlersInv'
    BY <2>1, <2>2 DEF IInv, HandlersInv, HandlerHolds
  <2> QED
    BY <2>3, <2>4, <2>5 DEF IInv
<1> QED
  BY <1>1, <1>2, <1>3, <1>4, AccountSteps DEF Next, Quiescent

\* The inductive invariant holds in every reachable state.
THEOREM IInvHolds == Spec => []IInv
  BY InitIInv, StepIInv, PTL DEF Spec

\* However many reviews overlap, the status of an organization is its latest audit row.
THEOREM AuditSaysStatus == Spec => []ReviewsAreAudited
<1>1. IInv => ReviewsAreAudited
  BY DEF IInv, OrgsInv
<1> QED
  BY <1>1, IInvHolds, PTL

\* Whoever registers, invites, accepts or removes meanwhile, an organization that is not
\* approved has its owner for a member and nobody else.
THEOREM UnapprovedHaveTheirOwner == Spec => []OwnerAloneUntilApproved
<1>1. IInv => OwnerAloneUntilApproved
  <2> SUFFICES ASSUME IInv, NEW o \in Organizations, ~ Approved(o)
               PROVE  \E e \in Registered :
                        {m \in members : m[2] = o} = {<<e, o, "COMPANY_OWNER">>}
    BY DEF OwnerAloneUntilApproved
  <2>1. PICK e \in Registered :
          /\ <<e, o, "COMPANY_OWNER">> \in members
          /\ \A m \in Membership : m[2] = o /\ (m \in members \/ joined[m] > 0) =>
               m = <<e, o, "COMPANY_OWNER">>
    BY DEF IInv, OrgsInv, ApprovedOrgs
  <2>2. members \subseteq Membership
    BY DEF IInv, RowsInv
  <2> QED
    BY <2>1, <2>2
<1> QED
  BY <1>1, IInvHolds, PTL

\* For any number of requests, invitations and users, who accepted is a member until
\* removed, members have accounts, and accounts are verified by token or invitation.
THEOREM AcceptanceAdmits == Spec => []AcceptedAreMembers
<1>1. IInv => AcceptedAreMembers
  <2> SUFFICES ASSUME IInv PROVE AcceptedAreMembers
    OBVIOUS
  <2>1. \A e \in Registered \ SeedUsers : users[e].verified =>
          \/ \E m \in MailTokens : mailTokens[m].user = e /\ mailTokens[m].used
          \/ \E m \in Membership : m[1] = e /\ Accepted(m) # {}
    BY DEF IInv, AccountsInv, Proven
  <2> QED
    BY <2>1 DEF AcceptedAreMembers, IInv, StaffInv
<1> QED
  BY <1>1, IInvHolds, PTL

-----------------------------------------------------------------------------
(* Roles given, and the invitations accepted for them. *)

\* What a step may do to the count of a membership: nothing, while acceptances stay; one
\* more for an invitation that was not accepted before; the first one to a new owner.
Counts(m) ==
    \/ joined'[m] = joined[m] /\ Accepted(m) \subseteq Accepted(m)'
    \/ joined'[m] = joined[m] + 1 /\ \E i \in Invitation \ Accepted(m) :
                                       Accepted(m) \cup {i} \subseteq Accepted(m)'
    \/ joined'[m] = 1 /\ m[3] = "COMPANY_OWNER"

\* An invitation that is sent or deleted was not accepted, or stays so.
LEMMA InvitationsCount ==
    ASSUME IInv, NEW r \in Request, NEW m \in Membership, InviteInsert(r) \/ CancelDelete(r)
    PROVE  Counts(m)
<1>0. invitations \in [Invitation -> InvitationRow \cup {None}] /\ None \notin InvitationRow
  BY OrganizationAssumption DEF IInv, RowsInv
<1>1. UNCHANGED joined
  BY DEF InviteInsert, CancelDelete
<1>2. ASSUME NEW i \in Accepted(m)
      PROVE  i \in Accepted(m)'
  <2>1. CASE InviteInsert(r)
    <3>1. PICK k \in Invitation : /\ invitations[k] = None
                                  /\ invitations' = [invitations EXCEPT ![k] =
                                        NewInvitation(req[r].org, req[r].email, req[r].role)]
      BY <2>1 DEF InviteInsert
    <3>2. i \in Invitation /\ i # k
      BY <1>2, <3>1 DEF Accepted
    <3>3. invitations'[i] = invitations[i]
      BY <1>0, <3>1, <3>2
    <3> QED
      BY <1>2, <3>3 DEF Accepted
  <2>2. CASE CancelDelete(r)
    <3> DEFINE row == [invitations[i] EXCEPT !.deleted = TRUE]
    <3>1. i \in Invitation /\ invitations[i] \in InvitationRow
      BY <1>0, <1>2 DEF Accepted
    <3>2. /\ row \in InvitationRow /\ row.accepted = invitations[i].accepted
          /\ row.org = invitations[i].org /\ row.email = invitations[i].email
          /\ row.role = invitations[i].role
      BY <3>1 DEF InvitationRow
    <3>3. invitations'[i] = invitations[i] \/ invitations'[i] = row
      BY <1>0, <2>2, <3>1 DEF CancelDelete
    <3> HIDE DEF row
    <3> QED
      BY <1>0, <1>2, <3>2, <3>3 DEF Accepted
  <2> QED
    BY <2>1, <2>2
<1> QED
  BY <1>1, <1>2 DEF Counts

\* The claim of an invitation is counted once, and a registration is the first.
LEMMA AdmissionsCount ==
    ASSUME IInv, NEW r \in Request, NEW n \in Membership,
           \/ AcceptClaim(r)
           \/ \E o \in Org, e \in Email : RegisterOrganization(r, o, e)
    PROVE  Counts(n)
<1>0. TablesInv
  BY DEF IInv, RowsInv, TablesInv
<1>1. CASE AcceptClaim(r)
  <2>1. PICK i \in Sent, m \in Membership :
          /\ m = <<invitations[i].email, invitations[i].org, invitations[i].role>>
          /\ ~ invitations[i].accepted
          /\ invitations'[i].accepted
          /\ \A k \in Invitation : /\ k # i => invitations'[k] = invitations[k]
                                   /\ invitations'[k] # None <=> invitations[k] # None
          /\ invitations'[i].email = m[1] /\ invitations'[i].org = m[2]
          /\ invitations'[i].role = m[3]
          /\ (m \in members /\ UNCHANGED <<members, joined>>) \/ (m \notin members /\ Grant(m))
    BY <1>1, ClaimDoes
  <2>2. i \in Invitation \ Accepted(n) /\ m = <<m[1], m[2], m[3]>>
    BY <2>1 DEF Accepted, Sent, Membership
  <2>3. Accepted(n) \subseteq Accepted(n)'
    BY <2>1 DEF Accepted
  <2>4. i \in Accepted(m)'
    BY <2>1, <2>2 DEF Accepted, Sent
  <2>5. joined'[n] = joined[n] \/ (n = m /\ joined'[n] = joined[n] + 1)
    BY <1>0, <2>1, Granted DEF TablesInv
  <2> QED
    BY <2>2, <2>3, <2>4, <2>5 DEF Counts
<1>2. ASSUME NEW o \in Org, NEW e \in Email, RegisterOrganization(r, o, e)
      PROVE  Counts(n)
  <2>1. Accepted(n)' = Accepted(n)
    BY <1>2 DEF RegisterOrganization, Accepted
  <2>2. CASE UNCHANGED joined
    BY <2>1, <2>2 DEF Counts
  <2>3. CASE Grant(<<e, o, "COMPANY_OWNER">>)
    <3> DEFINE m == <<e, o, "COMPANY_OWNER">>
    <3>1. m \in Membership /\ m[2] = o /\ m[3] = "COMPANY_OWNER"
      BY DEF Membership, Role
    <3>2. joined[m] = 0
      BY <1>2, <3>1 DEF IInv, OrgsInv, RegisterOrganization, Organizations
    <3>3. /\ joined'[m] = joined[m] + 1
          /\ \A k \in Membership \ {m} : joined'[k] = joined[k]
      BY <1>0, <2>3, <3>1, Granted
    <3> HIDE DEF m
    <3> QED
      BY <2>1, <3>1, <3>2, <3>3 DEF Counts
  <2> QED
    BY <1>2, <2>2, <2>3 DEF RegisterOrganization
<1> QED
  BY <1>1, <1>2

\* Nothing else gives a role or touches an invitation.
LEMMA StepsCount ==
    ASSUME IInv, [Next]_vars, NEW m \in Membership
    PROVE  Counts(m)
<1>1. CASE UNCHANGED <<joined, invitations>>
  BY <1>1 DEF Counts, Accepted
<1>2. ASSUME NEW r \in Request, BeginOrganization(r)
      PROVE  Counts(m)
  <2>1. \/ UNCHANGED <<joined, invitations>>
        \/ \E o \in Org, e \in Email : RegisterOrganization(r, o, e)
    BY <1>2 DEF BeginOrganization, OrganizationsController, InvitationsController,
                RemoveRead, ReviewRead, InviteRead, OnPending, orgTables
  <2> QED
    BY <1>1, <2>1, AdmissionsCount
<1>3. ASSUME NEW r \in Request, ContinueOrganization(r)
      PROVE  Counts(m)
  <2>1. \/ UNCHANGED <<joined, invitations>>
        \/ InviteInsert(r) \/ CancelDelete(r) \/ AcceptClaim(r)
    BY <1>3 DEF ContinueOrganization, ReviewWrite, InviteFindMember, InviteFindPending,
                AcceptRollsBack, RemoveCountOwners, RemoveDelete, orgTables
  <2> QED
    BY <1>1, <2>1, AdmissionsCount, InvitationsCount
<1> QED
  BY <1>1, <1>2, <1>3 DEF Next, Account, Fail, Quiescent, vars, orgTables

\* For any finite set of invitations, however often they are presented: a role was given
\* at most once for each that was accepted, and once to who registered the organization.
THEOREM OneAdmissionEach ==
    ASSUME IsFiniteSet(Invitation)
    PROVE  Spec => []AdmittedOncePerInvitation
<1>1. Init => AdmittedOncePerInvitation
  <2> SUFFICES ASSUME Init, NEW m \in Membership
               PROVE  joined[m] <= Cardinality(Accepted(m))
                                     + (IF m[3] = "COMPANY_OWNER" THEN 1 ELSE 0)
    BY DEF AdmittedOncePerInvitation
  <2>1. Accepted(m) = {}
    BY DEF Init, OrgTablesInit, Accepted
  <2>2. joined[m] = IF m \in Founders THEN 1 ELSE 0
    BY DEF Init, OrgTablesInit
  <2> QED
    BY <2>1, <2>2, FS_EmptySet DEF Founders
<1>2. ASSUME IInv, IInv', AdmittedOncePerInvitation, [Next]_vars
      PROVE  AdmittedOncePerInvitation'
  <2> SUFFICES ASSUME NEW m \in Membership
               PROVE  joined'[m] <= Cardinality(Accepted(m)')
                                      + (IF m[3] = "COMPANY_OWNER" THEN 1 ELSE 0)
    BY DEF AdmittedOncePerInvitation
  <2> DEFINE before == Accepted(m)
             after == Accepted(m)'
             founded == IF m[3] = "COMPANY_OWNER" THEN 1 ELSE 0
  <2>1. joined[m] \in Nat /\ joined'[m] \in Nat /\ joined[m] <= Cardinality(before) + founded
    BY <1>2 DEF IInv, RowsInv, AdmittedOncePerInvitation
  <2>2. IsFiniteSet(before) /\ IsFiniteSet(after)
    BY FS_Subset DEF Accepted
  <2>3. Cardinality(before) \in Nat /\ Cardinality(after) \in Nat
    BY <2>2, FS_CardinalityType
  <2>4. Counts(m)
    BY <1>2, StepsCount
  <2>5. \/ joined'[m] = joined[m] /\ before \subseteq after
        \/ joined'[m] = joined[m] + 1 /\ \E i \in Invitation \ before :
                                           before \cup {i} \subseteq after
        \/ joined'[m] = 1 /\ m[3] = "COMPANY_OWNER"
    BY <2>4 DEF Counts
  <2> HIDE DEF before, after
  <2>6. CASE joined'[m] = joined[m] /\ before \subseteq after
    <3>1. Cardinality(before) <= Cardinality(after)
      BY <2>2, <2>6, FS_Subset
    <3> QED
      BY <2>1, <2>3, <2>6, <3>1 DEF after
  <2>7. ASSUME joined'[m] = joined[m] + 1, NEW i \in Invitation \ before,
               before \cup {i} \subseteq after
        PROVE  joined'[m] <= Cardinality(after) + founded
    <3>1. Cardinality(before \cup {i}) = Cardinality(before) + 1
      BY <2>2, <2>7, FS_AddElement
    <3>2. Cardinality(before \cup {i}) <= Cardinality(after)
      BY <2>2, <2>7, FS_Subset
    <3> QED
      BY <2>1, <2>3, <2>7, <3>1, <3>2
  <2>8. CASE joined'[m] = 1 /\ m[3] = "COMPANY_OWNER"
    BY <2>3, <2>8 DEF after
  <2> QED
    BY <2>5, <2>6, <2>7, <2>8 DEF after
<1> QED
  BY <1>1, <1>2, IInvHolds, PTL DEF Spec
=============================================================================
