---------------------------- MODULE AuthService ----------------------------
(***************************************************************************)
(* AuthService: accounts, single-use tokens sent by mail, and sessions that *)
(* a refresh token carries from one request to the next.  What an access    *)
(* token says (roles, organization, names) is left out, and so are the      *)
(* awaits that only hash, compare or sign.                                  *)
(***************************************************************************)
EXTENDS Requests, Integers

CONSTANTS
    Email,         \* a User is identified by its email, which is unique
    MailToken,     \* ids of VerificationToken rows
    RefreshToken,  \* ids of RefreshToken rows
    None,          \* no row, no value
    SeedUsers      \* the accounts, made by invitation, a behaviour starts from

VARIABLES
    users,          \* User: emailVerified, and how often the password was reset
    mailTokens,     \* VerificationToken
    refreshTokens,  \* RefreshToken
    lapsed,         \* the tokens of either kind whose expiresAt is in the past
    ended,          \* sessions that were ended on purpose or lost by a failure
    overtaken,      \* requests a revocation of their user's sessions ran past
    halfReset       \* users one of whose resets was cut off, and none came through since

accountTables == <<users, mailTokens>>
sessionTables == <<refreshTokens, ended, overtaken, halfReset>>

\* resets counts the values passwordHash has had.
UserRow == [verified: BOOLEAN, resets: Nat]
Purpose == {"EMAIL_VERIFICATION", "PASSWORD_RESET"}
MailTokenRow == [user: Email, purpose: Purpose, used: BOOLEAN]

\* session is the token the login issued, resets the password the login checked,
\* and missed whether a revocation overtook the session between two of its rows;
\* none of them is a column.
RefreshTokenRow ==
    [user: Email, revoked: BOOLEAN, session: RefreshToken, resets: Nat, missed: BOOLEAN]

ASSUME AccountAssumption ==
    /\ SeedUsers \subseteq Email
    /\ None \notin RefreshToken /\ None \notin UserRow
    /\ None \notin MailTokenRow /\ None \notin RefreshTokenRow

AccountTablesInit ==
    /\ users = [e \in Email |->
                  IF e \in SeedUsers THEN [verified |-> TRUE, resets |-> 0] ELSE None]
    /\ mailTokens = [m \in MailToken |-> None]

SessionTablesInit ==
    /\ refreshTokens = [t \in RefreshToken |-> None]
    /\ lapsed = {}
    /\ ended = {} /\ overtaken = {} /\ halfReset = {}

Registered == {e \in Email : users[e] # None}
MailTokens == {m \in MailToken : mailTokens[m] # None}
RefreshTokens == {t \in RefreshToken : refreshTokens[t] # None}
Live(t) == t \in RefreshTokens /\ ~ refreshTokens[t].revoked

\* The bounds on tokens: an id is left for each request on its way to one.
RoomForMailToken ==
    Cardinality({r \in Request : req[r].pc = "mailToken"})
        < Cardinality(MailToken \ MailTokens)
RoomForRefreshToken ==
    Cardinality({r \in Request : req[r].pc \in {"rotate", "memberships", "issue"}})
        < Cardinality(RefreshToken \ RefreshTokens)

\* The clock passes the expiresAt of a token.
Lapse ==
    /\ \E t \in (MailTokens \cup RefreshTokens) \ lapsed : lapsed' = lapsed \cup {t}
    /\ UNCHANGED <<accountTables, sessionTables, req>>

-----------------------------------------------------------------------------
(* register(): the account (P2002 when the email is taken), then its token. *)
(* forgotPassword(): the account is looked up, then its token is inserted.  *)

NewUser(verified) == [verified |-> verified, resets |-> 0]

CreateUserAccount(r, e) ==
    /\ Arrives(r)
    /\ RoomForMailToken
    /\ IF users[e] = None
       THEN /\ users' = [users EXCEPT ![e] = NewUser(FALSE)]
            /\ Goto(r, [pc |-> "mailToken", user |-> e, purpose |-> "EMAIL_VERIFICATION"])
       ELSE UNCHANGED users /\ Finish(r)
    /\ UNCHANGED <<mailTokens, sessionTables, lapsed>>

ForgotPassword(r, e) ==
    /\ Arrives(r)
    /\ RoomForMailToken
    /\ Goto(r, IF e \in Registered
               THEN [pc |-> "mailToken", user |-> e, purpose |-> "PASSWORD_RESET"]
               ELSE Done)
    /\ UNCHANGED <<accountTables, sessionTables, lapsed>>

NewMailToken(e, purpose) == [user |-> e, purpose |-> purpose, used |-> FALSE]

CreateMailToken(r) ==
    /\ At(r, "mailToken")
    /\ \E m \in MailToken \ MailTokens :
         mailTokens' = [mailTokens EXCEPT ![m] = NewMailToken(req[r].user, req[r].purpose)]
    /\ Finish(r)
    /\ UNCHANGED <<users, sessionTables, lapsed>>

-----------------------------------------------------------------------------
(* verifyEmail() and resetPassword(): claimToken() reads and checks the row, *)
(* and takes it with an update that is conditional on usedAt: null.          *)

ClaimRead(r, m) ==
    /\ Arrives(r)
    /\ m \in MailTokens
    /\ Goto(r, IF mailTokens[m].used \/ m \in lapsed
               THEN Done ELSE [pc |-> "claim", token |-> m])
    /\ UNCHANGED <<accountTables, sessionTables, lapsed>>

\* Mutation of Claimed: the purpose is not looked at.
ClaimedVerifies(r, m) == Goto(r, [pc |-> "verify", user |-> mailTokens[m].user])

Claimed(r, m) ==
    Goto(r, [pc |-> IF mailTokens[m].purpose = "PASSWORD_RESET"
                    THEN "setPassword" ELSE "verify",
             user |-> mailTokens[m].user])

\* Mutation of ClaimToken: the update is not conditional.
ClaimTokenAgain(r) ==
    LET m == req[r].token
    IN  /\ At(r, "claim")
        /\ mailTokens' = [mailTokens EXCEPT ![m].used = TRUE]
        /\ Claimed(r, m)
        /\ UNCHANGED <<users, sessionTables, lapsed>>

ClaimToken(r) ==
    LET m == req[r].token
    IN  /\ At(r, "claim")
        /\ IF mailTokens[m].used
           THEN UNCHANGED mailTokens /\ Finish(r)
           ELSE mailTokens' = [mailTokens EXCEPT ![m].used = TRUE] /\ Claimed(r, m)
        /\ UNCHANGED <<users, sessionTables, lapsed>>

VerifyEmail(r) ==
    /\ At(r, "verify")
    /\ users' = [users EXCEPT ![req[r].user].verified = TRUE]
    /\ Finish(r)
    /\ UNCHANGED <<mailTokens, sessionTables, lapsed>>

ResetPassword(r) ==
    /\ At(r, "setPassword")
    /\ users' = [users EXCEPT ![req[r].user].resets = @ + 1]
    /\ Goto(r, [pc |-> "revokeAll", user |-> req[r].user])
    /\ UNCHANGED <<mailTokens, sessionTables, lapsed>>

\* Requests of e that hold a session, a new one or one they have rotated, without
\* a row: the revocation finds nothing to revoke of it, and it goes on.
OnTheirWay(e) ==
    {r \in Request : req[r].pc \in {"memberships", "issue"} /\ req[r].user = e}

\* Mutation of RevokeAllSessions: one token is revoked.
RevokeOneSession(r) ==
    /\ At(r, "revokeAll")
    /\ \E t \in RefreshTokens :
         /\ refreshTokens[t].user = req[r].user /\ Live(t)
         /\ refreshTokens' = [refreshTokens EXCEPT ![t].revoked = TRUE]
         /\ ended' = ended \cup {refreshTokens[t].session}
    /\ overtaken' = overtaken \cup OnTheirWay(req[r].user)
    /\ halfReset' = halfReset \ {req[r].user}
    /\ Finish(r)
    /\ UNCHANGED <<accountTables, lapsed>>

\* One statement, over the rows that are there.
RevokeAllSessions(r) ==
    LET theirs == {t \in RefreshTokens : refreshTokens[t].user = req[r].user /\ Live(t)}
    IN  /\ At(r, "revokeAll")
        /\ refreshTokens' = [t \in RefreshToken |->
               IF t \in theirs THEN [refreshTokens[t] EXCEPT !.revoked = TRUE]
               ELSE refreshTokens[t]]
        /\ ended' = ended \cup {refreshTokens[t].session : t \in theirs}
        /\ overtaken' = overtaken \cup OnTheirWay(req[r].user)
        /\ halfReset' = halfReset \ {req[r].user}
        /\ Finish(r)
        /\ UNCHANGED <<accountTables, lapsed>>

-----------------------------------------------------------------------------
(* login(), refresh(), switchOrg() and logout(). *)

\* The account, and whether the password is the one read.
Login(r, e) ==
    /\ Arrives(r)
    /\ RoomForRefreshToken
    /\ e \in Registered
    /\ \/ Goto(r, [pc |-> "issue", user |-> e, session |-> None,
                    resets |-> users[e].resets, missed |-> FALSE])
       \/ Finish(r)
    /\ UNCHANGED <<accountTables, sessionTables, lapsed>>

\* claimRefreshToken(): read and check, then revoke if not revoked yet.
RefreshRead(r, t) ==
    /\ Arrives(r)
    /\ RoomForRefreshToken
    /\ t \in RefreshTokens
    /\ IF Live(t) /\ t \notin lapsed
       THEN \E switching \in BOOLEAN :
              Goto(r, [pc |-> "rotate", token |-> t, switching |-> switching])
       ELSE Finish(r)
    /\ UNCHANGED <<accountTables, sessionTables, lapsed>>

\* The request that has rotated a row carries its session on.
CarriesOn(pc, row) == [pc |-> pc, user |-> row.user, session |-> row.session,
                       resets |-> row.resets, missed |-> row.missed]

\* Mutation of Rotate: the update is not conditional.
RotateAgain(r) ==
    LET t == req[r].token
    IN  /\ At(r, "rotate")
        /\ refreshTokens' = [refreshTokens EXCEPT ![t].revoked = TRUE]
        /\ Goto(r, CarriesOn("issue", refreshTokens[t]))
        /\ UNCHANGED <<accountTables, ended, overtaken, halfReset, lapsed>>

Rotate(r) ==
    LET t == req[r].token
    IN  /\ At(r, "rotate")
        /\ IF Live(t)
           THEN /\ refreshTokens' = [refreshTokens EXCEPT ![t].revoked = TRUE]
                /\ Goto(r, CarriesOn(IF req[r].switching THEN "memberships" ELSE "issue",
                                     refreshTokens[t]))
           ELSE UNCHANGED refreshTokens /\ Finish(r)
        /\ UNCHANGED <<accountTables, ended, overtaken, halfReset, lapsed>>

\* switchOrg() asks for a role in the organization only now: a 404 costs the
\* session that was rotated.
SwitchMemberships(r) ==
    /\ At(r, "memberships")
    /\ \/ Goto(r, [req[r] EXCEPT !.pc = "issue"]) /\ UNCHANGED ended
       \/ Finish(r) /\ ended' = ended \cup {req[r].session}
    /\ UNCHANGED <<accountTables, refreshTokens, overtaken, halfReset, lapsed>>

NewRefreshToken(t, r) ==
    [user |-> req[r].user, revoked |-> FALSE,
     session |-> IF req[r].session = None THEN t ELSE req[r].session,
     resets |-> req[r].resets, missed |-> req[r].missed \/ r \in overtaken]

IssueTokenPair(r) ==
    /\ At(r, "issue")
    /\ \E t \in RefreshToken \ RefreshTokens :
         refreshTokens' = [refreshTokens EXCEPT ![t] = NewRefreshToken(t, r)]
    /\ Finish(r)
    /\ UNCHANGED <<accountTables, ended, overtaken, halfReset, lapsed>>

Logout(r, t) ==
    /\ Arrives(r)
    /\ t \in RefreshTokens
    /\ IF Live(t)
       THEN /\ refreshTokens' = [refreshTokens EXCEPT ![t].revoked = TRUE]
            /\ ended' = ended \cup {refreshTokens[t].session}
            /\ UNCHANGED <<overtaken, halfReset>>
       ELSE UNCHANGED sessionTables
    /\ Finish(r)
    /\ UNCHANGED <<accountTables, lapsed>>

-----------------------------------------------------------------------------
\* The session that r has rotated out of its row.
Holds(r, session) ==
    req[r].pc \in {"memberships", "issue"} /\ req[r].session = session

\* A request that is cut off loses the session it holds; a reset is left half done
\* when the password is written and nothing revoked.
AuthFails(r) ==
    /\ Fails(r)
    /\ ended' = ended \cup {s \in RefreshToken : Holds(r, s)}
    /\ halfReset' = halfReset \cup {e \in Email : At(r, "revokeAll") /\ req[r].user = e}
    /\ UNCHANGED <<accountTables, refreshTokens, overtaken, lapsed>>

AuthController(r) ==
    \/ \E e \in Email : CreateUserAccount(r, e) \/ ForgotPassword(r, e) \/ Login(r, e)
    \/ \E m \in MailToken : ClaimRead(r, m)
    \/ \E t \in RefreshToken : RefreshRead(r, t) \/ Logout(r, t)

ContinueAuth(r) ==
    \/ CreateMailToken(r)
    \/ ClaimToken(r)
    \/ VerifyEmail(r)
    \/ ResetPassword(r)
    \/ RevokeAllSessions(r)
    \/ Rotate(r)
    \/ SwitchMemberships(r)
    \/ IssueTokenPair(r)
=============================================================================
