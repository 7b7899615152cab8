------------------------------ MODULE Sessions ------------------------------
(***************************************************************************)
(* AuthService at work: several requests of the same users, and the clock.   *)
(***************************************************************************)
EXTENDS AuthService

vars == <<accountTables, sessionTables, lapsed, req>>

Init == AccountTablesInit /\ SessionTablesInit /\ RequestsInit

\* No request is left to come.
Quiescent == AllDone /\ UNCHANGED vars

Next ==
    \/ \E r \in Request : AuthController(r) \/ ContinueAuth(r) \/ AuthFails(r)
    \/ Lapse
    \/ Quiescent

\* Node resumes every await: a request that has begun is carried on.
Spec == Init /\ [][Next]_vars /\ \A r \in Request : WF_vars(ContinueAuth(r))

-----------------------------------------------------------------------------
Started == {t \in RefreshTokens : refreshTokens[t].session = t}
Carriers(s) ==
    Cardinality({t \in RefreshTokens : Live(t) /\ refreshTokens[t].session = s})
        + Cardinality({r \in Request : Holds(r, s)})

\* A session is never duplicated and never lost by accident.  Until it ends, by
\* logout, by a reset, by a refused switchOrg or by a failure between its
\* rotation and the next insert, exactly one refresh token that is not revoked
\* or exactly one request carries it, however many requests present the same
\* token at once; when it has ended, nothing does.
SessionsAreCarried ==
    \A s \in Started : Carriers(s) = IF s \in ended THEN 0 ELSE 1

\* The password a session of e has checked is the one in force, or its reset has not
\* come to the revocation yet, or never will.
InForce(e, resets) ==
    \/ resets = users[e].resets
    \/ \E r \in Request : At(r, "revokeAll") /\ req[r].user = e
    \/ e \in halfReset

\* When a password reset is through, no session of a login with an earlier password
\* is live, however often its token was rotated since: the password is written
\* first, the tokens of the time are revoked next.  Excepted are the users one of
\* whose own resets was cut off in between, until another comes through, and the
\* sessions that were between two rows as the revocation ran: checked or rotated
\* before it, inserted after it.
ResetEndsSessions ==
    \A t \in RefreshTokens : Live(t) =>
        refreshTokens[t].missed \/ InForce(refreshTokens[t].user, refreshTokens[t].resets)

\* docs/authentication.md: a reset is to "revoke all existing refresh tokens for that
\* user (force re-login everywhere)".  A login that checked the old password, or a
\* rotation that took an old token, before the updateMany of resetPassword() and
\* inserts its row after it, leaves a session of the old password.
ResetForcesLogin ==
    \A t \in RefreshTokens : Live(t) =>
        InForce(refreshTokens[t].user, refreshTokens[t].resets)

UsedTokens(e, purpose) ==
    {m \in MailTokens : mailTokens[m].user = e /\ mailTokens[m].purpose = purpose
                          /\ mailTokens[m].used}

\* Every change of a password has used up a reset token of its own, and every
\* verified account that registered itself a verification token: two requests
\* with the same token never both pass claimToken().
TokensAreUsedOnce ==
    \A e \in Registered :
        /\ users[e].resets
             + Cardinality({r \in Request : At(r, "setPassword") /\ req[r].user = e})
             <= Cardinality(UsedTokens(e, "PASSWORD_RESET"))
        /\ users[e].verified /\ e \notin SeedUsers =>
             UsedTokens(e, "EMAIL_VERIFICATION") # {}

\* A token that was used up takes effect in the end, but for one for each
\* request that was cut off.
UsedTokensTakeEffect ==
    <>[](\A e \in Registered :
            LET verifications == UsedTokens(e, "EMAIL_VERIFICATION")
            IN  /\ Cardinality(UsedTokens(e, "PASSWORD_RESET"))
                     <= users[e].resets + Cardinality(CutOff)
                /\ verifications # {} /\ CutOff = {} => users[e].verified)
=============================================================================
