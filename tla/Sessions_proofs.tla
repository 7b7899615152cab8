--------------------------- MODULE Sessions_proofs ---------------------------
(***************************************************************************)
(* Theorems on accounts and sessions.  What a handler has read of a token   *)
(* may have changed when it writes; that there is the token, the account or *)
(* the session stays.                                                       *)
(***************************************************************************)
EXTENDS Sessions, FiniteSetTheorems, TLAPS

Proven == {e \in Email : UsedTokens(e, "EMAIL_VERIFICATION") # {}}

RowsInv ==
    /\ req = [r \in Request |-> req[r]]
    /\ users \in [Email -> UserRow \cup {None}]
    /\ mailTokens \in [MailToken -> MailTokenRow \cup {None}]
    /\ refreshTokens \in [RefreshToken -> RefreshTokenRow \cup {None}]

\* Whose tokens there are, of which sessions, and why accounts are verified.
AgreeInv ==
    /\ \A m \in MailTokens : mailTokens[m].user \in Registered
    /\ \A e \in Registered \ SeedUsers : users[e].verified => e \in Proven
    /\ \A t \in RefreshTokens :
         refreshTokens[t].user \in Registered /\ refreshTokens[t].session \in Started
    /\ ended \subseteq Started

\* What a request must hold for the next statement of its handler.
HandlerHolds(x, known, mails, proven, tokens, started) ==
    /\ x.pc = "mailToken" => x.user \in known /\ x.purpose \in Purpose
    /\ x.pc = "claim" => x.token \in mails
    /\ x.pc = "verify" => x.user \in known \cap proven
    /\ x.pc \in {"setPassword", "revokeAll"} => x.user \in known
    /\ x.pc = "rotate" => x.token \in tokens
    /\ x.pc \in {"memberships", "issue"} =>
         /\ x = [pc |-> x.pc, user |-> x.user, session |-> x.session,
                 resets |-> x.resets, missed |-> x.missed]
         /\ x.resets \in Nat /\ x.missed \in BOOLEAN
         /\ x.user \in known
         /\ x.session \in started \/ (x.pc = "issue" /\ x.session = None)

HandlersInv ==
    \A r \in Request :
        HandlerHolds(req[r], Registered, MailTokens, Proven, RefreshTokens, Started)

\* A session has one row that is not revoked or one request, or else it has ended.
RowCarries(t, s) == Live(t) /\ refreshTokens[t].session = s
CarriedInv ==
    \A s \in Started :
        /\ \A t, u \in RefreshToken : RowCarries(t, s) /\ RowCarries(u, s) => t = u
        /\ \A r, q \in Request : Holds(r, s) /\ Holds(q, s) => r = q
        /\ \A t \in RefreshToken, r \in Request : ~ (RowCarries(t, s) /\ Holds(r, s))
        /\ s \in ended <=> /\ \A t \in RefreshToken : ~ RowCarries(t, s)
                           /\ \A r \in Request : ~ Holds(r, s)

IInv == RowsInv /\ AgreeInv /\ HandlersInv /\ CarriedInv

\* There is nobody and nothing yet but the accounts of the seed.
LEMMA InitIInv == Init => IInv
<1> SUFFICES ASSUME Init PROVE IInv
  OBVIOUS
<1> USE DEF Init, AccountTablesInit, SessionTablesInit, RequestsInit, Idle
<1>1. RowsInv
  BY DEF RowsInv, UserRow
<1>2. MailTokens = {} /\ RefreshTokens = {} /\ Started = {}
  BY DEF MailTokens, RefreshTokens, Started
<1>3. AgreeInv
  BY <1>2 DEF AgreeInv, Registered
<1>4. HandlersInv
  BY DEF HandlersInv, HandlerHolds
<1> QED
  BY <1>1, <1>2, <1>3, <1>4 DEF IInv, CarriedInv

-----------------------------------------------------------------------------
(* A step of one request. *)

\* Nobody and nothing disappears.
Grows == /\ Registered \subseteq Registered' /\ MailTokens \subseteq MailTokens'
         /\ Proven \subseteq Proven' /\ RefreshTokens \subseteq RefreshTokens'
         /\ Started \subseteq Started'

LEMMA Held ==
    ASSUME IInv, NEW r \in Request
    PROVE  HandlerHolds(req[r], Registered, MailTokens, Proven, RefreshTokens, Started)
  BY DEF IInv, HandlersInv

\* Each handler changes its own record only.
LEMMA Moves ==
    ASSUME RowsInv, NEW r \in Request, NEW x, Goto(r, x)
    PROVE  /\ req' = [q \in Request |-> req'[q]]
           /\ req'[r] = x
           /\ \A q \in Request \ {r} : req'[q] = req[q]
  BY DEF RowsInv, Goto

\* What other requests hold stays good.
LEMMA HandlersStay ==
    ASSUME IInv, NEW r \in Request, NEW x, Goto(r, x), Grows,
           HandlerHolds(x, Registered', MailTokens', Proven', RefreshTokens', Started')
    PROVE  HandlersInv'
<1>1. req'[r] = x /\ \A q \in Request \ {r} : req'[q] = req[q]
  BY Moves DEF IInv
<1>2. ASSUME NEW q \in Request \ {r}
      PROVE  HandlerHolds(req[q], Registered', MailTokens', Proven', RefreshTokens', Started')
  BY <1>2, Held DEF HandlerHolds, Grows
<1> QED
  BY <1>1, <1>2 DEF HandlersInv

\* A step that neither issues nor revokes a token nor takes up a session: no
\* session changes hands.
LEMMA SessionsStay ==
    ASSUME IInv, NEW r \in Request, NEW x, Goto(r, x), UNCHANGED sessionTables,
           req[r].pc \notin {"memberships", "issue"},
           x.pc # "memberships", x.pc = "issue" => x.session = None
    PROVE  CarriedInv'
<1>1. req'[r] = x /\ \A q \in Request \ {r} : req'[q] = req[q]
  BY Moves DEF IInv
<1>2. /\ Started' = Started /\ ended' = ended
      /\ \A t, s : RowCarries(t, s)' <=> RowCarries(t, s)
  BY DEF sessionTables, Started, RefreshTokens, Live, RowCarries
<1>3. ASSUME NEW q \in Request, NEW s \in Started
      PROVE  Holds(q, s)' <=> Holds(q, s)
  <2>1. s # None
    BY <1>3, AccountAssumption DEF Started, RefreshTokens
  <2> QED
    BY <1>1, <2>1 DEF Holds
<1> QED
  BY <1>2, <1>3 DEF IInv, CarriedInv

\* Every handler but of a session that is rotated, and every row that is written
\* beside it, keeps the invariant.
LEMMA StepKept ==
    ASSUME IInv, NEW r \in Request, NEW x, Goto(r, x), UNCHANGED sessionTables, Grows,
           users' \in [Email -> UserRow \cup {None}],
           mailTokens' \in [MailToken -> MailTokenRow \cup {None}],
           \A m \in MailTokens' : mailTokens'[m].user \in Registered',
           \A e \in Registered' \ SeedUsers : users'[e].verified => e \in Proven',
           HandlerHolds(x, Registered', MailTokens', Proven', RefreshTokens', Started'),
           req[r].pc \notin {"memberships", "issue"},
           x.pc # "memberships", x.pc = "issue" => x.session = None
    PROVE  IInv'
<1>1. RowsInv'
  BY Moves DEF IInv, RowsInv, sessionTables
<1>2. AgreeInv'
  BY DEF IInv, AgreeInv, sessionTables, Grows, Started, RefreshTokens
<1>3. HandlersInv'
  BY HandlersStay
<1>4. CarriedInv'
  BY SessionsStay
<1> QED
  BY <1>1, <1>2, <1>3, <1>4 DEF IInv

\* A handler that writes nothing.
LEMMA ReadKept ==
    ASSUME IInv, NEW r \in Request, NEW x, Goto(r, x),
           UNCHANGED <<accountTables, sessionTables>>,
           HandlerHolds(x, Registered, MailTokens, Proven, RefreshTokens, Started),
           req[r].pc \notin {"memberships", "issue"},
           x.pc # "memberships", x.pc = "issue" => x.session = None
    PROVE  IInv'
<1>1. /\ Registered' = Registered /\ MailTokens' = MailTokens /\ Proven' = Proven
      /\ RefreshTokens' = RefreshTokens /\ Started' = Started
      /\ users' = users /\ mailTokens' = mailTokens
  BY DEF accountTables, sessionTables, Registered, MailTokens, Proven, UsedTokens,
         RefreshTokens, Started
<1>2. Grows
  BY <1>1 DEF Grows
<1> QED
  BY <1>1, <1>2, StepKept DEF IInv, RowsInv, AgreeInv

\* Done asks for nothing.
LEMMA DoneHolds ==
    \A known, mails, proven, tokens, started :
        HandlerHolds(Done, known, mails, proven, tokens, started)
  BY DEF HandlerHolds, Done

\* What a request may hold when it has read and not yet written.
Reads(x) ==
    /\ x.pc # "memberships"
    /\ x.pc = "issue" => x.session = None
    /\ HandlerHolds(x, Registered, MailTokens, Proven, RefreshTokens, Started)

\* Requests that arrive, but for the account of register() and for logout().
LEMMA ArrivalsKept ==
    ASSUME IInv, NEW r \in Request,
           \/ \E e \in Email : ForgotPassword(r, e) \/ Login(r, e)
           \/ \E m \in MailToken : ClaimRead(r, m)
           \/ \E t \in RefreshToken : RefreshRead(r, t)
    PROVE  IInv'
<1>1. req[r].pc = "idle" /\ UNCHANGED <<accountTables, sessionTables>>
  <2>1. ASSUME Arrives(r), UNCHANGED <<accountTables, sessionTables, lapsed>>
        PROVE  req[r].pc = "idle" /\ UNCHANGED <<accountTables, sessionTables>>
    BY <2>1 DEF Arrives, Idle
  <2> QED
    BY <2>1 DEF ForgotPassword, Login, ClaimRead, RefreshRead
<1>2. PICK x : Goto(r, x) /\ Reads(x)
  <2>1. Reads(Done)
    BY DoneHolds DEF Done, Reads
  <2>2. ASSUME NEW e \in Registered
        PROVE  /\ Reads([pc |-> "mailToken", user |-> e, purpose |-> "PASSWORD_RESET"])
               /\ Reads([pc |-> "issue", user |-> e, session |-> None,
                         resets |-> users[e].resets, missed |-> FALSE])
    <3>1. users[e].resets \in Nat
      BY DEF IInv, RowsInv, Registered, UserRow
    <3> QED
      BY <3>1 DEF HandlerHolds, Purpose, Reads
  <2>3. ASSUME NEW m \in MailTokens
        PROVE  Reads([pc |-> "claim", token |-> m])
    BY DEF HandlerHolds, Reads
  <2>4. ASSUME NEW t \in RefreshTokens, NEW b \in BOOLEAN
        PROVE  Reads([pc |-> "rotate", token |-> t, switching |-> b])
    BY DEF HandlerHolds, Reads
  <2> QED
    BY <2>1, <2>2, <2>3, <2>4 DEF ForgotPassword, Login, ClaimRead, RefreshRead, Finish
<1> QED
  BY <1>1, <1>2, ReadKept DEF Reads

\* The sessions of tables that are left alone.
LEMMA SessionsSame ==
    ASSUME UNCHANGED sessionTables
    PROVE  RefreshTokens' = RefreshTokens /\ Started' = Started
  BY DEF sessionTables, RefreshTokens, Started

\* register(): an account nobody had a token for, or P2002.
LEMMA RegisterKept ==
    ASSUME IInv, NEW r \in Request, NEW e \in Email, CreateUserAccount(r, e)
    PROVE  IInv'
<1>1. req[r].pc = "idle" /\ UNCHANGED <<mailTokens, sessionTables>>
  BY DEF CreateUserAccount, Arrives, Idle
<1>2. CASE users[e] # None
  <2>1. Goto(r, Done) /\ UNCHANGED <<accountTables, sessionTables>>
    BY <1>2 DEF CreateUserAccount, Finish, accountTables
  <2> QED
    BY <1>1, <2>1, DoneHolds, ReadKept DEF Done
<1>3. CASE users[e] = None
  <2> DEFINE x == [pc |-> "mailToken", user |-> e, purpose |-> "EMAIL_VERIFICATION"]
             row == NewUser(FALSE)
  <2>1. Goto(r, x) /\ users' = [users EXCEPT ![e] = row]
    BY <1>3 DEF CreateUserAccount
  <2>2. row \in UserRow /\ ~ row.verified
    BY DEF NewUser, UserRow
  <2> HIDE DEF row
  <2>3. /\ users' \in [Email -> UserRow \cup {None}]
        /\ Registered' = Registered \cup {e}
        /\ \A d \in Registered : users'[d] = users[d]
        /\ ~ users'[e].verified
    BY <1>3, <2>1, <2>2, AccountAssumption DEF IInv, RowsInv, Registered
  <2>4. MailTokens' = MailTokens /\ Proven' = Proven
    BY <1>1 DEF MailTokens, Proven, UsedTokens
  <2>5. Grows
    BY <1>1, <2>3, <2>4, SessionsSame DEF Grows
  <2>6. HandlerHolds(x, Registered', MailTokens', Proven', RefreshTokens', Started')
    BY <2>3 DEF HandlerHolds, Purpose
  <2>7. x.pc = "mailToken"
    OBVIOUS
  <2> HIDE DEF x
  <2>8. \A m \in MailTokens' : mailTokens'[m].user \in Registered'
    BY <1>1, <2>3, <2>4 DEF IInv, AgreeInv
  <2>9. \A d \in Registered' \ SeedUsers : users'[d].verified => d \in Proven'
    BY <2>3, <2>4 DEF IInv, AgreeInv
  <2>10. mailTokens' \in [MailToken -> MailTokenRow \cup {None}]
    BY <1>1 DEF IInv, RowsInv
  <2> QED
    BY <1>1, <2>1, <2>3, <2>5, <2>6, <2>7, <2>8, <2>9, <2>10, StepKept
<1> QED
  BY <1>2, <1>3

\* A mail token is written, by its insert or by the claim, and stays one of its user:
\* used tokens stay used.
LEMMA MailWritten ==
    ASSUME IInv, NEW r \in Request, NEW x, Goto(r, x), UNCHANGED <<users, sessionTables>>,
           NEW m \in MailToken, NEW row \in MailTokenRow,
           mailTokens' = [mailTokens EXCEPT ![m] = row], row.user \in Registered,
           m \in MailTokens => /\ row.user = mailTokens[m].user
                               /\ row.purpose = mailTokens[m].purpose
                               /\ row.used,
           req[r].pc \in {"mailToken", "claim"},
           x.pc \in {"done", "setPassword", "verify"},
           x.pc # "done" => x.user = row.user,
           x.pc = "verify" => row.used /\ row.purpose = "EMAIL_VERIFICATION"
    PROVE  IInv'
<1>1. /\ mailTokens' \in [MailToken -> MailTokenRow \cup {None}]
      /\ mailTokens'[m] = row
      /\ \A k \in MailToken \ {m} : mailTokens'[k] = mailTokens[k]
  BY DEF IInv, RowsInv
<1>2. MailTokens' = MailTokens \cup {m}
  BY <1>1, AccountAssumption DEF MailTokens
<1>3. Registered' = Registered
  BY DEF Registered
<1>4. \A e, p : UsedTokens(e, p) \subseteq UsedTokens(e, p)'
  BY <1>1, <1>2 DEF UsedTokens
<1>5. Proven \subseteq Proven'
  BY <1>4 DEF Proven
<1>6. Grows
  BY <1>2, <1>3, <1>5, SessionsSame DEF Grows
<1>7. ASSUME x.pc = "verify"
      PROVE  x.user \in Proven'
  <2>1. m \in UsedTokens(row.user, "EMAIL_VERIFICATION")'
    BY <1>1, <1>2, <1>7 DEF UsedTokens
  <2> QED
    BY <1>7, <2>1 DEF Proven, MailTokenRow
<1>8. HandlerHolds(x, Registered', MailTokens', Proven', RefreshTokens', Started')
  BY <1>3, <1>7 DEF HandlerHolds
<1>9. \A k \in MailTokens' : mailTokens'[k].user \in Registered'
  BY <1>1, <1>2, <1>3 DEF IInv, AgreeInv, MailTokens
<1>10. \A e \in Registered' \ SeedUsers : users'[e].verified => e \in Proven'
  BY <1>3, <1>5 DEF IInv, AgreeInv
<1>11. users' \in [Email -> UserRow \cup {None}]
  BY DEF IInv, RowsInv
<1> QED
  BY <1>1, <1>6, <1>8, <1>9, <1>10, <1>11, StepKept

LEMMA CreateMailTokenKept ==
    ASSUME IInv, NEW r \in Request, CreateMailToken(r)
    PROVE  IInv'
<1> DEFINE row == NewMailToken(req[r].user, req[r].purpose)
<1>1. req[r].user \in Registered /\ req[r].purpose \in Purpose
  BY Held DEF CreateMailToken, At, HandlerHolds
<1>2. row \in MailTokenRow /\ row.user = req[r].user
  BY <1>1 DEF NewMailToken, MailTokenRow, Registered
<1>3. PICK m \in MailToken \ MailTokens : mailTokens' = [mailTokens EXCEPT ![m] = row]
  BY DEF CreateMailToken
<1>4. Goto(r, Done) /\ req[r].pc = "mailToken" /\ UNCHANGED <<users, sessionTables>>
  BY DEF CreateMailToken, Finish, At
<1>5. Done.pc = "done"
  BY DEF Done
<1> HIDE DEF row
<1> QED
  BY <1>1, <1>2, <1>3, <1>4, <1>5, MailWritten

\* claimToken(): taken by one request, whose next statement is for the user of the token.
LEMMA ClaimTokenKept ==
    ASSUME IInv, NEW r \in Request, ClaimToken(r)
    PROVE  IInv'
<1> DEFINE m == req[r].token
           row == [mailTokens[m] EXCEPT !.used = TRUE]
<1>1. req[r].pc = "claim" /\ m \in MailTokens /\ UNCHANGED <<users, sessionTables>>
  BY Held DEF ClaimToken, At, HandlerHolds
<1>2. CASE mailTokens[m].used
  <2>1. Goto(r, Done) /\ UNCHANGED <<accountTables, sessionTables>>
    BY <1>1, <1>2 DEF ClaimToken, Finish, accountTables
  <2> QED
    BY <1>1, <2>1, DoneHolds, ReadKept DEF Done
<1>3. CASE ~ mailTokens[m].used
  <2>1. mailTokens[m] \in MailTokenRow /\ m \in MailToken
    BY <1>1 DEF IInv, RowsInv, MailTokens
  <2>2. /\ row \in MailTokenRow /\ row.user = mailTokens[m].user /\ row.used
        /\ row.purpose = mailTokens[m].purpose
    BY <2>1 DEF MailTokenRow
  <2>3. mailTokens' = [mailTokens EXCEPT ![m] = row] /\ Claimed(r, m)
    BY <1>3 DEF ClaimToken
  <2>4. PICK x : /\ Goto(r, x) /\ x.user = mailTokens[m].user
                 /\ x.pc \in {"setPassword", "verify"}
                 /\ x.pc = "verify" => mailTokens[m].purpose = "EMAIL_VERIFICATION"
    <3> DEFINE y == [pc |-> IF mailTokens[m].purpose = "PASSWORD_RESET"
                            THEN "setPassword" ELSE "verify",
                     user |-> mailTokens[m].user]
    <3>1. Goto(r, y)
      BY <2>3 DEF Claimed
    <3>2. /\ y.user = mailTokens[m].user /\ y.pc \in {"setPassword", "verify"}
          /\ y.pc = "verify" => mailTokens[m].purpose = "EMAIL_VERIFICATION"
      BY <2>1 DEF MailTokenRow, Purpose
    <3> HIDE DEF y
    <3> QED
      BY <3>1, <3>2
  <2>5. row.user \in Registered
    BY <1>1, <2>2 DEF IInv, AgreeInv
  <2> HIDE DEF row, m
  <2> QED
    BY <1>1, <2>1, <2>2, <2>3, <2>4, <2>5, MailWritten
<1> QED
  BY <1>2, <1>3

\* verifyEmail() and resetPassword() write the account of the token that was claimed.
LEMMA AccountKept ==
    ASSUME IInv, NEW r \in Request, VerifyEmail(r) \/ ResetPassword(r)
    PROVE  IInv'
<1> DEFINE e == req[r].user
<1>1. /\ req[r].pc \in {"verify", "setPassword"} /\ e \in Registered
      /\ req[r].pc = "verify" => e \in Proven
      /\ UNCHANGED <<mailTokens, sessionTables>>
  BY Held DEF VerifyEmail, ResetPassword, At, HandlerHolds
<1>2. users[e] \in UserRow
  BY <1>1 DEF IInv, RowsInv, Registered
<1>3. PICK row \in UserRow :
        /\ users' = [users EXCEPT ![e] = row]
        /\ row.verified => users[e].verified \/ e \in Proven
        /\ Goto(r, Done) \/ Goto(r, [pc |-> "revokeAll", user |-> e])
  <2>1. CASE VerifyEmail(r)
    <3> DEFINE row == [users[e] EXCEPT !.verified = TRUE]
    <3>1. row \in UserRow
      BY <1>2 DEF UserRow
    <3>2. users' = [users EXCEPT ![e] = row] /\ Goto(r, Done) /\ e \in Proven
      BY <1>1, <2>1 DEF VerifyEmail, Finish, At
    <3> HIDE DEF row, e
    <3> QED
      BY <3>1, <3>2
  <2>2. CASE ResetPassword(r)
    <3> DEFINE row == [users[e] EXCEPT !.resets = @ + 1]
    <3>1. row \in UserRow /\ row.verified = users[e].verified
      BY <1>2 DEF UserRow
    <3>2. users' = [users EXCEPT ![e] = row] /\ Goto(r, [pc |-> "revokeAll", user |-> e])
      BY <2>2 DEF ResetPassword
    <3> HIDE DEF row, e
    <3> QED
      BY <3>1, <3>2
  <2> QED
    BY <2>1, <2>2
<1>4. /\ users' \in [Email -> UserRow \cup {None}]
      /\ users'[e] = row
      /\ \A d \in Registered \ {e} : users'[d] = users[d]
      /\ Registered' = Registered
  BY <1>1, <1>3, AccountAssumption DEF IInv, RowsInv, Registered
<1>5. MailTokens' = MailTokens /\ Proven' = Proven
  BY <1>1 DEF MailTokens, Proven, UsedTokens
<1>6. Grows
  BY <1>1, <1>4, <1>5, SessionsSame DEF Grows
<1>7. PICK x : /\ Goto(r, x) /\ x.pc \in {"done", "revokeAll"}
               /\ HandlerHolds(x, Registered', MailTokens', Proven', RefreshTokens', Started')
  <2> DEFINE y == [pc |-> "revokeAll", user |-> e]
  <2>1. /\ y.pc = "revokeAll"
        /\ HandlerHolds(y, Registered', MailTokens', Proven', RefreshTokens', Started')
    BY <1>1, <1>4 DEF HandlerHolds
  <2>2. Done.pc = "done"
    BY DEF Done
  <2>3. Goto(r, Done) \/ Goto(r, y)
    BY <1>3
  <2> HIDE DEF y
  <2> QED
    BY <2>1, <2>2, <2>3, DoneHolds
<1>8. \A m \in MailTokens' : mailTokens'[m].user \in Registered'
  BY <1>1, <1>4, <1>5 DEF IInv, AgreeInv
<1>9. \A d \in Registered' \ SeedUsers : users'[d].verified => d \in Proven'
  BY <1>3, <1>4, <1>5 DEF IInv, AgreeInv
<1>10. mailTokens' \in [MailToken -> MailTokenRow \cup {None}]
  BY <1>1 DEF IInv, RowsInv
<1> QED
  BY <1>1, <1>4, <1>6, <1>7, <1>8, <1>9, <1>10, StepKept

-----------------------------------------------------------------------------
(* Tokens are revoked, and sessions change hands or end. *)

\* The rows of T, and none besides, are revoked.
Revokes(T) ==
    refreshTokens' = [t \in RefreshToken |->
                        IF t \in T THEN [refreshTokens[t] EXCEPT !.revoked = TRUE]
                        ELSE refreshTokens[t]]

LEMMA RevokedRows ==
    ASSUME IInv, NEW T \in SUBSET RefreshTokens, Revokes(T)
    PROVE  /\ refreshTokens' \in [RefreshToken -> RefreshTokenRow \cup {None}]
           /\ RefreshTokens' = RefreshTokens /\ Started' = Started
           /\ \A t \in RefreshTokens : /\ refreshTokens'[t].user = refreshTokens[t].user
                                       /\ refreshTokens'[t].session = refreshTokens[t].session
                                       /\ refreshTokens'[t].resets = refreshTokens[t].resets
                                       /\ refreshTokens'[t].missed = refreshTokens[t].missed
           /\ \A t \in RefreshToken : Live(t)' <=> Live(t) /\ t \notin T
           /\ \A t \in RefreshToken : \A s : RowCarries(t, s)' <=> RowCarries(t, s) /\ t \notin T
<1> DEFINE row(t) == [refreshTokens[t] EXCEPT !.revoked = TRUE]
<1>1. \A t \in RefreshToken : refreshTokens'[t] = IF t \in T THEN row(t) ELSE refreshTokens[t]
  BY DEF Revokes
<1>2. ASSUME NEW t \in RefreshTokens
      PROVE  /\ t \in RefreshToken /\ refreshTokens[t] \in RefreshTokenRow
             /\ row(t) \in RefreshTokenRow
             /\ row(t).user = refreshTokens[t].user /\ row(t).revoked
             /\ row(t).session = refreshTokens[t].session
             /\ row(t).resets = refreshTokens[t].resets
             /\ row(t).missed = refreshTokens[t].missed
  <2>1. t \in RefreshToken /\ refreshTokens[t] \in RefreshTokenRow
    BY <1>2 DEF IInv, RowsInv, RefreshTokens
  <2> QED
    BY <2>1 DEF RefreshTokenRow
<1> HIDE DEF row
<1>3. refreshTokens' = [t \in RefreshToken |-> refreshTokens'[t]]
  BY DEF Revokes
<1>4. \A t \in RefreshToken : refreshTokens'[t] \in RefreshTokenRow \cup {None}
  BY <1>1, <1>2 DEF IInv, RowsInv
<1>5. refreshTokens' \in [RefreshToken -> RefreshTokenRow \cup {None}]
  BY <1>3, <1>4
<1>6. RefreshTokens' = RefreshTokens
  BY <1>1, <1>2, AccountAssumption DEF RefreshTokens
<1>7. \A t \in RefreshTokens : /\ refreshTokens'[t].user = refreshTokens[t].user
                               /\ refreshTokens'[t].session = refreshTokens[t].session
                               /\ refreshTokens'[t].resets = refreshTokens[t].resets
                               /\ refreshTokens'[t].missed = refreshTokens[t].missed
  BY <1>1, <1>2
<1>8. Started' = Started
  BY <1>6, <1>7 DEF Started
<1>9. \A t \in RefreshToken : Live(t)' <=> Live(t) /\ t \notin T
  BY <1>1, <1>2, <1>6 DEF Live
<1>10. \A t \in RefreshToken : \A s : RowCarries(t, s)' <=> RowCarries(t, s) /\ t \notin T
  BY <1>7, <1>9 DEF RowCarries, Live
<1> QED
  BY <1>5, <1>6, <1>7, <1>8, <1>9, <1>10

\* What remains of the invariant when the sessions are accounted for.
LEMMA RevokedKept ==
    ASSUME IInv, NEW r \in Request, NEW x, Goto(r, x), UNCHANGED accountTables,
           NEW T \in SUBSET RefreshTokens, Revokes(T), ended' \subseteq Started, CarriedInv',
           HandlerHolds(x, Registered, MailTokens, Proven, RefreshTokens, Started)
    PROVE  IInv'
<1>1. /\ refreshTokens' \in [RefreshToken -> RefreshTokenRow \cup {None}]
      /\ RefreshTokens' = RefreshTokens /\ Started' = Started
      /\ \A t \in RefreshTokens : /\ refreshTokens'[t].user = refreshTokens[t].user
                                  /\ refreshTokens'[t].session = refreshTokens[t].session
  BY RevokedRows
<1>2. /\ Registered' = Registered /\ MailTokens' = MailTokens /\ Proven' = Proven
      /\ users' = users /\ mailTokens' = mailTokens
  BY DEF accountTables, Registered, MailTokens, Proven, UsedTokens
<1>3. Grows
  BY <1>1, <1>2 DEF Grows
<1>4. RowsInv'
  BY <1>1, <1>2, Moves DEF IInv, RowsInv
<1>5. AgreeInv'
  BY <1>1, <1>2 DEF IInv, AgreeInv
<1>6. HandlersInv'
  BY <1>1, <1>2, <1>3, HandlersStay
<1> QED
  BY <1>4, <1>5, <1>6 DEF IInv

\* logout() and the end of a reset: what was revoked ends its session.
LEMMA EndedKept ==
    ASSUME IInv, NEW r \in Request, Finish(r), UNCHANGED accountTables,
           NEW T \in SUBSET RefreshTokens, Revokes(T), \A t \in T : Live(t),
           ended' = ended \cup {refreshTokens[t].session : t \in T},
           req[r].pc \in {"idle", "revokeAll"}
    PROVE  IInv'
<1>1. req'[r] = Done /\ \A q \in Request \ {r} : req'[q] = req[q]
  BY Moves DEF IInv, Finish
<1>2. /\ Started' = Started
      /\ \A t \in RefreshToken : \A s : RowCarries(t, s)' <=> RowCarries(t, s) /\ t \notin T
  BY RevokedRows
<1>3. \A q \in Request : \A s : Holds(q, s)' <=> Holds(q, s)
  BY <1>1 DEF Holds, Done
<1>4. ended' \subseteq Started
  BY DEF IInv, AgreeInv
<1>5. ASSUME NEW s \in Started, NEW t \in T, s = refreshTokens[t].session
      PROVE  /\ \A u \in RefreshToken : RowCarries(u, s) => u \in T
             /\ \A q \in Request : ~ Holds(q, s)
  <2>1. t \in RefreshToken /\ RowCarries(t, s)
    BY <1>5 DEF RowCarries, RefreshTokens
  <2> QED
    BY <1>5, <2>1 DEF IInv, CarriedInv
<1>6. ASSUME NEW s \in Started
      PROVE  s \in ended' <=> /\ \A t \in RefreshToken : ~ RowCarries(t, s)'
                              /\ \A q \in Request : ~ Holds(q, s)
  <2>1. CASE \E t \in T : s = refreshTokens[t].session
    BY <1>2, <1>5, <2>1
  <2>2. CASE ~ \E t \in T : s = refreshTokens[t].session
    <3>1. \A t \in RefreshToken : RowCarries(t, s)' <=> RowCarries(t, s)
      BY <1>2, <2>2 DEF RowCarries
    <3>2. s \in ended' <=> s \in ended
      BY <2>2
    <3> QED
      BY <3>1, <3>2 DEF IInv, CarriedInv
  <2> QED
    BY <2>1, <2>2
<1>7. CarriedInv'
  BY <1>2, <1>3, <1>6 DEF IInv, CarriedInv
<1>8. Goto(r, Done)
  BY DEF Finish
<1> QED
  BY <1>4, <1>7, <1>8, DoneHolds, RevokedKept

\* A row that is read as live and revoked with an EXCEPT.
LEMMA RevokedOne ==
    ASSUME IInv, NEW t \in RefreshTokens,
           refreshTokens' = [refreshTokens EXCEPT ![t].revoked = TRUE]
    PROVE  Revokes({t})
  BY DEF IInv, RowsInv, Revokes, RefreshTokens

LEMMA LogoutKept ==
    ASSUME IInv, NEW r \in Request, NEW t \in RefreshToken, Logout(r, t)
    PROVE  IInv'
<1>1. /\ req[r].pc = "idle" /\ t \in RefreshTokens
      /\ Finish(r) /\ UNCHANGED accountTables
  BY DEF Logout, Arrives, Idle
<1>2. CASE Live(t)
  <2>1. Revokes({t})
    BY <1>1, <1>2, RevokedOne DEF Logout
  <2>2. ended' = ended \cup {refreshTokens[u].session : u \in {t}}
    BY <1>2 DEF Logout
  <2> QED
    BY <1>1, <1>2, <2>1, <2>2, EndedKept
<1>3. CASE ~ Live(t)
  <2>1. Goto(r, Done) /\ UNCHANGED <<accountTables, sessionTables>>
    BY <1>1, <1>3 DEF Logout, Finish
  <2> QED
    BY <1>1, <2>1, DoneHolds, ReadKept DEF Done
<1> QED
  BY <1>2, <1>3

LEMMA RevokeAllKept ==
    ASSUME IInv, NEW r \in Request, RevokeAllSessions(r)
    PROVE  IInv'
<1> DEFINE T == {t \in RefreshTokens : refreshTokens[t].user = req[r].user /\ Live(t)}
<1>1. /\ Revokes(T) /\ ended' = ended \cup {refreshTokens[t].session : t \in T}
      /\ Finish(r) /\ UNCHANGED accountTables /\ req[r].pc = "revokeAll"
  BY DEF RevokeAllSessions, Revokes, At
<1>2. T \in SUBSET RefreshTokens /\ \A t \in T : Live(t)
  OBVIOUS
<1> HIDE DEF T
<1> QED
  BY <1>1, <1>2, EndedKept

\* A rotation: the row's session is the request's from here on, unless another request
\* has come first.
LEMMA RotateKept ==
    ASSUME IInv, NEW r \in Request, Rotate(r)
    PROVE  IInv'
<1> DEFINE t == req[r].token
           s == refreshTokens[t].session
           x == CarriesOn(IF req[r].switching THEN "memberships" ELSE "issue",
                          refreshTokens[t])
<1>1. req[r].pc = "rotate" /\ t \in RefreshTokens /\ UNCHANGED <<accountTables, ended>>
  BY Held DEF Rotate, At, HandlerHolds
<1>2. CASE ~ Live(t)
  <2>1. Goto(r, Done) /\ UNCHANGED <<accountTables, sessionTables>>
    BY <1>1, <1>2 DEF Rotate, Finish, sessionTables
  <2> QED
    BY <1>1, <2>1, DoneHolds, ReadKept DEF Done
<1>3. CASE Live(t)
  <2>1. Revokes({t}) /\ Goto(r, x)
    BY <1>1, <1>3, RevokedOne DEF Rotate
  <2>2. /\ t \in RefreshToken /\ s \in Started /\ refreshTokens[t].user \in Registered
        /\ refreshTokens[t] \in RefreshTokenRow
    BY <1>1 DEF IInv, RowsInv, AgreeInv, RefreshTokens
  <2>3. x.pc \in {"memberships", "issue"} /\ x.session = s
    BY DEF CarriesOn
  <2>4. HandlerHolds(x, Registered, MailTokens, Proven, RefreshTokens, Started)
    BY <2>2 DEF HandlerHolds, CarriesOn, RefreshTokenRow
  <2>5. RowCarries(t, s)
    BY <1>3 DEF RowCarries
  <2> HIDE DEF x, s, t
  <2>6. req'[r] = x /\ \A q \in Request \ {r} : req'[q] = req[q]
    BY <2>1, Moves DEF IInv
  <2>7. /\ Started' = Started
        /\ \A u \in RefreshToken : \A z : RowCarries(u, z)' <=> RowCarries(u, z) /\ u # t
    BY <1>1, <2>1, RevokedRows
  <2>8. /\ \A q \in Request \ {r} : \A z : Holds(q, z)' <=> Holds(q, z)
        /\ \A z : ~ Holds(r, z)
        /\ \A z : Holds(r, z)' <=> z = s
    BY <1>1, <2>3, <2>6 DEF Holds
  <2>9. \A z : RowCarries(t, z) => z = s
    BY DEF RowCarries, s
  <2>10. CarriedInv'
    BY <1>1, <2>2, <2>5, <2>7, <2>8, <2>9 DEF IInv, CarriedInv
  <2>11. ended' \subseteq Started
    BY <1>1 DEF IInv, AgreeInv
  <2>12. UNCHANGED accountTables /\ {t} \in SUBSET RefreshTokens
    BY <1>1
  <2> QED
    BY <1>1, <2>1, <2>4, <2>10, <2>11, <2>12, RevokedKept
<1> QED
  BY <1>2, <1>3

\* A request that ends with a session in its hands ends the session.
LEMMA LosesKept ==
    ASSUME IInv, NEW r \in Request, NEW x \in {Done, Lost}, Goto(r, x),
           UNCHANGED <<accountTables, refreshTokens>>,
           ended' = ended \cup {s \in RefreshToken : Holds(r, s)}
    PROVE  IInv'
<1>1. req'[r] = x /\ \A q \in Request \ {r} : req'[q] = req[q]
  BY Moves DEF IInv
<1>2. Revokes({})
  BY DEF IInv, RowsInv, Revokes
<1>3. /\ Started' = Started
      /\ \A u \in RefreshToken : \A z : RowCarries(u, z)' <=> RowCarries(u, z)
  BY <1>2, RevokedRows
<1>4. x.pc \notin {"memberships", "issue"}
  BY DEF Done, Lost
<1>5. /\ \A q \in Request \ {r} : \A z : Holds(q, z)' <=> Holds(q, z)
      /\ \A z : ~ Holds(r, z)'
  BY <1>1, <1>4 DEF Holds
<1>6. ASSUME NEW s \in RefreshToken, Holds(r, s)
      PROVE  s \in Started
  BY <1>6, Held, AccountAssumption DEF Holds, HandlerHolds
<1>7. ended' \subseteq Started
  BY <1>6 DEF IInv, AgreeInv
<1>8. CarriedInv'
  <2>1. Started \subseteq RefreshToken
    BY DEF Started, RefreshTokens
  <2> QED
    BY <1>3, <1>5, <2>1 DEF IInv, CarriedInv
<1>9. HandlerHolds(x, Registered, MailTokens, Proven, RefreshTokens, Started)
  BY DEF HandlerHolds, Done, Lost
<1> QED
  BY <1>2, <1>7, <1>8, <1>9, RevokedKept

LEMMA SwitchKept ==
    ASSUME IInv, NEW r \in Request, SwitchMemberships(r)
    PROVE  IInv'
<1> DEFINE s == req[r].session
           x == [req[r] EXCEPT !.pc = "issue"]
<1>1. /\ req[r].pc = "memberships" /\ s \in Started /\ req[r].user \in Registered
      /\ req[r] = [pc |-> "memberships", user |-> req[r].user, session |-> s,
                   resets |-> req[r].resets, missed |-> req[r].missed]
      /\ req[r].resets \in Nat /\ req[r].missed \in BOOLEAN
      /\ UNCHANGED <<accountTables, refreshTokens>>
  BY Held DEF SwitchMemberships, At, HandlerHolds
<1>2. CASE Goto(r, x) /\ UNCHANGED ended
  <2>1. x = [pc |-> "issue", user |-> req[r].user, session |-> s,
             resets |-> req[r].resets, missed |-> req[r].missed]
    BY <1>1
  <2>2. HandlerHolds(x, Registered, MailTokens, Proven, RefreshTokens, Started)
    BY <1>1, <2>1 DEF HandlerHolds
  <2>3. x.pc = "issue" /\ x.session = s
    BY <2>1
  <2> HIDE DEF x
  <2>4. req'[r] = x /\ \A q \in Request \ {r} : req'[q] = req[q]
    BY <1>2, Moves DEF IInv
  <2>5. Revokes({})
    BY <1>1 DEF IInv, RowsInv, Revokes
  <2>6. /\ Started' = Started
        /\ \A u \in RefreshToken : \A z : RowCarries(u, z)' <=> RowCarries(u, z)
    BY <2>5, RevokedRows
  <2>7. \A q \in Request : \A z : Holds(q, z)' <=> Holds(q, z)
    BY <1>1, <2>3, <2>4 DEF Holds
  <2>8. CarriedInv'
    BY <1>2, <2>6, <2>7 DEF IInv, CarriedInv
  <2>9. ended' \subseteq Started
    BY <1>2 DEF IInv, AgreeInv
  <2> QED
    BY <1>1, <1>2, <2>2, <2>5, <2>8, <2>9, RevokedKept
<1>3. CASE Finish(r) /\ ended' = ended \cup {s}
  <2>1. {z \in RefreshToken : Holds(r, z)} = {s}
    BY <1>1 DEF Holds, Started, RefreshTokens
  <2> QED
    BY <1>1, <1>3, <2>1, LosesKept DEF Finish
<1> QED
  BY <1>2, <1>3 DEF SwitchMemberships

\* The insert takes the session from the request, or starts one nobody else knows.
LEMMA IssueKept ==
    ASSUME IInv, NEW r \in Request, IssueTokenPair(r)
    PROVE  IInv'
<1> DEFINE e == req[r].user
           held == req[r].session
<1>1. /\ req[r].pc = "issue" /\ e \in Registered /\ held \in Started \cup {None}
      /\ Goto(r, Done) /\ UNCHANGED <<accountTables, ended>>
  BY Held DEF IssueTokenPair, At, HandlerHolds, Finish
<1>2. PICK t \in RefreshToken \ RefreshTokens :
        refreshTokens' = [refreshTokens EXCEPT ![t] = NewRefreshToken(t, r)]
  BY DEF IssueTokenPair
<1> DEFINE s == IF held = None THEN t ELSE held
           row == NewRefreshToken(t, r)
<1>3. s \in RefreshToken /\ Started \subseteq RefreshTokens
  BY <1>1, <1>2, AccountAssumption DEF Started, RefreshTokens
<1>4. /\ row \in RefreshTokenRow /\ row.user = e /\ ~ row.revoked
      /\ row.session = s
  <2>1. e \in Email /\ req[r].resets \in Nat
    BY <1>1, Held DEF HandlerHolds, Registered
  <2>2. row.user \in Email /\ row.session \in RefreshToken /\ row.resets \in Nat
    BY <1>3, <2>1 DEF NewRefreshToken
  <2>3. row.revoked = FALSE /\ row.missed \in BOOLEAN /\ row.user = e /\ row.session = s
    BY DEF NewRefreshToken
  <2>4. row = [user |-> row.user, revoked |-> row.revoked, session |-> row.session,
               resets |-> row.resets, missed |-> row.missed]
    BY DEF NewRefreshToken
  <2> QED
    BY <2>2, <2>3, <2>4 DEF RefreshTokenRow
<1>5. (s \in Started /\ held = s) \/ (s = t /\ held = None)
  BY <1>1
<1> HIDE DEF s, row, e, held
<1>6. /\ refreshTokens' \in [RefreshToken -> RefreshTokenRow \cup {None}]
      /\ refreshTokens'[t] = row
      /\ \A u \in RefreshToken \ {t} : refreshTokens'[u] = refreshTokens[u]
  BY <1>2, <1>4 DEF IInv, RowsInv, row
<1>7. RefreshTokens' = RefreshTokens \cup {t}
  BY <1>2, <1>4, <1>6, AccountAssumption DEF RefreshTokens
<1>8. Started' = Started \cup {s}
  <2>1. \A u \in RefreshTokens : refreshTokens'[u] = refreshTokens[u]
    BY <1>2, <1>6 DEF RefreshTokens
  <2>2. \A z \in Started' : z \in Started \cup {s}
    BY <1>2, <1>4, <1>5, <1>6, <1>7, <2>1 DEF Started
  <2>3. Started \subseteq Started'
    BY <1>7, <2>1 DEF Started
  <2>4. s \in Started'
    BY <1>4, <1>5, <1>6, <1>7, <2>3 DEF Started
  <2> QED
    BY <2>2, <2>3, <2>4
<1>9. \A u \in RefreshToken : Live(u)' <=> Live(u) \/ u = t
  BY <1>2, <1>4, <1>6, <1>7 DEF Live
<1>10. /\ ~ Live(t)
       /\ \A u \in RefreshToken \ {t} : \A z : RowCarries(u, z)' <=> RowCarries(u, z)
       /\ \A z : RowCarries(t, z)' <=> z = s
  <2>1. ~ Live(t)
    BY <1>2 DEF Live
  <2>2. ASSUME NEW u \in RefreshToken \ {t}, NEW z
        PROVE  RowCarries(u, z)' <=> RowCarries(u, z)
    BY <1>6, <1>9, <2>2 DEF RowCarries
  <2>3. ASSUME NEW z
        PROVE  RowCarries(t, z)' <=> z = s
    BY <1>4, <1>6, <1>9 DEF RowCarries
  <2> QED
    BY <2>1, <2>2, <2>3
<1>11. /\ Registered' = Registered /\ MailTokens' = MailTokens /\ Proven' = Proven
       /\ users' = users /\ mailTokens' = mailTokens
  BY <1>1 DEF accountTables, Registered, MailTokens, Proven, UsedTokens
<1>12. req'[r] = Done /\ \A q \in Request \ {r} : req'[q] = req[q]
  BY <1>1, Moves DEF IInv
<1>13. RowsInv'
  BY <1>1, <1>6, <1>11, Moves DEF IInv, RowsInv
<1>14. AgreeInv'
  BY <1>1, <1>2, <1>4, <1>6, <1>7, <1>8, <1>11 DEF IInv, AgreeInv, RefreshTokens
<1>15. HandlersInv'
  BY <1>1, <1>7, <1>8, <1>11, DoneHolds, HandlersStay DEF Grows
<1>16. /\ \A q \in Request \ {r} : \A z : Holds(q, z)' <=> Holds(q, z)
       /\ \A z : ~ Holds(r, z)'
       /\ \A z : Holds(r, z) <=> z = held
  BY <1>1, <1>12 DEF Holds, Done, held
<1>17. CarriedInv'
  <2>1. /\ s \notin ended
        /\ \A u \in RefreshToken : ~ RowCarries(u, s)
        /\ \A q \in Request \ {r} : ~ Holds(q, s)
    <3>1. CASE s \in Started /\ held = s
      <4>1. Holds(r, s)
        BY <1>16, <3>1
      <4> QED
        BY <3>1, <4>1 DEF IInv, CarriedInv
    <3>2. CASE s = t /\ held = None
      <4>1. t \notin Started /\ t # None
        BY <1>2, <1>3, AccountAssumption
      <4>2. \A u \in RefreshToken : ~ RowCarries(u, t)
        BY <4>1 DEF RowCarries, Live, IInv, AgreeInv
      <4>3. \A q \in Request : ~ Holds(q, t)
        BY <4>1, Held DEF Holds, HandlerHolds
      <4> QED
        BY <3>2, <4>1, <4>2, <4>3 DEF IInv, AgreeInv
    <3> QED
      BY <1>5, <3>1, <3>2
  <2>2. ASSUME NEW z \in Started', z # s
        PROVE  /\ z \in Started /\ z # held
               /\ \A u \in RefreshToken : RowCarries(u, z)' <=> RowCarries(u, z)
               /\ \A q \in Request : Holds(q, z)' <=> Holds(q, z)
    <3>1. z \in Started /\ z # held
      BY <1>3, <1>5, <1>8, <2>2, AccountAssumption DEF RefreshTokens
    <3>2. ~ RowCarries(t, z)
      BY <1>10 DEF RowCarries
    <3> QED
      BY <1>10, <1>16, <2>2, <3>1, <3>2
  <2>3. ASSUME NEW z \in Started', z = s
        PROVE  /\ \A u \in RefreshToken : RowCarries(u, z)' <=> u = t
               /\ \A q \in Request : ~ Holds(q, z)'
               /\ z \notin ended'
    BY <1>1, <1>10, <1>16, <2>1, <2>3
  <2>4. ASSUME NEW z \in Started'
        PROVE  /\ \A u, v \in RefreshToken : RowCarries(u, z)' /\ RowCarries(v, z)' => u = v
               /\ \A q, p \in Request : Holds(q, z)' /\ Holds(p, z)' => q = p
               /\ \A u \in RefreshToken, q \in Request : ~ (RowCarries(u, z)' /\ Holds(q, z)')
               /\ z \in ended' <=> /\ \A u \in RefreshToken : ~ RowCarries(u, z)'
                                   /\ \A q \in Request : ~ Holds(q, z)'
    <3>1. CASE z = s
      BY <1>2, <2>3, <3>1
    <3>2. CASE z # s
      BY <1>1, <2>2, <3>2 DEF IInv, CarriedInv
    <3> QED
      BY <3>1, <3>2
  <2> QED
    BY <2>4 DEF CarriedInv
<1> QED
  BY <1>13, <1>14, <1>15, <1>17 DEF IInv

-----------------------------------------------------------------------------
LEMMA StepIInv == IInv /\ [Next]_vars => IInv'
<1> SUFFICES ASSUME IInv, [Next]_vars PROVE IInv'
  OBVIOUS
<1>1. ASSUME NEW r \in Request, AuthController(r)
      PROVE  IInv'
  BY <1>1, RegisterKept, ArrivalsKept, LogoutKept DEF AuthController
<1>2. ASSUME NEW r \in Request, ContinueAuth(r)
      PROVE  IInv'
  BY <1>2, CreateMailTokenKept, ClaimTokenKept, AccountKept, RevokeAllKept, RotateKept,
     SwitchKept, IssueKept
     DEF ContinueAuth
<1>3. ASSUME NEW r \in Request, AuthFails(r)
      PROVE  IInv'
  BY <1>3, LosesKept DEF AuthFails, Fails, InFlight
<1>4. CASE Lapse \/ UNCHANGED vars
  <2>1. UNCHANGED <<accountTables, sessionTables, req>>
    BY <1>4 DEF Lapse, vars
  <2>2. UNCHANGED <<users, mailTokens, refreshTokens, ended, req>>
    BY <2>1 DEF accountTables, sessionTables
  <2>3. RowsInv' /\ AgreeInv' /\ HandlersInv'
    BY <2>2 DEF IInv, RowsInv, AgreeInv, HandlersInv, Registered, MailTokens, Proven,
                UsedTokens, RefreshTokens, Started
  <2>4. CarriedInv'
    BY <2>2 DEF IInv, CarriedInv, RefreshTokens, Started, RowCarries, Live, Holds
  <2> QED
    BY <2>3, <2>4 DEF IInv
<1> QED
  BY <1>1, <1>2, <1>3, <1>4 DEF Next, Quiescent

\* The inductive invariant holds in every reachable state.
THEOREM IInvHolds == Spec => []IInv
  BY InitIInv, StepIInv, PTL DEF Spec

\* For any numbers of users, tokens and requests that present the same token at once:
\* until it ends a session is carried by one row or one request, afterwards by none.
THEOREM OneCarrierEach == Spec => []SessionsAreCarried
<1>1. IInv => SessionsAreCarried
  <2> SUFFICES ASSUME IInv, NEW s \in Started
               PROVE  Carriers(s) = IF s \in ended THEN 0 ELSE 1
    BY DEF SessionsAreCarried
  <2> DEFINE rows == {t \in RefreshTokens : Live(t) /\ refreshTokens[t].session = s}
             hands == {r \in Request : Holds(r, s)}
  <2>1. rows = {t \in RefreshToken : RowCarries(t, s)}
    BY DEF RefreshTokens, RowCarries, Live
  <2>2. \/ s \in ended /\ rows = {} /\ hands = {}
        \/ s \notin ended /\ rows = {} /\ \E r : hands = {r}
        \/ s \notin ended /\ hands = {} /\ \E t : rows = {t}
    <3>1. CASE s \in ended
      BY <2>1, <3>1 DEF IInv, CarriedInv
    <3>2. ASSUME s \notin ended, NEW t \in RefreshToken, RowCarries(t, s)
          PROVE  rows = {t} /\ hands = {}
      BY <2>1, <3>2 DEF IInv, CarriedInv
    <3>3. ASSUME s \notin ended, NEW r \in Request, Holds(r, s)
          PROVE  rows = {} /\ hands = {r}
      BY <2>1, <3>3 DEF IInv, CarriedInv
    <3> QED
      BY <3>1, <3>2, <3>3 DEF IInv, CarriedInv
  <2>3. Carriers(s) = Cardinality(rows) + Cardinality(hands)
    BY DEF Carriers
  <2> HIDE DEF rows, hands
  <2>4. Cardinality({}) = 0 /\ \A x : Cardinality({x}) = 1
    BY FS_EmptySet, FS_Singleton
  <2>5. \/ s \in ended /\ Cardinality(rows) = 0 /\ Cardinality(hands) = 0
        \/ s \notin ended /\ Cardinality(rows) = 0 /\ Cardinality(hands) = 1
        \/ s \notin ended /\ Cardinality(rows) = 1 /\ Cardinality(hands) = 0
    BY <2>2, <2>4
  <2> QED
    BY <2>3, <2>5
<1> QED
  BY <1>1, IInvHolds, PTL

-----------------------------------------------------------------------------
(* Which password a session goes back to. *)

\* What ResetEndsSessions asks of a row, and what it takes of a request that is to
\* insert one.
RowInForce(t) ==
    refreshTokens[t].missed \/ InForce(refreshTokens[t].user, refreshTokens[t].resets)
HeldInForce(r) ==
    req[r].missed \/ r \in overtaken \/ InForce(req[r].user, req[r].resets)

PasswordInv ==
    /\ \A t \in RefreshTokens : Live(t) => RowInForce(t)
    /\ \A r \in Request : req[r].pc \in {"memberships", "issue"} => HeldInForce(r)

\* A password stays in force, or its reset comes to the revocation, unless the
\* revocation of the user's sessions ends.
LEMMA ForceStays ==
    ASSUME IInv, NEW r \in Request, NEW x, Goto(r, x), NEW e, NEW n,
           halfReset \subseteq halfReset',
           \/ users'[e].resets = users[e].resets
           \/ x.pc = "revokeAll" /\ x.user = e,
           At(r, "revokeAll") /\ req[r].user = e => e \in halfReset',
           InForce(e, n)
    PROVE  InForce(e, n)'
<1>1. req'[r] = x /\ \A q \in Request \ {r} : req'[q] = req[q]
  BY Moves DEF IInv
<1>2. CASE n = users[e].resets
  BY <1>1, <1>2 DEF InForce, At
<1>3. CASE e \in halfReset
  BY <1>3 DEF InForce
<1>4. ASSUME NEW q \in Request, At(q, "revokeAll"), req[q].user = e
      PROVE  InForce(e, n)'
  <2>1. CASE q = r
    BY <1>4, <2>1 DEF InForce
  <2>2. CASE q # r
    BY <1>1, <1>4, <2>2 DEF InForce, At
  <2> QED
    BY <2>1, <2>2
<1> QED
  BY <1>2, <1>3, <1>4 DEF InForce

\* It is enough that what is in force stays so, for the rows a step leaves alone and
\* the requests that wait, and to look at the row and the request of the step.
LEMMA PasswordStays ==
    ASSUME IInv, PasswordInv, NEW r \in Request, NEW x, Goto(r, x),
           overtaken \subseteq overtaken',
           \A e \in Registered : \A n : InForce(e, n) => InForce(e, n)',
           \A t \in RefreshTokens' : Live(t)' =>
              \/ RowInForce(t)'
              \/ t \in RefreshTokens /\ Live(t) /\ refreshTokens'[t] = refreshTokens[t],
           x.pc \in {"memberships", "issue"} => HeldInForce(r)'
    PROVE  PasswordInv'
<1>1. req'[r] = x /\ \A q \in Request \ {r} : req'[q] = req[q]
  BY Moves DEF IInv
<1>2. ASSUME NEW t \in RefreshTokens', Live(t)'
      PROVE  RowInForce(t)'
  <2>1. SUFFICES ASSUME t \in RefreshTokens, Live(t), refreshTokens'[t] = refreshTokens[t]
                 PROVE  RowInForce(t)'
    BY <1>2
  <2>2. refreshTokens[t].user \in Registered /\ RowInForce(t)
    BY <2>1 DEF IInv, AgreeInv, PasswordInv
  <2> QED
    BY <2>1, <2>2 DEF RowInForce
<1>3. ASSUME NEW q \in Request, req'[q].pc \in {"memberships", "issue"}
      PROVE  HeldInForce(q)'
  <2>1. CASE q = r
    BY <1>1, <1>3, <2>1
  <2>2. CASE q # r
    <3>1. req'[q] = req[q]
      BY <1>1, <2>2
    <3>2. req[q].user \in Registered /\ HeldInForce(q)
      BY <1>3, <3>1, Held DEF HandlerHolds, PasswordInv
    <3> QED
      BY <3>1, <3>2 DEF HeldInForce
  <2> QED
    BY <2>1, <2>2
<1> QED
  BY <1>2, <1>3 DEF PasswordInv

\* A step that leaves the sessions alone.
LEMMA PasswordApart ==
    ASSUME IInv, PasswordInv, NEW r \in Request, NEW x, Goto(r, x), UNCHANGED sessionTables,
           req[r].pc # "revokeAll", x.pc \in {"memberships", "issue"} => HeldInForce(r)',
           \A e \in Registered : \/ users'[e].resets = users[e].resets
                                 \/ x.pc = "revokeAll" /\ x.user = e
    PROVE  PasswordInv'
<1>1. \A e \in Registered : \A n : InForce(e, n) => InForce(e, n)'
  BY ForceStays DEF At, sessionTables
<1>2. \A t \in RefreshTokens' :
          Live(t)' => t \in RefreshTokens /\ Live(t) /\ refreshTokens'[t] = refreshTokens[t]
  BY DEF sessionTables, RefreshTokens, Live
<1> QED
  BY <1>1, <1>2, PasswordStays DEF sessionTables

\* One that only reads, or ends.
LEMMA PasswordRead ==
    ASSUME IInv, PasswordInv, NEW r \in Request, NEW x, Goto(r, x), UNCHANGED sessionTables,
           UNCHANGED users, req[r].pc # "revokeAll", x.pc \notin {"memberships", "issue"}
    PROVE  PasswordInv'
  BY PasswordApart

\* A row that is revoked and the session its request takes on.
LEMMA PasswordRevoked ==
    ASSUME IInv, PasswordInv, NEW r \in Request, NEW x, Goto(r, x), UNCHANGED users,
           UNCHANGED <<overtaken, halfReset>>, NEW T \in SUBSET RefreshTokens, Revokes(T),
           req[r].pc # "revokeAll", x.pc \in {"memberships", "issue"} => HeldInForce(r)'
    PROVE  PasswordInv'
<1>1. \A e \in Registered : \A n : InForce(e, n) => InForce(e, n)'
  BY ForceStays DEF At
<1>2. ASSUME NEW t \in RefreshTokens', Live(t)'
      PROVE  t \in RefreshTokens /\ Live(t) /\ refreshTokens'[t] = refreshTokens[t]
  <2>1. t \in RefreshTokens /\ t \in RefreshToken
    BY <1>2, RevokedRows DEF RefreshTokens
  <2>2. Live(t) /\ t \notin T
    BY <1>2, <2>1, RevokedRows
  <2> QED
    BY <2>1, <2>2 DEF Revokes
<1> QED
  BY <1>1, <1>2, PasswordStays

\* login() holds the password it has just checked.
LEMMA LoginPassword ==
    ASSUME IInv, PasswordInv, NEW r \in Request, NEW e \in Email, Login(r, e)
    PROVE  PasswordInv'
<1> DEFINE x == [pc |-> "issue", user |-> e, session |-> None,
                 resets |-> users[e].resets, missed |-> FALSE]
<1>1. req[r].pc # "revokeAll" /\ UNCHANGED users /\ UNCHANGED sessionTables
  BY DEF Login, Arrives, Idle, accountTables
<1>2. CASE Goto(r, x)
  <2>1. req'[r] = x
    BY <1>2, Moves DEF IInv
  <2>2. req'[r].user = e /\ req'[r].resets = users'[e].resets
    BY <1>1, <2>1
  <2>3. HeldInForce(r)'
    BY <2>2 DEF HeldInForce, InForce
  <2> HIDE DEF x
  <2> QED
    BY <1>1, <1>2, <2>3, PasswordApart
<1>3. CASE Goto(r, Done)
  BY <1>1, <1>3, PasswordRead DEF Done
<1> QED
  BY <1>2, <1>3 DEF Login, Finish

\* The other requests that arrive leave the sessions alone, but for a logout.
LEMMA ArrivesPassword ==
    ASSUME IInv, PasswordInv, NEW r \in Request, AuthController(r)
    PROVE  PasswordInv'
<1>1. ASSUME NEW x, Goto(r, x), x.pc \notin {"memberships", "issue"}, req[r] = Idle,
             UNCHANGED sessionTables, \A e \in Registered : users'[e] = users[e]
      PROVE  PasswordInv'
  BY <1>1, PasswordApart DEF Idle
<1>2. ASSUME NEW e \in Email, CreateUserAccount(r, e)
      PROVE  PasswordInv'
  <2> DEFINE x == [pc |-> "mailToken", user |-> e, purpose |-> "EMAIL_VERIFICATION"]
  <2>1. /\ req[r] = Idle /\ UNCHANGED sessionTables
        /\ Goto(r, x) \/ Goto(r, Done)
    BY <1>2 DEF CreateUserAccount, Arrives, Finish
  <2>2. \A d \in Registered : users'[d] = users[d]
    BY <1>2 DEF CreateUserAccount, Registered, IInv, RowsInv
  <2>3. x.pc = "mailToken" /\ Done.pc = "done"
    BY DEF Done
  <2> HIDE DEF x
  <2> QED
    BY <1>1, <2>1, <2>2, <2>3
<1>3. ASSUME NEW e \in Email, ForgotPassword(r, e)
      PROVE  PasswordInv'
  <2> DEFINE x == [pc |-> "mailToken", user |-> e, purpose |-> "PASSWORD_RESET"]
  <2>1. /\ req[r] = Idle /\ UNCHANGED sessionTables /\ UNCHANGED users
        /\ Goto(r, x) \/ Goto(r, Done)
    BY <1>3 DEF ForgotPassword, Arrives, accountTables
  <2>2. x.pc = "mailToken" /\ Done.pc = "done"
    BY DEF Done
  <2> HIDE DEF x
  <2> QED
    BY <1>1, <2>1, <2>2
<1>4. ASSUME NEW m \in MailToken, ClaimRead(r, m)
      PROVE  PasswordInv'
  <2> DEFINE x == [pc |-> "claim", token |-> m]
  <2>1. /\ req[r] = Idle /\ UNCHANGED sessionTables /\ UNCHANGED users
        /\ Goto(r, x) \/ Goto(r, Done)
    BY <1>4 DEF ClaimRead, Arrives, accountTables
  <2>2. x.pc = "claim" /\ Done.pc = "done"
    BY DEF Done
  <2> HIDE DEF x
  <2> QED
    BY <1>1, <2>1, <2>2
<1>5. ASSUME NEW t \in RefreshToken, RefreshRead(r, t)
      PROVE  PasswordInv'
  <2> DEFINE x(b) == [pc |-> "rotate", token |-> t, switching |-> b]
  <2>1. /\ req[r] = Idle /\ UNCHANGED sessionTables /\ UNCHANGED users
        /\ (\E b \in BOOLEAN : Goto(r, x(b))) \/ Goto(r, Done)
    BY <1>5 DEF RefreshRead, Arrives, Finish, accountTables
  <2>2. (\A b : x(b).pc = "rotate") /\ Done.pc = "done"
    BY DEF Done
  <2> HIDE DEF x
  <2> QED
    BY <1>1, <2>1, <2>2
<1>6. ASSUME NEW t \in RefreshToken, Logout(r, t)
      PROVE  PasswordInv'
  <2>1. /\ req[r] = Idle /\ t \in RefreshTokens /\ Goto(r, Done)
        /\ UNCHANGED users
    BY <1>6 DEF Logout, Arrives, Finish, accountTables
  <2>2. Idle.pc # "revokeAll" /\ Done.pc \notin {"memberships", "issue"}
    BY DEF Idle, Done
  <2>3. CASE Live(t)
    <3>1. Revokes({t}) /\ UNCHANGED <<overtaken, halfReset>>
      BY <1>6, <2>1, <2>3, RevokedOne DEF Logout
    <3>2. {t} \in SUBSET RefreshTokens
      BY <2>1
    <3> QED
      BY <2>1, <2>2, <3>1, <3>2, PasswordRevoked
  <2>4. CASE ~ Live(t)
    <3>1. UNCHANGED sessionTables
      BY <1>6, <2>4 DEF Logout
    <3> QED
      BY <2>1, <2>2, <3>1, PasswordRead
  <2> QED
    BY <2>3, <2>4
<1> QED
  BY <1>2, <1>3, <1>4, <1>5, <1>6, LoginPassword DEF AuthController

\* Between a claim and the new password nothing is in force that was not, and the new
\* password sends its reset to the revocation.
LEMMA ClaimedPassword ==
    ASSUME IInv, PasswordInv, NEW r \in Request,
           CreateMailToken(r) \/ ClaimToken(r) \/ VerifyEmail(r) \/ ResetPassword(r)
    PROVE  PasswordInv'
<1>1. req[r].pc # "revokeAll" /\ UNCHANGED sessionTables
  BY DEF CreateMailToken, ClaimToken, VerifyEmail, ResetPassword, At
<1>2. CASE CreateMailToken(r)
  <2>1. Goto(r, Done) /\ UNCHANGED users
    BY <1>2 DEF CreateMailToken, Finish
  <2> QED
    BY <1>1, <2>1, PasswordRead DEF Done
<1>3. CASE ClaimToken(r)
  <2> DEFINE m == req[r].token
             x == [pc |-> IF mailTokens[m].purpose = "PASSWORD_RESET"
                          THEN "setPassword" ELSE "verify",
                   user |-> mailTokens[m].user]
  <2>1. (Goto(r, x) \/ Goto(r, Done)) /\ UNCHANGED users
    BY <1>3 DEF ClaimToken, Claimed, Finish
  <2>2. x.pc \notin {"memberships", "issue"} /\ Done.pc \notin {"memberships", "issue"}
    BY DEF Done
  <2> HIDE DEF x
  <2> QED
    BY <1>1, <2>1, <2>2, PasswordRead
<1>4. CASE VerifyEmail(r) \/ ResetPassword(r)
  <2> DEFINE e == req[r].user
             x == [pc |-> "revokeAll", user |-> e]
  <2>1. e \in Registered
    BY <1>4, Held DEF VerifyEmail, ResetPassword, At, HandlerHolds
  <2>2. users[e] \in UserRow
    BY <2>1 DEF IInv, RowsInv, Registered
  <2>3. CASE VerifyEmail(r)
    <3>1. \A d \in Registered : users'[d].resets = users[d].resets
      BY <2>1, <2>2, <2>3 DEF VerifyEmail, IInv, RowsInv, Registered, UserRow
    <3>2. Goto(r, Done)
      BY <2>3 DEF VerifyEmail, Finish
    <3> QED
      BY <1>1, <3>1, <3>2, PasswordApart DEF Done
  <2>4. CASE ResetPassword(r)
    <3>1. \A d \in Registered \ {e} : users'[d].resets = users[d].resets
      BY <2>4 DEF ResetPassword, IInv, RowsInv, Registered
    <3>2. Goto(r, x)
      BY <2>4 DEF ResetPassword
    <3>3. x.pc = "revokeAll" /\ x.user = e
      OBVIOUS
    <3> HIDE DEF x, e
    <3>4. \A d \in Registered : \/ users'[d].resets = users[d].resets
                                \/ x.pc = "revokeAll" /\ x.user = d
      BY <3>1, <3>3
    <3> QED
      BY <1>1, <3>2, <3>3, <3>4, PasswordApart
  <2> QED
    BY <1>4, <2>3, <2>4
<1> QED
  BY <1>2, <1>3, <1>4

\* A revocation leaves no row of the user, and the requests on their way to one are
\* overtaken.
LEMMA RevokeAllPassword ==
    ASSUME IInv, PasswordInv, NEW r \in Request, RevokeAllSessions(r)
    PROVE  PasswordInv'
<1> DEFINE e == req[r].user
           T == {t \in RefreshTokens : refreshTokens[t].user = e /\ Live(t)}
<1>1. /\ Revokes(T) /\ Goto(r, Done) /\ users' = users /\ At(r, "revokeAll")
      /\ overtaken' = overtaken \cup OnTheirWay(e) /\ halfReset' = halfReset \ {e}
  BY DEF RevokeAllSessions, Revokes, Finish, accountTables
<1>2. T \in SUBSET RefreshTokens /\ \A t \in RefreshTokens \ T : Live(t) => refreshTokens[t].user # e
  OBVIOUS
<1> HIDE DEF T, e
<1>3. req'[r] = Done /\ \A q \in Request \ {r} : req'[q] = req[q]
  BY <1>1, Moves DEF IInv
<1>4. ASSUME NEW d, d # e, NEW n, InForce(d, n)
      PROVE  InForce(d, n)'
  <2>1. ASSUME NEW q \in Request, At(q, "revokeAll"), req[q].user = d
        PROVE  At(q, "revokeAll")' /\ req'[q].user = d
    BY <1>3, <1>4, <2>1 DEF At, e
  <2> QED
    BY <1>1, <1>4, <2>1 DEF InForce
<1>5. ASSUME NEW t \in RefreshTokens', Live(t)'
      PROVE  RowInForce(t)'
  <2>1. t \in RefreshTokens /\ t \in RefreshToken
    BY <1>1, <1>2, <1>5, RevokedRows DEF RefreshTokens
  <2>2. Live(t) /\ t \notin T
    BY <1>1, <1>2, <1>5, <2>1, RevokedRows
  <2>3. refreshTokens'[t] = refreshTokens[t] /\ refreshTokens[t].user # e
    BY <1>1, <1>2, <2>1, <2>2 DEF Revokes
  <2> QED
    BY <1>4, <2>1, <2>2, <2>3 DEF PasswordInv, RowInForce
<1>6. ASSUME NEW q \in Request, req'[q].pc \in {"memberships", "issue"}
      PROVE  HeldInForce(q)'
  <2>1. req'[q] = req[q] /\ q \in OnTheirWay(req[q].user)
    BY <1>3, <1>6 DEF Done, OnTheirWay
  <2>2. HeldInForce(q)
    BY <1>6, <2>1 DEF PasswordInv
  <2>3. CASE req[q].user = e
    BY <1>1, <2>1, <2>3 DEF HeldInForce
  <2>4. CASE req[q].user # e
    BY <1>1, <1>4, <2>1, <2>2, <2>4 DEF HeldInForce
  <2> QED
    BY <2>3, <2>4
<1> QED
  BY <1>5, <1>6 DEF PasswordInv

\* A rotation takes the password and the miss of the row with it.
LEMMA RotatePassword ==
    ASSUME IInv, PasswordInv, NEW r \in Request, Rotate(r)
    PROVE  PasswordInv'
<1> DEFINE t == req[r].token
           x == CarriesOn(IF req[r].switching THEN "memberships" ELSE "issue",
                          refreshTokens[t])
<1>1. /\ req[r].pc = "rotate" /\ t \in RefreshTokens /\ users' = users
      /\ UNCHANGED <<overtaken, halfReset>> /\ UNCHANGED ended
  BY Held DEF Rotate, At, HandlerHolds, accountTables
<1>2. CASE ~ Live(t)
  <2>1. Goto(r, Done) /\ UNCHANGED sessionTables
    BY <1>1, <1>2 DEF Rotate, Finish, sessionTables
  <2> QED
    BY <1>1, <2>1, PasswordRead DEF Done
<1>3. CASE Live(t)
  <2>1. Revokes({t}) /\ Goto(r, x)
    BY <1>1, <1>3, RevokedOne DEF Rotate
  <2>2. /\ x.user = refreshTokens[t].user /\ x.resets = refreshTokens[t].resets
        /\ x.missed = refreshTokens[t].missed
    BY DEF CarriesOn
  <2>3. RowInForce(t) /\ refreshTokens[t].user \in Registered
    BY <1>1, <1>3 DEF PasswordInv, IInv, AgreeInv
  <2> HIDE DEF x, t
  <2>4. req'[r] = x
    BY <2>1, Moves DEF IInv
  <2>5. PICK e, n : e = refreshTokens[t].user /\ n = refreshTokens[t].resets
    OBVIOUS
  <2>6. HeldInForce(r)'
    <3>1. InForce(e, n) => InForce(e, n)'
      BY <1>1, <2>1, ForceStays DEF At
    <3>2. refreshTokens[t].missed \/ InForce(e, n)
      BY <2>3, <2>5 DEF RowInForce
    <3>3. req'[r].user = e /\ req'[r].resets = n /\ req'[r].missed = refreshTokens[t].missed
      BY <2>2, <2>4, <2>5
    <3> QED
      BY <3>1, <3>2, <3>3 DEF HeldInForce
  <2>7. {t} \in SUBSET RefreshTokens
    BY <1>1
  <2> QED
    BY <1>1, <2>1, <2>6, <2>7, PasswordRevoked
<1> QED
  BY <1>2, <1>3

LEMMA SwitchPassword ==
    ASSUME IInv, PasswordInv, NEW r \in Request, SwitchMemberships(r)
    PROVE  PasswordInv'
<1> DEFINE x == [req[r] EXCEPT !.pc = "issue"]
<1>1. /\ req[r].pc = "memberships" /\ req[r].user \in Registered /\ HeldInForce(r)
      /\ req[r] = [pc |-> "memberships", user |-> req[r].user, session |-> req[r].session,
                   resets |-> req[r].resets, missed |-> req[r].missed]
      /\ UNCHANGED <<users, refreshTokens, overtaken, halfReset>>
  BY Held DEF SwitchMemberships, At, HandlerHolds, PasswordInv, accountTables
<1>2. Revokes({}) /\ {} \in SUBSET RefreshTokens
  BY <1>1 DEF IInv, RowsInv, Revokes
<1>3. CASE Goto(r, x)
  <2>1. x.user = req[r].user /\ x.resets = req[r].resets /\ x.missed = req[r].missed
    BY <1>1
  <2> HIDE DEF x
  <2>2. req'[r] = x
    BY <1>3, Moves DEF IInv
  <2>3. PICK e, n : e = req[r].user /\ n = req[r].resets
    OBVIOUS
  <2>4. HeldInForce(r)'
    <3>1. InForce(e, n) => InForce(e, n)'
      BY <1>1, <1>3, ForceStays DEF At
    <3>2. req[r].missed \/ r \in overtaken \/ InForce(e, n)
      BY <1>1, <2>3 DEF HeldInForce
    <3>3. req'[r].user = e /\ req'[r].resets = n /\ req'[r].missed = req[r].missed
      BY <2>1, <2>2, <2>3
    <3> QED
      BY <1>1, <3>1, <3>2, <3>3 DEF HeldInForce
  <2> QED
    BY <1>1, <1>2, <1>3, <2>4, PasswordRevoked
<1>4. CASE Goto(r, Done)
  BY <1>1, <1>2, <1>4, PasswordRevoked DEF Done
<1> QED
  BY <1>3, <1>4 DEF SwitchMemberships, Finish

\* The row that is inserted goes back to the password its request goes back to.
LEMMA IssuePassword ==
    ASSUME IInv, PasswordInv, NEW r \in Request, IssueTokenPair(r)
    PROVE  PasswordInv'
<1>1. /\ req[r].pc = "issue" /\ req[r].user \in Registered /\ HeldInForce(r)
      /\ Goto(r, Done) /\ UNCHANGED <<users, overtaken, halfReset>>
  BY Held DEF IssueTokenPair, At, HandlerHolds, Finish, PasswordInv, accountTables
<1>2. PICK t \in RefreshToken \ RefreshTokens :
        refreshTokens' = [refreshTokens EXCEPT ![t] = NewRefreshToken(t, r)]
  BY DEF IssueTokenPair
<1>3. /\ refreshTokens'[t] = NewRefreshToken(t, r)
      /\ \A u \in RefreshToken \ {t} : refreshTokens'[u] = refreshTokens[u]
  BY <1>2 DEF IInv, RowsInv
<1>4. \A e \in Registered : \A n : InForce(e, n) => InForce(e, n)'
  BY <1>1, ForceStays DEF At
<1>5. RowInForce(t)'
  <2>1. PICK e, n : e = req[r].user /\ n = req[r].resets
    OBVIOUS
  <2>2. refreshTokens'[t].missed \/ InForce(e, n)'
    <3>1. InForce(e, n) => InForce(e, n)'
      BY <1>1, <1>4, <2>1
    <3>2. (req[r].missed \/ r \in overtaken) \/ InForce(e, n)
      BY <1>1, <2>1 DEF HeldInForce
    <3>3. refreshTokens'[t].missed = (req[r].missed \/ r \in overtaken)
      BY <1>3 DEF NewRefreshToken
    <3> QED
      BY <3>1, <3>2, <3>3, Zenon
  <2>3. refreshTokens'[t].user = e /\ refreshTokens'[t].resets = n
    BY <1>3, <2>1 DEF NewRefreshToken
  <2> QED
    BY <2>2, <2>3 DEF RowInForce
<1>6. \A u \in RefreshTokens' : Live(u)' =>
         \/ RowInForce(u)'
         \/ u \in RefreshTokens /\ Live(u) /\ refreshTokens'[u] = refreshTokens[u]
  BY <1>3, <1>5 DEF RefreshTokens, Live
<1> QED
  BY <1>1, <1>4, <1>6, PasswordStays DEF Done

\* A reset that is cut off before its revocation is recorded as half done.
LEMMA FailsPassword ==
    ASSUME IInv, PasswordInv, NEW r \in Request, AuthFails(r)
    PROVE  PasswordInv'
<1>1. /\ Goto(r, Lost) /\ UNCHANGED <<users, refreshTokens, overtaken>>
      /\ halfReset' = halfReset \cup {e \in Email : At(r, "revokeAll") /\ req[r].user = e}
  BY DEF AuthFails, Fails, accountTables
<1>2. \A e \in Registered : \A n : InForce(e, n) => InForce(e, n)'
  BY <1>1, ForceStays DEF Registered
<1>3. \A t \in RefreshTokens' :
          Live(t)' => t \in RefreshTokens /\ Live(t) /\ refreshTokens'[t] = refreshTokens[t]
  BY <1>1 DEF RefreshTokens, Live
<1> QED
  BY <1>1, <1>2, <1>3, PasswordStays DEF Lost

\* Whatever overlaps, and however often a token is rotated since: a login with an
\* earlier password has no live session once a reset of its user has come through,
\* unless the revocation overtook the session between two of its rows.
THEOREM ResetsRevoke == Spec => []ResetEndsSessions
<1>1. Init => PasswordInv
  BY DEF Init, SessionTablesInit, RequestsInit, Idle, PasswordInv, RefreshTokens
<1>2. ASSUME IInv, PasswordInv, [Next]_vars
      PROVE  PasswordInv'
  <2>1. CASE Lapse \/ UNCHANGED vars
    <3>1. UNCHANGED <<users, refreshTokens, overtaken, halfReset, req>>
      BY <2>1 DEF Lapse, vars, accountTables, sessionTables
    <3> QED
      BY <1>2, <3>1 DEF PasswordInv, RowInForce, HeldInForce, InForce, RefreshTokens, Live, At
  <2>2. ASSUME NEW r \in Request, ContinueAuth(r)
        PROVE  PasswordInv'
    BY <1>2, <2>2, ClaimedPassword, RevokeAllPassword, RotatePassword, SwitchPassword,
       IssuePassword DEF ContinueAuth
  <2> QED
    BY <1>2, <2>1, <2>2, ArrivesPassword, FailsPassword DEF Next, Quiescent
<1>3. PasswordInv => ResetEndsSessions
  BY DEF PasswordInv, ResetEndsSessions, RowInForce
<1> QED
  BY <1>1, <1>2, <1>3, IInvHolds, PTL DEF Spec

-----------------------------------------------------------------------------
(* How often a mail token is used. *)

Resetting(e) == {r \in Request : At(r, "setPassword") /\ req[r].user = e}
Resets(e) == UsedTokens(e, "PASSWORD_RESET")

\* What a step does for a user: a token that is used sends one request to change the
\* password, a change of the password is one that was sent.
Counts(e) ==
    \/ users'[e].resets = 0 /\ Resetting(e)' = {}
    \/ /\ users'[e].resets = users[e].resets /\ e \in Registered
       /\ \/ Resetting(e)' \subseteq Resetting(e) /\ Resets(e) \subseteq Resets(e)'
          \/ \E m \in MailToken \ Resets(e), r \in Request :
               /\ Resetting(e)' \subseteq Resetting(e) \cup {r}
               /\ Resets(e) \cup {m} \subseteq Resets(e)'
    \/ /\ users'[e].resets = users[e].resets + 1 /\ e \in Registered
       /\ Resets(e) \subseteq Resets(e)'
       /\ \E r \in Resetting(e) : Resetting(e)' \subseteq Resetting(e) \ {r}

\* A step that changes no account and uses no token.
LEMMA NothingCounts ==
    ASSUME IInv, NEW r \in Request, NEW x, Goto(r, x), x.pc # "setPassword",
           UNCHANGED users, NEW e \in Registered, Resets(e) \subseteq Resets(e)'
    PROVE  Counts(e)
<1>1. req'[r] = x /\ \A q \in Request \ {r} : req'[q] = req[q]
  BY Moves DEF IInv
<1>2. Resetting(e)' \subseteq Resetting(e)
  BY <1>1 DEF Resetting, At
<1> QED
  BY <1>2 DEF Counts

LEMMA ClaimCounts ==
    ASSUME IInv, NEW r \in Request, ClaimToken(r), NEW e \in Registered
    PROVE  Counts(e)
<1> DEFINE m == req[r].token
<1>1. m \in MailTokens /\ UNCHANGED users
  BY Held DEF ClaimToken, At, HandlerHolds
<1>2. CASE mailTokens[m].used
  <2>1. Goto(r, Done) /\ UNCHANGED mailTokens
    BY <1>2 DEF ClaimToken, Finish
  <2>2. Resets(e)' = Resets(e)
    BY <2>1 DEF Resets, UsedTokens, MailTokens
  <2>3. Done.pc # "setPassword"
    BY DEF Done
  <2> QED
    BY <1>1, <2>1, <2>2, <2>3, NothingCounts
<1>3. CASE ~ mailTokens[m].used
  <2> DEFINE row == [mailTokens[m] EXCEPT !.used = TRUE]
             x == [pc |-> IF mailTokens[m].purpose = "PASSWORD_RESET"
                          THEN "setPassword" ELSE "verify",
                   user |-> mailTokens[m].user]
  <2>1. mailTokens[m] \in MailTokenRow /\ m \in MailToken
    BY <1>1 DEF IInv, RowsInv, MailTokens
  <2>2. /\ row \in MailTokenRow /\ row.user = mailTokens[m].user /\ row.used
        /\ row.purpose = mailTokens[m].purpose
    BY <2>1 DEF MailTokenRow
  <2>3. mailTokens' = [mailTokens EXCEPT ![m] = row] /\ Goto(r, x)
    BY <1>3 DEF ClaimToken, Claimed
  <2>4. x.user = mailTokens[m].user
        /\ (x.pc = "setPassword" <=> mailTokens[m].purpose = "PASSWORD_RESET")
    OBVIOUS
  <2> HIDE DEF row, x, m
  <2>5. /\ mailTokens'[m] = row
        /\ \A k \in MailToken \ {m} : mailTokens'[k] = mailTokens[k]
    BY <2>1, <2>3 DEF IInv, RowsInv
  <2>6. MailTokens' = MailTokens
    BY <1>1, <2>2, <2>5, AccountAssumption DEF MailTokens
  <2>7. Resets(e) \subseteq Resets(e)'
    BY <2>2, <2>5, <2>6 DEF Resets, UsedTokens, MailTokens
  <2>8. CASE x.pc = "setPassword" /\ x.user = e
    <3>1. m \in MailToken \ Resets(e)
      BY <1>3, <2>1 DEF Resets, UsedTokens
    <3>2. m \in Resets(e)'
      BY <1>1, <2>2, <2>4, <2>5, <2>6, <2>8 DEF Resets, UsedTokens
    <3>3. Resetting(e)' \subseteq Resetting(e) \cup {r}
      BY <2>3, Moves DEF Resetting, At, IInv
    <3> QED
      BY <1>1, <2>7, <3>1, <3>2, <3>3 DEF Counts
  <2>9. CASE ~ (x.pc = "setPassword" /\ x.user = e)
    <3>1. req'[r] = x /\ \A q \in Request \ {r} : req'[q] = req[q]
      BY <2>3, Moves DEF IInv
    <3>2. Resetting(e)' \subseteq Resetting(e)
      BY <2>9, <3>1 DEF Resetting, At
    <3> QED
      BY <1>1, <2>7, <3>2 DEF Counts
  <2> QED
    BY <2>8, <2>9
<1> QED
  BY <1>2, <1>3

\* The accounts that are written: by register(), verifyEmail() and resetPassword().
LEMMA AccountCounts ==
    ASSUME IInv, NEW r \in Request,
           \/ \E d \in Email : CreateUserAccount(r, d)
           \/ VerifyEmail(r)
           \/ ResetPassword(r),
           NEW e \in Registered'
    PROVE  Counts(e)
<1>1. e \in Email /\ Resets(e)' = Resets(e)
  BY DEF Registered, CreateUserAccount, VerifyEmail, ResetPassword, Resets, UsedTokens,
         MailTokens
<1>2. ASSUME NEW d \in Email, CreateUserAccount(r, d)
      PROVE  Counts(e)
  <2>1. PICK x : Goto(r, x) /\ x.pc \in {"done", "mailToken"}
    <3> DEFINE y == [pc |-> "mailToken", user |-> d, purpose |-> "EMAIL_VERIFICATION"]
    <3>1. y.pc = "mailToken" /\ Done.pc = "done"
      BY DEF Done
    <3>2. Goto(r, y) \/ Goto(r, Done)
      BY <1>2 DEF CreateUserAccount, Finish
    <3> HIDE DEF y
    <3> QED
      BY <3>1, <3>2
  <2>2. req'[r] = x /\ \A q \in Request \ {r} : req'[q] = req[q]
    BY <2>1, Moves DEF IInv
  <2>3. Resetting(e)' \subseteq Resetting(e)
    BY <2>1, <2>2 DEF Resetting, At
  <2>4. CASE e \in Registered
    <3>1. users'[e] = users[e]
      BY <1>1, <1>2, <2>4 DEF CreateUserAccount, Registered, IInv, RowsInv
    <3> QED
      BY <1>1, <2>3, <2>4, <3>1 DEF Counts
  <2>5. CASE e \notin Registered
    <3>1. users'[e] = NewUser(FALSE)
      BY <1>1, <1>2, <2>5 DEF CreateUserAccount, Registered, IInv, RowsInv
    <3>2. Resetting(e) = {}
      BY <2>5, Held DEF Resetting, At, HandlerHolds
    <3> QED
      BY <2>3, <3>1, <3>2 DEF Counts, NewUser
  <2> QED
    BY <2>4, <2>5
<1>3. CASE VerifyEmail(r)
  <2>1. req[r].user \in Registered /\ Goto(r, Done)
    BY <1>3, Held DEF VerifyEmail, At, HandlerHolds, Finish
  <2>2. users[req[r].user] \in UserRow
    BY <2>1 DEF IInv, RowsInv, Registered
  <2>3. e \in Registered /\ users'[e].resets = users[e].resets
    BY <1>1, <1>3, <2>1, <2>2 DEF VerifyEmail, Registered, IInv, RowsInv, UserRow
  <2>4. req'[r].pc = "done" /\ \A q \in Request \ {r} : req'[q] = req[q]
    BY <2>1, Moves DEF IInv, Done
  <2>5. Resetting(e)' \subseteq Resetting(e)
    BY <2>4 DEF Resetting, At
  <2> QED
    BY <1>1, <2>3, <2>5 DEF Counts
<1>4. CASE ResetPassword(r)
  <2> DEFINE d == req[r].user
             row == [users[d] EXCEPT !.resets = @ + 1]
  <2>1. /\ d \in Registered /\ users' = [users EXCEPT ![d] = row]
        /\ Goto(r, [pc |-> "revokeAll", user |-> d]) /\ req[r].pc = "setPassword"
    BY <1>4, Held DEF ResetPassword, At, HandlerHolds
  <2>2. users[d] \in UserRow
    BY <2>1 DEF IInv, RowsInv, Registered
  <2>3. row.resets = users[d].resets + 1
    BY <2>2 DEF UserRow
  <2> HIDE DEF row
  <2>4. /\ users'[d].resets = users[d].resets + 1
        /\ e # d => users'[e] = users[e]
        /\ e \in Registered
    BY <1>1, <2>1, <2>3 DEF Registered, IInv, RowsInv
  <2>5. req'[r].pc = "revokeAll" /\ \A q \in Request \ {r} : req'[q] = req[q]
    BY <2>1, Moves DEF IInv
  <2>6. Resetting(e)' \subseteq Resetting(e) \ {r}
    BY <2>5 DEF Resetting, At
  <2>7. e = d => r \in Resetting(e)
    BY <2>1 DEF Resetting, At
  <2> HIDE DEF d
  <2> QED
    BY <1>1, <2>4, <2>6, <2>7 DEF Counts
<1> QED
  BY <1>2, <1>3, <1>4

LEMMA StepCounts ==
    ASSUME IInv, [Next]_vars, NEW e \in Registered'
    PROVE  Counts(e)
<1>1. ASSUME NEW r \in Request, NEW x, Goto(r, x), x.pc # "setPassword",
             UNCHANGED users, \A k \in MailTokens : mailTokens'[k] = mailTokens[k],
             MailTokens \subseteq MailTokens'
      PROVE  Counts(e)
  <2>1. Resets(e) \subseteq Resets(e)'
    BY <1>1 DEF Resets, UsedTokens
  <2>2. e \in Registered
    BY <1>1 DEF Registered
  <2> QED
    BY <1>1, <2>1, <2>2, NothingCounts
<1>2. ASSUME NEW r \in Request, UNCHANGED accountTables,
             \E x : Goto(r, x) /\ x.pc # "setPassword"
      PROVE  Counts(e)
  BY <1>1, <1>2 DEF accountTables, MailTokens
<1>3. Done.pc # "setPassword" /\ Lost.pc # "setPassword"
  BY DEF Done, Lost
<1>4. ASSUME NEW r \in Request, NEW d \in Email, ForgotPassword(r, d) \/ Login(r, d)
      PROVE  Counts(e)
  <2> DEFINE x == [pc |-> "mailToken", user |-> d, purpose |-> "PASSWORD_RESET"]
             y == [pc |-> "issue", user |-> d, session |-> None,
                   resets |-> users[d].resets, missed |-> FALSE]
  <2>1. x.pc # "setPassword" /\ y.pc # "setPassword"
    OBVIOUS
  <2>2. (Goto(r, x) \/ Goto(r, y) \/ Goto(r, Done)) /\ UNCHANGED accountTables
    BY <1>4 DEF ForgotPassword, Login, Finish
  <2> HIDE DEF x, y
  <2> QED
    BY <1>2, <1>3, <2>1, <2>2
<1>5. ASSUME NEW r \in Request, NEW m \in MailToken, ClaimRead(r, m)
      PROVE  Counts(e)
  <2> DEFINE x == [pc |-> "claim", token |-> m]
  <2>1. x.pc # "setPassword"
    OBVIOUS
  <2>2. (Goto(r, x) \/ Goto(r, Done)) /\ UNCHANGED accountTables
    BY <1>5 DEF ClaimRead
  <2> HIDE DEF x
  <2> QED
    BY <1>2, <1>3, <2>1, <2>2
<1>6. ASSUME NEW r \in Request, NEW t \in RefreshToken, RefreshRead(r, t) \/ Logout(r, t)
      PROVE  Counts(e)
  <2> DEFINE x(b) == [pc |-> "rotate", token |-> t, switching |-> b]
  <2>1. \A b : x(b).pc # "setPassword"
    OBVIOUS
  <2>2. ((\E b \in BOOLEAN : Goto(r, x(b))) \/ Goto(r, Done)) /\ UNCHANGED accountTables
    BY <1>6 DEF RefreshRead, Logout, Finish
  <2> HIDE DEF x
  <2> QED
    BY <1>2, <1>3, <2>1, <2>2
<1>7. ASSUME NEW r \in Request, RevokeAllSessions(r) \/ AuthFails(r)
      PROVE  Counts(e)
  <2>1. (Goto(r, Lost) \/ Goto(r, Done)) /\ UNCHANGED accountTables
    BY <1>7 DEF RevokeAllSessions, AuthFails, Fails, Finish
  <2> QED
    BY <1>2, <1>3, <2>1
<1>8. ASSUME NEW r \in Request, Rotate(r) \/ SwitchMemberships(r) \/ IssueTokenPair(r)
      PROVE  Counts(e)
  <2>1. UNCHANGED accountTables
    BY <1>8 DEF Rotate, SwitchMemberships, IssueTokenPair
  <2>2. CASE Rotate(r)
    <3> DEFINE t == req[r].token
               x == CarriesOn(IF req[r].switching THEN "memberships" ELSE "issue",
                              refreshTokens[t])
    <3>1. x.pc # "setPassword"
      BY DEF CarriesOn
    <3>2. Goto(r, x) \/ Goto(r, Done)
      BY <2>2 DEF Rotate, Finish
    <3> HIDE DEF x
    <3> QED
      BY <1>2, <1>3, <2>1, <3>1, <3>2
  <2>3. CASE SwitchMemberships(r)
    <3> DEFINE x == [req[r] EXCEPT !.pc = "issue"]
    <3>1. req[r] = [pc |-> "memberships", user |-> req[r].user, session |-> req[r].session,
                    resets |-> req[r].resets, missed |-> req[r].missed]
      BY <2>3, Held DEF SwitchMemberships, At, HandlerHolds
    <3>2. x.pc # "setPassword"
      BY <3>1
    <3>3. Goto(r, x) \/ Goto(r, Done)
      BY <2>3 DEF SwitchMemberships, Finish
    <3> HIDE DEF x
    <3> QED
      BY <1>2, <1>3, <2>1, <3>2, <3>3
  <2>4. CASE IssueTokenPair(r)
    BY <1>2, <1>3, <2>1, <2>4 DEF IssueTokenPair, Finish
  <2> QED
    BY <1>8, <2>2, <2>3, <2>4
<1>9. ASSUME NEW r \in Request, CreateMailToken(r)
      PROVE  Counts(e)
  <2>1. PICK m \in MailToken \ MailTokens, row \in MailTokenRow :
          mailTokens' = [mailTokens EXCEPT ![m] = row]
    <3>1. NewMailToken(req[r].user, req[r].purpose) \in MailTokenRow
      BY <1>9, Held DEF CreateMailToken, At, HandlerHolds, NewMailToken, MailTokenRow, Registered
    <3> QED
      BY <1>9, <3>1 DEF CreateMailToken
  <2>2. /\ \A k \in MailTokens : mailTokens'[k] = mailTokens[k]
        /\ MailTokens \subseteq MailTokens'
    BY <2>1, AccountAssumption DEF MailTokens, IInv, RowsInv
  <2>3. Goto(r, Done) /\ UNCHANGED users
    BY <1>9 DEF CreateMailToken, Finish
  <2> QED
    BY <1>1, <1>3, <2>2, <2>3
<1>10. CASE Lapse \/ UNCHANGED vars
  <2>1. UNCHANGED <<users, mailTokens, req>>
    BY <1>10 DEF Lapse, vars, accountTables
  <2>2. Resets(e)' = Resets(e) /\ Resetting(e)' = Resetting(e) /\ e \in Registered
    BY <2>1 DEF Resets, UsedTokens, MailTokens, Resetting, At, Registered
  <2> QED
    BY <2>1, <2>2 DEF Counts
<1>11. ASSUME NEW r \in Request, ClaimToken(r)
       PROVE  Counts(e)
  BY <1>11, ClaimCounts DEF ClaimToken, Registered
<1>12. ASSUME NEW r \in Request, AuthController(r)
       PROVE  Counts(e)
  BY <1>4, <1>5, <1>6, <1>12, AccountCounts DEF AuthController
<1>13. ASSUME NEW r \in Request, ContinueAuth(r)
       PROVE  Counts(e)
  BY <1>7, <1>8, <1>9, <1>11, <1>13, AccountCounts DEF ContinueAuth
<1> QED
  BY <1>7, <1>10, <1>12, <1>13 DEF Next, Quiescent

\* For any finite sets of tokens and requests: every change of a password has used up a
\* reset token of its own, and every account that registered itself and is verified a
\* verification token.
THEOREM TokensChangeOnce ==
    ASSUME IsFiniteSet(MailToken), IsFiniteSet(Request)
    PROVE  Spec => []TokensAreUsedOnce
<1> DEFINE Balance == \A e \in Registered :
                        users[e].resets + Cardinality(Resetting(e)) <= Cardinality(Resets(e))
<1>1. Init => Balance
  <2> SUFFICES ASSUME Init, NEW e \in Registered
               PROVE  users[e].resets + Cardinality(Resetting(e)) <= Cardinality(Resets(e))
    OBVIOUS
  <2>1. users[e].resets = 0
    BY DEF Init, AccountTablesInit, Registered
  <2>2. Resetting(e) = {} /\ Resets(e) = {}
    BY DEF Init, AccountTablesInit, RequestsInit, Idle, Resetting, Resets, UsedTokens,
           MailTokens, At
  <2> QED
    BY <2>1, <2>2, FS_EmptySet
<1>2. ASSUME IInv, IInv', Balance, [Next]_vars
      PROVE  Balance'
  <2> SUFFICES ASSUME NEW e \in Registered'
               PROVE  users'[e].resets + Cardinality(Resetting(e)')
                        <= Cardinality(Resets(e)')
    OBVIOUS
  <2> DEFINE done == users[e].resets
             done2 == users'[e].resets
             going == Resetting(e)
             going2 == Resetting(e)'
             used == Resets(e)
             used2 == Resets(e)'
  <2>1. /\ IsFiniteSet(going) /\ IsFiniteSet(going2)
        /\ IsFiniteSet(used) /\ IsFiniteSet(used2)
    BY FS_Subset DEF Resetting, Resets, UsedTokens, MailTokens
  <2>2. /\ Cardinality(going) \in Nat /\ Cardinality(going2) \in Nat
        /\ Cardinality(used) \in Nat /\ Cardinality(used2) \in Nat
    BY <2>1, FS_CardinalityType
  <2>3. done2 \in Nat /\ (e \in Registered => done \in Nat)
    BY <1>2 DEF IInv, RowsInv, Registered, UserRow
  <2>4. e \in Registered => done + Cardinality(going) <= Cardinality(used)
    BY <1>2
  <2>5. \/ done2 = 0 /\ going2 = {}
        \/ done2 = done /\ e \in Registered /\ going2 \subseteq going /\ used \subseteq used2
        \/ /\ done2 = done /\ e \in Registered
           /\ \E m \in MailToken \ used, r \in Request :
                going2 \subseteq going \cup {r} /\ used \cup {m} \subseteq used2
        \/ /\ done2 = done + 1 /\ e \in Registered /\ used \subseteq used2
           /\ \E r \in going : going2 \subseteq going \ {r}
    BY <1>2, StepCounts DEF Counts
  <2> HIDE DEF done, done2, going, going2, used, used2
  <2>6. CASE done2 = 0 /\ going2 = {}
    <3>1. Cardinality(going2) = 0
      BY <2>6, FS_EmptySet
    <3> QED
      BY <2>2, <2>6, <3>1 DEF done2, going2, used2
  <2>7. CASE done2 = done /\ e \in Registered /\ going2 \subseteq going /\ used \subseteq used2
    <3>1. /\ Cardinality(going2) <= Cardinality(going)
          /\ Cardinality(used) <= Cardinality(used2)
      BY <2>1, <2>7, FS_Subset
    <3>2. done2 + Cardinality(going2) <= Cardinality(used2)
      BY <2>2, <2>3, <2>4, <2>7, <3>1
    <3> QED
      BY <3>2 DEF done2, going2, used2
  <2>8. ASSUME done2 = done, e \in Registered, NEW m \in MailToken \ used, NEW r \in Request,
               going2 \subseteq going \cup {r}, used \cup {m} \subseteq used2
        PROVE  done2 + Cardinality(going2) <= Cardinality(used2)
    <3>1. /\ IsFiniteSet(going \cup {r}) /\ IsFiniteSet(used \cup {m})
          /\ Cardinality(used \cup {m}) = Cardinality(used) + 1
          /\ Cardinality(going \cup {r}) <= Cardinality(going) + 1
      <4>1. /\ IsFiniteSet(used \cup {m})
            /\ Cardinality(used \cup {m}) = Cardinality(used) + 1
        BY <2>1, FS_AddElement
      <4>2. /\ IsFiniteSet(going \cup {r})
            /\ \/ Cardinality(going \cup {r}) = Cardinality(going)
               \/ Cardinality(going \cup {r}) = Cardinality(going) + 1
        BY <2>1, FS_AddElement
      <4> QED
        BY <2>2, <4>1, <4>2
    <3>2. Cardinality(going2) <= Cardinality(going \cup {r})
      BY <2>8, <3>1, FS_Subset
    <3>3. Cardinality(used \cup {m}) <= Cardinality(used2)
      BY <2>1, <2>8, FS_Subset
    <3>4. Cardinality(going \cup {r}) \in Nat
      BY <3>1, FS_CardinalityType
    <3> QED
      BY <2>2, <2>3, <2>4, <2>8, <3>1, <3>2, <3>3, <3>4
  <2>9. ASSUME done2 = done + 1, e \in Registered, used \subseteq used2,
               NEW r \in going, going2 \subseteq going \ {r}
        PROVE  done2 + Cardinality(going2) <= Cardinality(used2)
    <3>1. /\ IsFiniteSet(going \ {r})
          /\ Cardinality(going \ {r}) = Cardinality(going) - 1
      BY <2>1, <2>9, FS_RemoveElement
    <3>2. Cardinality(going2) <= Cardinality(going \ {r})
      BY <2>9, <3>1, FS_Subset
    <3>3. Cardinality(used) <= Cardinality(used2)
      BY <2>1, <2>9, FS_Subset
    <3> QED
      BY <2>2, <2>3, <2>4, <2>9, <3>1, <3>2, <3>3
  <2>10. CASE \/ /\ done2 = done /\ e \in Registered
                 /\ \E m \in MailToken \ used, r \in Request :
                      going2 \subseteq going \cup {r} /\ used \cup {m} \subseteq used2
              \/ /\ done2 = done + 1 /\ e \in Registered /\ used \subseteq used2
                 /\ \E r \in going : going2 \subseteq going \ {r}
    BY <2>8, <2>9, <2>10 DEF done2, going2, used2
  <2> QED
    BY <2>5, <2>6, <2>7, <2>10
<1>3. IInv /\ Balance => TokensAreUsedOnce
  BY DEF TokensAreUsedOnce, Resetting, Resets, IInv, AgreeInv, Proven
<1> QED
  BY <1>1, <1>2, <1>3, IInvHolds, PTL DEF Spec
=============================================================================
