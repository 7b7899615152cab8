------------------------------ MODULE ApiClient ------------------------------
(***************************************************************************)
(* lib/api.ts and lib/auth-context.tsx of the frontend: the exchanges of the *)
(* browser's tabs with the API.  A tab keeps an access token in memory; the  *)
(* refresh token, which is good for one use, is in a cookie the tabs share.  *)
(* A request that is answered 401 waits for one refresh and is sent again.   *)
(***************************************************************************)
EXTENDS Naturals, FiniteSets

CONSTANTS
    Tab,
    MaxLapses,  \* the bound on access tokens that expire
    MaxLost     \* the bound on answers the network loses

\* The last conjunct keeps tabs apart from the other names in spent.
ASSUME ClientAssumption ==
    MaxLapses \in Nat /\ MaxLost \in Nat /\ {"logout", "lost"} \cap Tab = {}

VARIABLES
    issued,      \* how many pairs of tokens the server has issued: a pair is its number
    alive,       \* pairs whose refresh token the server will take
    spent,       \* <<pair, who>>: by which tab, or by what, a refresh token was used up
    lapsed,      \* pairs whose access token has expired
    cookie,      \* the pair whose refresh token is in the cookie, or 0
    token,       \* the pair of each tab's accessToken, or 0
    refreshing,  \* the exchange behind each tab's refreshPromise, or 0
    user,        \* "loading", "in" or "out": what each tab's AuthProvider shows
    calls,       \* exchanges in flight
    made,        \* exchanges so far
    lost         \* answers lost so far

tokens == <<issued, alive, spent, lapsed>>
session == <<cookie, token, user>>
clientVars == <<tokens, session, refreshing, calls, made, lost>>

\* rawFetch(): the browser adds the cookie to all requests; those to /auth read it.
\* The last row is about the requests of pages (Pages.tla).
Exchange(t, id, kind) ==
    [tab |-> t, id |-> id, kind |-> kind, pc |-> "sent", retried |-> FALSE, awaits |-> 0,
     with |-> IF kind \in {"refresh", "logout"} THEN cookie ELSE token[t],
     answer |-> "none", pair |-> 0,
     page |-> "none", visit |-> 0, op |-> "none", get |-> {}, key |-> 0, text |-> 0,
     data |-> <<>>, runs |-> 0]

Replaced(c, ds) == (calls \ {c}) \cup ds

Answered(c, answer, pair) == [c EXCEPT !.pc = "answered", !.answer = answer, !.pair = pair]

\* JwtAuthGuard.
Authentic(c) == c.with # 0 /\ c.with \notin lapsed

-----------------------------------------------------------------------------
(* The server, as AuthController and AuthService answer. *)

\* claimRefreshToken(): of those who present a token one is served.
ServeRefresh(c) ==
    /\ c.kind = "refresh" /\ c.pc = "sent"
    /\ IF c.with \in alive
       THEN /\ issued' = issued + 1
            /\ alive' = (alive \ {c.with}) \cup {issued'}
            /\ spent' = spent \cup {<<c.with, c.tab>>}
            /\ calls' = Replaced(c, {Answered(c, "ok", issued')})
       ELSE /\ calls' = Replaced(c, {Answered(c, "401", 0)})
            /\ UNCHANGED <<issued, alive, spent>>
    /\ UNCHANGED <<lapsed, session, refreshing, made, lost>>

\* Login takes the password or does not; register() of a new account is answered ok.
ServeLogin(c) ==
    /\ c.kind \in {"login", "register"} /\ c.pc = "sent"
    /\ \/ calls' = Replaced(c, {Answered(c, "401", 0)}) /\ UNCHANGED <<issued, alive>>
       \/ /\ c.kind = "login"
          /\ issued' = issued + 1
          /\ alive' = alive \cup {issued'}
          /\ calls' = Replaced(c, {Answered(c, "ok", issued')})
       \/ /\ c.kind = "register"
          /\ calls' = Replaced(c, {Answered(c, "ok", 0)})
          /\ UNCHANGED <<issued, alive>>
    /\ UNCHANGED <<spent, lapsed, session, refreshing, made, lost>>

ServeLogout(c) ==
    /\ c.kind = "logout" /\ c.pc = "sent"
    /\ alive' = alive \ {c.with}
    /\ spent' = spent \cup {<<c.with, "logout">>}
    /\ calls' = Replaced(c, {Answered(c, "ok", 0)})
    /\ UNCHANGED <<issued, lapsed, session, refreshing, made, lost>>

ServeMe(c) ==
    /\ c.kind \in {"mount", "me"} /\ c.pc = "sent"
    /\ calls' = Replaced(c, {Answered(c, IF Authentic(c) THEN "ok" ELSE "401", 0)})
    /\ UNCHANGED <<tokens, session, refreshing, made, lost>>

Lapse ==
    /\ Cardinality(lapsed) < MaxLapses
    /\ \E p \in 1 .. issued : p \notin lapsed /\ lapsed' = lapsed \cup {p}
    /\ UNCHANGED <<issued, alive, spent, session, refreshing, calls, made, lost>>

\* The network fails: the request or its answer does not arrive, and fetch rejects.
Lose(c) ==
    /\ lost < MaxLost
    /\ c.pc \in {"sent", "answered"} /\ c.answer # "failed"
    /\ lost' = lost + 1
    /\ calls' = Replaced(c, {Answered(c, "failed", 0)})
    /\ spent' = IF c.kind = "refresh" /\ c.answer = "ok"
                THEN spent \cup {<<c.with, "lost">>} ELSE spent
    /\ UNCHANGED <<issued, alive, lapsed, session, refreshing, made>>

-----------------------------------------------------------------------------
(* apiRequest() and refreshAccessToken() *)

NoRetryPaths == {"refresh", "login", "register"}

\* Mutation of MayRetry: a request that failed is sent again, too.
MayRetryFailed(c) ==
    /\ c.pc = "answered" /\ c.answer \in {"401", "failed"}
    /\ ~ c.retried /\ c.kind \notin NoRetryPaths

\* The answer that apiRequest() does not hand to its caller.
MayRetry(c) ==
    c.pc = "answered" /\ c.answer = "401" /\ ~ c.retried /\ c.kind \notin NoRetryPaths

Settles(c) == c.pc = "answered" /\ ~ MayRetry(c)

Waiting(c, id) == [c EXCEPT !.pc = "waiting", !.retried = TRUE, !.awaits = id]

\* Mutation of Retry: every 401 refreshes for itself.
RetryAlone(c) ==
    /\ MayRetry(c)
    /\ made' = made + 1
    /\ refreshing' = [refreshing EXCEPT ![c.tab] = made']
    /\ calls' = Replaced(c, {Waiting(c, made'), Exchange(c.tab, made', "refresh")})
    /\ UNCHANGED <<tokens, session, lost>>

\* A 401 joins the refresh in flight, or starts one.
Retry(c) ==
    /\ MayRetry(c)
    /\ IF refreshing[c.tab] # 0
       THEN /\ calls' = Replaced(c, {Waiting(c, refreshing[c.tab])})
            /\ UNCHANGED <<refreshing, made>>
       ELSE /\ made' = made + 1
            /\ refreshing' = [refreshing EXCEPT ![c.tab] = made']
            /\ calls' = Replaced(c, {Waiting(c, made'), Exchange(c.tab, made', "refresh")})
    /\ UNCHANGED <<tokens, session, lost>>

Waiters(c) == {d \in calls : d.pc = "waiting" /\ d.awaits = c.id}

Resumed(d, p) == [d EXCEPT !.pc = "sent", !.awaits = 0, !.answer = "none", !.with = p]
Refused(d) == [d EXCEPT !.pc = "answered", !.awaits = 0, !.answer = "401", !.retried = TRUE]

\* Mutation of RefreshSettles: one request at most is sent again.
RefreshSettlesOne(c) ==
    /\ c.kind = "refresh" /\ Settles(c)
    /\ LET next == IF Waiters(c) = {} THEN {} ELSE {CHOOSE d \in Waiters(c) : TRUE}
       IN  calls' = (calls \ ({c} \cup next))
                      \cup (IF c.answer = "ok" THEN {Resumed(d, c.pair) : d \in next}
                            ELSE {Refused(d) : d \in next})
    /\ IF c.answer = "ok"
       THEN token' = [token EXCEPT ![c.tab] = c.pair] /\ cookie' = c.pair
       ELSE UNCHANGED <<token, cookie>>
    /\ refreshing' = [refreshing EXCEPT ![c.tab] = 0]
    /\ UNCHANGED <<tokens, user, made, lost>>

\* The browser stores the new cookie, the tab the new access token, and all that
\* waited are sent again; or they keep the 401 they had.
RefreshSettles(c) ==
    /\ c.kind = "refresh" /\ Settles(c)
    /\ calls' = (calls \ ({c} \cup Waiters(c)))
                  \cup (IF c.answer = "ok" THEN {Resumed(d, c.pair) : d \in Waiters(c)}
                        ELSE {Refused(d) : d \in Waiters(c)})
    /\ IF c.answer = "ok"
       THEN token' = [token EXCEPT ![c.tab] = c.pair] /\ cookie' = c.pair
       ELSE UNCHANGED <<token, cookie>>
    /\ refreshing' = [refreshing EXCEPT ![c.tab] = 0]
    /\ UNCHANGED <<tokens, user, made, lost>>

-----------------------------------------------------------------------------
(* AuthProvider *)

\* The effect of AuthProvider when a tab is opened: refresh, and then loadMe().
Mounting(t, id) ==
    {Exchange(t, id, "refresh"),
     [Exchange(t, id + 1, "mount") EXCEPT !.pc = "waiting", !.awaits = id]}

\* The end of that effect: whatever failed, the tab is signed out.
MountSettles(c) ==
    /\ c.kind = "mount" /\ Settles(c)
    /\ calls' = Replaced(c, {})
    /\ user' = [user EXCEPT ![c.tab] = IF c.answer = "ok" THEN "in" ELSE "out"]
    /\ token' = IF c.answer = "ok" THEN token ELSE [token EXCEPT ![c.tab] = 0]
    /\ UNCHANGED <<tokens, cookie, refreshing, made, lost>>

\* login() and, from the registration form, register() before it.
Submit(t, kind) ==
    /\ made' = made + 1
    /\ calls' = calls \cup {Exchange(t, made', kind)}
    /\ UNCHANGED <<tokens, session, refreshing, lost>>

RegisterSettles(c) ==
    /\ c.kind = "register" /\ Settles(c)
    /\ made' = made + 1
    /\ calls' = Replaced(c, IF c.answer = "ok" THEN {Exchange(c.tab, made', "login")} ELSE {})
    /\ UNCHANGED <<tokens, session, refreshing, lost>>

LoginSettles(c) ==
    /\ c.kind = "login" /\ Settles(c)
    /\ made' = made + 1
    /\ IF c.answer = "ok"
       THEN /\ token' = [token EXCEPT ![c.tab] = c.pair]
            /\ cookie' = c.pair
            /\ calls' = Replaced(c, {[Exchange(c.tab, made', "me") EXCEPT !.with = c.pair]})
       ELSE calls' = Replaced(c, {}) /\ UNCHANGED <<token, cookie>>
    /\ UNCHANGED <<tokens, user, refreshing, lost>>

\* loadMe() at the end of login().
MeSettles(c) ==
    /\ c.kind = "me" /\ Settles(c)
    /\ calls' = Replaced(c, {})
    /\ user' = IF c.answer = "ok" THEN [user EXCEPT ![c.tab] = "in"] ELSE user
    /\ UNCHANGED <<tokens, cookie, token, refreshing, made, lost>>

\* logout() forgets the tab's user whatever the server said.
LogoutSettles(c) ==
    /\ c.kind = "logout" /\ Settles(c)
    /\ calls' = Replaced(c, {})
    /\ cookie' = IF c.answer = "ok" THEN 0 ELSE cookie
    /\ token' = [token EXCEPT ![c.tab] = 0]
    /\ user' = [user EXCEPT ![c.tab] = "out"]
    /\ UNCHANGED <<tokens, refreshing, made, lost>>

ServeAuth(c) == ServeRefresh(c) \/ ServeLogin(c) \/ ServeLogout(c) \/ ServeMe(c)
=============================================================================
