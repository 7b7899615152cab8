------------------------------- MODULE Frontend -------------------------------
(***************************************************************************)
(* The browser: each behaviour is about one page of the frontend, open in    *)
(* the tab of a signed-in user, or about tabs that sign in and out.          *)
(***************************************************************************)
EXTENDS Pages

CONSTANTS
    Home,     \* the page that stands for the three dashboards
    MaxSubmits,   \* the bound on logins, registrations and logouts
    MaxFaults,    \* the bound on answers lost and tokens expired, together
    Volatile      \* the bound on the pages while which a session begins, expires or ends

ASSUME FrontendAssumption ==
    Home \in PageNames /\ MaxSubmits \in Nat /\ MaxFaults \in Nat /\ Volatile \subseteq PageNames

VARIABLE submits

vars == <<clientVars, pageVars, overlapped, submits>>

Ordinal == CHOOSE f \in [Tab -> 1 .. Cardinality(Tab)] : \A t, u \in Tab : f[t] = f[u] => t = u
FirstTab == CHOOSE t \in Tab : Ordinal[t] = 1

\* The resources of a page, and what its handlers change besides.
Touched(p) == Resources(p) \cup UNION {w.changes : w \in Book[p].writes}

\* One page, for a user who has been signed in.
OnePage ==
    /\ \E p \in PageNames \ {"login"} :
          /\ view = [t \in Tab |-> IF t = FirstTab THEN Blank(p, 0)
                                   ELSE [Blank("login", 0) EXCEPT !.stage = "left"]]
          /\ version = [r \in Touched(p) \cup Touched(Home) |-> 1]
    /\ user = [t \in Tab |-> IF t = FirstTab THEN "in" ELSE "out"]
    /\ token = [t \in Tab |-> IF t = FirstTab THEN 1 ELSE 0]
    /\ cookie = 1
    /\ calls = {} /\ made = 0 /\ refreshing = [t \in Tab |-> 0]
    /\ clicks = 0 /\ typed = 0

\* The tabs are opened while the cookie holds a refresh token, or none; this is about
\* their sessions, and no button of a page is pressed.
AllTabs ==
    /\ \E signing \in {{}, {FirstTab}, Tab} :
          view = [t \in Tab |-> Blank(IF t \in signing THEN "login" ELSE Home, 0)]
    /\ version = [r \in Touched(Home) |-> 1]
    /\ user = [t \in Tab |-> "loading"] /\ token = [t \in Tab |-> 0]
    /\ cookie \in {0, 1}
    /\ refreshing = [t \in Tab |-> 2 * Ordinal[t] - 1]
    /\ calls = UNION {Mounting(t, refreshing[t]) : t \in Tab}
    /\ made = 2 * Cardinality(Tab)
    /\ clicks = MaxClicks /\ typed = MaxTyped

Init ==
    /\ OnePage \/ AllTabs
    /\ issued = 1 /\ alive = {1} /\ spent = {} /\ lapsed = {} /\ lost = 0
    /\ submits = 0 /\ overlapped = {}

-----------------------------------------------------------------------------
(* The login page, the registration page and the side bar *)

Busy(t, kinds) == \E c \in calls : c.tab = t /\ c.kind \in kinds

SubmitLogin(t, kind) ==
    /\ submits < MaxSubmits
    /\ view[t].page = "login" /\ view[t].stage = "open"
    /\ ~ Busy(t, {"login", "register", "me"})
    /\ submits' = submits + 1
    /\ Submit(t, kind)
    /\ UNCHANGED pageVars

\* The form goes on to the user's dashboard.
SignIn(c) ==
    /\ MeSettles(c)
    /\ view' = IF c.answer = "ok" THEN [view EXCEPT ![c.tab] = Blank(Home, made)] ELSE view
    /\ UNCHANGED <<version, clicks, typed>>

LogOut(t) ==
    /\ submits < MaxSubmits /\ view[t].page \in Volatile
    /\ Book[view[t].page].layout # "none" /\ user[t] = "in" /\ Mounted(t)
    /\ ~ Busy(t, {"logout"})
    /\ submits' = submits + 1
    /\ Submit(t, "logout")
    /\ UNCHANGED pageVars

LoggedOut(c) ==
    /\ LogoutSettles(c)
    /\ view' = [view EXCEPT ![c.tab] = Blank("login", made)]
    /\ UNCHANGED <<version, clicks, typed>>

-----------------------------------------------------------------------------
\* What a request will have put on the page when its handler is done.
Brings(c) ==
    CASE c.kind = "load" -> c.get
      [] c.kind = "write" -> UNION {w.shows \cup UNION ElementsOf(w.reloads) : w \in Ops(c)}
      [] OTHER -> {}

Overlaps(cs) ==
    UNION {{c.tab} \X UNION {Brings(c) \cap Brings(d) :
                              d \in {e \in cs : e.tab = c.tab /\ c.id < e.id}} : c \in cs}

UserStep(t) ==
    \/ /\ \/ \E f \in Forms(view[t].page) : Type(t, f)
          \/ \E w \in Book[view[t].page].writes : Click(t, w)
          \/ Choose(t)
       /\ UNCHANGED submits
    \/ \E kind \in {"login", "register"} : SubmitLogin(t, kind)
    \/ LogOut(t)

ServerStep(c) ==
    \/ ServeLoad(c) \/ ServeWrite(c)
    \/ ServeAuth(c) /\ UNCHANGED pageVars

ClientStep(c) ==
    \/ Retry(c) /\ UNCHANGED pageVars
    \/ RefreshSettles(c) /\ UNCHANGED pageVars
    \/ MountSettles(c) /\ UNCHANGED pageVars
    \/ RegisterSettles(c) /\ UNCHANGED pageVars
    \/ LoginSettles(c) /\ UNCHANGED pageVars
    \/ SignIn(c) \/ LoggedOut(c)
    \/ FrameSettles(c) \/ LoadSettles(c) \/ WriteSettles(c)

Progress ==
    \/ \E c \in calls : ServerStep(c) \/ ClientStep(c)
    \/ \E t \in Tab : Enter(t) \/ Redirect(t)

Advance ==
    /\ Progress
    /\ overlapped' = overlapped \cup Overlaps(calls')
    /\ UNCHANGED submits

Faults ==
    /\ lost + Cardinality(lapsed) < MaxFaults
    /\ \/ (\A t \in Tab : view[t].page \in Volatile) /\ Lapse
       \/ \E c \in calls : Lose(c)
    /\ UNCHANGED <<pageVars, submits, overlapped>>

Use ==
    /\ \E t \in Tab : UserStep(t)
    /\ overlapped' = overlapped \cup Overlaps(calls')

Next == Advance \/ Faults \/ Use

\* Requests are answered or fail, and what was answered is handled; nobody must click.
Spec == Init /\ [][Next]_vars /\ WF_vars(Advance)
-----------------------------------------------------------------------------
(* Properties *)

\* A refresh is refused for a reason the tab cannot help: there was no cookie, or its
\* token had been used by another tab or by a logout, or by a refresh whose answer was
\* lost.  However many requests of a tab are answered 401 at once, they do not spend the
\* single-use token twice (refreshPromise in lib/api.ts).
RefusedForCause ==
    \A c \in calls :
        c.kind = "refresh" /\ c.pc = "answered" /\ c.answer = "401" =>
            c.with = 0 \/ \E u \in spent : u[1] = c.with /\ u[2] # c.tab

\* The server does what a button asks at most once, although apiRequest() sends again
\* what was answered 401, and although answers may be lost.
CallsRunOnce == \A c \in calls : c.runs <= 1

\* In the end every request has been answered and handled, the ones that waited for a
\* refresh as well, and no button is left disabled.
Settled == <>[](calls = {} /\ \A t \in Tab : view[t].stage # "left" => view[t].locks = {})

Quiet(t) == view[t].stage = "open" /\ ~ \E c \in calls : c.tab = t

\* Pages whose handlers can overlap: those with a button that nothing disables, those
\* with a load behind a form that is shown already, and those with tabs or page numbers.
Overlapping ==
    {"profile", "notifications", "documents", "editJob", "templates", "pools", "pool",
     "partnerships", "team", "billing", "checklist", "universities", "organizations",
     "auditLog"}

\* What these handlers change is elsewhere on their page, and is not loaded again.
NotRefreshed == {<<"jobApplication", "history">>, <<"general", "organization">>}

\* Once its requests are settled a page shows all that its own handlers have changed, for
\* the tab and the page number chosen, unless a load failed; the buttons of a page whose
\* requests can overlap may leave an older answer on it, and only if they did overlap.
PagesShowTheirWrites ==
    \A t \in Tab : Quiet(t) =>
        \A r \in DOMAIN view[t].shown :
            \/ /\ view[t].shown[r].version >= view[t].wrote[r]
               /\ Book[view[t].page].keyed => view[t].shown[r].key = view[t].key
            \/ r \in view[t].missed
            \/ <<t, r>> \in overlapped /\ view[t].page \in Overlapping
            \/ <<view[t].page, r>> \in NotRefreshed

Writes(t) == {c \in calls : c.kind = "write" /\ c.tab = t /\ Here(c)}
LocksOf(c) == UNION {w.lock : w \in Ops(c)}

\* A button is disabled exactly while a handler that shares its lock awaits its answer,
\* whatever the answer is, and two such handlers never run at once.  Not so on the billing
\* page: its lock holds one plan, so that each button enables the other one again.
LocksFollowWrites ==
    \A t \in Tab : view[t].page # "billing" =>
        /\ view[t].stage = "open" => view[t].locks = UNION {LocksOf(c) : c \in Writes(t)}
        /\ \A c, d \in Writes(t) : c # d => LocksOf(c) \cap LocksOf(d) = {}

\* These forms are overwritten by a load that may come after the user has begun to type:
\* the About fields of the profile by every change of the CVs, the stages of a job by
\* their first load.  A skill's name is cleared before it is saved.
Overwritten == {<<"profile", "about">>, <<"editJob", "stages">>}
ClearedAtOnce == {<<"profile", "newSkill">>}

\* What was typed into a form and not saved stays there until the answer to the handler
\* that sends the form, except in the forms named above.
EditsAreKept ==
    [][\A t \in Tab :
         LET v == view[t]
         IN  view'[t].page = v.page =>
               \A f \in DOMAIN v.text :
                   \/ v.text[f] = 0 \/ view'[t].text[f] # 0
                   \/ <<v.page, f>> \in Overwritten \cup ClearedAtOnce
                   \/ \E c \in Writes(t) \ calls' :
                         c.answer = "ok" /\ \E w \in Ops(c) : f \in w.form
      ]_<<view, calls>>
=============================================================================
