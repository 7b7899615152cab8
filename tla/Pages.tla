-------------------------------- MODULE Pages --------------------------------
(***************************************************************************)
(* How a page of the frontend lives in a tab: it is mounted, its GETs are    *)
(* answered in any order, its handlers await one request each, and what they *)
(* do next they do to the page as it is by then.                             *)
(***************************************************************************)
EXTENDS ApiClient, Sequences, CandidatePages, OrganizationPages, VisitorPages

CONSTANTS
    MaxClicks,  \* the bound on the buttons pressed and the tabs chosen
    MaxTyped    \* the bound on edits typed into forms

ASSUME PagesAssumption == MaxClicks \in Nat /\ MaxTyped \in Nat

VARIABLES
    view,        \* what each tab shows
    version,     \* of each resource on the server: how often it was changed
    clicks, typed,
    overlapped   \* <<tab, resource>>: two requests that bring it were in flight at once

pageVars == <<view, version, clicks, typed>>

Book ==
    [dashboard |-> CandidateDashboard, applications |-> ApplicationsList,
     candidateOffers |-> OffersList, profile |-> ProfilePage, apply |-> ApplyForm,
     application |-> ApplicationDetail, offer |-> OfferReview,
     notifications |-> NotificationsList, documents |-> DocumentsPanel,
     orgDashboard |-> OrgDashboard, jobs |-> JobsList, pipeline |-> Pipeline,
     orgOffers |-> OrgOffers, newJob |-> NewJob, editJob |-> EditJob,
     jobApplication |-> JobApplication, schedule |-> ScheduleInterview,
     createOffer |-> CreateOffer, interviewer |-> Interviewer,
     templates |-> PipelineTemplates, pools |-> TalentPools, pool |-> TalentPoolDetail,
     partnerships |-> Partnerships, general |-> GeneralSettings, team |-> TeamSettings,
     billing |-> BillingSettings, checklist |-> ChecklistPanel,
     admin |-> AdminOverview, organizations |-> AdminOrganizations,
     universities |-> AdminUniversities, auditLog |-> AuditLog,
     registerOrganization |-> RegisterOrganization, accept |-> AcceptInvitation,
     reset |-> ResetPassword, forgot |-> ForgotPassword, verify |-> VerifyEmail,
     login |-> Login]

PageNames == DOMAIN Book

ElementsOf(seq) == {seq[i] : i \in DOMAIN seq}
FrameGets(p) == IF Book[p].layout = "org" THEN <<{"organization"}>> ELSE <<>>
Resources(p) == UNION (ElementsOf(Book[p].gets) \cup ElementsOf(FrameGets(p)))
Forms(p) == UNION {w.form : w \in Book[p].writes}

\* The state of a page's component before its first effect; visit tells one mount of a
\* page in a tab from the next.
Blank(p, visit) ==
    [page   |-> p, visit |-> visit, stage |-> "closed", key |-> 1,
     shown  |-> [r \in Resources(p) |-> [version |-> 0, key |-> 0]],
     locks  |-> {},
     text   |-> [f \in Forms(p) |-> 0],      \* the edit not yet saved, or 0
     wrote  |-> [r \in Resources(p) |-> 0],  \* the version its own write made
     missed |-> {}]                          \* resources whose GET failed

Loads(t, p, visit, gets, k) ==
    {[Exchange(t, made + i, "load") EXCEPT
         !.page = p, !.visit = visit, !.get = gets[i], !.key = k] : i \in DOMAIN gets}

Ops(c) == {w \in Book[c.page].writes : w.op = c.op}

-----------------------------------------------------------------------------
(* The server. *)

\* JwtAuthGuard lets requests to @Public handlers through.
Admitted(c) ==
    \/ Book[c.page].layout = "none"
    \/ c.kind = "load" /\ c.get \subseteq Book[c.page].open
    \/ Authentic(c)

ServeLoad(c) ==
    /\ c.kind = "load" /\ c.pc = "sent"
    /\ calls' = Replaced(c, {IF Admitted(c)
                             THEN [Answered(c, "ok", 0) EXCEPT
                                     !.data = [r \in c.get |-> version[r]]]
                             ELSE Answered(c, "401", 0)})
    /\ UNCHANGED <<tokens, session, refreshing, made, lost, pageVars>>

ServeWrite(c) ==
    /\ c.kind = "write" /\ c.pc = "sent"
    /\ \/ /\ Admitted(c)
          /\ \E w \in Ops(c) :
                /\ version' = [r \in DOMAIN version |->
                                 version[r] + IF r \in w.changes THEN 1 ELSE 0]
                /\ calls' = Replaced(c, {[Answered(c, "ok", 0) EXCEPT
                                            !.runs = @ + 1,
                                            !.data = [r \in DOMAIN version |-> version'[r]]]})
       \/ /\ Admitted(c)
          /\ calls' = Replaced(c, {Answered(c, "refused", 0)})
          /\ UNCHANGED version
       \/ /\ ~ Admitted(c)
          /\ calls' = Replaced(c, {Answered(c, "401", 0)})
          /\ UNCHANGED version
    /\ UNCHANGED <<tokens, session, refreshing, made, lost, view, clicks, typed>>

-----------------------------------------------------------------------------
(* Mounting: the layouts, useRequireAuth() and OrgProvider *)

Mounted(t) == ~ \E c \in calls : c.tab = t /\ c.kind = "mount"   \* AuthProvider's loading is false

\* The layout shows its children to a signed-in user, and OrgProvider loads first.
Enter(t) ==
    /\ view[t].stage = "closed"
    /\ Book[view[t].page].layout # "none" => Mounted(t) /\ user[t] = "in"
    /\ LET p == view[t].page
           framed == Book[p].layout = "org"
           gets == IF framed THEN FrameGets(p) ELSE Book[p].gets
       IN  /\ calls' = calls \cup Loads(t, p, view[t].visit, gets, 1)
           /\ made' = made + Len(gets)
           /\ view' = [view EXCEPT ![t].stage = IF framed THEN "framed" ELSE "open"]
    /\ UNCHANGED <<tokens, session, refreshing, lost, version, clicks, typed>>

\* useRequireAuth() sends a visitor to the login page.
Redirect(t) ==
    /\ Book[view[t].page].layout # "none"
    /\ Mounted(t) /\ user[t] = "out"
    /\ view' = [view EXCEPT ![t] = Blank("login", made)]
    /\ UNCHANGED <<clientVars, version, clicks, typed>>

\* The page that sent the request is still there, and has not been mounted anew.
Here(c) == view[c.tab].visit = c.visit /\ view[c.tab].stage # "left"

\* OrgGate: the page is mounted once the organization was asked for, unless that is
\* not (yet) active.
FrameSettles(c) ==
    /\ c.kind = "load" /\ Settles(c) /\ Here(c) /\ view[c.tab].stage = "framed"
    /\ LET gets == Book[c.page].gets
           met == [view EXCEPT ![c.tab].shown =
                      IF c.answer = "ok"
                      THEN [@ EXCEPT !["organization"] =
                              [version |-> c.data["organization"], key |-> 1]]
                      ELSE @,
                    ![c.tab].missed = IF c.answer = "ok" THEN @ ELSE c.get]
       IN  \/ /\ calls' = Replaced(c, Loads(c.tab, c.page, c.visit, gets, 1))
              /\ made' = made + Len(gets)
              /\ view' = [met EXCEPT ![c.tab].stage = "open"]
           \/ /\ c.answer = "ok"
              /\ calls' = Replaced(c, {})
              /\ view' = [met EXCEPT ![c.tab].stage = "gated"]
              /\ UNCHANGED made
    /\ UNCHANGED <<tokens, session, refreshing, lost, version, clicks, typed>>

-----------------------------------------------------------------------------
(* The page's own code *)

\* The setters that a load calls for the fields of forms.
Seeded(v, c) ==
    [f \in DOMAIN v.text |->
        IF \E r \in c.get : <<r, f>> \in Book[c.page].seeds THEN 0 ELSE v.text[f]]

\* load(): what the answer brings is shown, whatever has been asked for since.
LoadSettles(c) ==
    /\ c.kind = "load" /\ Settles(c) /\ (Here(c) => view[c.tab].stage # "framed")
    /\ calls' = Replaced(c, {})
    /\ view' =
         IF ~ Here(c) THEN view
         ELSE IF c.answer = "ok"
         THEN [view EXCEPT ![c.tab].shown = [r \in DOMAIN @ |->
                              IF r \in c.get THEN [version |-> c.data[r], key |-> c.key]
                              ELSE @[r]],
                           ![c.tab].text = Seeded(view[c.tab], c)]
         ELSE [view EXCEPT ![c.tab].missed = @ \cup c.get]
    /\ UNCHANGED <<tokens, session, refreshing, made, lost, version, clicks, typed>>

Has(v, r) == v.shown[r].version # 0

\* The page is past its Loading...
Usable(v) ==
    /\ v.stage = "open"
    /\ \A r \in Book[v.page].blank : Has(v, r) \/ r \in Book[v.page].absent \cap v.missed

Type(t, f) ==
    /\ typed < MaxTyped /\ Usable(view[t])
    /\ f \in DOMAIN view[t].text
    /\ typed' = typed + 1
    /\ view' = [view EXCEPT ![t].text[f] = typed']
    /\ UNCHANGED <<clientVars, version, clicks>>

\* A lock's state holds one value: the button pressed last.
Locked(v, w) ==
    {l \in v.locks : \A m \in w.lock : l[1] # m[1]} \cup w.lock
Unlocked(v, w) ==
    {l \in v.locks : \A m \in w.lock : l[1] # m[1]}

TextOf(v, w) == IF w.form = {} THEN 0 ELSE v.text[CHOOSE f \in w.form : TRUE]

Click(t, w) ==
    /\ clicks < MaxClicks /\ Usable(view[t])
    /\ w.lock \cap view[t].locks = {}
    /\ \A r \in w.row : Has(view[t], r)
    /\ w.form # {} /\ w.after \notin {"kept", "replaced"} => TextOf(view[t], w) # 0
    /\ clicks' = clicks + 1
    /\ made' = made + 1
    /\ calls' = calls \cup {[Exchange(t, made', "write") EXCEPT
                               !.page = view[t].page, !.visit = view[t].visit, !.op = w.op,
                               !.key = view[t].key, !.text = TextOf(view[t], w)]}
    /\ view' = [view EXCEPT ![t].locks = Locked(view[t], w),
                            ![t].text = [f \in DOMAIN @ |->
                                IF f \in w.form /\ w.after = "given" THEN 0 ELSE @[f]]]
    /\ UNCHANGED <<tokens, session, refreshing, lost, version, typed>>

\* A tab of the page, or a page number, is chosen: the effect on it loads again.
Choose(t) ==
    /\ clicks < MaxClicks /\ Usable(view[t]) /\ Book[view[t].page].keyed
    /\ clicks' = clicks + 1
    /\ LET k == 3 - view[t].key
           gets == Book[view[t].page].gets
       IN  /\ view' = [view EXCEPT ![t].key = k]
           /\ calls' = calls \cup Loads(t, view[t].page, view[t].visit, gets, k)
           /\ made' = made + Len(gets)
    /\ UNCHANGED <<tokens, session, refreshing, lost, version, typed>>

\* What a handler leaves in the form it has sent.
TextAfter(v, w, c) ==
    [f \in DOMAIN v.text |->
        IF f \in w.form /\ (w.after \in {"emptied", "marked", "replaced"} \/ v.text[f] = c.text)
        THEN 0 ELSE v.text[f]]

\* The page after a handler that was answered, and its finally block.
Done(v, w, c) ==
    [v EXCEPT !.locks = Unlocked(v, w),
              !.shown = [r \in DOMAIN @ |->
                 IF r \in w.shows THEN [version |-> c.data[r], key |-> c.key] ELSE @[r]],
              !.wrote = [r \in DOMAIN @ |-> IF r \in w.changes THEN c.data[r] ELSE @[r]],
              !.text = TextAfter(v, w, c)]

\* Mutation of Failed: there is no finally block.
FailedLocked(v, w) == v

\* The page after a handler that threw: its finally block.
Failed(v, w) == [v EXCEPT !.locks = Unlocked(v, w)]

\* Mutation of Reloads: load() is not called.
ReloadsNever(w, c) == {}

\* load() after the await has the tab and the page number of the click.
Reloads(w, c) == Loads(c.tab, c.page, c.visit, w.reloads, c.key)

WriteSettles(c) ==
    /\ c.kind = "write" /\ Settles(c)
    /\ \E w \in Ops(c) :
          /\ IF c.answer = "ok"
             THEN calls' = Replaced(c, Reloads(w, c)) /\ made' = made + Len(w.reloads)
             ELSE calls' = Replaced(c, {}) /\ UNCHANGED made
          /\ view' = CASE ~ Here(c) -> view
                       [] Here(c) /\ c.answer = "ok" ->
                            [view EXCEPT ![c.tab] =
                                [Done(view[c.tab], w, c) EXCEPT
                                    !.stage = IF w.leaves THEN "left" ELSE @]]
                       [] OTHER -> [view EXCEPT ![c.tab] = Failed(@, w)]
    /\ UNCHANGED <<tokens, session, refreshing, lost, version, clicks, typed>>
=============================================================================
