----------------------------- MODULE Workspace -----------------------------
(***************************************************************************)
(* What candidates and organizations keep beside the recruitment itself, on  *)
(* one database: CVs and the applications made with them, profile lists and  *)
(* pipeline templates, talent pools and partnerships, the plan.              *)
(***************************************************************************)
EXTENDS CandidatesService, ListsService, SubscriptionsService, SourcingServices

vars == <<cvTables, listTables, subscriptionTables, sourcingTables, req>>

Init ==
    /\ CvTablesInit
    /\ ListTablesInit
    /\ SubscriptionTablesInit
    /\ SourcingTablesInit
    /\ RequestsInit

ContinueCvs(r) ==
    ContinueCv(r) /\ UNCHANGED <<listTables, subscriptionTables, sourcingTables>>

CvsBegin(r) ==
    /\ \/ CandidatesController(r)
       \/ \E c \in Candidate, asked \in Cv \cup {None} : ResolveCv(r, c, asked)
       \/ \E cv \in Cv : PreviewRead(r, cv)
    /\ UNCHANGED <<listTables, subscriptionTables, sourcingTables>>

ListStep(r) ==
    /\ BeginList(r) \/ ContinueList(r)
    /\ UNCHANGED <<cvTables, subscriptionTables, sourcingTables>>

SubscriptionStep(r) ==
    /\ (\E p \in Plan : SelectPlan(r, p)) \/ ContinueSubscription(r)
    /\ UNCHANGED <<cvTables, listTables, sourcingTables>>

\* The candidates of the organization's applications.
Applicants == {cvs[cv].candidate : cv \in attached}

SourcingStep(r) ==
    /\ \/ TalentPoolsController(r)
       \/ HasApplied(r, Applicants)
       \/ UniversitiesController(r)
       \/ ContinueSourcing(r)
    /\ UNCHANGED <<cvTables, listTables, subscriptionTables>>

Fail(r) ==
    Fails(r) /\ UNCHANGED <<cvTables, listTables, subscriptionTables, sourcingTables>>

Clock ==
    LinkExpires /\ UNCHANGED <<listTables, subscriptionTables, sourcingTables>>

\* No request is left to come.
Quiescent == AllDone /\ UNCHANGED vars

Next ==
    \/ \E r \in Request :
         \/ CvsBegin(r) \/ ContinueCvs(r)
         \/ ListStep(r)
         \/ SubscriptionStep(r)
         \/ SourcingStep(r)
         \/ Fail(r)
    \/ Clock
    \/ Quiescent

\* Node resumes every await: a request that has begun is carried on.
Spec == Init /\ [][Next]_vars /\ \A r \in Request : WF_vars(ContinueCvs(r))

-----------------------------------------------------------------------------
\* The CV an application was made with stays on record with its file, which is no
\* other CV's, whatever the candidate deletes in between: the foreign key decides
\* between the insert and the delete.  A recruiter's preview of it never ends in a
\* 404: its row is there between the two reads, and the link opens until it expires.
AttachedCvsRemain ==
    /\ attached \subseteq Cvs
    /\ \A cv, d \in Cv : cvs[cv] # None /\ cvs[d] # None /\ cv # d =>
         cvs[cv].file # cvs[d].file
    /\ \A r \in Request : At(r, "findCv") => req[r].cv \in Cvs
    /\ previews \subseteq files

Storage ==
    INSTANCE FileStore WITH rows <- {cvs[cv].file : cv \in Cvs},
                            lost <- Cardinality(CutOff)

\* CVs and their files keep the promise of a file store: stored before the row is
\* inserted, removed after it is deleted, and left without one only by a request
\* that was cut off between the two.
ImplementsFileStore == Storage!Spec

PrimariesOf(c) == {cv \in CvsOf(c) : cvs[cv].isPrimary}
Firsts(c) == {r \in Request : At(r, "insertCv") /\ req[r].candidate = c /\ req[r].isPrimary}

\* requirements.md: "One CV can be marked primary".  Two primary CVs of one
\* candidate are due to uploads that counted no CV and had not inserted theirs:
\* choosing a CV leaves it the only one, and an upload beside others is none.
PrimaryIsChosen ==
    [][\A c \in Candidate :
          \/ Cardinality(PrimariesOf(c)') <= 1
          \/ PrimariesOf(c)' \subseteq PrimariesOf(c)
          \/ \E r \in Firsts(c) : req'[r] = Done]_cvs

-----------------------------------------------------------------------------
Authors(l) == {row.by : row \in lists[l]}

\* replace-skills.dto.ts: a list is replaced "wholesale (delete + recreate)".  Two
\* replacements that overlap leave both their rows, but no row survives a
\* replacement that began after it was committed: those that left rows in a list
\* all overlapped, so there are never more of them than were in flight at once.
\* What each left is what it inserted, none of it lost, in flight or cut off; and a
\* template that was deleted has no stages.
OverlapsAloneConcatenate ==
    \A l \in List :
        /\ Cardinality(Authors(l)) <= MaxInFlight
        /\ \A row \in lists[l] : RowsOf(row.by, row.of) \subseteq lists[l]
        /\ ~ Kept(l) => lists[l] = {}

Owed(s) == At(s.by, "pay") /\ s = Selected(s.by)

\* requirements.md, REQ-SUB-001: a paid plan is selected and paid for.  The plan in
\* force, whichever of overlapping selections wrote it last, has been paid for by the
\* selection that put it in force, or is about to be; an earlier payment for the same
\* plan does not count.  Excepted is the selection that was itself cut off between
\* its two statements, and no other.
PlanInForceIsPaid ==
    \A s \in subscription :
        s.plan \in PaidPlan => s \in payments \/ Owed(s) \/ s.by \in CutOff

\* Talent pools hold applicants of the organization and nobody else, and partners
\* are universities of the catalog.
PoolsHoldApplicants ==
    /\ \A m \in pooled : m[1] \in pools /\ m[2] \in Applicants
    /\ partners \subseteq universities
=============================================================================
