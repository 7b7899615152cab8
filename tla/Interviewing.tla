---------------------------- MODULE Interviewing ----------------------------
(***************************************************************************)
(* Interviews are scheduled, moved and evaluated while the application they *)
(* are for is screened, decided or withdrawn: InterviewsService and         *)
(* ApplicationsService on one database.                                     *)
(***************************************************************************)
EXTENDS ApplicationsService, InterviewsService

vars == <<tables, interviewTables, req>>

Init == TablesInit /\ InterviewTablesInit /\ RequestsInit

ApplicationStep(r) ==
    /\ BeginApplication(r) \/ ContinueApplication(r)
    /\ UNCHANGED interviewTables

Fail(r) == Fails(r) /\ UNCHANGED <<tables, interviewTables>>

\* No request is left to come.
Quiescent == AllDone /\ UNCHANGED vars

Next ==
    \/ \E r \in Request :
         ApplicationStep(r) \/ BeginInterview(r) \/ ContinueInterview(r) \/ Fail(r)
    \/ RoleInserted
    \/ RolesDeleted
    \/ Quiescent

\* Node resumes every await: a request that has begun is carried on.
Spec == Init /\ [][Next]_vars /\ \A r \in Request : WF_vars(ContinueInterview(r))

-----------------------------------------------------------------------------
\* However slots are moved, a slot is RESCHEDULED exactly when it links to
\* another, the link leads to a slot that was moved from it, and the slot it was
\* moved to keeps the application and the panel.  Those on a panel are or have been
\* members: requireOrgMembers() found each of them to be one, but a member who is
\* removed, then or later, stays on the panel, in slots it is moved to as well.
ReschedulesAreLinked ==
    \A i \in Interviews :
        LET slot == interviews[i]
            next == slot.rescheduledTo
        IN  /\ slot.panel # {} /\ slot.panel \subseteq joined
            /\ slot.status = "RESCHEDULED" <=> next # None
            /\ next # None =>
                 /\ next \in Interviews
                 /\ interviews[next].from = i
                 /\ interviews[next].app = slot.app
                 /\ interviews[next].panel = slot.panel

\* Nobody but a panel member is told of an interview or evaluates it, and each
\* of them once at most: the inserts of notify() follow the commit one by one,
\* and two concurrent submissions are told apart by the unique index alone.
PanelActsOnce ==
    \A i \in Interview, u \in Interviewer :
        notified[i][u] + evaluations[i][u] > 0 =>
            /\ i \in Interviews /\ u \in interviews[i].panel
            /\ notified[i][u] <= 1 /\ evaluations[i][u] <= 1

Untold == {i \in Interviews :
              /\ interviews[i].from = None
              /\ \E u \in interviews[i].panel : notified[i][u] = 0}

\* The whole panel of every scheduled interview is told in the end, but for one
\* interview for each request that was cut off.
PanelIsNotified == <>[](Cardinality(Untold) <= Cardinality(CutOff))
=============================================================================
