-------------------------- MODULE InterviewsService --------------------------
(***************************************************************************)
(* InterviewsService: a recruiter schedules an interview with a panel and    *)
(* moves it to another slot, panel members evaluate.  A panel is the set of *)
(* its interviewers: (interviewId, interviewerId) is unique.                *)
(***************************************************************************)
EXTENDS Schema, Requests

CONSTANTS
    Interview,    \* ids of Interview rows
    Interviewer,  \* User ids that a request may name
    SeedMembers   \* those with a role in the organization at the start

ASSUME MemberAssumption == SeedMembers \subseteq Interviewer

VARIABLES
    interviews,   \* Interview with its InterviewPanelMember rows
    evaluations,  \* how many Evaluation rows a panel member has
    notified,     \* 'interview.scheduled' Notification rows of an interview
    members,      \* users with a UserOrganizationRole row in the organization
    joined        \* those who ever had one, which the code does not record

membership == <<members, joined>>
interviewTables == <<interviews, evaluations, notified, membership>>

\* from is the slot a slot was moved from, which the code does not record.
InterviewRow ==
    [app: Application, panel: SUBSET Interviewer,
     status: {"SCHEDULED", "RESCHEDULED"},
     rescheduledTo: Interview \cup {None}, from: Interview \cup {None}]

ASSUME InterviewAssumption == None \notin Interview \cup InterviewRow

InterviewTablesInit ==
    /\ interviews = [i \in Interview |-> None]
    /\ evaluations = [i \in Interview |-> [u \in Interviewer |-> 0]]
    /\ notified = [i \in Interview |-> [u \in Interviewer |-> 0]]
    /\ members = SeedMembers
    /\ joined = SeedMembers

Interviews == {i \in Interview : interviews[i] # None}

\* The bound on interviews: an id is left for each request on its way to one.
RoomForInterview ==
    Cardinality({r \in Request : req[r].pc \in {"members", "interview", "reschedule"}})
        < Cardinality(Interview \ Interviews)

-----------------------------------------------------------------------------
(* OrganizationsService writes the roles, in transactions of its own that may *)
(* commit between any two statements of the handlers below.                   *)

\* acceptInvitation() inserts a role, of somebody removed before or not.
RoleInserted ==
    /\ \E u \in Interviewer \ members :
         members' = members \cup {u} /\ joined' = joined \cup {u}
    /\ UNCHANGED <<tables, interviews, evaluations, notified, req>>

\* removeMember() deletes the roles of a member, and looks at no panel.
RolesDeleted ==
    /\ \E u \in members : members' = members \ {u}
    /\ UNCHANGED <<tables, interviews, evaluations, notified, joined, req>>

-----------------------------------------------------------------------------
(* schedule(): application, members, insert with the panel, notifications. *)

ScheduleRead(r, a, panel) ==
    /\ Arrives(r)
    /\ RoomForInterview
    /\ a \in Applications
    /\ Goto(r, IF applications[a].status = "ACTIVE"
               THEN [pc |-> "members", app |-> a, panel |-> panel] ELSE Done)
    /\ UNCHANGED <<tables, interviewTables>>

\* Nobody looks at the roles again, neither at the insert nor in reschedule().
RequireOrgMembers(r) ==
    /\ At(r, "members")
    /\ Goto(r, IF req[r].panel \subseteq members
               THEN [req[r] EXCEPT !.pc = "interview"] ELSE Done)
    /\ UNCHANGED <<tables, interviewTables>>

NewInterview(a, panel, from) ==
    [app |-> a, panel |-> panel, status |-> "SCHEDULED",
     rescheduledTo |-> None, from |-> from]

ScheduleInsert(r) ==
    /\ At(r, "interview")
    /\ \E i \in Interview \ Interviews :
         /\ interviews' = [interviews EXCEPT ![i] =
                NewInterview(req[r].app, req[r].panel, None)]
         /\ Goto(r, [pc |-> "notifyPanel", interview |-> i, rest |-> req[r].panel])
    /\ UNCHANGED <<tables, evaluations, notified, membership>>

\* Mutation of NotifyInterviewer: the handler ends with the first insert.
NotifyInterviewerFirst(r) ==
    /\ At(r, "notifyPanel")
    /\ \E u \in req[r].rest :
         notified' = [notified EXCEPT ![req[r].interview][u] = @ + 1]
    /\ Finish(r)
    /\ UNCHANGED <<tables, interviews, evaluations, membership>>

\* Promise.all: one insert per panel member, in any order.
NotifyInterviewer(r) ==
    /\ At(r, "notifyPanel")
    /\ \E u \in req[r].rest :
         /\ notified' = [notified EXCEPT ![req[r].interview][u] = @ + 1]
         /\ Goto(r, IF req[r].rest = {u} THEN Done
                    ELSE [req[r] EXCEPT !.rest = @ \ {u}])
    /\ UNCHANGED <<tables, interviews, evaluations, membership>>

-----------------------------------------------------------------------------
(* reschedule(): the slot is read and checked, then a $transaction inserts  *)
(* the new one and updates the old one by id.  Nobody is notified.          *)

\* Mutation of RescheduleRead: the panel is not copied.
RescheduleReadPanelless(r, i) ==
    /\ Arrives(r)
    /\ RoomForInterview
    /\ i \in Interviews /\ interviews[i].status = "SCHEDULED"
    /\ Goto(r, [pc |-> "reschedule", interview |-> i, panel |-> {}])
    /\ UNCHANGED <<tables, interviewTables>>

RescheduleRead(r, i) ==
    /\ Arrives(r)
    /\ RoomForInterview
    /\ i \in Interviews
    /\ Goto(r, IF interviews[i].status = "SCHEDULED"
               THEN [pc |-> "reschedule", interview |-> i, panel |-> interviews[i].panel]
               ELSE Done)
    /\ UNCHANGED <<tables, interviewTables>>

RescheduleWrite(r) ==
    LET old == req[r].interview
    IN  /\ At(r, "reschedule")
        /\ \E new \in Interview \ Interviews :
             interviews' = [interviews EXCEPT
                 ![new] = NewInterview(interviews[old].app, req[r].panel, old),
                 ![old].status = "RESCHEDULED",
                 ![old].rescheduledTo = new]
        /\ Finish(r)
        /\ UNCHANGED <<tables, evaluations, notified, membership>>

-----------------------------------------------------------------------------
(* submitEvaluation(): panelMemberId is unique, the second insert is P2002. *)

EvaluateRead(r, i, u) ==
    /\ Arrives(r)
    /\ i \in Interviews
    /\ Goto(r, IF u \in interviews[i].panel
               THEN [pc |-> "evaluate", interview |-> i, interviewer |-> u] ELSE Done)
    /\ UNCHANGED <<tables, interviewTables>>

\* Mutation of EvaluateInsert: panelMemberId is not unique.
EvaluateInsertTwice(r) ==
    /\ At(r, "evaluate")
    /\ evaluations' = [evaluations EXCEPT ![req[r].interview][req[r].interviewer] = @ + 1]
    /\ Finish(r)
    /\ UNCHANGED <<tables, interviews, notified, membership>>

EvaluateInsert(r) ==
    LET i == req[r].interview
        u == req[r].interviewer
    IN  /\ At(r, "evaluate")
        /\ IF evaluations[i][u] = 0
           THEN evaluations' = [evaluations EXCEPT ![i][u] = @ + 1]
           ELSE UNCHANGED evaluations
        /\ Finish(r)
        /\ UNCHANGED <<tables, interviews, notified, membership>>

-----------------------------------------------------------------------------
JobApplicationInterviewsController(r) ==
    \/ \E a \in Application, panel \in (SUBSET Interviewer) \ {{}} :
         ScheduleRead(r, a, panel)
    \/ \E i \in Interview : RescheduleRead(r, i)

InterviewsController(r) ==
    \E i \in Interview, u \in Interviewer : EvaluateRead(r, i, u)

BeginInterview(r) == JobApplicationInterviewsController(r) \/ InterviewsController(r)

ContinueInterview(r) ==
    \/ RequireOrgMembers(r)
    \/ ScheduleInsert(r)
    \/ NotifyInterviewer(r)
    \/ RescheduleWrite(r)
    \/ EvaluateInsert(r)
=============================================================================
