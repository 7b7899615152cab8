-------------------------- MODULE OrganizationPages --------------------------
(***************************************************************************)
(* The pages of an organization's members.                                   *)
(***************************************************************************)
EXTENDS PageTables

OrgDashboard == OrgPage(<<{"analytics"}, {"applications"}, {"interviews"}>>)

JobsList == OrgPage(<<{"jobs"}>>)

Pipeline ==
    [OrgPage(<<{"job"}, {"stages"}, {"applications"}>>) EXCEPT
        !.absent = {"job", "stages", "applications"}]

OrgOffers == OrgPage(<<{"offers"}>>)

NewJob ==
    [OrgPage(<<>>) EXCEPT
        !.writes = {[Write("createJob", {"job"}) EXCEPT
                        !.lock = {<<"submitting", "all">>}, !.form = {"job"},
                        !.leaves = TRUE]}]

SaveJob ==
    [Write("saveJob", {"job"}) EXCEPT
        !.lock = {<<"savingJob", "all">>}, !.shows = {"job"}, !.form = {"job"}]

\* The list that was sent takes the place of the one in the form.  A template that is
\* applied does, too, as an edit of the form that is not saved yet.
SaveStages ==
    [Write("saveStages", {"stages"}) EXCEPT
        !.lock = {<<"savingStages", "all">>}, !.shows = {"stages"}, !.form = {"stages"},
        !.after = "replaced"]

\* publish() and close() have no lock.
Lifecycle == {[Write(op, {"job"}) EXCEPT !.shows = {"job"}] : op \in {"publish", "close"}}

\* The page appears with the job; the stages, which are a form, may come later.
EditJob ==
    [OrgPage(<<{"job"}, {"stages"}, {"templates"}>>) EXCEPT
        !.blank = {"job"},
        !.seeds = {<<"job", "job">>, <<"stages", "stages">>},
        !.writes = {SaveJob, SaveStages} \cup Lifecycle]

Acting == {<<"acting", "all">>}

ScreeningButtons ==
    {[Write(op, {"application", "history"}) EXCEPT
         !.lock = Acting, !.shows = {"application"}] : op \in {"pass", "screenOut"}}

\* decide(): a hire goes on to the offer page.
DecisionButtons ==
    {[Write(op, {"application"}) EXCEPT
         !.lock = Acting, !.shows = {"application"}, !.leaves = (op = "hire")]
     : op \in {"hire", "reject"}}

AddToTalentPool ==
    [Write("addToPool", {"poolMembers"}) EXCEPT
        !.row = {"pools"}, !.lock = {<<"adding", "all">>}]

JobApplication ==
    [OrgPage(<<{"application"}, {"stages"}, {"evaluations"}, {"history"}, {"pools"}>>) EXCEPT
        !.blank = {"application"},
        !.writes = ScreeningButtons \cup DecisionButtons \cup {AddToTalentPool}]

ScheduleInterview ==
    [OrgPage(<<{"members"}>>) EXCEPT
        !.writes = {[Write("schedule", {"interview"}) EXCEPT
                        !.lock = {<<"submitting", "all">>}, !.form = {"interview"},
                        !.leaves = TRUE]}]

\* The form's title is the stage's name; an offer that is made takes the form's place.
CreateOffer ==
    [OrgPage(<<{"application"}, {"offer"}>>) EXCEPT
        !.blank = {"application", "offer"}, !.absent = {"offer"},
        !.seeds = {<<"application", "offer">>},
        !.writes = {[Write("makeOffer", {"offer"}) EXCEPT
                        !.lock = {<<"submitting", "all">>}, !.shows = {"offer"},
                        !.form = {"offer"}]}]

Interviewer ==
    [OrgPage(<<{"interviews"}>>) EXCEPT
        !.blank = {"interviews"},
        !.writes = {[Write("evaluate", {"evaluation"}) EXCEPT
                        !.lock = {<<"submitting", "all">>}, !.form = {"evaluation"},
                        !.after = "emptied"]}]

PipelineTemplates ==
    [OrgPage(<<{"templates"}>>) EXCEPT
        !.writes = {[Write("createTemplate", {"templates"}) EXCEPT
                        !.lock = {<<"creating", "all">>}, !.form = {"template"},
                        !.after = "emptied", !.reloads = <<{"templates"}>>],
                    [Write("remove", {"templates"}) EXCEPT
                        !.row = {"templates"}, !.reloads = <<{"templates"}>>]}]

TalentPools ==
    [OrgPage(<<{"pools"}>>) EXCEPT
        !.writes = {[Write("createPool", {"pools"}) EXCEPT
                        !.lock = {<<"creating", "all">>}, !.form = {"pool"},
                        !.after = "emptied", !.reloads = <<{"pools"}>>]}]

TalentPoolDetail ==
    [OrgPage(<<{"pool"}>>) EXCEPT
        !.blank = {"pool"},
        !.writes = {[Write("removeCandidate", {"pool"}) EXCEPT !.reloads = <<{"pool"}>>]}]

BothPartnershipGets == <<{"partnerships"}, {"universities"}>>

Partnerships ==
    [OrgPage(BothPartnershipGets) EXCEPT
        !.writes = {[Write("addPartnership", {"partnerships"}) EXCEPT
                        !.lock = {<<"adding", "all">>}, !.form = {"university"},
                        !.after = "emptied", !.reloads = BothPartnershipGets],
                    [Write("remove", {"partnerships"}) EXCEPT
                        !.row = {"partnerships"}, !.reloads = BothPartnershipGets]}]

\* The name in the side bar is OrgProvider's, which loads it once.
GeneralSettings ==
    [OrgPage(<<>>) EXCEPT
        !.writes = {[Write("save", {"organization"}) EXCEPT
                        !.lock = {<<"saving", "all">>}, !.form = {"name"}]}]

Invite ==
    [Write("invite", {"invitations"}) EXCEPT
        !.lock = {<<"inviting", "all">>}, !.form = {"invitee"}, !.after = "emptied",
        !.reloads = <<{"invitations"}>>]

ConfirmAction ==
    {[Write("removeMember", {"members"}) EXCEPT
         !.row = {"members"}, !.lock = Acting, !.reloads = <<{"members"}>>],
     [Write("cancelInvitation", {"invitations"}) EXCEPT
         !.row = {"invitations"}, !.lock = Acting, !.reloads = <<{"invitations"}>>]}

TeamSettings ==
    [OrgPage(<<{"members"}, {"invitations"}>>) EXCEPT !.writes = ConfirmAction \cup {Invite}]

\* The lock is the plan chosen last: another plan's button is not disabled.
BillingSettings ==
    [OrgPage(<<{"plans"}, {"subscription"}>>) EXCEPT
        !.blank = {"plans"},
        !.writes = {[Write(plan, {"subscription"}) EXCEPT
                        !.lock = {<<"selecting", plan>>}, !.shows = {"subscription"}]
                    : plan \in {"onePlan", "otherPlan"}}]

\* OnboardingPanel as the organization has it.
ChecklistPanel ==
    [OrgPage(<<{"checklist"}>>) EXCEPT
        !.blank = {"checklist"}, !.absent = {"checklist"},
        !.writes = {[Write("createChecklist", {"checklist"}) EXCEPT
                        !.lock = {<<"creating", "all">>}, !.form = {"tasks"},
                        !.reloads = <<{"checklist"}>>],
                    [Write("addTask", {"checklist"}) EXCEPT
                        !.row = {"checklist"}, !.form = {"newTask"}, !.after = "emptied",
                        !.reloads = <<{"checklist"}>>],
                    [Write("completeTask", {"checklist"}) EXCEPT
                        !.row = {"checklist"}, !.reloads = <<{"checklist"}>>]}]
=============================================================================
