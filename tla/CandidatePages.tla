---------------------------- MODULE CandidatePages ----------------------------
(***************************************************************************)
(* The pages of a signed-in candidate.                                       *)
(***************************************************************************)
EXTENDS PageTables

CandidateDashboard == SessionPage(<<{"applications"}, {"profile"}>>)

ApplicationsList == SessionPage(<<{"applications"}>>)

OffersList == SessionPage(<<{"applications"}>>)

MyProfile == {"about", "cvs", "experience", "education", "skills"}

AboutForm ==
    [Write("saveAbout", {"about"}) EXCEPT
        !.lock = {<<"savingAbout", "all">>}, !.shows = MyProfile, !.form = {"about"}]

HandleUpload ==
    [Write("handleUpload", {"cvs"}) EXCEPT
        !.lock = {<<"uploading", "all">>}, !.reloads = <<MyProfile>>]

CvButtons ==
    {[Write("setPrimary", {"cvs"}) EXCEPT !.reloads = <<MyProfile>>],
     [Write("deleteCv", {"cvs"}) EXCEPT !.reloads = <<MyProfile>>]}

ExperienceEditor ==
    [Write("updateExperience", {"experience"}) EXCEPT
        !.lock = {<<"savingExperience", "all">>}, !.shows = {"experience"},
        !.form = {"experience"}, !.after = "marked"]

EducationEditor ==
    [Write("updateEducation", {"education"}) EXCEPT
        !.lock = {<<"savingEducation", "all">>}, !.shows = {"education"},
        !.form = {"education"}, !.after = "marked"]

\* A skill is added to, or taken from, the list shown; the field is emptied at once.
SkillsEditor ==
    {[Write("addSkill", {"skills"}) EXCEPT
         !.shows = {"skills"}, !.form = {"newSkill"}, !.after = "given"],
     [Write("removeSkill", {"skills"}) EXCEPT !.shows = {"skills"}]}

\* Mutation of ProfilePage: the editors, too, take their rows from every load.
ProfilePageResynced ==
    [SessionPage(<<MyProfile>>) EXCEPT
        !.blank = MyProfile,
        !.seeds = {<<"about", "about">>, <<"experience", "experience">>,
                   <<"education", "education">>},
        !.writes = CvButtons \cup SkillsEditor
                     \cup {AboutForm, HandleUpload, ExperienceEditor, EducationEditor}]

\* The editors copy their rows once; the fields of About are set by every load.
ProfilePage ==
    [SessionPage(<<MyProfile>>) EXCEPT
        !.blank = MyProfile,
        !.seeds = {<<"about", "about">>},
        !.writes = CvButtons \cup SkillsEditor
                     \cup {AboutForm, HandleUpload, ExperienceEditor, EducationEditor}]

\* getPublicJob() is not among the calls of lib/api.ts.
ApplyForm ==
    [SessionPage(<<{"job"}, {"profile"}>>) EXCEPT
        !.open = {"job"}, !.blank = {"job", "profile"},
        !.writes = {[Write("apply", {"application"}) EXCEPT
                        !.lock = {<<"submitting", "all">>}, !.form = {"coverNote"},
                        !.leaves = TRUE]}]

ApplicationDetail ==
    [SessionPage(<<{"application"}>>) EXCEPT
        !.blank = {"application"},
        !.writes = {[Write("handleWithdraw", {"application"}) EXCEPT
                        !.lock = {<<"withdrawing", "all">>}, !.shows = {"application"}]}]

OfferReview ==
    [SessionPage(<<{"offer"}>>) EXCEPT
        !.blank = {"offer"},
        !.writes = {[Write(op, {"offer"}) EXCEPT
                        !.lock = {<<"submitting", "all">>}, !.shows = {"offer"}]
                    : op \in {"accept", "decline"}}]

NotificationsList ==
    [SessionPage(<<{"notifications"}>>) EXCEPT
        !.blank = {"notifications"},
        !.writes = {[Write("markRead", {"notifications"}) EXCEPT
                        !.reloads = <<{"notifications"}>>]}]

\* OnboardingPanel as the candidate has it, under an accepted offer.
DocumentsPanel ==
    [SessionPage(<<{"checklist"}>>) EXCEPT
        !.blank = {"checklist"}, !.absent = {"checklist"},
        !.writes = {[Write("uploadDocument", {"checklist"}) EXCEPT
                        !.row = {"checklist"}, !.reloads = <<{"checklist"}>>]}]
=============================================================================
