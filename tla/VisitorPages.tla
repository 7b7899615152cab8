----------------------------- MODULE VisitorPages -----------------------------
(***************************************************************************)
(* The pages of the platform's administrator and those that need no account. *)
(***************************************************************************)
EXTENDS PageTables

AdminOverview == SessionPage(<<{"analytics"}, {"pending"}>>)

Decisions ==
    {[Write("approve", {"orgs"}) EXCEPT
         !.lock = {<<"acting", "all">>}, !.reloads = <<{"orgs"}>>],
     [Write("reject", {"orgs"}) EXCEPT
         !.lock = {<<"acting", "all">>}, !.form = {"reason"}, !.after = "emptied",
         !.reloads = <<{"orgs"}>>]}

\* One tab for each status; what was loaded for the last one stays until the next is here.
AdminOrganizations ==
    [SessionPage(<<{"orgs"}>>) EXCEPT
        !.blank = {"orgs"}, !.keyed = TRUE, !.writes = Decisions]

AdminUniversities ==
    [SessionPage(<<{"universities"}>>) EXCEPT
        !.writes = {[Write("create", {"universities"}) EXCEPT
                        !.lock = {<<"creating", "all">>}, !.form = {"university"},
                        !.after = "emptied", !.reloads = <<{"universities"}>>]}]

AuditLog == [SessionPage(<<{"entries"}>>) EXCEPT !.keyed = TRUE]

\* A form that is sent once, and the message that takes its place.
OneForm(op, changes) ==
    [Page(<<>>) EXCEPT
        !.writes = {[Write(op, changes) EXCEPT
                        !.lock = {<<"submitting", "all">>}, !.form = {"account"},
                        !.leaves = TRUE]}]

RegisterOrganization == OneForm("registerOrganization", {"organization"})
AcceptInvitation == OneForm("accept", {"account"})
ResetPassword == OneForm("resetPassword", {"account"})
ForgotPassword == OneForm("forgotPassword", {"account"})

\* The token in the address is sent when the page is shown.
VerifyEmail == Page(<<{"verified"}>>)

\* LoginForm and the candidate's registration: login() and registerCandidate().
Login == Page(<<>>)
=============================================================================
