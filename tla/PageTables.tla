------------------------------ MODULE PageTables ------------------------------
(***************************************************************************)
(* How the tables of CandidatePages, OrganizationPages and VisitorPages      *)
(* describe a page of the frontend.                                          *)
(***************************************************************************)

\* What a page loads when it is shown: one set of resources for each GET.
Page(gets) ==
    [layout |-> "none",   \* "none", "session" (useRequireAuth) or "org" (and OrgProvider)
     gets   |-> gets,
     open   |-> {},       \* resources that the server gives to anyone
     blank  |-> {},       \* until these are here the page shows Loading...
     absent |-> {},       \* ... or, of these, until their GET has failed
     keyed  |-> FALSE,    \* the GETs are sent again when a tab or a page number is chosen
     seeds  |-> {},       \* <<resource, form>>: the answer overwrites the form's fields
     writes |-> {}]

\* A handler that awaits one request, and the resources that request changes.
Write(op, changes) ==
    [op      |-> op,
     changes |-> changes,
     row     |-> {},      \* the resource the button is shown with
     lock    |-> {},      \* the state that disables the button until the handler ends
     shows   |-> {},      \* resources the answer is put in place of
     reloads |-> <<>>,    \* GETs sent when the request has been answered
     form    |-> {},      \* the form whose fields are sent
     after   |-> "kept",  \* what then becomes of the fields: "kept", "emptied", taken to
                          \* be saved ("marked"), or set to what was sent ("replaced");
                          \* or they are emptied at once ("given")
     leaves  |-> FALSE]   \* the page is left, or a message takes its place

SessionPage(gets) == [Page(gets) EXCEPT !.layout = "session"]
OrgPage(gets) == [Page(gets) EXCEPT !.layout = "org"]
=============================================================================
