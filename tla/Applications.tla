---------------------------- MODULE Applications ----------------------------
(***************************************************************************)
(* ApplicationsService at work on jobs that nobody edits meanwhile.         *)
(***************************************************************************)
EXTENDS ApplicationsService

vars == <<tables, req>>

Init == TablesInit /\ RequestsInit

Fail(r) == Fails(r) /\ UNCHANGED tables

\* No request is left to come.
Quiescent == AllDone /\ UNCHANGED vars

Next ==
    \/ \E r \in Request : BeginApplication(r) \/ ContinueApplication(r) \/ Fail(r)
    \/ Quiescent

\* Node resumes every await: a request that has begun is carried on.
Spec == Init /\ [][Next]_vars /\ \A r \in Request : WF_vars(ContinueApplication(r))

TypeOK ==
    /\ TablesTypeOK
    /\ req \in [Request -> {Idle, Done, Lost} \cup ApplicationRequest]

-----------------------------------------------------------------------------
\* applications.service.ts on decide(): "No @@unique or partial-index race to
\* guard against here (unlike M7.3's create()), since the ACTIVE precondition
\* below is the only path into this state change."  So a status that is not
\* ACTIVE is final.
TerminalStatusIsFinal ==
    [][\A a \in Applications :
          applications[a].status # "ACTIVE" =>
              applications'[a].status = applications[a].status]_applications
=============================================================================
