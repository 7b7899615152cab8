------------------------------- MODULE Hiring -------------------------------
(***************************************************************************)
(* Recruiters edit jobs and their stages while candidates apply and staff   *)
(* screen and decide: JobsService and ApplicationsService on one database.  *)
(***************************************************************************)
EXTENDS Applications, JobsService

\* A step of a recruiter's request.
Editing == \E r \in Request : BeginJob(r) \/ ContinueJob(r)

HiringNext == Next \/ Editing

HiringSpec == Init /\ [][HiringNext]_vars

HiringTypeOK ==
    /\ TablesTypeOK
    /\ req \in [Request -> {Idle, Done, Lost} \cup ApplicationRequest \cup JobRequest]

\* JobsService.publish() makes sure of a stage, and setStages() never leaves a
\* job without one: "A PUBLISHED job is guaranteed to have at least one stage"
\* (applications.service.ts).
PublishedHasStage ==
    \A j \in Job : jobs[j] \in {"PUBLISHED", "CLOSED"} => StagesOf(j) # {}

\* create() relies on that guarantee two awaits after it read the status: its
\* findFirstOrThrow always finds a stage, whatever was edited in between.
CreateFindsStage ==
    \A r \in Request : At(r, "firstStage") => FirstStages(req[r].job) # {}
=============================================================================
