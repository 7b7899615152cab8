------------------------------- MODULE Schema -------------------------------
(***************************************************************************)
(* The tables of the recruitment core, as backend/prisma/schema.prisma      *)
(* declares them.  A table is a function from the ids that rows may get to  *)
(* rows, None where no row has that id.  Columns no property speaks of      *)
(* (titles, notes, timestamps, the denormalised organizationId) are left    *)
(* out.  Every organization here is ACTIVE and its review is over.          *)
(***************************************************************************)
EXTENDS Integers, Sequences, FiniteSets

CONSTANTS
    Job,          \* ids of Job rows
    Stage,        \* ids of RecruitmentStage rows
    StageName,    \* names a recruiter gives to stages
    Candidate,    \* User ids that apply
    Application,  \* ids of Application rows
    None,         \* no row, no value
    Deleted,      \* left where a row was: a cuid is never used again
    SeedJobs,         \* the Job, RecruitmentStage and Application rows
    SeedStages,       \* that a behaviour starts from; the applications
    SeedApplications  \* among them are as create() leaves them

VARIABLES
    jobs,           \* Job.status
    stages,         \* RecruitmentStage
    applications,   \* Application
    stageHistory,   \* ApplicationStageHistory rows of an application, by commit
    auditLog,       \* AuditLog actions with that application as target, by commit
    notifications   \* 'application.rejected' Notification rows of an application

tables == <<jobs, stages, applications, stageHistory, auditLog, notifications>>

JobStatus == {"DRAFT", "PUBLISHED", "CLOSED", "ARCHIVED"}
ApplicationStatus == {"ACTIVE", "WITHDRAWN", "REJECTED", "HIRED"}
AuditAction == {"hired", "rejected"}

StageRow == [job: Job, name: StageName, order: Nat]
ApplicationRow ==
    [job: Job, candidate: Candidate, stage: Stage, status: ApplicationStatus]
HistoryRow == [from: Stage, to: Stage]

\* None and Deleted are no rows and no ids.
ASSUME NoneAssumption ==
    /\ None \notin JobStatus
    /\ {None, Deleted} \cap StageRow = {}
    /\ None # Deleted
    /\ None \notin Stage
    /\ None \notin ApplicationRow

\* A job that was published before had a stage then, and keeps one.
ASSUME SeedAssumption ==
    /\ SeedJobs \in [Job -> JobStatus \cup {None}]
    /\ SeedStages \in [Stage -> StageRow \cup {None}]
    /\ \A j \in Job : SeedJobs[j] \in {"PUBLISHED", "CLOSED"} =>
           \E s \in Stage : SeedStages[s] # None /\ SeedStages[s].job = j
    /\ SeedApplications \in [Application -> ApplicationRow \cup {None}]
    /\ \A a \in Application : SeedApplications[a] # None =>
           /\ SeedApplications[a].status = "ACTIVE"
           /\ SeedStages[SeedApplications[a].stage] # None
           /\ SeedStages[SeedApplications[a].stage].job = SeedApplications[a].job
           /\ \A b \in Application \ {a} : SeedApplications[b] # None =>
                  \/ SeedApplications[b].job # SeedApplications[a].job
                  \/ SeedApplications[b].candidate # SeedApplications[a].candidate

TablesInit ==
    /\ jobs = SeedJobs
    /\ stages = SeedStages
    /\ applications = SeedApplications
    /\ stageHistory = [a \in Application |-> <<>>]
    /\ auditLog = [a \in Application |-> <<>>]
    /\ notifications = [a \in Application |-> 0]

TablesTypeOK ==
    /\ jobs \in [Job -> JobStatus \cup {None}]
    /\ stages \in [Stage -> StageRow \cup {None, Deleted}]
    /\ applications \in [Application -> ApplicationRow \cup {None}]
    /\ stageHistory \in [Application -> Seq(HistoryRow)]
    /\ auditLog \in [Application -> Seq(AuditAction)]
    /\ notifications \in [Application -> Nat]

-----------------------------------------------------------------------------
(* Queries the services share. *)

Applications == {a \in Application : applications[a] # None}
StageExists(s) == stages[s] \notin {None, Deleted}
StagesOf(j) == {s \in Stage : StageExists(s) /\ stages[s].job = j}

\* Mutation of FirstStages: the stage at order 0.
FirstStagesAtZero(j) == {s \in StagesOf(j) : stages[s].order = 0}

\* The rows `orderBy: { order: 'asc' }` may return first: order is not unique.
FirstStages(j) ==
    {s \in StagesOf(j) : \A t \in StagesOf(j) : stages[s].order <= stages[t].order}

\* The rows `where: { jobId, order: n }` may return.
StagesAt(j, n) == {s \in StagesOf(j) : stages[s].order = n}

\* Mutation of HasActive: a database without the index.
HasActiveUnindexed(j, c) == FALSE

\* The partial unique index Application_one_active_per_job_candidate.
HasActive(j, c) ==
    \E a \in Applications :
        /\ applications[a].job = j
        /\ applications[a].candidate = c
        /\ applications[a].status = "ACTIVE"
=============================================================================
