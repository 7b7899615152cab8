----------------------------- MODULE JobsService -----------------------------
(***************************************************************************)
(* JobsService: the life cycle of a job and the replacement of its stages.  *)
(* update(), list() and the searches touch no column modelled here.         *)
(***************************************************************************)
EXTENDS Schema, Requests

CONSTANTS
    StageList,  \* the lists of names a recruiter may submit, or a template hold
    MaxStages   \* ArrayMaxSize of such a list

\* The DTOs ask for one name at least; they do not ask for distinct names.
ASSUME StageListAssumption ==
    /\ MaxStages \in Nat
    /\ \A names \in StageList :
           names \in Seq(StageName) /\ Len(names) \in 1 .. MaxStages

\* match is existingByName: the row each name reuses, None for a new name.
JobRequest ==
    [pc: {"publishCount", "publish", "close", "archive", "template"}, job: Job]
    \cup [pc: {"stagesRead"}, job: Job, names: StageList]
    \cup [pc: {"stagesInUse", "stagesWrite"}, job: Job, names: StageList,
          remove: SUBSET Stage, match: [StageName -> Stage \cup {None}]]

SetJob(j, status) == jobs' = [jobs EXCEPT ![j] = status]

-----------------------------------------------------------------------------
(* create(), publish(), close(), archive(): each reads the job, checks its  *)
(* status, and updates it by id.                                            *)

CreateJob(r, j) ==
    /\ Arrives(r)
    /\ jobs[j] = None
    /\ SetJob(j, "DRAFT")
    /\ Finish(r)
    /\ UNCHANGED <<stages, applications, stageHistory, auditLog, notifications>>

RequireJob(r, j, allowed, state) ==
    /\ Arrives(r)
    /\ jobs[j] # None
    /\ Goto(r, IF jobs[j] \in allowed THEN state ELSE Done)
    /\ UNCHANGED tables

JobUpdate(r, pc, status) ==
    /\ At(r, pc)
    /\ SetJob(req[r].job, status)
    /\ Finish(r)
    /\ UNCHANGED <<stages, applications, stageHistory, auditLog, notifications>>

PublishRead(r, j) == RequireJob(r, j, {"DRAFT"}, [pc |-> "publishCount", job |-> j])

PublishCount(r) ==
    /\ At(r, "publishCount")
    /\ Goto(r, IF StagesOf(req[r].job) = {} THEN Done
               ELSE [pc |-> "publish", job |-> req[r].job])
    /\ UNCHANGED tables

PublishUpdate(r) == JobUpdate(r, "publish", "PUBLISHED")

\* Mutation of CloseRead: a job of any status is closed.
CloseReadAny(r, j) == RequireJob(r, j, JobStatus, [pc |-> "close", job |-> j])

CloseRead(r, j) == RequireJob(r, j, {"PUBLISHED"}, [pc |-> "close", job |-> j])
CloseUpdate(r) == JobUpdate(r, "close", "CLOSED")

ArchiveRead(r, j) ==
    RequireJob(r, j, JobStatus \ {"ARCHIVED"}, [pc |-> "archive", job |-> j])
ArchiveUpdate(r) == JobUpdate(r, "archive", "ARCHIVED")

-----------------------------------------------------------------------------
(* replaceStages() and applyTemplate() end in setStages(), a $transaction   *)
(* that reads the rows, checks the rows it drops for applications, and then *)
(* writes.  Under READ COMMITTED the reads see what others have committed   *)
(* and the writes take effect together at the commit.                       *)

Replacing == {r \in Request :
    req[r].pc \in {"template", "stagesRead", "stagesInUse", "stagesWrite"}}

\* The bound on stage rows: ids are left for all a replacement may create.
RoomForStages ==
    Cardinality({s \in Stage : stages[s] # None})
        + (Cardinality(Replacing) + 1) * MaxStages <= Cardinality(Stage)

ReplaceStages(r, j, names) ==
    /\ RoomForStages
    /\ RequireJob(r, j, JobStatus, [pc |-> "stagesRead", job |-> j, names |-> names])

ApplyTemplate(r, j) ==
    /\ RoomForStages
    /\ RequireJob(r, j, JobStatus, [pc |-> "template", job |-> j])

\* The names of one of the organization's templates, or a 422.
ApplyTemplateRead(r) ==
    /\ At(r, "template")
    /\ \/ \E names \in StageList :
            Goto(r, [pc |-> "stagesRead", job |-> req[r].job, names |-> names])
       \/ Finish(r)
    /\ UNCHANGED tables

NamesIn(names) == {names[i] : i \in DOMAIN names}
Named(rows, n) == {s \in rows : stages[s].name = n}

Dropped(rows, names) == {s \in rows : stages[s].name \notin NamesIn(names)}

\* The Map keeps one row per name, whichever the unordered query returns last.
SetStagesRead(r) ==
    LET existing == StagesOf(req[r].job)
        names == req[r].names
    IN  /\ At(r, "stagesRead")
        /\ \E match \in [StageName -> Stage \cup {None}] :
             /\ \A n \in StageName :
                  IF Named(existing, n) = {} THEN match[n] = None
                  ELSE match[n] \in Named(existing, n)
             /\ Goto(r, [pc |-> "stagesInUse", job |-> req[r].job, names |-> names,
                         remove |-> Dropped(existing, names), match |-> match])
        /\ UNCHANGED tables

InUse(rows) == \E a \in Applications : applications[a].stage \in rows

SetStagesInUse(r) ==
    /\ At(r, "stagesInUse")
    /\ Goto(r, IF InUse(req[r].remove) THEN Done
               ELSE [req[r] EXCEPT !.pc = "stagesWrite"])
    /\ UNCHANGED tables

\* Mutation of LastIndex: counted from zero.
LastIndexFromZero(names, n) ==
    CHOOSE i \in {k - 1 : k \in DOMAIN names} : names[i + 1] = n

\* The position of the last update of a row: a name listed twice reuses, and
\* renumbers, the same row twice.
LastIndex(names, n) ==
    CHOOSE i \in DOMAIN names :
        names[i] = n /\ \A k \in DOMAIN names : names[k] = n => k <= i

\* Mutation of NewIndices: new names get no row.
NewIndicesForgotten(names, match) == {}

\* A new name listed twice makes two rows.
NewIndices(names, match) == {i \in DOMAIN names : match[names[i]] = None}

\* Mutation of Rejected: no foreign key guards the rows it drops.
RejectedUnguarded(names, remove, match) ==
    \E n \in NamesIn(names) : match[n] # None /\ ~ StageExists(match[n])

\* The transaction is rolled back when a row it drops has got an application
\* (P2003) or a row it renumbers is gone (P2025).
Rejected(names, remove, match) ==
    \/ InUse(remove)
    \/ \E n \in NamesIn(names) : match[n] # None /\ ~ StageExists(match[n])

SetStagesWrite(r) ==
    LET j == req[r].job
        names == req[r].names
        remove == req[r].remove
        match == req[r].match
        free == {s \in Stage : stages[s] = None}
        new == NewIndices(names, match)
    IN  /\ At(r, "stagesWrite")
        /\ IF Rejected(names, remove, match)
           THEN UNCHANGED stages
           ELSE \E id \in [new -> free] :
                  /\ \A i, k \in new : id[i] = id[k] => i = k
                  /\ stages' = [s \in Stage |->
                       IF s \in remove THEN Deleted
                       ELSE IF \E i \in new : id[i] = s
                       THEN LET i == CHOOSE k \in new : id[k] = s
                            IN  [job |-> j, name |-> names[i], order |-> i - 1]
                       ELSE IF \E n \in NamesIn(names) : match[n] = s
                       THEN [stages[s] EXCEPT
                               !.order = LastIndex(names, stages[s].name) - 1]
                       ELSE stages[s]]
        /\ Finish(r)
        /\ UNCHANGED <<jobs, applications, stageHistory, auditLog, notifications>>

-----------------------------------------------------------------------------
BeginJob(r) ==
    \E j \in Job :
        \/ CreateJob(r, j)
        \/ PublishRead(r, j)
        \/ CloseRead(r, j)
        \/ ArchiveRead(r, j)
        \/ \E names \in StageList : ReplaceStages(r, j, names)
        \/ ApplyTemplate(r, j)

ContinueJob(r) ==
    \/ PublishCount(r)
    \/ PublishUpdate(r)
    \/ CloseUpdate(r)
    \/ ArchiveUpdate(r)
    \/ ApplyTemplateRead(r)
    \/ SetStagesRead(r)
    \/ SetStagesInUse(r)
    \/ SetStagesWrite(r)
-----------------------------------------------------------------------------
(* What the checks of setStages(), publish(), close() and archive() enforce. *)

\* The table holds the rows of the job that setStages() read, no others and none less:
\* those it drops and one for each name that it keeps.
AsRead(r) ==
    StagesOf(req[r].job) =
        req[r].remove \cup ({req[r].match[n] : n \in NamesIn(req[r].names)} \ {None})

\* The stages of a job are those of the list, each at its index.
ListedAs(j, names) ==
    /\ \A s \in StagesOf(j) : \E i \in DOMAIN names :
         stages[s].order = i - 1 /\ stages[s].name = names[i]
    /\ \A i \in DOMAIN names : \E s \in StagesOf(j) :
         stages[s].order = i - 1 /\ stages[s].name = names[i]

\* replace-job-stages.dto.ts: "order is the array index", which screen() depends on, as
\* PASS looks for the stage at order + 1.  A replacement by a list of distinct
\* names that is not rolled back leaves just that list, whatever orders the rows had
\* before and whoever else is in flight, unless another replacement has changed the rows
\* since it read.
OrderIsIndex ==
    [][\A r \in Request, j \in Job, names \in StageList :
          /\ At(r, "stagesWrite") /\ req[r].job = j /\ req[r].names = names
          /\ \A i, k \in DOMAIN names : names[i] = names[k] => i = k
          /\ AsRead(r) /\ ~ Rejected(names, req[r].remove, req[r].match)
          /\ req'[r] = Done
          => ListedAs(j, names)']_<<tables, req>>

\* The handlers that may still write the status of j.
StatusWriters(j) ==
    {r \in Request :
        req[r].pc \in {"publishCount", "publish", "close", "archive"} /\ req[r].job = j}

\* What the checks of publish(), close() and archive() do enforce, however requests
\* overlap: ARCHIVED is written over by handlers that were on their way at the time, once
\* by each, and when they are through, a job that is ARCHIVED stays so for good.
ArchivedForGood ==
    [][\A j \in Job : jobs[j] = "ARCHIVED" =>
          /\ StatusWriters(j)' \subseteq StatusWriters(j)
          /\ jobs'[j] # jobs[j] => StatusWriters(j)' # StatusWriters(j)]_<<tables, req>>
=============================================================================
