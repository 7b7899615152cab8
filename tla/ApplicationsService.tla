------------------------ MODULE ApplicationsService -------------------------
(***************************************************************************)
(* ApplicationsService: a candidate applies and withdraws, org staff screen *)
(* and decide.  Each awaited statement or $transaction is one step.         *)
(***************************************************************************)
EXTENDS Schema, Requests

\* What a handler holds across its next await.
ApplicationRequest ==
    [pc: {"resolveCv", "firstStage"}, job: Job, candidate: Candidate]
    \cup [pc: {"insert"}, job: Job, candidate: Candidate, stage: Stage]
    \cup [pc: {"withdraw", "screenReject", "hire", "reject", "notify"}, app: Application]
    \cup [pc: {"nextStage"}, app: Application, stage: Stage, order: Nat]
    \cup [pc: {"move"}, app: Application, stage: Stage, next: Stage]

-----------------------------------------------------------------------------
(* create(): four awaits, the last one the insert. *)

Applying == {r \in Request :
                req[r].pc \in {"resolveCv", "firstStage", "insert"}}

\* The bound on the applications of a behaviour: an id is left for each request
\* that is on its way to the insert.
RoomToApply ==
    Cardinality(Applications) + Cardinality(Applying) < Cardinality(Application)

CreateFindJob(r, c, j) ==
    /\ Arrives(r)
    /\ RoomToApply
    /\ IF jobs[j] = "PUBLISHED"
       THEN Goto(r, [pc |-> "resolveCv", job |-> j, candidate |-> c])
       ELSE Finish(r)
    /\ UNCHANGED tables

\* The candidate owns the CV asked for, or has a primary one, or gets a 422.
CreateResolveCv(r) ==
    /\ At(r, "resolveCv")
    /\ \/ Goto(r, [pc |-> "firstStage", job |-> req[r].job, candidate |-> req[r].candidate])
       \/ Finish(r)
    /\ UNCHANGED tables

CreateFindStage(r) ==
    /\ At(r, "firstStage")
    /\ \/ \E s \in FirstStages(req[r].job) :
            Goto(r, [pc |-> "insert", job |-> req[r].job,
                     candidate |-> req[r].candidate, stage |-> s])
       \/ FirstStages(req[r].job) = {} /\ Finish(r)
    /\ UNCHANGED tables

\* P2002 when the index holds an ACTIVE row, P2003 when the stage or the CV is gone.
CreateInsert(r) ==
    /\ At(r, "insert")
    /\ \/ UNCHANGED applications
       \/ /\ ~ HasActive(req[r].job, req[r].candidate)
          /\ StageExists(req[r].stage)
          /\ \E a \in Application \ Applications :
               applications' = [applications EXCEPT ![a] =
                   [job |-> req[r].job, candidate |-> req[r].candidate,
                    stage |-> req[r].stage, status |-> "ACTIVE"]]
    /\ Finish(r)
    /\ UNCHANGED <<jobs, stages, stageHistory, auditLog, notifications>>

-----------------------------------------------------------------------------
(* withdraw(): read and check, then update by id. *)

\* Mutation of ReadActive: the status is not checked.
ReadAnyStatus(r, a, state) ==
    Arrives(r) /\ a \in Applications /\ Goto(r, state) /\ UNCHANGED tables

\* The check all three handlers make on the row they read.
ReadActive(r, a, state) ==
    /\ Arrives(r)
    /\ a \in Applications
    /\ Goto(r, IF applications[a].status = "ACTIVE" THEN state ELSE Done)
    /\ UNCHANGED tables

WithdrawRead(r, a) == ReadActive(r, a, [pc |-> "withdraw", app |-> a])

\* Mutation of SetStatus: the row is deleted instead.
SetStatusDeletes(a, status) == applications' = [applications EXCEPT ![a] = None]

SetStatus(a, status) ==
    applications' = [applications EXCEPT ![a].status = status]

WithdrawUpdate(r) ==
    /\ At(r, "withdraw")
    /\ SetStatus(req[r].app, "WITHDRAWN")
    /\ Finish(r)
    /\ UNCHANGED <<jobs, stages, stageHistory, auditLog, notifications>>

-----------------------------------------------------------------------------
(* screen() and decide(). *)

\* Mutation of ScreenReadReject: the candidate is notified before the commit.
ScreenReadRejectNotifies(r, a) == ReadActive(r, a, [pc |-> "notify", app |-> a])

ScreenReadReject(r, a) == ReadActive(r, a, [pc |-> "screenReject", app |-> a])

ScreenReadPass(r, a) ==
    LET s == applications[a].stage
    IN  ReadActive(r, a, [pc |-> "nextStage", app |-> a, stage |-> s,
                          order |-> stages[s].order])

\* Mutation of Decision: the audit row is forgotten.
DecisionUnaudited(r, status, action) ==
    /\ SetStatus(req[r].app, status)
    /\ UNCHANGED <<jobs, stages, stageHistory, auditLog, notifications>>

\* $transaction: the status and its audit row commit together.
Decision(r, status, action) ==
    LET a == req[r].app
    IN  /\ SetStatus(a, status)
        /\ auditLog' = [auditLog EXCEPT ![a] = Append(@, action)]
        /\ UNCHANGED <<jobs, stages, stageHistory, notifications>>

ScreenReject(r) ==
    /\ At(r, "screenReject")
    /\ Decision(r, "REJECTED", "rejected")
    /\ Goto(r, [pc |-> "notify", app |-> req[r].app])

NextStages(r) == StagesAt(applications[req[r].app].job, req[r].order + 1)

ScreenFindNext(r) ==
    /\ At(r, "nextStage")
    /\ \/ \E s \in NextStages(r) :
            Goto(r, [pc |-> "move", app |-> req[r].app, stage |-> req[r].stage, next |-> s])
       \/ NextStages(r) = {} /\ Finish(r)
    /\ UNCHANGED tables

HistoryEntry(r) == [from |-> req[r].stage, to |-> req[r].next]

\* Mutation of ScreenMove: the history row is committed before the update fails.
ScreenMoveInTwo(r) ==
    LET a == req[r].app
    IN  /\ At(r, "move")
        /\ stageHistory' = [stageHistory EXCEPT ![a] = Append(@, HistoryEntry(r))]
        /\ IF StageExists(req[r].next)
           THEN applications' = [applications EXCEPT ![a].stage = req[r].next]
           ELSE UNCHANGED applications
        /\ Finish(r)
        /\ UNCHANGED <<jobs, stages, auditLog, notifications>>

\* $transaction: the stage and its history row commit together, or neither
\* does when the stage read before has been deleted since (P2003).
ScreenMove(r) ==
    LET a == req[r].app
    IN  /\ At(r, "move")
        /\ IF ~ StageExists(req[r].next)
           THEN UNCHANGED <<applications, stageHistory>>
           ELSE /\ applications' = [applications EXCEPT ![a].stage = req[r].next]
                /\ stageHistory' = [stageHistory EXCEPT ![a] = Append(@, HistoryEntry(r))]
        /\ Finish(r)
        /\ UNCHANGED <<jobs, stages, auditLog, notifications>>

DecideRead(r, a) ==
    \E pc \in {"hire", "reject"} : ReadActive(r, a, [pc |-> pc, app |-> a])

DecideHire(r) ==
    /\ At(r, "hire")
    /\ Decision(r, "HIRED", "hired")
    /\ Finish(r)

\* Mutation of DecideReject: the candidate is not notified.
DecideRejectSilently(r) ==
    At(r, "reject") /\ Decision(r, "REJECTED", "rejected") /\ Finish(r)

DecideReject(r) ==
    /\ At(r, "reject")
    /\ Decision(r, "REJECTED", "rejected")
    /\ Goto(r, [pc |-> "notify", app |-> req[r].app])

\* NotificationsService.notify(), after the commit.
Notify(r) ==
    /\ At(r, "notify")
    /\ notifications' = [notifications EXCEPT ![req[r].app] = @ + 1]
    /\ Finish(r)
    /\ UNCHANGED <<jobs, stages, applications, stageHistory, auditLog>>

-----------------------------------------------------------------------------
ApplicationsController(r) ==
    \/ \E c \in Candidate, j \in Job : CreateFindJob(r, c, j)
    \/ \E a \in Application : WithdrawRead(r, a)

JobApplicationsController(r) ==
    \E a \in Application :
        ScreenReadReject(r, a) \/ ScreenReadPass(r, a) \/ DecideRead(r, a)

BeginApplication(r) == ApplicationsController(r) \/ JobApplicationsController(r)

ContinueApplication(r) ==
    \/ CreateResolveCv(r)
    \/ CreateFindStage(r)
    \/ CreateInsert(r)
    \/ WithdrawUpdate(r)
    \/ ScreenReject(r)
    \/ ScreenFindNext(r)
    \/ ScreenMove(r)
    \/ DecideHire(r)
    \/ DecideReject(r)
    \/ Notify(r)

-----------------------------------------------------------------------------
(* What holds of the tables however requests interleave and fail. *)

Ledger == INSTANCE ApplicationLedger

\* The transactions of the service are the atomic steps of the ledger, for
\* any number of concurrent requests and any failures.
ImplementsLedger == Ledger!Spec

\* The life cycle the documents describe: only an ACTIVE application changes, and
\* a move starts at the stage it is in.  It holds while requests do not overlap.
ImplementsOrderlyLedger == Ledger!OrderlySpec

\* The handlers that have read a as ACTIVE and may still write it.
Writers(a) ==
    {r \in Request :
        /\ req[r].pc \in {"withdraw", "screenReject", "nextStage", "move", "hire", "reject"}
        /\ req[r].app = a}

\* What the ACTIVE precondition does enforce, however requests overlap: a decision or
\* a withdrawal is written over by handlers that were on their way at the time, once
\* by each of them, and by nobody else.  None is added to them, no application is
\* ACTIVE again, and when they are through, it stays as it is for good.
SettledForGood ==
    [][\A a \in Applications : applications[a].status # "ACTIVE" =>
          /\ applications'[a] # None /\ applications'[a].status # "ACTIVE"
          /\ Writers(a)' \subseteq Writers(a)
          /\ applications'[a] # applications[a] => Writers(a)' # Writers(a)]_<<tables, req>>

\* A candidate never has two ACTIVE applications for one job, although create()
\* checks nothing before it inserts: the partial unique index alone decides
\* which of two concurrent inserts gets the 409.
OneActiveApplication ==
    \A a, b \in Applications :
        /\ applications[a].status = "ACTIVE" /\ applications[b].status = "ACTIVE"
        /\ applications[a].job = applications[b].job
        /\ applications[a].candidate = applications[b].candidate
        => a = b

\* However decisions, screenings and withdrawals overtake each other, an
\* application that stands as hired or rejected has exactly that as its latest
\* audit row, and one that is still open has none: screen() and decide() write
\* the status and the audit row in one $transaction.
DecisionsRecorded ==
    \A a \in Applications :
        LET log == auditLog[a]
        IN  CASE applications[a].status = "HIRED" ->
                    log # <<>> /\ log[Len(log)] = "hired"
              [] applications[a].status = "REJECTED" ->
                    log # <<>> /\ log[Len(log)] = "rejected"
              [] applications[a].status = "ACTIVE" -> log = <<>>
              [] OTHER -> TRUE

\* The log of stage moves explains where an application is: the latest row
\* points at its stage, whichever of several concurrent screenings won.
StageIsLastMove ==
    \A a \in Applications :
        LET log == stageHistory[a]
        IN  log # <<>> => log[Len(log)].to = applications[a].stage

\* An application is always in an existing stage of its own job: the stage was
\* looked up by the job's id, and the foreign key of stageId restricts deletes.
StageOfOwnJob ==
    \A a \in Applications :
        LET s == applications[a].stage
        IN  StageExists(s) /\ stages[s].job = applications[a].job

Rejections(a) ==
    {i \in DOMAIN auditLog[a] : auditLog[a][i] = "rejected"}
Notifying(a) == {r \in Request : req[r] = [pc |-> "notify", app |-> a]}

\* A candidate is told of a rejection only after it is committed, and once per
\* rejection: notify() runs after the $transaction, never inside or before it.
NotificationsFollowRejections ==
    \A a \in Application :
        notifications[a] + Cardinality(Notifying(a)) <= Cardinality(Rejections(a))

\* Every committed rejection is notified in the end, but for one for each request
\* that was cut off.
RejectionsAreNotified ==
    \A a \in Application :
        <>[](Cardinality(Rejections(a)) <= notifications[a] + Cardinality(CutOff))
=============================================================================
