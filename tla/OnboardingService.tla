-------------------------- MODULE OnboardingService --------------------------
(***************************************************************************)
(* OnboardingService: HR starts a checklist on an accepted offer and ticks  *)
(* its tasks off, the candidate uploads documents against them.  The files  *)
(* are in the object storage, outside of the database and of any of its     *)
(* transactions.  OnboardingChecklist.offerId is unique: the checklists are *)
(* a set of applications.                                                   *)
(***************************************************************************)
EXTENDS OffersService

CONSTANTS
    Task,  \* ids of OnboardingTask rows
    File   \* storage keys, each a fresh uuid

VARIABLES
    checklists,  \* applications whose offer has an OnboardingChecklist
    tasks,       \* OnboardingTask: the application it is for
    completed,   \* tasks with a completedAt
    documents,   \* Document: the task of each file key on record
    files        \* the keys under which the storage holds a file

\* None is no id.
ASSUME OnboardingAssumption == None \notin Application \cup Task

onboardingTables == <<checklists, tasks, completed, documents, files>>

OnboardingTablesInit ==
    /\ checklists = {}
    /\ tasks = [t \in Task |-> None]
    /\ completed = {}
    /\ documents = [f \in File |-> None]
    /\ files = {}

FreeTasks == {t \in Task : tasks[t] = None}
TasksOf(a) == {t \in Task : tasks[t] = a}

\* The bounds on tasks and files: an id is left for each request that is on its
\* way to one.
MakingTask(r) ==
    \/ req[r].pc \in {"checklist", "addTask"}
    \/ req[r].pc \in {"expireFirst", "findChecklist"} /\ req[r].wants = "addTask"
MakingFile(r) ==
    \/ req[r].pc = "upload"
    \/ req[r].pc \in {"expireFirst", "findChecklist"} /\ req[r].wants = "upload"

RoomForTask ==
    Cardinality({r \in Request : MakingTask(r)}) < Cardinality(FreeTasks)
RoomForFile ==
    Cardinality({r \in Request : MakingFile(r)}) < Cardinality(File \ files)

-----------------------------------------------------------------------------
(* createChecklist() wants an accepted offer; the checklist comes with one  *)
(* task or more, or not at all when there is one (P2002).                   *)

\* Mutation of ChecklistRead: the offer may still be open.
ChecklistReadEarly(r, a) ==
    /\ RoomForTask
    /\ ReadOffer(r, a, "SENT", [pc |-> "checklist", app |-> a])
    /\ UNCHANGED <<tables, offerTables, onboardingTables>>

ChecklistRead(r, a) ==
    /\ RoomForTask
    /\ ReadOffer(r, a, "ACCEPTED", [pc |-> "checklist", app |-> a])
    /\ UNCHANGED <<tables, offerTables, onboardingTables>>

ChecklistInsert(r) ==
    LET a == req[r].app
    IN  /\ At(r, "checklist")
        /\ IF a \in checklists
           THEN UNCHANGED <<checklists, tasks>>
           ELSE /\ checklists' = checklists \cup {a}
                /\ \E t \in FreeTasks : tasks' = [tasks EXCEPT ![t] = a]
        /\ Finish(r)
        /\ UNCHANGED <<tables, offerTables, completed, documents, files>>

-----------------------------------------------------------------------------
(* addTask(), completeTask() and uploadDocument() read the offer for its id *)
(* and expire it if it is due, but ask nothing of its status; then they     *)
(* find the checklist, and the latter two the task in it.                   *)

OnChecklist(r, a, wants) ==
    /\ Arrives(r)
    /\ offers[a] # None
    /\ wants = "addTask" => RoomForTask
    /\ wants = "upload" => RoomForFile
    /\ Goto(r, [pc |-> IF Due(a) THEN "expireFirst" ELSE "findChecklist",
                app |-> a, wants |-> wants])
    /\ UNCHANGED <<tables, offerTables, onboardingTables>>

ExpireFirst(r) ==
    LET a == req[r].app
    IN  /\ At(r, "expireFirst")
        /\ WriteOffer(a, "EXPIRED")
        /\ Goto(r, [req[r] EXCEPT !.pc = "findChecklist"])
        /\ UNCHANGED onboardingTables

\* Tasks are never deleted, so the task is looked up along with its checklist.
FindChecklist(r) ==
    LET a == req[r].app
    IN  /\ At(r, "findChecklist")
        /\ IF a \notin checklists THEN Finish(r)
           ELSE IF req[r].wants = "addTask"
           THEN Goto(r, [pc |-> "addTask", app |-> a])
           ELSE \E t \in TasksOf(a) : Goto(r, [pc |-> req[r].wants, task |-> t])
        /\ UNCHANGED <<tables, offerTables, onboardingTables>>

\* What it answers with reads the offer again: no longer SENT, so not due.
AddTaskInsert(r) ==
    /\ At(r, "addTask")
    /\ \E t \in FreeTasks : tasks' = [tasks EXCEPT ![t] = req[r].app]
    /\ Finish(r)
    /\ UNCHANGED <<tables, offerTables, checklists, completed, documents, files>>

CompleteTaskUpdate(r) ==
    /\ At(r, "completeTask")
    /\ completed' = completed \cup {req[r].task}
    /\ Finish(r)
    /\ UNCHANGED <<tables, offerTables, checklists, tasks, documents, files>>

\* Mutation of UploadFile: the document is recorded, the upload not awaited.
UploadFileLost(r) ==
    /\ At(r, "upload")
    /\ \E f \in File \ files : Goto(r, [pc |-> "document", task |-> req[r].task, file |-> f])
    /\ UNCHANGED <<tables, offerTables, onboardingTables>>

UploadFile(r) ==
    /\ At(r, "upload")
    /\ \E f \in File \ files :
         /\ files' = files \cup {f}
         /\ Goto(r, [pc |-> "document", task |-> req[r].task, file |-> f])
    /\ UNCHANGED <<tables, offerTables, checklists, tasks, completed, documents>>

UploadInsert(r) ==
    /\ At(r, "document")
    /\ documents' = [documents EXCEPT ![req[r].file] = req[r].task]
    /\ Finish(r)
    /\ UNCHANGED <<tables, offerTables, checklists, tasks, completed, files>>

-----------------------------------------------------------------------------
JobApplicationOnboardingController(r) ==
    \E a \in Application :
        \/ ChecklistRead(r, a)
        \/ \E wants \in {"addTask", "completeTask"} : OnChecklist(r, a, wants)

ApplicationOnboardingController(r) ==
    \E a \in Application : OnChecklist(r, a, "upload")

BeginOnboarding(r) ==
    JobApplicationOnboardingController(r) \/ ApplicationOnboardingController(r)

ContinueOnboarding(r) ==
    \/ ChecklistInsert(r)
    \/ ExpireFirst(r)
    \/ FindChecklist(r)
    \/ AddTaskInsert(r)
    \/ CompleteTaskUpdate(r)
    \/ UploadFile(r)
    \/ UploadInsert(r)
-----------------------------------------------------------------------------
(* What the documents say, and what holds while requests do not overlap.    *)

Promise == INSTANCE OfferPromise

\* Offers and onboarding follow the life cycle of the documents.
KeepsOfferPromise == Promise!Spec
=============================================================================
