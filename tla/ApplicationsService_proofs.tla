---------------------- MODULE ApplicationsService_proofs ----------------------
(***************************************************************************)
(* Lemmas on the steps of ApplicationsService, whatever else is composed    *)
(* with it: what a step leaves a request with, which tables it changes and  *)
(* how, and the invariants it preserves.                                    *)
(***************************************************************************)
EXTENDS ApplicationsService, FiniteSetTheorems, TLAPS

ApplicationPC == {"resolveCv", "firstStage", "insert", "withdraw", "screenReject",
                  "hire", "reject", "notify", "nextStage", "move"}

\* A request that is in one of the handlers of this service holds what that
\* handler holds at its await; other services name other awaits.
RequestsTyped ==
    /\ req = [r \in Request |-> req[r]]
    /\ \A r \in Request : req[r].pc \in ApplicationPC => req[r] \in ApplicationRequest

OnApplication == {"withdraw", "screenReject", "hire", "reject", "notify", "nextStage", "move"}

\* The rows a request has read are still there: applications are not deleted.
AppsKnown ==
    \A r \in Request : req[r].pc \in OnApplication => req[r].app \in Applications

\* A stage row that was read belonged to job j, and if it is not deleted by now
\* it still does.
OfJob(table, s, j) == table[s] # None /\ (table[s] # Deleted => table[s].job = j)

StagesHeld ==
    \A r \in Request :
        /\ At(r, "insert") => OfJob(stages, req[r].stage, req[r].job)
        /\ At(r, "move") => OfJob(stages, req[r].next, applications[req[r].app].job)

\* What every step of every handler relies on.
ServiceInv == RequestsTyped /\ AppsKnown /\ StagesHeld /\ StageOfOwnJob

-----------------------------------------------------------------------------
(* The fields a request holds at each await. *)

\* A request of this service holds the fields its next statement reads.
LEMMA RequestFields ==
    ASSUME RequestsTyped, NEW r \in Request
    PROVE  /\ req[r].pc \in {"resolveCv", "firstStage"} =>
                  req[r].job \in Job /\ req[r].candidate \in Candidate
           /\ req[r].pc = "insert" =>
                  /\ req[r].job \in Job /\ req[r].candidate \in Candidate
                  /\ req[r].stage \in Stage
           /\ req[r].pc \in OnApplication => req[r].app \in Application
           /\ req[r].pc = "nextStage" => req[r].stage \in Stage /\ req[r].order \in Nat
           /\ req[r].pc = "move" => req[r].stage \in Stage /\ req[r].next \in Stage
  BY DEF RequestsTyped, ApplicationRequest, ApplicationPC, OnApplication

-----------------------------------------------------------------------------
(* Where a step leaves its request. *)

\* What a request of this service may hold after one of its steps.
After == {Done} \cup ApplicationRequest

\* What a request must hold for the next statement of its handler.
Holds(x, apps, table) ==
    /\ x.pc \in ApplicationPC => x \in ApplicationRequest
    /\ x.pc \in OnApplication => x.app \in Application /\ apps[x.app] # None
    /\ x.pc = "insert" => OfJob(table, x.stage, x.job)
    /\ x.pc = "move" => OfJob(table, x.next, apps[x.app].job)

\* A new request ends at once, or holds what its handler's next await needs.
LEMMA BeginGoto ==
    ASSUME TablesTypeOK, ServiceInv, NEW r \in Request, BeginApplication(r)
    PROVE  /\ Arrives(r) /\ UNCHANGED tables
           /\ \E x \in After : Goto(r, x) /\ Holds(x, applications, stages)
<1> USE DEF After, Holds, ApplicationRequest, ApplicationPC, OnApplication, Applications
<1>0. Done \in After /\ Holds(Done, applications, stages)
  BY DEF Done
<1>1. CASE \E c \in Candidate, j \in Job : CreateFindJob(r, c, j)
  <2>1. PICK c \in Candidate, j \in Job : CreateFindJob(r, c, j)
    BY <1>1
  <2> DEFINE x == [pc |-> "resolveCv", job |-> j, candidate |-> c]
  <2>2. x \in After /\ Holds(x, applications, stages)
    OBVIOUS
  <2>3. Goto(r, x) \/ Goto(r, Done)
    BY <2>1 DEF CreateFindJob, Finish
  <2> HIDE DEF x
  <2> QED
    BY <1>0, <2>1, <2>2, <2>3 DEF CreateFindJob
<1>2. ASSUME NEW a \in Applications, NEW state \in After,
             Holds(state, applications, stages),
             ReadActive(r, a, state)
      PROVE  /\ Arrives(r) /\ UNCHANGED tables
             /\ \E x \in After : Goto(r, x) /\ Holds(x, applications, stages)
  BY <1>0, <1>2 DEF ReadActive
<1>3. ASSUME NEW a \in Application, WithdrawRead(r, a) \/ ScreenReadReject(r, a) \/ DecideRead(r, a)
      PROVE  /\ Arrives(r) /\ UNCHANGED tables
             /\ \E x \in After : Goto(r, x) /\ Holds(x, applications, stages)
  <2>1. PICK pc \in {"withdraw", "screenReject", "hire", "reject"} :
            ReadActive(r, a, [pc |-> pc, app |-> a])
    BY <1>3 DEF WithdrawRead, ScreenReadReject, DecideRead
  <2>2. a \in Applications
    BY <2>1 DEF ReadActive
  <2>3. [pc |-> pc, app |-> a] \in After /\ Holds([pc |-> pc, app |-> a], applications, stages)
    BY <2>2
  <2> QED
    BY <1>2, <2>1, <2>2, <2>3
<1>4. ASSUME NEW a \in Application, ScreenReadPass(r, a)
      PROVE  /\ Arrives(r) /\ UNCHANGED tables
             /\ \E x \in After : Goto(r, x) /\ Holds(x, applications, stages)
  <2> DEFINE s == applications[a].stage
             x == [pc |-> "nextStage", app |-> a, stage |-> s, order |-> stages[s].order]
  <2>1. a \in Applications
    BY <1>4 DEF ScreenReadPass, ReadActive
  <2>2. s \in Stage /\ StageExists(s)
    BY <2>1 DEF Applications, TablesTypeOK, ApplicationRow, ServiceInv, StageOfOwnJob
  <2>3. stages[s].order \in Nat
    BY <2>2 DEF StageExists, TablesTypeOK, StageRow
  <2>4. x \in After /\ Holds(x, applications, stages)
    BY <2>1, <2>2, <2>3
  <2>5. ReadActive(r, a, x)
    BY <1>4 DEF ScreenReadPass
  <2> HIDE DEF x
  <2> QED
    BY <1>2, <2>1, <2>4, <2>5
<1> QED
  BY <1>1, <1>3, <1>4
  DEF BeginApplication, ApplicationsController, JobApplicationsController

-----------------------------------------------------------------------------
(* What a step does to the applications. *)

\* A row that is replaced is the only one that changes.
LEMMA RowUpdate ==
    ASSUME TablesTypeOK, NEW a \in Applications, NEW row \in ApplicationRow,
           applications' = [applications EXCEPT ![a] = row]
    PROVE  /\ applications' \in [Application -> ApplicationRow \cup {None}]
           /\ applications'[a] = row
           /\ \A b \in Application \ {a} : applications'[b] = applications[b]
           /\ Applications' = Applications
  BY NoneAssumption DEF TablesTypeOK, Applications

\* An update of a status touches one row and one column of it.
LEMMA SetStatusRow ==
    ASSUME TablesTypeOK, NEW a \in Applications, NEW status \in ApplicationStatus,
           SetStatus(a, status)
    PROVE  /\ applications' \in [Application -> ApplicationRow \cup {None}]
           /\ applications'[a].job = applications[a].job
           /\ applications'[a].candidate = applications[a].candidate
           /\ applications'[a].stage = applications[a].stage
           /\ applications'[a].status = status
           /\ \A b \in Application \ {a} : applications'[b] = applications[b]
           /\ Applications' = Applications
<1> DEFINE row == [applications[a] EXCEPT !.status = status]
<1>1. applications[a] \in ApplicationRow
  BY DEF TablesTypeOK, Applications
<1>2. row = [job |-> applications[a].job, candidate |-> applications[a].candidate,
             stage |-> applications[a].stage, status |-> status]
  BY <1>1 DEF ApplicationRow
<1>3. row \in ApplicationRow
  BY <1>1, <1>2 DEF ApplicationRow
<1>4. applications' = [applications EXCEPT ![a] = row]
  BY DEF SetStatus
<1>5. /\ row.job = applications[a].job /\ row.candidate = applications[a].candidate
      /\ row.stage = applications[a].stage /\ row.status = status
  BY <1>2
<1> HIDE DEF row
<1> QED
  BY <1>3, <1>4, <1>5, RowUpdate

\* A move touches one row and one column of it.
LEMMA MoveRow ==
    ASSUME TablesTypeOK, NEW a \in Applications, NEW s \in Stage,
           applications' = [applications EXCEPT ![a].stage = s]
    PROVE  /\ applications' \in [Application -> ApplicationRow \cup {None}]
           /\ applications'[a].job = applications[a].job
           /\ applications'[a].candidate = applications[a].candidate
           /\ applications'[a].stage = s
           /\ applications'[a].status = applications[a].status
           /\ \A b \in Application \ {a} : applications'[b] = applications[b]
           /\ Applications' = Applications
<1> DEFINE row == [applications[a] EXCEPT !.stage = s]
<1>1. applications[a] \in ApplicationRow
  BY DEF TablesTypeOK, Applications
<1>2. row = [job |-> applications[a].job, candidate |-> applications[a].candidate,
             stage |-> s, status |-> applications[a].status]
  BY <1>1 DEF ApplicationRow
<1>3. row \in ApplicationRow
  BY <1>1, <1>2 DEF ApplicationRow
<1>4. applications' = [applications EXCEPT ![a] = row]
  OBVIOUS
<1>5. /\ row.job = applications[a].job /\ row.candidate = applications[a].candidate
      /\ row.stage = s /\ row.status = applications[a].status
  BY <1>2
<1> HIDE DEF row
<1> QED
  BY ZenonT(40), <1>3, <1>4, <1>5, RowUpdate

-----------------------------------------------------------------------------
(* Each step of a handler is at most one step of the ledger. *)

LedgerStep ==
    \/ UNCHANGED <<applications, stageHistory, auditLog>>
    \/ \E a \in Application : Ledger!Step(a)

\* The step of the ledger that request r makes, of an application that is there, when
\* it stands at one of these statements.
StepOn(r, a) ==
    /\ a \in Applications
    /\ \/ /\ req[r].pc \in {"withdraw", "screenReject", "hire", "reject"}
          /\ Ledger!Withdraw(a) \/ Ledger!Decide(a, "HIRED", "hired")
                                \/ Ledger!Decide(a, "REJECTED", "rejected")
       \/ /\ At(r, "move") /\ req[r].stage \in Stage /\ req[r].next \in Stage
          /\ Ledger!Move(a, req[r].stage, req[r].next)

\* The application a handler works on exists when it writes.
LEMMA AppExists ==
    ASSUME ServiceInv, NEW r \in Request, req[r].pc \in OnApplication
    PROVE  req[r].app \in Applications
  BY DEF ServiceInv, AppsKnown

\* The insert makes an ACTIVE application where there was no row, or nothing.
LEMMA InsertLedger ==
    ASSUME TablesTypeOK, ServiceInv, NEW r \in Request, CreateInsert(r)
    PROVE  \/ UNCHANGED <<applications, stageHistory, auditLog>>
           \/ \E a \in Application : Ledger!Apply(a)
<1> DEFINE row == [job |-> req[r].job, candidate |-> req[r].candidate,
                   stage |-> req[r].stage, status |-> "ACTIVE"]
<1>1. CASE UNCHANGED applications
  BY <1>1 DEF CreateInsert
<1>2. CASE ~ UNCHANGED applications
  <2>0. ~ HasActive(req[r].job, req[r].candidate) /\ StageExists(req[r].stage)
    BY <1>2 DEF CreateInsert
  <2>1. PICK a \in Application \ Applications : applications' = [applications EXCEPT ![a] = row]
    BY <1>2 DEF CreateInsert
  <2>2. req[r].job \in Job /\ req[r].candidate \in Candidate /\ req[r].stage \in Stage
    BY RequestFields DEF CreateInsert, At, ServiceInv
  <2>3. \A b \in Application : Ledger!IsActive(b) =>
            applications[b].job # req[r].job \/ applications[b].candidate # req[r].candidate
    BY <2>0 DEF HasActive, Ledger!IsActive, Ledger!Exists, Applications
  <2>4. ~ Ledger!Exists(a)
    BY <2>1 DEF Ledger!Exists, Applications
  <2>5. UNCHANGED <<stageHistory, auditLog>>
    BY DEF CreateInsert
  <2>6. Ledger!Apply(a)
    BY <2>1, <2>2, <2>3, <2>4, <2>5 DEF Ledger!Apply
  <2> QED
    BY <2>6
<1> QED
  BY <1>1, <1>2 DEF CreateInsert

\* Every other step is a step of the ledger on the application it works on.
LEMMA ContinueStepsOn ==
    ASSUME TablesTypeOK, ServiceInv, NEW r \in Request, ContinueApplication(r)
    PROVE  \/ UNCHANGED <<applications, stageHistory, auditLog>>
           \/ \E a \in Application : Ledger!Apply(a)
           \/ StepOn(r, req[r].app)
<1> DEFINE a == req[r].app
<1> USE DEF At, StepOn
<1>1. CASE CreateResolveCv(r) \/ CreateFindStage(r) \/ ScreenFindNext(r) \/ Notify(r)
  BY <1>1 DEF CreateResolveCv, CreateFindStage, ScreenFindNext, Notify, tables
<1>2. CASE CreateInsert(r)
  BY <1>2, InsertLedger
<1>3. CASE WithdrawUpdate(r)
  <2>1. a \in Applications
    BY <1>3, AppExists DEF WithdrawUpdate, OnApplication
  <2>2. Ledger!Withdraw(a)
    BY <1>3, <2>1 DEF WithdrawUpdate, SetStatus, Ledger!Withdraw, Ledger!Exists, Applications
  <2> QED
    BY <1>3, <2>1, <2>2 DEF WithdrawUpdate
<1>4. CASE DecideHire(r)
  <2>1. a \in Applications
    BY <1>4, AppExists DEF DecideHire, OnApplication
  <2>2. Ledger!Decide(a, "HIRED", "hired")
    BY <1>4, <2>1 DEF DecideHire, Decision, SetStatus, Ledger!Decide, Ledger!Exists, Applications
  <2> QED
    BY <1>4, <2>1, <2>2 DEF DecideHire
<1>5. CASE ScreenReject(r) \/ DecideReject(r)
  <2>1. a \in Applications
    BY <1>5, AppExists DEF ScreenReject, DecideReject, OnApplication
  <2>2. Ledger!Decide(a, "REJECTED", "rejected")
    BY <1>5, <2>1 DEF ScreenReject, DecideReject, Decision, SetStatus, Ledger!Decide,
                      Ledger!Exists, Applications
  <2> QED
    BY <1>5, <2>1, <2>2 DEF ScreenReject, DecideReject
<1>6. CASE ScreenMove(r)
  <2>1. a \in Applications
    BY <1>6, AppExists DEF ScreenMove, OnApplication
  <2>2. req[r].stage \in Stage /\ req[r].next \in Stage
    BY <1>6, RequestFields DEF ScreenMove, ServiceInv
  <2>3. CASE UNCHANGED <<applications, stageHistory>>
    BY <1>6, <2>3 DEF ScreenMove
  <2>4. CASE StageExists(req[r].next)
    <3>1. Ledger!Move(a, req[r].stage, req[r].next)
      BY <1>6, <2>1, <2>4 DEF ScreenMove, HistoryEntry, Ledger!Move, Ledger!Exists, Applications
    <3> QED
      BY <1>6, <2>1, <2>2, <3>1 DEF ScreenMove
  <2> QED
    BY <1>6, <2>3, <2>4 DEF ScreenMove
<1> QED
  BY <1>1, <1>2, <1>3, <1>4, <1>5, <1>6 DEF ContinueApplication

LEMMA ContinueLedger ==
    ASSUME TablesTypeOK, ServiceInv, NEW r \in Request, ContinueApplication(r)
    PROVE  LedgerStep
  BY ContinueStepsOn DEF LedgerStep, StepOn, Ledger!Step, Applications

-----------------------------------------------------------------------------
(* Types. *)

\* Every step of a handler keeps the rows of the tables well-formed.
LEMMA ContinueTypes ==
    ASSUME TablesTypeOK, ServiceInv, NEW r \in Request, ContinueApplication(r)
    PROVE  TablesTypeOK' /\ UNCHANGED <<jobs, stages>>
<1> DEFINE a == req[r].app
<1> USE DEF At
<1>1. CASE CreateResolveCv(r) \/ CreateFindStage(r) \/ ScreenFindNext(r)
  BY <1>1 DEF CreateResolveCv, CreateFindStage, ScreenFindNext, tables, TablesTypeOK
<1>2. CASE CreateInsert(r)
  <2>1. req[r].job \in Job /\ req[r].candidate \in Candidate /\ req[r].stage \in Stage
    BY <1>2, RequestFields DEF CreateInsert, ServiceInv
  <2>2. [job |-> req[r].job, candidate |-> req[r].candidate, stage |-> req[r].stage,
         status |-> "ACTIVE"] \in ApplicationRow
    BY <2>1 DEF ApplicationRow, ApplicationStatus
  <2>3. applications' \in [Application -> ApplicationRow \cup {None}]
    BY <1>2, <2>2 DEF CreateInsert, TablesTypeOK
  <2> QED
    BY <1>2, <2>3 DEF CreateInsert, TablesTypeOK
<1>3. CASE WithdrawUpdate(r)
  <2>1. a \in Applications /\ "WITHDRAWN" \in ApplicationStatus
    BY <1>3, AppExists DEF WithdrawUpdate, OnApplication, ApplicationStatus
  <2>2. applications' \in [Application -> ApplicationRow \cup {None}]
    BY <1>3, <2>1, SetStatusRow DEF WithdrawUpdate
  <2> QED
    BY <1>3, <2>2 DEF WithdrawUpdate, TablesTypeOK
<1>4. ASSUME a \in Applications, NEW status \in ApplicationStatus, NEW action \in AuditAction,
             Decision(r, status, action)
      PROVE  TablesTypeOK' /\ UNCHANGED <<jobs, stages>>
  <2>1. applications' \in [Application -> ApplicationRow \cup {None}]
    BY <1>4, SetStatusRow DEF Decision
  <2>2. auditLog' \in [Application -> Seq(AuditAction)]
    BY <1>4 DEF Decision, TablesTypeOK, Applications
  <2> QED
    BY <1>4, <2>1, <2>2 DEF Decision, TablesTypeOK
<1>5. CASE ScreenReject(r) \/ DecideHire(r) \/ DecideReject(r)
  <2>1. a \in Applications
    BY <1>5, AppExists DEF ScreenReject, DecideHire, DecideReject, OnApplication
  <2> QED
    BY <1>4, <1>5, <2>1 DEF ScreenReject, DecideHire, DecideReject, ApplicationStatus, AuditAction
<1>6. CASE ScreenMove(r)
  <2>1. a \in Applications
    BY <1>6, AppExists DEF ScreenMove, OnApplication
  <2>2. req[r].stage \in Stage /\ req[r].next \in Stage
    BY <1>6, RequestFields DEF ScreenMove, ServiceInv
  <2>3. CASE UNCHANGED <<applications, stageHistory>>
    BY <1>6, <2>3 DEF ScreenMove, TablesTypeOK
  <2>4. CASE StageExists(req[r].next)
    <3>1. applications' \in [Application -> ApplicationRow \cup {None}]
      BY <1>6, <2>1, <2>2, <2>4, MoveRow DEF ScreenMove
    <3>2. HistoryEntry(r) \in HistoryRow
      BY <2>2 DEF HistoryEntry, HistoryRow
    <3>3. stageHistory' \in [Application -> Seq(HistoryRow)]
      <4>1. stageHistory' = [stageHistory EXCEPT ![a] = Append(stageHistory[a], HistoryEntry(r))]
        BY <1>6, <2>4 DEF ScreenMove
      <4> QED
        BY <2>1, <3>2, <4>1 DEF TablesTypeOK, Applications
    <3> QED
      BY <1>6, <3>1, <3>3 DEF ScreenMove, TablesTypeOK
  <2> QED
    BY <1>6, <2>3, <2>4 DEF ScreenMove
<1>7. CASE Notify(r)
  <2>1. a \in Application
    BY <1>7, RequestFields DEF Notify, OnApplication, ServiceInv
  <2> QED
    BY <1>7, <2>1 DEF Notify, TablesTypeOK
<1> QED
  BY <1>1, <1>2, <1>3, <1>5, <1>6, <1>7 DEF ContinueApplication

-----------------------------------------------------------------------------
(* What the handlers rely on stays true. *)

\* Applications stay, with their jobs, and stages stay in their jobs.
Stable ==
    /\ \A a \in Applications :
          a \in Applications' /\ applications'[a].job = applications[a].job
    /\ \A s \in Stage : stages[s] # None =>
          /\ stages'[s] # None
          /\ StageExists(s)' => StageExists(s) /\ stages'[s].job = stages[s].job

\* A step that only adds to the tables disturbs no request but its own.
LEMMA RequestsHold ==
    ASSUME ServiceInv, NEW r \in Request, NEW x, Goto(r, x), Stable,
           Holds(x, applications', stages')
    PROVE  (RequestsTyped /\ AppsKnown /\ StagesHeld)'
<1>1. req'[r] = x /\ \A q \in Request \ {r} : req'[q] = req[q]
  BY DEF ServiceInv, RequestsTyped, Goto
<1>2. req' = [q \in Request |-> req'[q]]
  BY DEF ServiceInv, RequestsTyped, Goto
<1>3. RequestsTyped'
  BY <1>1, <1>2 DEF ServiceInv, RequestsTyped, Holds
<1>4. AppsKnown'
  BY <1>1 DEF ServiceInv, AppsKnown, Holds, Stable, Applications
<1>5. ASSUME NEW q \in Request \ {r}
      PROVE  /\ At(q, "insert")' => OfJob(stages, req[q].stage, req[q].job)'
             /\ At(q, "move")' => OfJob(stages, req[q].next, applications[req[q].app].job)'
  <2>1. req'[q] = req[q]
    BY <1>1
  <2>2. ASSUME NEW s \in Stage, NEW j, OfJob(stages, s, j)
        PROVE  stages'[s] # None /\ (stages'[s] \notin {None, Deleted} => stages'[s].job = j)
    BY <2>2 DEF Stable, OfJob, StageExists
  <2>3. CASE At(q, "insert")
    <3>1. req[q].stage \in Stage /\ OfJob(stages, req[q].stage, req[q].job)
      BY <2>3, RequestFields DEF ServiceInv, StagesHeld, At
    <3> QED
      BY <2>1, <2>2, <2>3, <3>1 DEF At, OfJob, StageExists
  <2>4. CASE At(q, "move")
    <3>1. /\ req[q].next \in Stage /\ req[q].app \in Applications
          /\ OfJob(stages, req[q].next, applications[req[q].app].job)
      BY <2>4, RequestFields DEF ServiceInv, StagesHeld, AppsKnown, At, OnApplication
    <3>2. applications'[req[q].app].job = applications[req[q].app].job
      BY <3>1 DEF Stable
    <3> QED
      BY <2>1, <2>2, <2>4, <3>1, <3>2 DEF At, OfJob, StageExists
  <2> QED
    BY <2>1, <2>3, <2>4 DEF At
<1>6. StagesHeld'
  BY <1>1, <1>5 DEF StagesHeld, Holds, At
<1> QED
  BY <1>3, <1>4, <1>6

\* What a handler holds after a step is what its next statement needs.
LEMMA ContinueHolds ==
    ASSUME TablesTypeOK, ServiceInv, NEW r \in Request, ContinueApplication(r)
    PROVE  \E x \in After : Goto(r, x) /\ Holds(x, applications', stages')
<1> USE DEF At
<1>0. Done \in After /\ Holds(Done, applications', stages')
  BY DEF After, Holds, Done, ApplicationPC, OnApplication
<1>1. CASE CreateResolveCv(r)
  <2> DEFINE x == [pc |-> "firstStage", job |-> req[r].job, candidate |-> req[r].candidate]
  <2>1. x \in After
    BY <1>1, RequestFields DEF CreateResolveCv, After, ApplicationRequest, ServiceInv
  <2>2. Holds(x, applications', stages')
    BY <2>1 DEF Holds, After, ApplicationPC, OnApplication, Done, Applications
  <2>3. Goto(r, x) \/ Goto(r, Done)
    BY <1>1 DEF CreateResolveCv, Finish
  <2> HIDE DEF x
  <2> QED
    BY <1>0, <2>1, <2>2, <2>3
<1>2. CASE CreateFindStage(r)
  <2>1. CASE Goto(r, Done)
    BY <1>0, <2>1
  <2>2. ASSUME NEW s \in FirstStages(req[r].job),
               Goto(r, [pc |-> "insert", job |-> req[r].job,
                        candidate |-> req[r].candidate, stage |-> s])
        PROVE  \E x \in After : Goto(r, x) /\ Holds(x, applications', stages')
    <3> DEFINE x == [pc |-> "insert", job |-> req[r].job,
                     candidate |-> req[r].candidate, stage |-> s]
    <3>1. s \in Stage /\ OfJob(stages, s, req[r].job) /\ UNCHANGED stages
      BY <1>2 DEF FirstStages, StagesOf, OfJob, StageExists, CreateFindStage, tables
    <3>2. x \in After
      BY <1>2, <3>1, RequestFields DEF CreateFindStage, After, ApplicationRequest, ServiceInv
    <3>3. Holds(x, applications', stages')
      BY <3>1, <3>2 DEF Holds, After, ApplicationPC, OnApplication, Done, OfJob, StageExists
    <3> QED
      BY <2>2, <3>2, <3>3
  <2> QED
    BY <1>2, <2>1, <2>2 DEF CreateFindStage, Finish
<1>3. CASE CreateInsert(r) \/ WithdrawUpdate(r) \/ ScreenMove(r) \/ DecideHire(r) \/ Notify(r)
  BY <1>0, <1>3 DEF CreateInsert, WithdrawUpdate, ScreenMove, DecideHire, Notify, Finish
<1>4. CASE ScreenReject(r) \/ DecideReject(r)
  <2> DEFINE x == [pc |-> "notify", app |-> req[r].app]
  <2>1. req[r].app \in Applications
    BY <1>4, AppExists DEF ScreenReject, DecideReject, OnApplication
  <2>2. req[r].app \in Applications'
    BY <1>4, <2>1, SetStatusRow DEF ScreenReject, DecideReject, Decision, ApplicationStatus
  <2>3. x \in After
    BY <2>1 DEF After, ApplicationRequest, Applications
  <2>4. Holds(x, applications', stages')
    BY <2>2, <2>3 DEF Holds, After, ApplicationPC, OnApplication, Done, Applications
  <2> QED
    BY <1>4, <2>3, <2>4 DEF ScreenReject, DecideReject
<1>5. CASE ScreenFindNext(r)
  <2>1. CASE Goto(r, Done)
    BY <1>0, <2>1
  <2>2. ASSUME NEW s \in NextStages(r),
               Goto(r, [pc |-> "move", app |-> req[r].app, stage |-> req[r].stage, next |-> s])
        PROVE  \E x \in After : Goto(r, x) /\ Holds(x, applications', stages')
    <3> DEFINE x == [pc |-> "move", app |-> req[r].app, stage |-> req[r].stage, next |-> s]
    <3>1. /\ s \in Stage
          /\ OfJob(stages, s, applications[req[r].app].job)
          /\ UNCHANGED <<stages, applications>>
      BY <1>5 DEF NextStages, StagesAt, StagesOf, OfJob, StageExists, ScreenFindNext, tables
    <3>2. req[r].app \in Applications
      BY <1>5, AppExists DEF ScreenFindNext, OnApplication
    <3>3. x \in After
      BY <1>5, <3>1, <3>2, RequestFields
      DEF ScreenFindNext, After, ApplicationRequest, ServiceInv, Applications
    <3>4. Holds(x, applications', stages')
      BY <3>1, <3>2, <3>3
      DEF Holds, After, ApplicationPC, OnApplication, Done, OfJob, StageExists, Applications
    <3> QED
      BY <2>2, <3>3, <3>4
  <2> QED
    BY <1>5, <2>1, <2>2 DEF ScreenFindNext, Finish
<1> QED
  BY <1>1, <1>2, <1>3, <1>4, <1>5 DEF ContinueApplication

\* A step of a handler leaves every application and every stage where it is,
\* but for the application it inserts and the one it moves within its job.
LEMMA ContinueStable ==
    ASSUME TablesTypeOK, ServiceInv, NEW r \in Request, ContinueApplication(r)
    PROVE  Stable /\ StageOfOwnJob'
<1> DEFINE a == req[r].app
<1>0. UNCHANGED stages
  BY ContinueTypes
<1>1. ASSUME UNCHANGED applications
      PROVE  Stable /\ StageOfOwnJob'
  BY <1>0, <1>1 DEF Stable, ServiceInv, StageOfOwnJob, StageExists, Applications
<1>2. ASSUME a \in Applications, NEW status \in ApplicationStatus, SetStatus(a, status)
      PROVE  Stable /\ StageOfOwnJob'
  <2>1. \A b \in Applications :
            /\ applications'[b].job = applications[b].job
            /\ applications'[b].stage = applications[b].stage
    BY <1>2, SetStatusRow DEF Applications
  <2>2. Applications' = Applications
    BY <1>2, SetStatusRow
  <2> QED
    BY <1>0, <2>1, <2>2 DEF Stable, ServiceInv, StageOfOwnJob, StageExists
<1>3. CASE CreateInsert(r) /\ ~ UNCHANGED applications
  <2> DEFINE row == [job |-> req[r].job, candidate |-> req[r].candidate,
                     stage |-> req[r].stage, status |-> "ACTIVE"]
  <2>1. PICK b \in Application \ Applications : applications' = [applications EXCEPT ![b] = row]
    BY <1>3 DEF CreateInsert
  <2>2. StageExists(req[r].stage) /\ stages[req[r].stage].job = req[r].job
    BY <1>3 DEF CreateInsert, ServiceInv, StagesHeld, OfJob, StageExists
  <2>3. applications'[b] = row
    BY <2>1 DEF TablesTypeOK
  <2>4. \A c \in Application \ {b} : applications'[c] = applications[c]
    BY <2>1 DEF TablesTypeOK
  <2>5. Stable
    BY <1>0, <2>1, <2>4 DEF Stable, Applications, StageExists
  <2>6. StageOfOwnJob'
    BY <1>0, <2>2, <2>3, <2>4 DEF ServiceInv, StageOfOwnJob, StageExists, Applications
  <2> QED
    BY <2>5, <2>6
<1>4. CASE ScreenMove(r) /\ StageExists(req[r].next)
  <2>1. a \in Applications /\ req[r].next \in Stage
    BY <1>4, AppExists, RequestFields DEF ScreenMove, OnApplication, ServiceInv, At
  <2>2. applications' = [applications EXCEPT ![a].stage = req[r].next]
    BY <1>4 DEF ScreenMove
  <2>3. applications'[a].job = applications[a].job /\ applications'[a].stage = req[r].next
    BY <2>1, <2>2, MoveRow
  <2>4. \A b \in Application \ {a} : applications'[b] = applications[b]
    BY <2>1, <2>2, MoveRow
  <2>5. Applications' = Applications
    BY <2>1, <2>2, MoveRow
  <2>6. stages[req[r].next].job = applications[a].job
    BY <1>4 DEF ScreenMove, ServiceInv, StagesHeld, OfJob, StageExists
  <2>7. Stable
    BY <1>0, <2>3, <2>4, <2>5 DEF Stable, StageExists, Applications
  <2>8. StageOfOwnJob'
    BY <1>0, <1>4, <2>3, <2>4, <2>5, <2>6 DEF ServiceInv, StageOfOwnJob, StageExists, Applications
  <2> QED
    BY <2>7, <2>8
<1>5. CASE WithdrawUpdate(r) \/ ScreenReject(r) \/ DecideHire(r) \/ DecideReject(r)
  <2>1. a \in Applications
    BY <1>5, AppExists DEF WithdrawUpdate, ScreenReject, DecideHire, DecideReject, OnApplication, At
  <2> QED
    BY <1>2, <1>5, <2>1
    DEF WithdrawUpdate, ScreenReject, DecideHire, DecideReject, Decision, ApplicationStatus
<1>6. CASE CreateResolveCv(r) \/ CreateFindStage(r) \/ ScreenFindNext(r) \/ Notify(r)
  BY <1>1, <1>6 DEF CreateResolveCv, CreateFindStage, ScreenFindNext, Notify, tables
<1> QED
  BY <1>1, <1>3, <1>4, <1>5, <1>6 DEF ContinueApplication, ScreenMove

\* Whatever handler a request begins or carries on, what the others rely on stays.
LEMMA ServiceInvPreserved ==
    ASSUME TablesTypeOK, ServiceInv, NEW r \in Request,
           BeginApplication(r) \/ ContinueApplication(r)
    PROVE  ServiceInv'
<1>1. CASE BeginApplication(r)
  <2>1. PICK x \in After : Goto(r, x) /\ Holds(x, applications, stages)
    BY <1>1, BeginGoto
  <2>2. UNCHANGED <<applications, stages>>
    BY <1>1, BeginGoto DEF tables
  <2>3. Stable /\ StageOfOwnJob'
    BY <2>2 DEF Stable, ServiceInv, StageOfOwnJob, StageExists, Applications
  <2> QED
    BY <2>1, <2>2, <2>3, RequestsHold DEF ServiceInv
<1>2. CASE ContinueApplication(r)
  <2>1. PICK x \in After : Goto(r, x) /\ Holds(x, applications', stages')
    BY <1>2, ContinueHolds
  <2> QED
    BY <1>2, <2>1, ContinueStable, RequestsHold DEF ServiceInv
<1> QED
  BY <1>1, <1>2

-----------------------------------------------------------------------------
(* What the steps of the ledger preserve. *)

\* An id that no application has yet has no rows in the logs.
FreshLogs ==
    \A a \in Application \ Applications : stageHistory[a] = <<>> /\ auditLog[a] = <<>>

LedgerInv == OneActiveApplication /\ DecisionsRecorded /\ StageIsLastMove /\ FreshLogs

\* What an audit log that ends in a decision says of its application.
Recorded(a) ==
    /\ applications[a].status = "HIRED" =>
          auditLog[a] # <<>> /\ auditLog[a][Len(auditLog[a])] = "hired"
    /\ applications[a].status = "REJECTED" =>
          auditLog[a] # <<>> /\ auditLog[a][Len(auditLog[a])] = "rejected"
    /\ applications[a].status = "ACTIVE" => auditLog[a] = <<>>

\* A step of the ledger keeps the audit logs in line with the statuses.
LEMMA DecisionsStayRecorded ==
    ASSUME TablesTypeOK, DecisionsRecorded, FreshLogs, LedgerStep
    PROVE  DecisionsRecorded'
<1>0. \A b \in Applications : Recorded(b)
  BY DEF DecisionsRecorded, Recorded
<1>1. CASE UNCHANGED <<applications, stageHistory, auditLog>>
  BY <1>1 DEF DecisionsRecorded, Applications
<1>2. ASSUME NEW a \in Application, Ledger!Step(a)
      PROVE  DecisionsRecorded'
  <2>1. SUFFICES ASSUME NEW b \in Applications'
                 PROVE  Recorded(b)'
    BY DEF DecisionsRecorded, Recorded
  <2>2. CASE Ledger!Apply(a)
    <3>1. PICK j \in Job, c \in Candidate, s \in Stage :
              applications' = [applications EXCEPT ![a] =
                  [job |-> j, candidate |-> c, stage |-> s, status |-> "ACTIVE"]]
      BY <2>2 DEF Ledger!Apply
    <3>2. auditLog' = auditLog /\ auditLog[a] = <<>>
      BY <2>2 DEF Ledger!Apply, Ledger!Exists, FreshLogs, Applications
    <3> QED
      BY <1>0, <3>1, <3>2 DEF Recorded, Applications, TablesTypeOK
  <2>3. CASE Ledger!Withdraw(a)
    <3>1. a \in Applications /\ SetStatus(a, "WITHDRAWN") /\ auditLog' = auditLog
      BY <2>3 DEF Ledger!Withdraw, Ledger!Exists, SetStatus, Applications
    <3>2. /\ Applications' = Applications /\ applications'[a].status = "WITHDRAWN"
          /\ \A c \in Application \ {a} : applications'[c] = applications[c]
      BY <3>1, SetStatusRow DEF ApplicationStatus
    <3> QED
      BY <1>0, <3>1, <3>2 DEF Recorded, Applications
  <2>4. ASSUME NEW status, NEW action, Ledger!Decide(a, status, action),
               <<status, action>> \in {<<"HIRED", "hired">>, <<"REJECTED", "rejected">>}
        PROVE  Recorded(b)'
    <3>1. a \in Applications /\ SetStatus(a, status)
      BY <2>4 DEF Ledger!Decide, Ledger!Exists, SetStatus, Applications
    <3>2. /\ auditLog' = [auditLog EXCEPT ![a] = Append(auditLog[a], action)]
          /\ auditLog \in [Application -> Seq(AuditAction)]
          /\ action \in AuditAction
      BY <2>4 DEF Ledger!Decide, TablesTypeOK, AuditAction
    <3>3. auditLog'[a] # <<>> /\ auditLog'[a][Len(auditLog'[a])] = action
      BY <3>2
    <3>4. \A c \in Application \ {a} : auditLog'[c] = auditLog[c]
      BY <3>2
    <3>5. applications'[a].status = status
      BY <2>4, <3>1, SetStatusRow DEF ApplicationStatus
    <3>6. Applications' = Applications /\ \A c \in Application \ {a} : applications'[c] = applications[c]
      BY <2>4, <3>1, SetStatusRow DEF ApplicationStatus
    <3> QED
      BY <1>0, <2>4, <3>3, <3>4, <3>5, <3>6 DEF Recorded, Applications
  <2>5. ASSUME NEW from \in Stage, NEW to \in Stage, Ledger!Move(a, from, to)
        PROVE  Recorded(b)'
    <3>1. /\ a \in Applications /\ auditLog' = auditLog
          /\ applications' = [applications EXCEPT ![a].stage = to]
      BY <2>5 DEF Ledger!Move, Ledger!Exists, Applications
    <3>2. /\ Applications' = Applications
          /\ applications'[a].status = applications[a].status
          /\ \A c \in Application \ {a} : applications'[c] = applications[c]
      BY <3>1, MoveRow
    <3> QED
      BY <1>0, <3>1, <3>2 DEF Recorded, Applications
  <2> QED
    BY <1>2, <2>2, <2>3, <2>4, <2>5 DEF Ledger!Step
<1> QED
  BY <1>1, <1>2 DEF LedgerStep

\* A step of the ledger leaves the rows it does not name as they are, and a row
\* it names is new and ACTIVE, or keeps its job and candidate and becomes ACTIVE
\* no more.
LEMMA LedgerRows ==
    ASSUME TablesTypeOK, NEW a \in Application, Ledger!Step(a), ~ Ledger!Apply(a)
    PROVE  /\ a \in Applications /\ Applications' = Applications
           /\ applications'[a].job = applications[a].job
           /\ applications'[a].candidate = applications[a].candidate
           /\ applications'[a].status = "ACTIVE" => applications[a].status = "ACTIVE"
           /\ \A b \in Application \ {a} : applications'[b] = applications[b]
<1>1. ASSUME NEW status \in ApplicationStatus \ {"ACTIVE"}, Ledger!Exists(a), SetStatus(a, status)
      PROVE  /\ a \in Applications /\ Applications' = Applications
             /\ applications'[a].job = applications[a].job
             /\ applications'[a].candidate = applications[a].candidate
             /\ applications'[a].status # "ACTIVE"
             /\ \A b \in Application \ {a} : applications'[b] = applications[b]
  <2>1. a \in Applications
    BY <1>1 DEF Ledger!Exists, Applications
  <2> QED
    BY <1>1, <2>1, SetStatusRow
<1>2. CASE Ledger!Withdraw(a) \/ Ledger!Decide(a, "HIRED", "hired")
             \/ Ledger!Decide(a, "REJECTED", "rejected")
  BY <1>1, <1>2 DEF Ledger!Withdraw, Ledger!Decide, SetStatus, ApplicationStatus
<1>3. CASE \E from, to \in Stage : Ledger!Move(a, from, to)
  <2>1. PICK from \in Stage, to \in Stage : Ledger!Move(a, from, to)
    BY <1>3
  <2>2. a \in Applications /\ applications' = [applications EXCEPT ![a].stage = to]
    BY <2>1 DEF Ledger!Move, Ledger!Exists, Applications
  <2> QED
    BY <2>2, MoveRow
<1> QED
  BY <1>2, <1>3 DEF Ledger!Step

\* A step of the ledger keeps the ACTIVE application of a candidate for a job unique.
LEMMA ActiveStaysUnique ==
    ASSUME TablesTypeOK, OneActiveApplication, LedgerStep
    PROVE  OneActiveApplication'
<1>1. CASE UNCHANGED <<applications, stageHistory, auditLog>>
  BY <1>1 DEF OneActiveApplication, Applications
<1>2. ASSUME NEW a \in Application, Ledger!Apply(a)
      PROVE  OneActiveApplication'
  <2>1. PICK j \in Job, c \in Candidate, s \in Stage :
            /\ \A b \in Application : Ledger!IsActive(b) =>
                  applications[b].job # j \/ applications[b].candidate # c
            /\ applications' = [applications EXCEPT ![a] =
                  [job |-> j, candidate |-> c, stage |-> s, status |-> "ACTIVE"]]
    BY <1>2 DEF Ledger!Apply
  <2>2. applications'[a].job = j /\ applications'[a].candidate = c
    BY <2>1 DEF TablesTypeOK
  <2>3. \A b \in Application \ {a} : applications'[b] = applications[b]
    BY <2>1 DEF TablesTypeOK
  <2> QED
    BY <2>1, <2>2, <2>3 DEF OneActiveApplication, Applications, Ledger!IsActive, Ledger!Exists
<1>3. ASSUME NEW a \in Application, Ledger!Step(a), ~ Ledger!Apply(a)
      PROVE  OneActiveApplication'
  BY <1>3, LedgerRows DEF OneActiveApplication, Applications
<1> QED
  BY <1>1, <1>2, <1>3 DEF LedgerStep

\* A step of the ledger writes logs only of applications there are.
LEMMA LogsStayFresh ==
    ASSUME TablesTypeOK, FreshLogs, LedgerStep
    PROVE  FreshLogs'
<1>1. CASE UNCHANGED <<applications, stageHistory, auditLog>>
  BY <1>1 DEF FreshLogs, Applications
<1>2. ASSUME NEW a \in Application, Ledger!Apply(a)
      PROVE  FreshLogs'
  BY <1>2 DEF FreshLogs, Applications, Ledger!Apply, Ledger!Exists, TablesTypeOK
<1>3. ASSUME NEW a \in Application, Ledger!Step(a), ~ Ledger!Apply(a)
      PROVE  FreshLogs'
  <2>1. a \in Applications /\ Applications' = Applications
    BY <1>3, LedgerRows
  <2>2. \A b \in Application \ {a} :
            stageHistory'[b] = stageHistory[b] /\ auditLog'[b] = auditLog[b]
    BY <1>3 DEF Ledger!Step, Ledger!Withdraw, Ledger!Decide, Ledger!Move, TablesTypeOK
  <2> QED
    BY <2>1, <2>2 DEF FreshLogs
<1> QED
  BY <1>1, <1>2, <1>3 DEF LedgerStep

\* A step of the ledger moves an application and its history together.
LEMMA HistoryFollowsStage ==
    ASSUME TablesTypeOK, StageIsLastMove, FreshLogs, LedgerStep
    PROVE  StageIsLastMove'
<1>1. CASE UNCHANGED <<applications, stageHistory, auditLog>>
  BY <1>1 DEF StageIsLastMove, Applications
<1>2. ASSUME NEW a \in Application, Ledger!Apply(a)
      PROVE  StageIsLastMove'
  <2>1. stageHistory' = stageHistory /\ stageHistory[a] = <<>>
    BY <1>2 DEF Ledger!Apply, Ledger!Exists, FreshLogs, Applications
  <2>2. \A b \in Application \ {a} : applications'[b] = applications[b]
    BY <1>2 DEF Ledger!Apply, TablesTypeOK
  <2> QED
    BY <2>1, <2>2 DEF StageIsLastMove, Applications
<1>3. ASSUME NEW a \in Application, NEW status \in ApplicationStatus, Ledger!Exists(a),
             SetStatus(a, status), stageHistory' = stageHistory
      PROVE  StageIsLastMove'
  <2>1. a \in Applications
    BY <1>3 DEF Ledger!Exists, Applications
  <2>2. /\ applications'[a].stage = applications[a].stage /\ Applications' = Applications
        /\ \A b \in Application \ {a} : applications'[b] = applications[b]
    BY <1>3, <2>1, SetStatusRow
  <2> QED
    BY <1>3, <2>2 DEF StageIsLastMove, Applications
<1>4. ASSUME NEW a \in Application, NEW from \in Stage, NEW to \in Stage, Ledger!Move(a, from, to)
      PROVE  StageIsLastMove'
  <2>1. a \in Applications /\ applications' = [applications EXCEPT ![a].stage = to]
    BY <1>4 DEF Ledger!Move, Ledger!Exists, Applications
  <2>2. /\ applications'[a].stage = to /\ Applications' = Applications
        /\ \A b \in Application \ {a} : applications'[b] = applications[b]
    BY <2>1, MoveRow
  <2> DEFINE row == [from |-> from, to |-> to]
  <2>3. row \in HistoryRow /\ row.to = to
    BY DEF HistoryRow
  <2>4. stageHistory' = [stageHistory EXCEPT ![a] = Append(stageHistory[a], row)]
    BY <1>4 DEF Ledger!Move
  <2> HIDE DEF row
  <2>5. stageHistory'[a][Len(stageHistory'[a])] = row
    BY <2>3, <2>4 DEF TablesTypeOK
  <2>6. \A b \in Application \ {a} : stageHistory'[b] = stageHistory[b]
    BY <2>4 DEF TablesTypeOK
  <2> QED
    BY <2>2, <2>3, <2>5, <2>6 DEF StageIsLastMove, Applications
<1> QED
  BY <1>1, <1>2, <1>3, <1>4
  DEF LedgerStep, Ledger!Step, Ledger!Withdraw, Ledger!Decide, SetStatus, ApplicationStatus

\* What the steps of the ledger preserve, together.
LEMMA LedgerInvPreserved ==
    ASSUME TablesTypeOK, LedgerInv, LedgerStep
    PROVE  LedgerInv'
  BY DecisionsStayRecorded, ActiveStaysUnique, LogsStayFresh, HistoryFollowsStage DEF LedgerInv

-----------------------------------------------------------------------------
(* The initial tables, and requests that end. *)

\* The service starts from rows as create() leaves them and empty logs.
LEMMA InitInv ==
    ASSUME TablesInit, RequestsInit
    PROVE  TablesTypeOK /\ ServiceInv /\ LedgerInv /\ Ledger!Init
<1>1. TablesTypeOK
  BY SeedAssumption DEF TablesInit, TablesTypeOK
<1>2. RequestsTyped /\ AppsKnown /\ StagesHeld
  BY DEF RequestsInit, Idle, RequestsTyped, AppsKnown, StagesHeld, ApplicationPC, OnApplication, At
<1>3. StageOfOwnJob
  <2>1. SUFFICES ASSUME NEW a \in Applications
                 PROVE  LET s == applications[a].stage
                        IN  StageExists(s) /\ stages[s].job = applications[a].job
    BY DEF StageOfOwnJob
  <2>2. applications[a] \in ApplicationRow /\ applications[a].stage \in Stage
    BY <1>1 DEF Applications, TablesTypeOK, ApplicationRow
  <2>3. stages[applications[a].stage] \in StageRow
    BY <2>2, SeedAssumption DEF TablesInit, Applications
  <2> QED
    BY <2>2, <2>3, SeedAssumption, NoneAssumption DEF TablesInit, Applications, StageExists
<1>4. OneActiveApplication
  BY SeedAssumption DEF TablesInit, OneActiveApplication, Applications
<1>5. DecisionsRecorded /\ StageIsLastMove /\ FreshLogs
  <2>1. \A a \in Applications : applications[a].status = "ACTIVE"
    BY SeedAssumption DEF TablesInit, Applications
  <2> QED
    BY <2>1 DEF TablesInit, DecisionsRecorded, StageIsLastMove, FreshLogs, Applications
<1>6. Ledger!Init
  BY SeedAssumption DEF TablesInit, Ledger!Init, Ledger!Exists, Ledger!IsActive, Ledger!Same
<1> QED
  BY <1>1, <1>2, <1>3, <1>4, <1>5, <1>6 DEF ServiceInv, LedgerInv

\* The invariants survive a step that leaves the tables alone, and a request of
\* this service unless it ends.
LEMMA UntouchedInv ==
    ASSUME ServiceInv, LedgerInv, UNCHANGED tables,
           UNCHANGED req \/ \E r \in Request : Finish(r) \/ Goto(r, Lost)
    PROVE  ServiceInv' /\ LedgerInv'
<1>1. LedgerInv'
  BY DEF LedgerInv, OneActiveApplication, DecisionsRecorded, StageIsLastMove, FreshLogs,
         Applications, tables
<1>2. StageOfOwnJob' /\ Stable
  BY DEF ServiceInv, StageOfOwnJob, Stable, StageExists, Applications, tables
<1>3. CASE UNCHANGED req
  BY <1>1, <1>2, <1>3 DEF ServiceInv, RequestsTyped, AppsKnown, StagesHeld, OfJob, At,
                          Applications, tables
<1>4. ASSUME NEW r \in Request, NEW end \in {Done, Lost}, Goto(r, end)
      PROVE  ServiceInv'
  <2>1. Goto(r, end) /\ Holds(end, applications', stages')
    BY <1>4 DEF Holds, Done, Lost, ApplicationPC, OnApplication
  <2> QED
    BY <1>2, <2>1, RequestsHold DEF ServiceInv
<1> QED
  BY <1>1, <1>3, <1>4 DEF Finish

=============================================================================
