-------------------------- MODULE Placement_proofs --------------------------
(***************************************************************************)
(* Theorems on the way from a hiring decision to onboarding.  The rows a    *)
(* handler relies on may be overwritten while it awaits, so the invariant   *)
(* speaks of what is on record of them: audit rows, answers and checklists, *)
(* which are only ever added to.                                            *)
(***************************************************************************)
EXTENDS Placement, ApplicationsService_proofs, FiniteSetTheorems

OfferRowsInv ==
    /\ offers \in [Application -> OfferStatus \cup {None}]
    /\ answers \in [Application -> Seq(Outcome)]
    /\ \A a \in Application : offers[a] = "ACCEPTED" => InLog(answers[a], "ACCEPTED")
    /\ OfferFollowsHire

OnboardingRowsInv ==
    /\ checklists \subseteq Application
    /\ tasks \in [Task -> Application \cup {None}]
    /\ documents \in [File -> Task \cup {None}]
    /\ files \subseteq File
    /\ \A f \in File : documents[f] # None => f \in files
    /\ OnboardingFollowsAcceptance

\* What a request must hold for the next statement of its handler: what it has found
\* is on record, whatever has been written over it since.
Wants == {"addTask", "completeTask", "upload"}

PlacementHolds(x, log, offer, answered, lists) ==
    /\ x.pc = "offer" => x.app \in Application /\ InLog(log[x.app], "hired")
    /\ x.pc \in {"expire", "respond", "expireFirst", "findChecklist"} =>
         x.app \in Application /\ offer[x.app] # None
    /\ x.pc = "respond" => x.answer \in Answer
    /\ x.pc \in {"expireFirst", "findChecklist"} =>
         x = [pc |-> x.pc, app |-> x.app, wants |-> x.wants] /\ x.wants \in Wants
    /\ x.pc = "checklist" => x.app \in Application /\ InLog(answered[x.app], "ACCEPTED")
    /\ x.pc = "addTask" => x.app \in lists
    /\ x.pc \in {"completeTask", "upload", "document"} => x.task \in Task
    /\ x.pc = "document" => x.file \in File

HandlersInv ==
    \A r \in Request : PlacementHolds(req[r], auditLog, offers, answers, checklists)

\* An upload that has stored its file is the only one to record it.
UploadsInv ==
    \A r \in Request : At(r, "document") =>
        /\ req[r].file \in files /\ documents[req[r].file] = None
        /\ \A q \in Request : At(q, "document") /\ req[q].file = req[r].file => q = r

CoreInv == TablesTypeOK /\ ServiceInv /\ LedgerInv

IInv == CoreInv /\ OfferRowsInv /\ OnboardingRowsInv /\ HandlersInv /\ UploadsInv

-----------------------------------------------------------------------------
(* Logs. *)

\* An entry that is appended is in the log, with those that were.
LEMMA AppendKeeps ==
    ASSUME NEW S, NEW log \in Seq(S), NEW e \in S
    PROVE  /\ InLog(Append(log, e), e)
           /\ \A x : InLog(log, x) => InLog(Append(log, e), x)
<1>1. /\ Len(log) \in Nat /\ DOMAIN log = 1 .. Len(log)
      /\ DOMAIN Append(log, e) = 1 .. Len(log) + 1
      /\ Append(log, e)[Len(log) + 1] = e
      /\ \A i \in 1 .. Len(log) : Append(log, e)[i] = log[i]
  OBVIOUS
<1>2. InLog(Append(log, e), e)
  BY <1>1 DEF InLog
<1>3. ASSUME NEW x, InLog(log, x) PROVE InLog(Append(log, e), x)
  <2>1. PICK i \in 1 .. Len(log) : log[i] = x
    BY <1>1, <1>3 DEF InLog
  <2>2. i \in 1 .. Len(log) + 1
    BY <1>1
  <2> QED
    BY <1>1, <2>1, <2>2 DEF InLog
<1> QED
  BY <1>2, <1>3

\* A step of the ledger drops no audit row.
LEMMA AuditGrows ==
    ASSUME TablesTypeOK, LedgerStep, NEW a \in Application, InLog(auditLog[a], "hired")
    PROVE  InLog(auditLog'[a], "hired")
<1>1. ASSUME NEW b \in Application, NEW action \in AuditAction,
             auditLog' = [auditLog EXCEPT ![b] = Append(@, action)]
      PROVE  InLog(auditLog'[a], "hired")
  <2>1. auditLog \in [Application -> Seq(AuditAction)]
    BY DEF TablesTypeOK
  <2>2. CASE a = b
    <3>1. auditLog'[a] = Append(auditLog[a], action) /\ auditLog[a] \in Seq(AuditAction)
      BY <1>1, <2>1, <2>2
    <3> QED
      BY <3>1, AppendKeeps
  <2>3. CASE a # b
    BY <1>1, <2>1, <2>3
  <2> QED
    BY <2>2, <2>3
<1>2. CASE auditLog' = auditLog
  BY <1>2
<1> QED
  BY <1>1, <1>2
  DEF LedgerStep, Ledger!Step, Ledger!Apply, Ledger!Withdraw, Ledger!Decide, Ledger!Move,
      AuditAction

-----------------------------------------------------------------------------
(* What the handlers rely on stays on record. *)

Grows ==
    /\ \A a \in Application : InLog(auditLog[a], "hired") => InLog(auditLog'[a], "hired")
    /\ \A a \in Application : offers[a] # None => offers'[a] # None
    /\ \A a \in Application :
         InLog(answers[a], "ACCEPTED") => InLog(answers'[a], "ACCEPTED")
    /\ checklists \subseteq checklists'

\* A step that only adds to the records disturbs no request but its own.
LEMMA PlacementRequestsHold ==
    ASSUME HandlersInv, RequestsTyped, Grows, NEW r \in Request, NEW x, Goto(r, x),
           PlacementHolds(x, auditLog', offers', answers', checklists')
    PROVE  HandlersInv'
<1>1. req'[r] = x /\ \A q \in Request \ {r} : req'[q] = req[q]
  BY DEF RequestsTyped, Goto
<1>2. ASSUME NEW q \in Request \ {r}
      PROVE  PlacementHolds(req[q], auditLog', offers', answers', checklists')
  BY DEF HandlersInv, PlacementHolds, Grows
<1> QED
  BY <1>1, <1>2 DEF HandlersInv

\* A request that moves on without a file leaves the uploads in progress alone.
LEMMA UploadsHold ==
    ASSUME UploadsInv, RequestsTyped, NEW r \in Request, NEW x, Goto(r, x),
           x.pc # "document", UNCHANGED <<documents, files>>
    PROVE  UploadsInv'
<1>1. req'[r] = x /\ \A q \in Request \ {r} : req'[q] = req[q]
  BY DEF RequestsTyped, Goto
<1> QED
  BY <1>1 DEF UploadsInv, At

\* The recruitment core stands still while a request is in the other handlers.
LEMMA CoreKept ==
    ASSUME CoreInv, UNCHANGED tables, NEW r \in Request, NEW x, Goto(r, x),
           x.pc \notin ApplicationPC
    PROVE  CoreInv'
<1>1. TablesTypeOK' /\ LedgerInv'
  BY DEF CoreInv, TablesTypeOK, LedgerInv, OneActiveApplication, DecisionsRecorded,
         StageIsLastMove, FreshLogs, Applications, tables
<1>2. StageOfOwnJob' /\ Stable
  BY DEF CoreInv, ServiceInv, StageOfOwnJob, Stable, StageExists, Applications, tables
<1>3. Holds(x, applications', stages')
  BY DEF Holds, ApplicationPC, OnApplication
<1>4. ServiceInv'
  BY <1>2, <1>3, RequestsHold DEF CoreInv, ServiceInv
<1> QED
  BY <1>1, <1>4 DEF CoreInv

\* A step outside of the recruitment core that only adds to the records.
LEMMA RequestMoves ==
    ASSUME IInv, UNCHANGED tables, NEW r \in Request, NEW x, Goto(r, x),
           x.pc \notin ApplicationPC, Grows,
           PlacementHolds(x, auditLog', offers', answers', checklists')
    PROVE  CoreInv' /\ HandlersInv'
<1>1. RequestsTyped
  BY DEF IInv, CoreInv, ServiceInv
<1>2. CoreInv'
  BY CoreKept DEF IInv
<1>3. HandlersInv'
  BY <1>1, PlacementRequestsHold DEF IInv
<1> QED
  BY <1>2, <1>3

\* A step of a request that leaves every table alone.
LEMMA RequestReads ==
    ASSUME IInv, UNCHANGED <<tables, offerTables, onboardingTables>>,
           NEW r \in Request, NEW x, Goto(r, x),
           x.pc \notin ApplicationPC \cup {"document"},
           PlacementHolds(x, auditLog, offers, answers, checklists)
    PROVE  IInv'
<1> USE DEF tables, offerTables, onboardingTables
<1>1. CoreInv' /\ HandlersInv'
  <2>1. Grows
    BY DEF Grows
  <2>2. PlacementHolds(x, auditLog', offers', answers', checklists')
    OBVIOUS
  <2> QED
    BY <2>1, <2>2, RequestMoves
<1>2. OfferRowsInv' /\ OnboardingRowsInv'
  BY DEF IInv, OfferRowsInv, OnboardingRowsInv, OfferFollowsHire,
         OnboardingFollowsAcceptance, TasksOf
<1>3. UploadsInv'
  BY UploadsHold DEF IInv, CoreInv, ServiceInv
<1> QED
  BY <1>1, <1>2, <1>3 DEF IInv

-----------------------------------------------------------------------------
(* The initial state. *)

\* No offer and no checklist are on record at the start, and no request is under way.
LEMMA InitIInv == Init => IInv
<1> SUFFICES ASSUME Init PROVE IInv
  OBVIOUS
<1>1. CoreInv
  BY InitInv DEF Init, CoreInv
<1>2. OfferRowsInv
  BY OfferAssumption DEF Init, OfferTablesInit, OfferRowsInv, OfferFollowsHire, OfferStatus,
         OnboardingTablesInit
<1>3. OnboardingRowsInv
  BY DEF Init, OnboardingTablesInit, OnboardingRowsInv, OnboardingFollowsAcceptance
<1>4. HandlersInv /\ UploadsInv
  BY DEF Init, RequestsInit, Idle, HandlersInv, PlacementHolds, UploadsInv, At
<1> QED
  BY <1>1, <1>2, <1>3, <1>4 DEF IInv

-----------------------------------------------------------------------------
(* ApplicationsService. *)

\* Whatever is decided on applications, no audit row goes, and no offer rests on more.
LEMMA ApplicationSteps ==
    ASSUME IInv, NEW r \in Request, ApplicationStep(r)
    PROVE  IInv'
<1>0. UNCHANGED <<offers, lapsed, answers, checklists, tasks, completed, documents, files>>
  BY DEF ApplicationStep, offerTables, onboardingTables
<1>1. TablesTypeOK /\ ServiceInv /\ LedgerInv
  BY DEF IInv, CoreInv
<1>2. /\ TablesTypeOK' /\ LedgerStep
      /\ \E x \in After : Goto(r, x)
  <2>1. CASE BeginApplication(r)
    <3>1. UNCHANGED tables /\ \E x \in After : Goto(r, x)
      BY <1>1, <2>1, BeginGoto
    <3> QED
      BY <1>1, <3>1 DEF tables, TablesTypeOK, LedgerStep
  <2>2. CASE ContinueApplication(r)
    BY <1>1, <2>2, ContinueTypes, ContinueLedger, ContinueHolds
  <2> QED
    BY <2>1, <2>2 DEF ApplicationStep
<1>3. CoreInv'
  BY <1>1, <1>2, ServiceInvPreserved, LedgerInvPreserved DEF ApplicationStep, CoreInv
<1>4. Grows
  BY <1>0, <1>1, <1>2, AuditGrows DEF Grows
<1>5. PICK x \in After : Goto(r, x)
  BY <1>2
<1>6. x.pc \in ApplicationPC \cup {"done"}
  BY <1>5 DEF After, Done, ApplicationRequest, ApplicationPC
<1>7. HandlersInv'
  <2>1. PlacementHolds(x, auditLog', offers', answers', checklists')
    BY <1>6 DEF PlacementHolds, ApplicationPC
  <2> QED
    BY <1>1, <1>4, <1>5, <2>1, PlacementRequestsHold DEF IInv, ServiceInv
<1>8. UploadsInv'
  BY <1>0, <1>1, <1>5, <1>6, UploadsHold DEF IInv, ServiceInv, ApplicationPC
<1>9. OfferRowsInv' /\ OnboardingRowsInv'
  BY <1>0, <1>4 DEF IInv, OfferRowsInv, OnboardingRowsInv, OfferFollowsHire,
                    OnboardingFollowsAcceptance, TasksOf, Grows
<1> QED
  BY <1>3, <1>7, <1>8, <1>9 DEF IInv

-----------------------------------------------------------------------------
(* OffersService. *)

\* The status of an offer is written together with its entry among the answers.
LEMMA OfferWritten ==
    ASSUME OfferRowsInv, NEW a \in Application, offers[a] # None,
           NEW status \in Outcome, WriteOffer(a, status)
    PROVE  /\ OfferRowsInv'
           /\ \A b \in Application : offers[b] # None => offers'[b] # None
           /\ \A b \in Application :
                InLog(answers[b], "ACCEPTED") => InLog(answers'[b], "ACCEPTED")
<1>1. /\ offers' = [offers EXCEPT ![a] = status]
      /\ answers' = [answers EXCEPT ![a] = Append(answers[a], status)]
      /\ auditLog' = auditLog
      /\ status \in OfferStatus /\ status # None
      /\ offers \in [Application -> OfferStatus \cup {None}]
      /\ answers \in [Application -> Seq(Outcome)]
  BY OfferAssumption DEF WriteOffer, tables, OfferRowsInv, Outcome, Answer, OfferStatus
<1>2. /\ offers' \in [Application -> OfferStatus \cup {None}]
      /\ answers' \in [Application -> Seq(Outcome)]
  BY <1>1
<1>3. /\ InLog(answers'[a], status)
      /\ \A x : InLog(answers[a], x) => InLog(answers'[a], x)
  <2>1. answers[a] \in Seq(Outcome) /\ answers'[a] = Append(answers[a], status)
    BY <1>1
  <2> QED
    BY <2>1, AppendKeeps
<1>4. /\ offers'[a] = status
      /\ \A b \in Application \ {a} : offers'[b] = offers[b] /\ answers'[b] = answers[b]
  BY <1>1
<1>5. \A b \in Application : offers'[b] = "ACCEPTED" => InLog(answers'[b], "ACCEPTED")
  BY <1>3, <1>4 DEF OfferRowsInv
<1>6. OfferFollowsHire'
  BY <1>1, <1>4 DEF OfferRowsInv, OfferFollowsHire
<1> QED
  BY <1>1, <1>2, <1>3, <1>4, <1>5, <1>6 DEF OfferRowsInv

\* A handler that starts by reading an offer ends, expires it, or goes on with it.
LEMMA ReadOfferKeeps ==
    ASSUME IInv, NEW r \in Request, NEW a \in Application, NEW wanted, NEW state,
           ReadOffer(r, a, wanted, state),
           UNCHANGED <<tables, offerTables, onboardingTables>>,
           state.pc \notin ApplicationPC \cup {"document"},
           offers[a] = wanted =>
               PlacementHolds(state, auditLog, offers, answers, checklists)
    PROVE  IInv'
<1>1. CASE Goto(r, [pc |-> "expire", app |-> a])
  <2> DEFINE x == [pc |-> "expire", app |-> a]
  <2>1. /\ x.pc \notin ApplicationPC \cup {"document"}
        /\ PlacementHolds(x, auditLog, offers, answers, checklists)
    BY DEF ApplicationPC, PlacementHolds, ReadOffer
  <2> HIDE DEF x
  <2> QED
    BY <1>1, <2>1, RequestReads DEF x
<1>2. CASE offers[a] = wanted /\ Goto(r, state)
  BY <1>2, RequestReads
<1>3. CASE Goto(r, Done)
  <2>1. /\ Done.pc \notin ApplicationPC \cup {"document"}
        /\ PlacementHolds(Done, auditLog, offers, answers, checklists)
    BY DEF ApplicationPC, PlacementHolds, Done
  <2> QED
    BY <1>3, <2>1, RequestReads
<1> QED
  BY <1>1, <1>2, <1>3 DEF ReadOffer

\* An offer is made on a hiring decision that is on record, and answered or expired
\* without the record of that decision or of an earlier answer being touched.
LEMMA OfferSteps ==
    ASSUME IInv, NEW r \in Request, OfferStep(r)
    PROVE  IInv'
<1> DEFINE a == req[r].app
<1>0. UNCHANGED <<checklists, tasks, completed, documents, files>>
  BY DEF OfferStep, onboardingTables
<1>1. ASSUME NEW b \in Application, CreateOfferRead(r, b)
      PROVE  IInv'
  <2> DEFINE x == IF applications[b].status = "HIRED"
                  THEN [pc |-> "offer", app |-> b] ELSE Done
  <2>1. applications[b].status = "HIRED" => InLog(auditLog[b], "hired")
    <3>1. ASSUME applications[b].status = "HIRED"
          PROVE  auditLog[b] # <<>> /\ auditLog[b][Len(auditLog[b])] = "hired"
      BY <1>1, <3>1 DEF CreateOfferRead, IInv, CoreInv, LedgerInv, DecisionsRecorded
    <3>2. auditLog[b] \in Seq(AuditAction)
      BY DEF IInv, CoreInv, TablesTypeOK
    <3>3. auditLog[b] # <<>> => Len(auditLog[b]) \in DOMAIN auditLog[b]
      BY <3>2
    <3> QED
      BY <3>1, <3>3 DEF InLog
  <2>2. /\ x.pc \notin ApplicationPC \cup {"document"}
        /\ PlacementHolds(x, auditLog, offers, answers, checklists)
    BY <2>1 DEF ApplicationPC, PlacementHolds, Done
  <2>3. Goto(r, x) /\ UNCHANGED <<tables, offerTables, onboardingTables>>
    BY <1>0, <1>1 DEF CreateOfferRead, onboardingTables
  <2> HIDE DEF x
  <2> QED
    BY <2>2, <2>3, RequestReads
<1>2. ASSUME NEW b \in Application, GetOffer(r, b)
      PROVE  IInv'
  <2>1. /\ Done.pc \notin ApplicationPC \cup {"document"}
        /\ PlacementHolds(Done, auditLog, offers, answers, checklists)
    BY DEF ApplicationPC, PlacementHolds, Done
  <2> QED
    BY <1>0, <1>2, <2>1, ReadOfferKeeps DEF GetOffer, onboardingTables
<1>3. ASSUME NEW b \in Application, RespondRead(r, b)
      PROVE  IInv'
  <2>1. PICK answer \in Answer :
            ReadOffer(r, b, "SENT", [pc |-> "respond", app |-> b, answer |-> answer])
    BY <1>3 DEF RespondRead
  <2> DEFINE x == [pc |-> "respond", app |-> b, answer |-> answer]
  <2>2. /\ x.pc \notin ApplicationPC \cup {"document"}
        /\ offers[b] = "SENT" =>
             PlacementHolds(x, auditLog, offers, answers, checklists)
    BY OfferAssumption DEF ApplicationPC, PlacementHolds, OfferStatus
  <2>3. UNCHANGED <<tables, offerTables, onboardingTables>>
    BY <1>0, <1>3 DEF RespondRead, onboardingTables
  <2> HIDE DEF x
  <2> QED
    BY <2>1, <2>2, <2>3, ReadOfferKeeps DEF x
<1>4. ASSUME Finish(r), UNCHANGED tables, OfferRowsInv',
             \A b \in Application : offers[b] # None => offers'[b] # None,
             \A b \in Application :
               InLog(answers[b], "ACCEPTED") => InLog(answers'[b], "ACCEPTED")
      PROVE  IInv'
  <2>1. /\ Done.pc \notin ApplicationPC \cup {"document"}
        /\ PlacementHolds(Done, auditLog', offers', answers', checklists')
    BY DEF ApplicationPC, PlacementHolds, Done
  <2>2. Grows
    BY <1>0, <1>4 DEF Grows, tables
  <2>3. CoreInv' /\ HandlersInv'
    BY <1>4, <2>1, <2>2, RequestMoves DEF Finish
  <2>4. UploadsInv'
    BY <1>0, <1>4, <2>1, UploadsHold DEF IInv, CoreInv, ServiceInv, Finish
  <2>5. OnboardingRowsInv'
    BY <1>0, <1>4 DEF IInv, OnboardingRowsInv, OnboardingFollowsAcceptance, TasksOf
  <2> QED
    BY <1>4, <2>3, <2>4, <2>5 DEF IInv
<1>5. CASE CreateOfferInsert(r)
  <2>1. a \in Application /\ InLog(auditLog[a], "hired")
    BY <1>5 DEF CreateOfferInsert, At, IInv, HandlersInv, PlacementHolds
  <2>2. OfferRowsInv' /\ \A b \in Application : offers[b] # None => offers'[b] # None
    BY <1>5, <2>1, OfferAssumption
    DEF CreateOfferInsert, IInv, OfferRowsInv, OfferFollowsHire, OfferStatus, tables
  <2> QED
    BY <1>4, <1>5, <2>2 DEF CreateOfferInsert
<1>6. CASE ExpireIfNeeded(r) \/ RespondUpdate(r)
  <2>1. a \in Application /\ offers[a] # None
    BY <1>6 DEF ExpireIfNeeded, RespondUpdate, At, IInv, HandlersInv, PlacementHolds
  <2>2. PICK status \in Outcome : WriteOffer(a, status) /\ Finish(r)
    BY <1>6 DEF ExpireIfNeeded, RespondUpdate, At, IInv, HandlersInv, PlacementHolds, Outcome
  <2> QED
    BY <1>4, <2>1, <2>2, OfferWritten DEF IInv, WriteOffer
<1> QED
  BY <1>1, <1>2, <1>3, <1>5, <1>6
  DEF OfferStep, BeginOffer, ContinueOffer, JobApplicationOfferController,
      ApplicationOfferController

-----------------------------------------------------------------------------
(* OnboardingService. *)

\* A task that gets an application of a checklist stays with the others it has.
LEMMA TaskInserted ==
    ASSUME OnboardingRowsInv, NEW a \in Application, NEW t \in FreeTasks,
           tasks' = [tasks EXCEPT ![t] = a], checklists' = checklists \cup {a},
           InLog(answers[a], "ACCEPTED"), UNCHANGED <<documents, files, answers>>
    PROVE  OnboardingRowsInv'
<1>1. t \in Task /\ tasks[t] = None /\ tasks \in [Task -> Application \cup {None}]
  BY DEF FreeTasks, OnboardingRowsInv
<1>2. /\ tasks' \in [Task -> Application \cup {None}] /\ tasks'[t] = a
      /\ \A u \in Task \ {t} : tasks'[u] = tasks[u]
  BY <1>1
<1>3. ASSUME NEW b \in checklists'
      PROVE  InLog(answers'[b], "ACCEPTED") /\ TasksOf(b)' # {}
  <2>1. CASE b = a
    BY <1>1, <1>2, <2>1 DEF TasksOf
  <2>2. CASE b \in checklists
    <3>1. InLog(answers[b], "ACCEPTED") /\ b # None
      BY <2>2, OnboardingAssumption DEF OnboardingRowsInv, OnboardingFollowsAcceptance
    <3>2. PICK u \in Task : tasks[u] = b
      BY <2>2 DEF OnboardingRowsInv, OnboardingFollowsAcceptance, TasksOf
    <3>3. tasks'[u] = b
      BY <1>1, <1>2, <3>1, <3>2
    <3> QED
      BY <3>1, <3>3 DEF TasksOf
  <2> QED
    BY <2>1, <2>2
<1>4. \A u \in Task : tasks'[u] # None => tasks'[u] \in checklists'
  BY <1>2 DEF OnboardingRowsInv, OnboardingFollowsAcceptance
<1>5. OnboardingFollowsAcceptance'
  BY <1>3, <1>4 DEF OnboardingFollowsAcceptance
<1> QED
  BY <1>2, <1>5 DEF OnboardingRowsInv

\* Onboarding starts on an acceptance that is on record, and only adds tasks,
\* files and documents to it.
LEMMA OnboardingSteps ==
    ASSUME IInv, NEW r \in Request, OnboardingStep(r)
    PROVE  IInv'
<1> DEFINE a == req[r].app
<1>0. RequestsTyped
  BY DEF IInv, CoreInv, ServiceInv
<1>1. ASSUME NEW b \in Application, ChecklistRead(r, b)
      PROVE  IInv'
  <2> DEFINE x == [pc |-> "checklist", app |-> b]
  <2>1. /\ x.pc \notin ApplicationPC \cup {"document"}
        /\ offers[b] = "ACCEPTED" =>
             PlacementHolds(x, auditLog, offers, answers, checklists)
    BY DEF ApplicationPC, PlacementHolds, IInv, OfferRowsInv
  <2>2. ReadOffer(r, b, "ACCEPTED", x) /\ UNCHANGED <<tables, offerTables, onboardingTables>>
    BY <1>1 DEF ChecklistRead
  <2> HIDE DEF x
  <2> QED
    BY <2>1, <2>2, ReadOfferKeeps
<1>2. ASSUME NEW b \in Application, NEW wants \in Wants, OnChecklist(r, b, wants)
      PROVE  IInv'
  <2> DEFINE x == [pc |-> IF Due(b) THEN "expireFirst" ELSE "findChecklist",
                   app |-> b, wants |-> wants]
  <2>1. /\ x.pc \notin ApplicationPC \cup {"document"}
        /\ PlacementHolds(x, auditLog, offers, answers, checklists)
    BY <1>2 DEF ApplicationPC, PlacementHolds, OnChecklist
  <2>2. Goto(r, x) /\ UNCHANGED <<tables, offerTables, onboardingTables>>
    BY <1>2 DEF OnChecklist
  <2> HIDE DEF x
  <2> QED
    BY <2>1, <2>2, RequestReads
<1>3. CASE FindChecklist(r)
  <2>1. /\ a \in Application /\ req[r].wants \in Wants
        /\ UNCHANGED <<tables, offerTables, onboardingTables>>
    BY <1>3 DEF FindChecklist, At, IInv, HandlersInv, PlacementHolds
  <2>2. PICK x : /\ Goto(r, x)
                 /\ \/ x = Done
                    \/ a \in checklists /\ x = [pc |-> "addTask", app |-> a]
                    \/ /\ req[r].wants # "addTask"
                       /\ \E t \in TasksOf(a) : x = [pc |-> req[r].wants, task |-> t]
    BY <1>3 DEF FindChecklist, Finish
  <2>3. /\ x.pc \notin ApplicationPC \cup {"document"}
        /\ PlacementHolds(x, auditLog, offers, answers, checklists)
    BY <2>1, <2>2 DEF ApplicationPC, PlacementHolds, Done, Wants, TasksOf
  <2> QED
    BY <2>1, <2>2, <2>3, RequestReads
<1>4. CASE ExpireFirst(r)
  <2> DEFINE x == [req[r] EXCEPT !.pc = "findChecklist"]
  <2>1. /\ a \in Application /\ offers[a] # None /\ req[r].wants \in Wants
        /\ req[r] = [pc |-> "expireFirst", app |-> a, wants |-> req[r].wants]
    BY <1>4 DEF ExpireFirst, At, IInv, HandlersInv, PlacementHolds
  <2>2. x = [pc |-> "findChecklist", app |-> a, wants |-> req[r].wants]
    BY <2>1
  <2>3. /\ OfferRowsInv'
        /\ \A b \in Application : offers[b] # None => offers'[b] # None
        /\ \A b \in Application :
             InLog(answers[b], "ACCEPTED") => InLog(answers'[b], "ACCEPTED")
    BY <1>4, <2>1, OfferWritten DEF ExpireFirst, IInv, Outcome
  <2>4. UNCHANGED tables /\ UNCHANGED onboardingTables /\ Goto(r, x)
    BY <1>4 DEF ExpireFirst, WriteOffer
  <2>5. Grows
    BY <2>3, <2>4 DEF Grows, tables, onboardingTables
  <2>6. /\ x.pc \notin ApplicationPC \cup {"document"}
        /\ PlacementHolds(x, auditLog', offers', answers', checklists')
    BY <2>1, <2>2, <2>3 DEF ApplicationPC, PlacementHolds
  <2> HIDE DEF x
  <2>7. CoreInv' /\ HandlersInv'
    BY <2>4, <2>5, <2>6, RequestMoves
  <2>8. UploadsInv' /\ OnboardingRowsInv'
    <3>1. OnboardingRowsInv'
      BY <2>3, <2>4 DEF IInv, OnboardingRowsInv, OnboardingFollowsAcceptance, TasksOf,
                        onboardingTables
    <3> QED
      BY <1>0, <2>4, <2>6, <3>1, UploadsHold DEF IInv, onboardingTables
  <2> QED
    BY <2>3, <2>7, <2>8 DEF IInv
<1>5. ASSUME NEW x, Goto(r, x), x.pc \notin ApplicationPC,
             PlacementHolds(x, auditLog', offers', answers', checklists'),
             UNCHANGED <<tables, offerTables>>, OnboardingRowsInv', UploadsInv',
             checklists \subseteq checklists'
      PROVE  IInv'
  <2>1. Grows
    BY <1>5 DEF Grows, tables, offerTables
  <2>2. CoreInv' /\ HandlersInv'
    BY <1>5, <2>1, RequestMoves
  <2>3. OfferRowsInv'
    BY <1>5 DEF IInv, OfferRowsInv, OfferFollowsHire, tables, offerTables
  <2> QED
    BY <1>5, <2>2, <2>3 DEF IInv
<1>6. Done.pc \notin ApplicationPC \cup {"document"}
      /\ PlacementHolds(Done, auditLog', offers', answers', checklists')
  BY DEF ApplicationPC, PlacementHolds, Done
<1>7. ASSUME Finish(r), UNCHANGED <<tables, offerTables, documents, files>>,
             OnboardingRowsInv', checklists \subseteq checklists'
      PROVE  IInv'
  BY <1>0, <1>5, <1>6, <1>7, UploadsHold DEF IInv, Finish
<1>8. CASE ChecklistInsert(r)
  <2>1. a \in Application /\ InLog(answers[a], "ACCEPTED")
    BY <1>8 DEF ChecklistInsert, At, IInv, HandlersInv, PlacementHolds
  <2>2. OnboardingRowsInv' /\ checklists \subseteq checklists'
    <3>1. CASE UNCHANGED <<checklists, tasks>>
      BY <1>8, <3>1 DEF ChecklistInsert, IInv, OnboardingRowsInv,
                        OnboardingFollowsAcceptance, TasksOf, offerTables
    <3>2. CASE ~ UNCHANGED <<checklists, tasks>>
      BY <1>8, <2>1, <3>2, TaskInserted DEF ChecklistInsert, IInv, offerTables
    <3> QED
      BY <3>1, <3>2
  <2> QED
    BY <1>7, <1>8, <2>2 DEF ChecklistInsert
<1>9. CASE AddTaskInsert(r)
  <2>1. a \in checklists
    BY <1>9 DEF AddTaskInsert, At, IInv, HandlersInv, PlacementHolds
  <2>2. a \in Application /\ InLog(answers[a], "ACCEPTED")
    BY <2>1 DEF IInv, OnboardingRowsInv, OnboardingFollowsAcceptance
  <2>3. OnboardingRowsInv'
    BY <1>9, <2>1, <2>2, TaskInserted DEF AddTaskInsert, IInv, offerTables
  <2> QED
    BY <1>7, <1>9, <2>3 DEF AddTaskInsert
<1>10. CASE CompleteTaskUpdate(r)
  <2>1. OnboardingRowsInv'
    BY <1>10 DEF CompleteTaskUpdate, IInv, OnboardingRowsInv,
                 OnboardingFollowsAcceptance, TasksOf, offerTables
  <2> QED
    BY <1>7, <1>10, <2>1 DEF CompleteTaskUpdate
<1>11. CASE UploadFile(r)
  <2>1. PICK f \in File \ files :
            /\ files' = files \cup {f}
            /\ Goto(r, [pc |-> "document", task |-> req[r].task, file |-> f])
    BY <1>11 DEF UploadFile
  <2> DEFINE x == [pc |-> "document", task |-> req[r].task, file |-> f]
  <2>2. req[r].task \in Task
    BY <1>11 DEF UploadFile, At, IInv, HandlersInv, PlacementHolds
  <2>3. /\ x.pc \notin ApplicationPC
        /\ PlacementHolds(x, auditLog', offers', answers', checklists')
    BY <2>2 DEF ApplicationPC, PlacementHolds
  <2>4. OnboardingRowsInv'
    BY <1>11, <2>1 DEF UploadFile, IInv, OnboardingRowsInv,
                       OnboardingFollowsAcceptance, TasksOf, offerTables
  <2>5. req'[r] = x /\ \A q \in Request \ {r} : req'[q] = req[q]
    BY <1>0, <2>1 DEF RequestsTyped, Goto
  <2>6. documents[f] = None /\ documents' = documents
    BY <1>11 DEF UploadFile, IInv, OnboardingRowsInv
  <2>7. UploadsInv'
    BY <2>1, <2>5, <2>6 DEF IInv, UploadsInv, At
  <2> QED
    BY <1>5, <1>11, <2>1, <2>3, <2>4, <2>7 DEF UploadFile
<1>12. CASE UploadInsert(r)
  <2> DEFINE f == req[r].file
  <2>1. f \in files /\ req[r].task \in Task /\ f \in File
    BY <1>12 DEF UploadInsert, At, IInv, UploadsInv, HandlersInv, PlacementHolds
  <2>2. OnboardingRowsInv'
    BY <1>12, <2>1 DEF UploadInsert, IInv, OnboardingRowsInv,
                       OnboardingFollowsAcceptance, TasksOf, offerTables
  <2>3. req'[r] = Done /\ \A q \in Request \ {r} : req'[q] = req[q]
    BY <1>0, <1>12 DEF RequestsTyped, UploadInsert, Finish, Goto
  <2>4. ASSUME NEW q \in Request, At(q, "document")'
        PROVE  /\ req'[q].file \in files' /\ documents'[req'[q].file] = None
               /\ \A p \in Request :
                    At(p, "document")' /\ req'[p].file = req'[q].file => p = q
    <3>1. q # r /\ req'[q] = req[q] /\ At(q, "document") /\ req[q].file # f
      BY <1>12, <2>3, <2>4 DEF At, Done, UploadInsert, IInv, UploadsInv
    <3>2. documents'[req[q].file] = documents[req[q].file] /\ files' = files
      BY <1>12, <3>1 DEF UploadInsert, IInv, OnboardingRowsInv, UploadsInv,
                         HandlersInv, PlacementHolds, At
    <3> QED
      BY <2>3, <3>1, <3>2 DEF At, Done, IInv, UploadsInv
  <2>5. UploadsInv'
    BY <2>4 DEF UploadsInv
  <2> QED
    BY <1>5, <1>6, <1>12, <2>2, <2>5 DEF UploadInsert, Finish
<1> QED
  BY <1>1, <1>2, <1>3, <1>4, <1>8, <1>9, <1>10, <1>11, <1>12
  DEF OnboardingStep, BeginOnboarding, ContinueOnboarding,
      JobApplicationOnboardingController, ApplicationOnboardingController, Wants

-----------------------------------------------------------------------------
(* Every step. *)

LEMMA StepIInv == IInv /\ [Next]_vars => IInv'
<1> SUFFICES ASSUME IInv, [Next]_vars
             PROVE  IInv'
  OBVIOUS
<1>1. ASSUME NEW r \in Request, ApplicationStep(r) \/ OfferStep(r) \/ OnboardingStep(r)
      PROVE  IInv'
  BY <1>1, ApplicationSteps, OfferSteps, OnboardingSteps
<1>2. ASSUME NEW r \in Request, Fail(r)
      PROVE  IInv'
  <2>1. /\ Lost.pc \notin ApplicationPC \cup {"document"}
        /\ PlacementHolds(Lost, auditLog, offers, answers, checklists)
    BY DEF ApplicationPC, PlacementHolds, Lost
  <2> QED
    BY <1>2, <2>1, RequestReads DEF Fail, Fails
<1>3. CASE Clock \/ UNCHANGED vars
  <2>1. UNCHANGED <<tables, req, offers, answers, onboardingTables>>
    BY <1>3 DEF Clock, Lapse, vars, offerTables
  <2>2. CoreInv'
    BY <2>1, UntouchedInv DEF IInv, CoreInv, TablesTypeOK, tables
  <2>3. OfferRowsInv' /\ OnboardingRowsInv'
    BY <2>1 DEF IInv, OfferRowsInv, OnboardingRowsInv, OfferFollowsHire,
                OnboardingFollowsAcceptance, TasksOf, tables, onboardingTables
  <2>4. HandlersInv' /\ UploadsInv'
    BY <2>1 DEF IInv, HandlersInv, PlacementHolds, UploadsInv, At, tables, onboardingTables
  <2> QED
    BY <2>2, <2>3, <2>4 DEF IInv
<1> QED
  BY <1>1, <1>2, <1>3 DEF Next, Quiescent

\* The keys of the files that a document refers to.
Referred == {f \in File : documents[f] # None}

\* A step of a request that does not cut it off.
Goes(r) ==
    /\ req[r].pc # "lost" /\ req'[r].pc # "lost"
    /\ \A q \in Request : q # r => req'[q] = req[q]

\* Only a failure cuts a request off.
LEMMA StepGoes ==
    ASSUME IInv, NEW r \in Request,
           ApplicationStep(r) \/ OfferStep(r) \/ OnboardingStep(r)
    PROVE  Goes(r)
<1>0. RequestsTyped /\ TablesTypeOK /\ ServiceInv
  BY DEF IInv, CoreInv, ServiceInv
<1>1. ASSUME NEW x, Goto(r, x), x.pc # "lost", req[r].pc # "lost"
      PROVE  Goes(r)
  BY <1>0, <1>1 DEF Goes, RequestsTyped, Goto
<1>2. Idle.pc # "lost" /\ Done.pc # "lost" /\ \A pc : At(r, pc) => req[r].pc = pc
  BY DEF Idle, Done, At
<1>3. CASE ApplicationStep(r)
  <2>1. PICK x \in After : Goto(r, x)
    BY <1>0, <1>3, BeginGoto, ContinueHolds DEF ApplicationStep
  <2>2. x.pc # "lost"
    BY <2>1 DEF After, Done, ApplicationRequest
  <2>3. req[r].pc # "lost"
    <3>1. CASE BeginApplication(r)
      BY <1>0, <1>2, <3>1, BeginGoto DEF Arrives
    <3>2. CASE ContinueApplication(r)
      BY <1>2, <3>2
      DEF ContinueApplication, CreateResolveCv, CreateFindStage, CreateInsert,
          WithdrawUpdate, ScreenReject, ScreenFindNext, ScreenMove, DecideHire,
          DecideReject, Notify
    <3> QED
      BY <1>3, <3>1, <3>2 DEF ApplicationStep
  <2> QED
    BY <1>1, <2>1, <2>2, <2>3
<1>4. ASSUME NEW a \in Application, NEW wanted, NEW state,
             ReadOffer(r, a, wanted, state), state.pc # "lost"
      PROVE  Goes(r)
  <2>1. [pc |-> "expire", app |-> a].pc # "lost"
    OBVIOUS
  <2>2. \E x : Goto(r, x) /\ x.pc # "lost"
    BY <1>2, <1>4, <2>1 DEF ReadOffer
  <2> QED
    BY <1>1, <1>2, <1>4, <2>2 DEF ReadOffer, Arrives
<1>5. CASE OfferStep(r)
  <2>1. ASSUME NEW a \in Application, CreateOfferRead(r, a)
        PROVE  Goes(r)
    <3>1. \E x : Goto(r, x) /\ x.pc # "lost"
      BY <1>2, <2>1 DEF CreateOfferRead
    <3> QED
      BY <1>1, <1>2, <2>1, <3>1 DEF CreateOfferRead, Arrives
  <2>2. ASSUME NEW a \in Application, GetOffer(r, a)
        PROVE  Goes(r)
    BY <1>2, <1>4, <2>2 DEF GetOffer
  <2>3. ASSUME NEW a \in Application, RespondRead(r, a)
        PROVE  Goes(r)
    BY <1>4, <2>3 DEF RespondRead
  <2>4. CASE ContinueOffer(r)
    BY <1>1, <1>2, <2>4
    DEF ContinueOffer, CreateOfferInsert, ExpireIfNeeded, RespondUpdate, Finish
  <2> QED
    BY <1>5, <2>1, <2>2, <2>3, <2>4
    DEF OfferStep, BeginOffer, JobApplicationOfferController, ApplicationOfferController
<1>6. CASE OnboardingStep(r)
  <2>1. ASSUME NEW a \in Application, ChecklistRead(r, a)
        PROVE  Goes(r)
    BY <1>4, <2>1 DEF ChecklistRead
  <2>2. ASSUME NEW a \in Application, NEW wants, OnChecklist(r, a, wants)
        PROVE  Goes(r)
    BY <1>1, <1>2, <2>2 DEF OnChecklist, Arrives
  <2>3. CASE ExpireFirst(r)
    <3>1. [req[r] EXCEPT !.pc = "findChecklist"].pc = "findChecklist"
      BY <2>3 DEF ExpireFirst, At, IInv, HandlersInv, PlacementHolds
    <3> QED
      BY <1>1, <1>2, <2>3, <3>1 DEF ExpireFirst
  <2>4. CASE FindChecklist(r)
    <3>1. req[r].wants \in Wants
      BY <2>4 DEF FindChecklist, At, IInv, HandlersInv, PlacementHolds
    <3>2. PICK x : /\ Goto(r, x)
                   /\ \/ x = Done
                      \/ x = [pc |-> "addTask", app |-> req[r].app]
                      \/ \E t \in Task : x = [pc |-> req[r].wants, task |-> t]
      BY <2>4 DEF FindChecklist, Finish, TasksOf
    <3>3. x.pc # "lost"
      BY <1>2, <3>1, <3>2 DEF Wants
    <3> QED
      BY <1>1, <1>2, <2>4, <3>2, <3>3 DEF FindChecklist
  <2>5. CASE ChecklistInsert(r) \/ AddTaskInsert(r) \/ CompleteTaskUpdate(r)
             \/ UploadFile(r) \/ UploadInsert(r)
    BY <1>1, <1>2, <2>5
    DEF ChecklistInsert, AddTaskInsert, CompleteTaskUpdate, UploadFile, UploadInsert, Finish
  <2> QED
    BY <1>6, <2>1, <2>2, <2>3, <2>4, <2>5
    DEF OnboardingStep, BeginOnboarding, ContinueOnboarding,
        JobApplicationOnboardingController, ApplicationOnboardingController
<1> QED
  BY <1>3, <1>5, <1>6

\* An upload stores its file and then refers to it; no other step does either.
LEMMA StepStores ==
    ASSUME IsFiniteSet(Request), IInv, [Next]_vars
    PROVE  [Storage!Next]_(Storage!storeVars)
<1>1. ASSUME UNCHANGED <<files, documents>>, CutOff' = CutOff
      PROVE  UNCHANGED Storage!storeVars
  BY <1>1 DEF Storage!storeVars
<1>2. ASSUME NEW r \in Request, ApplicationStep(r) \/ OfferStep(r) \/ OnboardingStep(r)
      PROVE  CutOff' = CutOff
  BY <1>2, StepGoes DEF Goes, CutOff, Lost
<1>3. ASSUME NEW r \in Request, ApplicationStep(r) \/ OfferStep(r)
      PROVE  UNCHANGED Storage!storeVars
  BY <1>1, <1>2, <1>3 DEF ApplicationStep, OfferStep, onboardingTables
<1>4. ASSUME NEW r \in Request, OnboardingStep(r)
      PROVE  [Storage!Next]_(Storage!storeVars)
  <2>1. CASE UploadFile(r)
    <3>1. PICK f \in File : files' = files \cup {f} /\ documents' = documents
      BY <2>1 DEF UploadFile
    <3>2. Storage!Store(f)
      BY <1>2, <1>4, <3>1 DEF Storage!Store
    <3> QED
      BY <3>2 DEF Storage!Next
  <2>2. CASE UploadInsert(r)
    <3>1. PICK f \in File : /\ f = req[r].file /\ f \in files /\ req[r].task \in Task
                           /\ documents[f] = None /\ files' = files
      BY <2>2 DEF UploadInsert, At, IInv, UploadsInv, HandlersInv, PlacementHolds
    <3>2. req[r].task # None
      BY <3>1, OnboardingAssumption
    <3>3. /\ documents \in [File -> Task \cup {None}]
          /\ documents' = [documents EXCEPT ![f] = req[r].task]
      BY <2>2, <3>1 DEF UploadInsert, IInv, OnboardingRowsInv
    <3>4. f \in files \ Referred /\ Referred' = Referred \cup {f}
      BY <3>1, <3>2, <3>3 DEF Referred
    <3>5. Storage!Refer(f)
      BY <1>2, <1>4, <3>1, <3>4 DEF Storage!Refer, Referred
    <3> QED
      BY <3>1, <3>5 DEF Storage!Next
  <2>3. CASE UNCHANGED <<files, documents>>
    BY <1>1, <1>2, <1>4, <2>3
  <2> QED
    BY <1>4, <2>1, <2>2, <2>3
    DEF OnboardingStep, BeginOnboarding, ContinueOnboarding, ChecklistRead, OnChecklist,
        JobApplicationOnboardingController, ApplicationOnboardingController,
        ChecklistInsert, ExpireFirst, FindChecklist, AddTaskInsert, CompleteTaskUpdate,
        onboardingTables
<1>5. ASSUME NEW r \in Request, Fail(r)
      PROVE  Storage!Next
  <2>1. r \notin CutOff
    BY <1>5 DEF Fail, Fails, InFlight, CutOff
  <2>2. CutOff' = CutOff \cup {r}
    BY <1>5 DEF Fail, Fails, Goto, IInv, CoreInv, ServiceInv, RequestsTyped, CutOff
  <2>3. IsFiniteSet(CutOff)
    BY FS_Subset DEF CutOff
  <2>4. Cardinality(CutOff') = Cardinality(CutOff) + 1
    BY <2>1, <2>2, <2>3, FS_AddElement
  <2>5. UNCHANGED <<files, documents>>
    BY <1>5 DEF Fail, onboardingTables
  <2> QED
    BY <2>4, <2>5 DEF Storage!Next, Storage!CutOff
<1>6. ASSUME Clock \/ UNCHANGED vars
      PROVE  UNCHANGED Storage!storeVars
  <2>1. UNCHANGED <<files, documents, req>>
    BY <1>6 DEF Clock, Lapse, vars, onboardingTables
  <2> QED
    BY <1>1, <2>1 DEF CutOff
<1> QED
  BY <1>3, <1>4, <1>5, <1>6 DEF Next, Quiescent

-----------------------------------------------------------------------------
(* Who may still write the status of an offer: handlers that found it SENT.    *)

\* The handler that holds x has found the offer of a SENT and has not written it yet.
AnswersOn(x, a) == x.pc \in {"respond", "expire", "expireFirst"} /\ x.app = a

\* What a step may do to an offer that has come to an outcome.
Concludes(a) ==
    /\ offers'[a] \in Outcome
    /\ Answering(a)' \subseteq Answering(a)
    /\ answers'[a] # answers[a] => Answering(a)' # Answering(a)

\* A step adds its request to those that may answer only if it was one of them; it writes
\* the offer, if at all, as one that leaves them.
LEMMA AnswererMoves ==
    ASSUME RequestsTyped, NEW r \in Request, NEW x, Goto(r, x), NEW a \in Application,
           AnswersOn(x, a) => AnswersOn(req[r], a), offers'[a] \in Outcome,
           answers'[a] # answers[a] => AnswersOn(req[r], a) /\ ~ AnswersOn(x, a)
    PROVE  Concludes(a)
<1>1. req'[r] = x /\ \A q \in Request \ {r} : req'[q] = req[q]
  BY DEF Goto, RequestsTyped
<1>2. \A q : q \in Answering(a) <=> q \in Request /\ AnswersOn(req[q], a)
  BY DEF Answering, AnswersOn
<1>3. \A q : q \in Answering(a)' <=> q \in Request /\ AnswersOn(req'[q], a)
  BY DEF Answering, AnswersOn
<1> QED
  BY <1>1, <1>2, <1>3 DEF Concludes

\* The write of an offer by the handler that found it SENT.
LEMMA WriteConcludes ==
    ASSUME IInv, NEW r \in Request, AnswersOn(req[r], req[r].app), req[r].app \in Application,
           NEW status \in Outcome, WriteOffer(req[r].app, status), NEW x, Goto(r, x),
           NEW a \in Application, offers[a] \in Outcome, ~ AnswersOn(x, a)
    PROVE  Concludes(a)
<1>1. RequestsTyped /\ OfferRowsInv
  BY DEF IInv, CoreInv, ServiceInv
<1>2. /\ offers' = [offers EXCEPT ![req[r].app] = status]
      /\ answers' = [answers EXCEPT ![req[r].app] = Append(@, status)]
  BY DEF WriteOffer
<1>3. offers'[a] \in Outcome
  BY <1>1, <1>2 DEF OfferRowsInv
<1>4. answers'[a] # answers[a] => a = req[r].app
  BY <1>1, <1>2 DEF OfferRowsInv
<1> QED
  BY <1>1, <1>3, <1>4, AnswererMoves DEF AnswersOn

\* A handler that starts by reading an offer finds one that is SENT, or writes none.
LEMMA ReadConcludes ==
    ASSUME IInv, NEW r \in Request, NEW b \in Application, NEW wanted, NEW x,
           ReadOffer(r, b, wanted, x), UNCHANGED <<offers, answers>>,
           x.pc = "respond" => x.app = b /\ wanted = "SENT",
           x.pc \notin {"expire", "expireFirst"},
           NEW a \in Application, offers[a] \in Outcome
    PROVE  Concludes(a)
<1>1. RequestsTyped /\ offers[a] # "SENT" /\ offers'[a] \in Outcome /\ answers'[a] = answers[a]
  BY DEF IInv, CoreInv, ServiceInv, Outcome, Answer
<1>2. CASE Goto(r, [pc |-> "expire", app |-> b]) /\ Due(b)
  <2>1. ~ AnswersOn([pc |-> "expire", app |-> b], a)
    BY <1>1, <1>2 DEF AnswersOn, Due
  <2> QED
    BY <1>1, <1>2, <2>1, AnswererMoves
<1>3. CASE Goto(r, x) /\ offers[b] = wanted
  <2>1. ~ AnswersOn(x, a)
    BY <1>1, <1>3 DEF AnswersOn
  <2> QED
    BY <1>1, <1>3, <2>1, AnswererMoves
<1>4. CASE Goto(r, Done)
  <2>1. ~ AnswersOn(Done, a)
    BY DEF AnswersOn, Done
  <2> QED
    BY <1>1, <1>4, <2>1, AnswererMoves
<1> QED
  BY <1>2, <1>3, <1>4 DEF ReadOffer

\* ApplicationsService writes no offer.
LEMMA ApplicationConcludes ==
    ASSUME IInv, NEW r \in Request, ApplicationStep(r), NEW a \in Application,
           offers[a] \in Outcome
    PROVE  Concludes(a)
<1>1. TablesTypeOK /\ ServiceInv /\ RequestsTyped /\ UNCHANGED <<offers, answers>>
  BY DEF IInv, CoreInv, ServiceInv, ApplicationStep, offerTables
<1>2. PICK x \in After : Goto(r, x)
  BY <1>1, BeginGoto, ContinueHolds DEF ApplicationStep
<1>3. ~ AnswersOn(x, a)
  BY <1>2 DEF After, Done, ApplicationRequest, AnswersOn
<1> QED
  BY <1>1, <1>2, <1>3, AnswererMoves

\* The insert makes an offer only where there is none; respond() and the expiry write one
\* that they have found SENT.
LEMMA OfferConcludes ==
    ASSUME IInv, NEW r \in Request, OfferStep(r), NEW a \in Application, offers[a] \in Outcome
    PROVE  Concludes(a)
<1>1. /\ RequestsTyped /\ offers \in [Application -> OfferStatus \cup {None}]
      /\ PlacementHolds(req[r], auditLog, offers, answers, checklists)
      /\ offers[a] \notin {"SENT", None}
  BY OfferAssumption DEF IInv, CoreInv, ServiceInv, HandlersInv, OfferRowsInv, Outcome, Answer,
                         OfferStatus
<1>2. ~ AnswersOn(Done, a)
  BY DEF AnswersOn, Done
<1>3. ASSUME NEW b \in Application, CreateOfferRead(r, b)
      PROVE  Concludes(a)
  <2>1. PICK x \in {Done, [pc |-> "offer", app |-> b]} : Goto(r, x)
    BY <1>3 DEF CreateOfferRead
  <2>2. ~ AnswersOn(x, a)
    BY <2>1 DEF AnswersOn, Done
  <2>3. UNCHANGED <<offers, answers>>
    BY <1>3 DEF CreateOfferRead, offerTables
  <2> QED
    BY <1>1, <2>1, <2>2, <2>3, AnswererMoves
<1>4. ASSUME NEW b \in Application, GetOffer(r, b)
      PROVE  Concludes(a)
  <2>1. PICK x : x = Done
    OBVIOUS
  <2>2. ReadOffer(r, b, "SENT", x) /\ UNCHANGED <<offers, answers>>
    BY <1>4, <2>1 DEF GetOffer, offerTables
  <2>3. x.pc = "done"
    BY <2>1 DEF Done
  <2> QED
    BY <2>2, <2>3, ReadConcludes
<1>5. ASSUME NEW b \in Application, RespondRead(r, b)
      PROVE  Concludes(a)
  <2>1. UNCHANGED <<offers, answers>>
    BY <1>5 DEF RespondRead, offerTables
  <2>2. PICK answer \in Answer :
            ReadOffer(r, b, "SENT", [pc |-> "respond", app |-> b, answer |-> answer])
    BY <1>5 DEF RespondRead
  <2>3. PICK x : x = [pc |-> "respond", app |-> b, answer |-> answer]
    OBVIOUS
  <2>4. ReadOffer(r, b, "SENT", x) /\ x.pc = "respond" /\ x.app = b
    BY <2>2, <2>3
  <2> QED
    BY <2>1, <2>4, ReadConcludes
<1>6. CASE CreateOfferInsert(r)
  <2>1. Goto(r, Done) /\ offers'[a] = offers[a] /\ answers' = answers
    BY <1>1, <1>6 DEF CreateOfferInsert, Finish
  <2> QED
    BY <1>1, <1>2, <2>1, AnswererMoves
<1>7. CASE ExpireIfNeeded(r) \/ RespondUpdate(r)
  <2>1. PICK status \in Outcome : WriteOffer(req[r].app, status)
    BY <1>1, <1>7 DEF ExpireIfNeeded, RespondUpdate, At, PlacementHolds, Outcome
  <2>2. Goto(r, Done) /\ AnswersOn(req[r], req[r].app) /\ req[r].app \in Application
    BY <1>1, <1>7 DEF ExpireIfNeeded, RespondUpdate, At, Finish, PlacementHolds, AnswersOn
  <2> QED
    BY <1>2, <2>1, <2>2, WriteConcludes
<1> QED
  BY <1>3, <1>4, <1>5, <1>6, <1>7
  DEF OfferStep, BeginOffer, ContinueOffer, JobApplicationOfferController,
      ApplicationOfferController

\* Of the handlers of OnboardingService, only those that found the offer due write it.
LEMMA OnboardingConcludes ==
    ASSUME IInv, NEW r \in Request, OnboardingStep(r), NEW a \in Application,
           offers[a] \in Outcome
    PROVE  Concludes(a)
<1>1. /\ RequestsTyped /\ offers[a] # "SENT"
      /\ PlacementHolds(req[r], auditLog, offers, answers, checklists)
  BY DEF IInv, CoreInv, ServiceInv, HandlersInv, Outcome, Answer
<1>2. ASSUME UNCHANGED offerTables, NEW x, Goto(r, x), ~ AnswersOn(x, a)
      PROVE  Concludes(a)
  BY <1>1, <1>2, AnswererMoves DEF offerTables
<1>3. ASSUME NEW b \in Application, ChecklistRead(r, b)
      PROVE  Concludes(a)
  <2>1. UNCHANGED <<offers, answers>>
    BY <1>3 DEF ChecklistRead, offerTables
  <2>2. PICK x : ReadOffer(r, b, "ACCEPTED", x) /\ x.pc = "checklist"
    BY <1>3 DEF ChecklistRead
  <2> QED
    BY <2>1, <2>2, ReadConcludes
<1>4. ASSUME NEW b \in Application, NEW wants, OnChecklist(r, b, wants)
      PROVE  Concludes(a)
  <2>1. PICK x : /\ Goto(r, x) /\ x.app = b
                 /\ x.pc = IF Due(b) THEN "expireFirst" ELSE "findChecklist"
    BY <1>4 DEF OnChecklist
  <2>2. ~ AnswersOn(x, a)
    BY <1>1, <2>1 DEF AnswersOn, Due
  <2> QED
    BY <1>2, <1>4, <2>1, <2>2 DEF OnChecklist
<1>5. CASE ExpireFirst(r)
  <2>1. req[r] = [pc |-> req[r].pc, app |-> req[r].app, wants |-> req[r].wants]
        /\ req[r].app \in Application /\ req[r].pc = "expireFirst"
    BY <1>1, <1>5 DEF ExpireFirst, At, PlacementHolds
  <2>2. PICK x : x = [req[r] EXCEPT !.pc = "findChecklist"] /\ Goto(r, x)
    BY <1>5 DEF ExpireFirst
  <2>3. ~ AnswersOn(x, a) /\ AnswersOn(req[r], req[r].app)
    BY <2>1, <2>2 DEF AnswersOn
  <2>4. WriteOffer(req[r].app, "EXPIRED") /\ "EXPIRED" \in Outcome
    BY <1>5 DEF ExpireFirst, Outcome
  <2> QED
    BY <2>1, <2>2, <2>3, <2>4, WriteConcludes
<1>6. CASE FindChecklist(r)
  <2>1. req[r].wants \in Wants
    BY <1>1, <1>6 DEF FindChecklist, At, PlacementHolds
  <2>2. PICK x : /\ Goto(r, x)
                 /\ \/ x = Done
                    \/ x = [pc |-> "addTask", app |-> req[r].app]
                    \/ \E t \in Task : x = [pc |-> req[r].wants, task |-> t]
    BY <1>6 DEF FindChecklist, Finish, TasksOf
  <2>3. ~ AnswersOn(x, a)
    BY <2>1, <2>2 DEF Done, Wants, AnswersOn
  <2> QED
    BY <1>2, <1>6, <2>2, <2>3 DEF FindChecklist
<1>7. CASE ChecklistInsert(r) \/ AddTaskInsert(r) \/ CompleteTaskUpdate(r) \/ UploadInsert(r)
  <2>1. UNCHANGED offerTables /\ Goto(r, Done) /\ ~ AnswersOn(Done, a)
    BY <1>7 DEF ChecklistInsert, AddTaskInsert, CompleteTaskUpdate, UploadInsert, Finish,
                AnswersOn, Done
  <2> QED
    BY <1>2, <2>1
<1>8. CASE UploadFile(r)
  <2>1. PICK x : Goto(r, x) /\ x.pc = "document"
    BY <1>8 DEF UploadFile
  <2>2. UNCHANGED offerTables /\ ~ AnswersOn(x, a)
    BY <1>8, <2>1 DEF UploadFile, AnswersOn
  <2> QED
    BY <1>2, <2>1, <2>2
<1> QED
  BY <1>3, <1>4, <1>5, <1>6, <1>7, <1>8
  DEF OnboardingStep, BeginOnboarding, ContinueOnboarding, JobApplicationOnboardingController,
      ApplicationOnboardingController

-----------------------------------------------------------------------------
\* The inductive invariant holds in every reachable state.
THEOREM IInvHolds == Spec => []IInv
  BY InitIInv, StepIInv, PTL DEF Spec

\* For any number of requests and any failures, and whatever is written over a hiring
\* decision before the offer is inserted, every offer follows one that was committed.
THEOREM OffersFollowHires == Spec => []OfferFollowsHire
<1>1. IInv => OfferFollowsHire
  BY DEF IInv, OfferRowsInv
<1> QED
  BY <1>1, IInvHolds, PTL

\* For any number of requests and any failures, onboarding starts only after an
\* acceptance, with its tasks, and no task is outside of a checklist.
THEOREM OnboardingFollowsAcceptances == Spec => []OnboardingFollowsAcceptance
<1>1. IInv => OnboardingFollowsAcceptance
  BY DEF IInv, OnboardingRowsInv
<1> QED
  BY <1>1, IInvHolds, PTL

\* The safety part of ImplementsFileStore: for any number of requests, a file is stored
\* before the row of its document, no file and no row goes, and nothing else happens
\* to either.
THEOREM DocumentsFollowFiles ==
    IsFiniteSet(Request) /\ Spec => Storage!Init /\ [][Storage!Next]_(Storage!storeVars)
<1> SUFFICES ASSUME IsFiniteSet(Request)
             PROVE  Spec => Storage!Init /\ [][Storage!Next]_(Storage!storeVars)
  OBVIOUS
<1>1. Init => Storage!Init
  <2> SUFFICES ASSUME Init PROVE Storage!Init
    OBVIOUS
  <2>1. CutOff = {} /\ {f \in File : documents[f] # None} = {} /\ files = {}
    BY DEF Init, RequestsInit, CutOff, Idle, Lost, OnboardingTablesInit
  <2> QED
    BY <2>1, FS_EmptySet DEF Storage!Init
<1>2. IInv /\ [Next]_vars => [Storage!Next]_(Storage!storeVars)
  BY StepStores
<1> QED
  BY <1>1, <1>2, IInvHolds, PTL DEF Spec

\* However many requests are in flight, and however the clock runs: once an offer has come
\* to an outcome, it is written only by handlers that had found it SENT before, once by
\* each, and when they are through the answer stands.
THEOREM AnswersSettle == Spec => AnsweredForGood
<1>1. ASSUME IInv, [Next]_vars, NEW a \in Application, offers[a] \in Outcome
      PROVE  Concludes(a)
  <2>1. ASSUME NEW r \in Request, Fail(r)
        PROVE  Concludes(a)
    <3>1. Goto(r, Lost) /\ ~ AnswersOn(Lost, a) /\ UNCHANGED <<offers, answers>>
      BY <2>1 DEF Fail, Fails, offerTables, AnswersOn, Lost
    <3>2. RequestsTyped
      BY <1>1 DEF IInv, CoreInv, ServiceInv
    <3> QED
      BY <1>1, <3>1, <3>2, AnswererMoves
  <2>2. CASE Clock \/ UNCHANGED vars
    <3>1. UNCHANGED <<req, offers, answers>>
      BY <2>2 DEF Clock, Lapse, vars, offerTables
    <3> QED
      BY <1>1, <3>1 DEF Concludes, Answering
  <2> QED
    BY <1>1, <2>1, <2>2, ApplicationConcludes, OfferConcludes, OnboardingConcludes
    DEF Next, Quiescent
<1>2. IInv /\ [Next]_vars
        => [\A a \in Application : offers[a] \in Outcome => Concludes(a)]_vars
  BY <1>1
<1> QED
  BY <1>2, IInvHolds, PTL DEF Spec, AnsweredForGood, Concludes
=============================================================================
