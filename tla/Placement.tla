------------------------------ MODULE Placement ------------------------------
(***************************************************************************)
(* From the hiring decision to onboarding: ApplicationsService,             *)
(* OffersService and OnboardingService on one database, while the clock     *)
(* runs.  Jobs and stages stand still.                                      *)
(***************************************************************************)
EXTENDS ApplicationsService, OnboardingService

vars == <<tables, offerTables, onboardingTables, req>>

Init == TablesInit /\ OfferTablesInit /\ OnboardingTablesInit /\ RequestsInit

ApplicationStep(r) ==
    /\ BeginApplication(r) \/ ContinueApplication(r)
    /\ UNCHANGED <<offerTables, onboardingTables>>

OfferStep(r) == (BeginOffer(r) \/ ContinueOffer(r)) /\ UNCHANGED onboardingTables

OnboardingStep(r) == BeginOnboarding(r) \/ ContinueOnboarding(r)

Fail(r) == Fails(r) /\ UNCHANGED <<tables, offerTables, onboardingTables>>

Clock == (\E a \in Application : Lapse(a)) /\ UNCHANGED onboardingTables

\* No request is left to come.
Quiescent == AllDone /\ UNCHANGED vars

Next ==
    \/ \E r \in Request :
         ApplicationStep(r) \/ OfferStep(r) \/ OnboardingStep(r) \/ Fail(r)
    \/ Clock
    \/ Quiescent

\* Node resumes every await: an upload that has begun is carried on.
Spec == Init /\ [][Next]_vars /\ \A r \in Request : WF_vars(ContinueOnboarding(r))

-----------------------------------------------------------------------------
InLog(log, entry) == \E i \in DOMAIN log : log[i] = entry

\* An offer is only ever made after a hiring decision was committed, even when
\* that decision has been overwritten since.
OfferFollowsHire ==
    \A a \in Application : offers[a] # None => InLog(auditLog[a], "hired")

\* Onboarding starts only after the candidate accepted, even when a concurrent
\* answer or expiry has been written over the acceptance since; the checklist
\* has its tasks from the start, and no task is outside of one.
OnboardingFollowsAcceptance ==
    /\ \A a \in checklists : InLog(answers[a], "ACCEPTED") /\ TasksOf(a) # {}
    /\ \A t \in Task : tasks[t] # None => tasks[t] \in checklists

\* The handlers that have found the offer of a SENT and may still write it.
Answering(a) ==
    {r \in Request :
        req[r].pc \in {"respond", "expire", "expireFirst"} /\ req[r].app = a}

\* What the reads of respond() and expireIfNeeded() do enforce, however requests
\* overlap: an offer that is ACCEPTED, DECLINED or EXPIRED is written over by handlers
\* that were on their way at the time, once by each of them, and by nobody else.  None
\* is added to them, no offer is SENT again, and when they are through, the answer
\* stands for good.
AnsweredForGood ==
    [][\A a \in Application : offers[a] \in Outcome =>
          /\ offers'[a] \in Outcome
          /\ Answering(a)' \subseteq Answering(a)
          /\ answers'[a] # answers[a] => Answering(a)' # Answering(a)]_vars

Storage ==
    INSTANCE FileStore WITH rows <- {f \in File : documents[f] # None},
                            lost <- Cardinality(CutOff)

\* Documents and their files keep the promise of a file store: the file is stored
\* before its row, and deleted by nobody; every stored file gets its row in the end, but
\* for one for each request that was cut off between the upload and the insert.
ImplementsFileStore == Storage!Spec
=============================================================================
