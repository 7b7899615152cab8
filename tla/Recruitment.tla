----------------------------- MODULE Recruitment -----------------------------
(***************************************************************************)
(* From a job's first draft to onboarding, one request after another:        *)
(* JobsService, ApplicationsService, OffersService and OnboardingService on  *)
(* one database, while the clock runs.                                       *)
(***************************************************************************)
EXTENDS ApplicationsService, JobsService, OnboardingService

vars == <<tables, offerTables, onboardingTables, req>>

Init == TablesInit /\ OfferTablesInit /\ OnboardingTablesInit /\ RequestsInit

ApplicationStep(r) ==
    /\ BeginApplication(r) \/ ContinueApplication(r)
    /\ UNCHANGED <<offerTables, onboardingTables>>

JobStep(r) ==
    /\ BeginJob(r) \/ ContinueJob(r)
    /\ UNCHANGED <<offerTables, onboardingTables>>

OfferStep(r) == (BeginOffer(r) \/ ContinueOffer(r)) /\ UNCHANGED onboardingTables

OnboardingStep(r) == BeginOnboarding(r) \/ ContinueOnboarding(r)

Fail(r) == Fails(r) /\ UNCHANGED <<tables, offerTables, onboardingTables>>

Clock == (\E a \in Application : Lapse(a)) /\ UNCHANGED onboardingTables

\* No request is left to come.
Quiescent == AllDone /\ UNCHANGED vars

Next ==
    \/ \E r \in Request :
         JobStep(r) \/ ApplicationStep(r) \/ OfferStep(r) \/ OnboardingStep(r) \/ Fail(r)
    \/ Clock
    \/ Quiescent

Spec == Init /\ [][Next]_vars
=============================================================================
