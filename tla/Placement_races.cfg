SPECIFICATION Spec
CONSTANTS
    j1 = j1  n1 = n1  s1 = s1  c1 = c1  a1 = a1  None = None  Deleted = Deleted
    Job = {j1}
    Stage = {s1}
    StageName = {n1}
    Candidate = {c1}
    Application = {a1}
    Task = {t1, t2}
    File = {f1, f2}
    Request = {r1, r2, r3, r4, r5, r6}
    MaxInFlight = 2
    Unreliable = {r1}
    SeedJobs <- MCJobs
    SeedStages <- MCStages
    SeedApplications <- MCApplications
INVARIANTS OfferFollowsHire OnboardingFollowsAcceptance
PROPERTIES ImplementsFileStore AnsweredForGood
