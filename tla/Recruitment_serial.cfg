SPECIFICATION Spec
CONSTANTS
    j1 = j1  j2 = j2  n1 = n1  n2 = n2  s1 = s1  s2 = s2  c1 = c1  a1 = a1
    None = None  Deleted = Deleted
    Job = {j1, j2}
    Stage = {s1, s2, s3, s4}
    StageName = {n1, n2}
    Candidate = {c1}
    Application = {a1, a2}
    Task = {t1, t2}
    File = {f1}
    Request = {r1, r2, r3, r4, r5}
    MaxInFlight = 1
    Unreliable = {r1, r2, r3, r4, r5}
    StageList <- DistinctLists
    MaxStages = 2
    SeedJobs <- PublishedJob
    SeedStages <- TwoStages
    SeedApplications <- InLastStage
SYMMETRY Symmetry
PROPERTIES ImplementsOrderlyLedger KeepsOfferPromise
