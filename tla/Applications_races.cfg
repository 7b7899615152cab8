SPECIFICATION Spec
CONSTANTS
    j1 = j1  n1 = n1  s1 = s1  s2 = s2  s3 = s3  None = None  Deleted = Deleted
    Job = {j1}
    Stage = {s1, s2, s3}
    StageName = {n1}
    Candidate = {c1, c2}
    Application = {a1, a2}
    Request = {r1, r2, r3, r4}
    MaxInFlight = 3
    Unreliable = {r1}
    SeedJobs <- MCJobs
    SeedStages <- MCStages
    SeedApplications <- NoApplications
INVARIANTS OneActiveApplication DecisionsRecorded NotificationsFollowRejections
PROPERTIES ImplementsLedger RejectionsAreNotified SettledForGood
