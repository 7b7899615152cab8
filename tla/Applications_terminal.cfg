SPECIFICATION Spec
CONSTANTS
    j1 = j1  n1 = n1  s1 = s1  s2 = s2  s3 = s3  None = None  Deleted = Deleted
    Job = {j1}
    Stage = {s1, s2, s3}
    StageName = {n1}
    Candidate = {c1}
    Application = {a1}
    Request = {r1, r2, r3}
    MaxInFlight = 2
    Unreliable = {}
    SeedJobs <- MCJobs
    SeedStages <- MCStages
    SeedApplications <- NoApplications
PROPERTY TerminalStatusIsFinal
