SPECIFICATION Spec
CONSTANTS
    j1 = j1  n1 = n1  s1 = s1  c1 = c1  a1 = a1
    None = None  Deleted = Deleted
    Job = {j1}
    Stage = {s1}
    StageName = {n1}
    Candidate = {c1}
    Application = {a1}
    Interview = {i1, i2, i3}
    Interviewer = {u1, u2}
    SeedMembers = {u1}
    Request = {r1, r2, r3}
    MaxInFlight = 2
    Unreliable = {r1}
    SeedJobs <- MCJobs
    SeedStages <- MCStages
    SeedApplications <- MCApplications
INVARIANTS ReschedulesAreLinked PanelActsOnce
PROPERTY PanelIsNotified
