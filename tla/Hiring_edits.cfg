SPECIFICATION HiringSpec
CONSTANTS
    j1 = j1  j2 = j2  n1 = n1  n2 = n2  s1 = s1  s2 = s2  None = None  Deleted = Deleted
    Job = {j1, j2}
    Stage = {s1, s2, s3, s4, s5, s6}
    StageName = {n1, n2}
    Candidate = {c1}
    Application = {a1}
    Request = {r1, r2, r3, r4}
    MaxInFlight = 2
    Unreliable = {r1, r2, r3, r4}
    StageList <- RepeatingLists
    MaxStages = 2
    SeedJobs <- DraftJob
    SeedStages <- TwoStages
    SeedApplications <- NoApplications
SYMMETRY Symmetry
INVARIANTS HiringTypeOK PublishedHasStage CreateFindsStage StageOfOwnJob StageIsLastMove
PROPERTIES ArchivedForGood 
