SPECIFICATION Spec
CONSTANTS
    None = None
    Candidate = {c1}
    Person = {c1}
    Cv = {v1, v2}
    File = {f1, f2}
    ProfileList = {skills}
    TemplateList = {t1}
    MaxRows = 2
    Plan = {free, pro}
    PaidPlan = {pro}
    Pool = {p1}
    University = {u1}
    Request = {r1, r2, r3, r4}
    MaxInFlight = 2
    Unreliable = {r1}
INVARIANTS AttachedCvsRemain OverlapsAloneConcatenate PlanInForceIsPaid PoolsHoldApplicants
PROPERTY ImplementsFileStore
