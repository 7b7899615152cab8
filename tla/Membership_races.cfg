SPECIFICATION Spec
CONSTANTS
    None = None
    o1 = o1
    o2 = o2
    e1 = e1
    e2 = e2
    Email = {e1, e2, e3}
    MailToken = {m1}
    RefreshToken = {}
    SeedUsers = {e1}
    Org = {o1, o2}
    SeedOwners <- OneOwner
    Invitation = {i1, i2}
    Request = {r1, r2, r3, r4}
    MaxInFlight = 2
    Unreliable = {r1}
INVARIANTS
    ReviewsAreAudited AcceptedAreMembers AdmittedOncePerInvitation
