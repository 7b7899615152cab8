SPECIFICATION Spec
CONSTANTS
    None = None
    o1 = o1
    o2 = o2
    e1 = e1
    e2 = e2
    Email = {e1, e2}
    MailToken = {m1}
    RefreshToken = {}
    SeedUsers = {e1, e2}
    Org = {o1, o2}
    SeedOwners <- TwoOwners
    Invitation = {i1}
    Request = {r1, r2}
    MaxInFlight = 2
    Unreliable = {}
INVARIANT OwnerRemains
