SPECIFICATION Spec
CONSTANTS
    None = None
    Email = {e1, e2}
    MailToken = {m1}
    RefreshToken = {t1, t2, t3}
    SeedUsers = {e1}
    Request = {r1, r2, r3, r4}
    MaxInFlight = 2
    Unreliable = {}
INVARIANT ResetForcesLogin
