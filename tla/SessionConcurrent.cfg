\* Two requests in flight, one operation of each kind of effect.
SPECIFICATION HistorySpec
CONSTANTS
    student = student
    admin = admin
    secret1 = secret1
    secret2 = secret2
    r1 = r1
    r2 = r2
    Grants = {student, admin}
    SeededGrants = student
    OwnPasswords = {secret1}
    AccessTtl = 2
    MaxTokens = 1
    Requests = {r1, r2}
    Ops = {"login", "refresh", "changePassword", "resetPassword", "activate", "deactivate", "reset", "seed", "catalog"}
    Failures = TRUE
SYMMETRY Symmetry
INVARIANTS TypeOK RevocationLatency TemporaryPasswordGated SessionFitsUnlessStray
PROPERTY RevokesAtOnce
