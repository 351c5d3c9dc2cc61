\* Two requests in flight, every operation but the global reset and the seed.
SPECIFICATION Spec
CONSTANTS
    root = root
    alice = alice
    student = student
    r1 = r1
    r2 = r2
    Users = {root, alice}
    Root = root
    Demo = {}
    Operators = {root, alice}
    Requests = {r1, r2}
    Ops = {"create", "grantAdmin", "revokeAdmin", "activate", "deactivate", "delete", "restore", "resetUser"}
    BootstrapConfigured = TRUE

INVARIANT LastActiveAdmin
