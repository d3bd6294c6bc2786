SPECIFICATION Spec
CONSTANTS
    Users = {u1,u2}
    NoUser = NoUser
    Tokens = {t1, t2, t3}
    NoToken = NoToken
    Requests = {r1, r2}
    Lifetime = 2
    Window = 1
    MaxDay = 2
    Faults <- AllFaults
SYMMETRY Symm
INVARIANTS TypeOK StoredNotRevoked LapsesOnlyAfterWindow
CHECK_DEADLOCK FALSE
