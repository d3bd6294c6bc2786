SPECIFICATION Spec
CONSTANTS
    Users = {u1}
    NoUser = NoUser
    Tokens = {t1, t2}
    NoToken = NoToken
    Requests = {r1, r2}
    Lifetime = 2
    Window = 1
    MaxDay = 2
    Faults <- NoFaults
SYMMETRY Symm
INVARIANTS DisconnectForgets
CHECK_DEADLOCK FALSE
