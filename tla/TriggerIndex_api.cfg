SPECIFICATION Spec
CONSTANTS
    Users = {u1}
    Workflows = {w1}
    Requests = {r1, r2}
    manual = manual
    nightly = nightly
    upload = upload
    Triggers <- Few
    KindOf <- FewKinds
    Manual = manual
    Faults <- AllFaults
    None = None
SYMMETRY Symm
INVARIANTS TypeOK LoneRequestSyncs IndexFollowsStore EventUsersWatched
