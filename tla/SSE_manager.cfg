SPECIFICATION FairSpec
CONSTANTS
    Users = {u1}
    Ids = {i1, i2}
    Creds = {c1, c2}
    Handlers = {h1}
    NoId = NoId
    NoCred = NoCred
    NoUser = NoUser
    Faults <- AllFaults
INVARIANTS TypeOK NoOrphan NoDeadEntry
PROPERTIES Converges UnwantedStops ShutdownStopsAll Reconnects ImplementsRegistry
