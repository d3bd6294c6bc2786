SPECIFICATION FairSpec
CONSTANTS
    Workflows = {w1}
    early = early
    late = late
    garbled = garbled
    Schedules <- Expressions
    Occurs <- Instants
    MaxTime = 3
    Faults <- AllFaults
    None = None
INVARIANTS TypeOK NoDoubleFire 
PROPERTIES OccurrenceFires
