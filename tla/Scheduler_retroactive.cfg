SPECIFICATION Spec
CONSTANTS
    Workflows = {w1}
    early = early
    late = late
    garbled = garbled
    Schedules <- Expressions
    Occurs <- Instants
    MaxTime = 3
    Faults <- NoFaults
    None = None
INVARIANTS NoRetroactiveFire
