SPECIFICATION Spec
CONSTANTS
    None = None
    Torn = Torn
    MaxSize = 1
    MaxFiles = 3
    Faults <- AllFaults
    Kills = TRUE
    MaxEvents = 11
    MaxBad = 3
INVARIANTS InOrder OnlyOldestDropped
 
