SPECIFICATION Spec
CONSTANTS
    MaxEvents = 3
    MaxFaults = 1
INVARIANTS
    TypeOK
    QuietMeansApplied
    IdleIsOpen
PROPERTIES
    GuardOutlivesRuntime
    LostIsRearmed
