SPECIFICATION Spec
CONSTANTS
    c1 = c1
    c2 = c2
    c3 = c3
    s1 = s1
    s2 = s2
    s3 = s3
    NoCall = NoCall
    NoSource = NoSource
    Call = {c1, c2, c3}
    Source = {s1, s2, s3}
    MaxEvents = 2
SYMMETRY Symmetry
INVARIANTS
    TypeOK
    PendingIsSelected
    OwnerIsAlive
PROPERTIES
    ReadyIsRunning
    RefutedIsLeft
